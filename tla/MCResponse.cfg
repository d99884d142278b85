SPECIFICATION Spec
INVARIANTS
    TypeOK
    RunMatchesCommands
    NotifiedOnce
    StreamComplete
    OneTicket
    EndpointOnRecord
CHECK_DEADLOCK FALSE
