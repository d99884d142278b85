SPECIFICATION Spec
INVARIANTS
    TypeOK
    AccessBounded
    CopiesTrue
    SchedulesKept
PROPERTIES
    AccountsGuarded
CHECK_DEADLOCK FALSE
