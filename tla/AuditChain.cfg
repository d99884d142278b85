SPECIFICATION Spec
CONSTANTS
    Tenant = {"t1", "t2"}
    User = {"u1", "u2"}
    Request = {"p", "q"}
    Action = {"x"}
    MaxRow = 2
    MaxDeploy = 1
    MaxTamper = 1
INVARIANTS
    TypeOK
    ChainIntact
    TamperEvident
PROPERTIES
    AppendOnly
CHECK_DEADLOCK FALSE
