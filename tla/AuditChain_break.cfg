SPECIFICATION Spec
CONSTANTS
    Tenant = {"t1"}
    User = {"u1", "u2"}
    Request = {"p", "q"}
    Action = {"x"}
    MaxRow = 2
    MaxDeploy = 0
    MaxTamper = 0
INVARIANTS
    BreakMeansTampering
CHECK_DEADLOCK FALSE
