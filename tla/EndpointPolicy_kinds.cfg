SPECIFICATION Spec
CONSTANTS
    Host = {"h"}
    Group = {"g"}
    Domain = {"d"}
    Policy = {"p", "q"}
    DeviceKind = {"u", "v"}
    Binary = {"x"}
    Request = {"r1", "r2"}
    MaxPending = 1
    MaxEdit = 3
INVARIANTS
    KindsSeparate
CHECK_DEADLOCK FALSE
