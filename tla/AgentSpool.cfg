SPECIFICATION FairSpec
CONSTANTS
    N = 5
    Big = {2}
    ChanCap = 2
    MaxBytes = 3
    MaxBreaks = 3
INVARIANTS
    ManagerOrder
    SpoolSound
PROPERTIES
    DropsOldest
    ReplayEnds
CHECK_DEADLOCK FALSE
