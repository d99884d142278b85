SPECIFICATION FairSpec
CONSTANTS
    Rules = {r1, r2}
    MaxEdits = 3
    MaxOpenEdits = 2
    MaxDeletes = 1
    MaxStreams = 2
    MaxFails = 1
PROPERTIES
    NewestEditIsPushed
CHECK_DEADLOCK FALSE
