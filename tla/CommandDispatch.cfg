CONSTANTS
    N = 3
    Streams = {s1}
    None = None
    Untranslatable = {1}
    Refused = {3}
    BatchLimit = 2
    ChanCap = 1
    SendCap = 1
    MaxRuns = 2
    MaxFails = 1
    MaxResent = 0
SPECIFICATION FairSpec
INVARIANTS
    TypeOK
    SucceededWasExecuted
PROPERTIES
    ExpiryKeepsResults
    PendingIsDrained
    DispatchedIsCompleted
