SPECIFICATION Spec
CONSTANTS
    Runs = {h1, h2}
    MaxTxn = 2
    MaxCancels = 0
INVARIANTS
    JobFollowsRuns
CHECK_DEADLOCK FALSE
