SPECIFICATION FairSpec
CONSTANTS
    Runs = {h1, h2}
    MaxTxn = 2
    MaxCancels = 1
INVARIANTS
    TypeOK
    VerdictIsEarned
PROPERTIES
    TransactionsEnd
CHECK_DEADLOCK FALSE
