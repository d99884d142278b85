SPECIFICATION FairSpec
CONSTANTS
    Streams = {s1, s2}
    Certs = {f1, f2}
    None = None
    MaxOpen = 2
INVARIANTS
    TypeOK
    LiveMeansOnline
PROPERTIES
    DecommissionEndsStreams
