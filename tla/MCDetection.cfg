SPECIFICATION Spec
INVARIANTS
    TypeOK
    NoMatchLost
    DedupHolds
    SplitOnlyByWindow
    NoEventLost
    MatchesExactly
    ChainSound
    MonitorsExact
    IndicatorsExact
CHECK_DEADLOCK FALSE
