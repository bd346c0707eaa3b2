SPECIFICATION Spec
CONSTANTS
    MaxHeight = 3
    MaxRequests = 2
    MaxFaults = 1
    SegmentSize = 2
    ResubmitAfter = 1
    HealAfter = 2
    UseConsensus = TRUE
    EpochKeys = TRUE
    a = a
    b = b
    Snapshots = {a, b}
    LocalCid <- TwoContents
    FailAt <- Nowhere
INVARIANT ConfirmedAreAhead
PROPERTY HealingMovesChain
PROPERTY ImplementsChain
PROPERTY FinalizedIsFinal
PROPERTY HeightAdvancesByOne
CHECK_DEADLOCK FALSE
