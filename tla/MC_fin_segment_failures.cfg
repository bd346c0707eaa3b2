SPECIFICATION Spec
CONSTANTS
    MaxHeight = 5
    MaxRequests = 1
    MaxFaults = 1
    SegmentSize = 2
    ResubmitAfter = 9
    HealAfter = 2
    UseConsensus = FALSE
    EpochKeys = TRUE
    a = a
    b = b
    Snapshots = {a, b}
    LocalCid <- TwoContents
    FailAt <- OutsideBlockUpdate
INVARIANT SegmentsTile
INVARIANT ChainIsLinked
CHECK_DEADLOCK FALSE
