SPECIFICATION FairSpec
CONSTANTS
    MaxHeight = 4
    MaxRequests = 2
    MaxFaults = 0
    SegmentSize = 2
    ResubmitAfter = 1
    HealAfter = 2
    UseConsensus = FALSE
    EpochKeys = TRUE
    a = a
    b = b
    Snapshots = {a, b}
    LocalCid <- TwoContents
    FailAt <- Nowhere
INVARIANT TypeOK
INVARIANT PayloadIndexMatchesChain
PROPERTY EverythingIsFinalized
CHECK_DEADLOCK FALSE
