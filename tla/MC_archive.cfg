SPECIFICATION FairSpec
CONSTANTS
    Size = 2
    Buffer = 0
    BehindHead = 1
    AtStart = 4
    MaxHeight = 5
    Asked <- SomeRequests
    Tails = {2, 5}
    MaxFaults = 1
    FailAt <- EveryCall
INVARIANTS
    TypeOK
    NothingIsLost
    RecentIsKept
PROPERTIES
    ArchivedIsRecoverable
    ErrorsOnlyInTransition
    StatusIsHonest
    ImplementsStore
    EverySegmentIsPruned
CHECK_DEADLOCK FALSE
