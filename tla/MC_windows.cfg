SPECIFICATION FairSpec
CONSTANTS
    volume = volume
    reserves = reserves
    NoCache = NoCache
    Projects = {volume, reserves}
    Volume = volume
    Reserves = reserves
    Series <- PairSeries
    First <- PairFirst
    Day = 1
    Week = 2
    AdjustCycles = 1
    MaxHeight = 5
    MaxEmpty = 1
    MaxFaults = 1
    MaxLogs = 3
    FailAt <- EveryCall
INVARIANTS
    TypeOK
    NothingInPeriodIsLost
    SumsAreExact
    LogsKeepWindow
PROPERTIES
    HeadNeverMovesBack
    SumsCatchUp
CHECK_DEADLOCK FALSE
