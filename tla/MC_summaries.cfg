SPECIFICATION Spec
CONSTANTS
    p1 = p1
    p2 = p2
    Pairs = {p1, p2}
    Cap = 1
    MaxCommon = 3
    MaxBlocks = 3
    MaxFaults = 1
    FailAt <- EveryCall
INVARIANTS
    TypeOK
    EntryTrailsItsPayload
    EntryNamesItsPayload
    OneDailyPerSummary
CHECK_DEADLOCK FALSE
