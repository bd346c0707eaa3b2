SPECIFICATION Spec
CONSTANTS
    c1 = c1
    c2 = c2
    c3 = c3
    a = a
    b = b
    d = d
    NoCommit = NoCommit
    NoCid = NoCid
    w1 = w1
    w2 = w2
    poller = poller
    Workers = {w1, w2}
    Poller = poller
    Commits = {c1, c2}
    Begin <- NoEpoch
    End <- NoEpoch
    Cids = {a, b}
    Content <- OwnContent
    Anchored = {c1, c2}
    KnownSize = 2
    KnownFirst = 2
    UseConsensus = FALSE
    Statuses = {"ACCEPTED", "FINALIZED"}
    MayResubmit = TRUE
    MaxFaults = 1
    FailAt <- EveryLabel
INVARIANTS
    CountedHeightsAreOwn
    AnchorsItsSnapshot
CHECK_DEADLOCK FALSE
