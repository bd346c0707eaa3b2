SPECIFICATION FairSpec
CONSTANTS
    c1 = c1
    c2 = c2
    c3 = c3
    a = a
    b = b
    d = d
    NoCommit = NoCommit
    NoCid = NoCid
    w1 = w1
    w2 = w2
    poller = poller
    Workers = {w1, w2}
    Poller = poller
    Commits = {c1, c2}
    Begin <- EpochBegin
    End <- EpochEnd
    Cids = {a, b, d}
    Content <- OwnContent
    Anchored = {c2}
    KnownSize = 2
    KnownFirst = 2
    UseConsensus = TRUE
    Statuses = {"ACCEPTED", "FINALIZED", "INDETERMINATE"}
    MayResubmit = FALSE
    MaxFaults = 0
    FailAt = {}
PROPERTIES
    EverythingIsSubmitted
CHECK_DEADLOCK FALSE
