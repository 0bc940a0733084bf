SPECIFICATION FairSpec
CONSTANTS
    t1 = t1
    t2 = t2
    t3 = t3
    Tasks = {t1}
    Dispatchers = {d1}
    Operator = op
    Claimers = {d1, op}
    NoLock = NoLock
    Concurrent = 1
    MaxRetries <- NoOverrides
    FailureLimit = 2
    Verbs = {"claim", "spawn", "release", "stale", "crash", "timeout", "fail", "finish", "giveup"}
    Initial = {t1}
    InitialLinks <- NoLinks
    Mishaps = {"limited"}
    Timed = {}
    StaleCheck = FALSE
    MaxRuns = 3
    MaxFails = 2
PROPERTIES
    ReadyIsTried
