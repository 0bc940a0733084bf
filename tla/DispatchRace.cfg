SPECIFICATION Spec
CONSTANTS
    t1 = t1
    t2 = t2
    t3 = t3
    Tasks = {t1}
    Dispatchers = {d1, d2}
    Operator = op
    Claimers = {d1, d2, op}
    NoLock = NoLock
    Concurrent = 2
    MaxRetries <- NoOverrides
    FailureLimit = 2
    Verbs = {"claim", "spawn", "release", "stale", "crash", "timeout", "fail", "finish", "giveup", "close"}
    Initial = {t1}
    InitialLinks <- NoLinks
    Mishaps = {"death", "error", "budget"}
    Timed = {t1}
    StaleCheck = FALSE
    MaxRuns = 2
    MaxFails = 3
PROPERTIES
    OwnOutcome
    DoneIsFinal
