SPECIFICATION Spec
CONSTANTS
    t1 = t1
    t2 = t2
    t3 = t3
    Tasks = {t1}
    Dispatchers = {d1, d2}
    Operator = op
    Claimers = {d1, d2, op}
    NoLock = NoLock
    Concurrent = 1
    MaxRetries <- NoOverrides
    FailureLimit = 2
    Verbs = {"claim", "spawn", "heartbeat", "release", "stale", "crash", "timeout", "fail", "finish", "giveup"}
    Initial = {t1}
    InitialLinks <- NoLinks
    Mishaps = {"budget", "death"}
    Timed = {}
    StaleCheck = FALSE
    MaxRuns = 2
    MaxFails = 3
PROPERTIES
    OwnTurn
