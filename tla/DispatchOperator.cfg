SPECIFICATION Spec
CONSTANTS
    t1 = t1
    t2 = t2
    t3 = t3
    Tasks = {t1}
    Dispatchers = {d1}
    Operator = op
    Claimers = {d1, op}
    NoLock = NoLock
    Concurrent = 1
    MaxRetries <- NoOverrides
    FailureLimit = 2
    Verbs = {"claim", "spawn", "release", "stale", "crash", "timeout", "fail", "finish", "giveup", "unblock", "hold", "pull", "archive", "close", "move", "reclaim", "promote"}
    Initial = {t1}
    InitialLinks <- NoLinks
    Mishaps = {"error"}
    Timed = {}
    StaleCheck = FALSE
    MaxRuns = 2
    MaxFails = 1
PROPERTIES
    ImplementsBoard
