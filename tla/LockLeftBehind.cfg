SPECIFICATION Spec
CONSTANTS
    t1 = t1
    t2 = t2
    t3 = t3
    Tasks = {t1}
    Dispatchers = {d1}
    Operator = op
    Claimers = {d1, op}
    NoLock = NoLock
    Concurrent = 1
    MaxRetries <- NoOverrides
    FailureLimit = 2
    Verbs = {"claim", "spawn", "heartbeat", "release", "stale", "crash", "timeout", "fail", "finish", "giveup", "pull"}
    Initial = {t1}
    InitialLinks <- NoLinks
    Mishaps = {"error", "clean"}
    Timed = {}
    StaleCheck = FALSE
    MaxRuns = 2
    MaxFails = 3
INVARIANTS
    ClaimOnlyWhileRunning
