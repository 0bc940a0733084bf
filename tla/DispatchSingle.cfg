SPECIFICATION Spec
CONSTANTS
    t1 = t1
    t2 = t2
    t3 = t3
    Tasks = {t1}
    Dispatchers = {d1}
    Operator = op
    Claimers = {d1, op}
    NoLock = NoLock
    Concurrent = 1
    MaxRetries <- NoOverrides
    FailureLimit = 2
    Verbs = {"claim", "spawn", "heartbeat", "release", "stale", "crash", "timeout", "fail", "finish", "giveup"}
    Initial = {t1}
    InitialLinks <- NoLinks
    Mishaps = {"clean", "error", "limited", "plain", "hang"}
    Timed = {t1}
    StaleCheck = TRUE
    MaxRuns = 3
    MaxFails = 3
INVARIANTS
    DispatchTypeOK
    OneWorkerPerTask
    BoundedFailures
    ClaimOnlyWhileRunning
