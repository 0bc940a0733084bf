SPECIFICATION BoardSpec
CONSTANTS
    t1 = t1
    t2 = t2
    t3 = t3
    Tasks = {t1}
    Claimers = {c1, c2}
    NoLock = NoLock
    MaxRetries <- NoOverrides
    FailureLimit = 3
    Verbs = {"claim", "spawn", "heartbeat", "release", "stale", "crash", "timeout", "fail", "finish", "giveup", "promote", "unblock", "archive", "delete", "schedule", "move", "reclaim", "close", "hold", "create", "park", "triage", "specify", "assign"}
    Initial = {}
    InitialLinks <- NoLinks
    MaxRuns = 2
    MaxFails = 2
INVARIANTS
    TypeOK
    RunPointers
PROPERTIES
    ImplementsLedger
