SPECIFICATION BoardSpec
CONSTANTS
    t1 = t1
    t2 = t2
    t3 = t3
    Tasks = {t1, t2, t3}
    Claimers = {c1}
    NoLock = NoLock
    MaxRetries <- NoOverrides
    FailureLimit = 2
    Verbs = {"create", "triage", "link", "unlink", "decompose", "claim", "close", "archive", "delete", "purge", "move", "promote"}
    Initial = {}
    InitialLinks <- NoLinks
    MaxRuns = 1
    MaxFails = 0
INVARIANTS
    Acyclic
PROPERTIES
    NoEarlyStart
SYMMETRY TaskSymmetry
