SPECIFICATION ServicesSpec
CONSTANTS
    Requests = {"r1", "r2"}
    Pattern <- OnePattern
    ApprovalTurns = {1, 2}
    Questions = {"q1", "q2"}
    OpenEnded = {"q2"}
    Tickers = {"gateway", "manual"}
    Sync = {"manual"}
    JobKinds = {"once", "recurring"}
    Period = 2
    Grace = 1
    OneShotGrace = 1
    MaxTime = 3
    MaxEdits = 1
    MaxCrashes = 1
    Gateways = {"g1", "g2"}
    MaxSendFailures = 3
    MaxEvents = 2
    MaxGatewayDeaths = 1
    Callers = {"agent", "operator"}
    Agents = {"turn", "other", "second"}
    TurnAgent = "turn"
    Sessions = {"s1", "s2"}
    FirstSession = "s1"
INVARIANTS
    ServicesTypeOK
    ConsentGiven
    NoOrphanRequests
    OpenQuestionsAwaited
    AtMostOnce
    NothingSkipped
    SentOnce
    OneNotice
    OneCompressorAtATime
PROPERTIES
    OneAnswerEach
    EveryAskEnds
    OneShotRuns
    InFlightEnds
    EveryEventTold
    NotToldAgain
    NoticeArrives
    CompressionNotBlocked
CHECK_DEADLOCK FALSE
