SPECIFICATION FairSpec
CONSTANTS
    Senders = {"a", "b", "c"}
    Scenarios <- AllScenarios
    CommandsFail = TRUE
    SlowUnwind = TRUE
    MaxDepth = 1
    MaxTasks = 4
    MaxMessages = 4
INVARIANTS
    SessionTypeOK
    MessagesAccounted
    AnsweredOnce
    OneTurnAtATime
    NothingLostUnprompted
    TextsInOrder
    NothingStranded
PROPERTIES
    EveryMessageServed
CHECK_DEADLOCK FALSE
