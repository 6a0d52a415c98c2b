SPECIFICATION FairSpec
CONSTANTS
    w1 = w1
    w2 = w2
    Workers = {w1, w2}
    Kinds = {"known"}
    Limits = {0, 1}
    MaxJobs = 3
INVARIANTS
    TypeOK
    EachOnce
    AnswersItsRequest
    InOrder
    EnoughAwake
PROPERTIES
    ImplementsDelivery
    QueuedIsRun
    LuaJobAnswered
    ShutdownReturns
