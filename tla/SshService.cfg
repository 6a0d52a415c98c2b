SPECIFICATION BoundedSpec
CONSTANTS
    MaxOps = 2
    MaxWorkers = 2
    MaxSessions = 2
    ChildTypes = {"channel", "tunnel"}
    MaxChildren = 1
    MaxNews = 2
    Outcomes = {"OperationSuccess"}
    Limits = {0, 1}
INVARIANTS
    TypeOK
    OneEndEach
    TokensFollow
    ShutdownIsClean
    HandlesFollowEvents
PROPERTIES
    TimedOperationEnds
    ShutdownReturns
