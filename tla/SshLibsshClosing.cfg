SPECIFICATION ClosingSpec
CONSTANTS
    MaxOps = 4
    MaxWorkers = 1
    MaxSessions = 1
    ChildTypes = {"channel"}
    MaxChildren = 2
    MaxNews = 9
    Outcomes = {"OperationSuccess", "OperationError", "OperationTimeout",
                "OperationCancelled"}
    Limits = {0}
    Clients <- ClosingClients
    MaxData = 0
INVARIANTS
    SomeCloseIsFinal
CHECK_DEADLOCK FALSE
