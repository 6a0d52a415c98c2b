SPECIFICATION FairSpec
CONSTANTS
    MaxOps = 3
    MaxWorkers = 1
    MaxSessions = 1
    ChildTypes = {"tunnel"}
    MaxChildren = 1
    MaxNews = 9
    Outcomes = {"OperationSuccess", "OperationError", "OperationTimeout",
                "OperationCancelled"}
    Limits = {0}
    Clients <- LiveClients
    MaxData = 0
INVARIANTS
    TypeOK
PROPERTIES
    ImplementsFairService
    Answered
