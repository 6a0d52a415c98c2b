SPECIFICATION Spec
CONSTANTS
    MaxOps = 3
    MaxWorkers = 3
    MaxSessions = 1
    ChildTypes = {"channel"}
    MaxChildren = 1
    MaxNews = 9
    Outcomes = {"OperationSuccess", "OperationError", "OperationTimeout",
                "OperationCancelled"}
    Limits = {0}
    Clients <- SafetyClients
    MaxData = 1
INVARIANTS
    DecidedOnce
    ClosedForGood
    SessionsAgree
PROPERTIES
    ImplementsService
