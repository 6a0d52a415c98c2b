SPECIFICATION Spec
CONSTANTS
    MaxCallbacks = 3
    MaxFrames = 4
    HttpThreads = {"t1"}
    MaxRequests = 3
    MaxChunks = 1
    MaxJobs = 3
    MaxOps = 2
    MaxEvents = 2
    MaxProcesses = 2
    Names = {"message", "stopped"}
    MaxNotices = 3
    MaxLoads = 3
    TextureNames = {"logo", "font"}
    Pieces = 2
    Sorts <- CallSorts
    Budgets <- Scenarios
INVARIANTS
    ToldInOrder
    AnsweredOnce
    NothingNotedAtRest
    TablesAgree
    ClosedIsSilent
