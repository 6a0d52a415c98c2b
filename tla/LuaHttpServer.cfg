CONSTANTS
    MaxCalls = 2
    MaxSent = 2
    MaxHandlers = 2
    MaxNested = 2
SPECIFICATION Spec
INVARIANTS
    StreamsEnd
PROPERTIES
    StopReturns
    EveryCallAnswered
CHECK_DEADLOCK FALSE
