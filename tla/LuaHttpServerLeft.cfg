CONSTANTS
    MaxCalls = 1
    MaxSent = 1
    MaxHandlers = 1
    MaxNested = 1
SPECIFICATION Spec
PROPERTIES
    EndIsTold
CHECK_DEADLOCK FALSE
