CONSTANTS
    Scenarios <- MCCalling
    p = p
    q = q
    Holders = {p, q}
    None = None
    Values = {0, 1}
    InitialSize = 1
    MaxLength = 3
    MaxSize = 2
    InfoHashes = {1, 2}
    Tags = {1, 2}
    Addresses = {1, 2}
    AlertQueue = 3
    Names = {"a"}
    MaxInt <- MCMaxInt
    MaxCInt = 2047
    PerMicro = 2
    PerMilli = 4
    PerSecond = 8
    SecondsPerDay = 3
    EpochYear = 2
    LastYear = 40
    MaxField = 1250
    FractionDigits = 1
    Operands = {0}
    Days = {0}
    Shifts = {0}
    Offsets = {0}
    Trays = {1, 2}
    Centers = {1, 2}
    Keys = {"k"}
    NoKey = NoKey
    Watches = {1, 2}
SPECIFICATION BothSpec
INVARIANT SomeBindingIsSafe
CHECK_DEADLOCK FALSE
