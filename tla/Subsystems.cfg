CONSTANTS
    Scenarios <- MCScenarios
    a = a
    b = b
    chat = chat
    voice = voice
    Clients = {a, b}
    Slots <- MCSlots
    Features = {chat, voice}
    Known <- MCKnown
    Tickets <- MCTickets
    MaxQueued = 2
    MaxSent = 4
    MaxCallbacks = 2
    Fingers = {1, 2}
    Pens = {1, 2}
    Pads = {1, 2}
    MaxEvents = 2
    Sides <- MCSides
    Angles <- MCAngles
    Sources = {1, 2, 3}
    Sounds = {bell}
    Players = {1, 2}
    Length = 3
    Keys <- MCKeys
    Delay = 1
    Lead = 1
    MaxBufferedFrames = 3
    MaxBufferedAudioChunks = 2
    MaxStream = 2
    Channels = 2
    BufferFrames = 3
    Deliveries = {1, 2, 3, 4}
    Savers = {first, second}
    Inodes = {1, 2, 3, 4, 5}
    Middles = {x, y}
    Bytes <- MCBytes
    WindowBytes = 4
    Heights = {1, 2, 3}
    Widths = {1, 2}
    LineLimits = {0, 1, 3}
    ByteLimit = 4
SPECIFICATION Spec
INVARIANTS
    RealtimeAgrees
    InputAgrees
    PlayingAndRecordingAgree
    FilesAgree
    TerminalAgrees
CHECK_DEADLOCK FALSE
