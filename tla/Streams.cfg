SPECIFICATION MCSpec
CONSTANTS
    MaxChunks = 2
    ChunkCap = 1
    TailMax = 1
    MaxCauses = 1
    MaxAsks = 1
    MaxTyped = 1
    MaxShown = 1
    EventCap = 1
    InputCap = 1
    MaxWrites = 2
    MaxFrames = 2
    FrameCap = 1
    Tabs = {b1, b2}
    Peers = {p1, p2}
    MAX_PENDING_STATES = 1
    STATE_TTL = 1
    MAX_ATTEMPTS = 2
    MAX_TRACKED_PEERS = 1
    ATTEMPT_WINDOW = 2
    MaxOpens = 2
    MaxNow = 2
    MaxUpload = 2
    BodyCap = 1
    MaxReply = 2
    WireCap = 2
INVARIANTS
    OutputHonest
    DrainExact
    ClosedIsLast
    FramesInOrder
    LoginsKept
    WholeOrCut
PROPERTIES
    CommandReaped
    TerminalEnds
    AskSettles
    NavigationEnds
    Released
CHECK_DEADLOCK FALSE
