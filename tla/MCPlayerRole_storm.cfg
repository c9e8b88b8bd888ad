SPECIFICATION PlayerSpec
CONSTANTS
    None = None
    NullBuffer = NullBuffer
    EmptyBuffer = EmptyBuffer
    Tags <- MCTags
    AllocFails = TRUE
    MaxStreams = 2
    MaxSeeks = 0
    MaxAudio = 1
    MaxDrops = 1
    RingCap = 2
    InboxCap = 2
    Rapid = {"start", "restart", "end", "clear", "drop"}
    Refusals = TRUE
    Reentrant = TRUE
INVARIANTS
    
    HighPerfForStream
CHECK_DEADLOCK FALSE
