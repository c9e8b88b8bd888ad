SPECIFICATION FairSpec
CONSTANTS
    None = None
    NullBuffer = NullBuffer
    EmptyBuffer = EmptyBuffer
    Tags <- MCTags
    AllocFails = FALSE
    MaxStreams = 2
    MaxSeeks = 0
    MaxAudio = 0
    MaxDrops = 0
    RingCap = 2
    InboxCap = 4
    Rapid = {"start"}
    Refusals = FALSE
    Reentrant = FALSE
PROPERTIES
    StartedStreamPlays
CHECK_DEADLOCK FALSE
