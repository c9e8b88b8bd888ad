SPECIFICATION FairSpec
CONSTANTS
    None = None
    NullBuffer = NullBuffer
    EmptyBuffer = EmptyBuffer
    Tags <- MCTags
    AllocFails = FALSE
    MaxStreams = 2
    MaxSeeks = 1
    MaxAudio = 2
    MaxDrops = 1
    RingCap = 3
    InboxCap = 4
    Rapid = {}
    Refusals = FALSE
    Reentrant = TRUE
INVARIANTS
    DecodeBufferReady
    SeekIsExact
    PlaysWhatWasHeard
PROPERTIES
    TeardownsEnd
    SeekKeepsNewAudio
    ImplementsLifecycle
    StartedStreamPlays
    EndIsHeard
CHECK_DEADLOCK FALSE
