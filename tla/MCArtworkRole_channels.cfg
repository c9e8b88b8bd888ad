SPECIFICATION FairSpec
CONSTANTS
    cover = cover
    artist = artist
    None = None
    Slots = {cover, artist}
    Gated = {cover}
    QueueCap = 2
    InboxCap = 2
    MaxStreams = 2
    Sends <- TwoStreams
    MaxPayloads = 3
    MaxDrops = 1
    Rapid = {}
INVARIANTS
    NoTornImage
    OneInFlight
    
PROPERTIES
    NothingIsStuck
