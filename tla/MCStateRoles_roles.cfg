SPECIFICATION FairSpec
CONSTANTS
    controller = controller
    metadata = metadata
    group = group
    title = title
    artist = artist
    Order <- OneOfEach
    Deferred = {metadata}
    Whole = {controller}
    Group = group
    Fields = {title, artist}
    MaxSent = 2
    MaxConns = 2
INVARIANTS
    Mirrors
PROPERTIES
    Converges
