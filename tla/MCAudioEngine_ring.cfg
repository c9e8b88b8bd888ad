SPECIFICATION FairSpec
CONSTANTS
    Capacity = 4
    Priming = 2
    Lengths = {1, 3}
    Frames = 2
    MaxWritten = 8
    MaxRead = 12
    MaxStreams = 3
    MaxUnits = 3
    InBand = FALSE
INVARIANTS
    PositionsHold
    
PROPERTIES
    RenderedInOrder
    PrimingEnds
CHECK_DEADLOCK FALSE
