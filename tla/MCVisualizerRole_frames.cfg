SPECIFICATION FairSpec
CONSTANTS
    RingCap = 2
    MaxFrames = 2
    MaxBoundaries = 3

    
    
PROPERTIES
    StopEnds
CHECK_DEADLOCK FALSE
