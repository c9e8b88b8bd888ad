SPECIFICATION FairSpec
CONSTANTS
    p1 = p1
    p2 = p2
    None = None
    Producers = {p1, p2}
    Size = 6
    Sizes = {1, 2, 3}
    Payloads = {1, 2, 3}
INVARIANTS
    Intact
    NoLostWakeup
    RoomWhenEmpty
PROPERTIES
    NobodyStarves
    ImplementsFifo
