SPECIFICATION FairSpec
CONSTANTS
    a = a
    b = b
    None = None
    Conns = {a, b}
    BurstSize = 2
    InboxCap = 2
    Errors = {0, 1, 2}
    MaxSent = 3
INVARIANTS
    BurstConsistent
    FilterIsClean
PROPERTIES
    BurstEnds
CHECK_DEADLOCK FALSE
