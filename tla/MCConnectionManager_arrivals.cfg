SPECIFICATION Spec
CONSTANTS
    i1 = i1
    i2 = i2
    o1 = o1
    o2 = o2
    home = home
    away = away
    None = None
    Inbound = {i1, i2}
    Outbound = {}
    Capacity = 1
    Attempts = 2
    Servers = {home, away}
    ServerOf <- TwoServers
    Saved = None
    SameThread = TRUE
    Eager = FALSE
    NoMemory = {i1, i2}
INVARIANTS
    
    RetriesAreNursed
    
    NoOrphan
