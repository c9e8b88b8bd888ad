SPECIFICATION Spec
CONSTANTS
    i1 = i1
    i2 = i2
    o1 = o1
    o2 = o2
    home = home
    away = away
    None = None
    Inbound = {i1}
    Outbound = {o1, o2}
    Capacity = 1
    Attempts = 1
    Servers = {home}
    ServerOf <- OneServer
    Saved = None
    SameThread = TRUE
    Eager = FALSE
    NoMemory = {}
SYMMETRY Dialled
INVARIANTS
    OnePlace
    
    
