CONSTANTS
    Servers = {"server_bw", "epoll", "pingpong", "zc_recv"}
    Modes <- ServedModes
    c1 = c1
    c2 = c2
    NoClient = NoClient
    NoRing = NoRing
SPECIFICATION LiveSpec
INVARIANTS
    TypeOK
    BufferConservation
    NoAbort
    ServedOnExit
    
    BufExclusive
PROPERTIES
    AllExit
