CONSTANTS
    Servers = {"server_bw"}
    Modes <- MultiShotModes
    c1 = c1
    c2 = c2
    NoClient = NoClient
    NoRing = NoRing
SPECIFICATION LiveSpec
INVARIANT
    BufferConservation
