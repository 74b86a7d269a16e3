CONSTANTS
    Servers = {"epoll"}
    Modes <- ServedModes
    c1 = c1
    c2 = c2
    NoClient = NoClient
    NoRing = NoRing
SPECIFICATION LiveSpec
INVARIANT
    ExitOnce
