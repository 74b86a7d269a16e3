CONSTANTS
    P = 2
    C = 1
    MaxTuples = 2
    MorselSize = 2
    NumBuffers = 3
    SockCap = 1
    UseBudget = FALSE
    UseHashtable = FALSE
    NoBuf = NoBuf
    Input <- MCInputDrop
SPECIFICATION Spec
INVARIANT
    DeliveredOnExit
