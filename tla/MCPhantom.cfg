CONSTANTS
    P = 2
    C = 1
    MaxTuples = 2
    MorselSize = 2
    NumBuffers = 3
    StreamCap = 1
    UseBudget = FALSE
    UseHashtable = TRUE
    NoBuf = NoBuf
    Input <- MCInput
SPECIFICATION Spec
INVARIANTS
    NoPhantomInsert
