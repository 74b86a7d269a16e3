CONSTANTS
    NoBuf = NoBuf
SPECIFICATION LiveSpec
INVARIANTS
    TypeOK
    BufferConservation
    InFlightBufferOwned
    FramingAligned
    NoAbort
    DeliveredOnExit
    GlobalStart
    KeysExtracted
PROPERTIES
    AllExit
    SetupEnds
