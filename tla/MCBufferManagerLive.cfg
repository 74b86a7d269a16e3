CONSTANTS
    Workers = {w1}
    Loader = ld
    Evictor = ev
    NoFiber = NoFiber
    NumFrames = 3
    MaxPid = 4
    EvictBatch = 1
    FreeTargetPct = 10
    TotalIoFibers = 1
    SubmitAlways = FALSE
    Capacity = 4
    Home <- MCHome
    Vals = {a}
    Zero = Zero
    NoKey = NoKey
    NoVal = NoVal
SPECIFICATION Spec
PROPERTIES
    ParkedFibersResume
    LoadCompletes
