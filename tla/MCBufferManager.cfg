CONSTANTS
    Workers = {w1, w2}
    Loader = ld
    Evictor = ev
    NoFiber = NoFiber
    NumFrames = 3
    MaxPid = 4
    EvictBatch = 1
    FreeTargetPct = 10
    TotalIoFibers = 2
    SubmitAlways = FALSE
    Capacity = 4
    Home <- MCHome
    Vals = {a}
    Zero = Zero
    NoKey = NoKey
    NoVal = NoVal
SPECIFICATION Spec
INVARIANTS
    TypeOK
    FrameAccounting
    NoLostUpdate
    IoLockOwner
    NoLostWakeup
    GuardDiscipline
