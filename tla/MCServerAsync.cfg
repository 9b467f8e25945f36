\* Async mode, a compressed and a plain key; the first pull ends the server.
CONSTANTS
    w1 = w1
    w2 = w2
    w3 = w3
    k1 = k1
    k2 = k2
    Workers <- TwoWorkers
    Keys <- TwoKeys
    Compressed <- OneKey
    NumThreads = 2
    NumFlagSlots = 2
    LenOf <- Lengths
    SyncMode = FALSE
    LeaveEarly = FALSE
    MaxRound = 2
SYMMETRY WorkerSymmetry
SPECIFICATION Spec
INVARIANTS
    EngineLoad
    AsyncKeepsPushes
    AsyncPullsFail
CHECK_DEADLOCK FALSE
