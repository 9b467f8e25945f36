\* Sync mode, a plain key in two parts: an answer with parts of two rounds.
CONSTANTS
    w1 = w1
    w2 = w2
    k1 = k1
    p1 = p1
    p2 = p2
    Workers <- TwoWorkers
    Keys <- OneKey
    Compressed <- NoKeys
    NumThreads = 1
    NumFlagSlots = 1
    LenOf <- OneLength
    SyncMode = TRUE
    LeaveEarly = FALSE
    MaxRound = 2
    Parts <- TwoParts
    Followed = p2
SYMMETRY WorkerSymmetry
SPECIFICATION Spec
INVARIANTS
    ExactAnswer
CHECK_DEADLOCK FALSE
