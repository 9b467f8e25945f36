\* Sync mode, one compressed key in two parts, two workers that may leave early.
CONSTANTS
    w1 = w1
    w2 = w2
    k1 = k1
    p1 = p1
    p2 = p2
    Workers <- TwoWorkers
    Keys <- OneKey
    Compressed <- OneKey
    NumThreads = 1
    NumFlagSlots = 1
    LenOf <- OneLength
    SyncMode = TRUE
    LeaveEarly = TRUE
    MaxRound = 2
    Parts <- TwoParts
    Followed = p2
SPECIFICATION Spec
INVARIANTS
    WholeUnlessOvertaken
PROPERTIES
    ImplementsServer
CHECK_DEADLOCK FALSE
