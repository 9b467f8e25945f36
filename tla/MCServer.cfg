\* Sync mode, one compressed key, three workers that may leave early, three
\* rounds.  The server stops when it uses what it has deleted.
CONSTANTS
    w1 = w1
    w2 = w2
    w3 = w3
    k1 = k1
    k2 = k2
    Workers <- ThreeWorkers
    Keys <- OneKey
    Compressed <- OneKey
    NumThreads = 1
    NumFlagSlots = 1
    LenOf <- OneLength
    SyncMode = TRUE
    LeaveEarly = TRUE
    MaxRound = 3
SPECIFICATION FairSpec
INVARIANTS
    TypeOK
    AbortsExplained
    PullAccounting
    Barrier
    MergedNotShared
    SumComplete
    ElementOfOneRound
    ShutdownQuiescent
PROPERTIES
    ImplementsAllReduce
    RequestsAnswered
    EnginesStop
CHECK_DEADLOCK FALSE
