\* Sync mode: with the flag vectors as the code has them, without a slot, a flag
\* that a pull or a finished round needs does not exist.
CONSTANTS
    w1 = w1
    w2 = w2
    w3 = w3
    k1 = k1
    k2 = k2
    Workers <- TwoWorkers
    Keys <- OneKey
    Compressed <- NoKeys
    NumThreads = 1
    NumFlagSlots = 0
    LenOf <- OneLength
    SyncMode = TRUE
    LeaveEarly = FALSE
    MaxRound = 1
SPECIFICATION Spec
INVARIANTS
    FlagsExist
CHECK_DEADLOCK FALSE
