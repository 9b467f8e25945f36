\* Two processes, three lives, a compressed tensor, all manners of suspension.
CONSTANTS
    LocalSize = 2
    Compressed = TRUE
    Manners <- Manner
    MaxStep <- Steps
    MaxLife <- Lives
SPECIFICATION FairSpec
INVARIANTS
    LoopsUseLiveQueues
    WaitingSuffices
    PushOfAllDevices
PROPERTIES
    CallsReturn
CHECK_DEADLOCK FALSE
