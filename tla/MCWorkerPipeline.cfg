CONSTANTS
    Machines <- AllMachines
    Tensors <- ThreeTensors
    KeyList <- Partitions
    Length <- Lengths
    PartitionBound = 2
    Priority <- Priorities
    Compressed <- FirstTensor
    GroupSize = 2
SPECIFICATION FairSpec
INVARIANTS
    NeverAborts
    NcclOrder
    HeldOnce
    PushStable
    CreditsBalance
PROPERTIES
    CallbackIsComplete
    TrainingFinishes
