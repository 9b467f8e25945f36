CONSTANTS
    Machines <- CrossSwitch
    Tensors <- ThreeTensors
    KeyList <- Partitions
    Length <- Lengths
    PartitionBound = 2
    Priority <- Priorities
    Compressed <- FirstTensor
    GroupSize = 2
SPECIFICATION Spec
PROPERTIES
    CallbackIsCompleteAcrossPcie
