\* Two processes, two tensors, epochs with different clusters.
CONSTANTS
    w1 = w1
    w2 = w2
    t1 = t1
    t2 = t2
    Workers <- TwoWorkers
    Names <- TwoNames
    Size <- Sizes
    Compressed <- TwoNames
    Programs <- OneProgram
    LocalSize <- Devices
    PageSize = 4
    PartitionBytes = 7
    MinCompress = 5
    ReduceRoots <- Roots
    Clusters <- AllClusters
    MaxEpoch = 3
SPECIFICATION FairSpec
INVARIANTS
    KeysAgree
    KeysDistinct
    PushesMeet
    ReduceRootsAgree
    MixedAbortsAsDocumented
    TasksAsInitialised
PROPERTIES
    EpochsEnd
