\* The queue of two keys, with and without scheduling.
CONSTANTS
    k1 = k1
    k2 = k2
    Keys <- TwoKeys
    NumWorkers = 3
    MaxRound = 2
SPECIFICATION Spec
PROPERTIES
    SingleKeyOrder
