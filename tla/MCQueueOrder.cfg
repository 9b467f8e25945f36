\* The scheduled queue of two keys takes messages of a key out of order.
CONSTANTS
    k1 = k1
    k2 = k2
    Keys <- TwoKeys
    NumWorkers = 3
    MaxRound = 1
SPECIFICATION Spec
PROPERTIES
    KeyOrder
