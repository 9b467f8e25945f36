SPECIFICATION Spec
CONSTANTS
    w1 = w1
    w2 = w2
    Workers = {w1, w2}
    Packing = 8
    Settings <- MCSettings
    Gradients <- MCGradients
    Rates <- MCRates
    ServerRates <- MCServerRates
    Mu = 2
    ContentLen = 9
    MaxRound = 2
INVARIANTS
    NothingLost
    ReadNear
    AnswersRead
    LengthsAgree
    FixedSizesFit
