SPECIFICATION DFairSpec
CONSTANTS
    Texts <- MCTexts
    Inputs <- MCInputs
    NoTree = NoTree
    MaxTokens = 150
    MapLimit = 12
    MaxCode = 6
    MaxGraph = 36
    ReaderOf <- Reader
    AtEnd <- AtEof
    Parse <- Program
    GraphOf <- Graph
    Generates <- GenGoesThrough
INVARIANTS DTypeOK NothingLost LongestMatch ReadsBack StatusTells LabelsDistinct GraphIsForest
PROPERTY Ends
