\* The interface as the compiler uses it: put and get.
SPECIFICATION Spec
CONSTANTS
    Keys <- MCKeys
    Deletable = {}
    Vals = {1, 2}
    Null = Null
    Tombstone = Tombstone
    Hash <- MCHash5
    InitSize = 5
    HighWatermark = 70
    LowWatermark = 50
PROPERTY ImplementsMap
