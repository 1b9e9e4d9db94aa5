\* What hashmap_delete leaves behind.
SPECIFICATION FairSpec
CONSTANTS
    Keys <- MCKeys
    Deletable <- MCKeys
    Vals = {1, 2}
    Null = Null
    Tombstone = Tombstone
    Hash <- MCHash
    InitSize = 4
    HighWatermark = 70
    LowWatermark = 50
PROPERTY DeletedIsGone
