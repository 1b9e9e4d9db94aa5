\* The assertion at the end of rehash.
SPECIFICATION FairSpec
CONSTANTS
    Keys <- MCKeys
    Deletable = {}
    Vals = {1, 2}
    Null = Null
    Tombstone = Tombstone
    Hash <- MCHash
    InitSize = 4
    HighWatermark = 70
    LowWatermark = 50
INVARIANT AssertionHolds
