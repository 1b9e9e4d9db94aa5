\* The whole interface, hashmap_delete included.
SPECIFICATION FairSpec
CONSTANTS
    Keys <- MCKeys
    Deletable <- MCKeys
    Vals = {1, 2}
    Null = Null
    Tombstone = Tombstone
    Hash <- MCHash
    InitSize = 4
    HighWatermark = 70
    LowWatermark = 50
INVARIANTS TypeOK NeverUnreachable NoNestedRehash UsedCountsBuckets
           ChainsUnbroken NeverGrows
PROPERTY CallsEnd
