SPECIFICATION DSpec
CONSTANTS
    k1 = k1
    k2 = k2
    v1 = v1
    v2 = v2
    Tombstone = Tombstone
    Keys <- MCKeys
    Values <- MCValues
    Batches <- MCBatches
    Readers = {}
    MaxSegmentSize = 2
    Compaction = FALSE
    MaxSegId = 3
    MaxWrites = 3
    Faults = {"sealUnsynced"}
INVARIANTS
    SealedSynced
