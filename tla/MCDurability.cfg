SPECIFICATION DSpec
CONSTANTS
    k1 = k1
    k2 = k2
    v1 = v1
    v2 = v2
    Tombstone = Tombstone
    Keys <- MCKeys
    Values <- MCValues
    Batches <- MCBatches
    Readers = {}
    MaxSegmentSize = 2
    Compaction = TRUE
    MaxSegId = 3
    MaxWrites = 4
    Faults = {"sync", "append", "uncertain", "dirsync", "create", "scan", "manifest"}
CONSTRAINT Apart
INVARIANTS
    OpenSucceeds
    SealedSynced
    AckedSurvive
