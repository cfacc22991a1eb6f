SPECIFICATION Spec
CONSTANTS
    k1 = k1
    k2 = k2
    v1 = v1
    v2 = v2
    Tombstone = Tombstone
    Keys <- MCKeys
    Values <- MCValues
    Batches <- MCBatches
    Readers = {r1}
    MaxSegmentSize = 1
    Compaction = TRUE
    MaxSegId = 5
    MaxWrites = 3
    Faults = {"sync", "create", "dirsync", "manifest", "uncertain", "append", "scan", "hint", "unlink"}
INVARIANTS
    IndInv
    KeydirResolves
    SnapshotReads
    ManifestHoldsData
    OnlyActiveTorn
PROPERTIES
    SealedImmutable
    Linearizable
