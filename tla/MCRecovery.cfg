SPECIFICATION RSpec
CONSTANTS
    k1 = k1
    k2 = k2
    v1 = v1
    v2 = v2
    Tombstone = Tombstone
    Keys <- MCKeys
    Values <- MCValues
    Batches <- MCBatches
    Readers = {}
    MaxSegmentSize = 2
    Compaction = TRUE
    MaxSegId = 5
    MaxWrites = 4
    Faults = {"sync", "create", "dirsync", "manifest", "uncertain", "append", "scan", "unlink"}
CONSTRAINT Apart
INVARIANTS
    HintsDescribeData
    OpenSucceeds
    OpenResolves
PROPERTIES
    NothingLost
