SPECIFICATION RSpec
CONSTANTS
    k1 = k1
    k2 = k2
    v1 = v1
    v2 = v2
    Tombstone = Tombstone
    Keys <- MCKeys
    Values <- MCValues
    Batches <- PutBatches
    Readers = {}
    MaxSegmentSize = 1
    Compaction = TRUE
    MaxSegId = 5
    MaxWrites = 5
    Faults = {"midUnlink"}
INVARIANTS
    HintsDescribeData
