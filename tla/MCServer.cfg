SPECIFICATION CFairSpec
CONSTANTS
    c1 = c1
    v1 = v1
    v2 = v2
    v3 = v3
    NoConn = NoConn
    Tombstone = Tombstone
    Conns <- MCConns
    Values <- MCValues
    Keys <- MCKeys
    ValLen <- MCValLen
    InitStores <- MCStores
    Requests <- MCRequests
    MaxStreams = 1
    MaxRangeBytes = 32
    FlushBytes = 11
    Grace = TRUE
    Buffer = 1
    Pipeline = 1
    Faults = {"accept", "net", "engine", "disabled", "toolarge"}
    Reuse = FALSE
    MaxCalls = 2
    ClientFaults = {"timeout", "stop"}
CHECK_DEADLOCK FALSE
INVARIANTS
    ShutdownDrains
    SlotsAreStreams
    StreamWithinCap
    FramingKept
    CallsAnsweredTruly
    AnswersAreOwn
    NilMeansWholeRange
PROPERTIES
    ShutdownCompletes
