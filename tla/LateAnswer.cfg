SPECIFICATION CSpec
CONSTANTS
    c1 = c1
    v1 = v1
    v2 = v2
    v3 = v3
    NoConn = NoConn
    Tombstone = Tombstone
    Conns <- MCConns
    Values <- MCValues
    Keys <- MCKeys
    ValLen <- MCValLen
    InitStores <- MCStores
    Requests <- MCRequests
    MaxStreams = 1
    MaxRangeBytes = 32
    FlushBytes = 11
    Grace = TRUE
    Buffer = 1
    Pipeline = 1
    Faults = {}
    Reuse = TRUE
    MaxCalls = 2
    ClientFaults = {"timeout"}
CHECK_DEADLOCK FALSE
INVARIANT
    CallsAnsweredTruly
