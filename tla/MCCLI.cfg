SPECIFICATION CLISpec
CONSTANTS
    c1 = c1
    c2 = c2
    v1 = v1
    v2 = v2
    NoConn = NoConn
    Tombstone = Tombstone
    Conns <- MCConns
    Values <- MCValues
    Keys <- MCKeys
    ValLen <- MCValLen
    InitStores <- MCStores
    Requests <- MCRequests
    MaxStreams = 1
    MaxRangeBytes = 25
    FlushBytes = 11
    Grace = FALSE
    Buffer = 1
    Pipeline = 1
    Faults = {"engine"}
    Reuse = FALSE
    MaxCalls = 1
    ClientFaults = {"stop"}
    StdoutFails = TRUE
CHECK_DEADLOCK FALSE
SYMMETRY Symmetry
INVARIANTS
    ExitCodesTrue
    DrainLeavesNoDoubt
