SPECIFICATION FairSpec
CONSTANTS
    Callers = {p1}
    Manual = {m1}
    Loop = {l1}
    Readers = {}
    Closers = {c1}
    NoOne = NoOne
    QueueDepth = 1
    SyncOnPut = FALSE
    Faults = {"manifest"}
PROPERTIES
    CallsReturn
    CloseReturns
