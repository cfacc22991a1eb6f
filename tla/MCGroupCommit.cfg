SPECIFICATION Spec
CONSTANTS
    Callers = {p1, p2, p3}
    Manual = {m1}
    Loop = {}
    Readers = {r1}
    Closers = {c1, c2}
    NoOne = NoOne
    QueueDepth = 2
    SyncOnPut = TRUE
    Faults = {"append", "sync", "uncertain", "manifest"}
SYMMETRY CallerSymmetry
INVARIANTS
    AnswersAreTrue
    CommittedNotCleanedUp
    QuietAfterClose
    CleanCloseIsDurable
