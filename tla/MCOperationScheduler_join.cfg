CONSTANTS
    w1 = w1
    a = a
    b = b
    q = q
    r = r
    Op = {a, b, q, r}
    NoOp = NoOp
    Meta = Meta
    Worker = {w1}
    Phase <- AFirst
    Args <- Join2
    Reads <- RReadsQ
    Direct = {}
    Container = {}
    MayClose = TRUE
    LowRam = TRUE
    MaxDepth = 3
SPECIFICATION Spec
CONSTRAINT OneView
CHECK_DEADLOCK FALSE
INVARIANTS
    WaitersAreNotStarted
    WaitingHasReason
    QueuedMeansScheduled
    UniqueRun
PROPERTIES
    PhaseFence
