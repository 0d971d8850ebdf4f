CONSTANTS
    w1 = w1
    a = a
    b = b
    q = q
    r = r
    Op = {a, b, q}
    NoOp = NoOp
    Meta = Meta
    Worker = {w1}
    Phase <- TwoPhases
    Args <- Chain
    Reads <- QReadsB
    Direct = {b}
    Container = {q}
    MayClose = TRUE
    LowRam = TRUE
    MaxDepth = 4
SPECIFICATION FairSpec
CHECK_DEADLOCK FALSE
INVARIANTS
    RunCountMatches
    OperatorIsLicensed
PROPERTIES
    FinalStays
    JoinReturns
