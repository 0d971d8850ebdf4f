CONSTANTS
    w1 = w1
    a = a
    b = b
    q = q
    r = r
    Op = {a, b, q}
    NoOp = NoOp
    Meta = Meta
    Worker = {w1}
    Phase <- ThreePhases
    Args <- Chain
    Reads <- Nothing
    Direct = {}
    Container = {q}
    MayClose = FALSE
    LowRam = FALSE
    MaxDepth = 4
SPECIFICATION Spec
CHECK_DEADLOCK FALSE
PROPERTIES
    FenceNotBelowActive
