CONSTANTS
    p = p
    d = d
    c1 = c1
    c2 = c2
    Item = {p, d}
    Ctx = {c1, c2}
    Root <- RootDef
    Result <- ResultDef
    Target <- TargetDef
    Meta = meta
    Worker = {w}
    NoCtx = NoCtx
    NoThread = NoThread
    MayFail = TRUE
SPECIFICATION Spec
INVARIANT CalledIsReady
CHECK_DEADLOCK FALSE
