CONSTANTS
    result = result
    calc = calc
    base = base
    Actor = {result, calc, base}
    NoActor = NoActor
    Meta = meta
    Worker = {w}
    NoThread = NoThread
    Units <- NoneDef
    Parent <- NoneDef
    Suppl <- SupplDef
    Calc <- NoneDef
    Ref <- NoneDef
    Rebindable = {}
    Changeable = {}
    MayFail = {result}
    MaxHandles = 1
SPECIFICATION RSpec
INVARIANT FailedReleases
CHECK_DEADLOCK FALSE
