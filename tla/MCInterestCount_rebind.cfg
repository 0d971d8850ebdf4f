CONSTANTS
    result = result
    calc = calc
    base = base
    Actor = {result, calc, base}
    NoActor = NoActor
    Meta = meta
    Worker = {w}
    NoThread = NoThread
    Units <- NoneDef
    Parent <- NoneDef
    Suppl <- NoneDef
    Calc <- NoneDef
    Ref <- RefDef
    Rebindable = {result}
    Changeable = {}
    MayFail = {}
    MaxHandles = 1
SPECIFICATION RSpec
INVARIANT DecHasInterest
CHECK_DEADLOCK FALSE
