CONSTANTS
    result = result
    calc = calc
    base = base
    Actor = {result, calc, base}
    NoActor = NoActor
    Meta = meta
    Worker = {w}
    NoThread = NoThread
    Units <- UnitsDef
    Parent <- ParentDef
    Suppl <- SupplDef
    Calc <- CalcDef
    Ref <- RefDef
    Rebindable = {result}
    Changeable = {result}
    MayFail = {calc}
    MaxHandles = 1
SPECIFICATION FairRSpec
CONSTRAINT NotRaced
PROPERTY
    CallsEnd
INVARIANTS
    AccountedUntilRace
    ObservedUntilRace
    StartsOnMetaUntilRace
CHECK_DEADLOCK FALSE
