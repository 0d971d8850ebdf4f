CONSTANTS
    Grid = Grid
    Middle = Middle
    Derived = Derived
    g1 = g1
    g2 = g2
    d1 = d1
    e1 = e1
    t1 = t1
    t2 = t2
    w1 = w1
    Tile = {g1, g2, d1, e1}
    Item = {Grid, Middle, Derived}
    ItemOf <- MCItemOf
    Arg <- MCArg
    Async <- MCAsync
    Level <- MCLevel
    MaxLevel = 2
    Lazy = {Grid, Derived}
    Source = {Grid}
    Thread = {t1, t2, w1}
    Worker = {w1}
    NoThread = NoThread
    NoTile = NoTile
    NrTokens = 1
    NoToken = NoToken
    Throws = {"error", "cancel"}
    Asked <- MCAsked
    MayDrop = {Middle}
    MaxReads = 1
SPECIFICATION FairSpec
INVARIANTS
    HeldIsWhole
    FillsAlone
    RecordsOutliveCalls
    FarmIsSafe
PROPERTIES
    CallsEnd
