CONSTANTS
    g1 = g1
    g2 = g2
    c1 = c1
    w1 = w1
    Group = {g1, g2}
    Caller = {c1}
    Worker = {w1}
    MetaThread = {c1}
    NoGroup = NoGroup
    MaxLast = 2
    MaxDepth = 3
    MaxEntries = 2
    Timeouts = TRUE
SPECIFICATION FairSpec
INVARIANTS
    NoUseAfterDestroy
    TicketAccounting
    SlotOnce
    JoinComplete
    WorkerBound
    AwaitAllCommissioned
    LoopInv
PROPERTIES
    ImplementsTileLoop
    GroupEnds
