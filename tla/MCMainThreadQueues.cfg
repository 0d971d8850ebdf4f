CONSTANTS
    Main = main
    Worker = {w1}
    NrOpers = 2
    Task = {k1}
    NrLines = 1
    MaxDepth = 4
    MaxSuspends = 1
    MaxMessages = 1
    NoMessage = none
SPECIFICATION FairSpec
INVARIANTS
    OpersInOrder
    TasksAccounted
PROPERTIES
    OpersRun
    LinesRun
    TasksRun
CHECK_DEADLOCK FALSE
