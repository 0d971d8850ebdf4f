CONSTANTS
    Main = main
    Worker = {w1}
    NrOpers = 2
    Task = {k1}
    NrLines = 1
    MaxDepth = 4
    MaxSuspends = 1
    MaxMessages = 1
    NoMessage = none
SPECIFICATION Spec
CHECK_DEADLOCK FALSE
INVARIANT LinesAreFlushed
