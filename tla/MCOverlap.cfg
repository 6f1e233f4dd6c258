SPECIFICATION WholeTokensSpec
CONSTANTS
    e1 = e1
    e2 = e2
    e3 = e3
    e4 = e4
    e5 = e5
    e6 = e6
    b1 = b1
    b2 = b2
    Executes <- TwoExecutes
    Builds <- NoThreads
    Tops <- OneTopEach
    Kinds = {"outcome"}
    MaxOut = 0
    MaxFaults = 0
    MaxParallel = 2
INVARIANTS
    FreshWorld
CHECK_DEADLOCK FALSE
