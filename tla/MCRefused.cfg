SPECIFICATION Spec
CONSTANTS
    e1 = e1
    e2 = e2
    e3 = e3
    e4 = e4
    e5 = e5
    e6 = e6
    b1 = b1
    b2 = b2
    Executes <- TwoExecutes
    Builds <- NoThreads
    Tops <- OneTopEach
    Kinds = {"outcome", "refused"}
    MaxOut = 0
    MaxFaults = 1
    MaxParallel = 1
INVARIANTS
    FreshWorld
CHECK_DEADLOCK FALSE
