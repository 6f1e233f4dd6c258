SPECIFICATION ConcurrentSpec
CONSTANTS
    e1 = e1
    e2 = e2
    e3 = e3
    e4 = e4
    e5 = e5
    e6 = e6
    b1 = b1
    b2 = b2
    Executes <- FourExecutes
    Builds <- NoThreads
    Tops <- ConcurrentTops
    Kinds = {"outcome"}
    MaxOut = 1
    MaxFaults = 1
    MaxParallel = 2
INVARIANTS
    SuccessIsComplete
    InitializedMeansConnected
PROPERTIES
    OnlyWaitsForACL2
CHECK_DEADLOCK FALSE
