SPECIFICATION FairSpec
CONSTANTS
    e1 = e1
    e2 = e2
    e3 = e3
    e4 = e4
    e5 = e5
    e6 = e6
    b1 = b1
    b2 = b2
    Executes <- TwoExecutes
    Builds <- OneBuild
    Tops <- SequentialTops
    Kinds = {"outcome", "noform", "unreadable"}
    MaxOut = 1
    MaxFaults = 2
    MaxParallel = 1
INVARIANTS
    TypeOK
    FreshWorldUnlessMisread
    NothingLeftBehind
    PairedExchange
    TokensAreWhole
    ReportedOnce
PROPERTIES
    EachAnswerIsToItsCommand
    Completes
CHECK_DEADLOCK FALSE
