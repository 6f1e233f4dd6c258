SPECIFICATION BoundedSpec
CONSTANTS
    n1 = n1
    c1 = c1
    c2 = c2
    NoNotebook = NoNotebook
    None = None
    Unreadable = Unreadable
    Notebooks <- OneNotebook
    Cells <- TwoCells
    Home <- HomeOf
    Code <- TwoCells
    Contents <- BothCells
    New = {}
    MaxOpen = 1
    MaxChanges = 2
    MaxRuns = 3
    MaxBoth = 3
    MaxOverlapping = 2
INVARIANTS
    SessionTypeOK
PROPERTIES
    ServesJobs
    ShownIsEvaluated
    WorkIsShown
    AnsweredExecutionsEnd
CHECK_DEADLOCK FALSE
