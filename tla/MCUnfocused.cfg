SPECIFICATION FairSpec
CONSTANTS
    n1 = n1
    n2 = n2
    c1 = c1
    c2 = c2
    c3 = c3
    m1 = m1
    NoNotebook = NoNotebook
    None = None
    Unreadable = Unreadable
    Notebooks <- TwoNotebooks
    Cells <- FourCells
    Home <- HomeOf
    Code <- CodeCells
    Contents <- FirstContents
    New <- Empty
    MaxOpen = 1
    MaxChanges = 0
    MaxRuns = 1
PROPERTIES
    ExecutionsEnd
CHECK_DEADLOCK FALSE
