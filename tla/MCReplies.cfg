SPECIFICATION Spec
CONSTANTS
    Replies <- SomeReplies
    Constructs <- SomeConstructs
    Thrown = Thrown
    Unfinished = Unfinished
    Null = Null
    Unwritable = Unwritable
INVARIANTS
    TypeOK
    RepliesArrive
    CommandsArrive
    PrintedFormsReadBack
    SuccessIsSent
    ObligationsReadBack
    TransformedFunctionsReadBack
CHECK_DEADLOCK FALSE
