SPECIFICATION Spec
CONSTANTS
    Replies <- SomeReplies
    Constructs <- SomeConstructs
    Thrown = Thrown
    Unfinished = Unfinished
    Null = Null
    Unwritable = Unwritable
INVARIANTS FailureIsNoSuccess
CHECK_DEADLOCK FALSE
