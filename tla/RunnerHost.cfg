SPECIFICATION AllSpec
CONSTANTS
    MaxAttempt = 2
    MaxEvent = 2
    Outcome = {"succeeded"}
    BatchCount = 2
    JournalMax = 2
    TTL = 3
    Margin = 2
    Grace = 1
CONSTRAINT
    FewReportsInFlight
INVARIANTS
    NoOverlap
    LogIsPrefix
    CompletionIsLast
    WorkflowStepsAreAccounted
    HostStateIsAccounted

    
CHECK_DEADLOCK FALSE
