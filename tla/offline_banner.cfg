CONSTANTS
    UploadCount = 1
    Drains = {d1}
    BatchLimit = 2
    MaxRetries = 2
    HandlerMayThrow = FALSE
    FaultBudget = 0
SPECIFICATION FairSpec
PROPERTIES QueuedIsShown
CHECK_DEADLOCK FALSE
