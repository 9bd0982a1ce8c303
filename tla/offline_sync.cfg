CONSTANTS
    UploadCount = 3
    Drains = {d1, d2}
    BatchLimit = 2
    MaxRetries = 1
    HandlerMayThrow = TRUE
    FaultBudget = 1
SPECIFICATION FairSpec
INVARIANTS TypeOK NothingDropped RetriesBounded FirstAttemptsInOrder
    HiddenAreUncounted
PROPERTIES QueuedIsAttempted
CHECK_DEADLOCK FALSE
