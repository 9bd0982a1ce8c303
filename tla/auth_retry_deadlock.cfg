\* One request is enough: the deadlock is between it and itself.
SPECIFICATION FairSpec
CONSTANTS
    Requests = {r1}
    NoRequest = NoRequest
    MaxRetries = 1
    RefreshIssued = {TRUE, FALSE}
    Ops = {o1}
PROPERTIES
    RetriedRequestEnds
CHECK_DEADLOCK FALSE
