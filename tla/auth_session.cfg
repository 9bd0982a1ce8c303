\* Two requests, one retry, two overlapping calls of AuthCubit.
SPECIFICATION FairSpec
CONSTANTS
    Requests = {r1, r2}
    NoRequest = NoRequest
    MaxRetries = 1
    RefreshIssued = {TRUE}
    Ops = {o1, o2}
INVARIANTS
    TypeOK
    SingleRefresh
    SendsBounded
    ShownSessionHasToken
PROPERTIES
    RequestsAnswered
    RefreshRenewsOrSignsOut
CHECK_DEADLOCK FALSE
