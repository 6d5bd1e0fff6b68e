SPECIFICATION Spec
CONSTANTS
    None = None
    TypeNames <- ManyTypeNames
    Requests <- FewRequests
    AsyncCount = 2
    Sites <- ListenedSites
    BacklogLength = 2
    Workers = {w1}
CHECK_DEADLOCK FALSE
INVARIANTS
    ResultIsResponse
