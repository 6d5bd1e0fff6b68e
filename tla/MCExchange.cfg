SPECIFICATION Spec
CONSTANTS
    None = None
    TypeNames <- ManyTypeNames
    Requests <- AllRequests
    AsyncCount = 2
    Sites <- ManySites
    BacklogLength = 2
    Workers = {w1, w2}
SYMMETRY Symmetry
CHECK_DEADLOCK FALSE
INVARIANTS
    TypeOK
    AuthorizedOnly
    AuthorizationOwnOrLater
    ExtensionsDelivered
    ReportsTrue
    
    AnswerTellsOutcome
