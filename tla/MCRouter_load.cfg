SPECIFICATION Spec
CONSTANTS
    r1 = r1  r2 = r2  w1 = w1  w2 = w2  s1 = s1  s2 = s2  e1 = e1
    Requests = {r1, r2}
    Workers = {w1, w2}
    BacklogLength = 2
    EventIDs = {e1}
    Subscribers = {s1, s2}
    SyncSubscribers = {}
    SubscriberLists <- UserLists
    Guarded <- NoGuards
    None = None
SYMMETRY Symmetry
INVARIANTS
    StrandedOnlyLate
    BacklogGauge
PROPERTIES
    ImplementsDelivery
