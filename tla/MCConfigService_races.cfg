SPECIFICATION Spec
CONSTANTS
    f1 = f1  t1 = t1  c1 = c1  a = a  px = px
    g1 = g1  g2 = g2  h1 = h1  h2 = h2
    Static = {a}
    Params = {px}
    Wildcards = {}
    Objects <- AllObjects
    Gateways = {g1, g2}
    Handlers = {h1, h2}
    Home <- TwoHomes
    Stores <- ReadyStores
    StoreMayFail = TRUE
    MayCrash = TRUE
    MaxRequests = 3
    Nil = Nil  None = None  Absent = Absent  Idle = Idle
SYMMETRY Symmetry
INVARIANTS
    TypeOK
    GaugesFollowStore
PROPERTIES
    BrokenOnlyByRace
    ConflictOnlyByRace
    AnswersTrue
