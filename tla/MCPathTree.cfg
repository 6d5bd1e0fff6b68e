SPECIFICATION Spec
CONSTANTS
    a = a  b = b  c = c  px = px  py = py  w = w
    Static = {a, b, c}
    Params = {px, py}
    Wildcards = {w}
    Routes <- MCRoutes
    Values = {v1, v2}
    MaxPath = 3
    Nil = Nil
INVARIANTS
    OneKind
    ResolveCorrect
    ConflictCheckExact
PROPERTIES
    RoutesKept
