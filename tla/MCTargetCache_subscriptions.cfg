SPECIFICATION Spec
CONSTANTS
    s1 = s1  s2 = s2  f1 = f1  f2 = f2  e1 = e1  e2 = e2  a = a  b = b  px = px  w = w
    Static = {a, b}
    Params = {px}
    Wildcards = {w}
    Nil = Nil
    Absent = Absent
    Objects <- SubscriptionObjects
    MaxWrites = 4
    MaxFaults = 2
INVARIANTS
    TypeOK
    AsyncServed
    RouteServed
    NoStrayRoute
