-------------------------- MODULE MCConfigService --------------------------
(***************************************************************************)
(* Instances of ConfigService for TLC.                                     *)
(***************************************************************************)
EXTENDS ConfigAPI

CONSTANTS f1, t1, c1, a, px, g1, g2, h1, h2

Fn(f) == [kind |-> "function", id |-> f]
Type(t, f) == [kind |-> "eventtype", id |-> t, authorizer |-> f]
Sub(type, p, f) ==
    [kind |-> "subscription", type |-> type, eventType |-> t1, path |-> p, function |-> f]
CORS(c) == [kind |-> "cors", id |-> c]

\* An event type with and without an authorizer, two sync paths that
\* conflict and an async subscription with one of these paths.
AllObjects ==
    {Fn(f1), Type(t1, None), Type(t1, f1), CORS(c1),
     Sub("sync", <<a>>, f1), Sub("sync", <<px>>, f1), Sub("async", <<a>>, f1)}

Holding(S) == [k \in Keys |-> IF \E o \in S : Key(o) = k THEN CHOOSE o \in S : Key(o) = k ELSE Absent]

\* A store that is ready for subscriptions.
ReadyStores == {Holding({Fn(f1), Type(t1, None)})}

TwoHomes == [h \in {h1, h2} |-> IF h = h1 THEN g1 ELSE g2]

\* The gateways may be exchanged together with their handlers.
Symmetry ==
    {p \in Permutations({h1, h2, g1, g2}) :
        \A h \in {h1, h2} : p[h] \in {h1, h2} /\ TwoHomes[p[h]] = p[TwoHomes[h]]}
=============================================================================
