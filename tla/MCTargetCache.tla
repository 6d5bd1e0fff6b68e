--------------------------- MODULE MCTargetCache ---------------------------
(***************************************************************************)
(* Instances of TargetCache for TLC.                                       *)
(***************************************************************************)
EXTENDS TargetCache

CONSTANTS s1, s2, f1, f2, e1, e2, a, b, px, w

Fn(f, r) == [kind |-> "function", space |-> s1, id |-> f, rev |-> r]
Sync(s, p, f) ==
    [kind |-> "subscription", space |-> s, type |-> "sync", event |-> e1, path |-> p,
     function |-> f, rev |-> 1]
Async(s, f, r) ==
    [kind |-> "subscription", space |-> s, type |-> "async", event |-> e1, path |-> <<>>,
     function |-> f, rev |-> r]
CORS(e, p, r) == [kind |-> "cors", space |-> s1, event |-> e, path |-> p, rev |-> r]

\* A function with two contents, and CORS configurations of two methods:
\* nested paths, and two that cannot be in a tree together, one of which
\* cannot be in any.
DirectObjects ==
    {Fn(f1, 1), Fn(f1, 2),
     CORS(e1, <<a>>, 1), CORS(e1, <<a>>, 2), CORS(e1, <<a, b>>, 1),
     CORS(e2, <<a, b>>, 1), CORS(e2, <<w, a, b>>, 1)}

\* Subscribers of one event in two spaces, one of them with two contents,
\* and sync paths: nested ones that are compatible with all others, one of
\* them with two functions, and two that are not compatible.
SubscriptionObjects ==
    {Async(s1, f1, 1), Async(s1, f1, 2), Async(s2, f1, 1),
     Sync(s1, <<a>>, f1), Sync(s1, <<a, px>>, f1), Sync(s1, <<a, px>>, f2),
     Sync(s1, <<b, b>>, f1), Sync(s2, <<b, px>>, f1)}

\* Two subscribers, one of them with two contents.
AsyncObjects == {Async(s1, f1, 1), Async(s1, f1, 2), Async(s1, f2, 1)}
=============================================================================
