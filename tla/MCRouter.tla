------------------------------ MODULE MCRouter ------------------------------
(***************************************************************************)
(* Instances of Router for TLC.                                            *)
(***************************************************************************)
EXTENDS Router, TLC

CONSTANTS r1, r2, w1, w2, s1, s2, e1

MCWorkers == {w1, w2}
Symmetry == Permutations(MCWorkers)

NoLists == [t \in EventTypes |-> {<<>>}]

\* Client events only, with two subscribers.
UserLists == [NoLists EXCEPT !["user"] = {<<s1, s2>>}]

\* Client events and the system events about their processing.
SystemLists ==
    [NoLists EXCEPT !["user"] = {<<s1>>},
                    !["received"] = {<<>>, <<s1>>},
                    !["invoking"] = {<<s1>>, <<s2>>},
                    !["invoked"] = {<<>>},
                    !["failed"] = {<<s1>>}]

\* The same with fewer choices, for liveness.
LiveLists ==
    [NoLists EXCEPT !["received"] = {<<s1>>}, !["user"] = {<<s1>>},
                    !["invoking"] = {<<s1>>}, !["invoked"] = {<<s1>>}]

\* Deliveries the live instance can accept: a client event and the
\* "received", "invoking" and "invoked" events about it.
MaxDeliveries == 4
DeliveriesTaken == \A n \in 1..MaxDeliveries : EventuallyTaken(n)

NoGuards == {}
SystemGuards == {<<s1, "user">>, <<s2, "invoking">>}
=============================================================================
