--------------------------- MODULE EventualCache ---------------------------
(***************************************************************************)
(* What the router may expect when it looks up a function or an event      *)
(* type (src/internal/cache/target.go): for each key a queue of what the   *)
(* store held since the watcher was connected leads to the view the router *)
(* has.  The view follows the writes of its key in their order, and skips  *)
(* some of them only at a new connection, which shows what exists then; it *)
(* never goes back while the gateway runs.                                 *)
(*                                                                         *)
(* What is deleted while there is no connection stays in the view.         *)
(***************************************************************************)
EXTENDS Integers, Sequences

CONSTANTS
    Keys, Values, Absent,
    Watchers,
    WatcherOf   \* key -> the watcher that follows it

VARIABLES store, connected, pending, view

vars == <<store, connected, pending, view>>

Followed(w) == {k \in Keys : WatcherOf[k] = w}

Init ==
    /\ store = [k \in Keys |-> Absent]
    /\ connected = [w \in Watchers |-> FALSE]
    /\ pending = [k \in Keys |-> <<>>]
    /\ view = [k \in Keys |-> Absent]

Write(k, v) ==
    /\ store' = [store EXCEPT ![k] = v]
    /\ pending' = IF connected[WatcherOf[k]] THEN [pending EXCEPT ![k] = Append(@, v)] ELSE pending
    /\ UNCHANGED <<connected, view>>

Connect(w) ==
    /\ ~connected[w]
    /\ \A k \in Followed(w) : pending[k] = <<>>
    /\ connected' = [connected EXCEPT ![w] = TRUE]
    /\ pending' = [k \in Keys |-> IF k \in Followed(w) /\ store[k] # Absent
                                  THEN <<store[k]>> ELSE pending[k]]
    /\ UNCHANGED <<store, view>>

Show(k) ==
    /\ pending[k] # <<>>
    /\ view' = [view EXCEPT ![k] = Head(pending[k])]
    /\ pending' = [pending EXCEPT ![k] = Tail(@)]
    /\ UNCHANGED <<store, connected>>

(* What the watcher has received already still arrives.                    *)
Disconnect(w) ==
    /\ connected[w]
    /\ connected' = [connected EXCEPT ![w] = FALSE]
    /\ DOMAIN pending' = Keys
    /\ \A k \in Keys \ Followed(w) : pending'[k] = pending[k]
    /\ \A k \in Followed(w) :
          \E n \in 0..Len(pending[k]) : pending'[k] = SubSeq(pending[k], 1, n)
    /\ UNCHANGED <<store, view>>

Restart ==
    /\ connected' = [w \in Watchers |-> FALSE]
    /\ pending' = [k \in Keys |-> <<>>]
    /\ view' = [k \in Keys |-> Absent]
    /\ UNCHANGED store

Next ==
    \/ \E k \in Keys : Show(k) \/ \E v \in Values \cup {Absent} : Write(k, v)
    \/ \E w \in Watchers : Connect(w) \/ Disconnect(w)
    \/ Restart

Spec == Init /\ [][Next]_vars
=============================================================================
