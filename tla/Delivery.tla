------------------------------ MODULE Delivery ------------------------------
(***************************************************************************)
(* What the router promises for asynchronous events, without goroutines,   *)
(* channels or metrics (docs/reliability-guarantees.md and the comments of *)
(* src/router/router.go): accepted deliveries are numbered, handed out in  *)
(* the order of their acceptance, each is attempted at most once and may   *)
(* be abandoned; after the shutdown was announced the service only finishes*)
(* when nothing but late deliveries is left.                               *)
(***************************************************************************)
EXTENDS Integers

VARIABLES
    accepted,   \* number of deliveries accepted so far
    taken,      \* number of deliveries handed out so far
    inHand,     \* handed out, neither attempted nor abandoned
    attempted,  \* the subscriber's function was called
    late,       \* accepted from a client after the shutdown was announced
    phase       \* "open", "closing", "closed"

dvars == <<accepted, taken, inHand, attempted, late, phase>>

Init ==
    /\ accepted = 0
    /\ taken = 0
    /\ inHand = {}
    /\ attempted = {}
    /\ late = {}
    /\ phase = "open"

(* While closing, the service itself may still add deliveries.  Once it is *)
(* closed only late ones come, and nobody takes them.                      *)
Accept(isLate) ==
    /\ isLate => phase # "open"
    /\ phase = "closed" => isLate
    /\ accepted' = accepted + 1
    /\ late' = IF isLate THEN late \cup {accepted + 1} ELSE late
    /\ UNCHANGED <<taken, inHand, attempted, phase>>

Take ==
    /\ phase # "closed"
    /\ taken < accepted
    /\ taken' = taken + 1
    /\ inHand' = inHand \cup {taken + 1}
    /\ UNCHANGED <<accepted, attempted, late, phase>>

Attempt(n) ==
    /\ phase # "closed"
    /\ n \in inHand
    /\ inHand' = inHand \ {n}
    /\ attempted' = attempted \cup {n}
    /\ UNCHANGED <<accepted, taken, late, phase>>

Abandon(n) ==
    /\ n \in inHand
    /\ inHand' = inHand \ {n}
    /\ UNCHANGED <<accepted, taken, attempted, late, phase>>

Close ==
    /\ phase = "open"
    /\ phase' = "closing"
    /\ UNCHANGED <<accepted, taken, inHand, attempted, late>>

Finish ==
    /\ phase = "closing"
    /\ inHand = {}
    /\ (taken + 1)..accepted \subseteq late
    /\ phase' = "closed"
    /\ UNCHANGED <<accepted, taken, inHand, attempted, late>>

Next ==
    \/ \E isLate \in BOOLEAN : Accept(isLate)
    \/ Take
    \/ \E n \in inHand : Attempt(n) \/ Abandon(n)
    \/ Close
    \/ Finish

Spec == Init /\ [][Next]_dvars
=============================================================================
