------------------------------ MODULE PathTree ------------------------------
(***************************************************************************)
(* The tree of path segments that routes requests to sync subscriptions    *)
(* and CORS configurations (src/internal/pathtree/tree.go).                *)
(*                                                                         *)
(* A route is the sequence of its segments; "/" is the empty sequence.  A  *)
(* tree is the function from the nodes it has, each named by the segments  *)
(* that lead to it, to their values; a node without a route has the value  *)
(* Nil.  Where the code takes the `first` child of a Go map, which may be  *)
(* any child, the operators below quantify over the children.              *)
(***************************************************************************)
EXTENDS Integers, Sequences

CONSTANTS
    Static,     \* segments of plain text
    Params,     \* segments ":name"
    Wildcards,  \* segments "*name"
    Nil

Segments == Static \cup Params \cup Wildcards

ASSUME SegmentsAssumption ==
    /\ Static \cap Params = {}
    /\ Static \cap Wildcards = {}
    /\ Params \cap Wildcards = {}
    /\ Nil \notin Seq(Segments)

(* A tree without routes, and the children of a node.                      *)
NewNode == [m \in {<<>>} |-> Nil]

Kids(t, m) == {x \in Segments : Append(m, x) \in DOMAIN t}

(* Mutant: parameters with different names may share a node.               *)
ClashNamesIgnored(c, x) ==
    \/ c \in Wildcards \/ x \in Wildcards
    \/ c \in Static /\ x \notin Static

(* AddRoute refuses the segment x next to, or in place of, the child c.    *)
Clash(c, x) ==
    \/ c \in Wildcards \/ x \in Wildcards
    \/ c \in Params /\ c # x
    \/ c \in Static /\ x \notin Static

(* The child the code compares x with: the one of that name, or any.       *)
Compared(t, m, x) == IF x \in Kids(t, m) THEN {x} ELSE Kids(t, m)

(* Mutant: only the child of the same name is compared.                    *)
BlockedByNameOnly(t, s, i) ==
    \/ i > 1 /\ s[i - 1] \in Wildcards
    \/ \E c \in Kids(t, SubSeq(s, 1, i - 1)) \cap {s[i]} : Clash(c, s[i])

(* AddRoute fails at segment i of s.                                       *)
Blocked(t, s, i) ==
    \/ i > 1 /\ s[i - 1] \in Wildcards
    \/ \E c \in Compared(t, SubSeq(s, 1, i - 1), s[i]) : Clash(c, s[i])

(* Nodes on the way to s that exist when AddRoute returns, also when it    *)
(* fails: nothing is taken back.                                           *)
Walked(t, s) ==
    {SubSeq(s, 1, i) : i \in {j \in 1..Len(s) : \A k \in 1..j : ~Blocked(t, s, k)}}

AddOK(t, s) ==
    /\ \A i \in 1..Len(s) : ~Blocked(t, s, i)
    /\ s \in DOMAIN t => t[s] = Nil

AddRoute(t, s, v) ==
    [m \in DOMAIN t \cup Walked(t, s) |->
        IF m = s /\ AddOK(t, s) THEN v
        ELSE IF m \in DOMAIN t THEN t[m] ELSE Nil]

(* The parent of the last segment is missing: a nil *Node is dereferenced. *)
DeletePanics(t, s) == s # <<>> /\ SubSeq(s, 1, Len(s) - 1) \notin DOMAIN t

(* Mutant: the node goes with everything below it.                         *)
DeleteRouteSubtree(t, s) ==
    [m \in {n \in DOMAIN t : s = <<>> \/ Len(n) < Len(s) \/ SubSeq(n, 1, Len(s)) # s} |->
        IF m = s THEN Nil ELSE t[m]]

(* Mutant: the node goes although it has children.                        *)
DeleteRouteAnyNode(t, s) ==
    [m \in DOMAIN t \ ({s} \ {<<>>}) |-> IF m = s THEN Nil ELSE t[m]]

DeleteRoute(t, s) ==
    IF s \notin DOMAIN t THEN t
    ELSE IF s # <<>> /\ Kids(t, s) = {} THEN [m \in DOMAIN t \ {s} |-> t[m]]
    ELSE [t EXCEPT ![s] = Nil]

(* Mutant: any child is taken, a static one too.                           *)
DescendAnyChild(t, m, x) ==
    IF m = Nil \/ (m # <<>> /\ m[Len(m)] \in Wildcards) THEN {m}
    ELSE IF Append(m, x) \in DOMAIN t THEN {Append(m, x)}
    ELSE IF Kids(t, m) = {} THEN {Nil}
    ELSE {Append(m, c) : c \in Kids(t, m)}

(* One round of the loop of Resolve, from node m with segment x; Nil when  *)
(* it gives up.  A wildcard ends the loop.                                 *)
Descend(t, m, x) ==
    IF m = Nil \/ (m # <<>> /\ m[Len(m)] \in Wildcards) THEN {m}
    ELSE IF Append(m, x) \in DOMAIN t THEN {Append(m, x)}
    ELSE IF Kids(t, m) = {} THEN {Nil}
    ELSE {IF c \in Static THEN Nil ELSE Append(m, c) : c \in Kids(t, m)}

(* The values Resolve may return for the path p.                           *)
Resolve(t, p) ==
    LET at[i \in 0..Len(p)] ==
            IF i = 0 THEN {<<>>}
            ELSE UNION {Descend(t, m, p[i]) : m \in at[i - 1]}
    IN  {IF m = Nil THEN Nil ELSE t[m] : m \in at[Len(p)]}

-----------------------------------------------------------------------------
(***************************************************************************)
(* Reference definitions.                                                  *)
(***************************************************************************)

(* The request path p is one the route r is for.                           *)
Matches(r, p) ==
    \/ /\ Len(r) = Len(p)
       /\ \A i \in 1..Len(r) : r[i] = p[i] \/ r[i] \notin Static
    \/ /\ r # <<>> /\ r[Len(r)] \in Wildcards
       /\ Len(r) <= Len(p)
       /\ \A i \in 1..(Len(r) - 1) : r[i] = p[i] \/ r[i] \notin Static

(* Routes that cannot be served together, by docs/subscription-types.md.   *)
Conflict(r, s) ==
    \/ r = s
    \/ \E i \in DOMAIN r \cap DOMAIN s :
          /\ \A j \in 1..(i - 1) : r[j] = s[j]
          /\ r[i] # s[i] \/ r[i] \in Wildcards
          /\ r[i] \notin Static \/ s[i] \notin Static

WellFormed(s) == \A i \in 1..(Len(s) - 1) : s[i] \notin Wildcards
=============================================================================
