---------------------------- MODULE PathTreeSpec ----------------------------
(***************************************************************************)
(* A path tree under arbitrary calls of AddRoute and DeleteRoute           *)
(* (src/internal/pathtree/tree.go), and what Resolve must return.          *)
(***************************************************************************)
EXTENDS PathTree

CONSTANTS
    Routes,     \* the routes callers add and delete
    Values,     \* the values callers store
    MaxPath     \* bound on the length of the request paths that are compared

ASSUME CallsAssumption ==
    /\ Routes \subseteq Seq(Segments)
    /\ Nil \notin Values
    /\ MaxPath \in Nat

VARIABLES
    tree,
    registered,  \* history: route -> value of the routes added and not deleted
    pristine,    \* history: no AddRoute failed and nothing was deleted so far
    panicked

vars == <<tree, registered, pristine, panicked>>

Init ==
    /\ tree = NewNode
    /\ registered = [r \in {} |-> Nil]
    /\ pristine = TRUE
    /\ panicked = FALSE

Add(s, v) ==
    /\ tree' = AddRoute(tree, s, v)
    /\ registered' = IF AddOK(tree, s)
                     THEN [r \in DOMAIN registered \cup {s} |->
                              IF r = s THEN v ELSE registered[r]]
                     ELSE registered
    /\ pristine' = (pristine /\ AddOK(tree, s))
    /\ UNCHANGED panicked

Delete(s) ==
    /\ ~DeletePanics(tree, s)
    /\ tree' = DeleteRoute(tree, s)
    /\ registered' = [r \in DOMAIN registered \ {s} |-> registered[r]]
    /\ pristine' = FALSE
    /\ UNCHANGED panicked

DeleteMissing(s) ==
    /\ DeletePanics(tree, s)
    /\ panicked' = TRUE
    /\ UNCHANGED <<tree, registered, pristine>>

Next ==
    \/ /\ ~panicked
       /\ \E s \in Routes :
             \/ \E v \in Values : Add(s, v)
             \/ Delete(s)
             \/ DeleteMissing(s)
    \/ panicked /\ UNCHANGED vars

Spec == Init /\ [][Next]_vars

-----------------------------------------------------------------------------
(***************************************************************************)
(* Properties.                                                             *)
(***************************************************************************)

(* A tree is a prefix-closed set of nodes with values.                     *)
TypeOK ==
    /\ DOMAIN tree \subseteq Seq(Segments)
    /\ <<>> \in DOMAIN tree
    /\ \A m \in DOMAIN tree : tree[m] \in Values \cup {Nil}
    /\ \A m \in DOMAIN tree : m # <<>> => SubSeq(m, 1, Len(m) - 1) \in DOMAIN tree
    /\ pristine \in BOOLEAN
    /\ panicked \in BOOLEAN

(* The children of a node are all static, or there is one parameter or one *)
(* wildcard, and a wildcard has none: the order of Go's map iteration in   *)
(* `first` cannot matter to AddRoute or Resolve, whatever was added, had   *)
(* failed to be added or was deleted before.                               *)
OneKind ==
    /\ \A m \in DOMAIN tree : \A c, d \in Kids(tree, m) :
          c # d => c \in Static /\ d \in Static
    /\ \A m \in DOMAIN tree : m # <<>> /\ m[Len(m)] \in Wildcards => Kids(tree, m) = {}

(* Resolve returns the value of the one registered route the path matches, *)
(* and nil when there is none, after any sequence of AddRoute and          *)
(* DeleteRoute calls, failed ones included.                                *)
RequestPaths == UNION {[1..n -> Static] : n \in 0..MaxPath}
ResolveCorrect ==
    \A p \in RequestPaths :
        LET found == {r \in DOMAIN registered : Matches(r, p)} IN
        /\ Resolve(tree, p) = IF found = {} THEN {Nil} ELSE {registered[r] : r \in found}
        /\ \A r, s \in found : r = s

(* On a tree that was only built by successful calls, as the one           *)
(* checkForPathConflict builds, AddRoute accepts a route exactly when it   *)
(* is well formed and conflicts with none of the registered ones.          *)
ConflictCheckExact ==
    pristine => \A s \in Routes :
        AddOK(tree, s) <=>
            WellFormed(s) /\ \A r \in DOMAIN registered : ~Conflict(r, s)

(* A call about one route never changes what another route resolves to.    *)
RoutesKept ==
    [][\A s \in DOMAIN registered \cap DOMAIN registered' :
          s \in DOMAIN tree' /\ tree'[s] = registered[s]]_vars
=============================================================================
