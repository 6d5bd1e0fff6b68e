--------------------------- MODULE PathTreeProofs ---------------------------
(***************************************************************************)
(* Proofs about PathTree, for any sets of segments, routes and values.     *)
(***************************************************************************)
EXTENDS PathTreeSpec, DataLemmas

(* The invariant is that of the two properties about the shape of a tree.  *)
TreeInv == TypeOK /\ OneKind

(* A prefix of a route is taken apart into its parent and last segment.    *)
LEMMA PrefixParts ==
    ASSUME NEW s \in Seq(Segments), NEW i \in 1..Len(s)
    PROVE  /\ SubSeq(s, 1, i) \in Seq(Segments)
           /\ Len(SubSeq(s, 1, i)) = i
           /\ SubSeq(s, 1, i) # <<>>
           /\ SubSeq(s, 1, i)[i] = s[i]
           /\ SubSeq(SubSeq(s, 1, i), 1, i - 1) = SubSeq(s, 1, i - 1)
           /\ s[i] \in Segments
OBVIOUS

(* The same of a node and a segment below it.                              *)
LEMMA AppendParts ==
    ASSUME NEW m \in Seq(Segments), NEW x \in Segments
    PROVE  /\ Append(m, x) \in Seq(Segments)
           /\ Append(m, x) # <<>>
           /\ Len(Append(m, x)) = Len(m) + 1
           /\ Append(m, x)[Len(m) + 1] = x
           /\ SubSeq(Append(m, x), 1, Len(m)) = m
OBVIOUS

(* A node is its parent and its last segment.                              *)
LEMMA LastAppended ==
    ASSUME NEW m \in Seq(Segments), m # <<>>
    PROVE  /\ m[Len(m)] \in Segments
           /\ m = Append(SubSeq(m, 1, Len(m) - 1), m[Len(m)])
OBVIOUS

(* What AddRoute adds below a node it did not have there before is the     *)
(* next segment of the route, and nothing was in the way of it.            *)
LEMMA NewKid ==
    ASSUME NEW s \in Seq(Segments), NEW m \in Seq(Segments), NEW x \in Segments,
           Append(m, x) \in Walked(tree, s)
    PROVE  \E i \in 1..Len(s) :
              /\ m = SubSeq(s, 1, i - 1)
              /\ x = s[i]
              /\ Len(m) = i - 1
              /\ ~Blocked(tree, s, i)
<1>1. PICK i \in 1..Len(s) : Append(m, x) = SubSeq(s, 1, i) /\ ~Blocked(tree, s, i)
  BY DEF Walked
<1>2. Len(m) + 1 = i
  BY <1>1, PrefixParts, AppendParts
<1>3. x = s[i]
  BY <1>1, <1>2, PrefixParts, AppendParts
<1>4. m = SubSeq(s, 1, i - 1)
  <2>1. SubSeq(Append(m, x), 1, i - 1) = m
    BY <1>2, AppendParts
  <2>2. SubSeq(SubSeq(s, 1, i), 1, i - 1) = SubSeq(s, 1, i - 1)
    BY PrefixParts
  <2>3. QED BY <1>1, <2>1, <2>2
<1>5. QED BY <1>1, <1>2, <1>3, <1>4

(* AddRoute keeps the nodes it finds and adds those it walked.             *)
LEMMA AddNodes ==
    ASSUME TypeOK, NEW s \in Seq(Segments), NEW v \in Values,
           tree' = AddRoute(tree, s, v)
    PROVE  /\ DOMAIN tree' = DOMAIN tree \cup Walked(tree, s)
           /\ Walked(tree, s) \subseteq Seq(Segments)
           /\ \A m \in DOMAIN tree' : tree'[m] \in Values \cup {Nil}
           /\ \A m \in Walked(tree, s) :
                 m # <<>> => SubSeq(m, 1, Len(m) - 1) \in DOMAIN tree'
<1>1. DOMAIN tree' = DOMAIN tree \cup Walked(tree, s)
  BY DEF AddRoute
<1>2. Walked(tree, s) \subseteq Seq(Segments)
  BY PrefixParts DEF Walked
<1>3. \A m \in DOMAIN tree' : tree'[m] \in Values \cup {Nil}
  BY DEF AddRoute, TypeOK
<1>4. ASSUME NEW m \in Walked(tree, s), m # <<>>
      PROVE  SubSeq(m, 1, Len(m) - 1) \in DOMAIN tree'
  <2>1. PICK i \in 1..Len(s) :
           m = SubSeq(s, 1, i) /\ \A k \in 1..i : ~Blocked(tree, s, k)
    BY <1>4 DEF Walked
  <2>2. SubSeq(m, 1, Len(m) - 1) = SubSeq(s, 1, i - 1)
    BY <2>1, PrefixParts
  <2>3. CASE i = 1
    <3>1. SubSeq(s, 1, 0) = <<>>
      OBVIOUS
    <3>2. SubSeq(m, 1, Len(m) - 1) = <<>>
      BY <2>2, <2>3, <3>1
    <3>3. QED BY <1>1, <3>2 DEF TypeOK
  <2>4. CASE i # 1
    <3>1. i - 1 \in 1..Len(s) /\ \A k \in 1..(i - 1) : ~Blocked(tree, s, k)
      BY <2>1, <2>4
    <3>2. SubSeq(s, 1, i - 1) \in Walked(tree, s)
      BY <3>1 DEF Walked
    <3>3. QED BY <1>1, <2>2, <3>2
  <2>5. QED BY <2>3, <2>4
<1>5. QED BY <1>1, <1>2, <1>3, <1>4

(* AddRoute, whether it succeeds or fails half way, keeps TreeInv.         *)
LEMMA AddKeepsShape ==
    ASSUME TreeInv, NEW s \in Routes, NEW v \in Values, Add(s, v)
    PROVE  TreeInv'
<1>0. /\ TypeOK /\ OneKind /\ s \in Seq(Segments)
      /\ tree' = AddRoute(tree, s, v)
  BY SegmentsAssumption, CallsAssumption DEF TreeInv, Add
<1>1. TypeOK'
  <2>1. pristine' \in BOOLEAN /\ panicked' \in BOOLEAN
    BY <1>0 DEF Add, TypeOK
  <2>2. \A m \in DOMAIN tree' : m # <<>> => SubSeq(m, 1, Len(m) - 1) \in DOMAIN tree'
    BY <1>0, AddNodes DEF TypeOK
  <2>3. DOMAIN tree' \subseteq Seq(Segments) /\ <<>> \in DOMAIN tree'
        /\ \A m \in DOMAIN tree' : tree'[m] \in Values \cup {Nil}
    BY <1>0, AddNodes DEF TypeOK
  <2>4. QED BY <2>1, <2>2, <2>3 DEF TypeOK
<1>2. ASSUME NEW m \in DOMAIN tree', NEW x \in Kids(tree', m), x \notin Kids(tree, m)
      PROVE  \E i \in 1..Len(s) : /\ m = SubSeq(s, 1, i - 1)
                                  /\ x = s[i]
                                  /\ Len(m) = i - 1
                                  /\ ~Blocked(tree, s, i)
  <2>1. m \in Seq(Segments) /\ x \in Segments
    BY <1>1, <1>2 DEF TypeOK, Kids
  <2>2. Append(m, x) \in Walked(tree, s)
    BY <1>0, <1>2, <2>1, AddNodes DEF Kids
  <2>3. QED BY <1>0, <2>1, <2>2, NewKid
<1>3. ASSUME NEW m \in DOMAIN tree', NEW x \in Kids(tree, m)
      PROVE  m \in DOMAIN tree
  <2>1. m \in Seq(Segments) /\ x \in Segments /\ Append(m, x) \in DOMAIN tree
    BY <1>1, <1>3 DEF TypeOK, Kids
  <2>2. SubSeq(Append(m, x), 1, Len(Append(m, x)) - 1) = m /\ Append(m, x) # <<>>
    BY <2>1, AppendParts
  <2>3. QED BY <1>0, <2>1, <2>2 DEF TypeOK
<1>4. ASSUME NEW m \in DOMAIN tree', NEW c \in Kids(tree', m), NEW d \in Kids(tree', m),
             c # d, d \notin Kids(tree, m)
      PROVE  c \in Static /\ d \in Static
  <2>1. PICK i \in 1..Len(s) : /\ m = SubSeq(s, 1, i - 1) /\ d = s[i]
                               /\ Len(m) = i - 1 /\ ~Blocked(tree, s, i)
    BY <1>2, <1>4
  <2>2. c \in Kids(tree, m)
    <3>1. SUFFICES ASSUME c \notin Kids(tree, m) PROVE FALSE
      OBVIOUS
    <3>2. PICK j \in 1..Len(s) : c = s[j] /\ Len(m) = j - 1
      BY <1>2, <1>4, <3>1
    <3>3. QED BY <1>4, <2>1, <3>2
  <2>3. c \in Compared(tree, m, d)
    BY <1>4, <2>2 DEF Compared
  <2>4. ~Clash(c, d)
    BY <2>1, <2>3 DEF Blocked
  <2>5. c \in Segments /\ d \in Segments
    BY <1>4 DEF Kids
  <2>6. QED BY <1>4, <2>4, <2>5 DEF Clash, Segments
<1>5. ASSUME NEW m \in DOMAIN tree', NEW c \in Kids(tree', m), NEW d \in Kids(tree', m), c # d
      PROVE  c \in Static /\ d \in Static
  <2>1. CASE c \in Kids(tree, m) /\ d \in Kids(tree, m)
    BY <1>0, <1>3, <1>5, <2>1 DEF OneKind
  <2>2. QED BY <1>4, <1>5, <2>1
<1>6. ASSUME NEW m \in DOMAIN tree', m # <<>>, m[Len(m)] \in Wildcards,
             NEW x \in Kids(tree', m)
      PROVE  FALSE
  <2>1. CASE x \in Kids(tree, m)
    BY <1>0, <1>3, <1>6, <2>1 DEF OneKind
  <2>2. CASE x \notin Kids(tree, m)
    <3>1. PICK i \in 1..Len(s) : /\ m = SubSeq(s, 1, i - 1) /\ Len(m) = i - 1
                                 /\ ~Blocked(tree, s, i)
      BY <1>2, <1>6, <2>2
    <3>2. m \in Seq(Segments)
      BY <1>1, <1>6 DEF TypeOK
    <3>3. i > 1
      BY <1>6, <3>1, <3>2
    <3>4. i - 1 \in 1..Len(s)
      BY <3>3, <1>0
    <3>5. m[i - 1] = s[i - 1]
      BY <1>0, <3>1, <3>4, PrefixParts
    <3>6. QED BY <1>6, <3>1, <3>3, <3>5 DEF Blocked
  <2>3. QED BY <2>1, <2>2
<1>7. QED BY <1>1, <1>5, <1>6 DEF TreeInv, OneKind

(* DeleteRoute takes away a leaf or a value and keeps TreeInv.             *)
LEMMA DeleteKeepsShape ==
    ASSUME TreeInv, NEW s \in Routes, Delete(s)
    PROVE  TreeInv'
<1>0. /\ TypeOK /\ OneKind /\ s \in Seq(Segments)
      /\ tree' = DeleteRoute(tree, s)
      /\ pristine' \in BOOLEAN /\ panicked' \in BOOLEAN
  BY SegmentsAssumption, CallsAssumption DEF TreeInv, Delete, TypeOK
<1>1. CASE DOMAIN tree' = DOMAIN tree /\ \A m \in DOMAIN tree : tree'[m] \in {tree[m], Nil}
  BY <1>0, <1>1 DEF TreeInv, TypeOK, OneKind, Kids
<1>2. CASE /\ s \in DOMAIN tree /\ s # <<>> /\ Kids(tree, s) = {}
           /\ tree' = [m \in DOMAIN tree \ {s} |-> tree[m]]
  <2>1. ASSUME NEW m \in DOMAIN tree', m # <<>>
        PROVE  SubSeq(m, 1, Len(m) - 1) \in DOMAIN tree'
    <3>1. m \in DOMAIN tree /\ m \in Seq(Segments)
      BY <1>0, <1>2, <2>1 DEF TypeOK
    <3>2. SubSeq(m, 1, Len(m) - 1) \in DOMAIN tree
      BY <1>0, <2>1, <3>1 DEF TypeOK
    <3>3. SubSeq(m, 1, Len(m) - 1) # s
      <4>1. m[Len(m)] \in Segments /\ m = Append(SubSeq(m, 1, Len(m) - 1), m[Len(m)])
        BY <2>1, <3>1, LastAppended
      <4>2. QED BY <1>2, <3>1, <4>1 DEF Kids
    <3>4. QED BY <1>2, <3>2, <3>3
  <2>2. TypeOK'
    BY <1>0, <1>2, <2>1 DEF TypeOK
  <2>3. \A m \in DOMAIN tree' : m \in DOMAIN tree /\ Kids(tree', m) \subseteq Kids(tree, m)
    BY <1>2 DEF Kids
  <2>4. OneKind'
    BY <1>0, <2>3 DEF OneKind
  <2>5. QED BY <2>2, <2>4 DEF TreeInv
<1>3. QED BY <1>0, <1>1, <1>2 DEF DeleteRoute

(* The shape of the tree never depends on what was called before: every    *)
(* node has children of one kind, so `first` is deterministic in effect.   *)
THEOREM ShapeKept == Spec => [](TypeOK /\ OneKind)
<1>1. Init => TreeInv
  <2>1. ASSUME Init PROVE TypeOK
    <3>1. pristine \in BOOLEAN /\ panicked \in BOOLEAN
      BY <2>1, Zenon DEF Init
    <3>2. DOMAIN tree = {<<>>} /\ tree[<<>>] = Nil
      BY <2>1 DEF Init, NewNode
    <3>3. <<>> \in Seq(Segments)
      OBVIOUS
    <3>4. QED BY <3>1, <3>2, <3>3 DEF TypeOK
  <2>2. ASSUME Init PROVE OneKind
    <3>1. DOMAIN tree = {<<>>}
      BY <2>2 DEF Init, NewNode
    <3>2. \A x \in Segments : Append(<<>>, x) # <<>>
      BY AppendParts
    <3>3. \A m \in DOMAIN tree : Kids(tree, m) = {}
      BY <3>1, <3>2 DEF Kids
    <3>4. QED BY <3>3 DEF OneKind
  <2>3. QED BY <2>1, <2>2 DEF TreeInv
<1>2. TreeInv /\ [Next]_vars => TreeInv'
  <2>1. SUFFICES ASSUME TreeInv, [Next]_vars PROVE TreeInv'
    OBVIOUS
  <2>2. ASSUME NEW s \in Routes, NEW v \in Values, Add(s, v) PROVE TreeInv'
    BY <2>1, <2>2, AddKeepsShape
  <2>3. ASSUME NEW s \in Routes, Delete(s) PROVE TreeInv'
    BY <2>1, <2>3, DeleteKeepsShape
  <2>4. ASSUME NEW s \in Routes, DeleteMissing(s) PROVE TreeInv'
    BY <2>1, <2>4 DEF DeleteMissing, TreeInv, TypeOK, OneKind, Kids
  <2>5. CASE UNCHANGED vars
    BY <2>1, <2>5 DEF vars, TreeInv, TypeOK, OneKind, Kids
  <2>6. QED BY <2>1, <2>2, <2>3, <2>4, <2>5 DEF Next
<1>3. TreeInv => TypeOK /\ OneKind
  BY DEF TreeInv
<1>4. QED BY <1>1, <1>2, <1>3, PTL DEF Spec

-----------------------------------------------------------------------------
(***************************************************************************)
(* The values of the tree are those of the registered routes, and as long  *)
(* as nothing failed or was deleted it has no other nodes than theirs.     *)
(***************************************************************************)
Held ==
    /\ \A r \in DOMAIN registered :
          r \in DOMAIN tree /\ tree[r] = registered[r] /\ registered[r] # Nil
    /\ \A m \in DOMAIN tree : tree[m] # Nil => m \in DOMAIN registered

Prefix(m, r) == Len(m) <= Len(r) /\ m = SubSeq(r, 1, Len(m))

NoRemains ==
    pristine => \A m \in DOMAIN tree : m # <<>> => \E r \in DOMAIN registered : Prefix(m, r)

(* A route that AddRoute accepts ends at a node of the new tree.           *)
LEMMA AddedNode ==
    ASSUME TypeOK, NEW s \in Seq(Segments), AddOK(tree, s)
    PROVE  s \in DOMAIN tree \cup Walked(tree, s)
<1>1. CASE s = <<>>
  BY <1>1 DEF TypeOK
<1>2. CASE s # <<>>
  <2>1. Len(s) \in 1..Len(s) /\ SubSeq(s, 1, Len(s)) = s
    BY <1>2
  <2>2. \A k \in 1..Len(s) : ~Blocked(tree, s, k)
    BY DEF AddOK
  <2>3. QED BY <2>1, <2>2 DEF Walked
<1>3. QED BY <1>1, <1>2

(* AddRoute changes the value of its own route only.                       *)
LEMMA AddKeepsHeld ==
    ASSUME TypeOK, Held, NoRemains, NEW s \in Routes, NEW v \in Values, Add(s, v)
    PROVE  Held' /\ NoRemains' /\ \A r \in DOMAIN registered : tree'[r] = registered[r]
<1>1. s \in Seq(Segments) /\ v # Nil
  BY CallsAssumption
<1>2. /\ DOMAIN tree' = DOMAIN tree \cup Walked(tree, s)
      /\ \A m \in DOMAIN tree' :
            tree'[m] = IF m = s /\ AddOK(tree, s) THEN v
                       ELSE IF m \in DOMAIN tree THEN tree[m] ELSE Nil
  BY DEF Add, AddRoute
<1>3. CASE AddOK(tree, s)
  <2>1. s \in DOMAIN tree' /\ (s \in DOMAIN tree => tree[s] = Nil)
    BY <1>1, <1>2, <1>3, AddedNode DEF AddOK
  <2>2. s \notin DOMAIN registered
    BY <2>1 DEF Held
  <2>3. /\ DOMAIN registered' = DOMAIN registered \cup {s}
        /\ registered'[s] = v
        /\ \A r \in DOMAIN registered : registered'[r] = registered[r]
    BY <1>3, <2>2 DEF Add
  <2>4. Held'
    BY <1>1, <1>2, <1>3, <2>1, <2>2, <2>3 DEF Held
  <2>5. NoRemains'
    <3>1. SUFFICES ASSUME pristine', NEW m \in DOMAIN tree', m # <<>>
                   PROVE  \E r \in DOMAIN registered' : Prefix(m, r)
      BY DEF NoRemains, Prefix
    <3>2. CASE m \in DOMAIN tree
      BY <2>3, <3>1, <3>2 DEF NoRemains, Add
    <3>3. CASE m \in Walked(tree, s)
      <4>1. PICK i \in 1..Len(s) : m = SubSeq(s, 1, i)
        BY <3>3 DEF Walked
      <4>2. Len(m) = i /\ i <= Len(s)
        BY <1>1, <4>1, PrefixParts
      <4>3. QED BY <2>3, <4>1, <4>2 DEF Prefix
    <3>4. QED BY <1>2, <3>2, <3>3
  <2>6. QED BY <1>2, <2>2, <2>4, <2>5 DEF Held
<1>4. CASE ~AddOK(tree, s)
  <2>1. registered' = registered /\ ~pristine'
    BY <1>4 DEF Add
  <2>2. \A m \in DOMAIN tree' : tree'[m] = IF m \in DOMAIN tree THEN tree[m] ELSE Nil
    BY <1>2, <1>4
  <2>3. Held'
    BY <1>2, <2>1, <2>2 DEF Held
  <2>4. NoRemains'
    BY <2>1 DEF NoRemains
  <2>5. QED BY <1>2, <2>2, <2>3, <2>4 DEF Held
<1>5. QED BY <1>3, <1>4

(* So does DeleteRoute.                                                    *)
LEMMA DeleteKeepsHeld ==
    ASSUME Held, NEW s \in Routes, Delete(s)
    PROVE  /\ Held' /\ NoRemains'
           /\ \A r \in DOMAIN registered' : tree'[r] = registered[r]
<1>1. /\ DOMAIN registered' = DOMAIN registered \ {s}
      /\ \A r \in DOMAIN registered' : registered'[r] = registered[r]
      /\ ~pristine'
  BY DEF Delete
<1>2. /\ DOMAIN tree \ {s} \subseteq DOMAIN tree' /\ DOMAIN tree' \subseteq DOMAIN tree
      /\ \A m \in DOMAIN tree' : tree'[m] = IF m = s THEN Nil ELSE tree[m]
  <2>1. CASE s \notin DOMAIN tree
    BY <2>1 DEF Delete, DeleteRoute
  <2>2. CASE s \in DOMAIN tree
    BY <2>2 DEF Delete, DeleteRoute
  <2>3. QED BY <2>1, <2>2
<1>3. Held'
  BY <1>1, <1>2 DEF Held
<1>4. NoRemains'
  BY <1>1 DEF NoRemains
<1>5. QED BY <1>1, <1>2, <1>3, <1>4 DEF Held

(* Every step keeps the routes and their values.                           *)
LEMMA RouteInvStep ==
    ASSUME TypeOK, Held, NoRemains, [Next]_vars
    PROVE  /\ Held' /\ NoRemains'
           /\ \A s \in DOMAIN registered \cap DOMAIN registered' :
                 s \in DOMAIN tree' /\ tree'[s] = registered[s]
<1>1. ASSUME Held', \A r \in DOMAIN registered \cap DOMAIN registered' : tree'[r] = registered[r]
      PROVE  \A s \in DOMAIN registered \cap DOMAIN registered' :
                 s \in DOMAIN tree' /\ tree'[s] = registered[s]
  BY <1>1 DEF Held
<1>2. ASSUME NEW s \in Routes, NEW v \in Values, Add(s, v)
      PROVE  Held' /\ NoRemains' /\ \A r \in DOMAIN registered \cap DOMAIN registered' : tree'[r] = registered[r]
  BY <1>2, AddKeepsHeld
<1>3. ASSUME NEW s \in Routes, Delete(s)
      PROVE  Held' /\ NoRemains' /\ \A r \in DOMAIN registered \cap DOMAIN registered' : tree'[r] = registered[r]
  BY <1>3, DeleteKeepsHeld
<1>4. ASSUME UNCHANGED <<tree, registered, pristine>>
      PROVE  Held' /\ NoRemains' /\ \A r \in DOMAIN registered \cap DOMAIN registered' : tree'[r] = registered[r]
  BY <1>4 DEF Held, NoRemains
<1>5. CASE UNCHANGED vars
  BY <1>1, <1>4, <1>5 DEF vars
<1>6. ASSUME NEW s \in Routes, DeleteMissing(s) PROVE UNCHANGED <<tree, registered, pristine>>
  BY <1>6 DEF DeleteMissing
<1>7. QED BY <1>1, <1>2, <1>3, <1>4, <1>5, <1>6 DEF Next

(* Whatever is added, refused or deleted, a registered route keeps its     *)
(* value until it is deleted, and no other node has one.                   *)
THEOREM RoutesHeld == Spec => [](Held /\ NoRemains)
<1>1. Init => Held /\ NoRemains
  <2>1. ASSUME Init PROVE /\ DOMAIN registered = {} /\ DOMAIN tree = {<<>>} /\ tree[<<>>] = Nil
    BY <2>1 DEF Init, NewNode
  <2>2. QED BY <2>1 DEF Held, NoRemains
<1>2. QED BY <1>1, RouteInvStep, ShapeKept, PTL DEF Spec

(* tree.go: a call of AddRoute or DeleteRoute for one route, whether it    *)
(* succeeds or fails, leaves the other routes what they were.              *)
THEOREM RoutesUndisturbed == Spec => RoutesKept
<1>1. ASSUME TypeOK, Held, NoRemains, [Next]_vars
      PROVE  [\A s \in DOMAIN registered \cap DOMAIN registered' :
                 s \in DOMAIN tree' /\ tree'[s] = registered[s]]_vars
  BY <1>1, RouteInvStep
<1>2. QED BY <1>1, RoutesHeld, ShapeKept, PTL DEF Spec, RoutesKept

-----------------------------------------------------------------------------
(* Every node on the way to a node is there.                               *)
LEMMA PrefixesThere ==
    ASSUME TypeOK, NEW r \in DOMAIN tree, NEW i \in 0..Len(r)
    PROVE  SubSeq(r, 1, i) \in DOMAIN tree
<1>1. r \in Seq(Segments) /\ Len(r) \in Nat
  BY DEF TypeOK
<1> DEFINE S == {k \in Nat : k <= Len(r) => SubSeq(r, 1, Len(r) - k) \in DOMAIN tree}
<1>2. 0 \in S
  <2>1. SubSeq(r, 1, Len(r) - 0) = r
    BY <1>1
  <2>2. QED BY <2>1
<1>3. ASSUME NEW k \in S PROVE k + 1 \in S
  <2>1. SUFFICES ASSUME k + 1 <= Len(r) PROVE SubSeq(r, 1, Len(r) - (k + 1)) \in DOMAIN tree
    OBVIOUS
  <2>2. PICK j \in 1..Len(r) : j = Len(r) - k /\ j - 1 = Len(r) - (k + 1)
    BY <1>1, <2>1
  <2>3. SubSeq(r, 1, j) \in DOMAIN tree
    BY <1>1, <2>1, <2>2
  <2>4. /\ SubSeq(r, 1, j) # <<>> /\ Len(SubSeq(r, 1, j)) = j
        /\ SubSeq(SubSeq(r, 1, j), 1, j - 1) = SubSeq(r, 1, j - 1)
    BY <1>1, PrefixParts
  <2>5. SubSeq(r, 1, j - 1) \in DOMAIN tree
    BY <2>3, <2>4 DEF TypeOK
  <2>6. QED BY <2>2, <2>5
<1>4. Nat \subseteq S
  <2> HIDE DEF S
  <2>1. QED BY <1>2, <1>3, Induction
<1>5. PICK k \in Nat : k = Len(r) - i /\ k <= Len(r) /\ Len(r) - k = i
  BY <1>1
<1>6. k \in S
  BY <1>4
<1>7. SubSeq(r, 1, Len(r) - k) \in DOMAIN tree
  BY <1>5, <1>6
<1>8. QED BY <1>5, <1>7

-----------------------------------------------------------------------------
(***************************************************************************)
(* checkForPathConflict.                                                   *)
(***************************************************************************)

(* Routes that agree before segment i meet at a node.                      *)
LEMMA SharedNode ==
    ASSUME NEW r \in Seq(Segments), NEW s \in Seq(Segments),
           NEW i \in 1..Len(r), i \in 1..Len(s), \A j \in 1..(i - 1) : r[j] = s[j]
    PROVE  Append(SubSeq(s, 1, i - 1), r[i]) = SubSeq(r, 1, i)
OBVIOUS

(* A route through a child of a node on the way to s.                      *)
LEMMA RouteThroughKid ==
    ASSUME NEW r \in Seq(Segments), NEW s \in Seq(Segments), NEW i \in 1..Len(s),
           NEW c \in Segments, Prefix(Append(SubSeq(s, 1, i - 1), c), r)
    PROVE  i \in 1..Len(r) /\ r[i] = c /\ \A j \in 1..(i - 1) : r[j] = s[j]
<1>1. PICK m : m = SubSeq(s, 1, i - 1)
  OBVIOUS
<1>2. m \in Seq(Segments) /\ Len(m) = i - 1 /\ \A j \in 1..(i - 1) : m[j] = s[j]
  BY <1>1
<1>3. PICK n : n = Append(m, c)
  OBVIOUS
<1>4. Len(n) = i /\ n[i] = c /\ \A j \in 1..(i - 1) : n[j] = m[j]
  BY <1>2, <1>3
<1>5. i <= Len(r) /\ n = SubSeq(r, 1, i)
  BY <1>1, <1>3, <1>4 DEF Prefix
<1>6. i \in 1..Len(r)
  BY <1>5
<1>7. \A j \in 1..i : SubSeq(r, 1, i)[j] = r[j]
  BY <1>6
<1>8. QED BY <1>2, <1>4, <1>5, <1>6, <1>7

(* AddRoute accepts what conflicts with no registered route.               *)
LEMMA AcceptedExactly ==
    ASSUME TypeOK, OneKind, Held, NoRemains, pristine, NEW s \in Seq(Segments)
    PROVE  AddOK(tree, s) <=> WellFormed(s) /\ \A r \in DOMAIN registered : ~Conflict(r, s)
<1>1. \A r \in DOMAIN registered : r \in Seq(Segments) /\ r \in DOMAIN tree
  BY DEF Held, TypeOK
<1>2. ASSUME NEW i \in 1..Len(s), NEW c \in Compared(tree, SubSeq(s, 1, i - 1), s[i]), Clash(c, s[i])
      PROVE  \E r \in DOMAIN registered : Conflict(r, s)
  <2>1. s[i] \in Segments /\ SubSeq(s, 1, i - 1) \in Seq(Segments)
    OBVIOUS
  <2>2. c \in Segments /\ Append(SubSeq(s, 1, i - 1), c) \in DOMAIN tree
    BY <1>2 DEF Compared, Kids
  <2>3. Append(SubSeq(s, 1, i - 1), c) # <<>>
    BY <2>1, <2>2, AppendParts
  <2>4. PICK r \in DOMAIN registered : Prefix(Append(SubSeq(s, 1, i - 1), c), r)
    BY <2>2, <2>3 DEF NoRemains
  <2>5. i \in 1..Len(r) /\ r[i] = c /\ \A j \in 1..(i - 1) : r[j] = s[j]
    BY <1>1, <2>2, <2>4, RouteThroughKid
  <2>6. i \in DOMAIN r \cap DOMAIN s
    BY <1>1, <2>5
  <2>7. /\ r[i] # s[i] \/ r[i] \in Wildcards
        /\ r[i] \notin Static \/ s[i] \notin Static
    BY <1>2, <2>1, <2>2, <2>5, SegmentsAssumption DEF Clash, Segments
  <2>8. QED BY <2>4, <2>5, <2>6, <2>7 DEF Conflict
<1>3. ASSUME NEW r \in DOMAIN registered, r # s, Conflict(r, s)
      PROVE  \E i \in 1..Len(s) : Blocked(tree, s, i)
  <2>1. r \in Seq(Segments) /\ r \in DOMAIN tree
    BY <1>1
  <2>2. PICK i \in DOMAIN r \cap DOMAIN s :
           /\ \A j \in 1..(i - 1) : r[j] = s[j]
           /\ r[i] # s[i] \/ r[i] \in Wildcards
           /\ r[i] \notin Static \/ s[i] \notin Static
    BY <1>3 DEF Conflict
  <2>3. i \in 1..Len(r) /\ i \in 1..Len(s) /\ i \in 0..Len(r)
    BY <2>1, <2>2
  <2>4. PICK m : m = SubSeq(s, 1, i - 1)
    OBVIOUS
  <2>5. Append(m, r[i]) \in DOMAIN tree
    BY <2>1, <2>2, <2>3, <2>4, SharedNode, PrefixesThere
  <2>6. r[i] \in Segments /\ s[i] \in Segments /\ m \in Seq(Segments)
    BY <2>1, <2>3, <2>4
  <2>7. r[i] \in Kids(tree, m)
    BY <2>5, <2>6 DEF Kids
  <2>8. m \in DOMAIN tree
    <3>1. SubSeq(Append(m, r[i]), 1, Len(m)) = m /\ Len(Append(m, r[i])) = Len(m) + 1 /\ Append(m, r[i]) # <<>>
      BY <2>6, AppendParts
    <3>2. Len(Append(m, r[i])) - 1 = Len(m)
      BY <2>6, <3>1
    <3>3. QED BY <2>5, <3>1, <3>2 DEF TypeOK
  <2>9. CASE s[i] \in Kids(tree, m)
    <3>1. s[i] \in Wildcards
      BY <2>2, <2>6, <2>7, <2>8, <2>9 DEF OneKind
    <3>2. s[i] \in Compared(tree, m, s[i]) /\ Clash(s[i], s[i])
      BY <2>9, <3>1 DEF Compared, Clash
    <3>3. QED BY <2>3, <2>4, <3>2 DEF Blocked
  <2>10. CASE s[i] \notin Kids(tree, m)
    <3>1. r[i] \in Compared(tree, m, s[i])
      BY <2>7, <2>10 DEF Compared
    <3>2. Clash(r[i], s[i])
      BY <2>2, <2>6 DEF Clash, Segments
    <3>3. QED BY <2>3, <2>4, <3>1, <3>2 DEF Blocked
  <2>11. QED BY <2>9, <2>10
<1>4. WellFormed(s) <=> \A i \in 1..Len(s) : ~(i > 1 /\ s[i - 1] \in Wildcards)
  <2>1. ASSUME WellFormed(s), NEW i \in 1..Len(s), i > 1 PROVE s[i - 1] \notin Wildcards
    <3>1. i - 1 \in 1..(Len(s) - 1)
      BY <2>1
    <3>2. QED BY <2>1, <3>1 DEF WellFormed
  <2>2. ASSUME \A i \in 1..Len(s) : ~(i > 1 /\ s[i - 1] \in Wildcards), NEW j \in 1..(Len(s) - 1)
        PROVE  s[j] \notin Wildcards
    <3>1. PICK i \in 1..Len(s) : i = j + 1 /\ i > 1 /\ i - 1 = j
      OBVIOUS
    <3>2. QED BY <2>2, <3>1
  <2>3. QED BY <2>1, <2>2 DEF WellFormed
<1>5. ASSUME AddOK(tree, s) PROVE WellFormed(s) /\ \A r \in DOMAIN registered : ~Conflict(r, s)
  <2>1. WellFormed(s)
    BY <1>4, <1>5 DEF AddOK, Blocked
  <2>2. s \notin DOMAIN registered
    BY <1>5 DEF AddOK, Held
  <2>3. \A r \in DOMAIN registered : ~Conflict(r, s)
    BY <1>3, <1>5, <2>2 DEF AddOK
  <2>4. QED BY <2>1, <2>3
<1>6. ASSUME WellFormed(s), \A r \in DOMAIN registered : ~Conflict(r, s) PROVE AddOK(tree, s)
  <2>1. \A i \in 1..Len(s) : ~Blocked(tree, s, i)
    BY <1>2, <1>4, <1>6 DEF Blocked
  <2>2. s \notin DOMAIN registered
    BY <1>6 DEF Conflict
  <2>3. QED BY <2>1, <2>2 DEF AddOK, Held
<1>7. QED BY <1>5, <1>6

(* libkv, checkForPathConflict: on a tree of accepted routes AddRoute      *)
(* refuses exactly the paths that the documentation says conflict.         *)
THEOREM ConflictsFoundExactly == Spec => []ConflictCheckExact
<1>1. TypeOK /\ OneKind /\ Held /\ NoRemains => ConflictCheckExact
  BY AcceptedExactly, CallsAssumption DEF ConflictCheckExact
<1>2. QED BY <1>1, ShapeKept, RoutesHeld, PTL

-----------------------------------------------------------------------------
(***************************************************************************)
(* Resolve.                                                                *)
(***************************************************************************)

(* The node m is one that the first i segments of the path p lead to.      *)
Fits(m, p, i) ==
    /\ Len(m) <= i
    /\ Len(m) = i \/ (m # <<>> /\ m[Len(m)] \in Wildcards)
    /\ \A j \in 1..Len(m) : m[j] = p[j] \/ m[j] \notin Static

(* x is where the walk along p stands after i segments: at the one node    *)
(* they lead to, or nowhere when there is none.                            *)
StandsAt(x, p, i) ==
    /\ x = Nil \/ (x \in DOMAIN tree /\ Fits(x, p, i))
    /\ \A m \in DOMAIN tree : Fits(m, p, i) => m = x

(* A node the first i segments lead to is one that a wildcard ended before *)
(* or a child of a node that one segment less leads to.                    *)
LEMMA FitsBefore ==
    ASSUME TypeOK, NEW p \in Seq(Static), NEW i \in 1..Len(p),
           NEW m \in DOMAIN tree, Fits(m, p, i)
    PROVE  \/ Fits(m, p, i - 1) /\ m # <<>> /\ m[Len(m)] \in Wildcards
           \/ \E n \in DOMAIN tree : \E c \in Kids(tree, n) :
                 /\ Fits(n, p, i - 1)
                 /\ m = Append(n, c)
                 /\ c = p[i] \/ c \notin Static
<1>1. m \in Seq(Segments) /\ Len(m) \in Nat
  BY DEF TypeOK
<1>2. CASE Len(m) = i
  <2>1. m # <<>>
    BY <1>1, <1>2
  <2>2. PICK n : n = SubSeq(m, 1, i - 1)
    OBVIOUS
  <2>3. n \in DOMAIN tree
    BY <1>2, <2>1, <2>2 DEF TypeOK
  <2>4. m[i] \in Segments /\ m = Append(n, m[i])
    BY <1>1, <1>2, <2>1, <2>2, LastAppended
  <2>5. m[i] \in Kids(tree, n)
    BY <2>4 DEF Kids
  <2>6. Len(n) = i - 1 /\ \A j \in 1..(i - 1) : n[j] = m[j]
    BY <1>1, <1>2, <2>2
  <2>7. Fits(n, p, i - 1)
    BY <1>2, <2>6 DEF Fits
  <2>8. m[i] = p[i] \/ m[i] \notin Static
    BY <1>2 DEF Fits
  <2>9. QED BY <2>3, <2>4, <2>5, <2>7, <2>8
<1>3. CASE Len(m) # i
  <2>1. Len(m) <= i - 1
    BY <1>1, <1>3 DEF Fits
  <2>2. QED BY <1>3, <2>1 DEF Fits
<1>4. QED BY <1>2, <1>3

(* One round of the loop goes to the only node it can go to: which child   *)
(* the iteration over Go's map delivers first cannot matter.               *)
LEMMA DescendOnce ==
    ASSUME TypeOK, OneKind, NEW p \in Seq(Static), NEW i \in 1..Len(p),
           NEW x, StandsAt(x, p, i - 1)
    PROVE  \E y : Descend(tree, x, p[i]) = {y} /\ StandsAt(y, p, i)
<1>1. p[i] \in Static /\ p[i] \in Segments
  BY DEF Segments
<1>2. \A m \in DOMAIN tree : m # Nil /\ m \in Seq(Segments)
  BY SegmentsAssumption DEF TypeOK
<1>3. \A m \in DOMAIN tree :
         Fits(m, p, i) =>
            \/ m = x /\ m # <<>> /\ m[Len(m)] \in Wildcards
            \/ /\ x \in DOMAIN tree
               /\ \E c \in Kids(tree, x) : m = Append(x, c) /\ (c = p[i] \/ c \notin Static)
  BY FitsBefore DEF StandsAt
<1>4. CASE x = Nil
  <2>1. Descend(tree, x, p[i]) = {x}
    BY <1>4 DEF Descend
  <2>2. StandsAt(x, p, i)
    BY <1>2, <1>3, <1>4 DEF StandsAt
  <2>3. QED BY <2>1, <2>2
<1>5. CASE x # Nil /\ x # <<>> /\ x[Len(x)] \in Wildcards
  <2>1. Descend(tree, x, p[i]) = {x}
    BY <1>5 DEF Descend
  <2>2. x \in DOMAIN tree /\ Fits(x, p, i - 1) /\ Kids(tree, x) = {}
    BY <1>5 DEF StandsAt, OneKind
  <2>3. Len(x) \in Nat
    BY <1>2, <2>2
  <2>4. Fits(x, p, i)
    BY <1>5, <2>2, <2>3 DEF Fits
  <2>5. StandsAt(x, p, i)
    BY <1>3, <2>2, <2>4 DEF StandsAt
  <2>6. QED BY <2>1, <2>5
<1>6. CASE x # Nil /\ ~(x # <<>> /\ x[Len(x)] \in Wildcards)
  <2>1. x \in DOMAIN tree /\ x \in Seq(Segments) /\ Fits(x, p, i - 1)
    BY <1>2, <1>6 DEF StandsAt
  <2>2. Len(x) = i - 1
    BY <1>6, <2>1 DEF Fits
  <2>3. \A m \in DOMAIN tree :
           Fits(m, p, i) =>
              \E c \in Kids(tree, x) : m = Append(x, c) /\ (c = p[i] \/ c \notin Static)
    BY <1>3, <1>6
  <2>4. \A c, d \in Kids(tree, x) : c # d => c \in Static /\ d \in Static
    BY <2>1 DEF OneKind
  <2>5. ASSUME NEW c \in Kids(tree, x), c = p[i] \/ c \notin Static
        PROVE  Append(x, c) \in DOMAIN tree /\ Fits(Append(x, c), p, i)
    <3>1. c \in Segments /\ Append(x, c) \in DOMAIN tree
      BY DEF Kids
    <3>2. PICK y : y = Append(x, c)
      OBVIOUS
    <3>3. Len(y) = i /\ y[i] = c /\ \A j \in 1..(i - 1) : y[j] = x[j]
      BY <2>1, <2>2, <3>1, <3>2
    <3>4. \A j \in 1..(i - 1) : x[j] = p[j] \/ x[j] \notin Static
      BY <2>1, <2>2 DEF Fits
    <3>5. \A j \in 1..i : y[j] = p[j] \/ y[j] \notin Static
      BY <2>5, <3>3, <3>4
    <3>6. QED BY <3>1, <3>2, <3>3, <3>5 DEF Fits
  <2>6. CASE Append(x, p[i]) \in DOMAIN tree
    <3>1. Descend(tree, x, p[i]) = {Append(x, p[i])}
      BY <1>6, <2>6 DEF Descend
    <3>2. p[i] \in Kids(tree, x)
      BY <1>1, <2>6 DEF Kids
    <3>3. StandsAt(Append(x, p[i]), p, i)
      BY <2>3, <2>4, <2>5, <3>2 DEF StandsAt
    <3>4. QED BY <3>1, <3>3
  <2>7. CASE Append(x, p[i]) \notin DOMAIN tree /\ Kids(tree, x) = {}
    <3>1. Descend(tree, x, p[i]) = {Nil}
      BY <1>6, <2>7 DEF Descend
    <3>2. StandsAt(Nil, p, i)
      BY <2>3, <2>7 DEF StandsAt
    <3>3. QED BY <3>1, <3>2
  <2>8. CASE Append(x, p[i]) \notin DOMAIN tree /\ Kids(tree, x) # {}
    <3>1. Descend(tree, x, p[i]) =
             {IF c \in Static THEN Nil ELSE Append(x, c) : c \in Kids(tree, x)}
      BY <1>6, <2>8 DEF Descend
    <3>2. p[i] \notin Kids(tree, x)
      BY <2>8 DEF Kids
    <3>3. PICK c \in Kids(tree, x) : TRUE
      BY <2>8
    <3>4. CASE c \in Static
      <4>1. \A d \in Kids(tree, x) : d \in Static
        BY <2>4, <3>4
      <4>2. Descend(tree, x, p[i]) = {Nil}
        BY <3>1, <3>3, <4>1
      <4>3. StandsAt(Nil, p, i)
        BY <2>3, <3>2, <4>1 DEF StandsAt
      <4>4. QED BY <4>2, <4>3
    <3>5. CASE c \notin Static
      <4>1. Kids(tree, x) = {c}
        BY <2>4, <3>3, <3>5
      <4>2. Descend(tree, x, p[i]) = {Append(x, c)}
        BY <3>1, <3>5, <4>1
      <4>3. StandsAt(Append(x, c), p, i)
        BY <2>3, <2>5, <3>5, <4>1 DEF StandsAt
      <4>4. QED BY <4>2, <4>3
    <3>6. QED BY <3>4, <3>5
  <2>9. QED BY <2>6, <2>7, <2>8
<1>7. QED BY <1>4, <1>5, <1>6

(* The nodes one round leads to from those in X.                           *)
WalkStep(p, i, X) == UNION {Descend(tree, m, p[i]) : m \in X}

(* The walk is f: the recursive definition in Resolve, of its first n      *)
(* rounds.                                                                 *)
IsWalk(f, p, n) ==
    f = [i \in 0..n |-> IF i = 0 THEN {<<>>}
                        ELSE UNION {Descend(tree, m, p[i]) : m \in f[i - 1]}]

(* The recursive definition defines a function: the walk of n + 1 rounds   *)
(* extends that of n.                                                      *)
LEMMA WalkDefined ==
    ASSUME NEW p, NEW n \in Nat
    PROVE  \E f : IsWalk(f, p, n)
<1> DEFINE S == {k \in Nat : \E f : IsWalk(f, p, k)}
<1>1. 0 \in S
  <2>1. PICK f : f = [i \in 0..0 |-> {<<>>}]
    OBVIOUS
  <2>2. f = [i \in 0..0 |-> IF i = 0 THEN {<<>>}
                            ELSE UNION {Descend(tree, m, p[i]) : m \in f[i - 1]}]
    <3>1. \A i \in 0..0 : i = 0
      OBVIOUS
    <3>2. QED BY <2>1, <3>1, Zenon
  <2>3. QED BY <2>2 DEF IsWalk
<1>2. ASSUME NEW k \in S PROVE k + 1 \in S
  <2>1. k \in Nat
    OBVIOUS
  <2>2. PICK f : IsWalk(f, p, k)
    OBVIOUS
  <2>3. PICK g : g = [i \in 0..(k + 1) |-> IF i = 0 THEN {<<>>} ELSE WalkStep(p, i, f[i - 1])]
    OBVIOUS
  <2>4. \A i \in 0..k : g[i] = f[i]
    <3>1. \A i \in 0..k : i \in 0..(k + 1)
      BY <2>1
    <3>2. \A i \in 0..k : g[i] = IF i = 0 THEN {<<>>} ELSE WalkStep(p, i, f[i - 1])
      BY <2>3, <3>1, Zenon
    <3>3. \A i \in 0..k : f[i] = IF i = 0 THEN {<<>>} ELSE WalkStep(p, i, f[i - 1])
      BY <2>2, Zenon DEF IsWalk, WalkStep
    <3>4. QED BY <3>2, <3>3, Zenon
  <2>5. \A i \in 0..(k + 1) : i # 0 => f[i - 1] = g[i - 1]
    <3>1. \A i \in 0..(k + 1) : i # 0 => i - 1 \in 0..k
      BY <2>1
    <3>2. QED BY <2>4, <3>1
  <2>6. g = [i \in 0..(k + 1) |-> IF i = 0 THEN {<<>>} ELSE WalkStep(p, i, g[i - 1])]
    <3>1. \A i \in 0..(k + 1) :
             (IF i = 0 THEN {<<>>} ELSE WalkStep(p, i, f[i - 1]))
           = (IF i = 0 THEN {<<>>} ELSE WalkStep(p, i, g[i - 1]))
      BY <2>5, Zenon
    <3>2. QED BY <2>3, <3>1, Zenon
  <2>7. IsWalk(g, p, k + 1)
    BY <2>6, Zenon DEF IsWalk, WalkStep
  <2>8. QED BY <2>1, <2>7
<1>3. Nat \subseteq S
  <2> HIDE DEF S
  <2>1. QED BY <1>1, <1>2, Induction
<1>4. QED BY <1>3

(* After i rounds the walk stands at one node, the one they lead to.       *)
LEMMA WalkStands ==
    ASSUME TypeOK, OneKind, NEW p \in Seq(Static), NEW f, IsWalk(f, p, Len(p))
    PROVE  \E x : f[Len(p)] = {x} /\ StandsAt(x, p, Len(p))
<1>1. PICK n \in Nat : n = Len(p)
  OBVIOUS
<1> DEFINE S == {k \in Nat : k <= n => \E x : f[k] = {x} /\ StandsAt(x, p, k)}
<1>2. \A i \in 0..n : f[i] = IF i = 0 THEN {<<>>} ELSE WalkStep(p, i, f[i - 1])
  BY <1>1, Zenon DEF IsWalk, WalkStep
<1>3. 0 \in S
  <2>1. 0 \in 0..n
    OBVIOUS
  <2>2. f[0] = {<<>>}
    BY <1>2, <2>1, Zenon
  <2>3. StandsAt(<<>>, p, 0)
    <3>1. <<>> \in DOMAIN tree /\ Fits(<<>>, p, 0)
      BY DEF TypeOK, Fits
    <3>2. ASSUME NEW m \in DOMAIN tree, Fits(m, p, 0) PROVE m = <<>>
      <4>1. m \in Seq(Segments) /\ Len(m) <= 0
        BY <3>2 DEF TypeOK, Fits
      <4>2. QED BY <4>1
    <3>3. QED BY <3>1, <3>2 DEF StandsAt
  <2>4. QED BY <2>2, <2>3
<1>4. ASSUME NEW k \in S PROVE k + 1 \in S
  <2>1. SUFFICES ASSUME k + 1 <= n PROVE \E x : f[k + 1] = {x} /\ StandsAt(x, p, k + 1)
    OBVIOUS
  <2>2. k \in Nat /\ k <= n
    BY <2>1
  <2>3. PICK i \in 1..n : i = k + 1
    BY <2>1, <2>2
  <2>4. PICK x : f[k] = {x} /\ StandsAt(x, p, k)
    BY <2>2
  <2>5. i - 1 = k /\ i \in 0..n /\ i # 0
    BY <2>2, <2>3
  <2>6. f[i] = WalkStep(p, i, {x})
    BY <1>2, <2>4, <2>5, Zenon
  <2>7. WalkStep(p, i, {x}) = Descend(tree, x, p[i])
    BY DEF WalkStep
  <2>8. \E y : Descend(tree, x, p[i]) = {y} /\ StandsAt(y, p, i)
    BY <1>1, <2>4, <2>5, DescendOnce
  <2>9. QED BY <2>3, <2>6, <2>7, <2>8
<1>5. Nat \subseteq S
  <2> HIDE DEF S
  <2>1. QED BY <1>3, <1>4, Induction
<1>6. n \in S
  BY <1>5
<1>7. QED BY <1>1, <1>6

(* Resolve returns the value of the node the whole path leads to.          *)
LEMMA ResolveStands ==
    ASSUME TypeOK, OneKind, NEW p \in Seq(Static)
    PROVE  \E x : /\ StandsAt(x, p, Len(p))
                  /\ Resolve(tree, p) = {IF x = Nil THEN Nil ELSE tree[x]}
<1> DEFINE at[i \in 0..Len(p)] ==
               IF i = 0 THEN {<<>>}
               ELSE UNION {Descend(tree, m, p[i]) : m \in at[i - 1]}
<1>1. Resolve(tree, p) = {IF m = Nil THEN Nil ELSE tree[m] : m \in at[Len(p)]}
  BY DEF Resolve
<1>2. at = CHOOSE f : f = [i \in 0..Len(p) |->
                             IF i = 0 THEN {<<>>}
                             ELSE UNION {Descend(tree, m, p[i]) : m \in f[i - 1]}]
  OBVIOUS
<1>3. IsWalk(at, p, Len(p))
  <2> HIDE DEF at
  <2>1. Len(p) \in Nat
    OBVIOUS
  <2>2. \E f : f = [i \in 0..Len(p) |->
                      IF i = 0 THEN {<<>>}
                      ELSE UNION {Descend(tree, m, p[i]) : m \in f[i - 1]}]
    <3>1. PICK g : IsWalk(g, p, Len(p))
      BY <2>1, WalkDefined
    <3>2. QED BY <3>1, Zenon DEF IsWalk
  <2>3. QED BY <1>2, <2>2, Zenon DEF IsWalk
<1> HIDE DEF at
<1>4. PICK x : at[Len(p)] = {x} /\ StandsAt(x, p, Len(p))
  BY <1>3, WalkStands
<1>5. {IF m = Nil THEN Nil ELSE tree[m] : m \in {x}} = {IF x = Nil THEN Nil ELSE tree[x]}
  OBVIOUS
<1>6. QED BY <1>1, <1>4, <1>5

(* A registered route matches a path when the path leads to its node.      *)
LEMMA MatchesFits ==
    ASSUME TypeOK, NEW p \in Seq(Static), NEW r \in DOMAIN tree
    PROVE  Matches(r, p) <=> Fits(r, p, Len(p))
<1>1. r \in Seq(Segments) /\ Len(r) \in Nat /\ Len(p) \in Nat
  BY DEF TypeOK
<1>2. ASSUME r # <<>>, r[Len(r)] \in Wildcards PROVE r[Len(r)] \notin Static
  BY <1>2, SegmentsAssumption
<1>3. ASSUME r # <<>>, r[Len(r)] \in Wildcards,
             \A i \in 1..(Len(r) - 1) : r[i] = p[i] \/ r[i] \notin Static
      PROVE  \A i \in 1..Len(r) : r[i] = p[i] \/ r[i] \notin Static
  BY <1>1, <1>2, <1>3
<1>4. Matches(r, p) => Fits(r, p, Len(p))
  BY <1>1, <1>3 DEF Matches, Fits
<1>5. Fits(r, p, Len(p)) => Matches(r, p)
  BY <1>1 DEF Matches, Fits
<1>6. QED BY <1>4, <1>5

(* tree.go, Resolve: in every reachable tree, failed AddRoute calls and    *)
(* deletions included, a request path of any length resolves to the value  *)
(* of the one registered route it matches, and to nil when it matches none.*)
THEOREM ResolvesExactly == Spec => []ResolveCorrect
<1>1. TypeOK /\ OneKind /\ Held => ResolveCorrect
  <2>1. SUFFICES ASSUME TypeOK, OneKind, Held, NEW p \in RequestPaths,
                        NEW found, found = {r \in DOMAIN registered : Matches(r, p)}
                 PROVE  /\ Resolve(tree, p) = IF found = {} THEN {Nil} ELSE {registered[r] : r \in found}
                        /\ \A r, s \in found : r = s
    BY DEF ResolveCorrect
  <2>2. p \in Seq(Static)
    BY CallsAssumption DEF RequestPaths
  <2>3. PICK x : StandsAt(x, p, Len(p)) /\ Resolve(tree, p) = {IF x = Nil THEN Nil ELSE tree[x]}
    BY <2>1, <2>2, ResolveStands
  <2>4. \A r \in found : r \in DOMAIN tree /\ r = x /\ tree[r] = registered[r]
    BY <2>1, <2>2, <2>3, MatchesFits DEF StandsAt, Held
  <2>5. CASE found = {}
    <3>1. x # Nil => tree[x] = Nil
      <4>1. SUFFICES ASSUME x # Nil PROVE tree[x] = Nil
        OBVIOUS
      <4>2. x \in DOMAIN tree /\ Fits(x, p, Len(p))
        BY <2>3, <4>1 DEF StandsAt
      <4>3. x \notin DOMAIN registered
        BY <2>1, <2>2, <2>5, <4>2, MatchesFits
      <4>4. QED BY <2>1, <4>2, <4>3 DEF Held
    <3>2. QED BY <2>3, <2>5, <3>1
  <2>6. CASE found # {}
    <3>1. found = {x} /\ x \in DOMAIN tree /\ tree[x] = registered[x]
      BY <2>4, <2>6
    <3>2. x # Nil
      BY <2>1, <3>1, SegmentsAssumption DEF TypeOK
    <3>3. {registered[r] : r \in found} = {tree[x]}
      BY <3>1
    <3>4. QED BY <2>3, <2>6, <3>1, <3>2, <3>3
  <2>7. QED BY <2>5, <2>6, <2>4
<1>2. QED BY <1>1, ShapeKept, RoutesHeld, PTL
=============================================================================
