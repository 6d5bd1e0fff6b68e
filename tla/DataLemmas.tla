---------------------------- MODULE DataLemmas ----------------------------
(***************************************************************************)
(* Facts about numbers, sequences and finite sets that the proofs about    *)
(* several components need, for all values.                                *)
(***************************************************************************)
EXTENDS SequencesExt, TLAPS, FiniteSetTheorems, SequenceTheorems

(***************************************************************************)
(* Induction.  The library's induction theorems are about operators; the   *)
(* least counterexample is a fact about a set.                             *)
(***************************************************************************)

(* A set of natural numbers has a least element.                           *)
LEMMA Least ==
    ASSUME NEW T \in SUBSET Nat, T # {}
    PROVE  \E n \in T : \A k \in T : n <= k
<1>1. PICK R : R = OpToRel(<, Nat)
  OBVIOUS
<1>2. IsWellFoundedOn(R, Nat)
  BY <1>1, NatLessThanWellFounded
<1>3. PICK n \in T : \A k \in T : ~(<<k, n>> \in R)
  BY <1>2, WFMin
<1>4. \A k \in T : k < n => <<k, n>> \in R
  BY <1>1 DEF OpToRel
<1>5. \A k \in T : ~(k < n)
  BY <1>3, <1>4, Zenon
<1>6. \A k \in T : n <= k
  BY <1>5
<1>7. QED BY <1>6

(* A set that holds 0, and n + 1 with n, holds all natural numbers.        *)
LEMMA Induction ==
    ASSUME NEW S, 0 \in S, \A n \in S \cap Nat : n + 1 \in S
    PROVE  Nat \subseteq S
<1>1. SUFFICES ASSUME Nat \ S # {} PROVE FALSE
  OBVIOUS
<1>2. PICK n \in Nat \ S : \A k \in Nat \ S : n <= k
  BY <1>1, Least
<1>3. n # 0 /\ n - 1 \in Nat
  BY <1>2
<1>4. n - 1 \in S
  BY <1>2, <1>3
<1>5. (n - 1) + 1 \in S
  BY <1>3, <1>4, Zenon
<1>6. (n - 1) + 1 = n
  BY <1>2
<1>7. QED BY <1>2, <1>5, <1>6, Zenon

(* Concatenation is associative.                                           *)
LEMMA JoinsAgree ==
    ASSUME NEW T, NEW x \in Seq(T), NEW y \in Seq(T), NEW z \in Seq(T)
    PROVE  (z \o y) \o x = z \o (y \o x)
<1>1. PICK a : a = z \o y
  OBVIOUS
<1>2. PICK b : b = y \o x
  OBVIOUS
<1>3. a \in Seq(T) /\ b \in Seq(T)
  BY <1>1, <1>2, ConcatProperties
<1>4. Len(a) = Len(z) + Len(y) /\ Len(b) = Len(y) + Len(x)
  BY <1>1, <1>2
<1>5. a \o x \in Seq(T) /\ z \o b \in Seq(T)
  BY <1>3, ConcatProperties
<1>6. Len(a \o x) = Len(z) + Len(y) + Len(x) /\ Len(z \o b) = Len(z) + Len(y) + Len(x)
  <2>1. Len(a \o x) = Len(a) + Len(x) /\ Len(z \o b) = Len(z) + Len(b)
    BY <1>3
  <2>2. Len(x) \in Nat /\ Len(y) \in Nat /\ Len(z) \in Nat
    OBVIOUS
  <2>3. QED BY <1>4, <2>1, <2>2
<1>7. ASSUME NEW i \in 1..(Len(z) + Len(y) + Len(x))
      PROVE  (a \o x)[i] = (z \o b)[i]
  <2>0. Len(x) \in Nat /\ Len(y) \in Nat /\ Len(z) \in Nat /\ i \in Int
    OBVIOUS
  <2>1. CASE i <= Len(z)
    BY <1>1, <1>3, <1>4, <2>1
  <2>2. CASE i > Len(z) /\ i <= Len(z) + Len(y)
    <3>1. (a \o x)[i] = y[i - Len(z)]
      BY <1>1, <1>3, <1>4, <2>2
    <3>2. (z \o b)[i] = b[i - Len(z)]
      BY <1>3, <1>4, <2>2
    <3>3. i - Len(z) \in 1..Len(y)
      BY <2>2
    <3>4. b[i - Len(z)] = y[i - Len(z)]
      BY <1>2, <3>3
    <3>5. QED BY <3>1, <3>2, <3>4
  <2>3. CASE i > Len(z) + Len(y)
    <3>1. (a \o x)[i] = x[i - (Len(z) + Len(y))]
      BY <1>3, <1>4, <2>3
    <3>2. (z \o b)[i] = b[i - Len(z)]
      BY <1>3, <1>4, <2>3
    <3>3. i - Len(z) \in (Len(y) + 1)..(Len(y) + Len(x))
      BY <2>3
    <3>4. PICK j : j = i - Len(z)
      OBVIOUS
    <3>5. b[j] = x[j - Len(y)]
      BY <1>2, <3>3, <3>4
    <3>6. PICK n : n = i - (Len(z) + Len(y))
      OBVIOUS
    <3>7. j - Len(y) = n
      BY <2>0, <3>4, <3>6
    <3>8. (a \o x)[i] = x[n] /\ (z \o b)[i] = b[j] /\ b[j] = x[n]
      BY <3>1, <3>2, <3>4, <3>5, <3>6, <3>7, Zenon
    <3>9. QED BY <3>8
  <2>4. i <= Len(z) \/ (i > Len(z) /\ i <= Len(z) + Len(y)) \/ i > Len(z) + Len(y)
    BY <2>0
  <2>5. QED BY <2>1, <2>2, <2>3, <2>4, Zenon
<1>8. a \o x = z \o b
  BY <1>5, <1>6, <1>7, SeqEqual
<1>9. QED BY <1>1, <1>2, <1>8

-----------------------------------------------------------------------------
(***************************************************************************)
(* FlattenSeq is defined by recursion on the number of sequences: f holds  *)
(* the concatenations of the first i sequences of ss, for i up to n.       *)
(***************************************************************************)
Flattens(f, ss, n) == f = [i \in 1..n |-> IF i = 1 THEN ss[i] ELSE f[i - 1] \o ss[i]]

(* The recursive definition defines a function.                            *)
LEMMA FlattensDefined ==
    ASSUME NEW ss, NEW n \in Nat
    PROVE  \E f : Flattens(f, ss, n)
<1> DEFINE S == {k \in Nat : \E f : Flattens(f, ss, k)}
<1>1. 0 \in S
  <2>1. \A i \in 1..0 : FALSE
    OBVIOUS
  <2>2. PICK f : f = [i \in 1..0 |-> 0]
    OBVIOUS
  <2>3. f = [i \in 1..0 |-> IF i = 1 THEN ss[i] ELSE f[i - 1] \o ss[i]]
    BY <2>1, <2>2, Zenon
  <2>4. QED BY <2>3 DEF Flattens
<1>2. ASSUME NEW k \in S PROVE k + 1 \in S
  <2>1. k \in Nat
    OBVIOUS
  <2>2. PICK f : Flattens(f, ss, k)
    OBVIOUS
  <2>3. PICK g : g = [i \in 1..(k + 1) |-> IF i = 1 THEN ss[i] ELSE f[i - 1] \o ss[i]]
    OBVIOUS
  <2>4. \A i \in 1..k : g[i] = f[i]
    <3>1. \A i \in 1..k : i \in 1..(k + 1)
      BY <2>1
    <3>2. \A i \in 1..k : g[i] = IF i = 1 THEN ss[i] ELSE f[i - 1] \o ss[i]
      BY <2>3, <3>1, Zenon
    <3>3. \A i \in 1..k : f[i] = IF i = 1 THEN ss[i] ELSE f[i - 1] \o ss[i]
      BY <2>2, Zenon DEF Flattens
    <3>4. QED BY <3>2, <3>3, Zenon
  <2>5. \A i \in 1..(k + 1) : i # 1 => f[i - 1] = g[i - 1]
    <3>1. \A i \in 1..(k + 1) : i # 1 => i - 1 \in 1..k
      BY <2>1
    <3>2. QED BY <2>4, <3>1
  <2>6. \A i \in 1..(k + 1) :
             (IF i = 1 THEN ss[i] ELSE f[i - 1] \o ss[i])
           = (IF i = 1 THEN ss[i] ELSE g[i - 1] \o ss[i])
    BY <2>5, Zenon
  <2>7. Flattens(g, ss, k + 1)
    BY <2>3, <2>6, Zenon DEF Flattens
  <2>8. QED BY <2>1, <2>7
<1>3. Nat \subseteq S
  <2> HIDE DEF S
  <2>1. QED BY <1>1, <1>2, Induction
<1>4. QED BY <1>3

(* It depends on no more than the sequences it has read.                   *)
LEMMA FlattensAgree ==
    ASSUME NEW f, NEW g, NEW ss, NEW tt, NEW n \in Nat, NEW m \in Nat, n <= m,
           Flattens(f, ss, n), Flattens(g, tt, m), \A i \in 1..n : ss[i] = tt[i]
    PROVE  \A i \in 1..n : f[i] = g[i]
<1> DEFINE S == {k \in Nat : k \in 1..n => f[k] = g[k]}
<1>1. \A i \in 1..n : i \in 1..m
  OBVIOUS
<1>2. \A i \in 1..n : f[i] = IF i = 1 THEN ss[i] ELSE f[i - 1] \o ss[i]
  BY Zenon DEF Flattens
<1>3. \A i \in 1..m : g[i] = IF i = 1 THEN tt[i] ELSE g[i - 1] \o tt[i]
  BY Zenon DEF Flattens
<1>4. 0 \in S
  OBVIOUS
<1>5. ASSUME NEW k \in S PROVE k + 1 \in S
  <2>1. SUFFICES ASSUME k + 1 \in 1..n PROVE f[k + 1] = g[k + 1]
    OBVIOUS
  <2>2. PICK i \in 1..n : i = k + 1
    BY <2>1
  <2>3. ss[i] = tt[i] /\ i \in 1..m
    BY <1>1
  <2>4. CASE i = 1
    BY <1>2, <1>3, <2>2, <2>3, <2>4, Zenon
  <2>5. CASE i # 1
    <3>1. k \in 1..n /\ i - 1 = k
      BY <2>2, <2>5
    <3>2. f[i - 1] = g[i - 1]
      BY <3>1
    <3>3. QED BY <1>2, <1>3, <2>2, <2>3, <2>5, <3>2, ZenonT(30)
  <2>6. QED BY <2>4, <2>5
<1>6. Nat \subseteq S
  <2> HIDE DEF S
  <2>1. QED BY <1>4, <1>5, Induction
<1>7. QED BY <1>6

(* What it computes are sequences.                                         *)
LEMMA FlattensTyped ==
    ASSUME NEW T, NEW ss \in Seq(Seq(T)), NEW f, Flattens(f, ss, Len(ss))
    PROVE  \A i \in 1..Len(ss) : f[i] \in Seq(T)
<1>1. PICK n \in Nat : n = Len(ss)
  OBVIOUS
<1> DEFINE S == {k \in Nat : k \in 1..n => f[k] \in Seq(T)}
<1>2. \A i \in 1..n : f[i] = IF i = 1 THEN ss[i] ELSE f[i - 1] \o ss[i]
  BY <1>1, Zenon DEF Flattens
<1>3. 0 \in S
  OBVIOUS
<1>4. ASSUME NEW k \in S PROVE k + 1 \in S
  <2>1. SUFFICES ASSUME k + 1 \in 1..n PROVE f[k + 1] \in Seq(T)
    OBVIOUS
  <2>2. PICK i \in 1..n : i = k + 1
    BY <2>1
  <2>3. ss[i] \in Seq(T)
    BY <1>1
  <2>4. CASE i = 1
    BY <1>2, <2>2, <2>3, <2>4, Zenon
  <2>5. CASE i # 1
    <3>1. k \in 1..n /\ i - 1 = k
      BY <2>2, <2>5
    <3>2. f[i - 1] \in Seq(T)
      BY <3>1
    <3>3. f[i - 1] \o ss[i] \in Seq(T)
      BY <2>3, <3>2
    <3>4. QED BY <1>2, <2>2, <2>5, <3>3, Zenon
  <2>6. QED BY <2>4, <2>5
<1>5. Nat \subseteq S
  <2> HIDE DEF S
  <2>1. QED BY <1>3, <1>4, Induction
<1>6. QED BY <1>1, <1>5

(* FlattenSeq returns the last of these concatenations.                    *)
LEMMA FlattenIs ==
    ASSUME NEW T, NEW ss \in Seq(Seq(T)), ss # <<>>
    PROVE  \E f : Flattens(f, ss, Len(ss)) /\ FlattenSeq(ss) = f[Len(ss)]
<1> DEFINE flatten[i \in 1..Len(ss)] == IF i = 1 THEN ss[i] ELSE flatten[i - 1] \o ss[i]
<1>1. Len(ss) \in Nat /\ Len(ss) # 0
  OBVIOUS
<1>2. FlattenSeq(ss) = flatten[Len(ss)]
  BY <1>1 DEF FlattenSeq
<1>3. flatten = CHOOSE f : f = [i \in 1..Len(ss) |-> IF i = 1 THEN ss[i] ELSE f[i - 1] \o ss[i]]
  OBVIOUS
<1> HIDE DEF flatten
<1>4. PICK g : Flattens(g, ss, Len(ss))
  BY <1>1, FlattensDefined
<1>5. Flattens(flatten, ss, Len(ss))
  BY <1>3, <1>4, Zenon DEF Flattens
<1>6. QED BY <1>2, <1>5

(* No sequences make an empty one.                                         *)
LEMMA FlattenEmpty == FlattenSeq(<<>>) = <<>>
BY DEF FlattenSeq

(* One more sequence is concatenated at the end.                           *)
LEMMA FlattenAppend ==
    ASSUME NEW T, NEW ss \in Seq(Seq(T)), NEW b \in Seq(T)
    PROVE  /\ FlattenSeq(ss) \in Seq(T)
           /\ FlattenSeq(Append(ss, b)) = FlattenSeq(ss) \o b
<1>1. PICK tt : tt = Append(ss, b)
  OBVIOUS
<1>2. PICK n \in Nat : n = Len(ss)
  OBVIOUS
<1>3. /\ tt \in Seq(Seq(T)) /\ tt # <<>> /\ Len(tt) = n + 1 /\ n + 1 \in Nat
      /\ tt[n + 1] = b
      /\ \A i \in 1..n : ss[i] = tt[i]
  BY <1>1, <1>2
<1>4. PICK g : Flattens(g, tt, n + 1) /\ FlattenSeq(tt) = g[n + 1]
  BY <1>3, FlattenIs
<1>5. n + 1 \in 1..(n + 1) /\ (n + 1) - 1 = n
  OBVIOUS
<1>6. g[n + 1] = IF n + 1 = 1 THEN tt[n + 1] ELSE g[n] \o tt[n + 1]
  BY <1>4, <1>5, Zenon DEF Flattens
<1>7. CASE ss = <<>>
  <2>1. n = 0
    BY <1>2, <1>7
  <2>2. g[n + 1] = b
    BY <1>3, <1>6, <2>1
  <2>3. FlattenSeq(ss) = <<>>
    BY <1>7, FlattenEmpty
  <2>4. QED BY <1>1, <1>4, <2>2, <2>3
<1>8. CASE ss # <<>>
  <2>1. n # 0 /\ n + 1 # 1 /\ n <= n + 1 /\ n \in 1..n
    BY <1>2, <1>8
  <2>2. PICK f : Flattens(f, ss, n) /\ FlattenSeq(ss) = f[n]
    BY <1>2, <1>8, FlattenIs
  <2>3. f[n] = g[n]
    <3>1. n + 1 \in Nat /\ \A i \in 1..n : ss[i] = tt[i]
      BY <1>3
    <3>2. PICK m \in Nat : m = n + 1 /\ n <= m
      BY <2>1, <3>1
    <3>3. Flattens(g, tt, m)
      BY <1>4, <3>2
    <3>4. \A i \in 1..n : f[i] = g[i]
      BY <2>2, <3>1, <3>2, <3>3, FlattensAgree
    <3>5. QED BY <2>1, <3>4
  <2>4. f[n] \in Seq(T)
    BY <1>2, <2>1, <2>2, FlattensTyped
  <2>5. g[n + 1] = f[n] \o b
    BY <1>3, <1>6, <2>1, <2>3, Zenon
  <2>6. QED BY <1>1, <1>4, <2>2, <2>4, <2>5
<1>9. QED BY <1>7, <1>8

(* A sequence is its front and its last element.                           *)
LEMMA FrontLast ==
    ASSUME NEW T, NEW s \in Seq(T), NEW n \in Nat, Len(s) = n + 1
    PROVE  \E r \in Seq(T) : \E x \in T : s = Append(r, x) /\ Len(r) = n
<1>1. /\ SubSeq(s, 1, n) \in Seq(T) /\ Len(SubSeq(s, 1, n)) = n /\ s[n + 1] \in T
      /\ s = Append(SubSeq(s, 1, n), s[n + 1])
  OBVIOUS
<1>2. QED BY <1>1

(* A set that holds the empty sequence, and with a sequence its extensions *)
(* by one element, holds all sequences.                                    *)
LEMMA SequenceInduction ==
    ASSUME NEW T, NEW A, <<>> \in A,
           \A r \in A \cap Seq(T) : \A x \in T : Append(r, x) \in A
    PROVE  Seq(T) \subseteq A
<1> DEFINE S == {n \in Nat : \A s \in Seq(T) : Len(s) = n => s \in A}
<1>1. 0 \in S
  <2>1. \A s \in Seq(T) : Len(s) = 0 => s = <<>>
    OBVIOUS
  <2>2. QED BY <2>1
<1>2. ASSUME NEW n \in S PROVE n + 1 \in S
  <2>1. SUFFICES ASSUME NEW s \in Seq(T), Len(s) = n + 1 PROVE s \in A
    OBVIOUS
  <2>2. n \in Nat
    OBVIOUS
  <2>3. PICK r \in Seq(T) : \E x \in T : s = Append(r, x) /\ Len(r) = n
    BY <2>1, <2>2, FrontLast
  <2>4. PICK x \in T : s = Append(r, x) /\ Len(r) = n
    BY <2>3
  <2>5. r \in A
    BY <2>4
  <2>6. QED BY <2>4, <2>5
<1>3. Nat \subseteq S
  <2> HIDE DEF S
  <2>1. QED BY <1>1, <1>2, Induction
<1>4. \A s \in Seq(T) : Len(s) \in Nat
  OBVIOUS
<1>5. QED BY <1>3, <1>4

(* A sequence of one element.                                              *)
LEMMA OneElement ==
    ASSUME NEW T, NEW s \in Seq(T), Len(s) = 1
    PROVE  Tail(s) = <<>> /\ Head(s) = s[1] /\ s[1] \in T /\ s = Append(<<>>, s[1])
<1>1. Tail(s) = <<>> /\ Head(s) = s[1] /\ s[1] \in T
  <2>1. Head(s) = s[1] /\ s[1] \in T /\ Tail(s) \in Seq(T) /\ Len(Tail(s)) = 0
    OBVIOUS
  <2>2. PICK t \in Seq(T) : t = Tail(s) /\ Len(t) = 0
    BY <2>1
  <2>3. t = <<>>
    BY <2>2
  <2>4. QED BY <2>1, <2>2, <2>3
<1>2. PICK x \in T : x = s[1]
  BY <1>1
<1>3. PICK r \in Seq(T) : r = Append(<<>>, x)
  <2>1. PICK e \in Seq(T) : e = <<>>
    <3>1. <<>> \in Seq(T)
      OBVIOUS
    <3>2. QED BY <3>1, Zenon
  <2>2. Append(e, x) \in Seq(T)
    OBVIOUS
  <2>3. QED BY <2>1, <2>2
<1>4. Len(r) = 1 /\ r[1] = x
  BY <1>3
<1>5. s = r
  BY <1>2, <1>4
<1>6. QED BY <1>1, <1>2, <1>3, <1>5

(* The first sequence can be split off.                                    *)
LEMMA FlattenHead ==
    ASSUME NEW T, NEW ss \in Seq(Seq(T)), ss # <<>>
    PROVE  FlattenSeq(ss) = Head(ss) \o FlattenSeq(Tail(ss))
<1> DEFINE S == {k \in Nat : \A tt \in Seq(Seq(T)) :
                    Len(tt) = k + 1 => FlattenSeq(tt) = Head(tt) \o FlattenSeq(Tail(tt))}
<1>1. 0 \in S
  <2>1. SUFFICES ASSUME NEW tt \in Seq(Seq(T)), Len(tt) = 1
                 PROVE  FlattenSeq(tt) = Head(tt) \o FlattenSeq(Tail(tt))
    OBVIOUS
  <2>2. Tail(tt) = <<>> /\ Head(tt) = tt[1] /\ tt[1] \in Seq(T) /\ tt = Append(<<>>, tt[1])
    BY <2>1, OneElement, Zenon
  <2>3. PICK b \in Seq(T) : b = tt[1]
    BY <2>2
  <2>4. <<>> \in Seq(Seq(T))
    OBVIOUS
  <2>5. FlattenSeq(Append(<<>>, b)) = FlattenSeq(<<>>) \o b
    BY <2>4, FlattenAppend, Zenon
  <2>6. <<>> \o b = b \o <<>>
    OBVIOUS
  <2>7. QED BY <2>2, <2>3, <2>5, <2>6, FlattenEmpty, Zenon
<1>2. ASSUME NEW k \in S PROVE k + 1 \in S
  <2>1. SUFFICES ASSUME NEW tt \in Seq(Seq(T)), Len(tt) = (k + 1) + 1
                 PROVE  FlattenSeq(tt) = Head(tt) \o FlattenSeq(Tail(tt))
    OBVIOUS
  <2>2. PICK r \in Seq(Seq(T)) : \E x \in Seq(T) : tt = Append(r, x) /\ Len(r) = k + 1
    <3>1. k + 1 \in Nat
      OBVIOUS
    <3>2. QED BY <2>1, <3>1, FrontLast, ZenonT(30)
  <2>3. PICK x \in Seq(T) : tt = Append(r, x) /\ Len(r) = k + 1
    BY <2>2
  <2>4. r # <<>> /\ Tail(r) \in Seq(Seq(T)) /\ Head(r) \in Seq(T)
    BY <2>3
  <2>5. Head(tt) = Head(r) /\ Tail(tt) = Append(Tail(r), x)
    BY <2>3, <2>4
  <2>6. FlattenSeq(r) = Head(r) \o FlattenSeq(Tail(r))
    BY <2>3
  <2>7. /\ FlattenSeq(tt) = FlattenSeq(r) \o x
        /\ FlattenSeq(Tail(r)) \in Seq(T)
        /\ FlattenSeq(Tail(tt)) = FlattenSeq(Tail(r)) \o x
    BY <2>3, <2>4, <2>5, FlattenAppend
  <2>8. PICK y \in Seq(T) : y = FlattenSeq(Tail(r))
    BY <2>7
  <2>9. PICK z \in Seq(T) : z = Head(r)
    BY <2>4
  <2>10. (z \o y) \o x = z \o (y \o x)
    BY JoinsAgree
  <2>11. QED BY <2>5, <2>6, <2>7, <2>8, <2>9, <2>10
<1>3. Nat \subseteq S
  <2> HIDE DEF S
  <2>1. QED BY <1>1, <1>2, Induction
<1>4. PICK k \in Nat : Len(ss) = k + 1
  <2>1. Len(ss) \in Nat /\ Len(ss) # 0
    OBVIOUS
  <2>2. Len(ss) - 1 \in Nat /\ Len(ss) = (Len(ss) - 1) + 1
    BY <2>1
  <2>3. QED BY <2>2
<1>5. QED BY <1>3, <1>4

-----------------------------------------------------------------------------
(* An order of a finite set lists every element, at one place.             *)
LEMMA OrderLists ==
    ASSUME NEW A, IsFiniteSet(A), NEW order \in SetToSeqs(A)
    PROVE  /\ order \in Seq(A)
           /\ \A i, j \in DOMAIN order : order[i] = order[j] => i = j
           /\ \A x \in A : \E i \in DOMAIN order : order[i] = x
<1>1. PICK n : n = Cardinality(A)
  OBVIOUS
<1>2. n \in Nat
  BY <1>1, FS_CardinalityType
<1>3. order \in [1..n -> A] /\ \A i, j \in 1..n : i # j => order[i] # order[j]
  BY <1>1 DEF SetToSeqs
<1>4. order \in Injection(1..n, A)
  BY <1>3 DEF Injection, IsInjective
<1>5. Cardinality(1..n) = n
  BY <1>2, FS_Interval
<1>6. order \in Surjection(1..n, A)
  BY <1>1, <1>4, <1>5, FS_Injection
<1>7. \A x \in A : \E i \in 1..n : order[i] = x
  BY <1>6 DEF Surjection
<1>8. DOMAIN order = 1..n /\ order \in Seq(A)
  BY <1>2, <1>3
<1>9. QED BY <1>3, <1>7, <1>8

-----------------------------------------------------------------------------
(* Concatenation and sequences of one element by names: the provers expand *)
(* them on sight, which keeps them from applying a lemma.                  *)
Joined(s, t) == s \o t
Single(x) == <<x>>

(* The laws of concatenation.                                              *)
LEMMA JoinedLaws ==
    ASSUME NEW T, NEW s \in Seq(T), NEW t \in Seq(T)
    PROVE  /\ Joined(s, t) \in Seq(T)
           /\ Len(Joined(s, t)) = Len(s) + Len(t)
           /\ Joined(s, <<>>) = s /\ Joined(<<>>, s) = s
           /\ \A i \in 1..Len(s) : Joined(s, t)[i] = s[i]
           /\ \A i \in 1..Len(t) : Joined(s, t)[Len(s) + i] = t[i]
BY ConcatProperties, ConcatEmptySeq DEF Joined

(* Concatenation is associative.                                           *)
LEMMA JoinedThree ==
    ASSUME NEW T, NEW s \in Seq(T), NEW t \in Seq(T), NEW u \in Seq(T)
    PROVE  Joined(Joined(s, t), u) = Joined(s, Joined(t, u))
BY ConcatAssociative DEF Joined

(* One element is appended.                                                *)
LEMMA JoinedOne ==
    ASSUME NEW T, NEW s \in Seq(T), NEW x \in T
    PROVE  Append(s, x) = Joined(s, Single(x)) /\ Single(x) \in Seq(T)
<1>1. <<x>> \in Seq(T)
  OBVIOUS
<1>2. Append(s, x) = s \o <<x>>
  OBVIOUS
<1>3. QED BY <1>1, <1>2 DEF Joined, Single

(* A sequence is its first element and the rest.                           *)
LEMMA HeadRest ==
    ASSUME NEW T, NEW s \in Seq(T), s # <<>>
    PROVE  /\ Head(s) \in T /\ Tail(s) \in Seq(T) /\ Single(Head(s)) \in Seq(T)
           /\ s = Joined(Single(Head(s)), Tail(s))
BY DEF Joined, Single

(* A sequence is one of its elements with what is before and after it.     *)
LEMMA Around ==
    ASSUME NEW T, NEW s \in Seq(T), NEW i \in 1..Len(s)
    PROVE  \E r \in Seq(T) : \E t \in Seq(T) :
              /\ s = Joined(Joined(r, Single(s[i])), t)
              /\ \A j \in 1..Len(r) : j \in 1..Len(s) /\ j # i /\ r[j] = s[j]
              /\ \A j \in 1..Len(t) : i + j \in 1..Len(s) /\ i + j # i /\ t[j] = s[i + j]
<1>1. PICK n \in Nat : n = Len(s)
  OBVIOUS
<1>2. PICK r : r = SubSeq(s, 1, i - 1)
  OBVIOUS
<1>3. r \in Seq(T) /\ Len(r) = i - 1 /\ \A j \in 1..(i - 1) : r[j] = s[j]
  BY <1>2
<1>4. PICK t : t = SubSeq(s, i + 1, n)
  OBVIOUS
<1>5. t \in Seq(T) /\ Len(t) = n - i /\ \A j \in 1..(n - i) : t[j] = s[i + j]
  <2>1. t \in Seq(T) /\ Len(t) = n - i
    BY <1>1, <1>4
  <2>2. ASSUME NEW j \in 1..(n - i) PROVE t[j] = s[i + j]
    <3>1. t[j] = s[(i + 1) + j - 1]
      BY <1>1, <1>4
    <3>2. QED BY <3>1
  <2>3. QED BY <2>1, <2>2
<1>6. s = SubSeq(s, 1, i) \o t
  <2>1. SubSeq(s, 1, n) = s
    BY <1>1, SubSeqFull
  <2>2. 1 \in 1..(Len(s) + 1) /\ i \in (1 - 1)..Len(s) /\ n \in i..Len(s)
    BY <1>1
  <2>3. SubSeq(s, 1, i) \o SubSeq(s, i + 1, n) = SubSeq(s, 1, n)
    BY <2>2, ConcatAdjacentSubSeq, Zenon
  <2>4. QED BY <1>4, <2>1, <2>3
<1>7. SubSeq(s, 1, i) = r \o <<s[i]>>
  <2>1. 1 \in 1..Len(s) /\ i \in 1..Len(s)
    OBVIOUS
  <2>2. SubSeq(s, 1, i) = SubSeq(s, 1, i - 1) \o <<s[i]>>
    BY <2>1, SubSeqRecursiveSecond, Zenon
  <2>3. QED BY <1>2, <2>2
<1>8. \A j \in 1..Len(r) : j \in 1..Len(s) /\ j # i /\ r[j] = s[j]
  BY <1>1, <1>3
<1>9. \A j \in 1..Len(t) : i + j \in 1..Len(s) /\ i + j # i /\ t[j] = s[i + j]
  BY <1>1, <1>5
<1>10. s = Joined(Joined(r, Single(s[i])), t)
  BY <1>6, <1>7, Zenon DEF Joined, Single
<1>11. QED BY <1>3, <1>5, <1>8, <1>9, <1>10, Zenon

(* Where the first of two sequences ends in their concatenation.           *)
LEMMA JoinedPrefix ==
    ASSUME NEW T, NEW s \in Seq(T), NEW t \in Seq(T)
    PROVE  Len(s) \in 0..Len(Joined(s, t)) /\ s = SubSeq(Joined(s, t), 1, Len(s))
<1>1. PICK u \in Seq(T) : u = Joined(s, t)
  BY JoinedLaws
<1>2. PICK n \in Nat : n = Len(s)
  OBVIOUS
<1>3. n \in 0..Len(u) /\ \A i \in 1..n : u[i] = s[i]
  <2>1. Len(Joined(s, t)) = Len(s) + Len(t) /\ \A i \in 1..Len(s) : Joined(s, t)[i] = s[i]
    BY ConcatProperties DEF Joined
  <2>2. Len(u) = n + Len(t) /\ \A i \in 1..n : u[i] = s[i]
    BY <1>1, <1>2, <2>1, Zenon
  <2>3. Len(t) \in Nat
    OBVIOUS
  <2>4. QED BY <2>2, <2>3
<1>4. PICK r \in Seq(T) : r = SubSeq(u, 1, n) /\ Len(r) = n /\ \A i \in 1..n : r[i] = u[i]
  <2>1. SubSeq(u, 1, n) \in Seq(T) /\ Len(SubSeq(u, 1, n)) = n
    BY <1>3
  <2>2. \A i \in 1..n : SubSeq(u, 1, n)[i] = u[i]
    BY <1>3
  <2>3. QED BY <2>1, <2>2, Zenon
<1>5. s = r
  BY <1>2, <1>3, <1>4, SeqEqual
<1>6. QED BY <1>1, <1>2, <1>3, <1>4, <1>5, Zenon

-----------------------------------------------------------------------------
(***************************************************************************)
(* Sums over finite sets.  MapThenSumSet is defined by recursion on        *)
(* subsets: f holds the sums of column k of the table m over those in D.   *)
(***************************************************************************)
Chosen(s) == CHOOSE x \in s : TRUE

Sums(f, m, k, D) ==
    f = [s \in D |-> IF s = {} THEN 0
                     ELSE m[Chosen(s)][k] + f[s \ {Chosen(s)}]]

UpTo(S, n) == {s \in SUBSET S : Cardinality(s) <= n}

(* Removing the chosen element leaves a smaller set.                       *)
LEMMA ChosenRemoved ==
    ASSUME NEW S, IsFiniteSet(S), NEW n \in Nat, NEW s \in UpTo(S, n + 1), s # {}
    PROVE  /\ Chosen(s) \in s
           /\ s \ {Chosen(s)} \in UpTo(S, n)
<1>1. PICK c : c = Chosen(s)
  OBVIOUS
<1>2. c \in s
  BY <1>1 DEF Chosen
<1>3. s \in SUBSET S /\ Cardinality(s) <= n + 1
  BY DEF UpTo
<1>4. IsFiniteSet(s)
  BY <1>3, FS_Subset
<1>5. Cardinality(s) \in Nat
  BY <1>4, FS_CardinalityType
<1>6. Cardinality(s \ {c}) = Cardinality(s) - 1
  BY <1>2, <1>4, FS_RemoveElement
<1>7. Cardinality(s \ {c}) <= n
  BY <1>3, <1>5, <1>6
<1>8. QED BY <1>1, <1>2, <1>3, <1>7 DEF UpTo

(* The recursive definition defines a function.                            *)
LEMMA SumsDefined ==
    ASSUME NEW S, IsFiniteSet(S), NEW m, NEW k
    PROVE  \E f : Sums(f, m, k, SUBSET S)
<1> DEFINE N == {n \in Nat : \E f : Sums(f, m, k, UpTo(S, n))}
<1>1. 0 \in N
  <2>1. \A s \in UpTo(S, 0) : s = {}
    <3>1. SUFFICES ASSUME NEW s \in UpTo(S, 0) PROVE s = {}
      OBVIOUS
    <3>2. s \in SUBSET S /\ Cardinality(s) <= 0
      BY DEF UpTo
    <3>3. IsFiniteSet(s)
      BY <3>2, FS_Subset
    <3>4. Cardinality(s) = 0
      BY <3>2, <3>3, FS_CardinalityType
    <3>5. QED BY <3>3, <3>4, FS_EmptySet
  <2>2. PICK f : f = [s \in UpTo(S, 0) |-> 0]
    OBVIOUS
  <2>3. Sums(f, m, k, UpTo(S, 0))
    BY <2>1, <2>2, Zenon DEF Sums
  <2>4. QED BY <2>3
<1>2. ASSUME NEW n \in N PROVE n + 1 \in N
  <2>1. n \in Nat
    OBVIOUS
  <2>2. PICK f : Sums(f, m, k, UpTo(S, n))
    OBVIOUS
  <2>3. PICK g : g = [s \in UpTo(S, n + 1) |->
                        IF s = {} THEN 0
                        ELSE m[Chosen(s)][k] + f[s \ {Chosen(s)}]]
    OBVIOUS
  <2>4. \A s \in UpTo(S, n) : s \in UpTo(S, n + 1)
    <3>1. \A s \in UpTo(S, n) : Cardinality(s) \in Nat
      BY FS_Subset, FS_CardinalityType DEF UpTo
    <3>2. QED BY <2>1, <3>1 DEF UpTo
  <2>5. \A s \in UpTo(S, n) : g[s] = f[s]
    BY <2>2, <2>3, <2>4, Zenon DEF Sums
  <2>6. \A s \in UpTo(S, n + 1) : s # {} =>
            f[s \ {Chosen(s)}] = g[s \ {Chosen(s)}]
    <3>1. ASSUME NEW s \in UpTo(S, n + 1), s # {}
          PROVE  s \ {Chosen(s)} \in UpTo(S, n)
      BY <2>1, <3>1, ChosenRemoved
    <3>2. QED BY <2>5, <3>1, Zenon
  <2>7. \A s \in UpTo(S, n + 1) :
             (IF s = {} THEN 0
              ELSE m[Chosen(s)][k] + f[s \ {Chosen(s)}])
           = (IF s = {} THEN 0
              ELSE m[Chosen(s)][k] + g[s \ {Chosen(s)}])
    BY <2>6, Zenon
  <2>8. Sums(g, m, k, UpTo(S, n + 1))
    BY <2>3, <2>7, Zenon DEF Sums
  <2>9. QED BY <2>1, <2>8
<1>3. Nat \subseteq N
  <2> HIDE DEF N
  <2>1. QED BY <1>1, <1>2, Induction
<1>4. Cardinality(S) \in Nat
  BY FS_CardinalityType
<1>5. UpTo(S, Cardinality(S)) = SUBSET S
  BY FS_Subset DEF UpTo
<1>6. Cardinality(S) \in N
  BY <1>3, <1>4
<1>7. QED BY <1>5, <1>6

SumColumn(m, k, S) == MapThenSumSet(LAMBDA x : m[x][k], S)

(* MapThenSumSet returns the sum over the whole set.                       *)
LEMMA SumIs ==
    ASSUME NEW S, IsFiniteSet(S), NEW m, NEW k
    PROVE  \E f : Sums(f, m, k, SUBSET S) /\ SumColumn(m, k, S) = f[S]
<1> DEFINE iter[s \in SUBSET S] ==
              IF s = {} THEN 0
              ELSE m[Chosen(s)][k] + iter[s \ {Chosen(s)}]
<1>1. SumColumn(m, k, S) = iter[S]
  BY DEF SumColumn, MapThenSumSet, MapThenFoldSet, Chosen
<1>2. iter = CHOOSE f : f = [s \in SUBSET S |->
                  IF s = {} THEN 0 ELSE m[Chosen(s)][k] + f[s \ {Chosen(s)}]]
  OBVIOUS
<1> HIDE DEF iter
<1>3. PICK g : Sums(g, m, k, SUBSET S)
  BY SumsDefined
<1>4. Sums(iter, m, k, SUBSET S)
  BY <1>2, <1>3, Zenon DEF Sums
<1>5. QED BY <1>1, <1>4

(* If one entry of a column of integers changes by d, so does its sum.     *)
LEMMA SumChanges ==
    ASSUME NEW S, IsFiniteSet(S), NEW m, NEW mm, NEW k, NEW a \in S, NEW d \in Int,
           \A x \in S : m[x][k] \in Int,
           mm[a][k] = m[a][k] + d,
           \A x \in S \ {a} : mm[x][k] = m[x][k]
    PROVE  SumColumn(m, k, S) \in Int /\ SumColumn(mm, k, S) = SumColumn(m, k, S) + d
<1>1. PICK f : Sums(f, m, k, SUBSET S) /\ SumColumn(m, k, S) = f[S]
  BY SumIs
<1>2. PICK g : Sums(g, mm, k, SUBSET S) /\ SumColumn(mm, k, S) = g[S]
  BY SumIs
<1>3. \A s \in SUBSET S : f[s] = IF s = {} THEN 0 ELSE m[Chosen(s)][k] + f[s \ {Chosen(s)}]
  BY <1>1, Zenon DEF Sums
<1>4. \A s \in SUBSET S : g[s] = IF s = {} THEN 0 ELSE mm[Chosen(s)][k] + g[s \ {Chosen(s)}]
  BY <1>2, Zenon DEF Sums
<1> DEFINE N == {n \in Nat : \A s \in UpTo(S, n) :
                    f[s] \in Int /\ g[s] = IF a \in s THEN f[s] + d ELSE f[s]}
<1>5. 0 \in N
  <2>1. SUFFICES ASSUME NEW s \in UpTo(S, 0)
                 PROVE  f[s] \in Int /\ g[s] = IF a \in s THEN f[s] + d ELSE f[s]
    OBVIOUS
  <2>2. s \in SUBSET S /\ Cardinality(s) <= 0
    BY DEF UpTo
  <2>3. IsFiniteSet(s)
    BY <2>2, FS_Subset
  <2>4. Cardinality(s) = 0
    BY <2>2, <2>3, FS_CardinalityType
  <2>5. s = {}
    BY <2>3, <2>4, FS_EmptySet
  <2>6. f[s] = 0 /\ g[s] = 0
    BY <1>3, <1>4, <2>2, <2>5, Zenon
  <2>7. QED BY <2>5, <2>6
<1>6. ASSUME NEW n \in N PROVE n + 1 \in N
  <2>0. n \in Nat
    OBVIOUS
  <2>1. SUFFICES ASSUME NEW s \in UpTo(S, n + 1)
                 PROVE  f[s] \in Int /\ g[s] = IF a \in s THEN f[s] + d ELSE f[s]
    BY <2>0
  <2>2. s \in SUBSET S
    BY DEF UpTo
  <2>3. CASE s = {}
    <3>1. f[s] = 0 /\ g[s] = 0
      BY <1>3, <1>4, <2>2, <2>3, Zenon
    <3>2. QED BY <2>3, <3>1
  <2>4. CASE s # {}
    <3>1. PICK c : c = Chosen(s)
      OBVIOUS
    <3>2. c \in s /\ s \ {c} \in UpTo(S, n)
      BY <2>0, <2>4, <3>1, ChosenRemoved
    <3>3. f[s] = m[c][k] + f[s \ {c}] /\ g[s] = mm[c][k] + g[s \ {c}]
      BY <1>3, <1>4, <2>2, <2>4, <3>1, Zenon
    <3>4. PICK t : t = s \ {c}
      OBVIOUS
    <3>5. f[t] \in Int /\ g[t] = IF a \in t THEN f[t] + d ELSE f[t]
      BY <3>2, <3>4
    <3>6. c \in S /\ m[c][k] \in Int
      BY <2>2, <3>2
    <3>7. CASE c = a
      <4>1. a \notin t /\ a \in s
        BY <3>2, <3>4, <3>7
      <4>2. QED BY <3>3, <3>4, <3>5, <3>6, <3>7, <4>1
    <3>8. CASE c # a
      <4>1. mm[c][k] = m[c][k] /\ (a \in t <=> a \in s)
        BY <3>4, <3>6, <3>8
      <4>2. QED BY <3>3, <3>4, <3>5, <3>6, <4>1
    <3>9. QED BY <3>7, <3>8
  <2>5. QED BY <2>3, <2>4
<1>7. Nat \subseteq N
  <2> HIDE DEF N
  <2>1. QED BY <1>5, <1>6, Induction
<1>8. Cardinality(S) \in N
  BY <1>7, FS_CardinalityType
<1>9. S \in UpTo(S, Cardinality(S))
  BY FS_CardinalityType DEF UpTo
<1>10. QED BY <1>1, <1>2, <1>8, <1>9

(* The sum of zeros is zero.                                               *)
LEMMA SumOfZeros ==
    ASSUME NEW S, IsFiniteSet(S), NEW m, NEW k, \A x \in S : m[x][k] = 0
    PROVE  SumColumn(m, k, S) = 0
<1>1. PICK f : Sums(f, m, k, SUBSET S) /\ SumColumn(m, k, S) = f[S]
  BY SumIs
<1>2. \A s \in SUBSET S : f[s] = IF s = {} THEN 0 ELSE m[Chosen(s)][k] + f[s \ {Chosen(s)}]
  BY <1>1, Zenon DEF Sums
<1> DEFINE N == {n \in Nat : \A s \in UpTo(S, n) : f[s] = 0}
<1>3. 0 \in N
  <2>1. SUFFICES ASSUME NEW s \in UpTo(S, 0) PROVE f[s] = 0
    OBVIOUS
  <2>2. s \in SUBSET S /\ Cardinality(s) <= 0
    BY DEF UpTo
  <2>3. IsFiniteSet(s)
    BY <2>2, FS_Subset
  <2>4. Cardinality(s) = 0
    BY <2>2, <2>3, FS_CardinalityType
  <2>5. s = {}
    BY <2>3, <2>4, FS_EmptySet
  <2>6. QED BY <1>2, <2>2, <2>5, Zenon
<1>4. ASSUME NEW n \in N PROVE n + 1 \in N
  <2>0. n \in Nat
    OBVIOUS
  <2>1. SUFFICES ASSUME NEW s \in UpTo(S, n + 1) PROVE f[s] = 0
    BY <2>0
  <2>2. s \in SUBSET S
    BY DEF UpTo
  <2>3. CASE s = {}
    BY <1>2, <2>2, <2>3, Zenon
  <2>4. CASE s # {}
    <3>1. PICK c : c = Chosen(s)
      OBVIOUS
    <3>2. c \in s /\ s \ {c} \in UpTo(S, n)
      BY <2>0, <2>4, <3>1, ChosenRemoved
    <3>3. f[s] = m[c][k] + f[s \ {c}]
      BY <1>2, <2>2, <2>4, <3>1, Zenon
    <3>4. f[s \ {c}] = 0 /\ m[c][k] = 0
      BY <2>2, <3>2
    <3>5. QED BY <3>3, <3>4
  <2>5. QED BY <2>3, <2>4
<1>5. Nat \subseteq N
  <2> HIDE DEF N
  <2>1. QED BY <1>3, <1>4, Induction
<1>6. Cardinality(S) \in N
  BY <1>5, FS_CardinalityType
<1>7. S \in UpTo(S, Cardinality(S))
  BY FS_CardinalityType DEF UpTo
<1>8. QED BY <1>1, <1>6, <1>7
=============================================================================
