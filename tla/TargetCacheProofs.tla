------------------------- MODULE TargetCacheProofs -------------------------
(***************************************************************************)
(* Proofs about TargetCache, for any objects and any number of writes,     *)
(* lost connections and restarts.                                          *)
(***************************************************************************)
EXTENDS TargetCache, DataLemmas

(* What a watcher is told: changes of its own keys.                        *)
ChangesOf(w) ==
    {c \in Changes : c.key[1] = w /\ (c.value # Absent => Key(c.value) = c.key)}

(* The types of what the watchers and the caches work on.                  *)
CacheFields == {"objects", "async", "trees"}

StoreTyped ==
    /\ store \in [Keys -> Objects \cup {Absent}]
    /\ \A k \in Keys : store[k] # Absent => Key(store[k]) = k
    /\ IsFiniteSet({k \in Keys : store[k] # Absent})

WatchTyped ==
    /\ up \in [Watchers -> BOOLEAN]
    /\ DOMAIN incoming = Watchers /\ DOMAIN batch = Watchers
    /\ \A w \in Watchers : /\ batch[w] \in Seq(ChangesOf(w))
                           /\ incoming[w] \in Seq(Seq(ChangesOf(w)))
                           /\ ~up[w] => incoming[w] = <<>>

KnownTyped ==
    /\ known \in [Keys -> Objects \cup {Absent}]
    /\ \A k \in Keys : known[k] # Absent => Key(known[k]) = k
    /\ DOMAIN cache = CacheFields
    /\ cache.objects \in [PlainKeys -> Objects \cup {Absent}]

Typed == StoreTyped /\ WatchTyped /\ KnownTyped

(* What is told last, or d when nothing is told.                           *)
Final(told, d) == IF told = <<>> THEN d ELSE told[Len(told)]

(* While it is connected, what a watcher knows and what it is still told   *)
(* lead to what is in the store.                                           *)
KnownLeads(k) == up[k[1]] => Final(Pending(k), known[k]) = store[k]

(* The cache holds what the watcher knows, except after a new connection:  *)
(* then the watcher knows nothing, and is not told first of a deletion,    *)
(* which it could not pass on.                                             *)
CacheKnown(k) ==
    \/ cache.objects[k] = known[k]
    \/ known[k] = Absent /\ (Pending(k) # <<>> => Pending(k)[1] # Absent)

(* The cache is rid of what is not in the store, or will be, unless a      *)
(* deletion was missed.                                                    *)
AbsenceLeads(k) ==
    store[k] = Absent /\ k \notin lost => Final(Pending(k), cache.objects[k]) = Absent

Follows(k) == KnownLeads(k) /\ CacheKnown(k) /\ AbsenceLeads(k)

FollowInv == \A k \in PlainKeys : Follows(k)

-----------------------------------------------------------------------------
(***************************************************************************)
(* Told is defined by recursion: f holds what the first i changes tell.    *)
(***************************************************************************)
Tells(f, q, k, n) ==
    f = [i \in 0..n |-> IF i = 0 THEN <<>>
                        ELSE IF q[i].key = k THEN Append(f[i - 1], q[i].value) ELSE f[i - 1]]

(* The recursive definition defines a function.                            *)
LEMMA TellsDefined ==
    ASSUME NEW q, NEW k, NEW n \in Nat
    PROVE  \E f : Tells(f, q, k, n)
<1> DEFINE S == {j \in Nat : \E f : Tells(f, q, k, j)}
<1>1. 0 \in S
  <2>1. \A i \in 0..0 : i = 0
    OBVIOUS
  <2>2. PICK f : f = [i \in 0..0 |-> <<>>]
    OBVIOUS
  <2>3. Tells(f, q, k, 0)
    BY <2>1, <2>2, Zenon DEF Tells
  <2>4. QED BY <2>3
<1>2. ASSUME NEW j \in S PROVE j + 1 \in S
  <2>1. j \in Nat
    OBVIOUS
  <2>2. PICK f : Tells(f, q, k, j)
    OBVIOUS
  <2>3. PICK g : g = [i \in 0..(j + 1) |->
                        IF i = 0 THEN <<>>
                        ELSE IF q[i].key = k THEN Append(f[i - 1], q[i].value) ELSE f[i - 1]]
    OBVIOUS
  <2>4. \A i \in 0..j : g[i] = f[i]
    <3>1. \A i \in 0..j : i \in 0..(j + 1)
      BY <2>1
    <3>2. \A i \in 0..j : g[i] = IF i = 0 THEN <<>>
             ELSE IF q[i].key = k THEN Append(f[i - 1], q[i].value) ELSE f[i - 1]
      BY <2>3, <3>1, Zenon
    <3>3. \A i \in 0..j : f[i] = IF i = 0 THEN <<>>
             ELSE IF q[i].key = k THEN Append(f[i - 1], q[i].value) ELSE f[i - 1]
      BY <2>2, Zenon DEF Tells
    <3>4. QED BY <3>2, <3>3, Zenon
  <2>5. \A i \in 0..(j + 1) : i # 0 => f[i - 1] = g[i - 1]
    <3>1. \A i \in 0..(j + 1) : i # 0 => i - 1 \in 0..j
      BY <2>1
    <3>2. QED BY <2>4, <3>1
  <2>6. \A i \in 0..(j + 1) :
             (IF i = 0 THEN <<>>
              ELSE IF q[i].key = k THEN Append(f[i - 1], q[i].value) ELSE f[i - 1])
           = (IF i = 0 THEN <<>>
              ELSE IF q[i].key = k THEN Append(g[i - 1], q[i].value) ELSE g[i - 1])
    BY <2>5, Zenon
  <2>7. Tells(g, q, k, j + 1)
    BY <2>3, <2>6, Zenon DEF Tells
  <2>8. QED BY <2>1, <2>7
<1>3. Nat \subseteq S
  <2> HIDE DEF S
  <2>1. QED BY <1>1, <1>2, Induction
<1>4. QED BY <1>3

(* It depends on no more than the changes it has read.                     *)
LEMMA TellsAgree ==
    ASSUME NEW f, NEW g, NEW q, NEW r, NEW k, NEW n \in Nat, NEW m \in Nat, n <= m,
           Tells(f, q, k, n), Tells(g, r, k, m), \A i \in 1..n : q[i] = r[i]
    PROVE  \A i \in 0..n : f[i] = g[i]
<1> DEFINE S == {j \in Nat : j \in 0..n => f[j] = g[j]}
<1>1. \A i \in 0..n : i \in 0..m
  OBVIOUS
<1>2. \A i \in 0..n : f[i] = IF i = 0 THEN <<>>
         ELSE IF q[i].key = k THEN Append(f[i - 1], q[i].value) ELSE f[i - 1]
  BY Zenon DEF Tells
<1>3. \A i \in 0..m : g[i] = IF i = 0 THEN <<>>
         ELSE IF r[i].key = k THEN Append(g[i - 1], r[i].value) ELSE g[i - 1]
  BY Zenon DEF Tells
<1>4. 0 \in S
  <2>1. 0 \in 0..n /\ 0 \in 0..m
    OBVIOUS
  <2>2. f[0] = g[0]
    BY <1>2, <1>3, <2>1, Zenon
  <2>3. QED BY <2>2
<1>5. ASSUME NEW j \in S PROVE j + 1 \in S
  <2>1. SUFFICES ASSUME j + 1 \in 0..n PROVE f[j + 1] = g[j + 1]
    OBVIOUS
  <2>2. PICK i \in 1..n : i = j + 1 /\ i \in 0..n /\ i # 0 /\ i - 1 = j /\ j \in 0..n
    BY <2>1
  <2>3. q[i] = r[i] /\ i \in 0..m
    BY <1>1, <2>2
  <2>4. f[i - 1] = g[i - 1]
    BY <2>2
  <2>5. QED BY <1>2, <1>3, <2>2, <2>3, <2>4, Zenon
<1>6. Nat \subseteq S
  <2> HIDE DEF S
  <2>1. QED BY <1>4, <1>5, Induction
<1>7. QED BY <1>6

(* Told returns what all changes tell.                                     *)
LEMMA ToldIs ==
    ASSUME NEW T, NEW q \in Seq(T), NEW k
    PROVE  \E f : Tells(f, q, k, Len(q)) /\ Told(q, k) = f[Len(q)]
<1> DEFINE told[i \in 0..Len(q)] ==
               IF i = 0 THEN <<>>
               ELSE IF q[i].key = k THEN Append(told[i - 1], q[i].value) ELSE told[i - 1]
<1>1. Len(q) \in Nat
  OBVIOUS
<1>2. Told(q, k) = told[Len(q)]
  BY DEF Told
<1>3. told = CHOOSE f : f = [i \in 0..Len(q) |-> IF i = 0 THEN <<>>
               ELSE IF q[i].key = k THEN Append(f[i - 1], q[i].value) ELSE f[i - 1]]
  OBVIOUS
<1> HIDE DEF told
<1>4. PICK g : Tells(g, q, k, Len(q))
  BY <1>1, TellsDefined
<1>5. Tells(told, q, k, Len(q))
  BY <1>3, <1>4, Zenon DEF Tells
<1>6. QED BY <1>2, <1>5

(* No changes tell nothing.                                                *)
LEMMA ToldEmpty ==
    ASSUME NEW k
    PROVE  Told(<<>>, k) = <<>>
<1>1. <<>> \in Seq({}) /\ Len(<<>>) = 0 /\ 0 \in 0..0
  OBVIOUS
<1>2. PICK f : Tells(f, <<>>, k, 0) /\ Told(<<>>, k) = f[0]
  BY <1>1, ToldIs
<1>3. f[0] = <<>>
  BY <1>1, <1>2, Zenon DEF Tells
<1>4. QED BY <1>2, <1>3

(* One more change tells its value, if it is about the key.                *)
LEMMA ToldAppend ==
    ASSUME NEW T, NEW q \in Seq(T), NEW c \in T, NEW k
    PROVE  Told(Append(q, c), k) = IF c.key = k THEN Append(Told(q, k), c.value) ELSE Told(q, k)
<1>1. PICK r : r = Append(q, c)
  OBVIOUS
<1>2. PICK n \in Nat : n = Len(q)
  OBVIOUS
<1>3. PICK m \in Nat : m = n + 1 /\ n <= m /\ m \in 0..m /\ m # 0 /\ m - 1 = n /\ n \in 0..n
  OBVIOUS
<1>4. r \in Seq(T) /\ Len(r) = m /\ r[m] = c /\ \A i \in 1..n : q[i] = r[i]
  BY <1>1, <1>2, <1>3
<1>5. PICK f : Tells(f, q, k, n) /\ Told(q, k) = f[n]
  BY <1>2, ToldIs
<1>6. PICK g : Tells(g, r, k, m) /\ Told(r, k) = g[m]
  BY <1>4, ToldIs
<1>7. f[n] = g[n]
  BY <1>3, <1>4, <1>5, <1>6, TellsAgree
<1>8. g[m] = IF c.key = k THEN Append(g[n], c.value) ELSE g[n]
  BY <1>3, <1>4, <1>6, Zenon DEF Tells
<1>9. QED BY <1>1, <1>5, <1>6, <1>7, <1>8

(* What is told are values of changes that are about the key.              *)
LEMMA ToldTyped ==
    ASSUME NEW T, NEW q \in Seq(T), NEW k, NEW V, \A c \in T : c.key = k => c.value \in V
    PROVE  Told(q, k) \in Seq(V)
<1> DEFINE A == {r \in Seq(T) : Told(r, k) \in Seq(V)}
<1>1. <<>> \in A
  <2>1. <<>> \in Seq(T) /\ <<>> \in Seq(V)
    OBVIOUS
  <2>2. QED BY <2>1, ToldEmpty, Zenon
<1>2. ASSUME NEW r \in A, NEW c \in T PROVE Append(r, c) \in A
  <2>1. r \in Seq(T) /\ Told(r, k) \in Seq(V)
    OBVIOUS
  <2>2. Append(r, c) \in Seq(T)
    BY <2>1
  <2>3. c.key = k => Append(Told(r, k), c.value) \in Seq(V)
    BY <2>1
  <2>4. Told(Append(r, c), k) = IF c.key = k THEN Append(Told(r, k), c.value) ELSE Told(r, k)
    BY <2>1, ToldAppend
  <2>5. Told(Append(r, c), k) \in Seq(V)
    BY <2>1, <2>3, <2>4, Zenon
  <2>6. QED BY <2>2, <2>5
<1>3. Seq(T) \subseteq A
  <2> HIDE DEF A
  <2>1. QED BY <1>1, <1>2, SequenceInduction
<1>4. QED BY <1>3

(* A single change.                                                        *)
LEMMA ToldOne ==
    ASSUME NEW c, NEW k
    PROVE  Told(Single(c), k) = IF c.key = k THEN Single(c.value) ELSE <<>>
<1>1. <<>> \in Seq({c}) /\ c \in {c} /\ Append(<<>>, c) = <<c>>
  OBVIOUS
<1>2. Told(Append(<<>>, c), k) = IF c.key = k THEN Append(Told(<<>>, k), c.value) ELSE Told(<<>>, k)
  BY <1>1, ToldAppend, Zenon
<1>3. \A v : Append(<<>>, v) = <<v>>
  OBVIOUS
<1>4. QED BY <1>1, <1>2, <1>3, ToldEmpty, Zenon DEF Single

(* What two sequences of changes tell, one after the other.                *)
LEMMA ToldJoined ==
    ASSUME NEW T, NEW q \in Seq(T), NEW r \in Seq(T), NEW k
    PROVE  Told(Joined(q, r), k) = Joined(Told(q, k), Told(r, k))
<1> PICK V : V = {x.value : x \in T}
  OBVIOUS
<1> \A x \in T : x.key = k => x.value \in V
  OBVIOUS
<1> DEFINE A == {s \in Seq(T) : Told(Joined(q, s), k) = Joined(Told(q, k), Told(s, k))}
<1>1. PICK t \in Seq(V) : t = Told(q, k)
  <2>1. Told(q, k) \in Seq(V)
    BY ToldTyped
  <2>2. QED BY <2>1, Zenon
<1>2. <<>> \in A
  <2>1. <<>> \in Seq(T)
    OBVIOUS
  <2>2. Joined(q, <<>>) = q /\ Joined(t, <<>>) = t
    BY JoinedLaws
  <2>3. Told(Joined(q, <<>>), k) = Joined(Told(q, k), Told(<<>>, k))
    BY <1>1, <2>2, ToldEmpty, Zenon
  <2>4. QED BY <2>1, <2>3
<1>3. ASSUME NEW s \in A, NEW c \in T PROVE Append(s, c) \in A
  <2>1. s \in Seq(T) /\ Told(Joined(q, s), k) = Joined(Told(q, k), Told(s, k))
    OBVIOUS
  <2>2. PICK u \in Seq(V) : u = Told(s, k)
    <3>1. Told(s, k) \in Seq(V)
      BY <2>1, ToldTyped
    <3>2. QED BY <3>1, Zenon
  <2>3. PICK p \in Seq(T) : p = Joined(q, s)
    BY <2>1, JoinedLaws
  <2>4. Joined(q, Append(s, c)) = Append(p, c) /\ Append(s, c) \in Seq(T)
    <3>1. Append(s, c) = Joined(s, Single(c)) /\ Append(p, c) = Joined(p, Single(c)) /\ Single(c) \in Seq(T)
      BY <2>1, JoinedOne
    <3>2. Joined(Joined(q, s), Single(c)) = Joined(q, Joined(s, Single(c)))
      BY <2>1, <3>1, JoinedThree
    <3>3. Append(s, c) \in Seq(T)
      BY <2>1
    <3>4. QED BY <2>3, <3>1, <3>2, <3>3, Zenon
  <2>5. c.key = k => Append(Joined(t, u), c.value) = Joined(t, Append(u, c.value))
    <3>1. SUFFICES ASSUME c.key = k PROVE Append(Joined(t, u), c.value) = Joined(t, Append(u, c.value))
      OBVIOUS
    <3>2. PICK v \in V : v = c.value
      BY <3>1
    <3>3. Joined(t, u) \in Seq(V)
      BY JoinedLaws
    <3>4. Append(u, v) = Joined(u, Single(v)) /\ Append(Joined(t, u), v) = Joined(Joined(t, u), Single(v)) /\ Single(v) \in Seq(V)
      BY <3>3, JoinedOne
    <3>5. Joined(Joined(t, u), Single(v)) = Joined(t, Joined(u, Single(v)))
      BY <3>4, JoinedThree
    <3>6. QED BY <3>2, <3>4, <3>5, Zenon
  <2>6. /\ Told(Append(p, c), k) = IF c.key = k THEN Append(Told(p, k), c.value) ELSE Told(p, k)
        /\ Told(Append(s, c), k) = IF c.key = k THEN Append(Told(s, k), c.value) ELSE Told(s, k)
    BY <2>1, ToldAppend
  <2>7. Told(p, k) = Joined(t, u)
    BY <1>1, <2>1, <2>2, <2>3, Zenon
  <2>8. Told(Joined(q, Append(s, c)), k) = Joined(Told(q, k), Told(Append(s, c), k))
    BY <1>1, <2>2, <2>4, <2>5, <2>6, <2>7, Zenon
  <2>9. QED BY <2>4, <2>8
<1>4. Seq(T) \subseteq A
  <2> HIDE DEF A
  <2>1. QED BY <1>2, <1>3, SequenceInduction
<1>5. QED BY <1>4

(* The same of three sequences.                                            *)
LEMMA ToldThree ==
    ASSUME NEW T, NEW x \in Seq(T), NEW y \in Seq(T), NEW z \in Seq(T), NEW k
    PROVE  Told(Joined(Joined(x, y), z), k) = Joined(Joined(Told(x, k), Told(y, k)), Told(z, k))
<1>1. Joined(x, y) \in Seq(T)
  BY JoinedLaws
<1>2. Told(Joined(x, y), k) = Joined(Told(x, k), Told(y, k))
  BY ToldJoined
<1>3. PICK p \in Seq(T) : p = Joined(x, y)
  BY <1>1, Zenon
<1>4. Told(Joined(p, z), k) = Joined(Told(p, k), Told(z, k))
  BY ToldJoined
<1>5. QED BY <1>2, <1>3, <1>4, Zenon

(* The first change is told first.                                         *)
LEMMA ToldHead ==
    ASSUME NEW T, NEW q \in Seq(T), q # <<>>, NEW k
    PROVE  Told(q, k) = IF Head(q).key = k THEN Joined(Single(Head(q).value), Told(Tail(q), k))
                                           ELSE Told(Tail(q), k)
<1> PICK V : V = {x.value : x \in T}
  OBVIOUS
<1> \A x \in T : x.key = k => x.value \in V
  OBVIOUS
<1>1. PICK c \in T : c = Head(q)
  BY HeadRest
<1>2. PICK r \in Seq(T) : r = Tail(q)
  BY HeadRest, Zenon
<1>3. Single(c) \in Seq(T) /\ q = Joined(Single(c), r)
  BY <1>1, <1>2, HeadRest, Zenon
<1>4. Told(q, k) = Joined(Told(Single(c), k), Told(r, k))
  BY <1>3, ToldJoined
<1>5. PICK t \in Seq(V) : t = Told(r, k)
  <2>1. Told(r, k) \in Seq(V)
    BY ToldTyped
  <2>2. QED BY <2>1, Zenon
<1>6. Joined(<<>>, t) = t
  BY JoinedLaws
<1>7. QED BY <1>1, <1>2, <1>4, <1>5, <1>6, ToldOne, Zenon

(* Nothing is told about a key that no change is about.                    *)
LEMMA ToldNone ==
    ASSUME NEW T, NEW q \in Seq(T), NEW k, \A i \in 1..Len(q) : q[i].key # k
    PROVE  Told(q, k) = <<>>
<1>1. PICK U : U = {c \in T : c.key # k}
  OBVIOUS
<1>2. q \in Seq(U)
  BY <1>1
<1>3. \A c \in U : c.key = k => c.value \in {}
  BY <1>1
<1>4. Told(q, k) \in Seq({})
  BY <1>2, <1>3, ToldTyped
<1>5. QED BY <1>4

(* Every value that is told is that of a change.                           *)
LEMMA ToldMember ==
    ASSUME NEW T, NEW q \in Seq(T), NEW k, NEW j \in 1..Len(Told(q, k))
    PROVE  \E i \in 1..Len(q) : q[i].key = k /\ q[i].value = Told(q, k)[j]
<1>1. PICK U : U = {q[i] : i \in 1..Len(q)}
  OBVIOUS
<1>2. PICK V : V = {c.value : c \in {x \in U : x.key = k}}
  OBVIOUS
<1>3. q \in Seq(U)
  BY <1>1
<1>4. \A c \in U : c.key = k => c.value \in V
  BY <1>2
<1>5. Told(q, k) \in Seq(V)
  BY <1>3, <1>4, ToldTyped
<1>6. PICK t \in Seq(V) : t = Told(q, k)
  BY <1>5
<1>7. t[j] \in V
  BY <1>6
<1>8. QED BY <1>1, <1>2, <1>6, <1>7

(* Place i is the only one of the changes q that is about k.               *)
OnlyAt(q, k, i) ==
    i \in 1..Len(q) /\ q[i].key = k /\ \A j \in 1..Len(q) : q[j].key = k => j = i

(* A key that one change is about is told the value of that change.        *)
LEMMA ToldOnce ==
    ASSUME NEW T, NEW q \in Seq(T), NEW k, NEW i, OnlyAt(q, k, i)
    PROVE  Told(q, k) = Single(q[i].value)
<1> USE DEF OnlyAt
<1>1. PICK c \in T : c = q[i]
  OBVIOUS
<1> PICK V : V = {x.value : x \in T}
  OBVIOUS
<1> \A x \in T : x.key = k => x.value \in V
  OBVIOUS
<1>2. PICK r \in Seq(T) : \E s \in Seq(T) :
         /\ q = Joined(Joined(r, Single(c)), s)
         /\ \A j \in 1..Len(r) : j \in 1..Len(q) /\ j # i /\ r[j] = q[j]
         /\ \A j \in 1..Len(s) : i + j \in 1..Len(q) /\ i + j # i /\ s[j] = q[i + j]
  BY <1>1, Around
<1>3. PICK s \in Seq(T) :
         /\ q = Joined(Joined(r, Single(c)), s)
         /\ \A j \in 1..Len(r) : j \in 1..Len(q) /\ j # i /\ r[j] = q[j]
         /\ \A j \in 1..Len(s) : i + j \in 1..Len(q) /\ i + j # i /\ s[j] = q[i + j]
  BY <1>2
<1>4. Told(r, k) = <<>>
  <2>1. \A j \in 1..Len(r) : r[j].key # k
    BY <1>3, Zenon
  <2>2. QED BY <2>1, ToldNone
<1>5. Told(s, k) = <<>>
  <2>1. \A j \in 1..Len(s) : s[j].key # k
    BY <1>3, Zenon
  <2>2. QED BY <2>1, ToldNone
<1>6. Told(Single(c), k) = Single(c.value)
  BY <1>1, ToldOne
<1>7. Told(q, k) = Joined(Joined(Told(r, k), Told(Single(c), k)), Told(s, k))
  <2>1. Single(c) \in Seq(T)
    BY JoinedOne
  <2>2. Told(Joined(Joined(r, Single(c)), s), k)
          = Joined(Joined(Told(r, k), Told(Single(c), k)), Told(s, k))
    BY <2>1, ToldThree
  <2>3. QED BY <1>3, <2>2
<1>8. Joined(Joined(<<>>, Single(c.value)), <<>>) = Single(c.value)
  <2>1. c.value \in V /\ <<>> \in Seq(V)
    BY <1>1
  <2>2. Single(c.value) \in Seq(V)
    BY <2>1, JoinedOne
  <2>3. QED BY <2>2, JoinedLaws
<1>9. QED BY <1>1, <1>4, <1>5, <1>6, <1>7, <1>8

-----------------------------------------------------------------------------
(***************************************************************************)
(* What is on its way to a watcher: the batch b it works on, and those of  *)
(* the channel i.                                                          *)
(***************************************************************************)
Queue(b, i) == Joined(b, FlattenSeq(i))

(* A queue of changes of T is a sequence of them.                          *)
LEMMA QueueTyped ==
    ASSUME NEW T, NEW b \in Seq(T), NEW i \in Seq(Seq(T))
    PROVE  FlattenSeq(i) \in Seq(T) /\ Queue(b, i) \in Seq(T)
<1>1. FlattenSeq(i) \in Seq(T)
  BY FlattenAppend
<1>2. PICK f \in Seq(T) : f = FlattenSeq(i)
  BY <1>1, Zenon
<1>3. Joined(b, f) \in Seq(T)
  BY JoinedLaws
<1>4. QED BY <1>1, <1>2, <1>3, Zenon DEF Queue

(* A batch of one change at the end of the channel.                        *)
LEMMA QueueSent ==
    ASSUME NEW T, NEW b \in Seq(T), NEW i \in Seq(Seq(T)), NEW c \in T
    PROVE  Queue(b, Append(i, <<c>>)) = Append(Queue(b, i), c)
<1>1. PICK f \in Seq(T) : f = FlattenSeq(i)
  BY QueueTyped, Zenon
<1>2. PICK s \in Seq(T) : s = Single(c) /\ s = <<c>>
  <2>1. Single(c) \in Seq(T)
    BY JoinedOne
  <2>2. QED BY <2>1, Zenon DEF Single
<1>3. FlattenSeq(Append(i, s)) = Joined(f, s)
  BY <1>1, FlattenAppend DEF Joined
<1>4. Joined(b, Joined(f, s)) = Joined(Joined(b, f), s)
  BY JoinedThree
<1>5. PICK q \in Seq(T) : q = Joined(b, f)
  BY JoinedLaws
<1>6. Append(q, c) = Joined(q, s)
  BY <1>2, JoinedOne
<1>7. QED BY <1>1, <1>2, <1>3, <1>4, <1>5, <1>6, Zenon DEF Queue

(* The next batch is taken from the channel.                               *)
LEMMA QueueReceived ==
    ASSUME NEW T, NEW i \in Seq(Seq(T)), i # <<>>
    PROVE  /\ Head(i) \in Seq(T) /\ Tail(i) \in Seq(Seq(T))
           /\ Queue(Head(i), Tail(i)) = Queue(<<>>, i)
<1>1. Head(i) \in Seq(T) /\ Tail(i) \in Seq(Seq(T))
  <2>1. PICK U : U = Seq(T)
    OBVIOUS
  <2>2. Head(i) \in U /\ Tail(i) \in Seq(U)
    BY <2>1, HeadRest, Zenon
  <2>3. QED BY <2>1, <2>2, Zenon
<1>2. FlattenSeq(i) = Joined(Head(i), FlattenSeq(Tail(i)))
  BY FlattenHead DEF Joined
<1>3. PICK f \in Seq(T) : f = FlattenSeq(i)
  <2>1. <<>> \in Seq(T)
    OBVIOUS
  <2>2. QED BY <2>1, QueueTyped, Zenon
<1>4. Joined(<<>>, f) = f
  BY JoinedLaws
<1>5. QED BY <1>1, <1>2, <1>3, <1>4, Zenon DEF Queue

(* The first change of the batch is handled.                               *)
LEMMA QueueHandled ==
    ASSUME NEW T, NEW b \in Seq(T), NEW i \in Seq(Seq(T)), b # <<>>
    PROVE  /\ Head(b) \in T /\ Tail(b) \in Seq(T)
           /\ Queue(b, i) # <<>>
           /\ Head(Queue(b, i)) = Head(b)
           /\ Tail(Queue(b, i)) = Queue(Tail(b), i)
<1>1. PICK f \in Seq(T) : f = FlattenSeq(i)
  BY QueueTyped, Zenon
<1>2. Head(b) \in T /\ Tail(b) \in Seq(T)
  OBVIOUS
<1>3. b \o f # <<>> /\ Head(b \o f) = Head(b) /\ Tail(b \o f) = Tail(b) \o f
  OBVIOUS
<1>4. QED BY <1>1, <1>2, <1>3, Zenon DEF Queue, Joined

(* A channel that holds one batch.                                         *)
LEMMA QueueListed ==
    ASSUME NEW T, NEW b \in Seq(T)
    PROVE  <<b>> \in Seq(Seq(T)) /\ Queue(<<>>, <<b>>) = b
<1>1. <<>> \in Seq(Seq(T)) /\ <<>> \in Seq(T) /\ <<b>> = Append(<<>>, b) /\ <<b>> \in Seq(Seq(T))
  <2>1. PICK U : U = Seq(T)
    OBVIOUS
  <2>2. \A x \in U : <<>> \in Seq(U) /\ <<x>> = Append(<<>>, x) /\ <<x>> \in Seq(U)
    OBVIOUS
  <2>3. <<>> \in Seq(T)
    OBVIOUS
  <2>4. QED BY <2>1, <2>2, <2>3, Zenon
<1>2. FlattenSeq(<<b>>) = Joined(<<>>, b)
  BY <1>1, FlattenAppend, FlattenEmpty, Zenon DEF Joined
<1>3. Joined(<<>>, b) = b
  BY JoinedLaws
<1>4. QED BY <1>1, <1>2, <1>3, Zenon DEF Queue

(* A channel that holds nothing.                                           *)
LEMMA QueueAlone ==
    ASSUME NEW T, NEW b \in Seq(T)
    PROVE  Queue(b, <<>>) = b
BY FlattenEmpty, JoinedLaws, Zenon DEF Queue

-----------------------------------------------------------------------------
(***************************************************************************)
(* Keys, objects and caches.                                               *)
(***************************************************************************)

(* A key begins with the kind of its object, which has a watcher.          *)
LEMMA KeyKind ==
    ASSUME NEW o \in Objects
    PROVE  /\ Key(o) \in Keys /\ Key(o)[1] = o.kind /\ o.kind \in Watchers
           /\ Key(o) \in PlainKeys <=> o.kind \in Plain
<1>1. \/ o.kind \in Plain
      \/ o.kind \notin Plain /\ IsAsync(o)
      \/ o.kind \notin Plain /\ ~IsAsync(o) /\ Routed(o)
  BY DEF Routed
<1>2. Key(o)[1] = o.kind
  <2>1. CASE o.kind \in Plain
    <3>1. ~IsAsync(o) /\ ~Routed(o)
      BY <2>1 DEF IsAsync, Routed, Plain
    <3>2. Key(o) = <<o.kind, o.space, o.id>>
      BY <2>1, <3>1 DEF Key
    <3>3. QED BY <3>2
  <2>2. CASE o.kind \notin Plain /\ IsAsync(o)
    <3>1. ~Routed(o)
      BY <2>2 DEF Routed
    <3>2. Key(o) = <<o.kind, o.space, o.event, o.path, o.function>>
      BY <2>2, <3>1 DEF Key
    <3>3. QED BY <3>2
  <2>3. CASE o.kind \notin Plain /\ ~IsAsync(o) /\ Routed(o)
    <3>1. Key(o) = <<o.kind, o.space, o.event, o.path>>
      BY <2>3 DEF Key
    <3>2. QED BY <3>1
  <2>4. QED BY <1>1, <2>1, <2>2, <2>3
<1>3. Key(o) \in Keys /\ o.kind \in Watchers
  BY Zenon DEF Keys, Watchers
<1>4. Key(o) \in PlainKeys <=> o.kind \in Plain
  BY <1>2, <1>3, Zenon DEF PlainKeys
<1>5. QED BY <1>2, <1>3, <1>4

(* Every key has a watcher.                                                *)
LEMMA KeyWatcher ==
    ASSUME NEW k \in Keys
    PROVE  k[1] \in Watchers
<1>1. PICK o \in Objects : k = Key(o)
  BY DEF Keys
<1>2. QED BY <1>1, KeyKind, Zenon

(* What Modified and Deleted do to the functions and event types: they     *)
(* set the entry of the object's key, and leave them alone for others.     *)
LEMMA ModifiedObjects ==
    ASSUME NEW c, DOMAIN c = CacheFields, NEW o \in Objects
    PROVE  /\ DOMAIN Modified(c, o) = CacheFields
           /\ Modified(c, o).objects = IF o.kind \in Plain THEN [c.objects EXCEPT ![Key(o)] = o]
                                                           ELSE c.objects
<1>1. CASE o.kind \in Plain
  <2>1. Modified(c, o) = ObjectModified(c, o)
    BY <1>1 DEF Modified, IsAsync, Routed, Plain
  <2>2. QED BY <1>1, <2>1 DEF ObjectModified, CacheFields
<1>2. CASE o.kind \notin Plain /\ IsAsync(o)
  <2>1. Modified(c, o) = AsyncModified(c, o)
    BY <1>2 DEF Modified, Routed
  <2>2. QED BY <1>2, <2>1 DEF AsyncModified, CacheFields
<1>3. CASE o.kind \notin Plain /\ ~IsAsync(o)
  <2>1. Modified(c, o) = RouteModified(c, o)
    BY <1>3 DEF Modified, Routed
  <2>2. QED BY <1>3, <2>1 DEF RouteModified, Planted, CacheFields
<1>4. QED BY <1>1, <1>2, <1>3

(* The same of Deleted.                                                    *)
LEMMA DeletedObjects ==
    ASSUME NEW c, DOMAIN c = CacheFields, NEW o \in Objects
    PROVE  /\ DOMAIN Deleted(c, o) = CacheFields
           /\ Deleted(c, o).objects = IF o.kind \in Plain THEN [c.objects EXCEPT ![Key(o)] = Absent]
                                                          ELSE c.objects
<1>1. CASE o.kind \in Plain
  <2>1. Deleted(c, o) = ObjectDeleted(c, o)
    BY <1>1 DEF Deleted, IsAsync, Routed, Plain
  <2>2. QED BY <1>1, <2>1 DEF ObjectDeleted, CacheFields
<1>2. CASE o.kind \notin Plain /\ IsAsync(o)
  <2>1. Deleted(c, o) = AsyncDeleted(c, o)
    BY <1>2 DEF Deleted, Routed
  <2>2. QED BY <1>2, <2>1 DEF AsyncDeleted, CacheFields
<1>3. CASE o.kind \notin Plain /\ ~IsAsync(o)
  <2>1. Deleted(c, o) = RouteDeleted(c, o)
    BY <1>3 DEF Deleted, Routed
  <2>2. QED BY <1>3, <2>1 DEF RouteDeleted, CacheFields
<1>4. QED BY <1>1, <1>2, <1>3

-----------------------------------------------------------------------------
(***************************************************************************)
(* The types are kept.                                                     *)
(***************************************************************************)

(* The changes that Put and Delete tell.                                   *)
LEMMA ChangeTyped ==
    /\ \A o \in Objects : [key |-> Key(o), value |-> o] \in ChangesOf(o.kind)
    /\ \A k \in Keys : [key |-> k, value |-> Absent] \in ChangesOf(k[1])
<1>1. ASSUME NEW o \in Objects PROVE [key |-> Key(o), value |-> o] \in ChangesOf(o.kind)
  BY KeyKind DEF ChangesOf, Changes
<1>2. ASSUME NEW k \in Keys PROVE [key |-> k, value |-> Absent] \in ChangesOf(k[1])
  BY DEF ChangesOf, Changes
<1>3. QED BY <1>1, <1>2

(* Nothing has happened yet.                                               *)
LEMMA TypedInit == Init => Typed
<1> SUFFICES ASSUME Init PROVE Typed
  OBVIOUS
<1>1. StoreTyped
  <2>1. {k \in Keys : store[k] # Absent} = {}
    BY DEF Init
  <2>2. QED BY <2>1, FS_EmptySet DEF Init, StoreTyped
<1>2. WatchTyped
  <2>1. \A T : <<>> \in Seq(T)
    OBVIOUS
  <2>2. QED BY <2>1, Zenon DEF Init, WatchTyped
<1>3. KnownTyped
  BY DEF Init, KnownTyped, NewCache, CacheFields
<1>4. QED BY <1>1, <1>2, <1>3 DEF Typed

(* A change is told.                                                       *)
LEMMA TellTyped ==
    ASSUME WatchTyped, NEW w \in Watchers, NEW c \in ChangesOf(w), Tell(w, c), UNCHANGED <<up, batch>>
    PROVE  WatchTyped'
<1>1. CASE up[w]
  <2>1. incoming' = [incoming EXCEPT ![w] = Append(@, <<c>>)]
    BY <1>1, Zenon DEF Tell
  <2>2. DOMAIN incoming' = Watchers
    BY <2>1, Zenon DEF WatchTyped
  <2>3. incoming'[w] = Append(incoming[w], <<c>>) /\ \A v \in Watchers \ {w} : incoming'[v] = incoming[v]
    BY <2>1, Zenon DEF WatchTyped
  <2>4. Append(incoming[w], <<c>>) \in Seq(Seq(ChangesOf(w)))
    <3>1. <<c>> \in Seq(ChangesOf(w))
      OBVIOUS
    <3>2. PICK U : U = Seq(ChangesOf(w))
      OBVIOUS
    <3>3. \A i \in Seq(U) : \A x \in U : Append(i, x) \in Seq(U)
      OBVIOUS
    <3>4. incoming[w] \in Seq(U)
      BY <3>2, Zenon DEF WatchTyped
    <3>5. QED BY <3>1, <3>2, <3>3, <3>4, Zenon
  <2>5. \A v \in Watchers : incoming'[v] \in Seq(Seq(ChangesOf(v))) /\ (~up[v] => incoming'[v] = <<>>)
    BY <1>1, <2>3, <2>4, Zenon DEF WatchTyped
  <2>6. up' = up /\ batch' = batch
    OBVIOUS
  <2>7. QED BY <2>2, <2>5, <2>6, Zenon DEF WatchTyped
<1>2. CASE ~up[w]
  <2>1. incoming' = incoming /\ up' = up /\ batch' = batch
    BY <1>2, Zenon DEF Tell
  <2>2. QED BY <2>1, Zenon DEF WatchTyped
<1>3. QED BY <1>1, <1>2

(* The store changes.                                                      *)
LEMMA PutTyped ==
    ASSUME Typed, NEW o \in Objects, Put(o)
    PROVE  Typed'
<1>1. StoreTyped'
  <2>1. store' = [store EXCEPT ![Key(o)] = o] /\ Key(o) \in Keys
    BY KeyKind DEF Put
  <2>2. store' \in [Keys -> Objects \cup {Absent}] /\ \A k \in Keys : store'[k] # Absent => Key(store'[k]) = k
    BY <2>1 DEF Typed, StoreTyped
  <2>3. IsFiniteSet({k \in Keys : store[k] # Absent} \cup {Key(o)})
    BY FS_AddElement, Zenon DEF Typed, StoreTyped
  <2>4. {k \in Keys : store'[k] # Absent} \subseteq {k \in Keys : store[k] # Absent} \cup {Key(o)}
    BY <2>1 DEF Typed, StoreTyped
  <2>5. IsFiniteSet({k \in Keys : store'[k] # Absent})
    BY <2>3, <2>4, FS_Subset, Zenon
  <2>6. QED BY <2>2, <2>5, Zenon DEF StoreTyped
<1>2. WatchTyped'
  <2>1. PICK c : c = [key |-> Key(o), value |-> o]
    OBVIOUS
  <2>2. c \in ChangesOf(o.kind) /\ o.kind \in Watchers
    BY <2>1, ChangeTyped, KeyKind, Zenon
  <2>3. PICK w \in Watchers : w = o.kind
    BY <2>2
  <2>4. Tell(w, c) /\ UNCHANGED <<up, batch>>
    BY <2>1, <2>3 DEF Put
  <2>5. QED BY <2>2, <2>3, <2>4, TellTyped DEF Typed
<1>3. KnownTyped'
  BY DEF Typed, KnownTyped, Put
<1>4. QED BY <1>1, <1>2, <1>3 DEF Typed

(* The same of a deletion.                                                 *)
LEMMA DeleteTyped ==
    ASSUME Typed, NEW k \in Keys, Delete(k)
    PROVE  Typed'
<1>1. StoreTyped'
  <2>1. store' = [store EXCEPT ![k] = Absent]
    BY DEF Delete
  <2>2. store' \in [Keys -> Objects \cup {Absent}] /\ \A x \in Keys : store'[x] # Absent => Key(store'[x]) = x
    BY <2>1 DEF Typed, StoreTyped
  <2>3. {x \in Keys : store'[x] # Absent} \subseteq {x \in Keys : store[x] # Absent}
    BY <2>1 DEF Typed, StoreTyped
  <2>4. IsFiniteSet({x \in Keys : store'[x] # Absent})
    BY <2>3, FS_Subset, Zenon DEF Typed, StoreTyped
  <2>5. QED BY <2>2, <2>4, Zenon DEF StoreTyped
<1>2. WatchTyped'
  <2>1. PICK c : c = [key |-> k, value |-> Absent]
    OBVIOUS
  <2>2. c \in ChangesOf(k[1]) /\ k[1] \in Watchers
    BY <2>1, ChangeTyped, KeyWatcher, Zenon
  <2>3. PICK w \in Watchers : w = k[1]
    BY <2>2
  <2>4. Tell(w, c) /\ UNCHANGED <<up, batch>>
    BY <2>1, <2>3 DEF Delete
  <2>5. QED BY <2>2, <2>3, <2>4, TellTyped DEF Typed
<1>3. KnownTyped'
  BY DEF Typed, KnownTyped, Delete
<1>4. QED BY <1>1, <1>2, <1>3 DEF Typed

(* What WatchTree lists first tells of every key of the watcher what is    *)
(* in the store.                                                           *)
LEMMA ListingTells ==
    ASSUME StoreTyped, NEW w \in Watchers,
           NEW order \in SetToSeqs({k \in KeysOf(w) : store[k] # Absent}),
           NEW list, list = [i \in DOMAIN order |-> [key |-> order[i], value |-> store[order[i]]]]
    PROVE  /\ list \in Seq(ChangesOf(w))
           /\ \A k \in KeysOf(w) : Told(list, k) = IF store[k] # Absent THEN Single(store[k]) ELSE <<>>
<1>1. PICK A : A = {k \in KeysOf(w) : store[k] # Absent}
  OBVIOUS
<1>2. IsFiniteSet(A)
  <2>1. A \subseteq {k \in Keys : store[k] # Absent}
    BY <1>1, Zenon DEF KeysOf
  <2>2. QED BY <2>1, FS_Subset, Zenon DEF StoreTyped
<1>3. /\ order \in Seq(A)
      /\ \A i, j \in DOMAIN order : order[i] = order[j] => i = j
      /\ \A x \in A : \E i \in DOMAIN order : order[i] = x
  BY <1>1, <1>2, OrderLists, Zenon
<1>4. \A x \in A : [key |-> x, value |-> store[x]] \in ChangesOf(w)
  <2>1. SUFFICES ASSUME NEW x \in A PROVE [key |-> x, value |-> store[x]] \in ChangesOf(w)
    OBVIOUS
  <2>2. x \in Keys /\ x[1] = w /\ store[x] # Absent
    BY <1>1 DEF KeysOf
  <2>3. store[x] \in Objects \cup {Absent} /\ Key(store[x]) = x
    BY <2>2 DEF StoreTyped
  <2>4. QED BY <2>2, <2>3 DEF ChangesOf, Changes
<1>5. PICK n \in Nat : n = Len(order) /\ DOMAIN order = 1..n /\ \A i \in 1..n : order[i] \in A
  BY <1>3
<1>6. /\ list \in [1..n -> ChangesOf(w)]
      /\ \A i \in 1..n : list[i].key = order[i] /\ list[i].value = store[order[i]]
  BY <1>4, <1>5
<1>7. list \in Seq(ChangesOf(w)) /\ Len(list) = n
  BY <1>5, <1>6
<1>8. ASSUME NEW k \in KeysOf(w), store[k] # Absent PROVE Told(list, k) = Single(store[k])
  <2>1. PICK i \in 1..n : order[i] = k
    BY <1>1, <1>3, <1>5, <1>8
  <2>2. i \in 1..Len(list) /\ list[i].key = k /\ list[i].value = store[k]
    BY <1>6, <1>7, <2>1
  <2>3. \A j \in 1..Len(list) : list[j].key = k => j = i
    BY <1>3, <1>5, <1>6, <1>7, <2>1
  <2>5. OnlyAt(list, k, i)
    BY <2>2, <2>3, Zenon DEF OnlyAt
  <2>6. Told(list, k) = Single(list[i].value)
    BY <1>7, <2>5, ToldOnce, Zenon
  <2>7. QED BY <2>2, <2>6, Zenon
<1>9. ASSUME NEW k \in KeysOf(w), store[k] = Absent PROVE Told(list, k) = <<>>
  <2>1. \A i \in 1..Len(list) : list[i].key # k
    BY <1>1, <1>5, <1>6, <1>7, <1>9
  <2>2. QED BY <1>7, <2>1, ToldNone
<1>10. QED BY <1>7, <1>8, <1>9

(* A watcher connects.                                                     *)
LEMMA WatchTreeTyped ==
    ASSUME Typed, NEW w \in Watchers, WatchTree(w)
    PROVE  Typed'
<1>1. StoreTyped'
  BY DEF Typed, StoreTyped, WatchTree
<1>2. WatchTyped'
  <2>1. PICK order \in SetToSeqs({k \in KeysOf(w) : store[k] # Absent}) :
           incoming' = [incoming EXCEPT ![w] =
              <<[i \in DOMAIN order |-> [key |-> order[i], value |-> store[order[i]]]]>>]
    BY Zenon DEF WatchTree
  <2>2. PICK list : list = [i \in DOMAIN order |-> [key |-> order[i], value |-> store[order[i]]]]
    OBVIOUS
  <2>3. list \in Seq(ChangesOf(w))
    BY <2>2, ListingTells DEF Typed
  <2>4. <<list>> \in Seq(Seq(ChangesOf(w)))
    BY <2>3, QueueListed
  <2>5. DOMAIN incoming' = Watchers
    BY <2>1, Zenon DEF Typed, WatchTyped
  <2>6. incoming'[w] = <<list>> /\ \A v \in Watchers \ {w} : incoming'[v] = incoming[v]
    BY <2>1, <2>2, Zenon DEF Typed, WatchTyped
  <2>7. up' \in [Watchers -> BOOLEAN] /\ up'[w] /\ \A v \in Watchers \ {w} : up'[v] = up[v]
    BY DEF Typed, WatchTyped, WatchTree
  <2>8. \A v \in Watchers : incoming'[v] \in Seq(Seq(ChangesOf(v))) /\ (~up'[v] => incoming'[v] = <<>>)
    BY <2>4, <2>6, <2>7, Zenon DEF Typed, WatchTyped
  <2>9. batch' = batch
    BY DEF WatchTree
  <2>10. QED BY <2>5, <2>7, <2>8, <2>9, Zenon DEF Typed, WatchTyped
<1>3. KnownTyped'
  BY DEF Typed, KnownTyped, WatchTree
<1>4. QED BY <1>1, <1>2, <1>3 DEF Typed

(* It takes a batch.                                                       *)
LEMMA ReceiveTyped ==
    ASSUME Typed, NEW w \in Watchers, Receive(w)
    PROVE  Typed'
<1>1. StoreTyped' /\ KnownTyped'
  BY DEF Typed, StoreTyped, KnownTyped, Receive
<1>2. WatchTyped'
  <2>1. PICK T : T = ChangesOf(w)
    OBVIOUS
  <2>2. incoming[w] \in Seq(Seq(T)) /\ incoming[w] # <<>>
    BY <2>1, Zenon DEF Typed, WatchTyped, Receive
  <2>3. Head(incoming[w]) \in Seq(T) /\ Tail(incoming[w]) \in Seq(Seq(T))
    BY <2>2, QueueReceived
  <2>4. up' = up /\ DOMAIN incoming' = Watchers /\ DOMAIN batch' = Watchers
    BY Zenon DEF Typed, WatchTyped, Receive
  <2>5. /\ incoming'[w] = Tail(incoming[w]) /\ batch'[w] = Head(incoming[w])
        /\ \A v \in Watchers \ {w} : incoming'[v] = incoming[v] /\ batch'[v] = batch[v]
    BY Zenon DEF Typed, WatchTyped, Receive
  <2>6. up[w]
    BY <2>2, Zenon DEF Typed, WatchTyped
  <2>7. QED BY <2>1, <2>3, <2>4, <2>5, <2>6, Zenon DEF Typed, WatchTyped
<1>3. QED BY <1>1, <1>2 DEF Typed

(* The first change of a batch is one of the watcher's keys.               *)
LEMMA HandledTyped ==
    ASSUME Typed, NEW w \in Watchers, batch[w] # <<>>
    PROVE  /\ Head(batch[w]) \in ChangesOf(w) /\ Head(batch[w]).key \in Keys
           /\ Head(batch[w]).key[1] = w
           /\ Head(batch[w]).value \in Objects \cup {Absent}
           /\ Head(batch[w]).value # Absent => Key(Head(batch[w]).value) = Head(batch[w]).key
           /\ Tail(batch[w]) \in Seq(ChangesOf(w))
<1>1. batch[w] \in Seq(ChangesOf(w))
  BY Zenon DEF Typed, WatchTyped
<1>2. Head(batch[w]) \in ChangesOf(w) /\ Tail(batch[w]) \in Seq(ChangesOf(w))
  BY <1>1
<1>3. QED BY <1>2 DEF ChangesOf, Changes

(* It handles a change.                                                    *)
LEMMA ReactTyped ==
    ASSUME Typed, NEW w \in Watchers, React(w)
    PROVE  Typed'
<1>1. StoreTyped'
  BY DEF Typed, StoreTyped, React
<1>2. WatchTyped'
  <2>1. batch[w] # <<>> /\ up' = up /\ incoming' = incoming /\ DOMAIN batch' = Watchers
    BY Zenon DEF Typed, WatchTyped, React
  <2>2. batch'[w] = Tail(batch[w]) /\ \A v \in Watchers \ {w} : batch'[v] = batch[v]
    BY Zenon DEF Typed, WatchTyped, React
  <2>3. Tail(batch[w]) \in Seq(ChangesOf(w))
    BY <2>1, HandledTyped
  <2>4. QED BY <2>1, <2>2, <2>3, Zenon DEF Typed, WatchTyped
<1>3. KnownTyped'
  <2>1. PICK c : c = Head(batch[w])
    OBVIOUS
  <2>2. /\ c.key \in Keys /\ c.value \in Objects \cup {Absent}
        /\ c.value # Absent => Key(c.value) = c.key
    BY <2>1, HandledTyped DEF React
  <2>3. known' = [known EXCEPT ![c.key] = c.value]
    BY <2>1 DEF React, Recorded
  <2>4. known' \in [Keys -> Objects \cup {Absent}] /\ \A k \in Keys : known'[k] # Absent => Key(known'[k]) = k
    BY <2>2, <2>3 DEF Typed, KnownTyped
  <2>5. \/ cache' = cache
        \/ c.value # Absent /\ cache' = Modified(cache, c.value)
        \/ known[c.key] # Absent /\ cache' = Deleted(cache, known[c.key])
    BY <2>1 DEF React
  <2>6. DOMAIN cache = CacheFields /\ cache.objects \in [PlainKeys -> Objects \cup {Absent}]
    BY DEF Typed, KnownTyped
  <2>7. DOMAIN cache' = CacheFields /\ cache'.objects \in [PlainKeys -> Objects \cup {Absent}]
    <3>1. CASE cache' = cache
      BY <2>6, <3>1
    <3>2. CASE c.value # Absent /\ cache' = Modified(cache, c.value)
      <4>1. PICK o \in Objects : o = c.value
        BY <2>2, <3>2
      <4>2. /\ DOMAIN cache' = CacheFields
            /\ cache'.objects = IF o.kind \in Plain THEN [cache.objects EXCEPT ![Key(o)] = o] ELSE cache.objects
        BY <2>6, <3>2, <4>1, ModifiedObjects
      <4>3. QED BY <2>6, <4>2
    <3>3. CASE known[c.key] # Absent /\ cache' = Deleted(cache, known[c.key])
      <4>1. PICK o \in Objects : o = known[c.key]
        BY <2>2, <3>3 DEF Typed, KnownTyped
      <4>2. /\ DOMAIN cache' = CacheFields
            /\ cache'.objects = IF o.kind \in Plain THEN [cache.objects EXCEPT ![Key(o)] = Absent] ELSE cache.objects
        BY <2>6, <3>3, <4>1, DeletedObjects
      <4>3. QED BY <2>6, <4>2
    <3>4. QED BY <2>5, <3>1, <3>2, <3>3
  <2>8. QED BY <2>4, <2>7 DEF KnownTyped
<1>4. QED BY <1>1, <1>2, <1>3 DEF Typed

(* The connection is lost.                                                 *)
LEMMA DisconnectTyped ==
    ASSUME Typed, NEW w \in Watchers, Disconnect(w)
    PROVE  Typed'
<1>1. StoreTyped' /\ KnownTyped'
  BY DEF Typed, StoreTyped, KnownTyped, Disconnect
<1>2. WatchTyped'
  <2>1. batch' = batch /\ DOMAIN incoming' = Watchers
    BY Zenon DEF Typed, WatchTyped, Disconnect
  <2>2. up' \in [Watchers -> BOOLEAN] /\ \A v \in Watchers \ {w} : up'[v] = up[v]
    BY DEF Typed, WatchTyped, Disconnect
  <2>3. incoming'[w] = <<>> /\ \A v \in Watchers \ {w} : incoming'[v] = incoming[v]
    BY Zenon DEF Typed, WatchTyped, Disconnect
  <2>4. \A T : <<>> \in Seq(T)
    OBVIOUS
  <2>5. QED BY <2>1, <2>2, <2>3, <2>4, Zenon DEF Typed, WatchTyped
<1>3. QED BY <1>1, <1>2 DEF Typed

(* The gateway is started again.                                           *)
LEMMA RestartTyped ==
    ASSUME Typed, Restart
    PROVE  Typed'
<1>1. StoreTyped'
  BY DEF Typed, StoreTyped, Restart
<1>2. WatchTyped'
  <2>1. \A T : <<>> \in Seq(T)
    OBVIOUS
  <2>2. QED BY <2>1, Zenon DEF Restart, WatchTyped
<1>3. KnownTyped'
  BY DEF Restart, KnownTyped, NewCache, CacheFields
<1>4. QED BY <1>1, <1>2, <1>3 DEF Typed

(* No step leaves the types.                                               *)
LEMMA TypedStep ==
    ASSUME Typed, [Next]_vars
    PROVE  Typed'
<1>1. ASSUME UNCHANGED vars PROVE Typed'
  <2>1. /\ store' = store /\ up' = up /\ incoming' = incoming /\ batch' = batch
        /\ known' = known /\ cache' = cache
    BY <1>1 DEF vars
  <2>2. QED BY <2>1, Zenon DEF Typed, StoreTyped, WatchTyped, KnownTyped
<1>2. QED
  BY <1>1, PutTyped, DeleteTyped, WatchTreeTyped, ReceiveTyped, ReactTyped, DisconnectTyped,
     RestartTyped DEF Next, Quiet

-----------------------------------------------------------------------------
(***************************************************************************)
(* How each step changes what is pending for a key.                        *)
(***************************************************************************)

(* What is pending, by the batch and the channel of the key's watcher.     *)
LEMMA PendingIs ==
    ASSUME NEW k
    PROVE  /\ Pending(k) = Told(Queue(batch[k[1]], incoming[k[1]]), k)
           /\ Pending(k)' = Told(Queue(batch'[k[1]], incoming'[k[1]]), k)
BY Zenon DEF Pending, Queue, Joined

(* Values or deletions are pending.                                        *)
LEMMA PendingTyped ==
    ASSUME WatchTyped, NEW k \in Keys
    PROVE  /\ Queue(batch[k[1]], incoming[k[1]]) \in Seq(ChangesOf(k[1]))
           /\ Pending(k) \in Seq(Objects \cup {Absent})
<1>1. PICK T : T = ChangesOf(k[1])
  OBVIOUS
<1>2. batch[k[1]] \in Seq(T) /\ incoming[k[1]] \in Seq(Seq(T))
  BY <1>1, KeyWatcher, Zenon DEF WatchTyped
<1>3. PICK q \in Seq(T) : q = Queue(batch[k[1]], incoming[k[1]])
  BY <1>2, QueueTyped, Zenon
<1>4. \A c \in T : c.key = k => c.value \in Objects \cup {Absent}
  BY <1>1 DEF ChangesOf, Changes
<1>5. Told(q, k) \in Seq(Objects \cup {Absent})
  BY <1>4, ToldTyped
<1>6. QED BY <1>1, <1>3, <1>5, PendingIs, Zenon

(* A change is told to a watcher: it is pending at the end.                *)
LEMMA PendingTold ==
    ASSUME WatchTyped, NEW w \in Watchers, NEW c \in ChangesOf(w), Tell(w, c), batch' = batch
    PROVE  \A k \in Keys : Pending(k)' = IF k = c.key /\ up[w] THEN Append(Pending(k), c.value)
                                                               ELSE Pending(k)
<1>1. SUFFICES ASSUME NEW k \in Keys
               PROVE  Pending(k)' = IF k = c.key /\ up[w] THEN Append(Pending(k), c.value)
                                                          ELSE Pending(k)
  OBVIOUS
<1>2. c.key[1] = w
  BY DEF ChangesOf
<1>3. CASE ~up[w]
  BY <1>3, PendingIs, Zenon DEF Tell
<1>4. CASE up[w] /\ k[1] # w
  <2>1. incoming'[k[1]] = incoming[k[1]]
    BY <1>4, KeyWatcher, Zenon DEF Tell, WatchTyped
  <2>2. QED BY <1>2, <1>4, <2>1, PendingIs, Zenon
<1>5. CASE up[w] /\ k[1] = w
  <2>1. incoming'[w] = Append(incoming[w], <<c>>)
    BY <1>5, Zenon DEF Tell, WatchTyped
  <2>2. PICK T : T = ChangesOf(w)
    OBVIOUS
  <2>3. batch[w] \in Seq(T) /\ incoming[w] \in Seq(Seq(T)) /\ c \in T
    BY <2>2, Zenon DEF WatchTyped
  <2>4. PICK q \in Seq(T) : q = Queue(batch[w], incoming[w])
    BY <2>3, QueueTyped, Zenon
  <2>5. Queue(batch[w], Append(incoming[w], <<c>>)) = Append(q, c)
    BY <2>3, <2>4, QueueSent
  <2>6. Told(Append(q, c), k) = IF c.key = k THEN Append(Told(q, k), c.value) ELSE Told(q, k)
    BY <2>3, ToldAppend
  <2>7. Pending(k) = Told(q, k) /\ Pending(k)' = Told(Append(q, c), k)
    BY <1>5, <2>1, <2>4, <2>5, PendingIs, Zenon
  <2>8. QED BY <1>5, <2>6, <2>7, Zenon
<1>6. QED BY <1>3, <1>4, <1>5

(* A new connection: what is in the store is pending.                      *)
LEMMA PendingListed ==
    ASSUME Typed, NEW w \in Watchers, WatchTree(w)
    PROVE  \A k \in Keys :
              /\ k[1] = w => Pending(k) = <<>>
              /\ Pending(k)' = IF k[1] # w THEN Pending(k)
                               ELSE IF store[k] # Absent THEN Single(store[k]) ELSE <<>>
<1>1. PICK order \in SetToSeqs({k \in KeysOf(w) : store[k] # Absent}) :
         incoming' = [incoming EXCEPT ![w] =
            <<[i \in DOMAIN order |-> [key |-> order[i], value |-> store[order[i]]]]>>]
  BY Zenon DEF WatchTree
<1>2. PICK list : list = [i \in DOMAIN order |-> [key |-> order[i], value |-> store[order[i]]]]
  OBVIOUS
<1>3. /\ list \in Seq(ChangesOf(w))
      /\ \A k \in KeysOf(w) : Told(list, k) = IF store[k] # Absent THEN Single(store[k]) ELSE <<>>
  BY <1>2, ListingTells DEF Typed
<1>4. Queue(<<>>, <<list>>) = list
  BY <1>3, QueueListed
<1>5. incoming'[w] = <<list>> /\ \A v \in Watchers \ {w} : incoming'[v] = incoming[v]
  BY <1>1, <1>2, Zenon DEF Typed, WatchTyped
<1>6. batch' = batch /\ batch[w] = <<>> /\ incoming[w] = <<>>
  BY Zenon DEF WatchTree, Typed, WatchTyped
<1>7. Queue(<<>>, <<>>) = <<>>
  <2>1. <<>> \in Seq({})
    OBVIOUS
  <2>2. QED BY <2>1, QueueAlone
<1>8. ASSUME NEW k \in Keys, k[1] = w
      PROVE  Pending(k) = <<>> /\ Pending(k)' = IF store[k] # Absent THEN Single(store[k]) ELSE <<>>
  <2>1. k \in KeysOf(w)
    BY <1>8 DEF KeysOf
  <2>2. Pending(k) = <<>>
    BY <1>6, <1>7, <1>8, PendingIs, ToldEmpty, Zenon
  <2>3. Pending(k)' = Told(list, k)
    BY <1>4, <1>5, <1>6, <1>8, PendingIs, Zenon
  <2>4. QED BY <1>3, <2>1, <2>2, <2>3, Zenon
<1>9. ASSUME NEW k \in Keys, k[1] # w PROVE Pending(k)' = Pending(k)
  <2>1. k[1] \in Watchers \ {w}
    BY <1>9, KeyWatcher
  <2>2. incoming'[k[1]] = incoming[k[1]] /\ batch'[k[1]] = batch[k[1]]
    BY <1>5, <1>6, <2>1, Zenon
  <2>3. QED BY <2>2, PendingIs, Zenon
<1>10. QED BY <1>8, <1>9, Zenon

(* Receiving a batch changes nothing.                                      *)
LEMMA PendingReceived ==
    ASSUME WatchTyped, NEW w \in Watchers, Receive(w)
    PROVE  \A k \in Keys : Pending(k)' = Pending(k)
<1>1. SUFFICES ASSUME NEW k \in Keys PROVE Pending(k)' = Pending(k)
  OBVIOUS
<1>2. /\ incoming'[w] = Tail(incoming[w]) /\ batch'[w] = Head(incoming[w])
      /\ \A v \in Watchers \ {w} : incoming'[v] = incoming[v] /\ batch'[v] = batch[v]
      /\ batch[w] = <<>>
  BY Zenon DEF WatchTyped, Receive
<1>3. incoming[w] \in Seq(Seq(ChangesOf(w))) /\ incoming[w] # <<>>
  BY Zenon DEF WatchTyped, Receive
<1>4. Queue(Head(incoming[w]), Tail(incoming[w])) = Queue(<<>>, incoming[w])
  BY <1>3, QueueReceived
<1>5. CASE k[1] = w
  <2>1. Queue(batch'[w], incoming'[w]) = Queue(batch[w], incoming[w])
    BY <1>2, <1>4, Zenon
  <2>2. QED BY <1>5, <2>1, PendingIs, Zenon
<1>6. CASE k[1] # w
  <2>1. k[1] \in Watchers \ {w}
    BY <1>6, KeyWatcher
  <2>2. incoming'[k[1]] = incoming[k[1]] /\ batch'[k[1]] = batch[k[1]]
    BY <1>2, <2>1, Zenon
  <2>3. QED BY <2>2, PendingIs, Zenon
<1>7. QED BY <1>5, <1>6

(* A change is handled: it was the first one pending for its key.          *)
LEMMA PendingHandled ==
    ASSUME Typed, NEW w \in Watchers, React(w), NEW c, c = Head(batch[w])
    PROVE  /\ \A k \in Keys : k # c.key => Pending(k)' = Pending(k)
           /\ Pending(c.key)' \in Seq(Objects \cup {Absent})
           /\ Pending(c.key) = Joined(Single(c.value), Pending(c.key)')
<1>1. PICK T : T = ChangesOf(w)
  OBVIOUS
<1>2. batch[w] \in Seq(T) /\ incoming[w] \in Seq(Seq(T)) /\ batch[w] # <<>>
  BY <1>1, Zenon DEF Typed, WatchTyped, React
<1>3. /\ incoming' = incoming /\ batch'[w] = Tail(batch[w])
      /\ \A v \in Watchers \ {w} : batch'[v] = batch[v]
  BY Zenon DEF Typed, WatchTyped, React
<1>4. c.key \in Keys /\ c.key[1] = w
  BY <1>2, HandledTyped
<1>5. PICK q \in Seq(T) : q = Queue(batch[w], incoming[w])
  BY <1>2, QueueTyped, Zenon
<1>6. q # <<>> /\ Head(q) = c /\ Tail(q) = Queue(batch'[w], incoming'[w])
  BY <1>2, <1>3, <1>5, QueueHandled
<1>7. ASSUME NEW k \in Keys, k[1] = w
      PROVE  Pending(k) = IF c.key = k THEN Joined(Single(c.value), Pending(k)') ELSE Pending(k)'
  <2>1. Told(q, k) = IF Head(q).key = k THEN Joined(Single(Head(q).value), Told(Tail(q), k))
                                        ELSE Told(Tail(q), k)
    BY <1>6, ToldHead
  <2>2. Pending(k) = Told(q, k) /\ Pending(k)' = Told(Tail(q), k)
    BY <1>5, <1>6, <1>7, PendingIs, Zenon
  <2>3. QED BY <1>6, <2>1, <2>2, Zenon
<1>8. ASSUME NEW k \in Keys, k[1] # w PROVE Pending(k)' = Pending(k)
  <2>1. k[1] \in Watchers \ {w}
    BY <1>8, KeyWatcher
  <2>2. incoming'[k[1]] = incoming[k[1]] /\ batch'[k[1]] = batch[k[1]]
    BY <1>3, <2>1, Zenon
  <2>3. QED BY <2>2, PendingIs, Zenon
<1>9. Pending(c.key)' \in Seq(Objects \cup {Absent})
  <2>1. Typed'
    BY ReactTyped
  <2>2. PICK k \in Keys : k = c.key
    BY <1>4
  <2>3. Pending(k)' \in Seq(Objects \cup {Absent})
    <3>1. PICK u \in Seq(T) : u = Queue(batch'[w], incoming'[w])
      BY <1>6, HeadRest, Zenon
    <3>2. \A x \in T : x.key = k => x.value \in Objects \cup {Absent}
      BY <1>1 DEF ChangesOf, Changes
    <3>3. Told(u, k) \in Seq(Objects \cup {Absent})
      BY <3>2, ToldTyped
    <3>4. QED BY <1>4, <2>2, <3>1, <3>3, PendingIs, Zenon
  <2>4. QED BY <2>2, <2>3
<1>10. QED BY <1>4, <1>7, <1>8, <1>9, Zenon

(* A lost connection: what was received stays pending, and a deletion that *)
(* was not is noted.                                                       *)
LEMMA PendingDropped ==
    ASSUME Typed, NEW w \in Watchers, Disconnect(w), NEW k \in Keys
    PROVE  /\ k[1] # w => Pending(k)' = Pending(k)
           /\ k[1] = w => /\ Pending(k)' \in Seq(Objects \cup {Absent})
                          /\ \E u \in Seq(Objects \cup {Absent}) :
                                /\ Pending(k) = Joined(Pending(k)', u)
                                /\ k \notin lost' => \A j \in 1..Len(u) : u[j] # Absent
<1>1. /\ batch' = batch /\ incoming'[w] = <<>>
      /\ \A v \in Watchers \ {w} : incoming'[v] = incoming[v]
  BY Zenon DEF Typed, WatchTyped, Disconnect
<1>2. ASSUME k[1] # w PROVE Pending(k)' = Pending(k)
  <2>1. k[1] \in Watchers \ {w}
    BY <1>2, KeyWatcher
  <2>2. incoming'[k[1]] = incoming[k[1]] /\ batch'[k[1]] = batch[k[1]]
    BY <1>1, <2>1, Zenon
  <2>3. QED BY <2>2, PendingIs, Zenon
<1>3. ASSUME k[1] = w
      PROVE  /\ Pending(k)' \in Seq(Objects \cup {Absent})
             /\ \E u \in Seq(Objects \cup {Absent}) :
                   /\ Pending(k) = Joined(Pending(k)', u)
                   /\ k \notin lost' => \A j \in 1..Len(u) : u[j] # Absent
  <2>1. PICK T : T = ChangesOf(w)
    OBVIOUS
  <2>2. PICK b \in Seq(T) : b = batch[w]
    BY <2>1, Zenon DEF Typed, WatchTyped
  <2>3. incoming[w] \in Seq(Seq(T))
    BY <2>1, Zenon DEF Typed, WatchTyped
  <2>4. PICK f \in Seq(T) : f = FlattenSeq(incoming[w])
    BY <2>2, <2>3, QueueTyped, Zenon
  <2>5. \A c \in T : c.key = k => c.value \in Objects \cup {Absent}
    BY <2>1 DEF ChangesOf, Changes
  <2>6. Told(b, k) \in Seq(Objects \cup {Absent}) /\ Told(f, k) \in Seq(Objects \cup {Absent})
    BY <2>5, ToldTyped
  <2>7. Told(Joined(b, f), k) = Joined(Told(b, k), Told(f, k))
    BY ToldJoined
  <2>8. Queue(b, <<>>) = b
    BY QueueAlone
  <2>9. Pending(k) = Told(Joined(b, f), k) /\ Pending(k)' = Told(b, k)
    BY <1>1, <1>3, <2>2, <2>4, <2>8, PendingIs, Zenon DEF Queue
  <2>10. ASSUME NEW j \in 1..Len(Told(f, k)), Told(f, k)[j] = Absent PROVE k \in lost'
    <3>1. PICK i \in 1..Len(f) : f[i].key = k /\ f[i].value = Told(f, k)[j]
      BY ToldMember
    <3>2. f[i] \in ToSet(f)
      BY DEF ToSet
    <3>3. lost' = lost \cup {c.key : c \in {x \in ToSet(f) : x.value = Absent}}
      BY <2>4 DEF Disconnect
    <3>4. QED BY <2>10, <3>1, <3>2, <3>3
  <2>11. QED BY <2>6, <2>7, <2>9, <2>10, Zenon
<1>4. QED BY <1>2, <1>3

(* Nothing is pending in a gateway that starts.                            *)
LEMMA PendingNone ==
    ASSUME NEW k \in Keys
    PROVE  Init => Pending(k) = <<>>
<1>1. k[1] \in Watchers
  BY KeyWatcher
<1>2. ASSUME Init PROVE batch[k[1]] = <<>> /\ incoming[k[1]] = <<>>
  BY <1>1, <1>2 DEF Init
<1>3. Queue(<<>>, <<>>) = <<>>
  <2>1. <<>> \in Seq({})
    OBVIOUS
  <2>2. QED BY <2>1, QueueAlone
<1>4. QED BY <1>2, <1>3, PendingIs, ToldEmpty, Zenon

(* The same of one that starts again.                                      *)
LEMMA PendingRestarted ==
    ASSUME NEW k \in Keys, Restart
    PROVE  Pending(k)' = <<>>
<1>1. k[1] \in Watchers
  BY KeyWatcher
<1>2. batch'[k[1]] = <<>> /\ incoming'[k[1]] = <<>>
  BY <1>1 DEF Restart
<1>3. Queue(<<>>, <<>>) = <<>>
  <2>1. <<>> \in Seq({})
    OBVIOUS
  <2>2. QED BY <2>1, QueueAlone
<1>4. QED BY <1>2, <1>3, PendingIs, ToldEmpty, Zenon

-----------------------------------------------------------------------------
(***************************************************************************)
(* The cache follows the store.                                            *)
(***************************************************************************)

(* What is told last, of longer and longer sequences.                      *)
LEMMA FinalLaws ==
    ASSUME NEW T, NEW t \in Seq(T), NEW u \in Seq(T), NEW v \in T, NEW d
    PROVE  /\ Final(<<>>, d) = d
           /\ Final(Append(t, v), d) = v
           /\ Final(Single(v), d) = v
           /\ Final(Joined(Single(v), t), d) = Final(t, v)
           /\ u # <<>> => Final(Joined(t, u), d) = u[Len(u)]
<1>1. Final(<<>>, d) = d
  BY DEF Final
<1>2. Final(Append(t, v), d) = v
  BY DEF Final
<1>3. Final(Single(v), d) = v
  BY DEF Final, Single
<1>4. ASSUME u # <<>> PROVE Final(Joined(t, u), d) = u[Len(u)]
  <2>1. PICK m \in Nat : m = Len(t)
    OBVIOUS
  <2>2. PICK n \in Nat : n = Len(u) /\ n \in 1..n
    BY <1>4
  <2>3. PICK j \in Seq(T) : j = Joined(t, u)
    BY JoinedLaws
  <2>4. Len(j) = m + n /\ j[m + n] = u[n]
    <3>1. Len(Joined(t, u)) = Len(t) + Len(u) /\ \A i \in 1..Len(u) : Joined(t, u)[Len(t) + i] = u[i]
      BY ConcatProperties DEF Joined
    <3>2. QED BY <2>1, <2>2, <2>3, <3>1, Zenon
  <2>5. j # <<>>
    BY <2>2, <2>4
  <2>6. QED BY <2>2, <2>3, <2>4, <2>5 DEF Final
<1>5. Final(Joined(Single(v), t), d) = Final(t, v)
  <2>1. CASE t = <<>>
    <3>1. Joined(Single(v), <<>>) = Single(v)
      BY JoinedOne, JoinedLaws
    <3>2. QED BY <1>3, <2>1, <3>1 DEF Final
  <2>2. CASE t # <<>>
    <3>1. PICK j \in Seq(T) : j = <<v>> \o t /\ Len(j) = Len(t) + 1 /\ j[Len(t) + 1] = t[Len(t)]
      <4>1. <<v>> \o t \in Seq(T) /\ Len(<<v>> \o t) = Len(t) + 1 /\ (<<v>> \o t)[Len(t) + 1] = t[Len(t)]
        BY <2>2
      <4>2. QED BY <4>1
    <3>2. j = Joined(Single(v), t)
      BY <3>1 DEF Joined, Single
    <3>3. QED BY <2>2, <3>1, <3>2 DEF Final
  <2>3. QED BY <2>1, <2>2
<1>6. QED BY <1>1, <1>2, <1>3, <1>4, <1>5

(* A plain key is a key, and its objects are not routed.                   *)
LEMMA PlainKey ==
    ASSUME NEW k \in PlainKeys
    PROVE  k \in Keys /\ k[1] \in Plain /\ k[1] \in Watchers
<1>1. k \in Keys /\ k[1] \in Plain
  BY DEF PlainKeys
<1>2. QED BY <1>1, KeyWatcher

(* Handling a change sets the entry of its key to the value it tells.      *)
LEMMA ReactObjects ==
    ASSUME Typed, FollowInv, NEW w \in Watchers, React(w), NEW c, c = Head(batch[w])
    PROVE  \A k \in PlainKeys : cache'.objects[k] = IF k = c.key THEN c.value ELSE cache.objects[k]
<1>1. batch[w] # <<>>
  BY DEF React
<1>2. /\ c.key \in Keys /\ c.value \in Objects \cup {Absent}
      /\ c.value # Absent => Key(c.value) = c.key
  BY <1>1, HandledTyped
<1>3. DOMAIN cache = CacheFields /\ DOMAIN cache.objects = PlainKeys
  BY DEF Typed, KnownTyped
<1>4. CASE c.value # Absent
  <2>1. PICK o \in Objects : o = c.value
    BY <1>2, <1>4
  <2>2. cache' = Modified(cache, o)
    BY <1>4, <2>1 DEF React
  <2>3. cache'.objects = IF o.kind \in Plain THEN [cache.objects EXCEPT ![Key(o)] = o] ELSE cache.objects
    BY <1>3, <2>2, ModifiedObjects
  <2>4. Key(o) = c.key /\ (c.key \in PlainKeys <=> o.kind \in Plain)
    BY <1>2, <1>4, <2>1, KeyKind, Zenon
  <2>5. QED BY <1>3, <2>1, <2>3, <2>4
<1>5. CASE c.value = Absent /\ known[c.key] # Absent
  <2>1. PICK o \in Objects : o = known[c.key] /\ Key(o) = c.key
    BY <1>2, <1>5 DEF Typed, KnownTyped
  <2>2. Key(o) = c.key /\ (c.key \in PlainKeys <=> o.kind \in Plain)
    BY <2>1, KeyKind, Zenon
  <2>3. CASE Panics(cache, o)
    <3>1. cache' = cache
      BY <1>5, <2>1, <2>3 DEF React
    <3>2. c.key \notin PlainKeys
      BY <2>2, <2>3 DEF Panics, Routed
    <3>3. QED BY <3>1, <3>2
  <2>4. CASE ~Panics(cache, o)
    <3>1. cache' = Deleted(cache, o)
      BY <1>5, <2>1, <2>4 DEF React
    <3>2. cache'.objects = IF o.kind \in Plain THEN [cache.objects EXCEPT ![Key(o)] = Absent] ELSE cache.objects
      BY <1>3, <3>1, DeletedObjects
    <3>3. QED BY <1>3, <1>5, <2>2, <3>2
  <2>5. QED BY <2>3, <2>4
<1>6. CASE c.value = Absent /\ known[c.key] = Absent
  <2>1. cache' = cache
    BY <1>6 DEF React
  <2>2. ASSUME c.key \in PlainKeys PROVE cache.objects[c.key] = Absent
    <3>1. PICK t \in Seq(Objects \cup {Absent}) : t = Pending(c.key)'
      BY PendingHandled, Zenon
    <3>2. Pending(c.key) = <<c.value>> \o t
      BY <3>1, PendingHandled, Zenon DEF Joined, Single
    <3>3. Pending(c.key) # <<>> /\ Pending(c.key)[1] = Absent
      <4>1. \A v \in {Absent} : <<v>> \o t # <<>> /\ (<<v>> \o t)[1] = v
        OBVIOUS
      <4>2. QED BY <1>6, <3>2, <4>1, Zenon
    <3>4. QED BY <1>6, <2>2, <3>3, Zenon DEF FollowInv, Follows, CacheKnown
  <2>3. QED BY <1>6, <2>1, <2>2, Zenon
<1>7. QED BY <1>4, <1>5, <1>6

(* The beginning: nothing is stored, known or pending.                     *)
LEMMA FollowInit == Init => FollowInv
<1> SUFFICES ASSUME Init, NEW k \in PlainKeys
             PROVE  /\ up[k[1]] => Final(Pending(k), known[k]) = store[k]
                    /\ cache.objects[k] = known[k]
                    /\ Final(Pending(k), cache.objects[k]) = Absent
  BY Zenon DEF FollowInv, Follows, KnownLeads, CacheKnown, AbsenceLeads
<1>1. k \in Keys /\ k[1] \in Watchers
  BY PlainKey
<1>2. Pending(k) = <<>>
  BY <1>1, PendingNone
<1>3. store[k] = Absent /\ known[k] = Absent /\ cache.objects[k] = Absent
  BY <1>1 DEF Init, NewCache
<1>4. QED BY <1>2, <1>3 DEF Final

(* A step that leaves the key and what is pending for it alone.            *)
LEMMA FollowUntouched ==
    ASSUME FollowInv, NEW k \in PlainKeys, Pending(k)' = Pending(k),
           store'[k] = store[k], known'[k] = known[k], cache'.objects[k] = cache.objects[k],
           up'[k[1]] => up[k[1]], k \notin lost' => k \notin lost
    PROVE  Follows(k)'
BY Zenon DEF FollowInv, Follows, KnownLeads, CacheKnown, AbsenceLeads

(* The object of a key is written.                                         *)
LEMMA FollowPut ==
    ASSUME Typed, FollowInv, NEW o \in Objects, Put(o)
    PROVE  FollowInv'
<1>1. SUFFICES ASSUME NEW k \in PlainKeys PROVE Follows(k)'
  BY Zenon DEF FollowInv
<1>2. k \in Keys /\ k[1] \in Watchers
  BY PlainKey
<1>3. /\ store' = [store EXCEPT ![Key(o)] = o] /\ Key(o) \in Keys
      /\ up' = up /\ known' = known /\ cache' = cache /\ lost' = lost /\ batch' = batch
  BY KeyKind DEF Put
<1>4. PICK c : c = [key |-> Key(o), value |-> o]
  OBVIOUS
<1>5. PICK w \in Watchers : w = o.kind /\ w = Key(o)[1] /\ c \in ChangesOf(w)
  BY <1>4, ChangeTyped, KeyKind, Zenon
<1>6. Tell(w, c)
  BY <1>4, <1>5 DEF Put
<1>7. Pending(k)' = IF k = c.key /\ up[w] THEN Append(Pending(k), c.value) ELSE Pending(k)
  BY <1>2, <1>3, <1>5, <1>6, PendingTold DEF Typed
<1>8. CASE k # Key(o)
  <2>1. store'[k] = store[k] /\ Pending(k)' = Pending(k)
    BY <1>2, <1>3, <1>4, <1>7, <1>8 DEF Typed, StoreTyped
  <2>2. QED BY <1>3, <2>1, FollowUntouched
<1>9. CASE k = Key(o)
  <2>1. store'[k] = o /\ o # Absent
    BY <1>3, <1>9, ObjectsAssumption DEF Typed, StoreTyped
  <2>2. AbsenceLeads(k)'
    BY <2>1 DEF AbsenceLeads
  <2>3. CASE ~up[w]
    <3>1. Pending(k)' = Pending(k) /\ ~up'[k[1]]
      BY <1>3, <1>5, <1>7, <1>9, <2>3
    <3>2. KnownLeads(k)' /\ CacheKnown(k)'
      BY <1>3, <3>1, Zenon DEF FollowInv, Follows, KnownLeads, CacheKnown
    <3>3. QED BY <2>2, <3>2 DEF Follows
  <2>4. CASE up[w]
    <3>1. PICK t \in Seq(Objects \cup {Absent}) : t = Pending(k)
      BY <1>2, PendingTyped DEF Typed
    <3>2. Pending(k)' = Append(t, o)
      BY <1>4, <1>7, <1>9, <2>4, <3>1
    <3>3. Final(Append(t, o), known'[k]) = o
      BY FinalLaws
    <3>4. KnownLeads(k)'
      BY <2>1, <3>2, <3>3, Zenon DEF KnownLeads
    <3>5. Append(t, o)[1] = IF t = <<>> THEN o ELSE t[1]
      OBVIOUS
    <3>6. cache'.objects[k] = known'[k] \/ (known'[k] = Absent /\ Append(t, o)[1] # Absent)
      <4>1. CacheKnown(k)
        BY DEF FollowInv, Follows
      <4>2. cache.objects[k] = known[k] \/ (known[k] = Absent /\ (Pending(k) = <<>> \/ Pending(k)[1] # Absent))
        BY <4>1 DEF CacheKnown
      <4>3. cache.objects[k] = known[k] \/ (known[k] = Absent /\ (t = <<>> \/ t[1] # Absent))
        BY <3>1, <4>2
      <4>4. QED BY <1>3, <2>1, <3>5, <4>3
    <3>7. CacheKnown(k)'
      BY <3>2, <3>6, Zenon DEF CacheKnown
    <3>8. QED BY <2>2, <3>4, <3>7 DEF Follows
  <2>5. QED BY <2>3, <2>4
<1>10. QED BY <1>8, <1>9

(* The object of a key is deleted: the watcher is told, or misses it.      *)
LEMMA FollowDelete ==
    ASSUME Typed, FollowInv, NEW x \in Keys, Delete(x)
    PROVE  FollowInv'
<1>1. SUFFICES ASSUME NEW k \in PlainKeys PROVE Follows(k)'
  BY Zenon DEF FollowInv
<1>2. k \in Keys /\ k[1] \in Watchers
  BY PlainKey
<1>3. /\ store' = [store EXCEPT ![x] = Absent] /\ store[x] # Absent
      /\ up' = up /\ known' = known /\ cache' = cache /\ batch' = batch
      /\ lost' = IF up[x[1]] THEN lost ELSE lost \cup {x}
  BY DEF Delete
<1>4. PICK c : c = [key |-> x, value |-> Absent]
  OBVIOUS
<1>5. PICK w \in Watchers : w = x[1] /\ c \in ChangesOf(w)
  BY <1>4, ChangeTyped, KeyWatcher, Zenon
<1>6. Tell(w, c)
  BY <1>4, <1>5 DEF Delete
<1>7. Pending(k)' = IF k = c.key /\ up[w] THEN Append(Pending(k), c.value) ELSE Pending(k)
  BY <1>2, <1>3, <1>5, <1>6, PendingTold DEF Typed
<1>8. CASE k # x
  <2>1. store'[k] = store[k] /\ Pending(k)' = Pending(k) /\ (k \notin lost' => k \notin lost)
    BY <1>2, <1>3, <1>4, <1>7, <1>8 DEF Typed, StoreTyped
  <2>2. QED BY <1>3, <2>1, FollowUntouched
<1>9. CASE k = x /\ ~up[w]
  <2>1. Pending(k)' = Pending(k) /\ ~up'[k[1]] /\ k \in lost'
    BY <1>3, <1>5, <1>7, <1>9
  <2>2. QED BY <1>3, <2>1, Zenon DEF FollowInv, Follows, KnownLeads, CacheKnown, AbsenceLeads
<1>10. CASE k = x /\ up[w]
  <2>1. PICK t \in Seq(Objects \cup {Absent}) : t = Pending(k)
    BY <1>2, PendingTyped DEF Typed
  <2>2. Pending(k)' = Append(t, Absent) /\ store'[k] = Absent
    BY <1>2, <1>3, <1>4, <1>7, <1>10, <2>1 DEF Typed, StoreTyped
  <2>3. Final(Append(t, Absent), known'[k]) = Absent /\ Final(Append(t, Absent), cache'.objects[k]) = Absent
    BY FinalLaws
  <2>4. KnownLeads(k)' /\ AbsenceLeads(k)'
    BY <2>2, <2>3, Zenon DEF KnownLeads, AbsenceLeads
  <2>5. ASSUME known[k] = Absent PROVE t # <<>>
    <3>1. Final(t, known[k]) = store[k]
      BY <1>5, <1>10, <2>1, Zenon DEF FollowInv, Follows, KnownLeads
    <3>2. QED BY <1>3, <1>10, <2>5, <3>1 DEF Final
  <2>6. t # <<>> => Append(t, Absent)[1] = t[1]
    OBVIOUS
  <2>7. cache'.objects[k] = known'[k] \/ (known'[k] = Absent /\ Append(t, Absent)[1] # Absent)
    <3>1. CacheKnown(k)
      BY DEF FollowInv, Follows
    <3>2. cache.objects[k] = known[k] \/ (known[k] = Absent /\ (Pending(k) = <<>> \/ Pending(k)[1] # Absent))
      BY <3>1 DEF CacheKnown
    <3>3. cache.objects[k] = known[k] \/ (known[k] = Absent /\ (t = <<>> \/ t[1] # Absent))
      BY <2>1, <3>2
    <3>4. QED BY <1>3, <2>5, <2>6, <3>3
  <2>8. CacheKnown(k)'
    BY <2>2, <2>7, Zenon DEF CacheKnown
  <2>9. QED BY <2>4, <2>8 DEF Follows
<1>11. QED BY <1>8, <1>9, <1>10

(* A watcher connects and is told what exists.                             *)
LEMMA FollowWatchTree ==
    ASSUME Typed, FollowInv, NEW w \in Watchers, WatchTree(w)
    PROVE  FollowInv'
<1>1. SUFFICES ASSUME NEW k \in PlainKeys PROVE Follows(k)'
  BY Zenon DEF FollowInv
<1>2. k \in Keys /\ k[1] \in Watchers
  BY PlainKey
<1>3. store' = store /\ cache' = cache /\ lost' = lost /\ store[k] \in Objects \cup {Absent}
  BY <1>2 DEF WatchTree, Typed, StoreTyped
<1>4. /\ k[1] = w => Pending(k) = <<>>
      /\ Pending(k)' = IF k[1] # w THEN Pending(k)
                       ELSE IF store[k] # Absent THEN Single(store[k]) ELSE <<>>
  BY <1>2, PendingListed, Zenon
<1>5. CASE k[1] # w
  <2>1. up'[k[1]] = up[k[1]] /\ known'[k] = known[k]
    BY <1>2, <1>5 DEF WatchTree, KeysOf, Typed, WatchTyped
  <2>2. QED BY <1>3, <1>4, <1>5, <2>1, FollowUntouched
<1>6. CASE k[1] = w /\ store[k] = Absent
  <2>1. Pending(k) = <<>> /\ Pending(k)' = <<>> /\ known'[k] = Absent
    BY <1>2, <1>4, <1>6 DEF WatchTree, KeysOf
  <2>2. AbsenceLeads(k)
    BY DEF FollowInv, Follows
  <2>3. QED BY <1>3, <1>6, <2>1, <2>2 DEF Follows, KnownLeads, CacheKnown, AbsenceLeads, Final
<1>7. CASE k[1] = w /\ store[k] # Absent
  <2>1. Pending(k)' = Single(store[k]) /\ known'[k] = Absent
    BY <1>2, <1>4, <1>7 DEF WatchTree, KeysOf
  <2>2. \A v : Final(Single(v), known'[k]) = v
    BY DEF Final, Single
  <2>3. Single(store[k])[1] # Absent
    BY <1>7 DEF Single
  <2>4. KnownLeads(k)'
    BY <1>3, <2>1, <2>2, Zenon DEF KnownLeads
  <2>5. CacheKnown(k)'
    <3>1. Pending(k)'[1] # Absent
      BY <2>1, <2>3, Zenon
    <3>2. QED BY <2>1, <3>1, Zenon DEF CacheKnown
  <2>6. AbsenceLeads(k)'
    BY <1>3, <1>7, Zenon DEF AbsenceLeads
  <2>7. QED BY <2>4, <2>5, <2>6 DEF Follows
<1>8. QED BY <1>5, <1>6, <1>7

(* A batch is received.                                                    *)
LEMMA FollowReceive ==
    ASSUME Typed, FollowInv, NEW w \in Watchers, Receive(w)
    PROVE  FollowInv'
<1>1. SUFFICES ASSUME NEW k \in PlainKeys PROVE Follows(k)'
  BY Zenon DEF FollowInv
<1>2. k \in Keys
  BY PlainKey
<1>3. store' = store /\ known' = known /\ cache' = cache /\ lost' = lost /\ up' = up
  BY DEF Receive
<1>4. Pending(k)' = Pending(k)
  BY <1>2, PendingReceived DEF Typed
<1>5. QED BY <1>3, <1>4, FollowUntouched

(* A change is handled.                                                    *)
LEMMA FollowReact ==
    ASSUME Typed, FollowInv, NEW w \in Watchers, React(w)
    PROVE  FollowInv'
<1>1. SUFFICES ASSUME NEW k \in PlainKeys PROVE Follows(k)'
  BY Zenon DEF FollowInv
<1>2. k \in Keys
  BY PlainKey
<1>3. PICK c : c = Head(batch[w])
  OBVIOUS
<1>4. c.key \in Keys /\ c.value \in Objects \cup {Absent}
  BY <1>3, HandledTyped DEF React
<1>5. /\ store' = store /\ lost' = lost /\ up' = up
      /\ known' = [known EXCEPT ![c.key] = c.value]
  BY <1>3 DEF React, Recorded
<1>6. cache'.objects[k] = IF k = c.key THEN c.value ELSE cache.objects[k]
  BY <1>3, ReactObjects
<1>7. CASE k # c.key
  <2>1. known'[k] = known[k] /\ Pending(k)' = Pending(k)
    <3>1. Pending(k)' = Pending(k)
      BY <1>2, <1>3, <1>7, PendingHandled
    <3>2. known'[k] = known[k]
      BY <1>2, <1>5, <1>7 DEF Typed, KnownTyped
    <3>3. QED BY <3>1, <3>2
  <2>2. cache'.objects[k] = cache.objects[k] /\ store'[k] = store[k]
    BY <1>5, <1>6, <1>7
  <2>3. QED BY <1>5, <2>1, <2>2, FollowUntouched
<1>8. CASE k = c.key
  <2>1. PICK t \in Seq(Objects \cup {Absent}) : t = Pending(k)'
    BY <1>3, <1>8, PendingHandled, Zenon
  <2>2. Pending(k) = Joined(Single(c.value), t)
    BY <1>3, <1>8, <2>1, PendingHandled, Zenon
  <2>3. known'[k] = c.value /\ cache'.objects[k] = c.value
    BY <1>2, <1>5, <1>6, <1>8 DEF Typed, KnownTyped
  <2>4. \A d : Final(Pending(k), d) = Final(t, c.value)
    <3>1. \A d : Final(Joined(Single(c.value), t), d) = Final(t, c.value)
      BY <1>4, FinalLaws
    <3>2. QED BY <2>2, <3>1, Zenon
  <2>5. Follows(k)
    BY DEF FollowInv
  <2>6. KnownLeads(k)'
    BY <1>5, <2>1, <2>3, <2>4, <2>5, Zenon DEF Follows, KnownLeads
  <2>7. AbsenceLeads(k)'
    BY <1>5, <2>1, <2>3, <2>4, <2>5, Zenon DEF Follows, AbsenceLeads
  <2>8. QED BY <2>3, <2>6, <2>7 DEF Follows, CacheKnown
<1>9. QED BY <1>7, <1>8

(* The connection is lost.                                                 *)
LEMMA FollowDisconnect ==
    ASSUME Typed, FollowInv, NEW w \in Watchers, Disconnect(w)
    PROVE  FollowInv'
<1>1. SUFFICES ASSUME NEW k \in PlainKeys PROVE Follows(k)'
  BY Zenon DEF FollowInv
<1>2. k \in Keys /\ k[1] \in Watchers
  BY PlainKey
<1>3. store' = store /\ known' = known /\ cache' = cache /\ (k \notin lost' => k \notin lost)
  BY DEF Disconnect
<1>4. CASE k[1] # w
  <2>1. up'[k[1]] = up[k[1]] /\ Pending(k)' = Pending(k)
    <3>1. up'[k[1]] = up[k[1]]
      BY <1>2, <1>4 DEF Disconnect, Typed, WatchTyped
    <3>2. Pending(k)' = Pending(k)
      BY <1>2, <1>4, PendingDropped, Zenon
    <3>3. QED BY <3>1, <3>2
  <2>2. QED BY <1>3, <2>1, FollowUntouched
<1>5. CASE k[1] = w
  <2>1. PICK t \in Seq(Objects \cup {Absent}) : t = Pending(k)'
    BY <1>2, <1>5, PendingDropped, Zenon
  <2>2. PICK u \in Seq(Objects \cup {Absent}) :
           /\ Pending(k) = Joined(t, u)
           /\ k \notin lost' => \A j \in 1..Len(u) : u[j] # Absent
    BY <1>2, <1>5, <2>1, PendingDropped, Zenon
  <2>3. Follows(k)
    BY DEF FollowInv
  <2>4. KnownLeads(k)'
    BY <1>2, <1>5 DEF KnownLeads, Disconnect, Typed, WatchTyped
  <2>5. CacheKnown(k)'
    <3>1. t # <<>> => t \o u # <<>> /\ (t \o u)[1] = t[1]
      OBVIOUS
    <3>2. t # <<>> => Pending(k) # <<>> /\ Pending(k)[1] = t[1]
      BY <2>2, <3>1, Zenon DEF Joined
    <3>3. QED BY <1>3, <2>1, <2>3, <3>2, Zenon DEF Follows, CacheKnown
  <2>6. ASSUME store[k] = Absent, k \notin lost' PROVE Final(t, cache.objects[k]) = Absent
    <3>1. Final(Joined(t, u), cache.objects[k]) = Absent
      BY <1>3, <2>2, <2>3, <2>6, Zenon DEF Follows, AbsenceLeads
    <3>2. u = <<>>
      <4>1. SUFFICES ASSUME u # <<>> PROVE FALSE
        OBVIOUS
      <4>2. Final(Joined(t, u), cache.objects[k]) = u[Len(u)]
        <5>1. Absent \in Objects \cup {Absent}
          OBVIOUS
        <5>2. QED BY <4>1, <5>1, FinalLaws
      <4>3. Len(u) \in 1..Len(u)
        BY <4>1
      <4>4. QED BY <2>2, <2>6, <3>1, <4>2, <4>3
    <3>3. Joined(t, <<>>) = t
      BY JoinedLaws
    <3>4. QED BY <3>1, <3>2, <3>3
  <2>7. AbsenceLeads(k)'
    BY <1>3, <2>1, <2>6, Zenon DEF AbsenceLeads
  <2>8. QED BY <2>4, <2>5, <2>7 DEF Follows
<1>6. QED BY <1>4, <1>5

(* The gateway is started again.                                           *)
LEMMA FollowRestart ==
    ASSUME Restart
    PROVE  FollowInv'
<1>1. SUFFICES ASSUME NEW k \in PlainKeys PROVE Follows(k)'
  BY Zenon DEF FollowInv
<1>2. k \in Keys /\ k[1] \in Watchers
  BY PlainKey
<1>3. Pending(k)' = <<>>
  BY <1>2, PendingRestarted
<1>4. ~up'[k[1]] /\ known'[k] = Absent /\ cache'.objects[k] = Absent
  BY <1>2 DEF Restart, NewCache
<1>5. QED BY <1>3, <1>4 DEF Follows, KnownLeads, CacheKnown, AbsenceLeads, Final

(* No step breaks it.                                                      *)
LEMMA FollowStep ==
    ASSUME Typed, FollowInv, [Next]_vars
    PROVE  FollowInv'
<1>1. ASSUME UNCHANGED vars PROVE FollowInv'
  <2>1. SUFFICES ASSUME NEW k \in PlainKeys PROVE Follows(k)'
    BY Zenon DEF FollowInv
  <2>2. /\ store' = store /\ up' = up /\ incoming' = incoming /\ batch' = batch
        /\ known' = known /\ cache' = cache /\ lost' = lost
    BY <1>1 DEF vars
  <2>3. Pending(k)' = Pending(k)
    BY <2>2, PendingIs, Zenon
  <2>4. QED BY <2>2, <2>3, FollowUntouched
<1>2. QED
  BY <1>1, FollowPut, FollowDelete, FollowWatchTree, FollowReceive, FollowReact, FollowDisconnect,
     FollowRestart DEF Next, Quiet

(* The types, and that the cache follows the store, hold in every state.   *)
LEMMA FollowInductive == Spec => [](Typed /\ FollowInv)
<1>1. Init => Typed /\ FollowInv
  BY TypedInit, FollowInit
<1>2. Typed /\ FollowInv /\ [Next]_vars => (Typed /\ FollowInv)'
  BY TypedStep, FollowStep
<1>3. QED BY <1>1, <1>2, PTL DEF Spec

(* What the router looks up is current when the watcher has caught up,     *)
(* after any interleaving of writes, batches, lost connections and         *)
(* restarts (watcher.go, cache.go): only a deletion that no connection     *)
(* told about leaves an entry behind.                                      *)
THEOREM CacheIsCurrent == Spec => []LookupCurrent
<1>1. Typed /\ FollowInv => LookupCurrent
  <2>1. SUFFICES ASSUME Typed, FollowInv, NEW k \in DOMAIN cache.objects, CaughtUp(k[1])
                 PROVE  cache.objects[k] = store[k] \/ (store[k] = Absent /\ k \in lost)
    BY DEF LookupCurrent, Lookup
  <2>2. k \in PlainKeys
    BY <2>1 DEF Typed, KnownTyped
  <2>3. Queue(<<>>, <<>>) = <<>>
    <3>1. <<>> \in Seq({})
      OBVIOUS
    <3>2. QED BY <3>1, QueueAlone
  <2>4. Pending(k) = <<>> /\ up[k[1]]
    BY <2>1, <2>3, PendingIs, ToldEmpty, Zenon DEF CaughtUp
  <2>5. Follows(k)
    BY <2>1, <2>2 DEF FollowInv
  <2>6. known[k] = store[k]
    BY <2>4, <2>5 DEF Follows, KnownLeads, Final
  <2>7. cache.objects[k] = known[k] \/ known[k] = Absent
    BY <2>5 DEF Follows, CacheKnown
  <2>8. store[k] = Absent /\ k \notin lost => cache.objects[k] = Absent
    BY <2>4, <2>5 DEF Follows, AbsenceLeads, Final
  <2>9. QED BY <2>6, <2>7, <2>8
<1>2. QED BY <1>1, FollowInductive, PTL

-----------------------------------------------------------------------------
(***************************************************************************)
(* The refinement of EventualCache.                                        *)
(***************************************************************************)
MStore == Restrict(store, PlainKeys)
MUp == Restrict(up, Watchers \cap Plain)
MPending == [k \in PlainKeys |-> Pending(k)]

Allowed == [Eventual!Next]_(Eventual!vars)

(* A step that the router cannot see.                                      *)
LEMMA Unseen ==
    ASSUME \A k \in PlainKeys : store'[k] = store[k] /\ Pending(k)' = Pending(k),
           \A w \in Watchers \cap Plain : up'[w] = up[w],
           cache'.objects = cache.objects
    PROVE  Allowed
<1>1. MStore' = MStore
  BY DEF MStore, Restrict
<1>2. MUp' = MUp
  BY DEF MUp, Restrict
<1>3. MPending' = MPending
  BY Zenon DEF MPending
<1>4. Eventual!vars' = Eventual!vars
  BY <1>1, <1>2, <1>3, Zenon DEF Eventual!vars, MStore, MUp, MPending
<1>5. QED BY <1>4, Zenon DEF Allowed

(* Writes and deletions of any gateway.                                    *)
LEMMA WriteAllowed ==
    ASSUME Typed, NEW x \in Keys, NEW v \in Objects \cup {Absent}, NEW w \in Watchers, w = x[1],
           NEW c \in ChangesOf(w), c = [key |-> x, value |-> v], Tell(w, c),
           store' = [store EXCEPT ![x] = v], UNCHANGED <<up, batch, cache>>
    PROVE  Allowed
<1>1. \A k \in Keys : Pending(k)' = IF k = x /\ up[w] THEN Append(Pending(k), v) ELSE Pending(k)
  <2>1. c.key = x /\ c.value = v
    OBVIOUS
  <2>2. \A k \in Keys : Pending(k)' = IF k = c.key /\ up[w] THEN Append(Pending(k), c.value) ELSE Pending(k)
    BY PendingTold DEF Typed
  <2>3. QED BY <2>1, <2>2, Zenon
<1>2. \A k \in PlainKeys : k \in Keys /\ k[1] \in Watchers \cap Plain
  BY PlainKey
<1>3. \A k \in Keys : store'[k] = IF k = x THEN v ELSE store[k]
  BY DEF Typed, StoreTyped
<1>4. CASE x \notin PlainKeys
  <2>1. \A k \in PlainKeys : store'[k] = store[k] /\ Pending(k)' = Pending(k)
    BY <1>1, <1>2, <1>3, <1>4, Zenon
  <2>2. up' = up /\ cache' = cache
    OBVIOUS
  <2>3. QED BY <2>1, <2>2, Unseen
<1>5. CASE x \in PlainKeys
  <2>1. MStore' = [MStore EXCEPT ![x] = v]
    BY <1>2, <1>3, <1>5 DEF MStore, Restrict
  <2>2. MPending' = IF up[w] THEN [MPending EXCEPT ![x] = Append(@, v)] ELSE MPending
    <3>1. MPending' = [k \in PlainKeys |-> IF k = x /\ up[w] THEN Append(Pending(k), v) ELSE Pending(k)]
      BY <1>1, <1>2, Zenon DEF MPending
    <3>2. CASE up[w]
      <4>1. MPending[x] = Pending(x)
        BY <1>5, Zenon DEF MPending
      <4>2. MPending' = [MPending EXCEPT ![x] = Append(Pending(x), v)]
        BY <1>5, <3>1, <3>2 DEF MPending
      <4>3. QED BY <3>2, <4>1, <4>2
    <3>3. CASE ~up[w]
      BY <3>1, <3>3 DEF MPending
    <3>4. QED BY <3>2, <3>3
  <2>3. MUp' = MUp /\ cache'.objects = cache.objects
    BY DEF MUp, Restrict
  <2>4. MUp[[k \in PlainKeys |-> k[1]][x]] = up[w]
    BY <1>2, <1>5 DEF MUp, Restrict
  <2>5. Eventual!Write(x, v)
    BY <2>1, <2>2, <2>3, <2>4, Zenon DEF Eventual!Write, MStore, MUp, MPending
  <2>6. QED BY <1>5, <2>5, Zenon DEF Eventual!Next, Allowed
<1>6. QED BY <1>4, <1>5

(* New connections.                                                        *)
LEMMA WatchTreeAllowed ==
    ASSUME Typed, NEW w \in Watchers, WatchTree(w)
    PROVE  Allowed
<1>1. \A k \in PlainKeys : k \in Keys /\ k[1] \in Watchers \cap Plain
  BY PlainKey
<1>2. \A k \in Keys :
         /\ k[1] = w => Pending(k) = <<>>
         /\ Pending(k)' = IF k[1] # w THEN Pending(k)
                          ELSE IF store[k] # Absent THEN Single(store[k]) ELSE <<>>
  BY PendingListed
<1>3. store' = store /\ cache' = cache /\ ~up[w] /\ up' = [up EXCEPT ![w] = TRUE]
  BY DEF WatchTree
<1>4. DOMAIN up = Watchers
  BY DEF Typed, WatchTyped
<1>5. CASE w \notin Plain
  <2>1. \A k \in PlainKeys : k[1] # w
    BY <1>1, <1>5
  <2>2. \A k \in PlainKeys : store'[k] = store[k] /\ Pending(k)' = Pending(k)
    BY <1>1, <1>2, <1>3, <2>1, Zenon
  <2>3. \A v \in Watchers \cap Plain : up'[v] = up[v]
    BY <1>3, <1>4, <1>5
  <2>4. QED BY <1>3, <2>2, <2>3, Unseen
<1>6. CASE w \in Plain
  <2>1. MUp' = [MUp EXCEPT ![w] = TRUE] /\ ~MUp[w]
    BY <1>3, <1>4, <1>6 DEF MUp, Restrict
  <2>2. MStore' = MStore /\ cache'.objects = cache.objects /\ \A k \in PlainKeys : MStore[k] = store[k]
    BY <1>3 DEF MStore, Restrict
  <2>3. \A k \in PlainKeys : k \in Eventual!Followed(w) <=> k[1] = w
    BY Zenon DEF Eventual!Followed
  <2>4. Eventual!Followed(w) \subseteq PlainKeys
    BY Zenon DEF Eventual!Followed
  <2>5. \A k \in PlainKeys : MPending[k] = Pending(k)
    BY Zenon DEF MPending
  <2>6. \A k \in Eventual!Followed(w) : MPending[k] = <<>>
    BY <1>1, <1>2, <2>3, <2>4, <2>5, Zenon
  <2>7. MPending' = [k \in PlainKeys |-> IF k \in Eventual!Followed(w) /\ MStore[k] # Absent
                                         THEN <<MStore[k]>> ELSE MPending[k]]
    <3>1. \A k \in PlainKeys :
             Pending(k)' = IF k \in Eventual!Followed(w) /\ MStore[k] # Absent
                           THEN <<MStore[k]>> ELSE MPending[k]
      BY <1>1, <1>2, <2>2, <2>3, <2>5, Zenon DEF Single
    <3>2. QED BY <3>1, Zenon DEF MPending
  <2>8. Eventual!Connect(w)
    BY <2>1, <2>2, <2>6, <2>7, Zenon DEF Eventual!Connect, MStore, MUp, MPending
  <2>9. w \in Watchers \cap Plain
    BY <1>6
  <2>10. QED BY <2>8, <2>9, Zenon DEF Eventual!Next, Allowed
<1>7. QED BY <1>5, <1>6

(* Batches.                                                                *)
LEMMA ReceiveAllowed ==
    ASSUME Typed, NEW w \in Watchers, Receive(w)
    PROVE  Allowed
<1>1. \A k \in PlainKeys : Pending(k)' = Pending(k)
  BY PendingReceived, PlainKey DEF Typed
<1>2. store' = store /\ up' = up /\ cache' = cache
  BY DEF Receive
<1>3. QED BY <1>1, <1>2, Unseen

(* Changes that are handled.                                               *)
LEMMA ReactAllowed ==
    ASSUME Typed, FollowInv, NEW w \in Watchers, React(w)
    PROVE  Allowed
<1>1. PICK c : c = Head(batch[w])
  OBVIOUS
<1>2. \A k \in PlainKeys : k \in Keys
  BY PlainKey
<1>3. \A k \in PlainKeys : cache'.objects[k] = IF k = c.key THEN c.value ELSE cache.objects[k]
  BY <1>1, ReactObjects
<1>4. store' = store /\ up' = up
  BY DEF React
<1>5. /\ \A k \in Keys : k # c.key => Pending(k)' = Pending(k)
      /\ Pending(c.key)' \in Seq(Objects \cup {Absent})
      /\ Pending(c.key) = Joined(Single(c.value), Pending(c.key)')
  BY <1>1, PendingHandled, Zenon
<1>6. cache.objects \in [PlainKeys -> Objects \cup {Absent}] /\ cache'.objects \in [PlainKeys -> Objects \cup {Absent}]
  BY ReactTyped DEF Typed, KnownTyped
<1>7. CASE c.key \notin PlainKeys
  <2>1. cache'.objects = cache.objects
    BY <1>3, <1>6, <1>7
  <2>2. \A k \in PlainKeys : Pending(k)' = Pending(k)
    BY <1>2, <1>5, <1>7, Zenon
  <2>3. QED BY <1>4, <2>1, <2>2, Unseen
<1>8. CASE c.key \in PlainKeys
  <2>1. PICK x \in PlainKeys : x = c.key
    BY <1>8
  <2>2. MPending[x] = Pending(x)
    BY Zenon DEF MPending
  <2>3. PICK t \in Seq(Objects \cup {Absent}) : t = Pending(x)'
    BY <1>5, <2>1, Zenon
  <2>4. Pending(x) # <<>> /\ Head(Pending(x)) = c.value /\ Tail(Pending(x)) = t
    <3>1. \A v : <<v>> \o t # <<>> /\ Head(<<v>> \o t) = v /\ Tail(<<v>> \o t) = t
      OBVIOUS
    <3>2. QED BY <1>5, <2>1, <2>3, <3>1, Zenon DEF Joined, Single
  <2>5. MPending' = [MPending EXCEPT ![x] = Tail(@)]
    <3>1. MPending' = [k \in PlainKeys |-> IF k = x THEN t ELSE Pending(k)]
      BY <1>2, <1>5, <2>1, <2>3, Zenon DEF MPending
    <3>2. MPending' = [MPending EXCEPT ![x] = t]
      BY <3>1 DEF MPending
    <3>3. QED BY <2>2, <2>4, <3>2
  <2>6. cache'.objects = [cache.objects EXCEPT ![x] = Head(MPending[x])]
    BY <1>3, <1>6, <2>1, <2>2, <2>4
  <2>7. MStore' = MStore /\ MUp' = MUp /\ MPending[x] # <<>>
    BY <1>4, <2>2, <2>4 DEF MStore, MUp, Restrict
  <2>8. Eventual!Show(x)
    BY <2>5, <2>6, <2>7, Zenon DEF Eventual!Show, MStore, MUp, MPending
  <2>9. QED BY <2>8, Zenon DEF Eventual!Next, Allowed
<1>9. QED BY <1>7, <1>8

(* Lost connections.                                                       *)
LEMMA DisconnectAllowed ==
    ASSUME Typed, NEW w \in Watchers, Disconnect(w)
    PROVE  Allowed
<1>1. \A k \in PlainKeys : k \in Keys /\ k[1] \in Watchers \cap Plain
  BY PlainKey
<1>2. store' = store /\ cache' = cache /\ up[w] /\ up' = [up EXCEPT ![w] = FALSE] /\ DOMAIN up = Watchers
  BY DEF Disconnect, Typed, WatchTyped
<1>3. \A k \in Keys : k[1] # w => Pending(k)' = Pending(k)
  BY PendingDropped, Zenon
<1>4. CASE w \notin Plain
  <2>1. \A k \in PlainKeys : k[1] # w
    BY <1>1, <1>4
  <2>2. \A k \in PlainKeys : store'[k] = store[k] /\ Pending(k)' = Pending(k)
    BY <1>1, <1>2, <1>3, <2>1, Zenon
  <2>3. \A v \in Watchers \cap Plain : up'[v] = up[v]
    BY <1>2, <1>4
  <2>4. QED BY <1>2, <2>2, <2>3, Unseen
<1>5. CASE w \in Plain
  <2>1. MUp' = [MUp EXCEPT ![w] = FALSE] /\ MUp[w]
    BY <1>2, <1>5 DEF MUp, Restrict
  <2>2. MStore' = MStore /\ cache'.objects = cache.objects
    BY <1>2 DEF MStore, Restrict
  <2>3. \A k \in PlainKeys : k \in Eventual!Followed(w) <=> k[1] = w
    BY Zenon DEF Eventual!Followed
  <2>4. Eventual!Followed(w) \subseteq PlainKeys
    BY Zenon DEF Eventual!Followed
  <2>5. \A k \in PlainKeys : MPending[k] = Pending(k) /\ MPending'[k] = Pending(k)'
    BY Zenon DEF MPending
  <2>6. DOMAIN MPending' = PlainKeys
    BY Zenon DEF MPending
  <2>7. \A k \in PlainKeys \ Eventual!Followed(w) : MPending'[k] = MPending[k]
    BY <1>1, <1>3, <2>3, <2>5, Zenon
  <2>8. \A k \in Eventual!Followed(w) :
           \E n \in 0..Len(MPending[k]) : MPending'[k] = SubSeq(MPending[k], 1, n)
    <3>1. SUFFICES ASSUME NEW k \in PlainKeys, k[1] = w
                   PROVE  \E n \in 0..Len(Pending(k)) : Pending(k)' = SubSeq(Pending(k), 1, n)
      BY <2>3, <2>4, <2>5, Zenon
    <3>2. PICK t \in Seq(Objects \cup {Absent}) : t = Pending(k)'
      BY <1>1, <3>1, PendingDropped, Zenon
    <3>3. PICK u \in Seq(Objects \cup {Absent}) : Pending(k) = Joined(t, u)
      BY <1>1, <3>1, <3>2, PendingDropped, Zenon
    <3>4. Len(t) \in 0..Len(Joined(t, u)) /\ t = SubSeq(Joined(t, u), 1, Len(t))
      BY JoinedPrefix
    <3>5. QED BY <3>2, <3>3, <3>4, Zenon
  <2>9. Eventual!Disconnect(w)
    BY <2>1, <2>2, <2>6, <2>7, <2>8, Zenon DEF Eventual!Disconnect, MStore, MUp, MPending
  <2>10. w \in Watchers \cap Plain
    BY <1>5
  <2>11. QED BY <2>9, <2>10, Zenon DEF Eventual!Next, Allowed
<1>6. QED BY <1>4, <1>5

(* Restarts.                                                               *)
LEMMA RestartAllowed ==
    ASSUME Restart
    PROVE  Allowed
<1>1. MStore' = MStore
  BY DEF Restart, MStore, Restrict
<1>2. MUp' = [w \in Watchers \cap Plain |-> FALSE]
  BY DEF Restart, MUp, Restrict
<1>3. \A k \in PlainKeys : Pending(k)' = <<>>
  BY PlainKey, PendingRestarted
<1>4. MPending' = [k \in PlainKeys |-> <<>>]
  BY <1>3, Zenon DEF MPending
<1>5. cache'.objects = [k \in PlainKeys |-> Absent]
  BY DEF Restart, NewCache
<1>6. Eventual!Restart
  BY <1>1, <1>2, <1>4, <1>5, Zenon DEF Eventual!Restart, MStore, MUp, MPending
<1>7. QED BY <1>6, Zenon DEF Eventual!Next, Allowed

(* Every step is one of EventualCache, or unseen.                          *)
LEMMA StepAllowed ==
    ASSUME Typed, FollowInv, [Next]_vars
    PROVE  Allowed
<1>1. ASSUME NEW o \in Objects, Put(o) PROVE Allowed
  <2>1. PICK c : c = [key |-> Key(o), value |-> o]
    OBVIOUS
  <2>2. PICK x \in Keys : x = Key(o)
    BY KeyKind
  <2>3. PICK w \in Watchers : w = o.kind /\ w = x[1] /\ c \in ChangesOf(w)
    BY <2>1, <2>2, ChangeTyped, KeyKind, Zenon
  <2>4. Tell(w, c) /\ store' = [store EXCEPT ![x] = o] /\ UNCHANGED <<up, batch, cache>>
    BY <1>1, <2>1, <2>2, <2>3 DEF Put
  <2>5. QED BY <2>1, <2>2, <2>3, <2>4, WriteAllowed
<1>2. ASSUME NEW x \in Keys, Delete(x) PROVE Allowed
  <2>1. PICK c : c = [key |-> x, value |-> Absent]
    OBVIOUS
  <2>2. PICK w \in Watchers : w = x[1] /\ c \in ChangesOf(w)
    BY <2>1, ChangeTyped, KeyWatcher, Zenon
  <2>3. Tell(w, c) /\ store' = [store EXCEPT ![x] = Absent] /\ UNCHANGED <<up, batch, cache>>
    BY <1>2, <2>1, <2>2 DEF Delete
  <2>4. QED BY <2>1, <2>2, <2>3, WriteAllowed
<1>3. ASSUME UNCHANGED vars PROVE Allowed
  <2>1. /\ store' = store /\ up' = up /\ incoming' = incoming /\ batch' = batch /\ cache' = cache
    BY <1>3 DEF vars
  <2>2. \A k \in PlainKeys : Pending(k)' = Pending(k)
    BY <2>1, PendingIs, Zenon
  <2>3. QED BY <2>1, <2>2, Unseen
<1>4. QED
  BY <1>1, <1>2, <1>3, WatchTreeAllowed, ReceiveAllowed, ReactAllowed, DisconnectAllowed,
     RestartAllowed DEF Next, Quiet

(* What the router looks up follows the writes of all gateways in their    *)
(* order, whatever the batches, connections and restarts are: the cache of *)
(* functions and event types (watcher.go, cache.go) implements             *)
(* EventualCache.                                                          *)
THEOREM CacheImplementsEventual == Spec => FollowsStore
<1>1. Init => Eventual!Init
  <2>1. SUFFICES ASSUME Init PROVE Eventual!Init
    OBVIOUS
  <2>2. \A k \in PlainKeys : k \in Keys /\ Pending(k) = <<>>
    BY <2>1, PlainKey, PendingNone
  <2>3. MStore = [k \in PlainKeys |-> Absent] /\ MUp = [w \in Watchers \cap Plain |-> FALSE]
    BY <2>1, <2>2 DEF Init, MStore, MUp, Restrict
  <2>4. MPending = [k \in PlainKeys |-> <<>>]
    BY <2>2, Zenon DEF MPending
  <2>5. cache.objects = [k \in PlainKeys |-> Absent]
    BY <2>1 DEF Init, NewCache
  <2>6. QED BY <2>3, <2>4, <2>5, Zenon DEF Eventual!Init, MStore, MUp, MPending
<1>2. Typed /\ FollowInv /\ [Next]_vars => [Eventual!Next]_(Eventual!vars)
  BY StepAllowed DEF Allowed
<1>3. QED BY <1>1, <1>2, FollowInductive, PTL DEF Spec, FollowsStore, Eventual!Spec

-----------------------------------------------------------------------------
(***************************************************************************)
(* The trees of the cache, and the histories.                              *)
(***************************************************************************)

(* No node is without its parent.                                          *)
Closed(t) ==
    /\ <<>> \in DOMAIN t /\ DOMAIN t \subseteq Seq(Segments)
    /\ \A m \in DOMAIN t : m # <<>> => Front(m) \in DOMAIN t

TreesTyped ==
    /\ DOMAIN cache.trees \subseteq TreeSlots
    /\ \A s \in DOMAIN cache.trees : Closed(cache.trees[s])

HistoryTyped ==
    /\ panicked \in BOOLEAN
    /\ past \subseteq Objects
    /\ lost \cup resent \cup replaced \subseteq Keys

(* AddRoute leaves no gap, also when it fails half way.                    *)
LEMMA AddClosed ==
    ASSUME NEW t, Closed(t), NEW s \in Seq(Segments), NEW v
    PROVE  Closed(AddRoute(t, s, v))
<1>1. PICK u : u = AddRoute(t, s, v)
  OBVIOUS
<1>2. DOMAIN u = DOMAIN t \cup Walked(t, s)
  BY <1>1 DEF AddRoute
<1>3. ASSUME NEW m \in Walked(t, s) PROVE m \in Seq(Segments) /\ Front(m) \in DOMAIN u
  <2>1. PICK i \in 1..Len(s) : m = SubSeq(s, 1, i) /\ \A k \in 1..i : ~Blocked(t, s, k)
    BY DEF Walked
  <2>2. m \in Seq(Segments) /\ Len(m) = i /\ SubSeq(m, 1, i - 1) = SubSeq(s, 1, i - 1)
    BY <2>1
  <2>3. Front(m) = SubSeq(s, 1, i - 1)
    BY <2>2 DEF Front
  <2>4. CASE i = 1
    <3>1. SubSeq(s, 1, 0) = <<>>
      OBVIOUS
    <3>2. Front(m) = <<>>
      BY <2>3, <2>4, <3>1
    <3>3. QED BY <1>2, <2>2, <3>2 DEF Closed
  <2>5. CASE i # 1
    <3>1. i - 1 \in 1..Len(s) /\ \A k \in 1..(i - 1) : ~Blocked(t, s, k)
      BY <2>1, <2>5
    <3>2. SubSeq(s, 1, i - 1) \in Walked(t, s)
      BY <3>1 DEF Walked
    <3>3. QED BY <1>2, <2>2, <2>3, <3>2
  <2>6. QED BY <2>4, <2>5
<1>4. QED BY <1>1, <1>2, <1>3 DEF Closed

(* DeleteRoute removes a node without children, or none.                   *)
LEMMA DeleteClosed ==
    ASSUME NEW t, Closed(t), NEW s \in Seq(Segments)
    PROVE  Closed(DeleteRoute(t, s))
<1>1. CASE s \in DOMAIN t /\ s # <<>> /\ Kids(t, s) = {}
  <2>1. DOMAIN DeleteRoute(t, s) = DOMAIN t \ {s}
    BY <1>1 DEF DeleteRoute
  <2>2. ASSUME NEW m \in DOMAIN t, m # <<>> PROVE Front(m) # s
    <3>1. m \in Seq(Segments)
      BY DEF Closed
    <3>2. m[Len(m)] \in Segments /\ m = Append(SubSeq(m, 1, Len(m) - 1), m[Len(m)])
      BY <2>2, <3>1
    <3>3. QED BY <1>1, <3>2 DEF Front, Kids
  <2>3. QED BY <1>1, <2>1, <2>2 DEF Closed
<1>2. CASE ~(s \in DOMAIN t /\ s # <<>> /\ Kids(t, s) = {})
  <2>1. DOMAIN DeleteRoute(t, s) = DOMAIN t
    BY <1>2 DEF DeleteRoute
  <2>2. QED BY <2>1 DEF Closed
<1>3. QED BY <1>1, <1>2

(* What Modified and Deleted do to the trees.                              *)
LEMMA ModifiedTrees ==
    ASSUME NEW c, DOMAIN c = CacheFields, NEW o \in Objects
    PROVE  Modified(c, o).trees =
              IF Routed(o)
              THEN [s \in DOMAIN c.trees \cup {Slot(o)} |->
                      IF s = Slot(o) THEN AddRoute(Root(c, Slot(o)), o.path, Value(o)) ELSE c.trees[s]]
              ELSE c.trees
<1>1. CASE o.kind \in Plain
  <2>1. ~Routed(o) /\ Modified(c, o) = ObjectModified(c, o)
    BY <1>1 DEF Modified, IsAsync, Routed, Plain
  <2>2. QED BY <2>1 DEF ObjectModified, CacheFields
<1>2. CASE o.kind \notin Plain /\ IsAsync(o)
  <2>1. ~Routed(o) /\ Modified(c, o) = AsyncModified(c, o)
    BY <1>2 DEF Modified, Routed
  <2>2. QED BY <2>1 DEF AsyncModified, CacheFields
<1>3. CASE o.kind \notin Plain /\ ~IsAsync(o)
  <2>1. Routed(o) /\ Modified(c, o) = RouteModified(c, o)
    BY <1>3 DEF Modified, Routed
  <2>2. QED BY <2>1 DEF RouteModified, Planted, CacheFields
<1>4. QED BY <1>1, <1>2, <1>3

(* The same of Deleted.                                                    *)
LEMMA DeletedTrees ==
    ASSUME NEW c, DOMAIN c = CacheFields, NEW o \in Objects
    PROVE  Deleted(c, o).trees =
              IF Routed(o) /\ Slot(o) \in DOMAIN c.trees
              THEN [c.trees EXCEPT ![Slot(o)] = DeleteRoute(c.trees[Slot(o)], o.path)]
              ELSE c.trees
<1>1. CASE o.kind \in Plain
  <2>1. ~Routed(o) /\ Deleted(c, o) = ObjectDeleted(c, o)
    BY <1>1 DEF Deleted, IsAsync, Routed, Plain
  <2>2. QED BY <2>1 DEF ObjectDeleted, CacheFields
<1>2. CASE o.kind \notin Plain /\ IsAsync(o)
  <2>1. ~Routed(o) /\ Deleted(c, o) = AsyncDeleted(c, o)
    BY <1>2 DEF Deleted, Routed
  <2>2. QED BY <2>1 DEF AsyncDeleted, CacheFields
<1>3. CASE o.kind \notin Plain /\ ~IsAsync(o)
  <2>1. Routed(o) /\ Deleted(c, o) = RouteDeleted(c, o)
    BY <1>3 DEF Deleted, Routed
  <2>2. QED BY <2>1 DEF RouteDeleted, CacheFields
<1>4. QED BY <1>1, <1>2, <1>3

(* A routed object has a slot and a path of segments.                      *)
LEMMA RoutedSlot ==
    ASSUME NEW o \in Objects, Routed(o)
    PROVE  Slot(o) \in TreeSlots /\ o.path \in Seq(Segments)
BY ObjectsAssumption DEF TreeSlots

(* Handling a change keeps the trees closed.                               *)
LEMMA ReactTrees ==
    ASSUME Typed, TreesTyped, NEW w \in Watchers, React(w)
    PROVE  TreesTyped'
<1>1. PICK c : c = Head(batch[w])
  OBVIOUS
<1>2. c.key \in Keys /\ c.value \in Objects \cup {Absent}
  BY <1>1, HandledTyped DEF React
<1>3. \/ cache' = cache
      \/ c.value # Absent /\ cache' = Modified(cache, c.value)
      \/ known[c.key] # Absent /\ cache' = Deleted(cache, known[c.key])
  BY <1>1 DEF React
<1>4. DOMAIN cache = CacheFields
  BY DEF Typed, KnownTyped
<1>5. CASE cache' = cache
  BY <1>5 DEF TreesTyped
<1>6. CASE c.value # Absent /\ cache' = Modified(cache, c.value)
  <2>1. PICK o \in Objects : o = c.value
    BY <1>2, <1>6
  <2>2. cache'.trees =
           IF Routed(o)
           THEN [s \in DOMAIN cache.trees \cup {Slot(o)} |->
                   IF s = Slot(o) THEN AddRoute(Root(cache, Slot(o)), o.path, Value(o)) ELSE cache.trees[s]]
           ELSE cache.trees
    BY <1>4, <1>6, <2>1, ModifiedTrees
  <2>3. ASSUME Routed(o) PROVE Closed(AddRoute(Root(cache, Slot(o)), o.path, Value(o)))
    <3>1. Slot(o) \in TreeSlots /\ o.path \in Seq(Segments)
      BY <2>3, RoutedSlot
    <3>2. Closed(NewNode)
      <4>1. <<>> \in Seq(Segments)
        OBVIOUS
      <4>2. QED BY <4>1 DEF NewNode, Closed
    <3>3. Closed(Root(cache, Slot(o)))
      BY <3>1, <3>2, Zenon DEF Root, TreesTyped
    <3>4. QED BY <3>1, <3>3, AddClosed
  <2>4. Routed(o) => Slot(o) \in TreeSlots
    BY RoutedSlot
  <2>5. QED BY <2>2, <2>3, <2>4 DEF TreesTyped
<1>7. CASE known[c.key] # Absent /\ cache' = Deleted(cache, known[c.key])
  <2>1. PICK o \in Objects : o = known[c.key]
    BY <1>2, <1>7 DEF Typed, KnownTyped
  <2>2. cache'.trees = IF Routed(o) /\ Slot(o) \in DOMAIN cache.trees
                       THEN [cache.trees EXCEPT ![Slot(o)] = DeleteRoute(cache.trees[Slot(o)], o.path)]
                       ELSE cache.trees
    BY <1>4, <1>7, <2>1, DeletedTrees
  <2>3. ASSUME Routed(o), Slot(o) \in DOMAIN cache.trees
        PROVE  Closed(DeleteRoute(cache.trees[Slot(o)], o.path))
    <3>1. Slot(o) \in TreeSlots /\ o.path \in Seq(Segments)
      BY <2>3, RoutedSlot
    <3>2. Closed(cache.trees[Slot(o)])
      BY <2>3, <3>1, Zenon DEF TreesTyped
    <3>3. QED BY <3>1, <3>2, DeleteClosed
  <2>4. QED BY <2>2, <2>3 DEF TreesTyped
<1>8. QED BY <1>3, <1>5, <1>6, <1>7

(* No step leaves these types.                                             *)
LEMMA TreesStep ==
    ASSUME Typed, TreesTyped, [Next]_vars
    PROVE  TreesTyped'
<1>1. ASSUME cache' = cache PROVE TreesTyped'
  BY <1>1 DEF TreesTyped
<1>2. ASSUME Restart PROVE TreesTyped'
  BY <1>2 DEF Restart, NewCache, TreesTyped
<1>3. ASSUME NEW o \in Objects, Put(o) PROVE cache' = cache
  BY <1>3 DEF Put
<1>4. ASSUME NEW k \in Keys, Delete(k) PROVE cache' = cache
  BY <1>4 DEF Delete
<1>5. ASSUME NEW w \in Watchers, WatchTree(w) \/ Receive(w) \/ Disconnect(w) PROVE cache' = cache
  BY <1>5 DEF WatchTree, Receive, Disconnect
<1>6. ASSUME UNCHANGED vars PROVE cache' = cache
  BY <1>6 DEF vars
<1>7. QED BY <1>1, <1>2, <1>3, <1>4, <1>5, <1>6, ReactTrees DEF Next, Quiet

(* No step leaves the types of the histories.                              *)
LEMMA HistoryStep ==
    ASSUME Typed, HistoryTyped, [Next]_vars
    PROVE  HistoryTyped'
<1>1. ASSUME NEW o \in Objects, Put(o) PROVE HistoryTyped'
  <2>1. Key(o) \in Keys
    BY KeyKind
  <2>2. /\ panicked' = panicked /\ lost' = lost /\ resent' \subseteq resent \cup {Key(o)}
        /\ past' \subseteq past \cup {o} /\ replaced' \subseteq replaced \cup {Key(o)}
    BY <1>1 DEF Put
  <2>3. QED BY <2>1, <2>2 DEF HistoryTyped
<1>2. ASSUME NEW k \in Keys, Delete(k) PROVE HistoryTyped'
  <2>1. /\ panicked' = panicked /\ resent' = resent /\ lost' \subseteq lost \cup {k}
        /\ past' = past /\ replaced' = replaced
    BY <1>2 DEF Delete
  <2>2. QED BY <2>1 DEF HistoryTyped
<1>3. ASSUME NEW w \in Watchers, WatchTree(w) PROVE HistoryTyped'
  <2>1. /\ panicked' = panicked /\ lost' = lost /\ resent' \subseteq resent \cup KeysOf(w)
        /\ past' = past /\ replaced' = replaced
    BY <1>3 DEF WatchTree
  <2>2. QED BY <2>1 DEF HistoryTyped, KeysOf
<1>4. ASSUME NEW w \in Watchers, Receive(w) PROVE HistoryTyped'
  BY <1>4 DEF Receive, HistoryTyped
<1>5. ASSUME NEW w \in Watchers, React(w) PROVE HistoryTyped'
  <2>1. lost' = lost /\ resent' = resent /\ past' = past /\ replaced' = replaced
    BY <1>5 DEF React
  <2>2. panicked' = panicked \/ panicked' = TRUE
    BY <1>5, Zenon DEF React
  <2>3. panicked' \in BOOLEAN
    BY <2>2, Zenon DEF HistoryTyped
  <2>4. QED BY <2>1, <2>3 DEF HistoryTyped
<1>6. ASSUME NEW w \in Watchers, Disconnect(w) PROVE HistoryTyped'
  <2>1. panicked' = panicked /\ resent' = resent /\ past' = past /\ replaced' = replaced
    BY <1>6 DEF Disconnect
  <2>2. FlattenSeq(incoming[w]) \in Seq(ChangesOf(w))
    <3>1. batch[w] \in Seq(ChangesOf(w)) /\ incoming[w] \in Seq(Seq(ChangesOf(w)))
      BY Zenon DEF Typed, WatchTyped
    <3>2. QED BY <3>1, QueueTyped, Zenon
  <2>3. PICK f \in Seq(ChangesOf(w)) : f = FlattenSeq(incoming[w])
    BY <2>2, Zenon
  <2>4. \A x \in ToSet(f) : x.key \in Keys
    BY DEF ToSet, ChangesOf, Changes
  <2>5. lost' = lost \cup {c.key : c \in {x \in ToSet(f) : x.value = Absent}}
    BY <1>6, <2>3 DEF Disconnect
  <2>6. QED BY <2>1, <2>4, <2>5 DEF HistoryTyped
<1>7. ASSUME Restart PROVE HistoryTyped'
  BY <1>7 DEF Restart, HistoryTyped
<1>8. ASSUME UNCHANGED vars PROVE HistoryTyped'
  BY <1>8 DEF vars, HistoryTyped
<1>9. QED BY <1>1, <1>2, <1>3, <1>4, <1>5, <1>6, <1>7, <1>8 DEF Next, Quiet

(* The caches hold what they should: processEvents knows objects under     *)
(* their own keys, watchers are told changes of their own keys, and no     *)
(* node of a tree is ever without its parent, also after failed AddRoute   *)
(* calls and deletions (target.go, watcher.go, pathtree/tree.go).          *)
THEOREM CacheTyped == Spec => []TypeOK
<1>1. Init => TreesTyped /\ HistoryTyped
  <2>1. SUFFICES ASSUME Init PROVE TreesTyped /\ HistoryTyped
    OBVIOUS
  <2>2. TreesTyped
    BY <2>1 DEF Init, NewCache, TreesTyped
  <2>3. HistoryTyped
    BY <2>1 DEF Init, HistoryTyped
  <2>4. QED BY <2>2, <2>3
<1>2. Typed /\ TreesTyped /\ HistoryTyped /\ [Next]_vars => (TreesTyped /\ HistoryTyped)'
  BY TreesStep, HistoryStep
<1>3. Typed /\ TreesTyped /\ HistoryTyped => TypeOK
  <2>1. SUFFICES ASSUME Typed, TreesTyped, HistoryTyped PROVE TypeOK
    OBVIOUS
  <2>2. ASSUME NEW w \in Watchers
        PROVE  ToSet(batch[w]) \cup ToSet(FlattenSeq(incoming[w])) \subseteq Changes
    <3>1. batch[w] \in Seq(ChangesOf(w)) /\ incoming[w] \in Seq(Seq(ChangesOf(w)))
      BY <2>1, Zenon DEF Typed, WatchTyped
    <3>2. FlattenSeq(incoming[w]) \in Seq(ChangesOf(w))
      BY <3>1, QueueTyped, Zenon
    <3>3. \A q \in Seq(ChangesOf(w)) : ToSet(q) \subseteq Changes
      BY DEF ToSet, ChangesOf
    <3>4. QED BY <3>1, <3>2, <3>3, Zenon
  <2>3. \A k \in Keys : known[k] # Absent => known[k] \in Objects /\ Key(known[k]) = k
    BY <2>1 DEF Typed, KnownTyped
  <2>4. /\ DOMAIN cache.trees \subseteq TreeSlots
        /\ \A s \in DOMAIN cache.trees : \A m \in DOMAIN cache.trees[s] :
              m # <<>> => Front(m) \in DOMAIN cache.trees[s]
    BY <2>1, Zenon DEF TreesTyped, Closed
  <2>5. store \in [Keys -> Objects \cup {Absent}] /\ up \in [Watchers -> BOOLEAN]
    BY <2>1 DEF Typed, StoreTyped, WatchTyped
  <2>6. panicked \in BOOLEAN /\ past \subseteq Objects /\ lost \cup resent \cup replaced \subseteq Keys
    BY <2>1 DEF HistoryTyped
  <2>7. QED BY <2>2, <2>3, <2>4, <2>5, <2>6, Zenon DEF TypeOK
<1>4. QED BY <1>1, <1>2, <1>3, FollowInductive, PTL DEF Spec

-----------------------------------------------------------------------------
(***************************************************************************)
(* What the trees hold, for any sequence of changes.                       *)
(***************************************************************************)

(* An object has a path that goes on after the node m.                     *)
Below(m, s) ==
    \E x \in Objects : /\ Routed(x) /\ Slot(x) = s
                       /\ Len(m) < Len(x.path) /\ m = SubSeq(x.path, 1, Len(m))

(* Every node is on the way to a path that an object may have.  A wildcard *)
(* has no children; it is the end of a route, or was left by a path that   *)
(* goes on after it and was refused.                                       *)
Grown(t, s) ==
    /\ Closed(t)
    /\ \A m \in DOMAIN t : m # <<>> =>
          \E x \in Objects : /\ Routed(x) /\ Slot(x) = s
                             /\ Len(m) <= Len(x.path) /\ m = SubSeq(x.path, 1, Len(m))
    /\ \A m \in DOMAIN t : WellFormed(m)
    /\ \A m \in DOMAIN t : m # <<>> /\ m[Len(m)] \in Wildcards => t[m] # Nil \/ Below(m, s)

TreesGrown ==
    /\ DOMAIN cache.trees \subseteq TreeSlots
    /\ \A s \in DOMAIN cache.trees : Grown(cache.trees[s], s)

(* Neither another object nor its own path keeps o out of its tree.        *)
Compatible(o) == Routed(o) /\ WellFormed(o.path) /\ \A x \in Objects : ~Incompatible(o, x)

(* The tree t has a route to the path p.                                   *)
HasRoute(t, p) == p \in DOMAIN t /\ t[p] # Nil

(* What the watcher knows of is in its tree, if it is compatible.          *)
Placed ==
    \A o \in Objects : Compatible(o) /\ known[Key(o)] # Absent =>
        Slot(o) \in DOMAIN cache.trees /\ HasRoute(cache.trees[Slot(o)], o.path)

(* The key tells where a routed object is put.                             *)
LEMMA SameKey ==
    ASSUME NEW o \in Objects, NEW x \in Objects, Routed(o), Key(x) = Key(o)
    PROVE  Routed(x) /\ Slot(x) = Slot(o) /\ x.path = o.path /\ x.kind = o.kind
<1>1. o.kind \notin Plain /\ ~IsAsync(o) /\ Key(o) = <<o.kind, o.space, o.event, o.path>>
  BY DEF Routed, Key
<1>2. x.kind = o.kind
  BY KeyKind, Zenon
<1>3. ~IsAsync(x)
  <2>1. SUFFICES ASSUME IsAsync(x) PROVE FALSE
    OBVIOUS
  <2>2. Key(x) = <<x.kind, x.space, x.event, x.path, x.function>>
    BY <1>1, <1>2, <2>1 DEF Key, Routed
  <2>3. Len(Key(x)) = 5 /\ Len(Key(o)) = 4
    BY <1>1, <2>2
  <2>4. QED BY <2>3
<1>4. Routed(x) /\ Key(x) = <<x.kind, x.space, x.event, x.path>>
  BY <1>1, <1>2, <1>3 DEF Routed, Key
<1>5. x.event = o.event /\ x.path = o.path
  BY <1>1, <1>4
<1>6. Slot(x) = Slot(o)
  BY <1>1, <1>2, <1>3, <1>5 DEF Slot
<1>7. QED BY <1>2, <1>4, <1>5, <1>6

(* An object with another key has another path, if the first is compatible *)
(* with all others.                                                        *)
LEMMA OtherPath ==
    ASSUME NEW o \in Objects, Compatible(o), NEW x \in Objects, Routed(x),
           Slot(x) = Slot(o), Key(x) # Key(o)
    PROVE  x.path # o.path
BY DEF Compatible, Incompatible, Conflict

(* A tree without routes.                                                  *)
LEMMA NewGrown ==
    ASSUME NEW s
    PROVE  Grown(NewNode, s)
<1>1. <<>> \in Seq(Segments)
  OBVIOUS
<1>2. WellFormed(<<>>)
  BY DEF WellFormed
<1>3. QED BY <1>1, <1>2 DEF NewNode, Grown, Closed

(* What DeleteRoute does to the nodes and to other routes.                 *)
LEMMA DeleteKeeps ==
    ASSUME NEW t, NEW p, NEW u, u = DeleteRoute(t, p)
    PROVE  /\ DOMAIN u \subseteq DOMAIN t /\ DOMAIN t \ {p} \subseteq DOMAIN u
           /\ \A m \in DOMAIN t : m # p => u[m] = t[m]
           /\ p \in DOMAIN u => u[p] = Nil
           /\ p \in DOMAIN t /\ p # <<>> /\ Kids(t, p) = {} => p \notin DOMAIN u
<1>1. CASE p \notin DOMAIN t
  BY <1>1 DEF DeleteRoute
<1>2. CASE p \in DOMAIN t /\ p # <<>> /\ Kids(t, p) = {}
  BY <1>2 DEF DeleteRoute
<1>3. CASE p \in DOMAIN t /\ ~(p # <<>> /\ Kids(t, p) = {})
  <2>1. DeleteRoute(t, p) = [t EXCEPT ![p] = Nil]
    BY <1>3 DEF DeleteRoute
  <2>2. QED BY <1>3, <2>1
<1>4. QED BY <1>1, <1>2, <1>3

(* AddRoute of a path that an object has.                                  *)
LEMMA AddGrown ==
    ASSUME NEW t, NEW o \in Objects, Routed(o), Grown(t, Slot(o))
    PROVE  Grown(AddRoute(t, o.path, Value(o)), Slot(o))
<1>1. PICK p \in Seq(Segments) : p = o.path
  BY ObjectsAssumption
<1>2. PICK v : v = Value(o) /\ v # Nil
  BY ObjectsAssumption
<1>3. PICK u : u = AddRoute(t, p, v)
  OBVIOUS
<1>4. /\ DOMAIN u = DOMAIN t \cup Walked(t, p)
      /\ \A m \in DOMAIN t : m # p => u[m] = t[m]
      /\ p \in DOMAIN u /\ AddOK(t, p) => u[p] = v
      /\ p \in DOMAIN t /\ ~AddOK(t, p) => u[p] = t[p]
  BY <1>3 DEF AddRoute
<1>5. Closed(u)
  BY <1>3, AddClosed DEF Grown
<1>6. ASSUME NEW m \in Walked(t, p)
      PROVE  /\ m \in Seq(Segments) /\ m # <<>> /\ Len(m) <= Len(p) /\ m = SubSeq(p, 1, Len(m))
             /\ \A k \in 1..Len(m) : m[k] = p[k] /\ ~Blocked(t, p, k)
  <2>1. PICK i \in 1..Len(p) : m = SubSeq(p, 1, i) /\ \A k \in 1..i : ~Blocked(t, p, k)
    BY DEF Walked
  <2>2. Len(m) = i /\ m \in Seq(Segments) /\ \A k \in 1..i : m[k] = p[k]
    BY <2>1
  <2>3. m # <<>>
    BY <2>2
  <2>4. QED BY <2>1, <2>2, <2>3
<1>7. \A m \in DOMAIN u : m # <<>> =>
         \E x \in Objects : /\ Routed(x) /\ Slot(x) = Slot(o)
                            /\ Len(m) <= Len(x.path) /\ m = SubSeq(x.path, 1, Len(m))
  BY <1>1, <1>4, <1>6 DEF Grown
<1>8. ASSUME NEW m \in DOMAIN u, m # <<>>, m[Len(m)] \in Wildcards
      PROVE  u[m] # Nil \/ Below(m, Slot(o))
  <2>1. CASE m \in DOMAIN t /\ m # p
    BY <1>4, <1>8, <2>1 DEF Grown
  <2>2. CASE m \in DOMAIN t /\ m = p
    BY <1>2, <1>4, <1>8, <2>2 DEF Grown
  <2>3. CASE m \in Walked(t, p) /\ m \notin DOMAIN t
    <3>1. CASE Len(m) < Len(p)
      BY <1>1, <1>6, <2>3, <3>1 DEF Below
    <3>2. CASE Len(m) = Len(p)
      <4>1. m = p
        BY <1>1, <1>6, <2>3, <3>2
      <4>2. AddOK(t, p)
        BY <1>6, <2>3, <3>2, <4>1 DEF AddOK
      <4>3. QED BY <1>2, <1>4, <4>1, <4>2
    <3>3. QED BY <1>6, <2>3, <3>1, <3>2
  <2>4. QED BY <1>4, <2>1, <2>2, <2>3
<1>9. ASSUME NEW m \in DOMAIN u PROVE WellFormed(m)
  <2>1. CASE m \in DOMAIN t
    BY <2>1 DEF Grown
  <2>2. CASE m \in Walked(t, p)
    <3>1. SUFFICES ASSUME NEW i \in 1..(Len(m) - 1) PROVE m[i] \notin Wildcards
      BY DEF WellFormed
    <3>2. Len(m) \in Nat /\ i \in 1..Len(m) /\ i + 1 \in 1..Len(m) /\ i + 1 > 1 /\ (i + 1) - 1 = i
      BY <1>6, <2>2
    <3>3. m[i] = p[i] /\ ~Blocked(t, p, i + 1)
      BY <1>6, <2>2, <3>2
    <3>4. QED BY <3>2, <3>3 DEF Blocked
  <2>3. QED BY <1>4, <2>1, <2>2
<1>10. QED BY <1>1, <1>2, <1>3, <1>5, <1>7, <1>8, <1>9 DEF Grown

(* A node that ends in a wildcard has no children.                         *)
LEMMA WildcardLeaf ==
    ASSUME NEW t, NEW s, Grown(t, s), NEW p \in Seq(Segments), p # <<>>, p[Len(p)] \in Wildcards
    PROVE  Kids(t, p) = {}
<1>1. SUFFICES ASSUME NEW c \in Segments, Append(p, c) \in DOMAIN t PROVE FALSE
  BY DEF Kids
<1>2. PICK m : m = Append(p, c)
  OBVIOUS
<1>3. m # <<>> /\ Len(m) = Len(p) + 1 /\ m[Len(p)] = p[Len(p)]
  BY <1>2
<1>4. WellFormed(m) /\ Len(p) \in 1..(Len(m) - 1)
  BY <1>1, <1>2, <1>3 DEF Grown
<1>5. QED BY <1>3, <1>4 DEF WellFormed

(* DeleteRoute of a path that an object has.                               *)
LEMMA DeleteGrown ==
    ASSUME NEW t, NEW s, Grown(t, s), NEW p \in Seq(Segments)
    PROVE  Grown(DeleteRoute(t, p), s)
<1>1. PICK u : u = DeleteRoute(t, p)
  OBVIOUS
<1>2. /\ DOMAIN u \subseteq DOMAIN t
      /\ \A m \in DOMAIN t : m # p => u[m] = t[m]
      /\ p \in DOMAIN t /\ p # <<>> /\ Kids(t, p) = {} => p \notin DOMAIN u
  BY <1>1, DeleteKeeps
<1>3. Closed(u)
  BY <1>1, DeleteClosed DEF Grown
<1>4. ASSUME NEW m \in DOMAIN u, m # <<>>, m[Len(m)] \in Wildcards
      PROVE  u[m] # Nil \/ Below(m, s)
  <2>1. m # p
    BY <1>2, <1>4, WildcardLeaf
  <2>2. QED BY <1>2, <1>4, <2>1 DEF Grown
<1>5. QED BY <1>1, <1>2, <1>3, <1>4 DEF Grown

(* AddRoute of a compatible path makes its route, or leaves the one there  *)
(* is.                                                                     *)
LEMMA AddCompatible ==
    ASSUME NEW t, NEW o \in Objects, Compatible(o), Grown(t, Slot(o)), NEW u,
           u = AddRoute(t, o.path, Value(o))
    PROVE  /\ o.path \in DOMAIN u
           /\ u[o.path] = IF HasRoute(t, o.path) THEN t[o.path] ELSE Value(o)
<1>1. PICK p \in Seq(Segments) : p = o.path /\ WellFormed(p) /\ Routed(o)
  BY ObjectsAssumption DEF Compatible
<1>2. PICK v : v = Value(o)
  OBVIOUS
<1>3. /\ DOMAIN u = DOMAIN t \cup Walked(t, p)
      /\ p \in DOMAIN u /\ AddOK(t, p) => u[p] = v
      /\ p \in DOMAIN t /\ ~AddOK(t, p) => u[p] = t[p]
  BY <1>1, <1>2 DEF AddRoute
<1>4. <<>> \in DOMAIN t
  BY DEF Grown, Closed
<1>5. CASE p \in DOMAIN t /\ t[p] # Nil
  <2>1. ~AddOK(t, p)
    BY <1>5 DEF AddOK
  <2>2. HasRoute(t, p)
    BY <1>5 DEF HasRoute
  <2>3. QED BY <1>1, <1>3, <1>5, <2>1, <2>2
<1>6. CASE ~(p \in DOMAIN t /\ t[p] # Nil)
  <2>1. ASSUME NEW i \in 1..Len(p) PROVE ~Blocked(t, p, i)
    <3>1. i > 1 => p[i - 1] \notin Wildcards
      BY <1>1 DEF WellFormed
    <3>2. SUFFICES ASSUME NEW c \in Kids(t, SubSeq(p, 1, i - 1)), Clash(c, p[i]),
                          p[i] \in Kids(t, SubSeq(p, 1, i - 1)) => c = p[i]
                   PROVE  FALSE
      BY <3>1 DEF Blocked, Compared
    <3>3. PICK n : n = SubSeq(p, 1, i - 1)
      OBVIOUS
    <3>9. n \in Seq(Segments) /\ Len(n) = i - 1 /\ \A j \in 1..(i - 1) : n[j] = p[j]
      BY <3>3
    <3>4. PICK m : m = Append(n, c) /\ m \in DOMAIN t /\ c \in Segments
      BY <3>2, <3>3 DEF Kids
    <3>5. m \in Seq(Segments) /\ Len(m) = i /\ m[i] = c /\ \A j \in 1..(i - 1) : m[j] = p[j]
      BY <3>9, <3>4
    <3>6. CASE c = p[i]
      <4>1. p[i] \in Wildcards
        BY <3>2, <3>6, SegmentsAssumption DEF Clash
      <4>2. i = Len(p)
        BY <1>1, <4>1 DEF WellFormed
      <4>3. m = p
        BY <3>5, <3>6, <4>2
      <4>4. m # <<>> /\ m[Len(m)] \in Wildcards
        BY <3>5, <3>6, <4>1
      <4>5. Below(p, Slot(o))
        BY <1>6, <3>4, <4>3, <4>4 DEF Grown
      <4>6. PICK x \in Objects : /\ Routed(x) /\ Slot(x) = Slot(o)
                                 /\ i < Len(x.path) /\ p = SubSeq(x.path, 1, i)
        BY <4>2, <4>5 DEF Below
      <4>7. PICK q \in Seq(Segments) : q = x.path
        BY <4>6, ObjectsAssumption
      <4>8. q[i] = p[i] /\ \A j \in 1..(i - 1) : q[j] = p[j]
        BY <4>2, <4>6, <4>7
      <4>9. p[i] \notin Static
        BY <4>1, SegmentsAssumption
      <4>10. Conflict(q, p)
        <5>1. i \in DOMAIN q \cap DOMAIN p
          BY <4>6, <4>7
        <5>2. q[i] \in Wildcards /\ q[i] \notin Static
          BY <4>1, <4>8, <4>9
        <5>3. QED BY <4>8, <5>1, <5>2 DEF Conflict
      <4>11. Key(x) # Key(o)
        <5>1. x.path # o.path
          BY <1>1, <4>2, <4>6, <4>7
        <5>2. QED BY <1>1, <5>1, SameKey
      <4>12. QED BY <1>1, <4>6, <4>7, <4>10, <4>11 DEF Compatible, Incompatible
    <3>7. CASE c # p[i]
      <4>1. PICK x \in Objects : /\ Routed(x) /\ Slot(x) = Slot(o)
                                 /\ i <= Len(x.path) /\ m = SubSeq(x.path, 1, i)
        <5>1. m # <<>>
          BY <3>5
        <5>2. QED BY <3>4, <3>5, <5>1 DEF Grown
      <4>2. PICK q \in Seq(Segments) : q = x.path
        BY <4>1, ObjectsAssumption
      <4>3. q[i] = c /\ \A j \in 1..(i - 1) : q[j] = p[j]
        BY <3>5, <4>1, <4>2
      <4>4. q[i] \notin Static \/ p[i] \notin Static
        BY <3>2, <4>3, SegmentsAssumption DEF Clash
      <4>5. Conflict(q, p)
        BY <3>7, <4>1, <4>2, <4>3, <4>4 DEF Conflict
      <4>6. Key(x) # Key(o)
        <5>1. SUFFICES ASSUME Key(x) = Key(o) PROVE FALSE
          OBVIOUS
        <5>2. x.path = o.path
          BY <5>1, SameKey DEF Compatible
        <5>3. QED BY <1>1, <3>7, <4>2, <4>3, <5>2
      <4>7. QED BY <1>1, <4>1, <4>2, <4>5, <4>6 DEF Compatible, Incompatible
    <3>8. QED BY <3>6, <3>7
  <2>2. AddOK(t, p)
    BY <1>6, <2>1 DEF AddOK
  <2>3. p \in DOMAIN u
    <3>1. CASE p = <<>>
      BY <1>3, <1>4, <3>1
    <3>2. CASE p # <<>>
      <4>1. Len(p) \in 1..Len(p) /\ SubSeq(p, 1, Len(p)) = p
        BY <3>2
      <4>2. p \in Walked(t, p)
        BY <2>1, <4>1 DEF Walked
      <4>3. QED BY <1>3, <4>2
    <3>3. QED BY <3>1, <3>2
  <2>4. ~HasRoute(t, p)
    BY <1>6 DEF HasRoute
  <2>5. QED BY <1>1, <1>2, <1>3, <2>2, <2>3, <2>4, Zenon
<1>7. QED BY <1>5, <1>6

(* The ways in which a change is handled.                                  *)
LEMMA ReactCases ==
    ASSUME Typed, NEW w \in Watchers, React(w), NEW c, c = Head(batch[w])
    PROVE  /\ c.key \in Keys /\ c.key[1] = w
           /\ known' = [known EXCEPT ![c.key] = c.value] /\ known'[c.key] = c.value
           /\ \A k \in Keys : k # c.key => known'[k] = known[k]
           /\ \/ \E o \in Objects : /\ o = c.value /\ Key(o) = c.key
                                    /\ cache' = Modified(cache, o) /\ panicked' = panicked
              \/ /\ c.value = Absent /\ known[c.key] = Absent
                 /\ cache' = cache /\ panicked' = panicked
              \/ \E o \in Objects : /\ c.value = Absent /\ o = known[c.key] /\ Key(o) = c.key
                                    /\ Panics(cache, o) /\ cache' = cache
              \/ \E o \in Objects : /\ c.value = Absent /\ o = known[c.key] /\ Key(o) = c.key
                                    /\ ~Panics(cache, o)
                                    /\ cache' = Deleted(cache, o) /\ panicked' = panicked
<1>1. /\ c.key \in Keys /\ c.key[1] = w /\ c.value \in Objects \cup {Absent}
      /\ c.value # Absent => Key(c.value) = c.key
  BY HandledTyped DEF React
<1>2. known \in [Keys -> Objects \cup {Absent}] /\ (known[c.key] # Absent => Key(known[c.key]) = c.key)
  BY <1>1 DEF Typed, KnownTyped
<1>3. known' = [known EXCEPT ![c.key] = c.value]
  BY DEF React, Recorded
<1>4. known'[c.key] = c.value /\ \A k \in Keys : k # c.key => known'[k] = known[k]
  BY <1>1, <1>2, <1>3
<1>5. CASE c.value # Absent
  <2>1. cache' = Modified(cache, c.value) /\ panicked' = panicked
    BY <1>5 DEF React
  <2>2. PICK o \in Objects : o = c.value
    BY <1>1, <1>5
  <2>3. QED BY <1>1, <1>3, <1>4, <1>5, <2>1, <2>2, Zenon
<1>6. CASE c.value = Absent /\ known[c.key] = Absent
  <2>1. cache' = cache /\ panicked' = panicked
    BY <1>6 DEF React
  <2>2. QED BY <1>1, <1>3, <1>4, <1>6, <2>1, Zenon
<1>7. CASE c.value = Absent /\ known[c.key] # Absent
  <2>1. PICK o \in Objects : o = known[c.key] /\ Key(o) = c.key
    BY <1>1, <1>2, <1>7
  <2>2. \/ Panics(cache, o) /\ cache' = cache
        \/ ~Panics(cache, o) /\ cache' = Deleted(cache, o) /\ panicked' = panicked
    BY <1>7, <2>1, Zenon DEF React
  <2>3. QED BY <1>1, <1>3, <1>4, <1>7, <2>1, <2>2, Zenon
<1>8. QED BY <1>5, <1>6, <1>7

(* What processEvents knows then.                                          *)
LEMMA ReactKnown ==
    ASSUME Typed, NEW w \in Watchers, React(w), NEW c, c = Head(batch[w])
    PROVE  known'[c.key] = c.value /\ \A k \in Keys : k # c.key => known'[k] = known[k]
<1>1. c.key \in Keys
  BY HandledTyped DEF React
<1>2. known \in [Keys -> Objects \cup {Absent}] /\ known' = [known EXCEPT ![c.key] = c.value]
  BY DEF Typed, KnownTyped, React, Recorded
<1>3. QED BY <1>1, <1>2

(* The trees after Modified and Deleted, with or without a route.          *)
LEMMA ModifiedOther ==
    ASSUME DOMAIN cache = CacheFields, NEW o \in Objects, cache' = Modified(cache, o), ~Routed(o)
    PROVE  cache'.trees = cache.trees
BY ModifiedTrees

(* Modified puts a route in the tree of its slot.                          *)
LEMMA ModifiedRoute ==
    ASSUME DOMAIN cache = CacheFields, NEW o \in Objects, cache' = Modified(cache, o), Routed(o)
    PROVE  /\ DOMAIN cache'.trees = DOMAIN cache.trees \cup {Slot(o)}
           /\ cache'.trees[Slot(o)] = AddRoute(Root(cache, Slot(o)), o.path, Value(o))
           /\ \A s \in DOMAIN cache.trees : s # Slot(o) => cache'.trees[s] = cache.trees[s]
<1>1. PICK t : t = AddRoute(Root(cache, Slot(o)), o.path, Value(o))
  OBVIOUS
<1>2. cache'.trees = [s \in DOMAIN cache.trees \cup {Slot(o)} |->
                        IF s = Slot(o) THEN t ELSE cache.trees[s]]
  BY <1>1, ModifiedTrees
<1>3. QED BY <1>1, <1>2

(* Deleted of what is no route leaves the trees alone.                     *)
LEMMA DeletedOther ==
    ASSUME DOMAIN cache = CacheFields, NEW o \in Objects, cache' = Deleted(cache, o),
           ~(Routed(o) /\ Slot(o) \in DOMAIN cache.trees)
    PROVE  cache'.trees = cache.trees
BY DeletedTrees

(* Deleted takes a route out of the tree of its slot.                      *)
LEMMA DeletedRoute ==
    ASSUME DOMAIN cache = CacheFields, NEW o \in Objects, cache' = Deleted(cache, o),
           Routed(o), Slot(o) \in DOMAIN cache.trees
    PROVE  /\ DOMAIN cache'.trees = DOMAIN cache.trees
           /\ cache'.trees[Slot(o)] = DeleteRoute(cache.trees[Slot(o)], o.path)
           /\ \A s \in DOMAIN cache.trees : s # Slot(o) => cache'.trees[s] = cache.trees[s]
<1>1. PICK t : t = DeleteRoute(cache.trees[Slot(o)], o.path)
  OBVIOUS
<1>2. cache'.trees = [cache.trees EXCEPT ![Slot(o)] = t]
  BY <1>1, DeletedTrees
<1>3. QED BY <1>1, <1>2

(* Handling a change keeps the trees grown.                                *)
LEMMA ReactGrown ==
    ASSUME Typed, TreesGrown, NEW w \in Watchers, React(w)
    PROVE  TreesGrown'
<1>1. PICK c : c = Head(batch[w])
  OBVIOUS
<1>2. DOMAIN cache = CacheFields
  BY DEF Typed, KnownTyped
<1>3. CASE cache' = cache
  BY <1>3 DEF TreesGrown
<1>4. ASSUME NEW o \in Objects, cache' = Modified(cache, o) PROVE TreesGrown'
  <2>1. CASE ~Routed(o)
    BY <1>2, <1>4, <2>1, ModifiedOther DEF TreesGrown
  <2>2. CASE Routed(o)
    <3>1. Slot(o) \in TreeSlots
      BY <2>2, RoutedSlot
    <3>2. Grown(Root(cache, Slot(o)), Slot(o))
      BY NewGrown DEF Root, TreesGrown
    <3>3. Grown(AddRoute(Root(cache, Slot(o)), o.path, Value(o)), Slot(o))
      BY <2>2, <3>2, AddGrown
    <3>4. /\ DOMAIN cache'.trees = DOMAIN cache.trees \cup {Slot(o)}
          /\ cache'.trees[Slot(o)] = AddRoute(Root(cache, Slot(o)), o.path, Value(o))
          /\ \A s \in DOMAIN cache.trees : s # Slot(o) => cache'.trees[s] = cache.trees[s]
      BY <1>2, <1>4, <2>2, ModifiedRoute
    <3>5. QED BY <3>1, <3>3, <3>4 DEF TreesGrown
  <2>3. QED BY <2>1, <2>2
<1>5. ASSUME NEW o \in Objects, cache' = Deleted(cache, o) PROVE TreesGrown'
  <2>1. CASE ~(Routed(o) /\ Slot(o) \in DOMAIN cache.trees)
    BY <1>2, <1>5, <2>1, DeletedOther DEF TreesGrown
  <2>2. CASE Routed(o) /\ Slot(o) \in DOMAIN cache.trees
    <3>1. o.path \in Seq(Segments)
      BY <2>2, RoutedSlot
    <3>2. Grown(DeleteRoute(cache.trees[Slot(o)], o.path), Slot(o))
      BY <2>2, <3>1, DeleteGrown DEF TreesGrown
    <3>3. /\ DOMAIN cache'.trees = DOMAIN cache.trees
          /\ cache'.trees[Slot(o)] = DeleteRoute(cache.trees[Slot(o)], o.path)
          /\ \A s \in DOMAIN cache.trees : s # Slot(o) => cache'.trees[s] = cache.trees[s]
      BY <1>2, <1>5, <2>2, DeletedRoute
    <3>4. QED BY <3>2, <3>3 DEF TreesGrown
  <2>3. QED BY <2>1, <2>2
<1>6. QED BY <1>1, <1>3, <1>4, <1>5, ReactCases

(* Objects with the same key are compatible with the same others.          *)
LEMMA CompatibleKey ==
    ASSUME NEW o \in Objects, NEW x \in Objects, Compatible(o), Key(x) = Key(o)
    PROVE  Compatible(x) /\ Slot(x) = Slot(o) /\ x.path = o.path /\ Value(x) # Nil
<1>1. Routed(x) /\ Slot(x) = Slot(o) /\ x.path = o.path
  BY SameKey DEF Compatible
<1>2. Compatible(x)
  BY <1>1 DEF Compatible, Incompatible
<1>3. QED BY <1>1, <1>2, ObjectsAssumption

(* A change of another key leaves the route of a compatible object.        *)
LEMMA RouteStays ==
    ASSUME Typed, TreesGrown, NEW x \in Objects, cache' = Modified(cache, x) \/ cache' = Deleted(cache, x),
           NEW o \in Objects, Compatible(o), Key(o) # Key(x),
           Slot(o) \in DOMAIN cache.trees, HasRoute(cache.trees[Slot(o)], o.path)
    PROVE  /\ Slot(o) \in DOMAIN cache'.trees /\ HasRoute(cache'.trees[Slot(o)], o.path)
           /\ cache'.trees[Slot(o)][o.path] = cache.trees[Slot(o)][o.path]
<1>1. DOMAIN cache = CacheFields
  BY DEF Typed, KnownTyped
<1>2. PICK t : t = cache.trees[Slot(o)]
  OBVIOUS
<1>3. CASE ~Routed(x)
  <2>1. cache'.trees = cache.trees
    BY <1>1, <1>3, ModifiedOther, DeletedOther
  <2>2. QED BY <2>1
<1>4. CASE Routed(x) /\ Slot(x) # Slot(o)
  <2>1. Slot(o) \in DOMAIN cache'.trees /\ cache'.trees[Slot(o)] = cache.trees[Slot(o)]
    <3>1. CASE cache' = Modified(cache, x)
      BY <1>1, <1>4, <3>1, ModifiedRoute
    <3>2. CASE cache' = Deleted(cache, x) /\ Slot(x) \in DOMAIN cache.trees
      BY <1>1, <1>4, <3>2, DeletedRoute
    <3>3. CASE cache' = Deleted(cache, x) /\ Slot(x) \notin DOMAIN cache.trees
      BY <1>1, <1>4, <3>3, DeletedOther
    <3>4. QED BY <3>1, <3>2, <3>3
  <2>2. QED BY <2>1
<1>5. CASE Routed(x) /\ Slot(x) = Slot(o)
  <2>1. x.path # o.path
    BY <1>5, OtherPath
  <2>2. CASE cache' = Modified(cache, x)
    <3>1. Root(cache, Slot(o)) = t
      BY <1>2 DEF Root
    <3>2. PICK u : u = AddRoute(t, x.path, Value(x))
      OBVIOUS
    <3>3. Slot(o) \in DOMAIN cache'.trees /\ cache'.trees[Slot(o)] = u
      BY <1>1, <1>5, <2>2, <3>1, <3>2, ModifiedRoute
    <3>4. DOMAIN t \subseteq DOMAIN u /\ \A m \in DOMAIN t : m # x.path => u[m] = t[m]
      BY <3>2 DEF AddRoute
    <3>5. QED BY <1>2, <2>1, <3>3, <3>4 DEF HasRoute
  <2>3. CASE cache' = Deleted(cache, x)
    <3>1. PICK u : u = DeleteRoute(t, x.path)
      OBVIOUS
    <3>2. Slot(o) \in DOMAIN cache'.trees /\ cache'.trees[Slot(o)] = u
      BY <1>1, <1>2, <1>5, <2>3, <3>1, DeletedRoute
    <3>3. DOMAIN t \ {x.path} \subseteq DOMAIN u /\ \A m \in DOMAIN t : m # x.path => u[m] = t[m]
      BY <3>1, DeleteKeeps
    <3>4. QED BY <1>2, <2>1, <3>2, <3>3 DEF HasRoute
  <2>4. QED BY <2>2, <2>3
<1>6. QED BY <1>3, <1>4, <1>5

(* A compatible object that is told gets its route.                        *)
LEMMA RouteMade ==
    ASSUME Typed, TreesGrown, NEW o \in Objects, Compatible(o), cache' = Modified(cache, o)
    PROVE  /\ Slot(o) \in DOMAIN cache'.trees
           /\ HasRoute(cache'.trees[Slot(o)], o.path)
           /\ cache'.trees[Slot(o)][o.path] =
                 IF HasRoute(Root(cache, Slot(o)), o.path) THEN Root(cache, Slot(o))[o.path]
                                                           ELSE Value(o)
<1>1. DOMAIN cache = CacheFields /\ Routed(o)
  BY DEF Typed, KnownTyped, Compatible
<1>2. PICK t : t = Root(cache, Slot(o))
  OBVIOUS
<1>3. Grown(t, Slot(o))
  BY <1>2, NewGrown DEF Root, TreesGrown
<1>4. PICK u : u = AddRoute(t, o.path, Value(o))
  OBVIOUS
<1>5. Slot(o) \in DOMAIN cache'.trees /\ cache'.trees[Slot(o)] = u
  BY <1>1, <1>2, <1>4, ModifiedRoute
<1>6. o.path \in DOMAIN u /\ u[o.path] = IF HasRoute(t, o.path) THEN t[o.path] ELSE Value(o)
  BY <1>3, <1>4, AddCompatible
<1>7. Value(o) # Nil
  BY <1>1, ObjectsAssumption
<1>8. HasRoute(u, o.path)
  BY <1>6, <1>7 DEF HasRoute
<1>9. QED BY <1>2, <1>5, <1>6, <1>8

(* Handling a change keeps what the watcher knows of in place.             *)
LEMMA ReactPlaced ==
    ASSUME Typed, TreesGrown, Placed, NEW w \in Watchers, React(w)
    PROVE  Placed'
<1>1. PICK c : c = Head(batch[w])
  OBVIOUS
<1>2. \A k \in Keys : k # c.key => known'[k] = known[k]
  BY <1>1, ReactKnown
<1>3. SUFFICES ASSUME NEW o \in Objects, Compatible(o), known'[Key(o)] # Absent
               PROVE  Slot(o) \in DOMAIN cache'.trees /\ HasRoute(cache'.trees[Slot(o)], o.path)
  BY DEF Placed
<1>4. Key(o) \in Keys
  BY DEF Keys
<1>5. CASE Key(o) # c.key
  <2>1. known[Key(o)] # Absent
    BY <1>2, <1>3, <1>4, <1>5
  <2>2. Slot(o) \in DOMAIN cache.trees /\ HasRoute(cache.trees[Slot(o)], o.path)
    BY <1>3, <2>1 DEF Placed
  <2>3. \/ cache' = cache
        \/ \E x \in Objects : /\ Key(x) = c.key
                              /\ cache' = Modified(cache, x) \/ cache' = Deleted(cache, x)
    BY <1>1, ReactCases, Zenon
  <2>4. QED BY <1>3, <1>5, <2>2, <2>3, RouteStays, Zenon
<1>6. CASE Key(o) = c.key
  <2>1. c.value # Absent
    BY <1>1, <1>3, <1>6, ReactCases, Zenon
  <2>2. PICK x \in Objects : x = c.value /\ Key(x) = c.key /\ cache' = Modified(cache, x)
    BY <1>1, <2>1, ReactCases, Zenon
  <2>3. Compatible(x) /\ Slot(x) = Slot(o) /\ x.path = o.path
    BY <1>3, <1>6, <2>2, CompatibleKey
  <2>4. QED BY <2>2, <2>3, RouteMade, Zenon
<1>7. QED BY <1>5, <1>6

(* What holds of the trees, for any sequence of changes.                   *)
TreeInv == TreesGrown /\ Placed

(* The trees are in order at the start ...                                 *)
LEMMA TreeInit ==
    ASSUME Init
    PROVE  TreeInv
<1>1. TreesGrown
  BY DEF Init, NewCache, TreesGrown
<1>2. \A o \in Objects : known[Key(o)] = Absent
  BY DEF Init, Keys
<1>3. QED BY <1>1, <1>2 DEF TreeInv, Placed

(* ... and every step keeps them so.                                       *)
LEMMA TreeStep ==
    ASSUME Typed, TreeInv, [Next]_vars
    PROVE  TreeInv'
<1>1. ASSUME cache' = cache, known' = known PROVE TreeInv'
  BY <1>1 DEF TreeInv, TreesGrown, Placed
<1>2. ASSUME Restart PROVE TreeInv'
  <2>1. TreesGrown'
    BY <1>2 DEF Restart, NewCache, TreesGrown
  <2>2. \A o \in Objects : known'[Key(o)] = Absent
    BY <1>2 DEF Restart, Keys
  <2>3. QED BY <2>1, <2>2 DEF TreeInv, Placed
<1>3. ASSUME NEW o \in Objects, Put(o) PROVE cache' = cache /\ known' = known
  BY <1>3 DEF Put
<1>4. ASSUME NEW k \in Keys, Delete(k) PROVE cache' = cache /\ known' = known
  BY <1>4 DEF Delete
<1>5. ASSUME NEW w \in Watchers, Receive(w) \/ Disconnect(w) PROVE cache' = cache /\ known' = known
  BY <1>5 DEF Receive, Disconnect
<1>6. ASSUME UNCHANGED vars PROVE cache' = cache /\ known' = known
  BY <1>6 DEF vars
<1>7. ASSUME NEW w \in Watchers, WatchTree(w) PROVE TreeInv'
  <2>1. cache' = cache /\ known' = [k \in Keys |-> IF k \in KeysOf(w) THEN Absent ELSE known[k]]
    BY <1>7 DEF WatchTree
  <2>2. \A o \in Objects : known'[Key(o)] # Absent => known[Key(o)] # Absent
    BY <2>1 DEF Keys
  <2>3. QED BY <2>1, <2>2 DEF TreeInv, TreesGrown, Placed
<1>8. ASSUME NEW w \in Watchers, React(w) PROVE TreeInv'
  BY <1>8, ReactGrown, ReactPlaced DEF TreeInv
<1>9. QED BY <1>1, <1>2, <1>3, <1>4, <1>5, <1>6, <1>7, <1>8 DEF Next, Quiet

(* Only the deletion of an incompatible object with a longer path ends the *)
(* gateway.                                                                *)
LEMMA PanicCause ==
    ASSUME Typed, TreeInv, NEW o \in Objects, known[Key(o)] = o, Panics(cache, o)
    PROVE  /\ Len(o.path) > 1
           /\ ~WellFormed(o.path) \/ \E x \in Objects : Incompatible(o, x)
<1>1. PICK t : t = cache.trees[Slot(o)]
  OBVIOUS
<1>2. PICK p \in Seq(Segments) : p = o.path
  BY ObjectsAssumption DEF Panics
<1>3. Routed(o) /\ Slot(o) \in DOMAIN cache.trees /\ p # <<>> /\ SubSeq(p, 1, Len(p) - 1) \notin DOMAIN t
  BY <1>1, <1>2 DEF Panics, DeletePanics
<1>4. Closed(t)
  BY <1>1, <1>3 DEF TreeInv, TreesGrown, Grown
<1>5. Len(p) > 1
  <2>1. Len(p) \in Nat /\ Len(p) # 0
    BY <1>3
  <2>2. Len(p) = 1 => SubSeq(p, 1, Len(p) - 1) = <<>>
    OBVIOUS
  <2>3. Len(p) # 1
    BY <1>3, <1>4, <2>2 DEF Closed
  <2>4. \A n \in Nat : n # 0 /\ n # 1 => n > 1
    OBVIOUS
  <2>5. QED BY <2>1, <2>3, <2>4, Zenon
<1>6. ~Compatible(o)
  <2>1. SUFFICES ASSUME Compatible(o) PROVE FALSE
    OBVIOUS
  <2>2. o # Absent
    BY ObjectsAssumption
  <2>3. p \in DOMAIN t
    BY <1>1, <1>2, <2>1, <2>2 DEF TreeInv, Placed, HasRoute
  <2>4. Front(p) \in DOMAIN t /\ Front(p) = SubSeq(p, 1, Len(p) - 1)
    BY <1>3, <1>4, <2>3 DEF Closed, Front
  <2>5. QED BY <1>3, <2>4
<1>7. QED BY <1>2, <1>3, <1>5, <1>6 DEF Compatible

(* A panic is one of a deletion.                                           *)
LEMMA ReactPanics ==
    ASSUME Typed, NEW w \in Watchers, React(w), ~(panicked' = panicked), NEW c, c = Head(batch[w])
    PROVE  \E o \in Objects : o = known[c.key] /\ Key(o) = c.key /\ Panics(cache, o)
<1>1. \/ c.value # Absent \/ known[c.key] = Absent
      \/ ~Panics(cache, known[c.key])
      \/ known[c.key] \in Objects /\ Key(known[c.key]) = c.key /\ Panics(cache, known[c.key])
  BY ReactCases, Zenon
<1>2. ~(c.value # Absent) /\ ~(known[c.key] = Absent) /\ ~ ~Panics(cache, known[c.key])
  BY DEF React
<1>3. QED BY <1>1, <1>2, Zenon

(* A deletion ends the gateway only if its path has several segments and   *)
(* is incompatible with the path of another object, or has a wildcard      *)
(* before its end: all other subscriptions and CORS configurations can be  *)
(* created and deleted in any order, with any lost connections, and        *)
(* DeleteRoute never dereferences a missing node (subscription_cache.go,   *)
(* cors_cache.go, pathtree/tree.go).                                       *)
THEOREM CachePanics == Spec => PanicOnlyByConflict
<1>1. Typed /\ TreeInv /\ [Next]_vars => TreeInv'
  BY TreeStep
<1>2. Init => TreeInv
  BY TreeInit
<1>3. ASSUME Typed, TreeInv, [Next]_vars, ~panicked, panicked'
      PROVE  \E w \in Watchers :
                /\ batch'[w] # batch[w]
                /\ LET o == known[Head(batch[w]).key]
                   IN  /\ Len(o.path) > 1
                       /\ ~WellFormed(o.path) \/ \E x \in Objects : Incompatible(o, x)
  <2>1. \E w \in Watchers : React(w)
    <3>1. ASSUME panicked' = panicked PROVE FALSE
      BY <1>3, <3>1
    <3>2. ASSUME NEW o \in Objects, Put(o) PROVE panicked' = panicked
      BY <3>2 DEF Put
    <3>3. ASSUME NEW k \in Keys, Delete(k) PROVE panicked' = panicked
      BY <3>3 DEF Delete
    <3>4. ASSUME NEW w \in Watchers, WatchTree(w) \/ Receive(w) \/ Disconnect(w)
          PROVE  panicked' = panicked
      BY <3>4 DEF WatchTree, Receive, Disconnect
    <3>5. ASSUME UNCHANGED vars PROVE panicked' = panicked
      BY <3>5 DEF vars
    <3>6. ASSUME Restart PROVE FALSE
      BY <1>3, <3>6 DEF Restart
    <3>7. QED BY <1>3, <3>1, <3>2, <3>3, <3>4, <3>5, <3>6 DEF Next, Quiet
  <2>2. PICK w \in Watchers : React(w)
    BY <2>1
  <2>3. PICK c : c = Head(batch[w])
    OBVIOUS
  <2>4. PICK o \in Objects : o = known[c.key] /\ Key(o) = c.key /\ Panics(cache, o)
    <3>1. ~(panicked' = panicked)
      BY <1>3
    <3>2. QED BY <1>3, <2>2, <2>3, <3>1, ReactPanics, Zenon
  <2>5. /\ Len(o.path) > 1
        /\ ~WellFormed(o.path) \/ \E x \in Objects : Incompatible(o, x)
    BY <1>3, <2>4, PanicCause
  <2>6. batch'[w] # batch[w]
    <3>1. batch[w] \in Seq(ChangesOf(w)) /\ batch[w] # <<>> /\ batch'[w] = Tail(batch[w])
      BY <1>3, <2>2 DEF React, Typed, WatchTyped
    <3>2. \A b \in Seq(ChangesOf(w)) : b # <<>> => Tail(b) # b
      OBVIOUS
    <3>3. QED BY <3>1, <3>2, Zenon
  <2>7. QED BY <2>2, <2>3, <2>4, <2>5, <2>6
<1>4. Typed /\ TreeInv /\ [Next]_vars =>
        [~panicked /\ panicked' =>
          \E w \in Watchers :
              /\ batch'[w] # batch[w]
              /\ LET o == known[Head(batch[w]).key]
                 IN  /\ Len(o.path) > 1
                     /\ ~WellFormed(o.path) \/ \E x \in Objects : Incompatible(o, x)]_vars
  BY <1>3
<1>5. QED BY <1>1, <1>2, <1>4, FollowInductive, PTL DEF Spec, PanicOnlyByConflict

-----------------------------------------------------------------------------
(***************************************************************************)
(* What a step may do to a key: nothing; its object is written or deleted, *)
(* with a connected watcher or without; its watcher connects, or loses the *)
(* connection.  The two other steps handle a change and start again.       *)
(***************************************************************************)

(* What was missed, told again or replaced stays so.                       *)
Remembered(k) ==
    /\ k \in lost => k \in lost'
    /\ k \in resent => k \in resent'
    /\ k \in replaced => k \in replaced'

Idle(k) ==
    /\ Remembered(k)
    /\ store'[k] = store[k] /\ known'[k] = known[k] /\ Pending(k)' = Pending(k)
    /\ up'[k[1]] => up[k[1]]

(* v replaces the value of k.                                              *)
Replaced(k, v) ==
    /\ Remembered(k)
    /\ store'[k] = v /\ known'[k] = known[k] /\ up'[k[1]] = up[k[1]]
    /\ v \in Objects \cup {Absent}
    /\ v = Absent => store[k] # Absent
    /\ v # Absent /\ store[k] # Absent =>
          k \in resent' /\ (k \in replaced' \/ Value(v) = Value(store[k]))

Heard(k, v) == up[k[1]] /\ Pending(k)' = Append(Pending(k), v)

Missed(k, v) == ~up[k[1]] /\ Pending(k)' = Pending(k) /\ (v = Absent => k \in lost')

Written(k) == \E v : Replaced(k, v) /\ (Heard(k, v) \/ Missed(k, v))

Relisted(k) ==
    /\ Remembered(k)
    /\ store'[k] = store[k] /\ known'[k] = Absent /\ Pending(k) = <<>>
    /\ \/ store[k] = Absent /\ Pending(k)' = <<>>
       \/ store[k] # Absent /\ Pending(k)' = Single(store[k]) /\ (known[k] # Absent => k \in resent')

Dropped(k) ==
    /\ Remembered(k)
    /\ store'[k] = store[k] /\ known'[k] = known[k] /\ ~up'[k[1]]
    /\ Pending(k)' \in Seq(Objects \cup {Absent})
    /\ \E u \in Seq(Objects \cup {Absent}) :
          /\ Pending(k) = Joined(Pending(k)', u)
          /\ k \notin lost' => \A j \in 1..Len(u) : u[j] # Absent

(* What Put does to a key.                                                 *)
LEMMA PutKey ==
    ASSUME Typed, NEW o \in Objects, Put(o), NEW k \in Keys
    PROVE  cache' = cache /\ (Idle(k) \/ Written(k))
<1>1. /\ store' = [store EXCEPT ![Key(o)] = o] /\ Key(o) \in Keys
      /\ up' = up /\ known' = known /\ cache' = cache /\ lost' = lost /\ batch' = batch
      /\ resent' = IF store[Key(o)] = Absent THEN resent ELSE resent \cup {Key(o)}
      /\ replaced' = IF store[Key(o)] = Absent \/ Value(store[Key(o)]) = Value(o) THEN replaced
                     ELSE replaced \cup {Key(o)}
  BY KeyKind DEF Put
<1>2. PICK c : c = [key |-> Key(o), value |-> o]
  OBVIOUS
<1>3. PICK w \in Watchers : w = o.kind /\ w = Key(o)[1] /\ c \in ChangesOf(w)
  BY <1>2, ChangeTyped, KeyKind, Zenon
<1>4. Tell(w, c)
  BY <1>2, <1>3 DEF Put
<1>5. Pending(k)' = IF k = c.key /\ up[w] THEN Append(Pending(k), c.value) ELSE Pending(k)
  BY <1>1, <1>3, <1>4, PendingTold DEF Typed
<1>6. Remembered(k)
  BY <1>1 DEF Remembered
<1>7. CASE k # Key(o)
  <2>1. store'[k] = store[k] /\ Pending(k)' = Pending(k)
    BY <1>1, <1>2, <1>5, <1>7 DEF Typed, StoreTyped
  <2>2. QED BY <1>1, <1>6, <2>1, Zenon DEF Idle
<1>8. CASE k = Key(o)
  <2>1. store'[k] = o /\ o # Absent
    BY <1>1, <1>8, ObjectsAssumption DEF Typed, StoreTyped
  <2>2. store[k] # Absent => k \in resent'
    BY <1>1, <1>8
  <2>3. store[k] # Absent => k \in replaced' \/ Value(o) = Value(store[k])
    BY <1>1, <1>8
  <2>4. Replaced(k, o)
    BY <1>1, <1>6, <2>1, <2>2, <2>3, Zenon DEF Replaced
  <2>5. Pending(k)' = IF up[k[1]] THEN Append(Pending(k), o) ELSE Pending(k)
    BY <1>2, <1>3, <1>5, <1>8
  <2>6. Heard(k, o) \/ Missed(k, o)
    BY <2>1, <2>5, Zenon DEF Heard, Missed
  <2>7. QED BY <1>1, <2>4, <2>6, Zenon DEF Written
<1>9. QED BY <1>7, <1>8

(* What Delete does to a key.                                              *)
LEMMA DeleteKey ==
    ASSUME Typed, NEW x \in Keys, Delete(x), NEW k \in Keys
    PROVE  cache' = cache /\ (Idle(k) \/ Written(k))
<1>1. /\ store' = [store EXCEPT ![x] = Absent] /\ store[x] # Absent
      /\ up' = up /\ known' = known /\ cache' = cache /\ batch' = batch
      /\ resent' = resent /\ replaced' = replaced
      /\ lost' = IF up[x[1]] THEN lost ELSE lost \cup {x}
  BY DEF Delete
<1>2. PICK c : c = [key |-> x, value |-> Absent]
  OBVIOUS
<1>3. PICK w \in Watchers : w = x[1] /\ c \in ChangesOf(w)
  BY <1>2, ChangeTyped, KeyWatcher, Zenon
<1>4. Tell(w, c)
  BY <1>2, <1>3 DEF Delete
<1>5. Pending(k)' = IF k = c.key /\ up[w] THEN Append(Pending(k), c.value) ELSE Pending(k)
  BY <1>1, <1>3, <1>4, PendingTold DEF Typed
<1>6. Remembered(k)
  BY <1>1 DEF Remembered
<1>7. CASE k # x
  <2>1. store'[k] = store[k] /\ Pending(k)' = Pending(k)
    BY <1>1, <1>2, <1>5, <1>7 DEF Typed, StoreTyped
  <2>2. QED BY <1>1, <1>6, <2>1, Zenon DEF Idle
<1>8. CASE k = x
  <2>1. store'[k] = Absent /\ store[k] # Absent
    BY <1>1, <1>8 DEF Typed, StoreTyped
  <2>2. Absent \in Objects \cup {Absent}
    OBVIOUS
  <2>3. Replaced(k, Absent)
    BY <1>1, <1>6, <2>1, <2>2, Zenon DEF Replaced
  <2>4. Pending(k)' = IF up[k[1]] THEN Append(Pending(k), Absent) ELSE Pending(k)
    BY <1>2, <1>3, <1>5, <1>8
  <2>5. ~up[k[1]] => k \in lost'
    BY <1>1, <1>8
  <2>6. Heard(k, Absent) \/ Missed(k, Absent)
    BY <2>4, <2>5, Zenon DEF Heard, Missed
  <2>7. QED BY <1>1, <2>3, <2>6, Zenon DEF Written
<1>9. QED BY <1>7, <1>8

(* What a new connection does to a key.                                    *)
LEMMA WatchTreeKey ==
    ASSUME Typed, NEW w \in Watchers, WatchTree(w), NEW k \in Keys
    PROVE  cache' = cache /\ (Idle(k) \/ Relisted(k))
<1>1. /\ store' = store /\ cache' = cache /\ lost' = lost /\ replaced' = replaced
      /\ resent' = resent \cup {x \in {y \in KeysOf(w) : store[y] # Absent} : known[x] # Absent}
  BY DEF WatchTree
<1>2. /\ k[1] = w => Pending(k) = <<>>
      /\ Pending(k)' = IF k[1] # w THEN Pending(k)
                       ELSE IF store[k] # Absent THEN Single(store[k]) ELSE <<>>
  BY PendingListed, Zenon
<1>3. Remembered(k)
  BY <1>1 DEF Remembered
<1>4. CASE k[1] # w
  <2>1. up'[k[1]] = up[k[1]] /\ known'[k] = known[k]
    BY <1>4, KeyWatcher DEF WatchTree, KeysOf, Typed, WatchTyped
  <2>2. QED BY <1>1, <1>2, <1>3, <1>4, <2>1, Zenon DEF Idle
<1>5. CASE k[1] = w
  <2>1. known'[k] = Absent /\ k \in KeysOf(w)
    BY <1>5 DEF WatchTree, KeysOf
  <2>2. store[k] # Absent /\ known[k] # Absent => k \in resent'
    BY <1>1, <2>1
  <2>3. QED BY <1>1, <1>2, <1>3, <1>5, <2>1, <2>2, Zenon DEF Relisted
<1>6. QED BY <1>4, <1>5

(* What a lost connection does to a key.                                   *)
LEMMA DisconnectKey ==
    ASSUME Typed, NEW w \in Watchers, Disconnect(w), NEW k \in Keys
    PROVE  cache' = cache /\ (Idle(k) \/ Dropped(k))
<1>1. /\ store' = store /\ known' = known /\ cache' = cache /\ resent' = resent /\ replaced' = replaced
      /\ (k \in lost => k \in lost')
  BY DEF Disconnect
<1>2. Remembered(k)
  BY <1>1 DEF Remembered
<1>3. CASE k[1] # w
  <2>1. up'[k[1]] = up[k[1]]
    BY <1>3, KeyWatcher DEF Disconnect, Typed, WatchTyped
  <2>2. Pending(k)' = Pending(k)
    BY <1>3, PendingDropped, Zenon
  <2>3. QED BY <1>1, <1>2, <2>1, <2>2, Zenon DEF Idle
<1>4. CASE k[1] = w
  <2>1. ~up'[k[1]]
    BY <1>4 DEF Disconnect, Typed, WatchTyped
  <2>2. /\ Pending(k)' \in Seq(Objects \cup {Absent})
        /\ \E u \in Seq(Objects \cup {Absent}) :
              /\ Pending(k) = Joined(Pending(k)', u)
              /\ k \notin lost' => \A j \in 1..Len(u) : u[j] # Absent
    BY <1>4, PendingDropped, Zenon
  <2>3. QED BY <1>1, <1>2, <2>1, <2>2, Zenon DEF Dropped
<1>5. QED BY <1>3, <1>4

(* The step leaves the caches alone, and does one of these to every key.   *)
Distant == cache' = cache /\ \A k \in Keys : Idle(k) \/ Written(k) \/ Relisted(k) \/ Dropped(k)

(* Every step is distant, handles a change or starts again.                *)
LEMMA KeySteps ==
    ASSUME Typed, [Next]_vars
    PROVE  Distant \/ Restart \/ \E w \in Watchers : React(w)
<1>1. ASSUME NEW o \in Objects, Put(o) PROVE Distant
  BY <1>1, PutKey, Zenon DEF Distant, Put
<1>2. ASSUME NEW x \in Keys, Delete(x) PROVE Distant
  BY <1>2, DeleteKey, Zenon DEF Distant, Delete
<1>3. ASSUME NEW w \in Watchers, WatchTree(w) PROVE Distant
  BY <1>3, WatchTreeKey, Zenon DEF Distant, WatchTree
<1>4. ASSUME NEW w \in Watchers, Disconnect(w) PROVE Distant
  BY <1>4, DisconnectKey, Zenon DEF Distant, Disconnect
<1>5. ASSUME NEW w \in Watchers, Receive(w) PROVE Distant
  <2>1. /\ store' = store /\ known' = known /\ cache' = cache /\ up' = up
        /\ lost' = lost /\ resent' = resent /\ replaced' = replaced
    BY <1>5 DEF Receive
  <2>2. \A k \in Keys : Pending(k)' = Pending(k)
    BY <1>5, PendingReceived DEF Typed
  <2>3. QED BY <2>1, <2>2, Zenon DEF Distant, Idle, Remembered
<1>6. ASSUME UNCHANGED vars PROVE Distant
  <2>1. /\ store' = store /\ known' = known /\ cache' = cache /\ up' = up
        /\ lost' = lost /\ resent' = resent /\ replaced' = replaced
        /\ incoming' = incoming /\ batch' = batch
    BY <1>6 DEF vars
  <2>2. \A k \in Keys : Pending(k)' = Pending(k)
    BY <2>1, PendingIs, Zenon
  <2>3. QED BY <2>1, <2>2, Zenon DEF Distant, Idle, Remembered
<1>7. QED BY <1>1, <1>2, <1>3, <1>4, <1>5, <1>6 DEF Next, Quiet

(* What watchers know, and what they are still told, leads to the store.   *)
KnownInv == \A k \in Keys : KnownLeads(k)

(* Every step keeps KnownInv.                                              *)
LEMMA KnownStep ==
    ASSUME Typed, KnownInv, [Next]_vars
    PROVE  KnownInv'
<1>1. SUFFICES ASSUME NEW k \in Keys PROVE KnownLeads(k)'
  BY Zenon DEF KnownInv
<1>2. up[k[1]] => Final(Pending(k), known[k]) = store[k]
  BY Zenon DEF KnownInv, KnownLeads
<1>3. SUFFICES ASSUME up'[k[1]] PROVE Final(Pending(k)', known'[k]) = store'[k]
  BY Zenon DEF KnownLeads
<1>4. PICK t \in Seq(Objects \cup {Absent}) : t = Pending(k)
  BY PendingTyped DEF Typed
<1>5. CASE Restart
  <2>1. ~up'[k[1]]
    BY <1>5, KeyWatcher DEF Restart
  <2>2. QED BY <1>3, <2>1
<1>6. ASSUME NEW w \in Watchers, React(w) PROVE Final(Pending(k)', known'[k]) = store'[k]
  <2>1. PICK c : c = Head(batch[w])
    OBVIOUS
  <2>2. up[k[1]] /\ store' = store
    BY <1>3, <1>6, Zenon DEF React
  <2>3. CASE k # c.key
    <3>1. known'[k] = known[k]
      BY <1>6, <2>1, <2>3, ReactKnown, Zenon
    <3>2. Pending(k)' = Pending(k)
      BY <1>6, <2>1, <2>3, PendingHandled, Zenon
    <3>3. QED BY <1>2, <2>2, <3>1, <3>2, Zenon
  <2>4. CASE k = c.key
    <3>1. c.value \in Objects \cup {Absent}
      BY <1>6, <2>1, HandledTyped DEF React
    <3>2. PICK u \in Seq(Objects \cup {Absent}) : u = Pending(k)'
      BY <1>6, <2>1, <2>4, PendingHandled, Zenon
    <3>3. Pending(k) = Joined(Single(c.value), u) /\ known'[k] = c.value
      BY <1>6, <2>1, <2>4, <3>2, ReactKnown, PendingHandled, Zenon
    <3>4. Final(Joined(Single(c.value), u), known[k]) = Final(u, c.value)
      BY <3>1, FinalLaws
    <3>5. QED BY <1>2, <2>2, <3>2, <3>3, <3>4, Zenon
  <2>5. QED BY <2>3, <2>4
<1>7. CASE Idle(k)
  BY <1>2, <1>3, <1>7, Zenon DEF Idle
<1>8. CASE Written(k)
  <2>1. PICK v : Replaced(k, v) /\ (Heard(k, v) \/ Missed(k, v))
    BY <1>8 DEF Written
  <2>2. store'[k] = v /\ known'[k] = known[k] /\ up[k[1]] /\ v \in Objects \cup {Absent}
    BY <1>3, <2>1, Zenon DEF Replaced
  <2>3. Pending(k)' = Append(t, v)
    BY <1>4, <2>1, <2>2, Zenon DEF Heard, Missed
  <2>4. Final(Append(t, v), known[k]) = v
    BY <2>2, FinalLaws
  <2>5. QED BY <2>2, <2>3, <2>4, Zenon
<1>9. CASE Relisted(k)
  <2>1. \A v : Final(Single(v), Absent) = v
    BY DEF Final, Single
  <2>2. Final(<<>>, Absent) = Absent
    BY DEF Final
  <2>3. QED BY <1>9, <2>1, <2>2, Zenon DEF Relisted
<1>10. CASE Dropped(k)
  BY <1>3, <1>10, Zenon DEF Dropped
<1>11. QED BY <1>5, <1>6, <1>7, <1>8, <1>9, <1>10, KeySteps, Zenon DEF Distant

-----------------------------------------------------------------------------
(***************************************************************************)
(* What the routes of the trees come from.                                 *)
(***************************************************************************)

(* The caches hold the same of u and v.                                    *)
Same(u, v) == u # Absent /\ v # Absent => Value(u) = Value(v)

(* The values d, then those of q.                                          *)
At(d, q, i) == IF i = 0 THEN d ELSE q[i]

(* Between deletions, they stay the same for the caches.                   *)
Steady(d, q) ==
    \A i, j \in 0..Len(q) :
        i <= j /\ (\A m \in i..j : At(d, q, m) # Absent) => Value(At(d, q, i)) = Value(At(d, q, j))

(* They lead from d by q to z: what is deleted in the end is told so.      *)
Chain(d, q, z) ==
    /\ Steady(d, q)
    /\ Same(Final(q, d), z)
    /\ z = Absent => Final(q, d) = Absent

(* A deletion was missed, or there was none before another value was told, *)
(* which AddRoute refuses.                                                 *)
Exempt(k) == k \in lost \/ k \in replaced

RoutedKeys == {Key(o) : o \in {x \in Objects : Routed(x)}}

(* What is told of a key is one chain.                                     *)
Lined(k) == Exempt(k) \/ Chain(known[k], Pending(k), store[k])

(* What is told after o was put in the tree: if it is deleted, the watcher *)
(* knows of it when that is told.                                          *)
Sound(o) ==
    \/ Exempt(Key(o))
    \/ /\ Chain(o, Pending(Key(o)), store[Key(o)])
       /\ known[Key(o)] = Absent => Pending(Key(o)) = <<>> \/ Pending(Key(o))[1] # Absent

Sourced(s, p) ==
    HasRoute(cache.trees[s], p) =>
        \E o \in Objects : /\ Routed(o) /\ Slot(o) = s /\ o.path = p
                           /\ Value(o) = cache.trees[s][p] /\ Sound(o)

RouteInv ==
    /\ \A k \in RoutedKeys : Lined(k)
    /\ \A s \in DOMAIN cache.trees : \A p \in DOMAIN cache.trees[s] : Sourced(s, p)

(* Nothing is told.                                                        *)
LEMMA ChainEmpty ==
    ASSUME NEW d, NEW z
    PROVE  Chain(d, <<>>, z) <=> Same(d, z) /\ (z = Absent => d = Absent)
<1>1. Len(<<>>) = 0 /\ Final(<<>>, d) = d
  BY DEF Final
<1>2. Steady(d, <<>>)
  BY <1>1 DEF Steady, At
<1>3. QED BY <1>1, <1>2 DEF Chain

(* A value is told at the end.                                             *)
LEMMA ChainHeard ==
    ASSUME NEW T, NEW d, NEW q \in Seq(T), NEW z, NEW v \in T, Chain(d, q, z),
           Same(Final(q, d), v)
    PROVE  Chain(d, Append(q, v), v)
<1>1. PICK n \in Nat : n = Len(q)
  OBVIOUS
<1>2. PICK r : r = Append(q, v)
  OBVIOUS
<1>3. Len(r) = n + 1 /\ r[n + 1] = v /\ \A i \in 1..n : r[i] = q[i]
  BY <1>1, <1>2
<1>4. At(d, r, n + 1) = v /\ \A i \in 0..n : At(d, r, i) = At(d, q, i)
  BY <1>3 DEF At
<1>5. Final(q, d) = At(d, q, n)
  BY <1>1 DEF Final, At
<1>6. Final(r, d) = v
  BY <1>2, FinalLaws
<1>7. ASSUME NEW i \in 0..(n + 1), NEW j \in 0..(n + 1), i <= j,
             \A m \in i..j : At(d, r, m) # Absent
      PROVE  Value(At(d, r, i)) = Value(At(d, r, j))
  <2>1. CASE i = j
    BY <2>1
  <2>2. CASE i # j /\ j <= n
    <3>1. i \in 0..n /\ j \in 0..n
      BY <1>7, <2>2
    <3>2. \A m \in i..j : At(d, q, m) # Absent
      BY <1>4, <1>7, <3>1
    <3>3. Value(At(d, q, i)) = Value(At(d, q, j))
      BY <1>1, <1>7, <3>1, <3>2 DEF Chain, Steady
    <3>4. QED BY <1>4, <3>1, <3>3
  <2>3. CASE i # j /\ j = n + 1
    <3>1. i \in 0..n /\ n \in 0..n /\ i <= n
      BY <1>7, <2>3
    <3>2. \A m \in i..n : At(d, q, m) # Absent
      BY <1>4, <1>7, <2>3, <3>1
    <3>3. Value(At(d, q, i)) = Value(At(d, q, n))
      BY <1>1, <3>1, <3>2 DEF Chain, Steady
    <3>4. v # Absent /\ At(d, q, n) # Absent
      <4>1. n + 1 \in i..j /\ n \in i..n
        BY <2>3, <3>1
      <4>2. QED BY <1>4, <1>7, <3>2, <4>1
    <3>5. Value(At(d, q, n)) = Value(v)
      BY <1>5, <3>4 DEF Same
    <3>6. QED BY <1>4, <2>3, <3>1, <3>3, <3>5
  <2>4. QED BY <1>7, <2>1, <2>2, <2>3
<1>8. Steady(d, r)
  BY <1>3, <1>7 DEF Steady
<1>9. QED BY <1>2, <1>6, <1>8 DEF Chain, Same

(* The last values are not told, and no deletion is among them.            *)
LEMMA ChainCut ==
    ASSUME NEW T, NEW d, NEW q \in Seq(T), NEW u \in Seq(T), NEW z, Chain(d, Joined(q, u), z),
           \A j \in 1..Len(u) : u[j] # Absent
    PROVE  Chain(d, q, z)
<1>1. PICK n \in Nat : n = Len(q)
  OBVIOUS
<1>2. PICK l \in Nat : l = Len(u)
  OBVIOUS
<1>3. PICK r \in Seq(T) : r = Joined(q, u)
  BY JoinedLaws
<1>4. /\ Len(r) = n + l
      /\ \A i \in 1..n : r[i] = q[i]
      /\ \A i \in 1..l : r[n + i] = u[i]
  <2>1. /\ Len(Joined(q, u)) = Len(q) + Len(u)
        /\ \A i \in 1..Len(q) : Joined(q, u)[i] = q[i]
        /\ \A i \in 1..Len(u) : Joined(q, u)[Len(q) + i] = u[i]
    BY ConcatProperties DEF Joined
  <2>2. QED BY <1>1, <1>2, <1>3, <2>1, Zenon
<1>5. \A i \in 0..n : At(d, r, i) = At(d, q, i)
  BY <1>4 DEF At
<1>6. Steady(d, q)
  <2>1. ASSUME NEW i \in 0..n, NEW j \in 0..n, i <= j, \A m \in i..j : At(d, q, m) # Absent
        PROVE  Value(At(d, q, i)) = Value(At(d, q, j))
    <3>1. i \in 0..(n + l) /\ j \in 0..(n + l) /\ \A m \in i..j : At(d, r, m) # Absent
      BY <1>5, <2>1
    <3>2. Value(At(d, r, i)) = Value(At(d, r, j))
      BY <1>3, <1>4, <2>1, <3>1 DEF Chain, Steady
    <3>3. QED BY <1>5, <3>2
  <2>2. QED BY <1>1, <2>1 DEF Steady
<1>7. Final(q, d) = At(d, q, n)
  BY <1>1 DEF Final, At
<1>8. CASE l = 0
  <2>1. u = <<>>
    BY <1>2, <1>8, EmptySeq
  <2>2. Joined(q, <<>>) = q
    BY JoinedLaws
  <2>3. QED BY <2>1, <2>2
<1>9. CASE l # 0
  <2>1. u # <<>> /\ l \in 1..l
    BY <1>2, <1>9
  <2>2. \A x \in T : Final(r, d) = u[l]
    BY <1>2, <1>3, <2>1, FinalLaws
  <2>3. Final(r, d) = u[l] /\ u[l] # Absent
    <3>1. u[l] \in T
      BY <1>2, <2>1
    <3>2. QED BY <1>2, <2>1, <2>2, <3>1
  <2>4. z # Absent /\ Value(u[l]) = Value(z)
    BY <1>3, <2>3 DEF Chain, Same
  <2>5. ASSUME At(d, q, n) # Absent PROVE Value(At(d, q, n)) = Value(u[l])
    <3>1. n \in 0..(n + l) /\ n + l \in 0..(n + l) /\ n <= n + l
      OBVIOUS
    <3>2. ASSUME NEW m \in n..(n + l) PROVE At(d, r, m) # Absent
      <4>1. CASE m = n
        BY <1>5, <2>5, <4>1
      <4>2. CASE m # n
        <5>1. m - n \in 1..l /\ n + (m - n) = m /\ m # 0
          BY <4>2
        <5>2. r[m] = u[m - n]
          BY <1>4, <5>1
        <5>3. QED BY <1>2, <5>1, <5>2 DEF At
      <4>3. QED BY <4>1, <4>2
    <3>3. Value(At(d, r, n)) = Value(At(d, r, n + l))
      BY <1>3, <1>4, <3>1, <3>2 DEF Chain, Steady
    <3>4. At(d, r, n) = At(d, q, n)
      BY <1>5
    <3>5. At(d, r, n + l) = u[l]
      BY <1>4, <2>1 DEF At
    <3>6. QED BY <3>3, <3>4, <3>5
  <2>6. Same(Final(q, d), z)
    BY <1>7, <2>4, <2>5 DEF Same
  <2>7. QED BY <1>6, <2>4, <2>6 DEF Chain
<1>10. QED BY <1>8, <1>9

(* The first value is handled; what was there before is like it.           *)
LEMMA ChainHandled ==
    ASSUME NEW T, NEW d, NEW q \in Seq(T), NEW v \in T, NEW z, Chain(d, Joined(Single(v), q), z)
    PROVE  /\ Chain(v, q, z)
           /\ d # Absent /\ v # Absent => Chain(d, q, z)
<1>1. PICK n \in Nat : n = Len(q)
  OBVIOUS
<1>2. PICK r \in Seq(T) : r = Joined(Single(v), q)
  BY JoinedLaws, JoinedOne
<1>3. Len(r) = n + 1 /\ r[1] = v /\ \A i \in 1..n : r[i + 1] = q[i]
  BY <1>1, <1>2 DEF Joined, Single
<1>4. \A i \in 0..n : At(v, q, i) = At(d, r, i + 1)
  BY <1>3 DEF At
<1>5. At(d, r, 0) = d /\ At(d, r, 1) = v /\ At(d, q, 0) = d
      /\ \A i \in 1..n : At(d, q, i) = At(d, r, i + 1)
  BY <1>3 DEF At
<1>6. Final(r, d) = Final(q, v) /\ (q # <<>> => Final(q, d) = Final(q, v))
  <2>1. Final(r, d) = Final(q, v)
    BY <1>2, FinalLaws
  <2>2. QED BY <2>1 DEF Final
<1>7. Steady(v, q)
  <2>1. ASSUME NEW i \in 0..n, NEW j \in 0..n, i <= j, \A m \in i..j : At(v, q, m) # Absent
        PROVE  Value(At(v, q, i)) = Value(At(v, q, j))
    <3>1. i + 1 \in 0..(n + 1) /\ j + 1 \in 0..(n + 1) /\ i + 1 <= j + 1
      BY <2>1
    <3>2. ASSUME NEW m \in (i + 1)..(j + 1) PROVE At(d, r, m) # Absent
      <4>1. m - 1 \in i..j /\ m - 1 \in 0..n /\ (m - 1) + 1 = m
        OBVIOUS
      <4>2. QED BY <1>4, <2>1, <4>1
    <3>3. Value(At(d, r, i + 1)) = Value(At(d, r, j + 1))
      BY <1>2, <1>3, <3>1, <3>2 DEF Chain, Steady
    <3>4. QED BY <1>4, <3>3
  <2>2. QED BY <1>1, <2>1 DEF Steady
<1>8. Chain(v, q, z)
  BY <1>2, <1>6, <1>7 DEF Chain
<1>9. ASSUME d # Absent, v # Absent PROVE Chain(d, q, z)
  <2>1. Value(d) = Value(v)
    <3>1. \A m \in 0..1 : At(d, r, m) # Absent
      BY <1>5, <1>9
    <3>2. 0 \in 0..(n + 1) /\ 1 \in 0..(n + 1) /\ 0 <= 1
      OBVIOUS
    <3>3. Value(At(d, r, 0)) = Value(At(d, r, 1))
      BY <1>2, <1>3, <3>1, <3>2 DEF Chain, Steady
    <3>4. QED BY <1>5, <3>3
  <2>2. \A i \in 0..n : At(d, q, i) = At(v, q, i) \/ i = 0
    BY DEF At
  <2>3. ASSUME NEW i \in 0..n, NEW j \in 0..n, i <= j, \A m \in i..j : At(d, q, m) # Absent
        PROVE  Value(At(d, q, i)) = Value(At(d, q, j))
    <3>1. ASSUME NEW m \in i..j PROVE At(v, q, m) # Absent
      BY <1>9, <2>3 DEF At
    <3>2. Value(At(v, q, i)) = Value(At(v, q, j))
      BY <1>1, <1>7, <2>3, <3>1 DEF Steady
    <3>3. \A m \in 0..n : Value(At(d, q, m)) = Value(At(v, q, m))
      BY <2>1 DEF At
    <3>4. QED BY <3>2, <3>3
  <2>4. Steady(d, q)
    BY <1>1, <2>3 DEF Steady
  <2>5. CASE q = <<>>
    <3>1. Final(q, v) = v /\ Final(q, d) = d
      BY <2>5 DEF Final
    <3>2. z # Absent /\ Value(v) = Value(z)
      BY <1>8, <1>9, <3>1 DEF Chain, Same
    <3>3. QED BY <2>1, <2>4, <3>1, <3>2 DEF Chain, Same
  <2>6. CASE q # <<>>
    BY <1>6, <1>8, <2>4, <2>6 DEF Chain
  <2>7. QED BY <2>5, <2>6
<1>10. QED BY <1>8, <1>9

(* The first of the values, after more are told, or some are not.          *)
LEMMA FirstStays ==
    ASSUME NEW T, NEW q \in Seq(T), NEW u \in Seq(T), NEW v \in T, q # <<>>
    PROVE  /\ Append(q, v) # <<>> /\ Append(q, v)[1] = q[1]
           /\ Joined(q, u) # <<>> /\ Joined(q, u)[1] = q[1]
<1>1. Append(q, v) # <<>> /\ Append(q, v)[1] = q[1]
  OBVIOUS
<1>2. q \o u # <<>> /\ (q \o u)[1] = q[1]
  OBVIOUS
<1>3. QED BY <1>1, <1>2 DEF Joined

(* What is exempt stays so.                                                *)
LEMMA ExemptStays ==
    ASSUME NEW k, Remembered(k), Exempt(k)
    PROVE  Exempt(k)'
BY DEF Remembered, Exempt

(* Routed keys are keys.                                                   *)
LEMMA RoutedKey == RoutedKeys \subseteq Keys
BY DEF RoutedKeys, Keys

(* A write goes on with the chain.                                         *)
LEMMA ChainWritten ==
    ASSUME Typed, NEW k \in RoutedKeys, Written(k), ~Exempt(k)', NEW d,
           Chain(d, Pending(k), store[k])
    PROVE  Chain(d, Pending(k)', store'[k])
<1>1. k \in Keys
  BY RoutedKey
<1>2. PICK v : Replaced(k, v) /\ (Heard(k, v) \/ Missed(k, v))
  BY DEF Written
<1>3. store'[k] = v /\ v \in Objects \cup {Absent}
  BY <1>2, Zenon DEF Replaced
<1>4. PICK q \in Seq(Objects \cup {Absent}) : q = Pending(k)
  BY <1>1, PendingTyped DEF Typed
<1>5. Chain(d, q, store[k])
  BY <1>4
<1>6. v # Absent /\ store[k] # Absent => Value(v) = Value(store[k])
  BY <1>1, <1>2, Zenon DEF Replaced, Exempt
<1>7. Same(Final(q, d), v)
  BY <1>5, <1>6 DEF Chain, Same
<1>8. CASE Heard(k, v)
  <2>1. Pending(k)' = Append(q, v)
    BY <1>4, <1>8, Zenon DEF Heard
  <2>2. Chain(d, Append(q, v), v)
    BY <1>3, <1>5, <1>7, ChainHeard
  <2>3. QED BY <1>3, <2>1, <2>2, Zenon
<1>9. CASE Missed(k, v)
  <2>1. Pending(k)' = q /\ v # Absent
    BY <1>4, <1>9, Zenon DEF Missed, Exempt
  <2>2. Chain(d, q, v)
    BY <1>5, <1>7, <2>1 DEF Chain
  <2>3. QED BY <1>3, <2>1, <2>2, Zenon
<1>10. QED BY <1>2, <1>8, <1>9

(* A lost connection cuts the chain.                                       *)
LEMMA ChainDropped ==
    ASSUME NEW k, Dropped(k), k \notin lost', NEW d, Chain(d, Pending(k), store[k])
    PROVE  Chain(d, Pending(k)', store'[k])
<1>1. PICK q \in Seq(Objects \cup {Absent}) : q = Pending(k)'
  BY Zenon DEF Dropped
<1>2. PICK u \in Seq(Objects \cup {Absent}) : Pending(k) = Joined(q, u) /\ \A j \in 1..Len(u) : u[j] # Absent
  BY <1>1, Zenon DEF Dropped
<1>3. Chain(d, Joined(q, u), store[k])
  BY <1>2, Zenon
<1>4. Chain(d, q, store[k])
  BY <1>2, <1>3, ChainCut
<1>5. store'[k] = store[k]
  BY Zenon DEF Dropped
<1>6. QED BY <1>1, <1>4, <1>5, Zenon

(* A new connection begins with what is in the store.                      *)
LEMMA ChainRelisted ==
    ASSUME NEW k, Relisted(k), store[k] \in Objects \cup {Absent}, NEW d, Same(d, store[k]),
           store[k] = Absent => d = Absent
    PROVE  Chain(d, Pending(k)', store'[k])
<1>1. store'[k] = store[k]
  BY Zenon DEF Relisted
<1>2. Chain(d, <<>>, store[k])
  BY ChainEmpty
<1>3. CASE Pending(k)' = <<>>
  BY <1>1, <1>2, <1>3, Zenon
<1>4. CASE Pending(k)' = Single(store[k])
  <2>1. <<>> \in Seq(Objects \cup {Absent}) /\ Final(<<>>, d) = d
    BY DEF Final
  <2>2. Chain(d, Append(<<>>, store[k]), store[k])
    BY <1>2, <2>1, ChainHeard
  <2>3. Append(<<>>, store[k]) = Single(store[k])
    BY DEF Single
  <2>4. QED BY <1>1, <1>4, <2>2, <2>3, Zenon
<1>5. QED BY <1>3, <1>4, Zenon DEF Relisted

(* What is told of a key stays one chain.                                  *)
LEMMA LinedDistant ==
    ASSUME Typed, Distant, NEW k \in RoutedKeys, Lined(k)
    PROVE  Lined(k)'
<1>1. k \in Keys
  BY RoutedKey
<1>2. store[k] \in Objects \cup {Absent}
  BY <1>1 DEF Typed, StoreTyped
<1>3. SUFFICES ASSUME ~Exempt(k)' PROVE Chain(known'[k], Pending(k)', store'[k])
  BY Zenon DEF Lined
<1>4. Idle(k) \/ Written(k) \/ Relisted(k) \/ Dropped(k)
  BY <1>1, Zenon DEF Distant
<1>5. Remembered(k)
  BY <1>4, Zenon DEF Idle, Written, Replaced, Relisted, Dropped
<1>6. Chain(known[k], Pending(k), store[k])
  BY <1>3, <1>5, ExemptStays, Zenon DEF Lined
<1>7. CASE Idle(k)
  BY <1>6, <1>7, Zenon DEF Idle
<1>8. CASE Written(k)
  <2>1. known'[k] = known[k]
    BY <1>8, Zenon DEF Written, Replaced
  <2>2. QED BY <1>3, <1>6, <1>8, <2>1, ChainWritten, Zenon
<1>9. CASE Relisted(k)
  <2>1. known'[k] = Absent
    BY <1>9, Zenon DEF Relisted
  <2>2. Same(Absent, store[k])
    BY DEF Same
  <2>3. QED BY <1>2, <1>9, <2>1, <2>2, ChainRelisted, Zenon
<1>10. CASE Dropped(k)
  <2>1. known'[k] = known[k]
    BY <1>10, Zenon DEF Dropped
  <2>2. QED BY <1>3, <1>6, <1>10, <2>1, ChainDropped, Zenon DEF Exempt
<1>11. QED BY <1>4, <1>7, <1>8, <1>9, <1>10

(* What is in a tree stays sound.                                          *)
LEMMA SoundDistant ==
    ASSUME Typed, KnownInv, Distant, NEW o \in Objects, Routed(o), Sound(o)
    PROVE  Sound(o)'
<1>1. PICK k \in RoutedKeys : k = Key(o)
  BY DEF RoutedKeys
<1>2. k \in Keys
  BY RoutedKey
<1>3. store[k] \in Objects \cup {Absent} /\ o # Absent
  BY <1>2, ObjectsAssumption DEF Typed, StoreTyped
<1>4. SUFFICES ASSUME ~Exempt(k)'
               PROVE  /\ Chain(o, Pending(k)', store'[k])
                      /\ known'[k] = Absent => Pending(k)' = <<>> \/ Pending(k)'[1] # Absent
  BY <1>1, Zenon DEF Sound
<1>5. Idle(k) \/ Written(k) \/ Relisted(k) \/ Dropped(k)
  BY <1>2, Zenon DEF Distant
<1>6. Remembered(k)
  BY <1>5, Zenon DEF Idle, Written, Replaced, Relisted, Dropped
<1>7. /\ Chain(o, Pending(k), store[k])
      /\ known[k] = Absent => Pending(k) = <<>> \/ Pending(k)[1] # Absent
  BY <1>1, <1>4, <1>6, ExemptStays, Zenon DEF Sound
<1>8. Pending(k) = <<>> => store[k] # Absent /\ Same(o, store[k])
  <2>1. Chain(o, <<>>, store[k]) => Same(o, store[k]) /\ (store[k] = Absent => o = Absent)
    BY ChainEmpty
  <2>2. QED BY <1>3, <1>7, <2>1, Zenon
<1>9. PICK q \in Seq(Objects \cup {Absent}) : q = Pending(k)
  BY <1>2, PendingTyped DEF Typed
<1>10. CASE Idle(k)
  BY <1>7, <1>10, Zenon DEF Idle
<1>11. CASE Written(k)
  <2>1. Chain(o, Pending(k)', store'[k])
    BY <1>4, <1>7, <1>11, ChainWritten
  <2>2. PICK v : Replaced(k, v) /\ (Heard(k, v) \/ Missed(k, v))
    BY <1>11, Zenon DEF Written
  <2>3. known'[k] = known[k] /\ v \in Objects \cup {Absent}
    BY <2>2, Zenon DEF Replaced
  <2>4. ASSUME Heard(k, v), known[k] = Absent PROVE Pending(k)'[1] # Absent
    <3>1. q # <<>>
      <4>1. SUFFICES ASSUME q = <<>> PROVE FALSE
        OBVIOUS
      <4>2. Final(<<>>, known[k]) = store[k]
        BY <1>2, <1>9, <2>4, <4>1, Zenon DEF KnownInv, KnownLeads, Heard
      <4>3. QED BY <1>8, <1>9, <2>4, <4>1, <4>2 DEF Final
    <3>2. Append(q, v)[1] = q[1]
      BY <2>3, <3>1, FirstStays
    <3>3. QED BY <1>7, <1>9, <2>4, <3>1, <3>2, Zenon DEF Heard
  <2>5. ASSUME Missed(k, v) PROVE Pending(k)' = Pending(k)
    BY <2>5, Zenon DEF Missed
  <2>6. QED BY <1>7, <2>1, <2>2, <2>3, <2>4, <2>5, Zenon
<1>12. CASE Relisted(k)
  <2>1. store[k] # Absent /\ Same(o, store[k])
    BY <1>8, <1>12, Zenon DEF Relisted
  <2>2. Chain(o, Pending(k)', store'[k])
    BY <1>3, <1>12, <2>1, ChainRelisted, Zenon
  <2>3. Single(store[k])[1] # Absent
    BY <2>1 DEF Single
  <2>4. QED BY <1>12, <2>1, <2>2, <2>3, Zenon DEF Relisted
<1>13. CASE Dropped(k)
  <2>1. Chain(o, Pending(k)', store'[k])
    BY <1>4, <1>7, <1>13, ChainDropped, Zenon DEF Exempt
  <2>2. PICK t \in Seq(Objects \cup {Absent}) : t = Pending(k)'
    BY <1>13, Zenon DEF Dropped
  <2>3. PICK u \in Seq(Objects \cup {Absent}) : Pending(k) = Joined(t, u)
    BY <1>13, <2>2, Zenon DEF Dropped
  <2>4. t # <<>> => Joined(t, u) # <<>> /\ Joined(t, u)[1] = t[1]
    <3>1. Absent \in Objects \cup {Absent}
      OBVIOUS
    <3>2. QED BY <3>1, FirstStays
  <2>5. known'[k] = known[k]
    BY <1>13, Zenon DEF Dropped
  <2>6. QED BY <1>7, <2>1, <2>2, <2>3, <2>4, <2>5, Zenon
<1>14. QED BY <1>5, <1>10, <1>11, <1>12, <1>13

(* A change is handled: what is told after it is still one chain.          *)
LEMMA LinedReact ==
    ASSUME Typed, NEW w \in Watchers, React(w), NEW k \in RoutedKeys, Lined(k)
    PROVE  Lined(k)'
<1>1. PICK c : c = Head(batch[w])
  OBVIOUS
<1>2. k \in Keys
  BY RoutedKey
<1>3. store' = store /\ lost' = lost /\ resent' = resent /\ replaced' = replaced
  BY DEF React
<1>4. CASE k # c.key
  <2>1. known'[k] = known[k]
    BY <1>1, <1>2, <1>4, ReactKnown, Zenon
  <2>2. Pending(k)' = Pending(k)
    BY <1>1, <1>2, <1>4, PendingHandled, Zenon
  <2>3. QED BY <1>3, <2>1, <2>2, Zenon DEF Lined, Exempt
<1>5. CASE k = c.key
  <2>1. c.value \in Objects \cup {Absent} /\ known'[k] = c.value
    <3>1. c.value \in Objects \cup {Absent}
      BY <1>1, HandledTyped DEF React
    <3>2. QED BY <1>1, <1>5, <3>1, ReactCases, Zenon
  <2>2. PICK q \in Seq(Objects \cup {Absent}) : q = Pending(k)'
    BY <1>1, <1>5, PendingHandled, Zenon
  <2>3. Pending(k) = Joined(Single(c.value), q)
    BY <1>1, <1>5, <2>2, PendingHandled, Zenon
  <2>4. ASSUME Chain(known[k], Joined(Single(c.value), q), store[k]) PROVE Chain(c.value, q, store[k])
    BY <2>1, <2>4, ChainHandled
  <2>5. QED BY <1>3, <2>1, <2>2, <2>3, <2>4, Zenon DEF Lined, Exempt
<1>6. QED BY <1>4, <1>5

(* What is in a tree stays sound, unless its deletion is handled.          *)
LEMMA SoundReact ==
    ASSUME Typed, NEW w \in Watchers, React(w), NEW c, c = Head(batch[w]),
           NEW o \in Objects, Sound(o),
           Key(o) = c.key => c.value # Absent \/ known[c.key] = Absent
    PROVE  Sound(o)'
<1>1. PICK k \in Keys : k = Key(o)
  BY DEF Keys
<1>2. store' = store /\ lost' = lost /\ resent' = resent /\ replaced' = replaced
  BY DEF React
<1>3. CASE k # c.key
  <2>1. known'[k] = known[k]
    BY <1>3, ReactKnown, Zenon
  <2>2. Pending(k)' = Pending(k)
    BY <1>3, PendingHandled, Zenon
  <2>3. QED BY <1>1, <1>2, <2>1, <2>2, Zenon DEF Sound, Exempt
<1>4. CASE k = c.key
  <2>1. SUFFICES ASSUME ~Exempt(k)
                 PROVE  Chain(o, Pending(k)', store[k]) /\ known'[k] # Absent
    BY <1>1, <1>2, Zenon DEF Sound, Exempt
  <2>2. /\ Chain(o, Pending(k), store[k])
        /\ known[k] = Absent => Pending(k) = <<>> \/ Pending(k)[1] # Absent
    BY <1>1, <2>1, Zenon DEF Sound
  <2>3. c.value \in Objects \cup {Absent}
    BY HandledTyped DEF React
  <2>4. PICK q \in Seq(Objects \cup {Absent}) : q = Pending(k)'
    BY <1>4, PendingHandled, Zenon
  <2>5. Pending(k) = Joined(Single(c.value), q)
    BY <1>4, <2>4, PendingHandled, Zenon
  <2>6. Joined(Single(c.value), q) # <<>> /\ Joined(Single(c.value), q)[1] = c.value
    <3>1. <<c.value>> \o q # <<>> /\ (<<c.value>> \o q)[1] = c.value
      OBVIOUS
    <3>2. QED BY <3>1 DEF Joined, Single
  <2>7. c.value # Absent
    BY <1>1, <1>4, <2>2, <2>5, <2>6, Zenon
  <2>8. o # Absent
    BY ObjectsAssumption
  <2>9. Chain(o, Joined(Single(c.value), q), store[k])
    BY <2>2, <2>5, Zenon
  <2>10. Chain(o, q, store[k])
    BY <2>3, <2>7, <2>8, <2>9, ChainHandled
  <2>11. known'[k] = c.value
    BY <1>4, ReactKnown, Zenon
  <2>12. QED BY <2>4, <2>7, <2>10, <2>11, Zenon
<1>5. QED BY <1>3, <1>4

(* A route that stays in its tree keeps its source.                        *)
LEMMA SourceStays ==
    ASSUME Typed, RouteInv, NEW w \in Watchers, React(w), NEW c, c = Head(batch[w]),
           NEW s \in DOMAIN cache.trees, NEW p \in DOMAIN cache.trees[s],
           cache'.trees[s][p] = cache.trees[s][p], cache.trees[s][p] # Nil,
           \A o \in Objects : Routed(o) /\ Slot(o) = s /\ o.path = p /\ Key(o) = c.key =>
               c.value # Absent \/ known[c.key] = Absent
    PROVE  Sourced(s, p)'
<1>1. Sourced(s, p)
  BY DEF RouteInv
<1>2. PICK o \in Objects : /\ Routed(o) /\ Slot(o) = s /\ o.path = p
                           /\ Value(o) = cache.trees[s][p] /\ Sound(o)
  BY <1>1 DEF Sourced, HasRoute
<1>3. Sound(o)'
  BY <1>2, SoundReact
<1>4. QED BY <1>2, <1>3 DEF Sourced

(* The routes after a change was handled.                                  *)
LEMMA RouteReact ==
    ASSUME Typed, TreesGrown, RouteInv, NEW w \in Watchers, React(w)
    PROVE  RouteInv'
<1>1. PICK c : c = Head(batch[w])
  OBVIOUS
<1>2. \A k \in RoutedKeys : Lined(k)'
  BY LinedReact DEF RouteInv
<1>3. DOMAIN cache = CacheFields
  BY DEF Typed, KnownTyped
<1>4. SUFFICES ASSUME NEW s \in DOMAIN cache'.trees, NEW p \in DOMAIN cache'.trees[s],
                      cache'.trees[s][p] # Nil
               PROVE  Sourced(s, p)'
  BY <1>2 DEF RouteInv, Sourced, HasRoute
<1>5. ASSUME NEW x \in Objects, x = c.value, Key(x) = c.key, cache' = Modified(cache, x)
      PROVE  Sourced(s, p)'
  <2>1. c.value # Absent
    BY <1>5, ObjectsAssumption
  <2>2. CASE ~Routed(x)
    <3>1. cache'.trees = cache.trees
      BY <1>3, <1>5, <2>2, ModifiedOther
    <3>2. QED BY <1>1, <1>4, <2>1, <3>1, SourceStays
  <2>3. CASE Routed(x)
    <3>1. PICK t : t = Root(cache, Slot(x))
      OBVIOUS
    <3>2. PICK u : u = AddRoute(t, x.path, Value(x))
      OBVIOUS
    <3>3. /\ DOMAIN cache'.trees = DOMAIN cache.trees \cup {Slot(x)}
          /\ cache'.trees[Slot(x)] = u
          /\ \A y \in DOMAIN cache.trees : y # Slot(x) => cache'.trees[y] = cache.trees[y]
      BY <1>3, <1>5, <2>3, <3>1, <3>2, ModifiedRoute
    <3>4. CASE s # Slot(x)
      BY <1>1, <1>4, <2>1, <3>3, <3>4, SourceStays
    <3>5. CASE s = Slot(x)
      <4>1. (p = x.path /\ u[p] = Value(x)) \/ (p \in DOMAIN t /\ u[p] = t[p])
        <5>1. p \in DOMAIN u /\ u[p] # Nil
          BY <1>4, <3>3, <3>5
        <5>2. QED BY <3>2, <5>1 DEF AddRoute
      <4>2. CASE p = x.path /\ u[p] = Value(x)
        <5>1. Key(x) \in RoutedKeys
          BY <2>3 DEF RoutedKeys
        <5>2. Lined(Key(x))'
          BY <1>2, <5>1
        <5>3. known'[Key(x)] = x /\ x # Absent
          BY <1>1, <1>5, <2>1, ReactKnown, Zenon
        <5>4. Sound(x)'
          BY <5>2, <5>3, Zenon DEF Lined, Sound
        <5>5. QED BY <2>3, <3>3, <3>5, <4>2, <5>4 DEF Sourced
      <4>3. CASE p \in DOMAIN t /\ u[p] = t[p]
        <5>1. u[p] # Nil
          BY <1>4, <3>3, <3>5
        <5>2. s \in DOMAIN cache.trees /\ t = cache.trees[s]
          BY <3>1, <3>5, <4>3, <5>1 DEF Root, NewNode
        <5>3. QED BY <1>1, <2>1, <3>3, <3>5, <4>3, <5>1, <5>2, SourceStays
      <4>4. QED BY <4>1, <4>2, <4>3
    <3>6. QED BY <3>4, <3>5
  <2>4. QED BY <2>2, <2>3
<1>6. CASE c.value = Absent /\ known[c.key] = Absent /\ cache' = cache
  BY <1>1, <1>4, <1>6, SourceStays
<1>7. ASSUME NEW x \in Objects, x = known[c.key], Key(x) = c.key, Panics(cache, x), cache' = cache
      PROVE  Sourced(s, p)'
  <2>1. ASSUME NEW o \in Objects, Routed(o), Slot(o) = s, o.path = p, Key(o) = c.key PROVE FALSE
    <3>1. Slot(x) = s /\ x.path = p
      BY <1>7, <2>1, SameKey
    <3>2. PICK t : t = cache.trees[s]
      OBVIOUS
    <3>3. p \in DOMAIN t /\ Closed(t) /\ p # <<>> /\ SubSeq(p, 1, Len(p) - 1) \notin DOMAIN t
      BY <1>4, <1>7, <3>1, <3>2 DEF Panics, DeletePanics, TreesGrown, Grown
    <3>4. Front(p) \in DOMAIN t /\ Front(p) = SubSeq(p, 1, Len(p) - 1)
      BY <3>3 DEF Closed, Front
    <3>5. QED BY <3>3, <3>4
  <2>2. QED BY <1>1, <1>4, <1>7, <2>1, SourceStays
<1>8. ASSUME NEW x \in Objects, x = known[c.key], Key(x) = c.key, cache' = Deleted(cache, x)
      PROVE  Sourced(s, p)'
  <2>1. CASE ~(Routed(x) /\ Slot(x) \in DOMAIN cache.trees)
    <3>1. cache'.trees = cache.trees
      BY <1>3, <1>8, <2>1, DeletedOther
    <3>2. ASSUME NEW o \in Objects, Routed(o), Slot(o) = s, o.path = p, Key(o) = c.key PROVE FALSE
      BY <1>4, <1>8, <2>1, <3>1, <3>2, SameKey
    <3>3. QED BY <1>1, <1>4, <3>1, <3>2, SourceStays
  <2>2. CASE Routed(x) /\ Slot(x) \in DOMAIN cache.trees
    <3>1. PICK t : t = cache.trees[Slot(x)]
      OBVIOUS
    <3>2. PICK u : u = DeleteRoute(t, x.path)
      OBVIOUS
    <3>3. /\ DOMAIN cache'.trees = DOMAIN cache.trees
          /\ cache'.trees[Slot(x)] = u
          /\ \A y \in DOMAIN cache.trees : y # Slot(x) => cache'.trees[y] = cache.trees[y]
      BY <1>3, <1>8, <2>2, <3>1, <3>2, DeletedRoute
    <3>4. CASE s # Slot(x)
      <4>1. ASSUME NEW o \in Objects, Routed(o), Slot(o) = s, o.path = p, Key(o) = c.key PROVE FALSE
        BY <1>8, <3>4, <4>1, SameKey
      <4>2. QED BY <1>1, <1>4, <3>3, <3>4, <4>1, SourceStays
    <3>5. CASE s = Slot(x)
      <4>1. p \in DOMAIN u /\ u[p] # Nil
        BY <1>4, <3>3, <3>5
      <4>2. /\ DOMAIN u \subseteq DOMAIN t
            /\ \A m \in DOMAIN t : m # x.path => u[m] = t[m]
            /\ x.path \in DOMAIN u => u[x.path] = Nil
        BY <3>2, DeleteKeeps
      <4>3. p # x.path /\ p \in DOMAIN t /\ u[p] = t[p]
        BY <4>1, <4>2
      <4>4. ASSUME NEW o \in Objects, Routed(o), Slot(o) = s, o.path = p, Key(o) = c.key PROVE FALSE
        BY <1>8, <4>3, <4>4, SameKey
      <4>5. QED BY <1>1, <1>4, <3>1, <3>3, <3>5, <4>1, <4>3, <4>4, SourceStays
    <3>6. QED BY <3>4, <3>5
  <2>3. QED BY <2>1, <2>2
<1>9. QED BY <1>1, <1>5, <1>6, <1>7, <1>8, ReactCases, Zenon

(* Nothing is pending for a watcher that has caught up.                    *)
LEMMA NothingPending ==
    ASSUME Typed, KnownInv, NEW k \in Keys, CaughtUp(k[1])
    PROVE  Pending(k) = <<>> /\ known[k] = store[k]
<1>1. Queue(<<>>, <<>>) = <<>>
  <2>1. <<>> \in Seq({})
    OBVIOUS
  <2>2. QED BY <2>1, QueueAlone
<1>2. Pending(k) = <<>> /\ up[k[1]]
  BY <1>1, PendingIs, ToldEmpty, Zenon DEF CaughtUp
<1>3. Final(Pending(k), known[k]) = store[k]
  BY <1>2 DEF KnownInv, KnownLeads
<1>4. QED BY <1>2, <1>3 DEF Final

(* The invariant of the routes.                                            *)
ServeInv == KnownInv /\ TreeInv /\ RouteInv

(* The invariant holds at the start ...                                    *)
LEMMA ServeInit ==
    ASSUME Init
    PROVE  ServeInv
<1>1. ASSUME NEW k \in Keys PROVE /\ Pending(k) = <<>> /\ ~up[k[1]]
                                  /\ known[k] = Absent /\ store[k] = Absent
  BY KeyWatcher, PendingNone DEF Init
<1>2. KnownInv
  BY <1>1 DEF KnownInv, KnownLeads
<1>3. ASSUME NEW k \in RoutedKeys PROVE Lined(k)
  <2>1. k \in Keys
    BY RoutedKey
  <2>2. Chain(Absent, <<>>, Absent)
    BY ChainEmpty DEF Same
  <2>3. QED BY <1>1, <2>1, <2>2 DEF Lined
<1>4. RouteInv
  BY <1>3 DEF RouteInv, Init, NewCache
<1>5. QED BY <1>2, <1>4, TreeInit DEF ServeInv

(* ... and every step keeps its part on routes.                            *)
LEMMA RouteStep ==
    ASSUME Typed, ServeInv, [Next]_vars
    PROVE  RouteInv'
<1>1. CASE Distant
  <2>1. ASSUME NEW k \in RoutedKeys PROVE Lined(k)'
    BY <1>1, LinedDistant DEF ServeInv, RouteInv
  <2>2. cache' = cache
    BY <1>1 DEF Distant
  <2>3. ASSUME NEW s \in DOMAIN cache.trees, NEW p \in DOMAIN cache.trees[s] PROVE Sourced(s, p)'
    <3>1. Sourced(s, p)
      BY DEF ServeInv, RouteInv
    <3>2. ASSUME NEW o \in Objects, Routed(o), Sound(o) PROVE Sound(o)'
      BY <1>1, <3>2, SoundDistant DEF ServeInv
    <3>3. QED BY <2>2, <3>1, <3>2 DEF Sourced
  <2>4. QED BY <2>1, <2>2, <2>3 DEF RouteInv
<1>2. CASE Restart
  <2>1. ASSUME NEW k \in RoutedKeys PROVE Lined(k)'
    <3>1. k \in Keys
      BY RoutedKey
    <3>2. Pending(k)' = <<>> /\ known'[k] = Absent
      BY <1>2, <3>1, PendingRestarted DEF Restart
    <3>3. Chain(Absent, <<>>, store'[k])
      BY ChainEmpty DEF Same
    <3>4. QED BY <3>2, <3>3, Zenon DEF Lined
  <2>2. DOMAIN cache'.trees = {}
    BY <1>2 DEF Restart, NewCache
  <2>3. QED BY <2>1, <2>2 DEF RouteInv
<1>3. ASSUME NEW w \in Watchers, React(w) PROVE RouteInv'
  BY <1>3, RouteReact DEF ServeInv, TreeInv
<1>4. QED BY <1>1, <1>2, <1>3, KeySteps, Zenon

(* It holds in every state.                                                *)
LEMMA ServeInductive == Spec => [](Typed /\ ServeInv)
<1>1. Init => ServeInv
  BY ServeInit
<1>2. Typed /\ ServeInv /\ [Next]_vars => ServeInv'
  BY KnownStep, TreeStep, RouteStep DEF ServeInv
<1>3. QED BY <1>1, <1>2, FollowInductive, PTL DEF Spec

(* What is in a tree comes from the store, when nothing is pending.        *)
LEMMA SourceStored ==
    ASSUME Typed, ServeInv, NEW o \in Objects, Sound(o), ~Exempt(Key(o)), CaughtUp(o.kind)
    PROVE  \E x \in Objects : x = store[Key(o)] /\ Key(x) = Key(o) /\ Value(x) = Value(o)
<1>1. PICK k \in Keys : k = Key(o) /\ k[1] = o.kind
  BY KeyKind, Zenon
<1>2. Pending(k) = <<>>
  BY <1>1, NothingPending DEF ServeInv
<1>3. Chain(o, <<>>, store[k])
  BY <1>1, <1>2, Zenon DEF Sound
<1>4. Same(o, store[k]) /\ (store[k] = Absent => o = Absent) /\ o # Absent
  BY <1>3, ChainEmpty, ObjectsAssumption
<1>5. store[k] \in Objects /\ Key(store[k]) = k
  BY <1>4 DEF Typed, StoreTyped
<1>6. QED BY <1>1, <1>4, <1>5 DEF Same

(* A watcher that has caught up leaves no route to what is not in the      *)
(* store, after any interleaving of writes, batches, lost connections,     *)
(* failed AddRoute calls and deletions (watcher.go, subscription_cache.go, *)
(* cors_cache.go), but for missed deletions and values that were replaced  *)
(* without one: updated CORS configurations, and subscriptions a belated   *)
(* update wrote over another one of the same path (libkv/subscription.go). *)
THEOREM CacheHasNoStrays == Spec => []NoStrayRoute
<1>1. ASSUME Typed, ServeInv, NEW s \in DOMAIN cache.trees, CaughtUp(s[1]),
             NEW p \in DOMAIN cache.trees[s], cache.trees[s][p] # Nil
      PROVE  \E o \in Objects :
                /\ Routed(o) /\ Slot(o) = s /\ o.path = p
                /\ \/ store[Key(o)] = o /\ cache.trees[s][p] = Value(o)
                   \/ Key(o) \in lost \cup replaced
  <2>1. PICK o \in Objects : /\ Routed(o) /\ Slot(o) = s /\ o.path = p
                             /\ Value(o) = cache.trees[s][p] /\ Sound(o)
    BY <1>1 DEF ServeInv, RouteInv, Sourced, HasRoute
  <2>2. s[1] = o.kind
    BY <2>1 DEF Slot, Routed
  <2>3. CASE Exempt(Key(o))
    <3>1. Key(o) \in lost \cup replaced
      BY <2>3 DEF Exempt
    <3>2. QED BY <2>1, <3>1, Zenon
  <2>4. CASE ~Exempt(Key(o))
    <3>1. PICK x \in Objects : x = store[Key(o)] /\ Key(x) = Key(o) /\ Value(x) = Value(o)
      BY <1>1, <2>1, <2>2, <2>4, SourceStored
    <3>2. Routed(x) /\ Slot(x) = s /\ x.path = p
      BY <2>1, <3>1, SameKey
    <3>3. QED BY <2>1, <3>1, <3>2
  <2>5. QED BY <2>3, <2>4
<1>2. Typed /\ ServeInv => NoStrayRoute
  BY <1>1 DEF NoStrayRoute
<1>3. QED BY <1>2, ServeInductive, PTL

-----------------------------------------------------------------------------
(***************************************************************************)
(* Compatible routes are served.                                           *)
(***************************************************************************)

(* Every node on the way to a node is there.                               *)
LEMMA PrefixThere ==
    ASSUME NEW t, Closed(t), NEW r \in DOMAIN t, NEW i \in 0..Len(r)
    PROVE  SubSeq(r, 1, i) \in DOMAIN t
<1>1. r \in Seq(Segments) /\ Len(r) \in Nat
  BY DEF Closed
<1> DEFINE S == {k \in Nat : k <= Len(r) => SubSeq(r, 1, Len(r) - k) \in DOMAIN t}
<1>2. 0 \in S
  <2>1. SubSeq(r, 1, Len(r) - 0) = r
    BY <1>1
  <2>2. QED BY <2>1
<1>3. ASSUME NEW k \in S PROVE k + 1 \in S
  <2>1. SUFFICES ASSUME k + 1 <= Len(r) PROVE SubSeq(r, 1, Len(r) - (k + 1)) \in DOMAIN t
    OBVIOUS
  <2>2. PICK j \in 1..Len(r) : j = Len(r) - k /\ j - 1 = Len(r) - (k + 1)
    BY <1>1, <2>1
  <2>3. PICK m : m = SubSeq(r, 1, j)
    OBVIOUS
  <2>4. m \in DOMAIN t
    BY <1>1, <2>1, <2>2, <2>3
  <2>5. m # <<>> /\ Front(m) = SubSeq(r, 1, j - 1)
    <3>1. Len(m) = j /\ SubSeq(m, 1, j - 1) = SubSeq(r, 1, j - 1) /\ m # <<>>
      BY <1>1, <2>3
    <3>2. QED BY <3>1 DEF Front
  <2>6. QED BY <2>2, <2>4, <2>5 DEF Closed
<1>4. Nat \subseteq S
  <2> HIDE DEF S
  <2>1. QED BY <1>2, <1>3, Induction
<1>5. PICK k \in Nat : k = Len(r) - i /\ k <= Len(r) /\ Len(r) - k = i
  BY <1>1
<1>6. k \in S
  BY <1>4
<1>7. SubSeq(r, 1, Len(r) - k) \in DOMAIN t
  BY <1>5, <1>6
<1>8. QED BY <1>5, <1>7

(* One round of Resolve from the nodes in X, and the first n rounds, as    *)
(* the recursive definition in Resolve has them.                           *)
Round(t, p, i, X) == UNION {Descend(t, m, p[i]) : m \in X}

Rounds(f, t, p, n) ==
    f = [i \in 0..n |-> IF i = 0 THEN {<<>>}
                        ELSE UNION {Descend(t, m, p[i]) : m \in f[i - 1]}]

(* The walk along a path whose nodes are all there.                        *)
Straight(p, n) == [i \in 0..n |-> {SubSeq(p, 1, i)}]

(* A straight walk ends where the rounds of Resolve do.                    *)
LEMMA StraightRounds ==
    ASSUME NEW t, Closed(t), NEW p \in DOMAIN t, WellFormed(p)
    PROVE  Rounds(Straight(p, Len(p)), t, p, Len(p))
<1>1. p \in Seq(Segments)
  BY DEF Closed
<1>2. PICK n \in Nat : n = Len(p)
  BY <1>1
<1>3. SubSeq(p, 1, 0) = <<>>
  BY <1>1
<1>4. PICK f : f = Straight(p, n)
  OBVIOUS
<1>5. \A i \in 0..n : f[i] = {SubSeq(p, 1, i)}
  BY <1>4 DEF Straight
<1>6. ASSUME NEW i \in 1..n PROVE f[i] = Round(t, p, i, f[i - 1])
  <2>1. i - 1 \in 0..n /\ i \in 0..n
    OBVIOUS
  <2>2. PICK m : m = SubSeq(p, 1, i - 1)
    OBVIOUS
  <2>3. m \in Seq(Segments) /\ Len(m) = i - 1 /\ \A j \in 1..(i - 1) : m[j] = p[j]
    BY <1>1, <1>2, <2>2
  <2>4. Append(m, p[i]) = SubSeq(p, 1, i)
    BY <1>1, <1>2, <2>2
  <2>5. m # Nil
    BY <2>3, SegmentsAssumption
  <2>6. ASSUME m # <<>> PROVE m[Len(m)] \notin Wildcards
    <3>1. i - 1 \in 1..(n - 1)
      BY <2>3, <2>6
    <3>2. QED BY <1>2, <2>3, <3>1 DEF WellFormed
  <2>7. Append(m, p[i]) \in DOMAIN t
    BY <1>2, <2>1, <2>4, PrefixThere
  <2>8. Descend(t, m, p[i]) = {Append(m, p[i])}
    BY <2>5, <2>6, <2>7 DEF Descend
  <2>9. Round(t, p, i, {m}) = Descend(t, m, p[i])
    BY DEF Round
  <2>10. f[i - 1] = {m} /\ f[i] = {SubSeq(p, 1, i)}
    BY <1>5, <2>1, <2>2
  <2>11. QED BY <2>4, <2>8, <2>9, <2>10, Zenon
<1>7. \A i \in 0..n : f[i] = IF i = 0 THEN {<<>>} ELSE Round(t, p, i, f[i - 1])
  <2>1. f[0] = {<<>>}
    <3>1. 0 \in 0..n
      OBVIOUS
    <3>2. QED BY <1>3, <1>5, <3>1
  <2>2. \A i \in 0..n : i # 0 => i \in 1..n
    OBVIOUS
  <2>3. QED BY <1>6, <2>1, <2>2, Zenon
<1>8. f = [i \in 0..n |-> f[i]]
  BY <1>4 DEF Straight
<1>9. f = [i \in 0..n |-> IF i = 0 THEN {<<>>} ELSE Round(t, p, i, f[i - 1])]
  BY <1>7, <1>8, Zenon
<1>10. Rounds(f, t, p, n)
  BY <1>9, Zenon DEF Rounds, Round
<1>11. QED BY <1>2, <1>4, <1>10

(* Two functions that fit the recursive definition end alike.              *)
LEMMA RoundsAgree ==
    ASSUME NEW t, NEW p, NEW n \in Nat, NEW f, NEW g, Rounds(f, t, p, n), Rounds(g, t, p, n)
    PROVE  f[n] = g[n]
<1>1. \A i \in 0..n : f[i] = IF i = 0 THEN {<<>>} ELSE Round(t, p, i, f[i - 1])
  BY Zenon DEF Rounds, Round
<1>2. \A i \in 0..n : g[i] = IF i = 0 THEN {<<>>} ELSE Round(t, p, i, g[i - 1])
  BY Zenon DEF Rounds, Round
<1> DEFINE S == {k \in Nat : k <= n => f[k] = g[k]}
<1>3. 0 \in S
  <2>1. 0 \in 0..n
    OBVIOUS
  <2>2. f[0] = {<<>>} /\ g[0] = {<<>>}
    BY <1>1, <1>2, <2>1, Zenon
  <2>3. QED BY <2>2
<1>4. ASSUME NEW k \in S PROVE k + 1 \in S
  <2>1. SUFFICES ASSUME k + 1 <= n PROVE f[k + 1] = g[k + 1]
    OBVIOUS
  <2>2. PICK i \in 0..n : i = k + 1 /\ i # 0 /\ i - 1 = k
    BY <2>1
  <2>3. f[k] = g[k]
    BY <2>1
  <2>4. f[i] = g[i]
    BY <1>1, <1>2, <2>2, <2>3, Zenon
  <2>5. QED BY <2>2, <2>4
<1>5. Nat \subseteq S
  <2> HIDE DEF S
  <2>1. QED BY <1>3, <1>4, Induction
<1>6. QED BY <1>5

(* A route resolves to its own value.                                      *)
LEMMA ResolveRoute ==
    ASSUME NEW t, Closed(t), NEW p \in DOMAIN t, WellFormed(p)
    PROVE  Resolve(t, p) = {t[p]}
<1> DEFINE at[i \in 0..Len(p)] ==
               IF i = 0 THEN {<<>>}
               ELSE UNION {Descend(t, m, p[i]) : m \in at[i - 1]}
<1>1. Resolve(t, p) = {IF m = Nil THEN Nil ELSE t[m] : m \in at[Len(p)]}
  BY DEF Resolve
<1>2. at = CHOOSE f : f = [i \in 0..Len(p) |->
                             IF i = 0 THEN {<<>>}
                             ELSE UNION {Descend(t, m, p[i]) : m \in f[i - 1]}]
  OBVIOUS
<1>3. Rounds(Straight(p, Len(p)), t, p, Len(p))
  BY StraightRounds
<1>4. Rounds(at, t, p, Len(p))
  <2> HIDE DEF at
  <2>1. \E f : f = [i \in 0..Len(p) |->
                      IF i = 0 THEN {<<>>}
                      ELSE UNION {Descend(t, m, p[i]) : m \in f[i - 1]}]
    BY <1>3, Zenon DEF Rounds
  <2>2. QED BY <1>2, <2>1, Zenon DEF Rounds
<1> HIDE DEF at
<1>5. p \in Seq(Segments) /\ Len(p) \in Nat
  BY DEF Closed
<1>6. at[Len(p)] = Straight(p, Len(p))[Len(p)]
  BY <1>3, <1>4, <1>5, RoundsAgree
<1>7. Straight(p, Len(p))[Len(p)] = {p}
  <2>1. Len(p) \in 0..Len(p) /\ SubSeq(p, 1, Len(p)) = p
    BY <1>5
  <2>2. QED BY <2>1 DEF Straight
<1>8. p # Nil
  BY <1>5, SegmentsAssumption
<1>9. {IF m = Nil THEN Nil ELSE t[m] : m \in {p}} = {t[p]}
  BY <1>8
<1>10. QED BY <1>1, <1>6, <1>7, <1>9

(* The router finds every sync subscription and CORS configuration of the  *)
(* store that is compatible with all others there may be, once its watcher *)
(* has caught up: no lost connection, failed AddRoute call, deletion or    *)
(* write of another object takes it out of the tree (subscription_cache.go,*)
(* cors_cache.go, pathtree/tree.go).  The writes are those of any number   *)
(* of requests that checked what they write at any earlier time.           *)
THEOREM CacheServesRoutes == Spec => []RouteServed
<1>1. ASSUME Typed, ServeInv, NEW o \in Objects, Routed(o), CaughtUp(o.kind),
             store[Key(o)] = o, Key(o) \notin lost \cup replaced,
             WellFormed(o.path), \A x \in Objects : ~Incompatible(o, x)
      PROVE  Resolved(cache, Slot(o), o.path) = {Value(o)}
  <2>1. PICK k \in Keys : k = Key(o) /\ k[1] = o.kind
    BY KeyKind, Zenon
  <2>2. known[k] = o
    BY <1>1, <2>1, NothingPending DEF ServeInv
  <2>3. Compatible(o)
    BY <1>1 DEF Compatible
  <2>4. Slot(o) \in DOMAIN cache.trees /\ HasRoute(cache.trees[Slot(o)], o.path)
    <3>1. o # Absent
      BY ObjectsAssumption
    <3>2. QED BY <1>1, <2>1, <2>2, <2>3, <3>1 DEF ServeInv, TreeInv, Placed
  <2>5. PICK t : t = cache.trees[Slot(o)]
    OBVIOUS
  <2>6. o.path \in DOMAIN t /\ t[o.path] # Nil
    BY <2>4, <2>5 DEF HasRoute
  <2>7. PICK x \in Objects : /\ Routed(x) /\ Slot(x) = Slot(o) /\ x.path = o.path
                             /\ Value(x) = t[o.path] /\ Sound(x)
    BY <1>1, <2>4, <2>5, <2>6 DEF ServeInv, RouteInv, Sourced
  <2>8. Key(x) = Key(o)
    BY <2>3, <2>7, OtherPath
  <2>9. ~Exempt(Key(x))
    BY <1>1, <2>8 DEF Exempt
  <2>10. x.kind = o.kind
    BY <1>1, <2>8, SameKey
  <2>11. Value(o) = Value(x)
    BY <1>1, <2>7, <2>8, <2>9, <2>10, SourceStored
  <2>12. Closed(t) /\ WellFormed(o.path)
    BY <1>1, <2>4, <2>5 DEF ServeInv, TreeInv, TreesGrown, Grown
  <2>13. Resolve(t, o.path) = {t[o.path]}
    BY <2>6, <2>12, ResolveRoute
  <2>14. QED BY <2>4, <2>5, <2>7, <2>11, <2>13 DEF Resolved
<1>2. Typed /\ ServeInv => RouteServed
  BY <1>1 DEF RouteServed
<1>3. QED BY <1>2, ServeInductive, PTL

-----------------------------------------------------------------------------
(***************************************************************************)
(* The lists of async subscribers.                                         *)
(***************************************************************************)

(* The places of e in the list s.                                          *)
PlacesOf(s, e) == {i \in 1..Len(s) : s[i] = e}

Alone(S) == \E i : S = {i}

(* Where RemoveFirst removes.                                              *)
FirstPlace(s, e) == SelectInSeq(s, LAMBDA v : v = e)

(* RemoveFirst removes at the first place, or nothing.                     *)
LEMMA FirstRemoved ==
    ASSUME NEW s, NEW e
    PROVE  \/ PlacesOf(s, e) = {} /\ RemoveFirst(s, e) = s
           \/ \E r \in PlacesOf(s, e) : RemoveFirst(s, e) = RemoveAt(s, r)
<1>1. RemoveFirst(s, e) = IF \E i \in 1..Len(s) : s[i] = e THEN RemoveAt(s, FirstPlace(s, e)) ELSE s
  BY DEF RemoveFirst, FirstPlace
<1>2. FirstPlace(s, e) = IF PlacesOf(s, e) # {} THEN Min(PlacesOf(s, e)) ELSE 0
  BY DEF FirstPlace, SelectInSeq, PlacesOf
<1>3. CASE PlacesOf(s, e) = {}
  BY <1>1, <1>3 DEF PlacesOf
<1>4. CASE PlacesOf(s, e) # {}
  <2>1. PICK I : I = PlacesOf(s, e)
    OBVIOUS
  <2>2. I \in SUBSET Nat /\ I # {}
    BY <1>4, <2>1 DEF PlacesOf
  <2>3. \E n \in I : \A k \in I : n <= k
    BY <2>2, Least
  <2>4. Min(I) \in I
    BY <2>3 DEF Min
  <2>5. RemoveFirst(s, e) = RemoveAt(s, Min(I))
    BY <1>1, <1>2, <1>4, <2>1 DEF PlacesOf
  <2>6. QED BY <2>1, <2>4, <2>5
<1>5. QED BY <1>3, <1>4

(* The list without its place r: those after it move up.                   *)
LEMMA RemovedAt ==
    ASSUME NEW T, NEW s \in Seq(T), NEW r \in 1..Len(s), NEW u, u = RemoveAt(s, r)
    PROVE  /\ u \in Seq(T) /\ Len(u) = Len(s) - 1
           /\ \A i \in 1..(r - 1) : u[i] = s[i]
           /\ \A i \in r..(Len(s) - 1) : u[i] = s[i + 1]
<1>1. PICK n \in Nat : n = Len(s)
  OBVIOUS
<1>2. PICK a : a = SubSeq(s, 1, r - 1)
  OBVIOUS
<1>3. a \in Seq(T) /\ Len(a) = r - 1 /\ \A i \in 1..(r - 1) : a[i] = s[i]
  BY <1>2
<1>4. PICK b : b = SubSeq(s, r + 1, n)
  OBVIOUS
<1>5. b \in Seq(T) /\ Len(b) = n - r /\ \A i \in 1..(n - r) : b[i] = s[r + i]
  <2>1. r + 1 \in 1..(n + 1) /\ n \in 0..n
    BY <1>1
  <2>2. QED BY <1>1, <1>4, <2>1
<1>6. u = a \o b
  BY <1>1, <1>2, <1>4 DEF RemoveAt
<1>7. /\ u \in Seq(T) /\ Len(u) = Len(a) + Len(b)
      /\ \A i \in 1..Len(a) : u[i] = a[i]
      /\ \A i \in 1..Len(b) : u[Len(a) + i] = b[i]
  <2>1. /\ a \o b \in Seq(T) /\ Len(a \o b) = Len(a) + Len(b)
        /\ \A i \in 1..Len(a) : (a \o b)[i] = a[i]
        /\ \A i \in 1..Len(b) : (a \o b)[Len(a) + i] = b[i]
    <3>1. PICK x \in Seq(T) : x = a
      BY <1>3
    <3>2. PICK y \in Seq(T) : y = b
      BY <1>5
    <3>3. QED BY <3>1, <3>2, ConcatProperties
  <2>2. QED BY <1>6, <2>1, Zenon
<1>8. Len(u) = n - 1 /\ \A i \in 1..(r - 1) : u[i] = s[i]
  BY <1>1, <1>3, <1>5, <1>7
<1>9. ASSUME NEW i \in r..(n - 1) PROVE u[i] = s[i + 1]
  <2>1. PICK j \in 1..(n - r) : j = i - (r - 1) /\ (r - 1) + j = i /\ r + j = i + 1
    BY <1>1
  <2>2. u[(r - 1) + j] = b[j]
    BY <1>3, <1>5, <1>7
  <2>3. QED BY <1>5, <2>1, <2>2
<1>10. QED BY <1>1, <1>7, <1>8, <1>9

(* A value is added: one place more for it, the same for others.           *)
LEMMA PlacesAdded ==
    ASSUME NEW T, NEW s \in Seq(T), NEW v \in T, NEW e
    PROVE  PlacesOf(Append(s, v), e) = IF v = e THEN PlacesOf(s, e) \cup {Len(s) + 1}
                                                ELSE PlacesOf(s, e)
<1>1. PICK n \in Nat : n = Len(s)
  OBVIOUS
<1>2. PICK u : u = Append(s, v)
  OBVIOUS
<1>3. Len(u) = n + 1 /\ u[n + 1] = v /\ \A i \in 1..n : u[i] = s[i]
  BY <1>1, <1>2
<1>4. \A i : i \in 1..(n + 1) <=> i \in 1..n \/ i = n + 1
  OBVIOUS
<1>5. QED BY <1>1, <1>2, <1>3, <1>4 DEF PlacesOf

(* A value is removed: the only place of it, and none of another.          *)
LEMMA PlacesRemoved ==
    ASSUME NEW T, NEW s \in Seq(T), NEW v \in T, NEW e, NEW u, u = RemoveFirst(s, v)
    PROVE  /\ u \in Seq(T)
           /\ PlacesOf(s, e) = {} => PlacesOf(u, e) = {}
           /\ v # e /\ PlacesOf(s, e) # {} => PlacesOf(u, e) # {}
           /\ v # e /\ Alone(PlacesOf(s, e)) => Alone(PlacesOf(u, e))
           /\ v = e /\ Alone(PlacesOf(s, e)) => PlacesOf(u, e) = {}
<1>1. CASE PlacesOf(s, v) = {} /\ u = s
  BY <1>1
<1>2. ASSUME NEW r \in PlacesOf(s, v), u = RemoveAt(s, r)
      PROVE  /\ u \in Seq(T)
             /\ PlacesOf(s, e) = {} => PlacesOf(u, e) = {}
             /\ v # e /\ PlacesOf(s, e) # {} => PlacesOf(u, e) # {}
             /\ v # e /\ Alone(PlacesOf(s, e)) => Alone(PlacesOf(u, e))
             /\ v = e /\ Alone(PlacesOf(s, e)) => PlacesOf(u, e) = {}
  <2>1. PICK n \in Nat : n = Len(s)
    OBVIOUS
  <2>2. r \in 1..n /\ s[r] = v
    BY <2>1 DEF PlacesOf
  <2>3. /\ u \in Seq(T) /\ Len(u) = n - 1
        /\ \A i \in 1..(r - 1) : u[i] = s[i]
        /\ \A i \in r..(n - 1) : u[i] = s[i + 1]
    <3>1. r \in 1..Len(s)
      BY <2>1, <2>2
    <3>2. /\ u \in Seq(T) /\ Len(u) = Len(s) - 1
          /\ \A i \in 1..(r - 1) : u[i] = s[i]
          /\ \A i \in r..(Len(s) - 1) : u[i] = s[i + 1]
      BY <1>2, <3>1, RemovedAt, Zenon
    <3>3. QED BY <2>1, <3>2, Zenon
  <2>4. ASSUME NEW i \in PlacesOf(s, e), i # r
        PROVE  (IF i < r THEN i ELSE i - 1) \in PlacesOf(u, e)
    <3>1. i \in 1..n /\ s[i] = e
      BY <2>1 DEF PlacesOf
    <3>2. CASE i < r
      <4>1. i \in 1..(r - 1) /\ i \in 1..(n - 1)
        BY <2>2, <3>1, <3>2
      <4>2. QED BY <2>3, <3>1, <3>2, <4>1 DEF PlacesOf
    <3>3. CASE ~(i < r)
      <4>1. i - 1 \in r..(n - 1) /\ i - 1 \in 1..(n - 1) /\ (i - 1) + 1 = i
        BY <2>2, <2>4, <3>1, <3>3
      <4>2. u[i - 1] = e
        BY <2>3, <3>1, <4>1
      <4>3. QED BY <2>3, <3>3, <4>1, <4>2 DEF PlacesOf
    <3>4. QED BY <3>2, <3>3
  <2>5. ASSUME NEW j \in PlacesOf(u, e)
        PROVE  \E i \in PlacesOf(s, e) : i # r /\ j = IF i < r THEN i ELSE i - 1
    <3>1. j \in 1..(n - 1) /\ u[j] = e
      BY <2>3 DEF PlacesOf
    <3>2. CASE j < r
      <4>1. j \in 1..(r - 1) /\ j \in 1..n
        BY <2>2, <3>1, <3>2
      <4>2. j \in PlacesOf(s, e)
        BY <2>1, <2>3, <3>1, <4>1 DEF PlacesOf
      <4>3. j # r
        BY <2>2, <3>1, <3>2
      <4>4. QED BY <3>2, <4>2, <4>3
    <3>3. CASE ~(j < r)
      <4>1. PICK i : i = j + 1
        OBVIOUS
      <4>2. j \in r..(n - 1) /\ i \in 1..n /\ i # r /\ ~(i < r) /\ i - 1 = j
        BY <2>2, <3>1, <3>3, <4>1
      <4>3. i \in PlacesOf(s, e)
        BY <2>1, <2>3, <3>1, <4>1, <4>2 DEF PlacesOf
      <4>4. QED BY <4>2, <4>3
    <3>4. QED BY <3>2, <3>3
  <2>6. v # e => r \notin PlacesOf(s, e)
    BY <2>2 DEF PlacesOf
  <2>7. v = e => r \in PlacesOf(s, e)
    BY <2>2
  <2>8. PlacesOf(s, e) = {} => PlacesOf(u, e) = {}
    BY <2>5
  <2>9. v # e /\ PlacesOf(s, e) # {} => PlacesOf(u, e) # {}
    BY <2>4, <2>6
  <2>10. v = e /\ Alone(PlacesOf(s, e)) => PlacesOf(u, e) = {}
    BY <2>5, <2>7 DEF Alone
  <2>11. ASSUME v # e, NEW i, PlacesOf(s, e) = {i}
         PROVE  \E j : PlacesOf(u, e) = {j}
    <3>1. PICK j : j = IF i < r THEN i ELSE i - 1
      OBVIOUS
    <3>2. j \in PlacesOf(u, e)
      BY <2>4, <2>6, <2>11, <3>1
    <3>3. \A m \in PlacesOf(u, e) : m = j
      BY <2>5, <2>11, <3>1
    <3>4. QED BY <3>2, <3>3
  <2>12. QED BY <2>3, <2>8, <2>9, <2>10, <2>11 DEF Alone
<1>3. QED BY <1>1, <1>2, FirstRemoved

(* The lists hold what the caches hold of async subscriptions.             *)
AsyncValues == {Value(o) : o \in {x \in Objects : IsAsync(x)}}

ListTyped ==
    /\ DOMAIN cache.async = AsyncSlots
    /\ \A s \in AsyncSlots : cache.async[s] \in Seq(AsyncValues)

PlaceOf(o) == PlacesOf(cache.async[Slot(o)], Value(o))

(* Values and deletions take turns in q, beginning after d.                *)
Alternates(d, q) == \A i \in 1..Len(q) : q[i] = Absent <=> At(d, q, i - 1) # Absent

(* o has one place if the watcher knows of it, and none otherwise; what    *)
(* is still told adds it and removes it in turn.                           *)
Once(o) ==
    /\ IF known[Key(o)] = Absent THEN PlaceOf(o) = {} ELSE Alone(PlaceOf(o))
    /\ Alternates(known[Key(o)], Pending(Key(o)))
    /\ store[Key(o)] = Absent => Final(Pending(Key(o)), known[Key(o)]) = Absent

Listed(o) ==
    /\ known[Key(o)] # Absent => PlaceOf(o) # {}
    /\ Key(o) \notin lost \cup resent => Once(o)

ListInv == ListTyped /\ \A o \in Objects : IsAsync(o) => Listed(o)

(* The place in the lists and the key of an async subscription are two     *)
(* views of the same fields.                                               *)
LEMMA AsyncKey ==
    ASSUME NEW o \in Objects, NEW x \in Objects, IsAsync(o)
    PROVE  /\ IsAsync(x) /\ Slot(x) = Slot(o) /\ Value(x) = Value(o) => Key(x) = Key(o)
           /\ Key(x) = Key(o) => IsAsync(x) /\ Slot(x) = Slot(o) /\ Value(x) = Value(o)
<1>1. ASSUME NEW y \in Objects, IsAsync(y)
      PROVE  /\ Key(y) = <<y.kind, y.space, y.event, y.path, y.function>>
             /\ y.kind = "subscription"
             /\ Slot(y) = <<y.event, y.path>> /\ Value(y) = <<y.space, y.function>>
  <2>1. y.kind = "subscription" /\ y.kind \notin Plain /\ ~Routed(y)
    BY <1>1 DEF IsAsync, Plain, Routed
  <2>2. QED BY <1>1, <2>1 DEF Key, Slot, Value
<1>2. ASSUME IsAsync(x), Slot(x) = Slot(o), Value(x) = Value(o) PROVE Key(x) = Key(o)
  <2>1. x.event = o.event /\ x.path = o.path /\ x.space = o.space /\ x.function = o.function
    BY <1>1, <1>2
  <2>2. QED BY <1>1, <1>2, <2>1
<1>3. ASSUME Key(x) = Key(o) PROVE IsAsync(x) /\ Slot(x) = Slot(o) /\ Value(x) = Value(o)
  <2>1. x.kind = o.kind
    BY <1>3, KeyKind, Zenon
  <2>2. IsAsync(x)
    <3>1. SUFFICES ASSUME ~IsAsync(x) PROVE FALSE
      OBVIOUS
    <3>2. x.kind \notin Plain
      BY <1>1, <2>1 DEF Plain
    <3>3. Key(x) = <<x.kind, x.space, x.event, x.path>>
      BY <3>1, <3>2 DEF Key, Routed
    <3>4. Len(Key(x)) = 4 /\ Len(Key(o)) = 5
      BY <1>1, <3>3
    <3>5. QED BY <1>3, <3>4
  <2>3. x.event = o.event /\ x.path = o.path /\ x.space = o.space /\ x.function = o.function
    BY <1>1, <1>3, <2>2
  <2>4. QED BY <1>1, <2>2, <2>3
<1>4. QED BY <1>2, <1>3

(* What Modified does to the lists.                                        *)
LEMMA ModifiedAsync ==
    ASSUME NEW c, DOMAIN c = CacheFields, NEW o \in Objects
    PROVE  Modified(c, o).async = IF IsAsync(o) THEN AsyncModified(c, o).async ELSE c.async
<1>1. CASE o.kind \in Plain
  <2>1. ~IsAsync(o) /\ Modified(c, o) = ObjectModified(c, o)
    BY <1>1 DEF Modified, IsAsync, Routed, Plain
  <2>2. QED BY <2>1 DEF ObjectModified, CacheFields
<1>2. CASE o.kind \notin Plain /\ IsAsync(o)
  <2>1. Modified(c, o) = AsyncModified(c, o)
    BY <1>2 DEF Modified, Routed
  <2>2. QED BY <1>2, <2>1
<1>3. CASE o.kind \notin Plain /\ ~IsAsync(o)
  <2>1. Modified(c, o) = RouteModified(c, o)
    BY <1>3 DEF Modified, Routed
  <2>2. QED BY <1>3, <2>1 DEF RouteModified, Planted, CacheFields
<1>4. QED BY <1>1, <1>2, <1>3

(* The same of Deleted.                                                    *)
LEMMA DeletedAsync ==
    ASSUME NEW c, DOMAIN c = CacheFields, NEW o \in Objects
    PROVE  Deleted(c, o).async = IF IsAsync(o) THEN AsyncDeleted(c, o).async ELSE c.async
<1>1. CASE o.kind \in Plain
  <2>1. ~IsAsync(o) /\ Deleted(c, o) = ObjectDeleted(c, o)
    BY <1>1 DEF Deleted, IsAsync, Routed, Plain
  <2>2. QED BY <2>1 DEF ObjectDeleted, CacheFields
<1>2. CASE o.kind \notin Plain /\ IsAsync(o)
  <2>1. Deleted(c, o) = AsyncDeleted(c, o)
    BY <1>2 DEF Deleted, Routed
  <2>2. QED BY <1>2, <2>1
<1>3. CASE o.kind \notin Plain /\ ~IsAsync(o)
  <2>1. Deleted(c, o) = RouteDeleted(c, o)
    BY <1>3 DEF Deleted, Routed
  <2>2. QED BY <1>3, <2>1 DEF RouteDeleted, CacheFields
<1>4. QED BY <1>1, <1>2, <1>3

(* The lists after a subscription was added.                               *)
LEMMA AsyncAdded ==
    ASSUME DOMAIN cache = CacheFields, ListTyped, NEW x \in Objects, cache' = Modified(cache, x)
    PROVE  /\ ListTyped'
           /\ \A o \in Objects : IsAsync(o) =>
                 /\ Key(o) # Key(x) => PlaceOf(o)' = PlaceOf(o)
                 /\ Key(o) = Key(x) => \E n : PlaceOf(o)' = PlaceOf(o) \cup {n}
<1>1. CASE ~IsAsync(x)
  <2>1. cache'.async = cache.async
    BY <1>1, ModifiedAsync
  <2>2. ListTyped' /\ \A o \in Objects : PlaceOf(o)' = PlaceOf(o)
    BY <2>1 DEF ListTyped, PlaceOf
  <2>3. \A o \in Objects : IsAsync(o) => Key(o) # Key(x)
    BY <1>1, AsyncKey
  <2>4. QED BY <2>2, <2>3, Zenon
<1>2. CASE IsAsync(x)
  <2>1. Slot(x) \in AsyncSlots /\ Value(x) \in AsyncValues
    BY <1>2 DEF AsyncSlots, AsyncValues
  <2>2. PICK t \in Seq(AsyncValues) : t = cache.async[Slot(x)]
    BY <2>1 DEF ListTyped
  <2>3. PICK u : u = Append(t, Value(x))
    OBVIOUS
  <2>4. cache'.async = [cache.async EXCEPT ![Slot(x)] = u]
    BY <1>2, <2>2, <2>3, ModifiedAsync DEF AsyncModified, CacheFields
  <2>5. /\ DOMAIN cache'.async = AsyncSlots /\ cache'.async[Slot(x)] = u
        /\ \A s \in AsyncSlots : s # Slot(x) => cache'.async[s] = cache.async[s]
    BY <2>1, <2>4 DEF ListTyped
  <2>6. u \in Seq(AsyncValues)
    BY <2>1, <2>3
  <2>7. ListTyped'
    BY <2>5, <2>6 DEF ListTyped
  <2>8. ASSUME NEW o \in Objects, IsAsync(o)
        PROVE  /\ Key(o) # Key(x) => PlaceOf(o)' = PlaceOf(o)
               /\ Key(o) = Key(x) => \E n : PlaceOf(o)' = PlaceOf(o) \cup {n}
    <3>1. Slot(o) \in AsyncSlots
      BY <2>8 DEF AsyncSlots
    <3>2. CASE Slot(o) # Slot(x)
      <4>1. Key(o) # Key(x)
        BY <1>2, <3>2, AsyncKey
      <4>2. QED BY <2>5, <3>1, <3>2, <4>1 DEF PlaceOf
    <3>3. CASE Slot(o) = Slot(x)
      <4>1. PlaceOf(o) = PlacesOf(t, Value(o)) /\ PlaceOf(o)' = PlacesOf(u, Value(o))
        BY <2>2, <2>5, <3>3 DEF PlaceOf
      <4>2. PlacesOf(u, Value(o)) = IF Value(x) = Value(o) THEN PlacesOf(t, Value(o)) \cup {Len(t) + 1}
                                                          ELSE PlacesOf(t, Value(o))
        BY <2>1, <2>3, PlacesAdded
      <4>3. Key(o) = Key(x) <=> Value(x) = Value(o)
        BY <1>2, <2>8, <3>3, AsyncKey
      <4>4. QED BY <4>1, <4>2, <4>3, Zenon
    <3>4. QED BY <3>2, <3>3
  <2>9. QED BY <2>7, <2>8
<1>3. QED BY <1>1, <1>2

(* The lists after one was removed.                                        *)
LEMMA AsyncRemoved ==
    ASSUME DOMAIN cache = CacheFields, ListTyped, NEW x \in Objects, cache' = Deleted(cache, x)
    PROVE  /\ ListTyped'
           /\ \A o \in Objects : IsAsync(o) =>
                 /\ PlaceOf(o) = {} => PlaceOf(o)' = {}
                 /\ Key(o) # Key(x) /\ PlaceOf(o) # {} => PlaceOf(o)' # {}
                 /\ Key(o) # Key(x) /\ Alone(PlaceOf(o)) => Alone(PlaceOf(o)')
                 /\ Key(o) = Key(x) /\ Alone(PlaceOf(o)) => PlaceOf(o)' = {}
<1>1. CASE ~IsAsync(x)
  <2>1. cache'.async = cache.async
    BY <1>1, DeletedAsync
  <2>2. ListTyped' /\ \A o \in Objects : PlaceOf(o)' = PlaceOf(o)
    BY <2>1 DEF ListTyped, PlaceOf
  <2>3. \A o \in Objects : IsAsync(o) => Key(o) # Key(x)
    BY <1>1, AsyncKey
  <2>4. QED BY <2>2, <2>3, Zenon
<1>2. CASE IsAsync(x)
  <2>1. Slot(x) \in AsyncSlots /\ Value(x) \in AsyncValues
    BY <1>2 DEF AsyncSlots, AsyncValues
  <2>2. PICK t \in Seq(AsyncValues) : t = cache.async[Slot(x)]
    BY <2>1 DEF ListTyped
  <2>3. PICK u : u = RemoveFirst(t, Value(x))
    OBVIOUS
  <2>4. cache'.async = [cache.async EXCEPT ![Slot(x)] = u]
    BY <1>2, <2>2, <2>3, DeletedAsync DEF AsyncDeleted, CacheFields
  <2>5. /\ DOMAIN cache'.async = AsyncSlots /\ cache'.async[Slot(x)] = u
        /\ \A s \in AsyncSlots : s # Slot(x) => cache'.async[s] = cache.async[s]
    BY <2>1, <2>4 DEF ListTyped
  <2>6. u \in Seq(AsyncValues)
    BY <2>1, <2>3, PlacesRemoved
  <2>7. ListTyped'
    BY <2>5, <2>6 DEF ListTyped
  <2>8. ASSUME NEW o \in Objects, IsAsync(o)
        PROVE  /\ PlaceOf(o) = {} => PlaceOf(o)' = {}
               /\ Key(o) # Key(x) /\ PlaceOf(o) # {} => PlaceOf(o)' # {}
               /\ Key(o) # Key(x) /\ Alone(PlaceOf(o)) => Alone(PlaceOf(o)')
               /\ Key(o) = Key(x) /\ Alone(PlaceOf(o)) => PlaceOf(o)' = {}
    <3>1. Slot(o) \in AsyncSlots
      BY <2>8 DEF AsyncSlots
    <3>2. CASE Slot(o) # Slot(x)
      <4>1. Key(o) # Key(x)
        BY <1>2, <3>2, AsyncKey
      <4>2. PlaceOf(o)' = PlaceOf(o)
        BY <2>5, <3>1, <3>2 DEF PlaceOf
      <4>3. QED BY <4>1, <4>2, Zenon
    <3>3. CASE Slot(o) = Slot(x)
      <4>1. PlaceOf(o) = PlacesOf(t, Value(o)) /\ PlaceOf(o)' = PlacesOf(u, Value(o))
        BY <2>2, <2>5, <3>3 DEF PlaceOf
      <4>2. /\ PlacesOf(t, Value(o)) = {} => PlacesOf(u, Value(o)) = {}
            /\ Value(x) # Value(o) /\ PlacesOf(t, Value(o)) # {} => PlacesOf(u, Value(o)) # {}
            /\ Value(x) # Value(o) /\ Alone(PlacesOf(t, Value(o))) => Alone(PlacesOf(u, Value(o)))
            /\ Value(x) = Value(o) /\ Alone(PlacesOf(t, Value(o))) => PlacesOf(u, Value(o)) = {}
        <5>1. PICK v \in AsyncValues : v = Value(x)
          BY <2>1
        <5>2. PICK e : e = Value(o)
          OBVIOUS
        <5>3. /\ PlacesOf(t, e) = {} => PlacesOf(u, e) = {}
              /\ v # e /\ PlacesOf(t, e) # {} => PlacesOf(u, e) # {}
              /\ v # e /\ Alone(PlacesOf(t, e)) => Alone(PlacesOf(u, e))
              /\ v = e /\ Alone(PlacesOf(t, e)) => PlacesOf(u, e) = {}
          BY <2>3, <5>1, PlacesRemoved
        <5>4. QED BY <5>1, <5>2, <5>3, Zenon
      <4>3. Key(o) = Key(x) <=> Value(x) = Value(o)
        BY <1>2, <2>8, <3>3, AsyncKey
      <4>4. QED BY <4>1, <4>2, <4>3, Zenon
    <3>4. QED BY <3>2, <3>3
  <2>9. QED BY <2>7, <2>8
<1>3. QED BY <1>1, <1>2

(* The laws of taking turns.                                               *)
LEMMA TurnsHeard ==
    ASSUME NEW T, NEW d, NEW q \in Seq(T), NEW v \in T, Alternates(d, q),
           v = Absent <=> Final(q, d) # Absent
    PROVE  Alternates(d, Append(q, v))
<1>1. PICK n \in Nat : n = Len(q)
  OBVIOUS
<1>2. PICK r : r = Append(q, v)
  OBVIOUS
<1>3. Len(r) = n + 1 /\ r[n + 1] = v /\ \A i \in 1..n : r[i] = q[i]
  BY <1>1, <1>2
<1>4. \A i \in 0..n : At(d, r, i) = At(d, q, i)
  BY <1>3 DEF At
<1>5. Final(q, d) = At(d, q, n)
  BY <1>1 DEF Final, At
<1>6. ASSUME NEW i \in 1..(n + 1) PROVE r[i] = Absent <=> At(d, r, i - 1) # Absent
  <2>1. CASE i = n + 1
    BY <1>3, <1>4, <1>5, <2>1
  <2>2. CASE i # n + 1
    <3>1. i \in 1..n /\ i - 1 \in 0..n
      BY <2>2
    <3>2. q[i] = Absent <=> At(d, q, i - 1) # Absent
      BY <1>1, <3>1 DEF Alternates
    <3>3. QED BY <1>3, <1>4, <3>1, <3>2
  <2>3. QED BY <2>1, <2>2
<1>7. QED BY <1>2, <1>3, <1>6 DEF Alternates

(* What is cut off at the end leaves the rest taking turns.                *)
LEMMA TurnsCut ==
    ASSUME NEW T, NEW d, NEW q \in Seq(T), NEW u \in Seq(T), Alternates(d, Joined(q, u))
    PROVE  Alternates(d, q)
<1>1. PICK n \in Nat : n = Len(q)
  OBVIOUS
<1>2. PICK l \in Nat : l = Len(u)
  OBVIOUS
<1>3. PICK r \in Seq(T) : r = Joined(q, u)
  BY JoinedLaws
<1>4. Len(r) = n + l /\ \A i \in 1..n : r[i] = q[i]
  <2>1. Len(Joined(q, u)) = Len(q) + Len(u) /\ \A i \in 1..Len(q) : Joined(q, u)[i] = q[i]
    BY ConcatProperties DEF Joined
  <2>2. QED BY <1>1, <1>2, <1>3, <2>1, Zenon
<1>5. \A i \in 0..n : At(d, r, i) = At(d, q, i)
  BY <1>4 DEF At
<1>6. ASSUME NEW i \in 1..n PROVE q[i] = Absent <=> At(d, q, i - 1) # Absent
  <2>1. i \in 1..(n + l) /\ i - 1 \in 0..n
    OBVIOUS
  <2>2. r[i] = Absent <=> At(d, r, i - 1) # Absent
    BY <1>3, <1>4, <2>1 DEF Alternates
  <2>3. QED BY <1>4, <1>5, <2>1, <2>2
<1>7. QED BY <1>1, <1>6 DEF Alternates

(* So does what is taken off at the front.                                 *)
LEMMA TurnsHandled ==
    ASSUME NEW T, NEW d, NEW q \in Seq(T), NEW v \in T, Alternates(d, Joined(Single(v), q))
    PROVE  /\ v = Absent <=> d # Absent
           /\ Alternates(v, q)
<1>1. PICK n \in Nat : n = Len(q)
  OBVIOUS
<1>2. PICK r \in Seq(T) : r = Joined(Single(v), q)
  BY JoinedLaws, JoinedOne
<1>3. Len(r) = n + 1 /\ r[1] = v /\ \A i \in 1..n : r[i + 1] = q[i]
  BY <1>1, <1>2 DEF Joined, Single
<1>4. \A i \in 1..(n + 1) : r[i] = Absent <=> At(d, r, i - 1) # Absent
  BY <1>2, <1>3 DEF Alternates
<1>5. v = Absent <=> d # Absent
  <2>1. 1 \in 1..(n + 1) /\ 1 - 1 = 0
    OBVIOUS
  <2>2. QED BY <1>3, <1>4, <2>1 DEF At
<1>6. ASSUME NEW i \in 1..n PROVE q[i] = Absent <=> At(v, q, i - 1) # Absent
  <2>1. i + 1 \in 1..(n + 1) /\ (i + 1) - 1 = i /\ i # 0
    OBVIOUS
  <2>2. q[i] = Absent <=> At(d, r, i) # Absent
    BY <1>3, <1>4, <2>1
  <2>3. At(d, r, i) = At(v, q, i - 1)
    BY <1>3 DEF At
  <2>4. QED BY <2>2, <2>3
<1>7. QED BY <1>1, <1>5, <1>6 DEF Alternates

(* A step away from the caches keeps the lists in order.                   *)
LEMMA ListedDistant ==
    ASSUME Typed, KnownInv, Distant, NEW o \in Objects, Listed(o)
    PROVE  Listed(o)'
<1>1. PICK k \in Keys : k = Key(o)
  BY DEF Keys
<1>2. PlaceOf(o)' = PlaceOf(o)
  BY DEF Distant, PlaceOf
<1>3. Idle(k) \/ Written(k) \/ Relisted(k) \/ Dropped(k)
  BY <1>1, Zenon DEF Distant
<1>4. Remembered(k) /\ (known'[k] = known[k] \/ known'[k] = Absent)
  BY <1>3, Zenon DEF Idle, Written, Replaced, Relisted, Dropped
<1>5. known'[k] # Absent => PlaceOf(o)' # {}
  BY <1>1, <1>2, <1>4, Zenon DEF Listed
<1>6. SUFFICES ASSUME k \notin lost' \cup resent'
               PROVE  /\ IF known'[k] = Absent THEN PlaceOf(o) = {} ELSE Alone(PlaceOf(o))
                      /\ Alternates(known'[k], Pending(k)')
                      /\ store'[k] = Absent => Final(Pending(k)', known'[k]) = Absent
  BY <1>1, <1>2, <1>5, Zenon DEF Listed, Once
<1>7. k \notin lost' /\ k \notin resent' /\ k \notin lost \cup resent
  BY <1>4, <1>6 DEF Remembered
<1>8. /\ IF known[k] = Absent THEN PlaceOf(o) = {} ELSE Alone(PlaceOf(o))
      /\ Alternates(known[k], Pending(k))
      /\ store[k] = Absent => Final(Pending(k), known[k]) = Absent
  BY <1>1, <1>7, Zenon DEF Listed, Once
<1>9. PICK q \in Seq(Objects \cup {Absent}) : q = Pending(k)
  BY <1>1, PendingTyped DEF Typed
<1>10. CASE Idle(k)
  BY <1>8, <1>10, Zenon DEF Idle
<1>11. CASE Written(k)
  <2>1. PICK v : Replaced(k, v) /\ (Heard(k, v) \/ Missed(k, v))
    BY <1>11, Zenon DEF Written
  <2>2. /\ known'[k] = known[k] /\ store'[k] = v /\ v \in Objects \cup {Absent}
        /\ v = Absent => store[k] # Absent
        /\ v # Absent => store[k] = Absent
    BY <1>7, <2>1, Zenon DEF Replaced
  <2>3. CASE Heard(k, v)
    <3>1. Final(q, known[k]) = store[k] /\ Pending(k)' = Append(q, v)
      BY <1>9, <2>3, Zenon DEF KnownInv, KnownLeads, Heard
    <3>2. Alternates(known[k], q)
      BY <1>8, <1>9, Zenon
    <3>3. v = Absent <=> Final(q, known[k]) # Absent
      BY <2>2, <3>1
    <3>4. Alternates(known[k], Append(q, v))
      BY <2>2, <3>2, <3>3, TurnsHeard
    <3>5. Final(Append(q, v), known[k]) = v
      BY <2>2, FinalLaws
    <3>6. QED BY <1>8, <2>2, <3>1, <3>4, <3>5, Zenon
  <2>4. CASE Missed(k, v)
    <3>1. Pending(k)' = Pending(k) /\ v # Absent
      BY <1>7, <2>4, Zenon DEF Missed
    <3>2. QED BY <1>8, <2>2, <3>1, Zenon
  <2>5. QED BY <2>1, <2>3, <2>4
<1>12. CASE Relisted(k)
  <2>1. Pending(k) = <<>> /\ known'[k] = Absent /\ store'[k] = store[k]
    BY <1>12, Zenon DEF Relisted
  <2>2. Final(<<>>, known[k]) = known[k] /\ Final(<<>>, Absent) = Absent
    BY DEF Final
  <2>3. known[k] = Absent
    BY <1>7, <1>8, <1>12, <2>1, <2>2, Zenon DEF Relisted
  <2>4. Alternates(Absent, <<>>)
    BY DEF Alternates
  <2>5. CASE store[k] = Absent /\ Pending(k)' = <<>>
    BY <1>8, <2>1, <2>2, <2>3, <2>4, <2>5, Zenon
  <2>6. CASE store[k] # Absent /\ Pending(k)' = Single(store[k])
    <3>1. <<>> \in Seq({store[k]}) /\ store[k] \in {store[k]}
      OBVIOUS
    <3>2. Alternates(Absent, Append(<<>>, store[k]))
      BY <2>2, <2>4, <2>6, <3>1, TurnsHeard
    <3>3. Append(<<>>, store[k]) = Single(store[k])
      BY DEF Single
    <3>4. QED BY <1>8, <2>1, <2>3, <2>6, <3>2, <3>3, Zenon
  <2>7. QED BY <1>12, <2>5, <2>6, Zenon DEF Relisted
<1>13. CASE Dropped(k)
  <2>1. known'[k] = known[k] /\ store'[k] = store[k]
    BY <1>13, Zenon DEF Dropped
  <2>2. PICK t \in Seq(Objects \cup {Absent}) : t = Pending(k)'
    BY <1>13, Zenon DEF Dropped
  <2>3. PICK u \in Seq(Objects \cup {Absent}) :
           Pending(k) = Joined(t, u) /\ \A j \in 1..Len(u) : u[j] # Absent
    BY <1>7, <1>13, <2>2, Zenon DEF Dropped
  <2>4. Alternates(known[k], Joined(t, u))
    BY <1>8, <2>3, Zenon
  <2>5. Alternates(known[k], t)
    BY <2>4, TurnsCut
  <2>6. ASSUME store[k] = Absent PROVE Final(t, known[k]) = Absent
    <3>1. Final(Joined(t, u), known[k]) = Absent
      BY <1>8, <2>3, <2>6, Zenon
    <3>2. u = <<>>
      <4>1. SUFFICES ASSUME u # <<>> PROVE FALSE
        OBVIOUS
      <4>2. Final(Joined(t, u), known[k]) = u[Len(u)]
        <5>1. Absent \in Objects \cup {Absent}
          OBVIOUS
        <5>2. QED BY <4>1, <5>1, FinalLaws
      <4>3. Len(u) \in 1..Len(u)
        BY <4>1
      <4>4. QED BY <2>3, <3>1, <4>2, <4>3
    <3>3. Joined(t, <<>>) = t
      BY JoinedLaws
    <3>4. QED BY <3>1, <3>2, <3>3
  <2>7. QED BY <1>8, <2>1, <2>2, <2>5, <2>6, Zenon
<1>14. QED BY <1>3, <1>10, <1>11, <1>12, <1>13

(* What handling a change does to the places of a subscription.            *)
PlacesReact(o, c) ==
    /\ Key(o) # c.key => /\ PlaceOf(o) = {} => PlaceOf(o)' = {}
                         /\ PlaceOf(o) # {} => PlaceOf(o)' # {}
                         /\ Alone(PlaceOf(o)) => Alone(PlaceOf(o)')
    /\ Key(o) = c.key /\ c.value # Absent => \E n : PlaceOf(o)' = PlaceOf(o) \cup {n}
    /\ Key(o) = c.key /\ c.value = Absent /\ Alone(PlaceOf(o)) /\ known[c.key] # Absent =>
          PlaceOf(o)' = {}

(* The places of every subscription and the type of the lists.             *)
LEMMA ReactLists ==
    ASSUME Typed, ListTyped, NEW w \in Watchers, React(w), NEW c, c = Head(batch[w])
    PROVE  ListTyped' /\ \A o \in Objects : IsAsync(o) => PlacesReact(o, c)
<1>1. DOMAIN cache = CacheFields
  BY DEF Typed, KnownTyped
<1>2. cache' = cache => ListTyped' /\ \A o \in Objects : PlaceOf(o)' = PlaceOf(o)
  BY DEF ListTyped, PlaceOf
<1>3. ASSUME NEW x \in Objects, x = c.value, Key(x) = c.key, cache' = Modified(cache, x)
      PROVE  ListTyped' /\ \A o \in Objects : IsAsync(o) => PlacesReact(o, c)
  <2>1. /\ ListTyped'
        /\ \A o \in Objects : IsAsync(o) =>
              /\ Key(o) # Key(x) => PlaceOf(o)' = PlaceOf(o)
              /\ Key(o) = Key(x) => \E n : PlaceOf(o)' = PlaceOf(o) \cup {n}
    BY <1>1, <1>3, AsyncAdded
  <2>2. c.value # Absent
    BY <1>3, ObjectsAssumption
  <2>3. QED BY <1>3, <2>1, <2>2, Zenon DEF PlacesReact
<1>4. ASSUME c.value = Absent, known[c.key] = Absent, cache' = cache
      PROVE  ListTyped' /\ \A o \in Objects : IsAsync(o) => PlacesReact(o, c)
  BY <1>2, <1>4, Zenon DEF PlacesReact
<1>5. ASSUME NEW x \in Objects, c.value = Absent, Key(x) = c.key, Panics(cache, x), cache' = cache
      PROVE  ListTyped' /\ \A o \in Objects : IsAsync(o) => PlacesReact(o, c)
  <2>1. ~IsAsync(x)
    BY <1>5 DEF Panics, Routed
  <2>2. \A o \in Objects : IsAsync(o) => Key(o) # c.key
    BY <1>5, <2>1, AsyncKey, Zenon
  <2>3. QED BY <1>2, <1>5, <2>2, Zenon DEF PlacesReact
<1>6. ASSUME NEW x \in Objects, c.value = Absent, Key(x) = c.key, cache' = Deleted(cache, x)
      PROVE  ListTyped' /\ \A o \in Objects : IsAsync(o) => PlacesReact(o, c)
  <2>1. /\ ListTyped'
        /\ \A o \in Objects : IsAsync(o) =>
              /\ PlaceOf(o) = {} => PlaceOf(o)' = {}
              /\ Key(o) # Key(x) /\ PlaceOf(o) # {} => PlaceOf(o)' # {}
              /\ Key(o) # Key(x) /\ Alone(PlaceOf(o)) => Alone(PlaceOf(o)')
              /\ Key(o) = Key(x) /\ Alone(PlaceOf(o)) => PlaceOf(o)' = {}
    BY <1>1, <1>6, AsyncRemoved
  <2>2. QED BY <1>6, <2>1, Zenon DEF PlacesReact
<1>7. QED BY <1>3, <1>4, <1>5, <1>6, ReactCases, Zenon

(* A change is handled: the lists stay in order.                           *)
LEMMA ListReact ==
    ASSUME Typed, NEW w \in Watchers, React(w), NEW c, c = Head(batch[w]),
           NEW o \in Objects, PlacesReact(o, c), Listed(o)
    PROVE  Listed(o)'
<1>1. PICK k \in Keys : k = Key(o)
  BY DEF Keys
<1>2. store' = store /\ lost' = lost /\ resent' = resent /\ replaced' = replaced
  BY DEF React
<1>3. CASE k # c.key
  <2>1. known'[k] = known[k]
    BY <1>3, ReactKnown, Zenon
  <2>2. Pending(k)' = Pending(k)
    BY <1>3, PendingHandled, Zenon
  <2>3. /\ PlaceOf(o) = {} => PlaceOf(o)' = {}
        /\ PlaceOf(o) # {} => PlaceOf(o)' # {}
        /\ Alone(PlaceOf(o)) => Alone(PlaceOf(o)')
    BY <1>1, <1>3, Zenon DEF PlacesReact
  <2>4. QED BY <1>1, <1>2, <2>1, <2>2, <2>3, Zenon DEF Listed, Once
<1>4. CASE k = c.key
  <2>1. known'[k] = c.value
    BY <1>4, ReactKnown, Zenon
  <2>2. c.value \in Objects \cup {Absent}
    BY HandledTyped DEF React
  <2>3. PICK q \in Seq(Objects \cup {Absent}) : q = Pending(k)'
    BY <1>4, PendingHandled, Zenon
  <2>4. Pending(k) = Joined(Single(c.value), q)
    BY <1>4, <2>3, PendingHandled, Zenon
  <2>5. c.value # Absent => \E n : PlaceOf(o)' = PlaceOf(o) \cup {n}
    BY <1>1, <1>4, Zenon DEF PlacesReact
  <2>6. known'[k] # Absent => PlaceOf(o)' # {}
    BY <2>1, <2>5
  <2>7. ASSUME k \notin lost \cup resent
        PROVE  /\ IF c.value = Absent THEN PlaceOf(o)' = {} ELSE Alone(PlaceOf(o)')
               /\ Alternates(c.value, q)
               /\ store[k] = Absent => Final(q, c.value) = Absent
    <3>1. /\ IF known[k] = Absent THEN PlaceOf(o) = {} ELSE Alone(PlaceOf(o))
          /\ Alternates(known[k], Joined(Single(c.value), q))
          /\ store[k] = Absent => Final(Joined(Single(c.value), q), known[k]) = Absent
      BY <1>1, <2>4, <2>7, Zenon DEF Listed, Once
    <3>2. (c.value = Absent <=> known[k] # Absent) /\ Alternates(c.value, q)
      BY <2>2, <3>1, TurnsHandled
    <3>3. Final(Joined(Single(c.value), q), known[k]) = Final(q, c.value)
      BY <2>2, FinalLaws
    <3>4. CASE c.value = Absent
      <4>1. PlaceOf(o)' = {}
        BY <1>1, <1>4, <3>1, <3>2, <3>4, Zenon DEF PlacesReact
      <4>2. QED BY <3>1, <3>2, <3>3, <3>4, <4>1, Zenon
    <3>5. CASE c.value # Absent
      <4>1. PICK n : PlaceOf(o)' = PlaceOf(o) \cup {n}
        BY <2>5, <3>5
      <4>2. PlaceOf(o) = {}
        BY <3>1, <3>2, <3>5, Zenon
      <4>3. PlaceOf(o)' = {n}
        BY <4>1, <4>2
      <4>4. Alone(PlaceOf(o)')
        BY <4>3 DEF Alone
      <4>5. QED BY <3>1, <3>2, <3>3, <3>5, <4>4, Zenon
    <3>6. QED BY <3>4, <3>5
  <2>8. QED BY <1>1, <1>2, <2>1, <2>3, <2>6, <2>7, Zenon DEF Listed, Once
<1>5. QED BY <1>3, <1>4

(* New lists are in order.                                                 *)
LEMMA ListsNew ==
    /\ DOMAIN NewCache.async = AsyncSlots
    /\ \A s \in AsyncSlots : NewCache.async[s] = <<>> /\ <<>> \in Seq(AsyncValues)
    /\ \A v : PlacesOf(<<>>, v) = {}
    /\ \A o \in Objects : IsAsync(o) => Slot(o) \in AsyncSlots
    /\ Alternates(Absent, <<>>) /\ Final(<<>>, Absent) = Absent
<1>1. DOMAIN NewCache.async = AsyncSlots /\ \A s \in AsyncSlots : NewCache.async[s] = <<>>
  BY DEF NewCache
<1>2. <<>> \in Seq(AsyncValues)
  OBVIOUS
<1>3. \A v : PlacesOf(<<>>, v) = {}
  BY DEF PlacesOf
<1>4. \A o \in Objects : IsAsync(o) => Slot(o) \in AsyncSlots
  BY DEF AsyncSlots
<1>5. Alternates(Absent, <<>>) /\ Final(<<>>, Absent) = Absent
  BY DEF Alternates, Final
<1>6. QED BY <1>1, <1>2, <1>3, <1>4, <1>5

(* The lists are in order at the start ...                                 *)
LEMMA ListInit ==
    ASSUME Init
    PROVE  ListInv
<1>1. cache = NewCache
  BY DEF Init
<1>2. ListTyped
  BY <1>1, ListsNew, Zenon DEF ListTyped
<1>3. ASSUME NEW o \in Objects, IsAsync(o) PROVE Listed(o)
  <2>1. Pending(Key(o)) = <<>> /\ known[Key(o)] = Absent
    BY PendingNone, KeyKind DEF Init
  <2>2. PlaceOf(o) = {}
    BY <1>1, <1>3, ListsNew, Zenon DEF PlaceOf
  <2>3. QED BY <2>1, <2>2, ListsNew, Zenon DEF Listed, Once
<1>4. QED BY <1>2, <1>3 DEF ListInv

(* ... and stay so.                                                        *)
LEMMA ListStep ==
    ASSUME Typed, KnownInv, ListInv, [Next]_vars
    PROVE  ListInv'
<1>1. CASE Distant
  <2>1. ListTyped'
    BY <1>1 DEF Distant, ListInv, ListTyped
  <2>2. ASSUME NEW o \in Objects, IsAsync(o) PROVE Listed(o)'
    BY <1>1, <2>2, ListedDistant DEF ListInv
  <2>3. QED BY <2>1, <2>2 DEF ListInv
<1>2. CASE Restart
  <2>1. cache' = NewCache
    BY <1>2 DEF Restart
  <2>2. ListTyped'
    BY <2>1, ListsNew, Zenon DEF ListTyped
  <2>3. ASSUME NEW o \in Objects, IsAsync(o) PROVE Listed(o)'
    <3>1. Pending(Key(o))' = <<>> /\ known'[Key(o)] = Absent
      BY <1>2, PendingRestarted, KeyKind DEF Restart
    <3>2. PlaceOf(o)' = {}
      BY <2>1, <2>3, ListsNew, Zenon DEF PlaceOf
    <3>3. QED BY <3>1, <3>2, ListsNew, Zenon DEF Listed, Once
  <2>4. QED BY <2>2, <2>3 DEF ListInv
<1>3. ASSUME NEW w \in Watchers, React(w) PROVE ListInv'
  <2>1. PICK c : c = Head(batch[w])
    OBVIOUS
  <2>2. ListTyped' /\ \A o \in Objects : IsAsync(o) => PlacesReact(o, c)
    BY <1>3, <2>1, ReactLists DEF ListInv
  <2>3. ASSUME NEW o \in Objects, IsAsync(o) PROVE Listed(o)'
    BY <1>3, <2>1, <2>2, <2>3, ListReact DEF ListInv
  <2>4. QED BY <2>2, <2>3 DEF ListInv
<1>4. QED BY <1>1, <1>2, <1>3, KeySteps, Zenon

(* So they are always.                                                     *)
LEMMA ListInductive == Spec => [](Typed /\ KnownInv /\ ListInv)
<1>1. Init => ListInv
  BY ListInit
<1>2. Typed /\ KnownInv /\ ListInv /\ [Next]_vars => ListInv'
  BY ListStep
<1>3. ServeInv => KnownInv
  BY DEF ServeInv
<1>4. QED BY <1>1, <1>2, <1>3, ServeInductive, PTL DEF Spec

(* How many places a subscription has.                                     *)
LEMMA EntriesCounted ==
    ASSUME ListTyped, NEW o \in Objects, IsAsync(o)
    PROVE  /\ Entries(o) \in Nat
           /\ PlaceOf(o) = {} => Entries(o) = 0
           /\ PlaceOf(o) # {} => Entries(o) >= 1
           /\ Alone(PlaceOf(o)) => Entries(o) = 1
<1>1. Slot(o) = <<o.event, o.path>> /\ Slot(o) \in AsyncSlots
  BY DEF Slot, AsyncSlots
<1>2. PICK t \in Seq(AsyncValues) : t = cache.async[Slot(o)]
  BY <1>1 DEF ListTyped
<1>3. PICK s : s = PlacesOf(t, Value(o))
  OBVIOUS
<1>4. Entries(o) = Cardinality(s) /\ PlaceOf(o) = s
  <2>1. DOMAIN t = 1..Len(t)
    OBVIOUS
  <2>2. AsyncSubscribers(cache, o.event, o.path) = t
    BY <1>1, <1>2, Zenon DEF AsyncSubscribers
  <2>3. {i \in DOMAIN t : t[i] = Value(o)} = s
    BY <1>3, <2>1, Zenon DEF PlacesOf
  <2>4. Entries(o) = Cardinality(s)
    BY <2>2, <2>3, Zenon DEF Entries
  <2>5. QED BY <1>2, <1>3, <2>4, Zenon DEF PlaceOf
<1>5. IsFiniteSet(s)
  <2>1. s \in SUBSET (1..Len(t)) /\ Len(t) \in Nat
    BY <1>3 DEF PlacesOf
  <2>2. IsFiniteSet(1..Len(t))
    BY <2>1, FS_Interval
  <2>3. QED BY <2>1, <2>2, FS_Subset
<1>6. Cardinality(s) \in Nat /\ (Cardinality(s) = 0 <=> s = {})
  BY <1>5, FS_CardinalityType, FS_EmptySet
<1>7. Alone(s) => Cardinality(s) = 1
  BY FS_Singleton DEF Alone
<1>8. QED BY <1>4, <1>6, <1>7

(* A watcher that has caught up leaves every async subscription in the     *)
(* list the router walks, and exactly once unless it was told about it     *)
(* again or missed a deletion: Modified appends what it is told and        *)
(* Deleted removes the first equal entry (subscription_cache.go), so this  *)
(* rests on values and deletions being told in turn (watcher.go).          *)
THEOREM CacheServesAsync == Spec => []AsyncServed
<1>1. ASSUME Typed, KnownInv, ListInv, NEW o \in Objects, IsAsync(o), CaughtUp(o.kind)
      PROVE  /\ store[Key(o)] # Absent => Entries(o) >= 1
             /\ Key(o) \notin lost \cup resent => Entries(o) = IF store[Key(o)] # Absent THEN 1 ELSE 0
  <2>1. PICK k \in Keys : k = Key(o) /\ k[1] = o.kind
    BY KeyKind, Zenon
  <2>2. known[k] = store[k]
    BY <1>1, <2>1, NothingPending
  <2>3. Listed(o)
    BY <1>1 DEF ListInv
  <2>4. store[k] # Absent => PlaceOf(o) # {}
    BY <2>1, <2>2, <2>3, Zenon DEF Listed
  <2>5. k \notin lost \cup resent => IF store[k] = Absent THEN PlaceOf(o) = {} ELSE Alone(PlaceOf(o))
    BY <2>1, <2>2, <2>3, Zenon DEF Listed, Once
  <2>6. /\ PlaceOf(o) = {} => Entries(o) = 0
        /\ PlaceOf(o) # {} => Entries(o) >= 1
        /\ Alone(PlaceOf(o)) => Entries(o) = 1
    BY <1>1, EntriesCounted DEF ListInv
  <2>7. QED BY <2>1, <2>4, <2>5, <2>6, Zenon
<1>2. Typed /\ KnownInv /\ ListInv => AsyncServed
  BY <1>1 DEF AsyncServed
<1>3. QED BY <1>2, ListInductive, PTL
=============================================================================
