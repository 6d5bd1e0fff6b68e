------------------------ MODULE ConfigServiceProofs ------------------------
(***************************************************************************)
(* Proofs about ConfigService and ConfigAPI, for any objects, gateways and *)
(* handlers, any contents of the store and any number of requests: what is *)
(* stored under a key has that key, references between objects break only  *)
(* by races, and what the API answers is true.                             *)
(***************************************************************************)
EXTENDS ConfigAPI, DataLemmas

(* What a passed step tells the request q about the store s, apart from    *)
(* the keys in st that were written since.                                 *)
Exists(k, s, st) == k \in Keys => s[k] # Absent \/ k \in st

Unnamed(k, kind, s, st) ==
    \A x \in Keys : s[x] # Absent /\ s[x].kind = kind /\ k \in Refs(s[x]) => x \in st

Held(step, q, s, st) ==
    /\ step = "same" => (q.key \in Keys => s[q.key] = q.body \/ q.key \in st)
    /\ step = "eventType" => Exists(EventTypeKey(q.body.eventType), s, st)
    /\ step = "function" => Exists(FunctionKey(q.body.function), s, st)
    /\ step = "authorizer" =>
          q.body.authorizer = None \/ Exists(FunctionKey(q.body.authorizer), s, st)
    /\ step = "unsubscribed" => Unnamed(q.key, "subscription", s, st)
    /\ step = "notAuthorizer" => Unnamed(q.key, "eventtype", s, st)

(* A request knows what its passed steps told it, until it has written.    *)
Knows(q, s, st) ==
    Steps(q)[q.at] \notin {"inc", "dec"} =>
        \A i \in 1..(q.at - 1) : Held(Steps(q)[i], q, s, st)

Known == \A h \in Handlers : Active(h) => Knows(req[h], store, stale[h])

(* A request is about a key of its kind, and about the key of its body     *)
(* from the first step on, or once the old object was compared with it.    *)
AimsAt(q) ==
    /\ q.key \in Keys
    /\ q.key[1] = q.body.kind
    /\ q.at > 1 \/ ~(q.op = "update" /\ q.body.kind \in {"subscription", "cors"}) =>
          Key(q.body) = q.key

Aimed == \A h \in Handlers : Active(h) => AimsAt(req[h])

ConfigInv == TypeOK /\ Aimed /\ Known

-----------------------------------------------------------------------------
(* The programs, by kind and operation.                                    *)
LEMMA ProgramIs ==
    ASSUME NEW op \in Ops, NEW o
    PROVE  /\ o.kind = "function" =>
                /\ op = "create" => Program(op, o) = CreateFunction
                /\ op = "update" => Program(op, o) = UpdateFunction
                /\ op = "delete" => Program(op, o) = DeleteFunction
           /\ o.kind = "eventtype" =>
                /\ op = "create" => Program(op, o) = CreateEventType
                /\ op = "update" => Program(op, o) = UpdateEventType
                /\ op = "delete" => Program(op, o) = DeleteEventType
           /\ o.kind = "subscription" =>
                /\ op = "create" => Program(op, o) = CreateSubscription(o)
                /\ op = "update" => Program(op, o) = UpdateSubscription
                /\ op = "delete" => Program(op, o) = DeleteSubscription
           /\ o.kind = "cors" =>
                /\ op = "create" => Program(op, o) = CreateCORS
                /\ op = "update" => Program(op, o) = UpdateCORS
                /\ op = "delete" => Program(op, o) = DeleteCORS
BY DEF Program

(* The program of a request has two to six steps.                          *)
LEMMA ProgramTyped ==
    ASSUME NEW op \in Ops, NEW o \in Objects
    PROVE  DOMAIN Program(op, o) = 1..Len(Program(op, o)) /\ Len(Program(op, o)) \in 2..6
<1>1. o.kind \in Kinds BY ObjectsAssumption
<1>2. /\ DOMAIN CreateFunction = 1..Len(CreateFunction) /\ Len(CreateFunction) = 3
      /\ DOMAIN UpdateFunction = 1..Len(UpdateFunction) /\ Len(UpdateFunction) = 2
      /\ DOMAIN DeleteFunction = 1..Len(DeleteFunction) /\ Len(DeleteFunction) = 4
  BY DEF CreateFunction, UpdateFunction, DeleteFunction
<1>3. /\ DOMAIN CreateEventType = 1..Len(CreateEventType) /\ Len(CreateEventType) = 4
      /\ DOMAIN UpdateEventType = 1..Len(UpdateEventType) /\ Len(UpdateEventType) = 3
      /\ DOMAIN DeleteEventType = 1..Len(DeleteEventType) /\ Len(DeleteEventType) = 3
  BY DEF CreateEventType, UpdateEventType, DeleteEventType
<1>4. /\ DOMAIN CreateSubscription(o) = 1..Len(CreateSubscription(o)) /\ Len(CreateSubscription(o)) \in 5..6
      /\ DOMAIN UpdateSubscription = 1..Len(UpdateSubscription) /\ Len(UpdateSubscription) = 3
      /\ DOMAIN DeleteSubscription = 1..Len(DeleteSubscription) /\ Len(DeleteSubscription) = 3
  <2>1. CASE o.type = "sync" BY <2>1 DEF CreateSubscription, UpdateSubscription, DeleteSubscription
  <2>2. CASE o.type # "sync" BY <2>2 DEF CreateSubscription, UpdateSubscription, DeleteSubscription
  <2>3. QED BY <2>1, <2>2
<1>5. /\ DOMAIN CreateCORS = 1..Len(CreateCORS) /\ Len(CreateCORS) = 3
      /\ DOMAIN UpdateCORS = 1..Len(UpdateCORS) /\ Len(UpdateCORS) = 2
      /\ DOMAIN DeleteCORS = 1..Len(DeleteCORS) /\ Len(DeleteCORS) = 2
  BY DEF CreateCORS, UpdateCORS, DeleteCORS
<1>6. CASE o.kind = "function"
  BY <1>2, <1>6, ProgramIs DEF Ops
<1>7. CASE o.kind = "eventtype"
  BY <1>3, <1>7, ProgramIs DEF Ops
<1>8. CASE o.kind = "subscription"
  <2>1. CASE op = "create"
    <3>1. Program(op, o) = CreateSubscription(o) BY <1>8, <2>1, ProgramIs
    <3>2. QED BY <1>4, <3>1
  <2>2. CASE op \in {"update", "delete"}
    BY <1>4, <1>8, <2>2, ProgramIs
  <2>3. QED BY <2>1, <2>2 DEF Ops
<1>9. CASE o.kind = "cors"
  BY <1>5, <1>9, ProgramIs DEF Ops
<1>10. QED BY <1>1, <1>6, <1>7, <1>8, <1>9 DEF Kinds

(* The key of an object begins with its kind.                              *)
LEMMA KeyKind ==
    ASSUME NEW o \in Objects
    PROVE  Key(o) \in Keys /\ Key(o)[1] = o.kind
BY DEF Key, Keys

(* Only subscriptions and event types name others, and only functions and  *)
(* event types are named.                                                  *)
LEMMA RefsKind ==
    ASSUME NEW o \in Objects, NEW k \in Refs(o)
    PROVE  /\ k \in Keys
           /\ \/ o.kind = "subscription" /\ k = FunctionKey(o.function) /\ k[1] = "function"
              \/ o.kind = "subscription" /\ k = EventTypeKey(o.eventType) /\ k[1] = "eventtype"
              \/ /\ o.kind = "eventtype" /\ o.authorizer # None
                 /\ k = FunctionKey(o.authorizer) /\ k[1] = "function"
<1>1. k \in Keys BY DEF Keys
<1>2. o.kind \in Kinds BY ObjectsAssumption
<1>3. QED BY <1>1, <1>2 DEF Refs, Kinds, FunctionKey, EventTypeKey

(* A request that goes on is at the next step of the same program.         *)
LEMMA AfterStep ==
    ASSUME NEW q \in Requests, q.at \in DOMAIN Steps(q), After(q) # Idle
    PROVE  /\ After(q) \in Requests
           /\ After(q) = [q EXCEPT !.at = q.at + 1]
           /\ After(q).op = q.op /\ After(q).body = q.body /\ After(q).key = q.key
           /\ After(q).at = q.at + 1
           /\ Steps(After(q)) = Steps(q)
           /\ After(q).at \in DOMAIN Steps(q)
<1>1. DOMAIN Steps(q) = 1..Len(Steps(q)) /\ Len(Steps(q)) \in 2..6
  BY ProgramTyped DEF Steps, Requests
<1>2. After(q) = [q EXCEPT !.at = q.at + 1] /\ q.at # Len(Steps(q))
  BY DEF After
<1>3. q.at \in 1..6 /\ q.at + 1 \in 1..Len(Steps(q))
  BY <1>1, <1>2 DEF Requests
<1>4. After(q).op = q.op /\ After(q).body = q.body /\ After(q).key = q.key
      /\ After(q).at = q.at + 1
  BY <1>2 DEF Requests
<1>5. After(q) \in Requests
  BY <1>1, <1>2, <1>3 DEF Requests
<1>6. QED BY <1>1, <1>2, <1>3, <1>4, <1>5 DEF Steps

(* A key that was written since makes up for what happened to it.          *)
LEMMA HeldFrame ==
    ASSUME NEW step, NEW q, NEW s, NEW st, NEW s2, NEW st2,
           Held(step, q, s, st),
           st \subseteq st2,
           \A x \in Keys : s2[x] = s[x] \/ x \in st2
    PROVE  Held(step, q, s2, st2)
<1>1. ASSUME NEW k, Exists(k, s, st) PROVE Exists(k, s2, st2)
  BY <1>1 DEF Exists
<1>2. ASSUME NEW k, NEW kind, Unnamed(k, kind, s, st) PROVE Unnamed(k, kind, s2, st2)
  BY <1>2 DEF Unnamed
<1>3. step = "same" => (q.key \in Keys => s2[q.key] = q.body \/ q.key \in st2)
  BY DEF Held
<1>4. QED BY <1>1, <1>2, <1>3 DEF Held

(* A check succeeds or fails.                                              *)
LEMMA OutcomesBoolean ==
    ASSUME NEW step \in Checks, NEW q, NEW s, NEW x \in Outcomes(step, q, s)
    PROVE  x \in BOOLEAN
BY DEF Outcomes, Checks, CheckForPathConflict, AddOK, Unreferenced

(* A step that lets the request go on holds.                               *)
LEMMA PassedHeld ==
    ASSUME NEW step \in Checks, NEW q, NEW s, NEW st, TRUE \in Outcomes(step, q, s)
    PROVE  Held(step, q, s, st)
<1>1. CASE step \in {"absent", "present", "noConflict"}
  BY <1>1 DEF Held
<1>2. CASE step = "same"
  BY <1>2 DEF Held, Outcomes
<1>3. CASE step = "eventType"
  BY <1>3 DEF Held, Outcomes, Exists
<1>4. CASE step = "function"
  BY <1>4 DEF Held, Outcomes, Exists
<1>5. CASE step = "authorizer"
  BY <1>5 DEF Held, Outcomes, Exists
<1>6. CASE step = "unsubscribed"
  BY <1>6 DEF Held, Outcomes, Unreferenced, Unnamed
<1>7. CASE step = "notAuthorizer"
  BY <1>7 DEF Held, Outcomes, Unreferenced, Unnamed
<1>8. QED BY <1>1, <1>2, <1>3, <1>4, <1>5, <1>6, <1>7 DEF Checks

-----------------------------------------------------------------------------
(***************************************************************************)
(* A handler moves on, having written at most the keys in w: the other     *)
(* handlers' knowledge survives, because w is stale to them now.           *)
(***************************************************************************)
LEMMA Moves ==
    ASSUME ConfigInv, NEW h \in Handlers, NEW q, NEW w \in SUBSET Keys,
           Goto(h, q, w),
           \/ q = Idle
           \/ /\ q \in Requests /\ q.at \in DOMAIN Steps(q)
              /\ AimsAt(q)
              /\ Knows(q, store', stale[h]),
           \A x \in Keys : store'[x] = store[x] \/ x \in w
    PROVE  /\ req' \in [Handlers -> Requests \cup {Idle}]
           /\ \A x \in Handlers : req'[x] # Idle => req'[x].at \in DOMAIN Steps(req'[x])
           /\ stale' \in [Handlers -> SUBSET Keys]
           /\ Aimed'
           /\ Known'
<1> USE DEF ConfigInv
<1>1. /\ req \in [Handlers -> Requests \cup {Idle}]
      /\ stale \in [Handlers -> SUBSET Keys]
      /\ \A x \in Handlers : req[x] # Idle => req[x].at \in DOMAIN Steps(req[x])
  BY DEF TypeOK, Active
<1>2. req' = [req EXCEPT ![h] = q]
  BY DEF Goto
<1>3. /\ req'[h] = q
      /\ \A x \in Handlers \ {h} : req'[x] = req[x]
  BY <1>1, <1>2
<1>4. req' \in [Handlers -> Requests \cup {Idle}]
  BY <1>1, <1>2
<1>5. stale' \in [Handlers -> SUBSET Keys]
  BY <1>1 DEF Goto
<1>6. \A x \in Handlers : req'[x] # Idle => req'[x].at \in DOMAIN Steps(req'[x])
  BY <1>1, <1>3
<1>7. ASSUME NEW x \in Handlers, req'[x] # Idle
      PROVE  AimsAt(req'[x]) /\ Knows(req'[x], store', stale'[x])
  <2>1. CASE x = h
    <3>1. stale'[h] = stale[h]
      BY <1>3, <1>7, <2>1 DEF Goto
    <3>2. QED BY <1>3, <1>7, <2>1, <3>1
  <2>2. CASE x # h
    <3>1. req'[x] = req[x] /\ req[x] # Idle
      BY <1>3, <1>7, <2>2
    <3>2. stale'[x] = stale[x] \cup w
      BY <2>2, <3>1 DEF Goto
    <3>3. AimsAt(req[x]) /\ Knows(req[x], store, stale[x])
      BY <3>1 DEF Aimed, Known, Active
    <3>4. ASSUME NEW i \in 1..(req[x].at - 1), Held(Steps(req[x])[i], req[x], store, stale[x])
          PROVE  Held(Steps(req[x])[i], req[x], store', stale'[x])
      <4>1. \A y \in Keys : store'[y] = store[y] \/ y \in stale'[x]
        BY <3>2
      <4>2. stale[x] \subseteq stale'[x]
        BY <3>2
      <4>3. QED BY <3>4, <4>1, <4>2, HeldFrame
    <3>5. QED BY <3>1, <3>3, <3>4 DEF Knows
  <2>3. QED BY <2>1, <2>2
<1>8. Aimed' /\ Known'
  BY <1>7 DEF Aimed, Known, Active
<1>9. QED BY <1>4, <1>5, <1>6, <1>8

(* What Aimed and Known say of a request whose step was a check that       *)
(* holds; g is the request with its ignored errors brought up to date.     *)
LEMMA GoesOn ==
    ASSUME ConfigInv, NEW h \in Handlers, Active(h), Step(h) \in Checks,
           NEW g \in Requests,
           g.op = req[h].op, g.body = req[h].body, g.key = req[h].key, g.at = req[h].at,
           Held(Step(h), req[h], store, stale[h]),
           Step(h) = "same" => store[Target(h)] = Body(h),
           After(g) # Idle
    PROVE  /\ After(g) \in Requests /\ After(g).at \in DOMAIN Steps(After(g))
           /\ AimsAt(After(g))
           /\ Knows(After(g), store, stale[h])
<1> DEFINE q == After(g)
<1>1. /\ req[h] \in Requests /\ req[h].at \in DOMAIN Steps(req[h])
      /\ AimsAt(req[h]) /\ Knows(req[h], store, stale[h])
  BY DEF ConfigInv, TypeOK, Aimed, Known, Active
<1>2. Steps(g) = Steps(req[h])
  BY DEF Steps
<1>3. /\ q \in Requests
      /\ q.op = g.op /\ q.body = g.body /\ q.key = g.key /\ q.at = g.at + 1
      /\ Steps(q) = Steps(g) /\ q.at \in DOMAIN Steps(q)
  BY <1>1, <1>2, AfterStep
<1>4. g.at \in 1..6 /\ g.body \in Objects /\ g.op \in Ops
  BY DEF Requests
<1>5. AimsAt(q)
  <2>1. q.key \in Keys /\ q.key[1] = q.body.kind
    BY <1>1, <1>3 DEF AimsAt
  <2>2. CASE g.at > 1 \/ ~(g.op = "update" /\ g.body.kind \in {"subscription", "cors"})
    BY <1>1, <1>3, <2>1, <2>2 DEF AimsAt
  <2>3. CASE g.at = 1 /\ g.op = "update" /\ g.body.kind \in {"subscription", "cors"}
    <3>1. Steps(g) = UpdateSubscription \/ Steps(g) = UpdateCORS
      BY <1>4, <2>3, ProgramIs DEF Steps
    <3>2. Step(h) = "same"
      BY <1>2, <2>3, <3>1 DEF Step, UpdateSubscription, UpdateCORS
    <3>3. store[q.key] = q.body
      BY <1>3, <3>2 DEF Target, Body
    <3>4. q.body # Absent
      BY <1>3, <1>4, ObjectsAssumption
    <3>5. Key(q.body) = q.key
      BY <2>1, <3>3, <3>4 DEF ConfigInv, TypeOK
    <3>6. QED BY <2>1, <3>5 DEF AimsAt
  <2>4. QED BY <1>4, <2>2, <2>3
<1>6. Knows(q, store, stale[h])
  <2>1. Steps(req[h])[req[h].at] \notin {"inc", "dec"}
    BY DEF Step, Checks
  <2>2. ASSUME NEW i \in 1..(q.at - 1)
        PROVE  Held(Steps(req[h])[i], req[h], store, stale[h])
    <3>1. CASE i = g.at
      BY <3>1 DEF Step
    <3>2. CASE i # g.at
      BY <1>1, <1>3, <1>4, <2>1, <3>2 DEF Knows
    <3>3. QED BY <3>1, <3>2
  <2>3. \A step : Held(step, req[h], store, stale[h]) => Held(step, q, store, stale[h])
    BY <1>3 DEF Held
  <2>4. QED BY <1>2, <1>3, <2>2, <2>3 DEF Knows
<1>7. QED BY <1>3, <1>5, <1>6

(* A request that has written only has its gauge left to set.              *)
LEMMA WriteIsLast ==
    ASSUME NEW q \in Requests, q.at \in DOMAIN Steps(q),
           Steps(q)[q.at] \in {"atomicPut", "put", "delete"}, After(q) # Idle
    PROVE  Steps(q)[q.at + 1] \in {"inc", "dec"}
<1>1. q.op \in Ops /\ q.body \in Objects /\ q.body.kind \in Kinds /\ q.at \in 1..6
  BY ObjectsAssumption DEF Requests
<1>2. q.at \in 1..Len(Steps(q)) /\ q.at # Len(Steps(q))
  BY <1>1, ProgramTyped DEF After, Steps
<1>3. CASE q.body.kind = "function"
  <2>1. Steps(q) \in {CreateFunction, UpdateFunction, DeleteFunction}
    BY <1>1, <1>3, ProgramIs DEF Steps, Ops
  <2>2. QED BY <1>1, <1>2, <2>1 DEF CreateFunction, UpdateFunction, DeleteFunction
<1>4. CASE q.body.kind = "eventtype"
  <2>1. Steps(q) \in {CreateEventType, UpdateEventType, DeleteEventType}
    BY <1>1, <1>4, ProgramIs DEF Steps, Ops
  <2>2. QED BY <1>1, <1>2, <2>1 DEF CreateEventType, UpdateEventType, DeleteEventType
<1>5. CASE q.body.kind = "subscription"
  <2>1. Steps(q) \in {CreateSubscription(q.body), UpdateSubscription, DeleteSubscription}
    BY <1>1, <1>5, ProgramIs DEF Steps, Ops
  <2>2. CASE Steps(q) = CreateSubscription(q.body)
    BY <1>1, <1>2, <2>2 DEF CreateSubscription
  <2>3. CASE Steps(q) \in {UpdateSubscription, DeleteSubscription}
    BY <1>1, <1>2, <2>3 DEF UpdateSubscription, DeleteSubscription
  <2>4. QED BY <2>1, <2>2, <2>3
<1>6. CASE q.body.kind = "cors"
  <2>1. Steps(q) \in {CreateCORS, UpdateCORS, DeleteCORS}
    BY <1>1, <1>6, ProgramIs DEF Steps, Ops
  <2>2. QED BY <1>1, <1>2, <2>1 DEF CreateCORS, UpdateCORS, DeleteCORS
<1>7. QED BY <1>1, <1>3, <1>4, <1>5, <1>6 DEF Kinds

(* The types of an active request, and what is known of it.                *)
LEMMA ActiveRequest ==
    ASSUME ConfigInv, NEW h \in Handlers, Active(h)
    PROVE  /\ req[h] \in Requests /\ req[h].at \in DOMAIN Steps(req[h])
           /\ req[h].op \in Ops /\ Body(h) \in Objects /\ Body(h).kind \in Kinds
           /\ Body(h) # Absent
           /\ Target(h) \in Keys /\ Target(h)[1] = Body(h).kind
           /\ req[h].at \in 1..6
           /\ AimsAt(req[h]) /\ Knows(req[h], store, stale[h])
<1>1. req[h] \in Requests /\ req[h].at \in DOMAIN Steps(req[h])
      /\ AimsAt(req[h]) /\ Knows(req[h], store, stale[h])
  BY DEF ConfigInv, TypeOK, Aimed, Known, Active
<1>2. req[h].op \in Ops /\ Body(h) \in Objects /\ req[h].at \in 1..6
  BY <1>1 DEF Requests, Body
<1>3. QED BY <1>1, <1>2, ObjectsAssumption DEF AimsAt, Body, Target

(* A write leaves every key with an object of that key.                    *)
LEMMA WriteKeeps ==
    ASSUME ConfigInv, NEW h \in Handlers, Active(h),
           Step(h) \in {"atomicPut", "put", "delete"}, store' = Written(h)
    PROVE  /\ store' \in [Keys -> Objects \cup {Absent}]
           /\ \A k \in Keys : store'[k] # Absent => Key(store'[k]) = k
           /\ \A x \in Keys : store'[x] = store[x] \/ x \in {Target(h)}
           /\ store'[Target(h)] = IF Step(h) = "delete" THEN Absent ELSE Body(h)
<1>1. /\ req[h].op \in Ops /\ Body(h) \in Objects /\ Target(h) \in Keys
      /\ req[h].at \in 1..6 /\ AimsAt(req[h])
  BY ActiveRequest
<1>2. /\ store \in [Keys -> Objects \cup {Absent}]
      /\ \A k \in Keys : store[k] # Absent => Key(store[k]) = k
  BY DEF ConfigInv, TypeOK
<1>3. ~(req[h].at = 1 /\ req[h].op = "update" /\ Body(h).kind \in {"subscription", "cors"})
  <2>1. SUFFICES ASSUME req[h].at = 1, req[h].op = "update",
                        Body(h).kind \in {"subscription", "cors"}
                 PROVE  FALSE
    OBVIOUS
  <2>2. Steps(req[h]) = UpdateSubscription \/ Steps(req[h]) = UpdateCORS
    BY <1>1, <2>1, ProgramIs DEF Steps, Body
  <2>3. QED BY <2>1, <2>2 DEF Step, UpdateSubscription, UpdateCORS
<1>4. Key(Body(h)) = Target(h)
  BY <1>1, <1>3 DEF AimsAt, Body, Target
<1>5. /\ store' \in [Keys -> Objects \cup {Absent}]
      /\ \A x \in Keys : x # Target(h) => store'[x] = store[x]
      /\ store'[Target(h)] = IF Step(h) = "delete" THEN Absent ELSE Body(h)
  BY <1>1, <1>2 DEF Written
<1>6. QED BY <1>1, <1>2, <1>4, <1>5

(***************************************************************************)
(* The steps keep the invariant.                                           *)
(***************************************************************************)

(* What is left to show once Moves has dealt with the requests.            *)
LEMMA RestTyped ==
    ASSUME /\ req' \in [Handlers -> Requests \cup {Idle}]
           /\ \A x \in Handlers : req'[x] # Idle => req'[x].at \in DOMAIN Steps(req'[x])
           /\ stale' \in [Handlers -> SUBSET Keys]
           /\ Aimed' /\ Known',
           store' \in [Keys -> Objects \cup {Absent}],
           \A k \in Keys : store'[k] # Absent => Key(store'[k]) = k,
           gauge' \in [Gateways -> [Kinds -> Int]],
           served' \in Nat, DOMAIN base' = Kinds, skew' \in BOOLEAN
    PROVE  ConfigInv'
BY DEF ConfigInv, TypeOK, Active

(* A request arrives.                                                      *)
LEMMA BeginKeeps ==
    ASSUME ConfigInv, NEW h \in Handlers, NEW op \in Ops, NEW o \in Objects, Begin(h, op, o)
    PROVE  ConfigInv'
<1> USE DEF ConfigInv
<1>1. PICK k \in Targets(op, o) :
          Goto(h, [op |-> op, body |-> o, key |-> k, at |-> 1, ignored |-> {}], {})
  BY DEF Begin
<1> DEFINE q == [op |-> op, body |-> o, key |-> k, at |-> 1, ignored |-> {}]
<1>2. k \in Keys /\ k[1] = o.kind
  BY KeyKind DEF Targets
<1>3. q \in Requests /\ q.op = op /\ q.body = o /\ q.key = k /\ q.at = 1
  BY <1>2 DEF Requests
<1>4. q.at \in DOMAIN Steps(q)
  BY <1>3, ProgramTyped DEF Steps
<1>5. AimsAt(q)
  BY <1>2, <1>3 DEF AimsAt, Targets
<1>6. Knows(q, store', stale[h])
  BY <1>3 DEF Knows
<1>7. store' = store /\ gauge' = gauge /\ served' = served + 1 /\ base' = base
  BY DEF Begin
<1>8. skew' = skew
  BY Zenon DEF Begin
<1>9. Goto(h, q, {})
  BY <1>1
<1> HIDE DEF q
<1>10. /\ req' \in [Handlers -> Requests \cup {Idle}]
       /\ \A x \in Handlers : req'[x] # Idle => req'[x].at \in DOMAIN Steps(req'[x])
       /\ stale' \in [Handlers -> SUBSET Keys]
       /\ Aimed' /\ Known'
  BY <1>3, <1>4, <1>5, <1>6, <1>7, <1>9, Moves
<1>11. /\ store' \in [Keys -> Objects \cup {Absent}]
       /\ \A x \in Keys : store'[x] # Absent => Key(store'[x]) = x
       /\ gauge' \in [Gateways -> [Kinds -> Int]]
       /\ served' \in Nat /\ DOMAIN base' = Kinds
  BY <1>7 DEF TypeOK
<1>12. skew' \in BOOLEAN
  BY <1>8, Zenon DEF TypeOK
<1>13. QED BY <1>10, <1>11, <1>12, RestTyped

(* A step that only moves a request.                                       *)
LEMMA OnlyMoves ==
    ASSUME ConfigInv, NEW h \in Handlers, NEW q, Goto(h, q, {}),
           \/ q = Idle
           \/ /\ q \in Requests /\ q.at \in DOMAIN Steps(q)
              /\ AimsAt(q)
              /\ Knows(q, store, stale[h]),
           store' = store, gauge' = gauge, served' = served, base' = base, skew' = skew
    PROVE  ConfigInv'
<1> USE DEF ConfigInv
<1>1. \/ q = Idle
      \/ /\ q \in Requests /\ q.at \in DOMAIN Steps(q)
         /\ AimsAt(q)
         /\ Knows(q, store', stale[h])
  OBVIOUS
<1>2. /\ req' \in [Handlers -> Requests \cup {Idle}]
      /\ \A x \in Handlers : req'[x] # Idle => req'[x].at \in DOMAIN Steps(req'[x])
      /\ stale' \in [Handlers -> SUBSET Keys]
      /\ Aimed' /\ Known'
  BY <1>1, Moves
<1>3. /\ store' \in [Keys -> Objects \cup {Absent}]
      /\ \A x \in Keys : store'[x] # Absent => Key(store'[x]) = x
      /\ gauge' \in [Gateways -> [Kinds -> Int]]
      /\ served' \in Nat /\ DOMAIN base' = Kinds
  BY DEF TypeOK
<1>4. skew' \in BOOLEAN
  BY Zenon DEF TypeOK
<1>5. QED BY <1>2, <1>3, <1>4, RestTyped

(* A check is made.                                                        *)
LEMMA CheckKeeps ==
    ASSUME ConfigInv, NEW h \in Handlers, Check(h)
    PROVE  ConfigInv'
<1>1. Active(h) /\ Step(h) \in Checks
  BY DEF Check
<1>2. store' = store /\ gauge' = gauge /\ served' = served /\ base' = base
  BY DEF Check
<1>3. skew' = skew
  BY Zenon DEF Check
<1>4. PICK ok \in Outcomes(Step(h), req[h], store) :
          Goto(h, IF ok THEN After(req[h]) ELSE Idle, {})
  BY DEF Check
<1> DEFINE q == IF ok THEN After(req[h]) ELSE Idle
<1>5. CASE q = Idle
  BY <1>2, <1>3, <1>4, <1>5, OnlyMoves
<1>6. CASE q # Idle
  <2>1. q = After(req[h]) /\ ok
    BY <1>6
  <2>2. \A x \in Outcomes(Step(h), req[h], store) : x \in BOOLEAN
    BY <1>1, OutcomesBoolean
  <2>3. TRUE \in Outcomes(Step(h), req[h], store)
    <3>1. ok \in BOOLEAN BY <2>2
    <3>2. ok = TRUE BY <2>1, <3>1, Zenon
    <3>3. QED BY <3>2, Zenon
  <2>4. Held(Step(h), req[h], store, stale[h])
    BY <1>1, <2>3, PassedHeld
  <2>5. Step(h) = "same" => store[Target(h)] = Body(h)
    BY <2>3 DEF Outcomes, Target, Body
  <2>6. /\ After(req[h]) \in Requests /\ After(req[h]).at \in DOMAIN Steps(After(req[h]))
        /\ AimsAt(After(req[h]))
        /\ Knows(After(req[h]), store, stale[h])
    BY <1>1, <1>6, <2>1, <2>4, <2>5, ActiveRequest, GoesOn
  <2>7. Goto(h, After(req[h]), {})
    BY <1>4, <2>1
  <2>8. QED BY <1>2, <1>3, <2>6, <2>7, OnlyMoves
<1>7. QED BY <1>5, <1>6

(* A check fails because the store does.                                   *)
LEMMA CheckErrorKeeps ==
    ASSUME ConfigInv, NEW h \in Handlers, CheckError(h)
    PROVE  ConfigInv'
<1>1. Active(h) /\ Step(h) \in Checks
  BY DEF CheckError
<1>2. store' = store /\ gauge' = gauge /\ served' = served /\ base' = base
  BY DEF CheckError
<1>3. skew' = skew
  BY Zenon DEF CheckError
<1> DEFINE g == [req[h] EXCEPT !.ignored = @ \cup {Step(h)}]
<1>4. CASE ErrorIgnored(Step(h), req[h])
  <2>1. Goto(h, After(g), {})
    BY <1>4 DEF CheckError
  <2>2. CASE After(g) = Idle
    BY <1>2, <1>3, <2>1, <2>2, OnlyMoves
  <2>3. CASE After(g) # Idle
    <3>1. req[h] \in Requests
      BY <1>1, ActiveRequest
    <3>2. /\ g \in Requests
          /\ g.op = req[h].op /\ g.body = req[h].body /\ g.key = req[h].key /\ g.at = req[h].at
      BY <1>1, <3>1 DEF Requests
    <3>3. Held(Step(h), req[h], store, stale[h]) /\ Step(h) # "same"
      BY <1>4 DEF ErrorIgnored, Held
    <3> HIDE DEF g
    <3>4. /\ After(g) \in Requests /\ After(g).at \in DOMAIN Steps(After(g))
          /\ AimsAt(After(g))
          /\ Knows(After(g), store, stale[h])
      BY <1>1, <2>3, <3>2, <3>3, GoesOn
    <3>5. QED BY <1>2, <1>3, <2>1, <3>4, OnlyMoves
  <2>4. QED BY <2>2, <2>3
<1>5. CASE ~ErrorIgnored(Step(h), req[h])
  <2>1. Goto(h, Idle, {})
    BY <1>5 DEF CheckError
  <2>2. QED BY <1>2, <1>3, <2>1, OnlyMoves
<1>6. QED BY <1>4, <1>5

(* The store refuses an atomic put.                                        *)
LEMMA WriteRefusedKeeps ==
    ASSUME ConfigInv, NEW h \in Handlers, WriteRefused(h)
    PROVE  ConfigInv'
<1>1. store' = store /\ gauge' = gauge /\ served' = served /\ base' = base /\ Goto(h, Idle, {})
  BY DEF WriteRefused
<1>2. skew' = skew
  BY Zenon DEF WriteRefused
<1>3. QED BY <1>1, <1>2, OnlyMoves

(* A request that writes, and goes on to q.                                *)
LEMMA WritesKeep ==
    ASSUME ConfigInv, NEW h \in Handlers, Active(h),
           Step(h) \in {"atomicPut", "put", "delete"}, store' = Written(h),
           NEW q, q = Idle \/ q = After(req[h]), Goto(h, q, {Target(h)}),
           gauge' = gauge, served' = served, base' = base, skew' \in BOOLEAN
    PROVE  ConfigInv'
<1>1. /\ req[h] \in Requests /\ req[h].at \in DOMAIN Steps(req[h]) /\ req[h].at \in 1..6
      /\ Target(h) \in Keys /\ AimsAt(req[h]) /\ req[h].op \in Ops /\ Body(h) \in Objects
  BY ActiveRequest
<1>2. /\ store' \in [Keys -> Objects \cup {Absent}]
      /\ \A k \in Keys : store'[k] # Absent => Key(store'[k]) = k
      /\ \A x \in Keys : store'[x] = store[x] \/ x \in {Target(h)}
  BY WriteKeeps
<1>3. ASSUME q # Idle
      PROVE  /\ q \in Requests /\ q.at \in DOMAIN Steps(q)
             /\ AimsAt(q)
             /\ Knows(q, store', stale[h])
  <2>1. /\ q \in Requests
        /\ q.op = req[h].op /\ q.body = req[h].body /\ q.key = req[h].key /\ q.at = req[h].at + 1
        /\ Steps(q) = Steps(req[h]) /\ q.at \in DOMAIN Steps(q)
    BY <1>1, <1>3, AfterStep
  <2>2. Steps(q)[q.at] \in {"inc", "dec"}
    BY <1>1, <1>3, <2>1, WriteIsLast DEF Step
  <2>3. ~(req[h].at = 1 /\ req[h].op = "update" /\ Body(h).kind \in {"subscription", "cors"})
    <3>1. SUFFICES ASSUME req[h].at = 1, req[h].op = "update",
                          Body(h).kind \in {"subscription", "cors"}
                   PROVE  FALSE
      OBVIOUS
    <3>2. Steps(req[h]) = UpdateSubscription \/ Steps(req[h]) = UpdateCORS
      BY <1>1, <3>1, ProgramIs DEF Steps, Body
    <3>3. QED BY <3>1, <3>2 DEF Step, UpdateSubscription, UpdateCORS
  <2>4. AimsAt(q)
    BY <1>1, <2>1, <2>3 DEF AimsAt, Body
  <2>5. QED BY <2>1, <2>2, <2>4 DEF Knows
<1>4. /\ req' \in [Handlers -> Requests \cup {Idle}]
      /\ \A x \in Handlers : req'[x] # Idle => req'[x].at \in DOMAIN Steps(req'[x])
      /\ stale' \in [Handlers -> SUBSET Keys]
      /\ Aimed' /\ Known'
  BY <1>1, <1>2, <1>3, Moves
<1>5. gauge' \in [Gateways -> [Kinds -> Int]] /\ served' \in Nat /\ DOMAIN base' = Kinds
  BY DEF ConfigInv, TypeOK
<1>6. QED BY <1>2, <1>4, <1>5, RestTyped

(* The store is written.                                                   *)
LEMMA WriteKeepsInv ==
    ASSUME ConfigInv, NEW h \in Handlers, Write(h)
    PROVE  ConfigInv'
<1>1. /\ Active(h) /\ Step(h) \in {"atomicPut", "put", "delete"} /\ store' = Written(h)
      /\ Goto(h, After(req[h]), {Target(h)})
      /\ gauge' = gauge /\ served' = served /\ base' = base
  BY DEF Write
<1>2. skew' \in BOOLEAN
  BY Zenon DEF Write
<1>3. QED BY <1>1, <1>2, WritesKeep

(* A write fails, with or without an effect.                               *)
LEMMA WriteErrorKeeps ==
    ASSUME ConfigInv, NEW h \in Handlers, WriteError(h)
    PROVE  ConfigInv'
<1>1. /\ Active(h) /\ Step(h) \in {"atomicPut", "put", "delete"}
      /\ gauge' = gauge /\ served' = served /\ base' = base
  BY DEF WriteError
<1>2. \/ store' = store /\ skew' = skew /\ Goto(h, Idle, {})
      \/ store' = Written(h) /\ Goto(h, Idle, {Target(h)}) /\ skew' = TRUE
  BY Zenon DEF WriteError
<1>3. CASE store' = store /\ skew' = skew /\ Goto(h, Idle, {})
  BY <1>1, <1>3, OnlyMoves
<1>4. CASE store' = Written(h) /\ Goto(h, Idle, {Target(h)}) /\ skew' = TRUE
  <2>1. skew' \in BOOLEAN
    BY <1>4, Zenon
  <2>2. QED BY <1>1, <1>4, <2>1, WritesKeep
<1>5. QED BY <1>2, <1>3, <1>4

(* A gauge is set.                                                         *)
LEMMA MetricKeeps ==
    ASSUME ConfigInv, NEW h \in Handlers, Metric(h)
    PROVE  ConfigInv'
<1>1. /\ Active(h) /\ Goto(h, Idle, {}) /\ store' = store /\ served' = served /\ base' = base
      /\ gauge' = [gauge EXCEPT ![Home[h]][Body(h).kind] =
                        IF Step(h) = "inc" THEN @ + 1 ELSE @ - 1]
  BY DEF Metric
<1>2. skew' \in BOOLEAN
  BY Zenon DEF Metric, ConfigInv, TypeOK
<1>3. Body(h).kind \in Kinds /\ Home[h] \in Gateways
  BY <1>1, ActiveRequest, GatewaysAssumption
<1>4. gauge' \in [Gateways -> [Kinds -> Int]]
  BY <1>1, <1>3 DEF ConfigInv, TypeOK
<1>5. /\ req' \in [Handlers -> Requests \cup {Idle}]
      /\ \A x \in Handlers : req'[x] # Idle => req'[x].at \in DOMAIN Steps(req'[x])
      /\ stale' \in [Handlers -> SUBSET Keys]
      /\ Aimed' /\ Known'
  BY <1>1, Moves
<1>6. /\ store' \in [Keys -> Objects \cup {Absent}]
      /\ \A x \in Keys : store'[x] # Absent => Key(store'[x]) = x
      /\ served' \in Nat /\ DOMAIN base' = Kinds
  BY <1>1 DEF ConfigInv, TypeOK
<1>7. QED BY <1>2, <1>4, <1>5, <1>6, RestTyped

(* A gateway crashes with its requests.                                    *)
LEMMA CrashKeeps ==
    ASSUME ConfigInv, NEW g \in Gateways, Crash(g)
    PROVE  ConfigInv'
<1> USE DEF ConfigInv
<1>1. /\ req' = [h \in Handlers |-> IF Home[h] = g THEN Idle ELSE req[h]]
      /\ stale' = [h \in Handlers |-> IF Home[h] = g THEN {} ELSE stale[h]]
      /\ gauge' = [gauge EXCEPT ![g] = [kind \in Kinds |-> 0]]
      /\ store' = store /\ served' = served /\ base' = base
  BY DEF Crash
<1>2. skew' \in BOOLEAN
  BY Zenon DEF Crash
<1>3. /\ req' \in [Handlers -> Requests \cup {Idle}]
      /\ \A x \in Handlers : req'[x] # Idle => req'[x].at \in DOMAIN Steps(req'[x])
      /\ stale' \in [Handlers -> SUBSET Keys]
      /\ gauge' \in [Gateways -> [Kinds -> Int]]
  BY <1>1 DEF TypeOK, Active
<1>4. \A x \in Handlers : req'[x] # Idle => req'[x] = req[x] /\ stale'[x] = stale[x]
  BY <1>1
<1>5. Aimed' /\ Known'
  BY <1>1, <1>4 DEF Aimed, Known, Active
<1>6. /\ store' \in [Keys -> Objects \cup {Absent}]
      /\ \A x \in Keys : store'[x] # Absent => Key(store'[x]) = x
      /\ served' \in Nat /\ DOMAIN base' = Kinds
  BY <1>1 DEF TypeOK
<1>7. QED BY <1>2, <1>3, <1>5, <1>6, RestTyped

(* Nothing happens.                                                        *)
LEMMA StutterKeeps ==
    ASSUME ConfigInv, UNCHANGED vars
    PROVE  ConfigInv'
<1>1. /\ store' = store /\ req' = req /\ gauge' = gauge /\ served' = served
      /\ stale' = stale /\ base' = base
  BY DEF vars
<1>2. skew' \in BOOLEAN
  BY Zenon DEF vars, ConfigInv, TypeOK
<1>3. /\ req' \in [Handlers -> Requests \cup {Idle}]
      /\ \A x \in Handlers : req'[x] # Idle => req'[x].at \in DOMAIN Steps(req'[x])
      /\ stale' \in [Handlers -> SUBSET Keys]
      /\ Aimed' /\ Known'
  BY <1>1 DEF ConfigInv, TypeOK, Active, Aimed, Known
<1>4. /\ store' \in [Keys -> Objects \cup {Absent}]
      /\ \A x \in Keys : store'[x] # Absent => Key(store'[x]) = x
      /\ gauge' \in [Gateways -> [Kinds -> Int]]
      /\ served' \in Nat /\ DOMAIN base' = Kinds
  BY <1>1 DEF ConfigInv, TypeOK
<1>5. QED BY <1>2, <1>3, <1>4, RestTyped

(* The invariant holds in the beginning.                                   *)
LEMMA InitInv == Init => ConfigInv
<1>1. SUFFICES ASSUME Init PROVE ConfigInv
  OBVIOUS
<1>2. /\ store \in [Keys -> Objects \cup {Absent}]
      /\ \A k \in Keys : store[k] # Absent => Key(store[k]) = k
  BY <1>1, StoresAssumption DEF Init
<1>3. /\ req \in [Handlers -> Requests \cup {Idle}]
      /\ \A h \in Handlers : ~Active(h)
      /\ gauge \in [Gateways -> [Kinds -> Int]]
      /\ served \in Nat
      /\ stale \in [Handlers -> SUBSET Keys]
      /\ DOMAIN base = Kinds
  BY <1>1 DEF Init, Active
<1>4. skew \in BOOLEAN
  BY <1>1, Zenon DEF Init
<1>5. QED BY <1>2, <1>3, <1>4 DEF ConfigInv, TypeOK, Aimed, Known

(* Every step keeps the invariant.                                         *)
LEMMA NextInv == ConfigInv /\ [Next]_vars => ConfigInv'
<1>1. SUFFICES ASSUME ConfigInv, [Next]_vars PROVE ConfigInv'
  OBVIOUS
<1>2. ASSUME NEW h \in Handlers, NEW op \in Ops, NEW o \in Objects, Begin(h, op, o)
      PROVE  ConfigInv'
  BY <1>1, <1>2, BeginKeeps
<1>3. ASSUME NEW h \in Handlers, Check(h) PROVE ConfigInv'
  BY <1>1, <1>3, CheckKeeps
<1>4. ASSUME NEW h \in Handlers, CheckError(h) PROVE ConfigInv'
  BY <1>1, <1>4, CheckErrorKeeps
<1>5. ASSUME NEW h \in Handlers, Write(h) PROVE ConfigInv'
  BY <1>1, <1>5, WriteKeepsInv
<1>6. ASSUME NEW h \in Handlers, WriteRefused(h) PROVE ConfigInv'
  BY <1>1, <1>6, WriteRefusedKeeps
<1>7. ASSUME NEW h \in Handlers, WriteError(h) PROVE ConfigInv'
  BY <1>1, <1>7, WriteErrorKeeps
<1>8. ASSUME NEW h \in Handlers, Metric(h) PROVE ConfigInv'
  BY <1>1, <1>8, MetricKeeps
<1>9. ASSUME NEW g \in Gateways, Crash(g) PROVE ConfigInv'
  BY <1>1, <1>9, CrashKeeps
<1>10. ASSUME Quiet \/ UNCHANGED vars PROVE ConfigInv'
  BY <1>1, <1>10, StutterKeeps DEF Quiet
<1>11. QED
  BY <1>1, <1>2, <1>3, <1>4, <1>5, <1>6, <1>7, <1>8, <1>9, <1>10 DEF Next

(* What is stored under a key has that key, although updates store bodies  *)
(* under the ID of the URL; requests are at steps of their programs.       *)
THEOREM ConfigTyped == Spec => []TypeOK
<1>1. Spec => []ConfigInv
  BY InitInv, NextInv, PTL DEF Spec
<1>2. ConfigInv => TypeOK
  BY DEF ConfigInv
<1>3. QED BY <1>1, <1>2, PTL

-----------------------------------------------------------------------------
(***************************************************************************)
(* References.                                                             *)
(***************************************************************************)

(* What a request knows when it writes.                                    *)
LEMMA BeforeWrite ==
    ASSUME ConfigInv, NEW h \in Handlers, Active(h),
           Step(h) \in {"atomicPut", "put", "delete"}
    PROVE  /\ Step(h) = "delete" <=> req[h].op = "delete"
           /\ Body(h).kind = "function" /\ req[h].op = "delete" =>
                 /\ Held("unsubscribed", req[h], store, stale[h])
                 /\ Held("notAuthorizer", req[h], store, stale[h])
           /\ Body(h).kind = "eventtype" /\ req[h].op = "delete" =>
                 Held("unsubscribed", req[h], store, stale[h])
           /\ Body(h).kind = "eventtype" /\ req[h].op # "delete" =>
                 Held("authorizer", req[h], store, stale[h])
           /\ Body(h).kind = "subscription" /\ req[h].op = "create" =>
                 /\ Held("eventType", req[h], store, stale[h])
                 /\ Held("function", req[h], store, stale[h])
           /\ Body(h).kind = "subscription" /\ req[h].op = "update" =>
                 /\ Held("same", req[h], store, stale[h])
                 /\ Held("function", req[h], store, stale[h])
<1> DEFINE P == Steps(req[h])
           at == req[h].at
<1>1. /\ req[h].op \in Ops /\ Body(h) \in Objects /\ Body(h).kind \in Kinds
      /\ at \in DOMAIN P /\ at \in 1..6 /\ Knows(req[h], store, stale[h])
      /\ P[at] \in {"atomicPut", "put", "delete"}
  BY ActiveRequest DEF Step
<1>2. \A i \in 1..(at - 1) : Held(P[i], req[h], store, stale[h])
  BY <1>1 DEF Knows
<1>3. Step(h) = P[at] BY DEF Step
<1>4. P = Program(req[h].op, Body(h)) BY DEF Steps, Body
<1>5. CASE Body(h).kind = "function"
  <2>1. CASE req[h].op = "delete"
    <3>1. P = DeleteFunction BY <1>1, <1>4, <1>5, <2>1, ProgramIs
    <3>2. at = 3 /\ P[1] = "unsubscribed" /\ P[2] = "notAuthorizer" /\ P[3] = "delete"
      BY <1>1, <3>1 DEF DeleteFunction
    <3>3. 1 \in 1..(at - 1) /\ 2 \in 1..(at - 1) BY <3>2
    <3> HIDE DEF P, at
    <3>4. QED BY <1>2, <1>3, <1>5, <2>1, <3>2, <3>3
  <2>2. CASE req[h].op # "delete"
    <3>1. P = CreateFunction \/ P = UpdateFunction
      BY <1>1, <1>4, <1>5, <2>2, ProgramIs DEF Ops
    <3>2. P[at] # "delete"
      BY <1>1, <3>1 DEF CreateFunction, UpdateFunction
    <3>3. QED BY <1>3, <1>5, <2>2, <3>2
  <2>3. QED BY <2>1, <2>2
<1>6. CASE Body(h).kind = "eventtype"
  <2>1. CASE req[h].op = "delete"
    <3>1. P = DeleteEventType BY <1>1, <1>4, <1>6, <2>1, ProgramIs
    <3>2. at = 2 /\ P[1] = "unsubscribed" /\ P[2] = "delete"
      BY <1>1, <3>1 DEF DeleteEventType
    <3>3. 1 \in 1..(at - 1) BY <3>2
    <3> HIDE DEF P, at
    <3>4. QED BY <1>2, <1>3, <1>6, <2>1, <3>2, <3>3
  <2>2. CASE req[h].op # "delete"
    <3>1. P = CreateEventType \/ P = UpdateEventType
      BY <1>1, <1>4, <1>6, <2>2, ProgramIs DEF Ops
    <3>2. at = 3 /\ P[2] = "authorizer" /\ P[3] # "delete"
      BY <1>1, <3>1 DEF CreateEventType, UpdateEventType
    <3>3. 2 \in 1..(at - 1) BY <3>2
    <3> HIDE DEF P, at
    <3>4. QED BY <1>2, <1>3, <1>6, <2>2, <3>2, <3>3
  <2>3. QED BY <2>1, <2>2
<1>7. CASE Body(h).kind = "subscription"
  <2>1. CASE req[h].op = "create"
    <3>1. P = CreateSubscription(Body(h)) BY <1>1, <1>4, <1>7, <2>1, ProgramIs
    <3>2. \E i, j \in 1..(at - 1) : P[i] = "eventType" /\ P[j] = "function"
      <4>1. CASE Body(h).type = "sync"
        <5>1. at = 5 /\ P[3] = "eventType" /\ P[4] = "function"
          BY <1>1, <3>1, <4>1 DEF CreateSubscription
        <5>2. 3 \in 1..(at - 1) /\ 4 \in 1..(at - 1) BY <5>1
        <5> HIDE DEF P, at
        <5>3. QED BY <5>1, <5>2
      <4>2. CASE Body(h).type # "sync"
        <5>1. at = 4 /\ P[2] = "eventType" /\ P[3] = "function"
          BY <1>1, <3>1, <4>2 DEF CreateSubscription
        <5>2. 2 \in 1..(at - 1) /\ 3 \in 1..(at - 1) BY <5>1
        <5> HIDE DEF P, at
        <5>3. QED BY <5>1, <5>2
      <4>3. QED BY <4>1, <4>2
    <3>3. P[at] # "delete"
      BY <1>1, <3>1 DEF CreateSubscription
    <3> HIDE DEF P, at
    <3>4. QED BY <1>2, <1>3, <1>7, <2>1, <3>2, <3>3
  <2>2. CASE req[h].op = "update"
    <3>1. P = UpdateSubscription BY <1>1, <1>4, <1>7, <2>2, ProgramIs
    <3>2. at = 3 /\ P[1] = "same" /\ P[2] = "function" /\ P[3] = "put"
      BY <1>1, <3>1 DEF UpdateSubscription
    <3>3. 1 \in 1..(at - 1) /\ 2 \in 1..(at - 1) BY <3>2
    <3> HIDE DEF P, at
    <3>4. QED BY <1>2, <1>3, <1>7, <2>2, <3>2, <3>3
  <2>3. CASE req[h].op = "delete"
    <3>1. P = DeleteSubscription BY <1>1, <1>4, <1>7, <2>3, ProgramIs
    <3>2. P[at] = "delete"
      BY <1>1, <3>1 DEF DeleteSubscription
    <3>3. QED BY <1>3, <1>7, <2>3, <3>2
  <2>4. QED BY <1>1, <2>1, <2>2, <2>3 DEF Ops
<1>8. CASE Body(h).kind = "cors"
  <2>1. CASE req[h].op = "delete"
    <3>1. P = DeleteCORS BY <1>1, <1>4, <1>8, <2>1, ProgramIs
    <3>2. P[at] = "delete"
      BY <1>1, <3>1 DEF DeleteCORS
    <3>3. QED BY <1>3, <1>8, <2>1, <3>2
  <2>2. CASE req[h].op # "delete"
    <3>1. P = CreateCORS \/ P = UpdateCORS
      BY <1>1, <1>4, <1>8, <2>2, ProgramIs DEF Ops
    <3>2. P[at] # "delete"
      BY <1>1, <3>1 DEF CreateCORS, UpdateCORS
    <3>3. QED BY <1>3, <1>8, <2>2, <3>2
  <2>3. QED BY <2>1, <2>2
<1>9. QED BY <1>1, <1>5, <1>6, <1>7, <1>8 DEF Kinds

(* A write leaves a reference dangling only if one of its ends is stale.   *)
LEMMA WriteBreaks ==
    ASSUME ConfigInv, NEW h \in Handlers, Active(h),
           Step(h) \in {"atomicPut", "put", "delete"}, store' = Written(h),
           NEW p \in Dangling(store'), p \notin Dangling(store)
    PROVE  p[1] \in stale[h] \/ p[2] \in stale[h]
<1>1. /\ p[1] \in Keys /\ p[2] \in Keys /\ p \in Keys \X Keys
      /\ store'[p[1]] # Absent /\ p[2] \in Refs(store'[p[1]]) /\ store'[p[2]] = Absent
  BY DEF Dangling
<1>2. ~(store[p[1]] # Absent /\ p[2] \in Refs(store[p[1]]) /\ store[p[2]] = Absent)
  BY <1>1 DEF Dangling
<1>3. /\ store' \in [Keys -> Objects \cup {Absent}]
      /\ \A x \in Keys : store'[x] = store[x] \/ x \in {Target(h)}
      /\ store'[Target(h)] = IF Step(h) = "delete" THEN Absent ELSE Body(h)
  BY WriteKeeps
<1>4. /\ req[h].op \in Ops /\ Body(h) \in Objects /\ Body(h).kind \in Kinds
      /\ Target(h) \in Keys /\ Target(h)[1] = Body(h).kind /\ Body(h) # Absent
  BY ActiveRequest
<1>5. store \in [Keys -> Objects \cup {Absent}]
  BY DEF ConfigInv, TypeOK
<1>6. CASE Step(h) = "delete"
  <2>1. p[1] # Target(h) /\ store'[p[1]] = store[p[1]]
    BY <1>1, <1>3, <1>6
  <2>2. p[2] = Target(h)
    BY <1>1, <1>2, <1>3, <2>1
  <2>3. req[h].op = "delete"
    BY <1>6, BeforeWrite
  <2>4. store[p[1]] \in Objects /\ p[2] \in Refs(store[p[1]])
    BY <1>1, <1>5, <2>1
  <2>5. \/ store[p[1]].kind = "subscription" /\ p[2][1] \in {"function", "eventtype"}
        \/ store[p[1]].kind = "eventtype" /\ p[2][1] = "function"
    BY <2>4, RefsKind
  <2>6. CASE store[p[1]].kind = "subscription"
    <3>1. Held("unsubscribed", req[h], store, stale[h])
      BY <1>4, <2>2, <2>3, <2>5, BeforeWrite
    <3>2. Unnamed(Target(h), "subscription", store, stale[h])
      BY <3>1 DEF Held, Target
    <3>3. QED BY <1>1, <2>1, <2>2, <2>4, <2>6, <3>2 DEF Unnamed
  <2>7. CASE store[p[1]].kind = "eventtype"
    <3>1. Held("notAuthorizer", req[h], store, stale[h])
      BY <1>4, <2>2, <2>3, <2>5, <2>7, BeforeWrite
    <3>2. Unnamed(Target(h), "eventtype", store, stale[h])
      BY <3>1 DEF Held, Target
    <3>3. QED BY <1>1, <2>1, <2>2, <2>4, <2>7, <3>2 DEF Unnamed
  <2>8. QED BY <2>5, <2>6, <2>7
<1>7. CASE Step(h) # "delete"
  <2>1. store'[Target(h)] = Body(h) /\ p[2] # Target(h) /\ store[p[2]] = Absent
    BY <1>1, <1>3, <1>4, <1>7
  <2>2. p[1] = Target(h)
    BY <1>1, <1>2, <1>3, <2>1
  <2>3. req[h].op # "delete"
    BY <1>7, BeforeWrite
  <2>4. p[2] \in Refs(Body(h))
    BY <1>1, <2>1, <2>2
  <2>5. CASE Body(h).kind = "eventtype"
    <3>1. Body(h).authorizer # None /\ p[2] = FunctionKey(Body(h).authorizer)
      BY <1>4, <2>4, <2>5, RefsKind
    <3>2. Held("authorizer", req[h], store, stale[h])
      BY <2>3, <2>5, BeforeWrite
    <3>3. Exists(p[2], store, stale[h])
      BY <3>1, <3>2 DEF Held, Body
    <3>4. QED BY <1>1, <2>1, <3>3 DEF Exists
  <2>6. CASE Body(h).kind = "subscription" /\ p[2] = FunctionKey(Body(h).function)
    <3>1. Held("function", req[h], store, stale[h])
      BY <1>4, <2>3, <2>6, BeforeWrite DEF Ops
    <3>2. Exists(p[2], store, stale[h])
      BY <2>6, <3>1 DEF Held, Body
    <3>3. QED BY <1>1, <2>1, <3>2 DEF Exists
  <2>7. CASE Body(h).kind = "subscription" /\ p[2] = EventTypeKey(Body(h).eventType)
    <3>1. CASE req[h].op = "create"
      <4>1. Held("eventType", req[h], store, stale[h])
        BY <2>7, <3>1, BeforeWrite
      <4>2. Exists(p[2], store, stale[h])
        BY <2>7, <4>1 DEF Held, Body
      <4>3. QED BY <1>1, <2>1, <4>2 DEF Exists
    <3>2. CASE req[h].op = "update"
      <4>1. Held("same", req[h], store, stale[h])
        BY <2>7, <3>2, BeforeWrite
      <4>2. store[Target(h)] = Body(h) \/ Target(h) \in stale[h]
        BY <1>4, <4>1 DEF Held, Target, Body
      <4>3. store[Target(h)] # Body(h)
        BY <1>2, <1>4, <2>1, <2>2, <2>4
      <4>4. QED BY <2>2, <4>2, <4>3
    <3>3. QED BY <1>4, <2>3, <3>1, <3>2 DEF Ops
  <2>8. QED BY <1>4, <2>4, <2>5, <2>6, <2>7, RefsKind
<1>8. QED BY <1>6, <1>7

(* The action that BrokenOnlyByRace is about.                              *)
Excused ==
    \A p \in Dangling(store') \ Dangling(store) :
        \E h \in Handlers : req'[h] # req[h] /\ {p[1], p[2]} \cap stale[h] # {}

(* A write that breaks a reference is one whose check is out of date.      *)
LEMMA WriteExcused ==
    ASSUME ConfigInv, NEW h \in Handlers, Active(h),
           Step(h) \in {"atomicPut", "put", "delete"}, store' = Written(h),
           NEW q, q = Idle \/ q = After(req[h]), NEW w, Goto(h, q, w)
    PROVE  Excused
<1>1. /\ req[h] \in Requests /\ req[h].at \in DOMAIN Steps(req[h]) /\ req[h].at \in 1..6
  BY ActiveRequest
<1>2. q # req[h]
  <2>1. CASE q = Idle BY <2>1 DEF Active
  <2>2. CASE q # Idle
    <3>1. q.at = req[h].at + 1 BY <1>1, <2>2, AfterStep
    <3>2. QED BY <1>1, <3>1
  <2>3. QED BY <2>1, <2>2
<1>3. req'[h] # req[h]
  BY <1>2 DEF Goto, ConfigInv, TypeOK
<1>4. ASSUME NEW p \in Dangling(store') \ Dangling(store)
      PROVE  {p[1], p[2]} \cap stale[h] # {}
  <2>1. p[1] \in stale[h] \/ p[2] \in stale[h]
    BY WriteBreaks
  <2>2. QED BY <2>1
<1>5. QED BY <1>3, <1>4 DEF Excused

(* So is any other step that breaks one.                                   *)
LEMMA NextExcused == ConfigInv /\ [Next]_vars => Excused
<1>1. SUFFICES ASSUME ConfigInv, [Next]_vars PROVE Excused
  OBVIOUS
<1>2. ASSUME store' = store PROVE Excused
  BY <1>2 DEF Excused
<1>3. ASSUME NEW h \in Handlers, Write(h) PROVE Excused
  BY <1>1, <1>3, WriteExcused DEF Write
<1>4. ASSUME NEW h \in Handlers, WriteError(h) PROVE Excused
  <2>1. CASE store' = store
    BY <1>2, <2>1
  <2>2. CASE store' # store
    <3>1. /\ Active(h) /\ Step(h) \in {"atomicPut", "put", "delete"}
          /\ store' = Written(h) /\ Goto(h, Idle, {Target(h)})
      BY <1>4, <2>2 DEF WriteError
    <3>2. QED BY <1>1, <3>1, WriteExcused
  <2>3. QED BY <2>1, <2>2
<1>5. CASE UNCHANGED vars
  BY <1>2, <1>5 DEF vars
<1>6. CASE Next
  <2>1. \/ store' = store
        \/ \E h \in Handlers : Write(h) \/ WriteError(h)
    BY <1>6 DEF Next, Begin, Check, CheckError, WriteRefused, Metric, Crash, Quiet, vars
  <2>2. QED BY <1>2, <1>3, <1>4, <2>1
<1>7. QED BY <1>1, <1>5, <1>6

(* References break only by races, for any number of handlers on any       *)
(* number of gateways, with failing accesses to the store and crashes.     *)
THEOREM ReferencesBreakOnlyByRaces == Spec => BrokenOnlyByRace
<1>1. Spec => []ConfigInv
  BY InitInv, NextInv, PTL DEF Spec
<1>2. ConfigInv /\ [Next]_vars => [Excused]_vars
  BY NextExcused
<1>3. BrokenOnlyByRace <=> [][Excused]_vars
  BY PTL DEF BrokenOnlyByRace, Excused
<1>4. QED BY <1>1, <1>2, <1>3, PTL DEF Spec

(***************************************************************************)
(* One request at a time.                                                  *)
(***************************************************************************)
NeverStale == \A h \in Handlers : stale[h] = {}

(* With one handler no check is ever out of date.                          *)
LEMMA AloneNotStale ==
    ASSUME \A g, h \in Handlers : g = h, ConfigInv, NeverStale, [Next]_vars
    PROVE  NeverStale'
<1>1. ASSUME NEW h \in Handlers, NEW q, NEW w, Goto(h, q, w) PROVE NeverStale'
  BY <1>1 DEF NeverStale, Goto
<1>2. ASSUME NEW g \in Gateways, Crash(g) PROVE NeverStale'
  BY <1>2 DEF NeverStale, Crash
<1>3. CASE UNCHANGED vars
  BY <1>3 DEF NeverStale, vars
<1>4. CASE Next
  <2>1. CASE \E g \in Gateways : Crash(g)
    BY <1>2, <2>1
  <2>2. CASE Quiet
    BY <1>3, <2>2 DEF Quiet
  <2>3. ASSUME NEW h \in Handlers, NEW op \in Ops, NEW o \in Objects, Begin(h, op, o)
        PROVE  NeverStale'
    BY <1>1, <2>3 DEF Begin
  <2>4. ASSUME NEW h \in Handlers, Check(h) PROVE NeverStale'
    BY <1>1, <2>4 DEF Check
  <2>5. ASSUME NEW h \in Handlers, CheckError(h) PROVE NeverStale'
    BY <1>1, <2>5 DEF CheckError
  <2>6. ASSUME NEW h \in Handlers, Write(h) \/ WriteRefused(h) PROVE NeverStale'
    BY <1>1, <2>6 DEF Write, WriteRefused
  <2>7. ASSUME NEW h \in Handlers, WriteError(h) \/ Metric(h) PROVE NeverStale'
    BY <1>1, <2>7 DEF WriteError, Metric
  <2>8. QED BY <1>4, <2>1, <2>2, <2>3, <2>4, <2>5, <2>6, <2>7 DEF Next
<1>5. QED BY <1>3, <1>4

(* With one handler, nothing in the store ever names a missing object,     *)
(* whatever accesses fail and whenever the gateway crashes.                *)
THEOREM OneAtATime ==
    ASSUME \A g, h \in Handlers : g = h
    PROVE  Spec => []ReferencesIntact
<1> DEFINE Inv == ConfigInv /\ NeverStale /\ ReferencesIntact
<1>1. Init => Inv
  <2>1. Init => NeverStale
    BY DEF Init, NeverStale
  <2>2. Init => ReferencesIntact
    BY StoresAssumption DEF Init, ReferencesIntact
  <2>3. QED BY <2>1, <2>2, InitInv
<1>2. Inv /\ [Next]_vars => Inv'
  <2>1. SUFFICES ASSUME Inv, [Next]_vars PROVE Inv'
    OBVIOUS
  <2>2. Excused
    BY <2>1, NextExcused
  <2>3. \A h \in Handlers : stale[h] = {}
    BY <2>1 DEF NeverStale
  <2>4. Dangling(store') \subseteq Dangling(store)
    BY <2>2, <2>3 DEF Excused
  <2>5. ReferencesIntact'
    BY <2>1, <2>4 DEF ReferencesIntact
  <2>6. QED BY <2>1, <2>5, NextInv, AloneNotStale
<1>3. QED BY <1>1, <1>2, PTL DEF Spec

-----------------------------------------------------------------------------
(***************************************************************************)
(* Answers.  A request that has only its gauge left to set has written     *)
(* what was asked for, and it is still there unless others wrote the key.  *)
(***************************************************************************)
Recorded ==
    \A h \in Handlers : Active(h) /\ Step(h) \in {"inc", "dec"} =>
        store[Target(h)] = Asked(req[h]) \/ Target(h) \in stale[h]

(* Checks come first: a check is never the last step of a program, what    *)
(* follows it is no gauge, and only checks are before it.                  *)
ChecksFirst(p) ==
    \A n \in 1..Len(p) : p[n] \in Checks =>
        /\ n # Len(p)
        /\ p[n + 1] \notin {"inc", "dec"}
        /\ \A i \in 1..n : p[i] \in Checks

(* This is so for the programs of all operations.                          *)
LEMMA ProgramsCheckFirst ==
    ASSUME NEW op \in Ops, NEW o \in Objects
    PROVE  ChecksFirst(Program(op, o))
<1>1. o.kind \in Kinds
  BY ObjectsAssumption
<1>2. ChecksFirst(CreateFunction)
  BY DEF ChecksFirst, Checks, CreateFunction
<1>3. ChecksFirst(UpdateFunction)
  BY DEF ChecksFirst, Checks, UpdateFunction
<1>4. ChecksFirst(DeleteFunction)
  BY DEF ChecksFirst, Checks, DeleteFunction
<1>5. ChecksFirst(CreateEventType)
  BY DEF ChecksFirst, Checks, CreateEventType
<1>6. ChecksFirst(UpdateEventType)
  BY DEF ChecksFirst, Checks, UpdateEventType
<1>7. ChecksFirst(DeleteEventType)
  BY DEF ChecksFirst, Checks, DeleteEventType
<1>8. ChecksFirst(UpdateSubscription)
  BY DEF ChecksFirst, Checks, UpdateSubscription
<1>9. ChecksFirst(DeleteSubscription)
  BY DEF ChecksFirst, Checks, DeleteSubscription
<1>10. ChecksFirst(CreateCORS)
  BY DEF ChecksFirst, Checks, CreateCORS
<1>11. ChecksFirst(UpdateCORS)
  BY DEF ChecksFirst, Checks, UpdateCORS
<1>12. ChecksFirst(DeleteCORS)
  BY DEF ChecksFirst, Checks, DeleteCORS
<1>13. ChecksFirst(CreateSubscription(o))
  <2>1. CASE o.type = "sync"
    BY <2>1 DEF ChecksFirst, Checks, CreateSubscription
  <2>2. CASE o.type # "sync"
    BY <2>2 DEF ChecksFirst, Checks, CreateSubscription
  <2>3. QED BY <2>1, <2>2
<1>14. QED
  BY <1>1, <1>2, <1>3, <1>4, <1>5, <1>6, <1>7, <1>8, <1>9, <1>10, <1>11, <1>12, <1>13, ProgramIs DEF Ops, Kinds

(* What this says of a request that is at a check.                         *)
LEMMA CheckNotLast ==
    ASSUME NEW q \in Requests, q.at \in DOMAIN Steps(q), Steps(q)[q.at] \in Checks
    PROVE  /\ q.at # Len(Steps(q))
           /\ Steps(q)[q.at + 1] \notin {"inc", "dec"}
           /\ \A i \in 1..q.at : Steps(q)[i] \in Checks
<1>1. q.op \in Ops /\ q.body \in Objects
  BY DEF Requests
<1>2. q.at \in 1..Len(Steps(q)) /\ ChecksFirst(Steps(q))
  BY <1>1, ProgramTyped, ProgramsCheckFirst DEF Steps
<1>3. QED BY <1>2 DEF ChecksFirst

(* A request goes on after every step but the last one.                    *)
LEMMA GoesOnNotIdle ==
    ASSUME NEW q \in Requests, q.at # Len(Steps(q))
    PROVE  After(q) # Idle
<1>1. [q EXCEPT !.at = @ + 1] \in [op : Ops, body : Objects, key : Keys, at : Nat,
                                   ignored : SUBSET Checks]
  BY DEF Requests
<1>2. QED BY <1>1, IdleAssumption DEF After

(* A request begins with a step that sets no gauge.                        *)
LEMMA BeginGoes ==
    ASSUME NEW h \in Handlers, NEW op \in Ops, NEW o \in Objects, Begin(h, op, o)
    PROVE  /\ store' = store /\ gauge' = gauge /\ base' = base
           /\ ~Active(h)
           /\ \E q : /\ Goto(h, q, {})
                     /\ q # Idle => Steps(q)[q.at] \notin {"inc", "dec"}
<1>1. store' = store /\ gauge' = gauge /\ base' = base /\ ~Active(h)
  BY DEF Begin
<1>2. PICK k \in Targets(op, o) :
          Goto(h, [op |-> op, body |-> o, key |-> k, at |-> 1, ignored |-> {}], {})
  BY DEF Begin
<1> DEFINE q == [op |-> op, body |-> o, key |-> k, at |-> 1, ignored |-> {}]
<1>3. q.at = 1 /\ Steps(q) = Program(op, o)
  BY DEF Steps
<1>4. Program(op, o)[1] \notin {"inc", "dec"}
  <2>1. o.kind \in Kinds
    BY ObjectsAssumption
  <2>2. CASE o.kind = "function"
    BY <2>2, ProgramIs DEF Ops, CreateFunction, UpdateFunction, DeleteFunction
  <2>3. CASE o.kind = "eventtype"
    BY <2>3, ProgramIs DEF Ops, CreateEventType, UpdateEventType, DeleteEventType
  <2>4. CASE o.kind = "subscription"
    BY <2>4, ProgramIs DEF Ops, CreateSubscription, UpdateSubscription, DeleteSubscription
  <2>5. CASE o.kind = "cors"
    BY <2>5, ProgramIs DEF Ops, CreateCORS, UpdateCORS, DeleteCORS
  <2>6. QED BY <2>1, <2>2, <2>3, <2>4, <2>5 DEF Kinds
<1> HIDE DEF q
<1>5. Goto(h, q, {})
  BY <1>2 DEF q
<1>6. QED BY <1>1, <1>3, <1>4, <1>5

(* After a check, passed or not, a request sets no gauge yet.              *)
LEMMA CheckGoes ==
    ASSUME ConfigInv, NEW h \in Handlers, Check(h) \/ CheckError(h)
    PROVE  /\ store' = store /\ gauge' = gauge /\ base' = base
           /\ Active(h) /\ Step(h) \in Checks
           /\ \E q : /\ Goto(h, q, {})
                     /\ q # Idle => Steps(q)[q.at] \notin {"inc", "dec"}
<1>1. /\ store' = store /\ gauge' = gauge /\ base' = base
      /\ Active(h) /\ Step(h) \in Checks
  BY DEF Check, CheckError
<1>2. req[h] \in Requests /\ req[h].at \in DOMAIN Steps(req[h])
  BY <1>1, ActiveRequest
<1> DEFINE g == [req[h] EXCEPT !.ignored = @ \cup {Step(h)}]
<1>3. Goto(h, Idle, {}) \/ Goto(h, After(req[h]), {}) \/ Goto(h, After(g), {})
  BY DEF Check, CheckError
<1>4. g \in Requests /\ g.op = req[h].op /\ g.body = req[h].body /\ g.at = req[h].at
  BY <1>1, <1>2 DEF Requests
<1> HIDE DEF g
<1>5. Steps(g) = Steps(req[h])
  BY <1>4 DEF Steps
<1>6. ASSUME NEW x \in Requests, x.at = req[h].at, Steps(x) = Steps(req[h]), After(x) # Idle
      PROVE  Steps(After(x))[After(x).at] \notin {"inc", "dec"}
  <2>1. Steps(x)[x.at + 1] \notin {"inc", "dec"}
    BY <1>1, <1>2, <1>6, CheckNotLast DEF Step
  <2>2. After(x).at = x.at + 1 /\ Steps(After(x)) = Steps(x)
    BY <1>2, <1>6, AfterStep
  <2>3. QED BY <2>1, <2>2
<1>7. QED BY <1>1, <1>2, <1>3, <1>4, <1>5, <1>6

(* A handler moves on, having written at most the keys in w.               *)
LEMMA RecordedMoves ==
    ASSUME ConfigInv, Recorded, NEW h \in Handlers, NEW q, NEW w \in SUBSET Keys,
           Goto(h, q, w),
           \A x \in Keys : store'[x] = store[x] \/ x \in w,
           q # Idle /\ Steps(q)[q.at] \in {"inc", "dec"} => store'[q.key] = Asked(q)
    PROVE  Recorded'
<1>1. req \in [Handlers -> Requests \cup {Idle}]
  BY DEF ConfigInv, TypeOK
<1>2. /\ req'[h] = q
      /\ \A x \in Handlers \ {h} : req'[x] = req[x]
  BY <1>1 DEF Goto
<1>3. SUFFICES ASSUME NEW x \in Handlers, req'[x] # Idle,
                      Steps(req'[x])[req'[x].at] \in {"inc", "dec"}
               PROVE  store'[req'[x].key] = Asked(req'[x]) \/ req'[x].key \in stale'[x]
  BY DEF Recorded, Active, Step, Target
<1>4. CASE x = h
  BY <1>2, <1>3, <1>4
<1>5. CASE x # h
  <2>1. req'[x] = req[x] /\ Active(x)
    BY <1>2, <1>3, <1>5 DEF Active
  <2>2. stale'[x] = stale[x] \cup w
    BY <1>5, <2>1 DEF Goto, Active
  <2>3. store[req[x].key] = Asked(req[x]) \/ req[x].key \in stale[x]
    BY <1>3, <2>1 DEF Recorded, Step, Target
  <2>4. req[x].key \in Keys
    BY <2>1, ActiveRequest DEF Target
  <2>5. QED BY <2>1, <2>2, <2>3, <2>4
<1>6. QED BY <1>4, <1>5

(* A request that writes leaves what was asked for.                        *)
LEMMA WritesAsked ==
    ASSUME ConfigInv, NEW h \in Handlers, Active(h),
           Step(h) \in {"atomicPut", "put", "delete"}, store' = Written(h)
    PROVE  store'[Target(h)] = Asked(req[h])
<1>1. store'[Target(h)] = IF Step(h) = "delete" THEN Absent ELSE Body(h)
  BY WriteKeeps
<1>2. Step(h) = "delete" <=> req[h].op = "delete"
  BY BeforeWrite
<1>3. QED BY <1>1, <1>2 DEF Asked, Body

(* Every step keeps Recorded.                                              *)
LEMMA NextRecorded == ConfigInv /\ Recorded /\ [Next]_vars => Recorded'
<1>1. SUFFICES ASSUME ConfigInv, Recorded, [Next]_vars PROVE Recorded'
  OBVIOUS
<1>2. ASSUME NEW h \in Handlers, Goto(h, Idle, {}), store' = store PROVE Recorded'
  BY <1>1, <1>2, RecordedMoves
<1>3. ASSUME NEW h \in Handlers, NEW op \in Ops, NEW o \in Objects, Begin(h, op, o)
      PROVE  Recorded'
  BY <1>1, <1>3, BeginGoes, RecordedMoves
<1>4. ASSUME NEW h \in Handlers, Check(h) \/ CheckError(h) PROVE Recorded'
  BY <1>1, <1>4, CheckGoes, RecordedMoves
<1>7. ASSUME NEW h \in Handlers, Active(h), Step(h) \in {"atomicPut", "put", "delete"},
             store' = Written(h), NEW q, q = Idle \/ q = After(req[h]),
             Goto(h, q, {Target(h)})
      PROVE  Recorded'
  <2>1. /\ req[h] \in Requests /\ req[h].at \in DOMAIN Steps(req[h])
        /\ Target(h) \in Keys
    BY <1>1, <1>7, ActiveRequest
  <2>2. \A x \in Keys : store'[x] = store[x] \/ x \in {Target(h)}
    BY <1>1, <1>7, WriteKeeps
  <2>3. store'[Target(h)] = Asked(req[h])
    BY <1>1, <1>7, WritesAsked
  <2>4. q # Idle => q.key = Target(h) /\ Asked(q) = Asked(req[h])
    BY <1>7, <2>1, AfterStep DEF Asked, Target
  <2>5. QED BY <1>1, <1>7, <2>1, <2>2, <2>3, <2>4, RecordedMoves
<1>8. ASSUME NEW h \in Handlers, Write(h) PROVE Recorded'
  BY <1>7, <1>8 DEF Write
<1>9. ASSUME NEW h \in Handlers, WriteError(h) PROVE Recorded'
  BY <1>2, <1>7, <1>9 DEF WriteError
<1>10. ASSUME NEW h \in Handlers, WriteRefused(h) \/ Metric(h) PROVE Recorded'
  BY <1>2, <1>10 DEF WriteRefused, Metric
<1>11. ASSUME NEW g \in Gateways, Crash(g) PROVE Recorded'
  <2>1. /\ req' = [h \in Handlers |-> IF Home[h] = g THEN Idle ELSE req[h]]
        /\ stale' = [h \in Handlers |-> IF Home[h] = g THEN {} ELSE stale[h]]
        /\ store' = store
    BY <1>11 DEF Crash
  <2>2. \A x \in Handlers : req'[x] # Idle => req'[x] = req[x] /\ stale'[x] = stale[x]
    BY <2>1
  <2>3. QED BY <1>1, <2>1, <2>2 DEF Recorded, Active, Step, Target
<1>12. ASSUME UNCHANGED vars PROVE Recorded'
  BY <1>1, <1>12 DEF vars, Recorded, Active, Step, Target
<1>13. QED
  BY <1>1, <1>3, <1>4, <1>8, <1>9, <1>10, <1>11, <1>12 DEF Next, Quiet

(* A check that refuses a request is answered truly.                       *)
LEMMA RejectionTrue ==
    ASSUME ConfigInv, NEW h \in Handlers, Check(h), req'[h] = Idle,
           NEW status, status = Rejected(Step(h), req[h], store)
    PROVE  Truthful(h, status)
<1>1. Active(h) /\ Step(h) \in Checks /\ store' = store
  BY DEF Check
<1>2. /\ req[h] \in Requests /\ req[h].at \in DOMAIN Steps(req[h]) /\ req[h].op \in Ops
      /\ req \in [Handlers -> Requests \cup {Idle}]
  BY <1>1, ActiveRequest DEF ConfigInv, TypeOK
<1>3. \A i \in 1..req[h].at : Steps(req[h])[i] \in Checks
  BY <1>1, <1>2, CheckNotLast DEF Step
<1>4. FALSE \in Outcomes(Step(h), req[h], store)
  <2>1. PICK ok \in Outcomes(Step(h), req[h], store) :
            Goto(h, IF ok THEN After(req[h]) ELSE Idle, {})
    BY DEF Check
  <2>2. ok \in BOOLEAN
    BY <1>1, <2>1, OutcomesBoolean
  <2>3. After(req[h]) # Idle
    <3>1. req[h].at # Len(Steps(req[h]))
      BY <1>1, <1>2, CheckNotLast DEF Step
    <3>2. QED BY <1>2, <3>1, GoesOnNotIdle
  <2>4. CASE ok = TRUE
    <3>1. Goto(h, After(req[h]), {})
      BY <2>1, <2>4
    <3>2. req'[h] = After(req[h])
      BY <1>2, <3>1 DEF Goto
    <3>3. QED BY <2>3, <3>2
  <2>5. CASE ok = FALSE
    BY <2>1, <2>5, Zenon
  <2>6. QED BY <2>2, <2>4, <2>5
<1>5. status \notin {200, 201, 204}
  BY DEF Rejected, MissingAuthorizer
<1>6. status = 409 => Step(h) = "absent"
  BY DEF Rejected, MissingAuthorizer
<1>7. Step(h) = "absent" => store[req[h].key] # Absent
  BY <1>4 DEF Outcomes
<1>8. status = 404 => Step(h) = "present" \/ (Step(h) = "same" /\ store[req[h].key] = Absent)
  BY DEF Rejected, MissingAuthorizer
<1>9. Step(h) = "present" => store[req[h].key] = Absent
  BY <1>4 DEF Outcomes
<1>10. QED BY <1>1, <1>3, <1>5, <1>6, <1>7, <1>8, <1>9 DEF Truthful

(* A read that fails is answered truly, up to the update of functions.     *)
LEMMA UnreadTrue ==
    ASSUME ConfigInv, NEW h \in Handlers, CheckError(h),
           NEW status, status = Unread(Step(h), req[h])
    PROVE  Truthful(h, status)
<1>1. Active(h) /\ Step(h) \in Checks
  BY DEF CheckError
<1>2. req[h] \in Requests /\ req[h].at \in DOMAIN Steps(req[h])
  BY <1>1, ActiveRequest
<1>3. \A i \in 1..req[h].at : Steps(req[h])[i] \in Checks
  BY <1>1, <1>2, CheckNotLast DEF Step
<1>4. status \notin {200, 201, 204, 409}
  BY DEF Unread, MissingAuthorizer
<1>5. status = 404 => req[h].op = "update" /\ req[h].body.kind = "function"
  BY DEF Unread, MissingAuthorizer
<1>6. QED BY <1>3, <1>4, <1>5 DEF Truthful

(* A success is answered only when the store holds what was asked for, or  *)
(* another request wrote the key meanwhile.                                *)
LEMMA SuccessTrue ==
    ASSUME ConfigInv, Recorded, NEW h \in Handlers, Write(h) \/ Metric(h),
           NEW status, status = Success(req[h])
    PROVE  Truthful(h, status)
<1>1. Active(h) /\ req[h].op \in Ops
  BY ActiveRequest DEF Write, Metric
<1>2. status \in {200, 201, 204}
  BY <1>1 DEF Success, Ops
<1>3. store'[req[h].key] = Asked(req[h]) \/ req[h].key \in stale[h]
  <2>1. CASE Write(h)
    BY <2>1, WritesAsked DEF Write, Target
  <2>2. CASE Metric(h)
    BY <2>2 DEF Metric, Recorded, Target
  <2>3. QED BY <2>1, <2>2
<1>4. QED BY <1>2, <1>3 DEF Truthful

(* What any step answers is true.                                          *)
TrueAnswers ==
    \A h \in Handlers : Active(h) /\ req'[h] = Idle =>
        \A status \in Statuses : Answered(h, status) => Truthful(h, status)

(* The status of an answer says what happened in the store, for any number *)
(* of concurrent requests on any number of gateways, whatever fails: a     *)
(* success that the object is as asked for unless others wrote it, a 400,  *)
(* 404 or 409 that the request wrote nothing, with the exceptions of       *)
(* deletions and of UpdateFunction that Truthful names.                    *)
THEOREM AnswersAreTrue == Spec => AnswersTrue
<1>1. Spec => [](ConfigInv /\ Recorded)
  <2>1. Init => Recorded
    BY DEF Init, Recorded, Active
  <2>2. QED BY <2>1, InitInv, NextInv, NextRecorded, PTL DEF Spec
<1>2. ConfigInv /\ Recorded /\ [Next]_vars => [TrueAnswers]_vars
  <2>1. SUFFICES ASSUME ConfigInv, Recorded, NEW h \in Handlers, req'[h] = Idle,
                        NEW status \in Statuses, Answered(h, status)
                 PROVE  Truthful(h, status)
    BY DEF TrueAnswers
  <2>2. CASE status = Unwritten(req[h])
    <3>1. \/ req[h].op = "delete" /\ status = 404
          \/ status = 500
      BY <2>2 DEF Unwritten
    <3>2. QED BY <3>1 DEF Truthful
  <2>3. QED BY <2>1, <2>2, RejectionTrue, UnreadTrue, SuccessTrue DEF Answered
<1>3. AnswersTrue <=> [][TrueAnswers]_vars
  BY PTL DEF AnswersTrue, TrueAnswers
<1>4. QED BY <1>1, <1>2, <1>3, PTL DEF Spec

-----------------------------------------------------------------------------
(***************************************************************************)
(* Gauges.                                                                 *)
(***************************************************************************)
OfKind(s, kind) == {k \in Keys : s[k] # Absent /\ s[k].kind = kind}

Reporters(step, kind) == {h \in Handlers : Active(h) /\ Step(h) = step /\ Body(h).kind = kind}

Balance(kind) ==
    base[kind] + SumColumn(gauge, kind, Gateways)
        + Cardinality(Reporters("inc", kind)) - Cardinality(Reporters("dec", kind))
    = Cardinality(OfKind(store, kind))

BaseTyped == \A kind \in Kinds : base[kind] \in Int

Balanced == BaseTyped /\ (~skew => \A kind \in Kinds : Balance(kind))

(* What follows the write in the program of an operation.                  *)
WritesThenCounts(op, p) ==
    \A n \in 1..Len(p) : p[n] \in {"atomicPut", "put", "delete"} =>
        /\ op = "create" => n # Len(p) /\ p[n + 1] = "inc"
        /\ op = "delete" => n # Len(p) /\ p[n + 1] = "dec"
        /\ op = "update" => n = Len(p)

(* Creations and deletions have a gauge to set, updates have not.          *)
LEMMA ProgramsCount ==
    ASSUME NEW op \in Ops, NEW o \in Objects
    PROVE  WritesThenCounts(op, Program(op, o))
<1>1. o.kind \in Kinds
  BY ObjectsAssumption
<1>2. WritesThenCounts("create", CreateFunction)
  BY DEF WritesThenCounts, CreateFunction
<1>3. WritesThenCounts("update", UpdateFunction)
  BY DEF WritesThenCounts, UpdateFunction
<1>4. WritesThenCounts("delete", DeleteFunction)
  BY DEF WritesThenCounts, DeleteFunction
<1>5. WritesThenCounts("create", CreateEventType)
  BY DEF WritesThenCounts, CreateEventType
<1>6. WritesThenCounts("update", UpdateEventType)
  BY DEF WritesThenCounts, UpdateEventType
<1>7. WritesThenCounts("delete", DeleteEventType)
  BY DEF WritesThenCounts, DeleteEventType
<1>8. WritesThenCounts("update", UpdateSubscription)
  BY DEF WritesThenCounts, UpdateSubscription
<1>9. WritesThenCounts("delete", DeleteSubscription)
  BY DEF WritesThenCounts, DeleteSubscription
<1>10. WritesThenCounts("create", CreateCORS)
  BY DEF WritesThenCounts, CreateCORS
<1>11. WritesThenCounts("update", UpdateCORS)
  BY DEF WritesThenCounts, UpdateCORS
<1>12. WritesThenCounts("delete", DeleteCORS)
  BY DEF WritesThenCounts, DeleteCORS
<1>13. WritesThenCounts("create", CreateSubscription(o))
  <2>1. CASE o.type = "sync"
    BY <2>1 DEF WritesThenCounts, CreateSubscription
  <2>2. CASE o.type # "sync"
    BY <2>2 DEF WritesThenCounts, CreateSubscription
  <2>3. QED BY <2>1, <2>2
<1>14. QED
  BY <1>1, <1>2, <1>3, <1>4, <1>5, <1>6, <1>7, <1>8, <1>9, <1>10, <1>11, <1>12, <1>13, ProgramIs DEF Ops, Kinds

(* Only the handler that moves starts or ceases to have a gauge to set.    *)
LEMMA ReportersMove ==
    ASSUME ConfigInv, NEW h \in Handlers, NEW q, NEW w, Goto(h, q, w), NEW step, NEW kind
    PROVE  /\ q # Idle /\ Steps(q)[q.at] = step /\ q.body.kind = kind =>
                Reporters(step, kind)' = Reporters(step, kind) \cup {h}
           /\ ~(q # Idle /\ Steps(q)[q.at] = step /\ q.body.kind = kind) =>
                Reporters(step, kind)' = Reporters(step, kind) \ {h}
<1>1. /\ req'[h] = q
      /\ \A x \in Handlers \ {h} : req'[x] = req[x]
  BY DEF Goto, ConfigInv, TypeOK
<1>2. Reporters(step, kind)' =
        {x \in Handlers : req'[x] # Idle /\ Steps(req'[x])[req'[x].at] = step
                          /\ req'[x].body.kind = kind}
  BY DEF Reporters, Active, Step, Body
<1>3. Reporters(step, kind) =
        {x \in Handlers : req[x] # Idle /\ Steps(req[x])[req[x].at] = step
                          /\ req[x].body.kind = kind}
  BY DEF Reporters, Active, Step, Body
<1>4. QED BY <1>1, <1>2, <1>3

(* The sets that are counted are finite, and the sums are numbers.         *)
LEMMA CountsTyped ==
    ASSUME ConfigInv, NEW kind \in Kinds, NEW step
    PROVE  /\ IsFiniteSet(Reporters(step, kind)) /\ Cardinality(Reporters(step, kind)) \in Nat
           /\ IsFiniteSet(OfKind(store, kind)) /\ Cardinality(OfKind(store, kind)) \in Nat
           /\ \A g \in Gateways : gauge[g][kind] \in Int
<1>1. Reporters(step, kind) \subseteq Handlers /\ OfKind(store, kind) \subseteq Keys
  BY DEF Reporters, OfKind
<1>2. IsFiniteSet(Reporters(step, kind)) /\ IsFiniteSet(OfKind(store, kind))
  BY <1>1, KeysAssumption, GatewaysAssumption, FS_Subset
<1>3. \A g \in Gateways : gauge[g][kind] \in Int
  BY DEF ConfigInv, TypeOK
<1>4. QED BY <1>2, <1>3, FS_CardinalityType

(* A step that leaves alone what is counted keeps the balance.             *)
LEMMA NothingCounted ==
    ASSUME ConfigInv, Balanced, store' = store, gauge' = gauge, base' = base,
           ~skew' => ~skew,
           \A kind \in Kinds : /\ Reporters("inc", kind)' = Reporters("inc", kind)
                               /\ Reporters("dec", kind)' = Reporters("dec", kind)
    PROVE  Balanced'
<1>1. BaseTyped'
  BY DEF Balanced, BaseTyped
<1>2. ASSUME NEW kind \in Kinds, Balance(kind) PROVE Balance(kind)'
  BY <1>2 DEF Balance
<1>3. QED BY <1>1, <1>2, Zenon DEF Balanced

(* A request that has no gauge to set, before and after the step.          *)
LEMMA NothingReported ==
    ASSUME ConfigInv, NEW h \in Handlers, NEW q, Goto(h, q, {}),
           q # Idle => Steps(q)[q.at] \notin {"inc", "dec"},
           Active(h) => Step(h) \notin {"inc", "dec"},
           NEW kind \in Kinds
    PROVE  /\ Reporters("inc", kind)' = Reporters("inc", kind)
           /\ Reporters("dec", kind)' = Reporters("dec", kind)
<1>1. h \notin Reporters("inc", kind) /\ h \notin Reporters("dec", kind)
  BY DEF Reporters
<1>2. /\ Reporters("inc", kind)' = Reporters("inc", kind) \ {h}
      /\ Reporters("dec", kind)' = Reporters("dec", kind) \ {h}
  BY ReportersMove
<1>3. QED BY <1>1, <1>2

(* Which gauges a request has to set once it has written.                  *)
LEMMA WriteReports ==
    ASSUME ConfigInv, NEW h \in Handlers, Active(h),
           Step(h) \in {"atomicPut", "put", "delete"}, NEW w, Goto(h, After(req[h]), w),
           NEW kind \in Kinds
    PROVE  /\ h \notin Reporters("inc", kind) /\ h \notin Reporters("dec", kind)
           /\ req[h].op = "create" /\ kind = Body(h).kind =>
                /\ Reporters("inc", kind)' = Reporters("inc", kind) \cup {h}
                /\ Reporters("dec", kind)' = Reporters("dec", kind)
           /\ req[h].op = "delete" /\ kind = Body(h).kind =>
                /\ Reporters("dec", kind)' = Reporters("dec", kind) \cup {h}
                /\ Reporters("inc", kind)' = Reporters("inc", kind)
           /\ req[h].op = "update" \/ kind # Body(h).kind =>
                /\ Reporters("inc", kind)' = Reporters("inc", kind)
                /\ Reporters("dec", kind)' = Reporters("dec", kind)
<1>1. /\ req[h] \in Requests /\ req[h].at \in DOMAIN Steps(req[h])
      /\ req[h].op \in Ops /\ Body(h) \in Objects
  BY ActiveRequest
<1>2. h \notin Reporters("inc", kind) /\ h \notin Reporters("dec", kind)
  BY DEF Reporters
<1>3. req[h].at \in 1..Len(Steps(req[h])) /\ WritesThenCounts(req[h].op, Steps(req[h]))
  BY <1>1, ProgramTyped, ProgramsCount DEF Steps, Body
<1>4. /\ req[h].op = "create" =>
            req[h].at # Len(Steps(req[h])) /\ Steps(req[h])[req[h].at + 1] = "inc"
      /\ req[h].op = "delete" =>
            req[h].at # Len(Steps(req[h])) /\ Steps(req[h])[req[h].at + 1] = "dec"
      /\ req[h].op = "update" => req[h].at = Len(Steps(req[h]))
  BY <1>3 DEF WritesThenCounts, Step
<1>5. PICK q : q = After(req[h])
  OBVIOUS
<1>6. q # Idle => /\ q.at = req[h].at + 1 /\ Steps(q) = Steps(req[h])
                  /\ q.body = req[h].body
  BY <1>1, <1>5, AfterStep
<1>7. req[h].at # Len(Steps(req[h])) => q # Idle
  BY <1>1, <1>5, GoesOnNotIdle
<1>8. req[h].at = Len(Steps(req[h])) => q = Idle
  BY <1>5 DEF After
<1>9. ASSUME NEW step \in {"inc", "dec"}
      PROVE  /\ q # Idle /\ Steps(q)[q.at] = step /\ q.body.kind = kind =>
                  Reporters(step, kind)' = Reporters(step, kind) \cup {h}
             /\ ~(q # Idle /\ Steps(q)[q.at] = step /\ q.body.kind = kind) =>
                  Reporters(step, kind)' = Reporters(step, kind)
  BY <1>2, <1>5, <1>9, ReportersMove
<1>10. CASE req[h].op = "create"
  BY <1>2, <1>4, <1>6, <1>7, <1>9, <1>10 DEF Body
<1>11. CASE req[h].op = "delete"
  BY <1>2, <1>4, <1>6, <1>7, <1>9, <1>11 DEF Body
<1>12. CASE req[h].op = "update"
  BY <1>2, <1>4, <1>8, <1>9, <1>12 DEF Body
<1>13. QED BY <1>1, <1>10, <1>11, <1>12 DEF Ops

(* What a write changes in the number of objects, unless it is one that    *)
(* the gauges do not see.                                                  *)
LEMMA WriteCounts ==
    ASSUME ConfigInv, NEW h \in Handlers, Active(h),
           Step(h) \in {"atomicPut", "put", "delete"}, store' = Written(h),
           ~Refused(h), ~Uncounted(h), NEW kind \in Kinds
    PROVE  /\ req[h].op = "create" /\ kind = Body(h).kind =>
                /\ OfKind(store', kind) = OfKind(store, kind) \cup {Target(h)}
                /\ Target(h) \notin OfKind(store, kind)
           /\ req[h].op = "delete" /\ kind = Body(h).kind =>
                /\ OfKind(store', kind) = OfKind(store, kind) \ {Target(h)}
                /\ Target(h) \in OfKind(store, kind)
           /\ req[h].op = "update" \/ kind # Body(h).kind =>
                OfKind(store', kind) = OfKind(store, kind)
<1>1. /\ req[h].op \in Ops /\ Body(h) \in Objects /\ Body(h) # Absent
      /\ Target(h) \in Keys /\ Target(h)[1] = Body(h).kind
  BY ActiveRequest
<1>2. /\ \A x \in Keys : store'[x] = store[x] \/ x \in {Target(h)}
      /\ store'[Target(h)] = IF Step(h) = "delete" THEN Absent ELSE Body(h)
  BY WriteKeeps
<1>3. Step(h) = "delete" <=> req[h].op = "delete"
  BY BeforeWrite
<1>4. store[Target(h)] # Absent => store[Target(h)].kind = Body(h).kind
  <2>1. store[Target(h)] # Absent =>
            store[Target(h)] \in Objects /\ Key(store[Target(h)]) = Target(h)
    BY <1>1 DEF ConfigInv, TypeOK
  <2>2. QED BY <1>1, <2>1, KeyKind
<1>5. CASE req[h].op = "create"
  <2>1. store[Target(h)] = Absent /\ store'[Target(h)] = Body(h)
    BY <1>2, <1>3, <1>5 DEF Uncounted
  <2>2. QED BY <1>1, <1>2, <1>5, <2>1 DEF OfKind
<1>6. CASE req[h].op = "delete"
  <2>1. store[Target(h)] # Absent /\ store'[Target(h)] = Absent
    BY <1>2, <1>3, <1>6 DEF Refused
  <2>2. QED BY <1>1, <1>2, <1>4, <1>6, <2>1 DEF OfKind
<1>7. CASE req[h].op = "update"
  <2>1. store[Target(h)] # Absent /\ store'[Target(h)] = Body(h)
    BY <1>2, <1>3, <1>7 DEF Uncounted
  <2>2. QED BY <1>1, <1>2, <1>4, <1>7, <2>1 DEF OfKind
<1>8. QED BY <1>1, <1>5, <1>6, <1>7 DEF Ops

(* A write keeps the balance: the object is in the store and the gauge     *)
(* still to be set, or neither.                                            *)
LEMMA WriteBalanced ==
    ASSUME ConfigInv, Balanced, NEW h \in Handlers, Write(h)
    PROVE  Balanced'
<1>1. /\ Active(h) /\ Step(h) \in {"atomicPut", "put", "delete"} /\ store' = Written(h)
      /\ ~Refused(h) /\ Goto(h, After(req[h]), {Target(h)})
      /\ gauge' = gauge /\ base' = base
  BY DEF Write
<1>2. ~skew' => ~skew /\ ~Uncounted(h)
  BY Zenon DEF Write
<1>3. BaseTyped'
  BY <1>1 DEF Balanced, BaseTyped
<1>4. ASSUME ~Uncounted(h), NEW kind \in Kinds, Balance(kind) PROVE Balance(kind)'
  <2> DEFINE incs == Reporters("inc", kind)
             decs == Reporters("dec", kind)
             objs == OfKind(store, kind)
             sum == SumColumn(gauge, kind, Gateways)
  <2>1. /\ IsFiniteSet(incs) /\ Cardinality(incs) \in Nat
        /\ IsFiniteSet(decs) /\ Cardinality(decs) \in Nat
        /\ IsFiniteSet(objs) /\ Cardinality(objs) \in Nat
        /\ base[kind] \in Int /\ sum \in Int
    <3>1. \A g \in Gateways : gauge[g][kind] \in Int
      BY CountsTyped
    <3>2. Home[h] \in Gateways
      BY GatewaysAssumption
    <3>3. PICK a, m, d : a \in Gateways /\ a = Home[h] /\ m = gauge /\ d \in Int /\ d = 0
      BY <3>2
    <3>4. sum \in Int
      <4>1. /\ \A g \in Gateways : m[g][kind] \in Int
            /\ m[a][kind] = m[a][kind] + d
            /\ \A g \in Gateways \ {a} : m[g][kind] = m[g][kind]
        BY <3>1, <3>3
      <4>2. SumColumn(m, kind, Gateways) \in Int
        BY <3>3, <4>1, GatewaysAssumption, SumChanges
      <4>3. QED BY <3>3, <4>2
    <3>5. QED BY <3>4, CountsTyped DEF Balanced, BaseTyped
  <2>2. base[kind] + sum + Cardinality(incs) - Cardinality(decs) = Cardinality(objs)
    BY <1>4 DEF Balance
  <2>3. /\ h \notin incs /\ h \notin decs
        /\ req[h].op \in Ops
    BY <1>1, WriteReports, ActiveRequest
  <2>4. SUFFICES base[kind] + sum + Cardinality(incs') - Cardinality(decs') = Cardinality(objs')
    BY <1>1 DEF Balance
  <2>5. CASE req[h].op = "create" /\ kind = Body(h).kind
    <3>1. incs' = incs \cup {h} /\ decs' = decs
      BY <1>1, <2>5, WriteReports
    <3>2. objs' = objs \cup {Target(h)} /\ Target(h) \notin objs
      BY <1>1, <1>4, <2>5, WriteCounts
    <3> HIDE DEF incs, decs, objs, sum
    <3>3. Cardinality(incs') = Cardinality(incs) + 1
      BY <2>1, <2>3, <3>1, FS_AddElement
    <3>4. Cardinality(objs') = Cardinality(objs) + 1
      BY <2>1, <3>2, FS_AddElement
    <3>5. QED BY <2>1, <2>2, <3>1, <3>3, <3>4
  <2>6. CASE req[h].op = "delete" /\ kind = Body(h).kind
    <3>1. incs' = incs /\ decs' = decs \cup {h}
      BY <1>1, <2>6, WriteReports
    <3>2. objs' = objs \ {Target(h)} /\ Target(h) \in objs
      BY <1>1, <1>4, <2>6, WriteCounts
    <3> HIDE DEF incs, decs, objs, sum
    <3>3. Cardinality(decs') = Cardinality(decs) + 1
      BY <2>1, <2>3, <3>1, FS_AddElement
    <3>4. Cardinality(objs') = Cardinality(objs) - 1
      BY <2>1, <3>2, FS_RemoveElement
    <3>5. QED BY <2>1, <2>2, <3>1, <3>3, <3>4
  <2>7. CASE req[h].op = "update" \/ kind # Body(h).kind
    <3>1. incs' = incs /\ decs' = decs
      BY <1>1, <2>7, WriteReports
    <3>2. objs' = objs
      BY <1>1, <1>4, <2>7, WriteCounts
    <3> HIDE DEF incs, decs, objs, sum
    <3>3. QED BY <2>2, <3>1, <3>2
  <2>8. QED BY <2>3, <2>5, <2>6, <2>7 DEF Ops
<1>5. QED BY <1>2, <1>3, <1>4, Zenon DEF Balanced

(* Setting a gauge keeps the balance.                                      *)
LEMMA MetricBalanced ==
    ASSUME ConfigInv, Balanced, NEW h \in Handlers, Metric(h)
    PROVE  Balanced'
<1>1. /\ Active(h) /\ Step(h) \in {"inc", "dec"}
      /\ gauge' = [gauge EXCEPT ![Home[h]][Body(h).kind] =
                        IF Step(h) = "inc" THEN @ + 1 ELSE @ - 1]
      /\ Goto(h, Idle, {}) /\ store' = store /\ base' = base
  BY DEF Metric
<1>2. ~skew' => ~skew
  BY Zenon DEF Metric
<1>3. BaseTyped'
  BY <1>1 DEF Balanced, BaseTyped
<1>4. ASSUME NEW kind \in Kinds, Balance(kind) PROVE Balance(kind)'
  <2> DEFINE incs == Reporters("inc", kind)
             decs == Reporters("dec", kind)
             objs == OfKind(store, kind)
             sum == SumColumn(gauge, kind, Gateways)
  <2>1. /\ IsFiniteSet(incs) /\ Cardinality(incs) \in Nat
        /\ IsFiniteSet(decs) /\ Cardinality(decs) \in Nat
        /\ Cardinality(objs) \in Nat /\ objs' = objs
        /\ base[kind] \in Int
        /\ \A g \in Gateways : gauge[g][kind] \in Int
    BY <1>1, CountsTyped DEF Balanced, BaseTyped
  <2>2. base[kind] + sum + Cardinality(incs) - Cardinality(decs) = Cardinality(objs)
    BY <1>4 DEF Balance
  <2>3. incs' = incs \ {h} /\ decs' = decs \ {h}
    BY <1>1, ReportersMove
  <2>4. /\ h \in incs <=> Step(h) = "inc" /\ kind = Body(h).kind
        /\ h \in decs <=> Step(h) = "dec" /\ kind = Body(h).kind
    BY <1>1 DEF Reporters
  <2>5. Home[h] \in Gateways /\ gauge \in [Gateways -> [Kinds -> Int]] /\ Body(h).kind \in Kinds
    BY <1>1, GatewaysAssumption, ActiveRequest DEF ConfigInv, TypeOK
  <2>6. PICK d \in Int : d = IF kind # Body(h).kind THEN 0 ELSE IF Step(h) = "inc" THEN 1 ELSE -1
    OBVIOUS
  <2>7. /\ gauge'[Home[h]][kind] = gauge[Home[h]][kind] + d
        /\ \A g \in Gateways \ {Home[h]} : gauge'[g][kind] = gauge[g][kind]
    BY <1>1, <2>1, <2>5, <2>6
  <2>8. sum \in Int /\ sum' = sum + d
    <3>1. PICK a, m, mm : a \in Gateways /\ a = Home[h] /\ m = gauge /\ mm = gauge'
      BY <2>5
    <3>2. /\ \A g \in Gateways : m[g][kind] \in Int
          /\ mm[a][kind] = m[a][kind] + d
          /\ \A g \in Gateways \ {a} : mm[g][kind] = m[g][kind]
      BY <2>1, <2>7, <3>1
    <3>3. /\ SumColumn(m, kind, Gateways) \in Int
          /\ SumColumn(mm, kind, Gateways) = SumColumn(m, kind, Gateways) + d
      BY <3>1, <3>2, GatewaysAssumption, SumChanges
    <3>4. QED BY <3>1, <3>3
  <2>9. SUFFICES base[kind] + sum' + Cardinality(incs') - Cardinality(decs') = Cardinality(objs)
    BY <1>1, <2>1 DEF Balance
  <2> HIDE DEF incs, decs, objs, sum
  <2>10. /\ Cardinality(incs') = IF h \in incs THEN Cardinality(incs) - 1 ELSE Cardinality(incs)
         /\ Cardinality(decs') = IF h \in decs THEN Cardinality(decs) - 1 ELSE Cardinality(decs)
    BY <2>1, <2>3, FS_RemoveElement
  <2>11. QED BY <1>1, <2>1, <2>2, <2>4, <2>6, <2>8, <2>10
<1>5. QED BY <1>2, <1>3, <1>4, Zenon DEF Balanced

(* Every step keeps the balance.                                           *)
LEMMA NextBalanced == ConfigInv /\ Balanced /\ [Next]_vars => Balanced'
<1>1. SUFFICES ASSUME ConfigInv, Balanced, [Next]_vars PROVE Balanced'
  OBVIOUS
<1>2. ASSUME NEW h \in Handlers, NEW q, Goto(h, q, {}),
             q # Idle => Steps(q)[q.at] \notin {"inc", "dec"},
             Active(h) => Step(h) \notin {"inc", "dec"},
             store' = store, gauge' = gauge, base' = base, ~skew' => ~skew
      PROVE  Balanced'
  <2>1. ASSUME NEW kind \in Kinds
        PROVE  /\ Reporters("inc", kind)' = Reporters("inc", kind)
               /\ Reporters("dec", kind)' = Reporters("dec", kind)
    BY <1>1, <1>2, NothingReported
  <2>2. QED BY <1>1, <1>2, <2>1, NothingCounted
<1>3. ASSUME NEW h \in Handlers, NEW op \in Ops, NEW o \in Objects, Begin(h, op, o)
      PROVE  Balanced'
  <2>1. ~skew' => ~skew
    BY <1>3, Zenon DEF Begin
  <2>2. QED BY <1>2, <1>3, <2>1, BeginGoes
<1>4. ASSUME NEW h \in Handlers, Check(h) \/ CheckError(h) PROVE Balanced'
  <2>1. ~skew' => ~skew
    BY <1>4, Zenon DEF Check, CheckError
  <2>2. \A step \in Checks : step \notin {"inc", "dec"}
    BY DEF Checks
  <2>3. QED BY <1>1, <1>2, <1>4, <2>1, <2>2, CheckGoes
<1>5. ASSUME NEW h \in Handlers, Write(h) PROVE Balanced'
  BY <1>1, <1>5, WriteBalanced
<1>6. ASSUME NEW h \in Handlers, WriteRefused(h) PROVE Balanced'
  <2>1. ~skew' => ~skew
    BY <1>6, Zenon DEF WriteRefused
  <2>2. QED BY <1>2, <1>6, <2>1 DEF WriteRefused, Refused
<1>7. ASSUME skew' = TRUE, base' = base PROVE Balanced'
  <2>1. BaseTyped'
    BY <1>1, <1>7 DEF Balanced, BaseTyped
  <2>2. QED BY <1>7, <2>1, Zenon DEF Balanced
<1>8. ASSUME NEW h \in Handlers, WriteError(h) PROVE Balanced'
  <2>1. /\ Active(h) /\ Step(h) \in {"atomicPut", "put", "delete"}
        /\ gauge' = gauge /\ base' = base
    BY <1>8 DEF WriteError
  <2>2. \/ store' = store /\ skew' = skew /\ Goto(h, Idle, {})
        \/ skew' = TRUE
    BY <1>8, Zenon DEF WriteError
  <2>3. CASE store' = store /\ skew' = skew /\ Goto(h, Idle, {})
    <3>1. ~skew' => ~skew
      BY <2>3, Zenon
    <3>2. QED BY <1>2, <2>1, <2>3, <3>1
  <2>4. QED BY <1>7, <2>1, <2>2, <2>3
<1>9. ASSUME NEW h \in Handlers, Metric(h) PROVE Balanced'
  BY <1>1, <1>9, MetricBalanced
<1>10. ASSUME NEW g \in Gateways, Crash(g) PROVE Balanced'
  <2>1. skew' = TRUE
    BY <1>10, Zenon DEF Crash
  <2>2. base' = base
    BY <1>10 DEF Crash
  <2>3. QED BY <1>7, <2>1, <2>2
<1>11. ASSUME UNCHANGED vars PROVE Balanced'
  <2>1. store' = store /\ gauge' = gauge /\ base' = base /\ req' = req
    BY <1>11 DEF vars
  <2>2. ~skew' => ~skew
    BY <1>11, Zenon DEF vars
  <2>3. \A kind \in Kinds : /\ Reporters("inc", kind)' = Reporters("inc", kind)
                            /\ Reporters("dec", kind)' = Reporters("dec", kind)
    BY <2>1 DEF Reporters, Active, Step, Body
  <2>4. QED BY <1>1, <2>1, <2>2, <2>3, NothingCounted
<1>12. QED
  BY <1>1, <1>3, <1>4, <1>5, <1>6, <1>8, <1>9, <1>10, <1>11 DEF Next, Quiet

(* The gauges of all gateways together follow the number of objects of     *)
(* each kind in the store, up to the requests about to report, for any     *)
(* number of gateways, as long as nothing happened that the code does not  *)
(* count.                                                                  *)
THEOREM GaugesCount == Spec => []GaugesFollowStore
<1>1. Init => Balanced
  <2>1. SUFFICES ASSUME Init PROVE Balanced
    OBVIOUS
  <2>2. ConfigInv
    BY <2>1, InitInv
  <2>3. ASSUME NEW kind \in Kinds PROVE base[kind] \in Int /\ Balance(kind)
    <3>1. Reporters("inc", kind) = {} /\ Reporters("dec", kind) = {}
      BY <2>1 DEF Init, Reporters, Active
    <3>2. SumColumn(gauge, kind, Gateways) = 0
      <4>1. \A g \in Gateways : gauge[g][kind] = 0
        BY <2>1 DEF Init
      <4>2. QED BY <4>1, GatewaysAssumption, SumOfZeros
    <3>3. base[kind] = Cardinality(OfKind(store, kind)) /\ base[kind] \in Nat
      BY <2>1, <2>2, CountsTyped DEF Init, Count, OfKind
    <3>4. QED BY <3>1, <3>2, <3>3, FS_EmptySet DEF Balance
  <2>4. QED BY <2>3 DEF Balanced, BaseTyped
<1>2. Spec => [](ConfigInv /\ Balanced)
  BY <1>1, InitInv, NextInv, NextBalanced, PTL DEF Spec
<1>3. Balanced => GaugesFollowStore
  BY DEF Balanced, Balance, GaugesFollowStore, Reporting, Reporters, Count, OfKind, SumColumn
<1>4. QED BY <1>2, <1>3, PTL
=============================================================================
