--------------------------- MODULE ConfigService ---------------------------
(***************************************************************************)
(* The configuration API (src/httpapi) and the services behind it          *)
(* (src/libkv): functions, event types, subscriptions and CORS             *)
(* configurations of one space, kept in a key-value store that any number  *)
(* of gateways share.                                                      *)
(*                                                                         *)
(* A request is a sequence of accesses to the store, listed by Program.    *)
(* Each access is one step, and steps of different requests interleave;    *)
(* the store is linearizable (reads are Consistent), but nothing spans two *)
(* accesses.  Requests the validators reject change nothing and are left   *)
(* out, and so are reads (get, list).                                      *)
(***************************************************************************)
EXTENDS PathTree, SequencesExt

CONSTANTS
    Objects,        \* the bodies of requests, see ObjectsAssumption
    Gateways,
    Handlers,       \* goroutines that serve configuration requests
    Home,           \* handler -> the gateway it belongs to
    Stores,         \* contents of the store when the gateways are started
    StoreMayFail,   \* whether an access to the store may return an error
    MayCrash,       \* whether gateways are restarted
    MaxRequests,    \* bound on the number of requests
    None,           \* an event type has no authorizer
    Absent, Idle

Kinds == {"function", "eventtype", "subscription", "cors"}
Ops == {"create", "update", "delete"}

(* newSubscriptionID: only async subscriptions have the function in it.    *)
(* The HTTP method is part of the path here.                               *)
SubscriptionID(s) ==
    IF s.type = "async" THEN <<s.type, s.eventType, s.path, s.function>>
                        ELSE <<s.type, s.eventType, s.path>>

FunctionKey(f) == <<"function", f>>
EventTypeKey(t) == <<"eventtype", t>>
Key(o) == IF o.kind = "subscription" THEN <<o.kind, SubscriptionID(o)>>
                                     ELSE <<o.kind, o.id>>

(* Keys of the objects that o names in its fields.                         *)
Refs(o) ==
    CASE o.kind = "subscription" -> {FunctionKey(o.function), EventTypeKey(o.eventType)}
      [] o.kind = "eventtype"    -> IF o.authorizer = None THEN {} ELSE {FunctionKey(o.authorizer)}
      [] OTHER                   -> {}

Keys == {Key(o) : o \in Objects} \cup UNION {Refs(o) : o \in Objects}

ASSUME ObjectsAssumption ==
    /\ \A o \in Objects : o.kind \in Kinds
    /\ Absent \notin Objects

ASSUME KeysAssumption == IsFiniteSet(Keys)

ASSUME GatewaysAssumption ==
    /\ IsFiniteSet(Gateways) /\ IsFiniteSet(Handlers)
    /\ Home \in [Handlers -> Gateways]
    /\ StoreMayFail \in BOOLEAN
    /\ MayCrash \in BOOLEAN

-----------------------------------------------------------------------------
(***************************************************************************)
(* What a request does, access by access.                                  *)
(***************************************************************************)

CreateFunction == <<"absent", "atomicPut", "inc">>
UpdateFunction == <<"present", "put">>
DeleteFunction == <<"unsubscribed", "notAuthorizer", "delete", "dec">>

CreateEventType == <<"absent", "authorizer", "atomicPut", "inc">>
UpdateEventType == <<"present", "authorizer", "put">>
DeleteEventType == <<"unsubscribed", "delete", "dec">>

CreateSubscription(s) ==
    IF s.type = "sync"
    THEN <<"absent", "noConflict", "eventType", "function", "atomicPut", "inc">>
    ELSE <<"absent", "eventType", "function", "atomicPut", "inc">>
(* Mutant: the new subscription is not compared with the old one.          *)
UpdateSubscriptionUnchecked == <<"present", "function", "put">>

UpdateSubscription == <<"same", "function", "put">>
DeleteSubscription == <<"present", "delete", "dec">>

CreateCORS == <<"absent", "put", "inc">>
UpdateCORS == <<"same", "put">>
DeleteCORS == <<"delete", "dec">>

Program(op, o) ==
    CASE o.kind = "function" ->
            (CASE op = "create" -> CreateFunction
               [] op = "update" -> UpdateFunction
               [] op = "delete" -> DeleteFunction)
      [] o.kind = "eventtype" ->
            (CASE op = "create" -> CreateEventType
               [] op = "update" -> UpdateEventType
               [] op = "delete" -> DeleteEventType)
      [] o.kind = "subscription" ->
            (CASE op = "create" -> CreateSubscription(o)
               [] op = "update" -> UpdateSubscription
               [] op = "delete" -> DeleteSubscription)
      [] o.kind = "cors" ->
            (CASE op = "create" -> CreateCORS
               [] op = "update" -> UpdateCORS
               [] op = "delete" -> DeleteCORS)

(* No object of this kind in the store s names the key k.                  *)
Unreferenced(s, kind, k) ==
    \A x \in Keys : s[x] # Absent /\ s[x].kind = kind => k \notin Refs(s[x])

(* Mutant: the paths of async subscriptions are compared.                  *)
SyncRoutesAsync(s, t) ==
    {s[k].path : k \in {x \in Keys : /\ s[x] # Absent
                                     /\ s[x].kind = "subscription"
                                     /\ s[x].type = "async"
                                     /\ s[x].eventType = t}}

SyncRoutes(s, t) ==
    {s[k].path : k \in {x \in Keys : /\ s[x] # Absent
                                     /\ s[x].kind = "subscription"
                                     /\ s[x].type = "sync"
                                     /\ s[x].eventType = t}}

(* The answers checkForPathConflict may give: it adds the routes the store *)
(* lists, in the order of their keys and ignoring failures, to a tree.     *)
CheckForPathConflict(s, o) ==
    {LET tree == FoldLeft(LAMBDA t, p : AddRoute(t, p, o), NewNode, order)
     IN  AddOK(tree, o.path) : order \in SetToSeqs(SyncRoutes(s, o.eventType))}

(* Mutant: the authorizer is not looked up.                                *)
OutcomesNoAuthorizer(step, q, s) ==
    CASE step = "absent"        -> {s[q.key] = Absent}
      [] step = "present"       -> {s[q.key] # Absent}
      [] step = "same"          -> {s[q.key] = q.body}
      [] step = "eventType"     -> {s[EventTypeKey(q.body.eventType)] # Absent}
      [] step = "function"      -> {s[FunctionKey(q.body.function)] # Absent}
      [] step = "authorizer"    -> {TRUE}
      [] step = "unsubscribed"  -> {Unreferenced(s, "subscription", q.key)}
      [] step = "notAuthorizer" -> {Unreferenced(s, "eventtype", q.key)}
      [] step = "noConflict"    -> CheckForPathConflict(s, q.body)

(* Whether the request q goes on after it has read the store s.  An update *)
(* of a subscription or a CORS configuration may change only the fields    *)
(* that are not modelled here (metadata, allowed origins and so on).       *)
Outcomes(step, q, s) ==
    CASE step = "absent"        -> {s[q.key] = Absent}
      [] step = "present"       -> {s[q.key] # Absent}
      [] step = "same"          -> {s[q.key] = q.body}
      [] step = "eventType"     -> {s[EventTypeKey(q.body.eventType)] # Absent}
      [] step = "function"      -> {s[FunctionKey(q.body.function)] # Absent}
      [] step = "authorizer"    -> {q.body.authorizer = None
                                   \/ s[FunctionKey(q.body.authorizer)] # Absent}
      [] step = "unsubscribed"  -> {Unreferenced(s, "subscription", q.key)}
      [] step = "notAuthorizer" -> {Unreferenced(s, "eventtype", q.key)}
      [] step = "noConflict"    -> CheckForPathConflict(s, q.body)

Checks == {"absent", "present", "same", "eventType", "function", "authorizer",
           "unsubscribed", "notAuthorizer", "noConflict"}

ASSUME IdleAssumption ==
    Idle \notin [op : Ops, body : Objects, key : Keys, at : Nat, ignored : SUBSET Checks]

(* The steps that take an error of the store for the answer they hope for. *)
(* A list that cannot be read is an empty one to checkForPathConflict,     *)
(* which still refuses a path that no tree accepts.                        *)
ErrorIgnored(step, q) ==
    step = "absent" \/ (step = "noConflict" /\ AddOK(NewNode, q.body.path))

-----------------------------------------------------------------------------
(***************************************************************************)
(* What the contents of a store should be like.                            *)
(***************************************************************************)

(* Objects that name another one that does not exist.                      *)
Dangling(s) ==
    {p \in Keys \X Keys : /\ s[p[1]] # Absent
                          /\ p[2] \in Refs(s[p[1]])
                          /\ s[p[2]] = Absent}

(* Pairs of sync subscriptions whose paths the documentation says cannot   *)
(* be registered together.                                                 *)
SyncKeys(s) ==
    {k \in Keys : s[k] # Absent /\ s[k].kind = "subscription" /\ s[k].type = "sync"}

PathConflicts(s) ==
    {p \in SyncKeys(s) \X SyncKeys(s) :
        /\ p[1] # p[2]
        /\ s[p[1]].eventType = s[p[2]].eventType
        /\ Conflict(s[p[1]].path, s[p[2]].path)}

ASSUME StoresAssumption ==
    \A s \in Stores :
        /\ s \in [Keys -> Objects \cup {Absent}]
        /\ \A k \in Keys : s[k] # Absent => Key(s[k]) = k
        /\ Dangling(s) = {}
        /\ PathConflicts(s) = {}

-----------------------------------------------------------------------------
VARIABLES
    store,  \* key -> object or Absent
    req,    \* handler -> its request and the position in its program, or Idle
    gauge,  \* gateway -> kind -> metricFunctions, metricEventTypes, ...
    served, \* number of requests begun
    stale,  \* history: handler -> keys others wrote since its request began
    base,   \* history: kind -> objects in the store at the start
    skew    \* history: something happened that the gauges do not see

vars == <<store, req, gauge, served, stale, base, skew>>

Requests == [op : Ops, body : Objects, key : Keys, at : 1..6, ignored : SUBSET Checks]

Count(s, kind) == Cardinality({k \in Keys : s[k] # Absent /\ s[k].kind = kind})

Init ==
    /\ store \in Stores
    /\ req = [h \in Handlers |-> Idle]
    /\ gauge = [g \in Gateways |-> [kind \in Kinds |-> 0]]
    /\ served = 0
    /\ stale = [h \in Handlers |-> {}]
    /\ base = [kind \in Kinds |-> Count(store, kind)]
    /\ skew = FALSE

Active(h) == req[h] # Idle
Steps(q) == Program(q.op, q.body)
Step(h) == Steps(req[h])[req[h].at]
Body(h) == req[h].body
Target(h) == req[h].key

(* The request at h goes on to q, and has written the keys in written.     *)
Goto(h, q, written) ==
    /\ req' = [req EXCEPT ![h] = q]
    /\ stale' = [x \in Handlers |->
                    IF x = h THEN IF q = Idle THEN {} ELSE stale[h]
                    ELSE IF req[x] = Idle THEN {} ELSE stale[x] \cup written]

After(q) == IF q.at = Len(Steps(q)) THEN Idle ELSE [q EXCEPT !.at = @ + 1]

(* The key a request is about.  The ID in the URL of an update need not be *)
(* the one its body would have.                                            *)
Targets(op, o) ==
    IF op = "update" /\ o.kind \in {"subscription", "cors"}
    THEN {k \in Keys : k[1] = o.kind}
    ELSE {Key(o)}

Begin(h, op, o) ==
    /\ ~Active(h)
    /\ served < MaxRequests
    /\ served' = served + 1
    /\ \E k \in Targets(op, o) :
          Goto(h, [op |-> op, body |-> o, key |-> k, at |-> 1, ignored |-> {}], {})
    /\ UNCHANGED <<store, gauge, base, skew>>

Check(h) ==
    /\ Active(h) /\ Step(h) \in Checks
    /\ \E ok \in Outcomes(Step(h), req[h], store) :
          Goto(h, IF ok THEN After(req[h]) ELSE Idle, {})
    /\ UNCHANGED <<store, gauge, served, base, skew>>

(* A read fails: the connection to the store is lost, or it times out.     *)
CheckError(h) ==
    /\ StoreMayFail
    /\ Active(h) /\ Step(h) \in Checks
    /\ IF ErrorIgnored(Step(h), req[h])
       THEN Goto(h, After([req[h] EXCEPT !.ignored = @ \cup {Step(h)}]), {})
       ELSE Goto(h, Idle, {})
    /\ UNCHANGED <<store, gauge, served, base, skew>>

(* What the write of a handler leaves in the store, and whether it counts  *)
(* differently in the store and in the gauge.                              *)
Written(h) ==
    [store EXCEPT ![Target(h)] = IF Step(h) = "delete" THEN Absent ELSE Body(h)]

Uncounted(h) ==
    IF req[h].op = "create" THEN store[Target(h)] # Absent
    ELSE req[h].op = "update" /\ store[Target(h)] = Absent

(* Mutant: deleting what does not exist is no error.                       *)
RefusedPutOnly(h) == Step(h) = "atomicPut" /\ store[Target(h)] # Absent

(* AtomicPut without a previous value refuses a key that exists, and       *)
(* Delete one that does not.                                               *)
Refused(h) ==
    \/ Step(h) = "atomicPut" /\ store[Target(h)] # Absent
    \/ Step(h) = "delete" /\ store[Target(h)] = Absent

Write(h) ==
    /\ Active(h) /\ Step(h) \in {"atomicPut", "put", "delete"}
    /\ ~Refused(h)
    /\ store' = Written(h)
    /\ Goto(h, After(req[h]), {Target(h)})
    /\ skew' = (skew \/ Uncounted(h))
    /\ UNCHANGED <<gauge, served, base>>

WriteRefused(h) ==
    /\ Active(h) /\ Refused(h)
    /\ Goto(h, Idle, {})
    /\ UNCHANGED <<store, gauge, served, base, skew>>

(* The answer to a write is lost, or the write itself: the handler cannot  *)
(* tell, and reports an error.                                             *)
WriteError(h) ==
    /\ StoreMayFail
    /\ Active(h) /\ Step(h) \in {"atomicPut", "put", "delete"}
    /\ \/ /\ UNCHANGED <<store, skew>>
          /\ Goto(h, Idle, {})
       \/ /\ ~Refused(h)
          /\ store' = Written(h)
          /\ Goto(h, Idle, {Target(h)})
          /\ skew' = TRUE
    /\ UNCHANGED <<gauge, served, base>>

Metric(h) ==
    /\ Active(h) /\ Step(h) \in {"inc", "dec"}
    /\ gauge' = [gauge EXCEPT ![Home[h]][Body(h).kind] = IF Step(h) = "inc" THEN @ + 1 ELSE @ - 1]
    /\ Goto(h, Idle, {})
    /\ UNCHANGED <<store, served, base, skew>>

(* A gateway is restarted.  The store is elsewhere and stays.              *)
Crash(g) ==
    /\ MayCrash
    /\ req' = [h \in Handlers |-> IF Home[h] = g THEN Idle ELSE req[h]]
    /\ stale' = [h \in Handlers |-> IF Home[h] = g THEN {} ELSE stale[h]]
    /\ gauge' = [gauge EXCEPT ![g] = [kind \in Kinds |-> 0]]
    /\ skew' = TRUE
    /\ UNCHANGED <<store, served, base>>

(* The bound on requests is reached and all of them are answered.          *)
Quiet ==
    /\ served = MaxRequests
    /\ \A h \in Handlers : ~Active(h)
    /\ UNCHANGED vars

Next ==
    \/ \E h \in Handlers :
          \/ \E op \in Ops, o \in Objects : Begin(h, op, o)
          \/ Check(h) \/ CheckError(h)
          \/ Write(h) \/ WriteRefused(h) \/ WriteError(h)
          \/ Metric(h)
    \/ \E g \in Gateways : Crash(g)
    \/ Quiet

Spec == Init /\ [][Next]_vars

-----------------------------------------------------------------------------
(***************************************************************************)
(* Properties.                                                             *)
(***************************************************************************)

(* Every key holds an object of that key, every request is at a step of    *)
(* its program.  UpdateSubscription and UpdateCORS store the body under    *)
(* the ID of the URL: only their comparison with the old object makes that *)
(* the body's own ID.                                                      *)
TypeOK ==
    /\ store \in [Keys -> Objects \cup {Absent}]
    /\ \A k \in Keys : store[k] # Absent => Key(store[k]) = k
    /\ req \in [Handlers -> Requests \cup {Idle}]
    /\ \A h \in Handlers : Active(h) => req[h].at \in DOMAIN Steps(req[h])
    /\ gauge \in [Gateways -> [Kinds -> Int]]
    /\ served \in Nat
    /\ stale \in [Handlers -> SUBSET Keys]
    /\ DOMAIN base = Kinds
    /\ skew \in BOOLEAN

(* A step leaves a subscription or an event type that names a missing      *)
(* object only if its request had read one of the two before another       *)
(* request wrote it: the checks of CreateSubscription, UpdateSubscription, *)
(* CreateEventType, UpdateEventType, DeleteFunction and DeleteEventType    *)
(* leave no other hole, whatever fails or crashes.                         *)
BrokenOnlyByRace ==
    [][\A p \in Dangling(store') \ Dangling(store) :
          \E h \in Handlers : req'[h] # req[h] /\ {p[1], p[2]} \cap stale[h] # {}]_vars

(* A first pair of conflicting sync paths is stored only by a request      *)
(* whose list of subscriptions (checkForPathConflict) was out of date or   *)
(* could not be read.                                                      *)
ConflictOnlyByRace ==
    [][PathConflicts(store) = {} /\ PathConflicts(store') # {} =>
          \E h \in Handlers :
              /\ Active(h) /\ req'[h] # req[h]
              /\ ("noConflict" \in req[h].ignored \/ \E k \in stale[h] : k[1] = "subscription")]_vars

(* The gauges of the gateways together change as the number of objects in  *)
(* the store does, up to requests that are about to report, unless a       *)
(* gateway was restarted, the answer to a write was lost, an update        *)
(* brought a deleted object back, or two requests both created a CORS      *)
(* configuration.                                                          *)
Reporting(step, kind) ==
    Cardinality({h \in Handlers : Active(h) /\ Step(h) = step /\ Body(h).kind = kind})

GaugesFollowStore ==
    ~skew => \A kind \in Kinds :
        base[kind] + MapThenSumSet(LAMBDA g : gauge[g][kind], Gateways)
            + Reporting("inc", kind) - Reporting("dec", kind) = Count(store, kind)

(* With one request at a time nothing in the store names a missing object, *)
(* also when accesses to it fail and the gateway crashes in between.       *)
ReferencesIntact == Dangling(store) = {}
=============================================================================
