---------------------------- MODULE TargetCache ----------------------------
(***************************************************************************)
(* The local cache of one gateway (src/internal/cache): what the router    *)
(* looks functions, event types, subscriptions and CORS configurations up  *)
(* in.  A watcher per kind of object turns what the store tells about its  *)
(* directory into calls of Modified and Deleted of that kind's cache.      *)
(*                                                                         *)
(* The store is external: it is modelled by how processEvents reads the    *)
(* channel of WatchTree.  The first batch lists the directory, later ones  *)
(* hold the changes since, in order and without gaps, until the connection *)
(* is lost and the channel is closed.  What changes before the next        *)
(* WatchTree shows only in its first batch.                                *)
(*                                                                         *)
(* The method is part of `event` below, and of a CORS configuration's id.  *)
(***************************************************************************)
EXTENDS PathTree, SequencesExt

CONSTANTS
    Objects,    \* what the store may hold
    MaxWrites,  \* bound on the changes of the store
    MaxFaults,  \* bound on lost connections and restarts
    Absent

Plain == {"function", "eventtype"}
Watchers == {o.kind : o \in Objects}

IsAsync(o) == o.kind = "subscription" /\ o.type = "async"
Routed(o) == o.kind \notin Plain /\ ~IsAsync(o)

(* Keys hold the space and the ID.  The ID of a subscription has its       *)
(* function only if it is async.                                           *)
Key(o) ==
    CASE o.kind \in Plain -> <<o.kind, o.space, o.id>>
      [] IsAsync(o)       -> <<o.kind, o.space, o.event, o.path, o.function>>
      [] Routed(o)        -> <<o.kind, o.space, o.event, o.path>>

Keys == {Key(o) : o \in Objects}
KeysOf(w) == {k \in Keys : k[1] = w}
PlainKeys == {k \in Keys : k[1] \in Plain}

(* Where the caches put a subscription or a CORS configuration, and what   *)
(* they put there.  The space is no part of the place.                     *)
Slot(o) == IF IsAsync(o) THEN <<o.event, o.path>> ELSE <<o.kind, o.event>>
Value(o) == IF o.kind = "subscription" THEN <<o.space, o.function>> ELSE o

AsyncSlots == {Slot(o) : o \in {x \in Objects : IsAsync(x)}}
TreeSlots == {Slot(o) : o \in {x \in Objects : Routed(x)}}

ASSUME ObjectsAssumption ==
    /\ Absent \notin Objects
    /\ \A o \in Objects :
          /\ o.kind \in Plain \cup {"subscription", "cors"}
          /\ o.kind = "subscription" => {"space", "function"} \subseteq DOMAIN o
          /\ Routed(o) => o.path \in Seq(Segments) /\ Value(o) # Nil

-----------------------------------------------------------------------------
(***************************************************************************)
(* The caches.                                                             *)
(***************************************************************************)

NewCache ==
    [objects |-> [k \in PlainKeys |-> Absent],
     async   |-> [s \in AsyncSlots |-> <<>>],
     trees   |-> [s \in {} |-> NewNode]]

(* The tree of a slot, which is made when the first route is put there.    *)
Root(c, s) == IF s \in DOMAIN c.trees THEN c.trees[s] ELSE NewNode

Planted(c, s, t) ==
    [c EXCEPT !.trees = [x \in DOMAIN c.trees \cup {s} |-> IF x = s THEN t ELSE c.trees[x]]]

(* Modified of the three kinds of caches.                                  *)
ObjectModified(c, o) == [c EXCEPT !.objects[Key(o)] = o]

AsyncModified(c, o) == [c EXCEPT !.async[Slot(o)] = Append(@, Value(o))]

(* Mutant: a new tree is made for every route.                             *)
RouteModifiedNewTree(c, o) == Planted(c, Slot(o), AddRoute(NewNode, o.path, Value(o)))

(* AddRoute may fail, which is only logged.                                *)
RouteModified(c, o) == Planted(c, Slot(o), AddRoute(Root(c, Slot(o)), o.path, Value(o)))

Modified(c, o) ==
    CASE o.kind \in Plain -> ObjectModified(c, o)
      [] IsAsync(o)       -> AsyncModified(c, o)
      [] Routed(o)        -> RouteModified(c, o)

(* Deleted, with the last value that was known.                            *)
ObjectDeleted(c, o) == [c EXCEPT !.objects[Key(o)] = Absent]

(* Mutant: the first subscriber is removed, whoever it is.                 *)
AsyncDeletedFirst(c, o) == [c EXCEPT !.async[Slot(o)] = IF @ = <<>> THEN @ ELSE Tail(@)]

AsyncDeleted(c, o) == [c EXCEPT !.async[Slot(o)] = RemoveFirst(@, Value(o))]

(* Mutant: routes stay.                                                    *)
RouteDeletedKept(c, o) == c

RouteDeleted(c, o) ==
    IF Slot(o) \notin DOMAIN c.trees THEN c
    ELSE [c EXCEPT !.trees[Slot(o)] = DeleteRoute(@, o.path)]

Deleted(c, o) ==
    CASE o.kind \in Plain -> ObjectDeleted(c, o)
      [] IsAsync(o)       -> AsyncDeleted(c, o)
      [] Routed(o)        -> RouteDeleted(c, o)

Panics(c, o) ==
    Routed(o) /\ Slot(o) \in DOMAIN c.trees /\ DeletePanics(c.trees[Slot(o)], o.path)

(* The lookups of the router: Function and EventType, AsyncSubscribers,    *)
(* SyncSubscriber and CORS.                                                *)
Lookup(c, k) == c.objects[k]
AsyncSubscribers(c, event, path) == c.async[<<event, path>>]
Resolved(c, s, path) == IF s \in DOMAIN c.trees THEN Resolve(c.trees[s], path) ELSE {Nil}

-----------------------------------------------------------------------------
VARIABLES
    store,     \* key -> object or Absent
    up,        \* watcher -> the channel of WatchTree is open
    incoming,  \* watcher -> batches in that channel: sequences of changes
    batch,     \* watcher -> rest of the batch that processEvents works on
    known,     \* key -> value in the map `cache` of processEvents, or Absent
    cache,
    panicked,  \* a panic ended the gateway
    writes, faults,
    past,      \* history: subscriptions that were ever in the store
    lost,      \* history: keys whose deletion a watcher was not told
    resent,    \* history: keys whose value a watcher was told again
    replaced   \* history: keys whose value was replaced by another one

vars == <<store, up, incoming, batch, known, cache, panicked, writes, faults,
          past, lost, resent, replaced>>

Init ==
    /\ store = [k \in Keys |-> Absent]
    /\ up = [w \in Watchers |-> FALSE]
    /\ incoming = [w \in Watchers |-> <<>>]
    /\ batch = [w \in Watchers |-> <<>>]
    /\ known = [k \in Keys |-> Absent]
    /\ cache = NewCache
    /\ panicked = FALSE
    /\ writes = 0 /\ faults = 0
    /\ past = {} /\ lost = {} /\ resent = {} /\ replaced = {}

(* A request of some gateway writes o.  It checked o against what it read  *)
(* from the store at some earlier time, and the write does not look again  *)
(* except that creating anything but a CORS configuration needs a key that *)
(* is free.  A new sync subscription has its wildcard last, but those it   *)
(* conflicts with may all be later than the list that it was compared to.  *)
(* An update of a subscription keeps the function and the fields its ID is *)
(* made of, as they were when it was read: the subscription may have been  *)
(* deleted since, and its key be another one's now.  For the other kinds   *)
(* everything but the key may change.                                      *)
Accepted(o) ==
    \/ o.kind # "subscription"
    \/ store[Key(o)] = Absent /\ (Routed(o) => WellFormed(o.path))
    \/ \E x \in past : [x EXCEPT !.rev = o.rev] = o

(* The store changes.  A connected watcher is told in a batch of its own.  *)
Tell(w, change) ==
    incoming' = IF up[w] THEN [incoming EXCEPT ![w] = Append(@, <<change>>)] ELSE incoming

Put(o) ==
    /\ writes < MaxWrites
    /\ Accepted(o)
    /\ store' = [store EXCEPT ![Key(o)] = o]
    /\ Tell(o.kind, [key |-> Key(o), value |-> o])
    /\ writes' = writes + 1
    /\ past' = IF o.kind = "subscription" THEN past \cup {o} ELSE past
    /\ resent' = IF store[Key(o)] = Absent THEN resent ELSE resent \cup {Key(o)}
    /\ replaced' = IF store[Key(o)] = Absent \/ Value(store[Key(o)]) = Value(o) THEN replaced
                   ELSE replaced \cup {Key(o)}
    /\ UNCHANGED <<up, batch, known, cache, panicked, faults, lost>>

Delete(k) ==
    /\ writes < MaxWrites
    /\ store[k] # Absent
    /\ store' = [store EXCEPT ![k] = Absent]
    /\ Tell(k[1], [key |-> k, value |-> Absent])
    /\ writes' = writes + 1
    /\ lost' = IF up[k[1]] THEN lost ELSE lost \cup {k}
    /\ UNCHANGED <<up, batch, known, cache, panicked, faults, past, resent, replaced>>

(* Mutant: a lost connection ends the watcher.                             *)
WatchTreeOnce(w) ==
    /\ faults = 0 /\ ~up[w] /\ ~panicked
    /\ up' = [up EXCEPT ![w] = TRUE]
    /\ incoming' = [incoming EXCEPT ![w] =
          <<SetToSeq({[key |-> k, value |-> store[k]] : k \in {x \in KeysOf(w) : store[x] # Absent}})>>]
    /\ UNCHANGED <<store, batch, known, cache, panicked, writes, faults, past, lost, resent, replaced>>

(* watchRoot: WatchTree succeeds and processEvents starts with an empty    *)
(* map.  Errors of the store only take watchRoot round its loop.           *)
WatchTree(w) ==
    /\ ~up[w] /\ batch[w] = <<>> /\ ~panicked
    /\ up' = [up EXCEPT ![w] = TRUE]
    /\ LET present == {k \in KeysOf(w) : store[k] # Absent}
       IN  /\ \E order \in SetToSeqs(present) :
                 incoming' = [incoming EXCEPT ![w] =
                    <<[i \in DOMAIN order |-> [key |-> order[i], value |-> store[order[i]]]]>>]
           /\ resent' = resent \cup {k \in present : known[k] # Absent}
    /\ known' = [k \in Keys |-> IF k \in KeysOf(w) THEN Absent ELSE known[k]]
    /\ UNCHANGED <<store, batch, cache, panicked, writes, faults, past, lost, replaced>>

(* Mutant: of several batches the newest is taken.                         *)
ReceiveNewest(w) ==
    /\ batch[w] = <<>> /\ incoming[w] # <<>> /\ ~panicked
    /\ batch' = [batch EXCEPT ![w] = Last(incoming[w])]
    /\ incoming' = [incoming EXCEPT ![w] = Front(@)]
    /\ UNCHANGED <<store, up, known, cache, panicked, writes, faults, past, lost, resent, replaced>>

Receive(w) ==
    /\ batch[w] = <<>> /\ incoming[w] # <<>> /\ ~panicked
    /\ batch' = [batch EXCEPT ![w] = Head(incoming[w])]
    /\ incoming' = [incoming EXCEPT ![w] = Tail(@)]
    /\ UNCHANGED <<store, up, known, cache, panicked, writes, faults, past, lost, resent, replaced>>

(* Mutant: values are not recorded.                                        *)
RecordedNever(change) == [known EXCEPT ![change.key] = Absent]

(* What processEvents knows after a change.                                *)
Recorded(change) == [known EXCEPT ![change.key] = change.value]

(* processEvents handles one change and the goroutine of React applies it. *)
(* The channel between the two is unbuffered and keeps the order, and only *)
(* processEvents reads known: they are one step here.                      *)
React(w) ==
    /\ batch[w] # <<>> /\ ~panicked
    /\ LET change == Head(batch[w])
           old == known[change.key]
       IN  /\ known' = Recorded(change)
           /\ IF change.value # Absent
              THEN cache' = Modified(cache, change.value) /\ UNCHANGED panicked
              ELSE IF old = Absent THEN UNCHANGED <<cache, panicked>>
              ELSE IF Panics(cache, old) THEN panicked' = TRUE /\ UNCHANGED cache
              ELSE cache' = Deleted(cache, old) /\ UNCHANGED panicked
    /\ batch' = [batch EXCEPT ![w] = Tail(@)]
    /\ UNCHANGED <<store, up, incoming, writes, faults, past, lost, resent, replaced>>

(* The connection to the store is lost, with what it has not delivered.    *)
Disconnect(w) ==
    /\ faults < MaxFaults
    /\ up[w] /\ ~panicked
    /\ up' = [up EXCEPT ![w] = FALSE]
    /\ incoming' = [incoming EXCEPT ![w] = <<>>]
    /\ faults' = faults + 1
    /\ lost' = lost \cup {c.key : c \in {x \in ToSet(FlattenSeq(incoming[w])) : x.value = Absent}}
    /\ UNCHANGED <<store, batch, known, cache, panicked, writes, past, resent, replaced>>

(* The gateway is started again, after a panic or otherwise.               *)
Restart ==
    /\ faults < MaxFaults
    /\ faults' = faults + 1
    /\ up' = [w \in Watchers |-> FALSE]
    /\ incoming' = [w \in Watchers |-> <<>>]
    /\ batch' = [w \in Watchers |-> <<>>]
    /\ known' = [k \in Keys |-> Absent]
    /\ cache' = NewCache
    /\ panicked' = FALSE
    /\ lost' = {} /\ resent' = {} /\ replaced' = {}
    /\ UNCHANGED <<store, writes, past>>

CaughtUp(w) == up[w] /\ incoming[w] = <<>> /\ batch[w] = <<>> /\ ~panicked

(* The store rests.                                                        *)
Quiet == writes = MaxWrites /\ UNCHANGED vars

Next ==
    \/ \E o \in Objects : Put(o)
    \/ \E k \in Keys : Delete(k)
    \/ \E w \in Watchers : WatchTree(w) \/ Receive(w) \/ React(w) \/ Disconnect(w)
    \/ Restart
    \/ Quiet

Spec == Init /\ [][Next]_vars

(* The goroutines of the watchers run, and the store can be reached again. *)
Fairness == \A w \in Watchers : WF_vars(WatchTree(w)) /\ WF_vars(Receive(w)) /\ WF_vars(React(w))
FairSpec == Spec /\ Fairness

-----------------------------------------------------------------------------
(***************************************************************************)
(* Properties.                                                             *)
(***************************************************************************)

Changes == [key : Keys, value : Objects \cup {Absent}]

(* The map of processEvents holds objects under their own keys, and no     *)
(* tree has a node without its parent.                                     *)
TypeOK ==
    /\ store \in [Keys -> Objects \cup {Absent}]
    /\ up \in [Watchers -> BOOLEAN]
    /\ \A w \in Watchers : ToSet(batch[w]) \cup ToSet(FlattenSeq(incoming[w])) \subseteq Changes
    /\ \A k \in Keys : known[k] # Absent => known[k] \in Objects /\ Key(known[k]) = k
    /\ DOMAIN cache.trees \subseteq TreeSlots
    /\ \A s \in DOMAIN cache.trees : \A m \in DOMAIN cache.trees[s] :
          m # <<>> => Front(m) \in DOMAIN cache.trees[s]
    /\ panicked \in BOOLEAN
    /\ past \subseteq Objects
    /\ lost \cup resent \cup replaced \subseteq Keys

(* A watcher that has caught up leaves the current function or event type  *)
(* in the cache, after any number of lost connections; one that does not   *)
(* exist any more is there only if its deletion fell into a gap.           *)
LookupCurrent ==
    \A k \in DOMAIN cache.objects : CaughtUp(k[1]) =>
        \/ Lookup(cache, k) = store[k]
        \/ store[k] = Absent /\ k \in lost

(* A watcher that has caught up leaves every async subscription of the     *)
(* store in the list the router walks, and exactly once unless it was told *)
(* about it again (by an update or a new connection) or missed a deletion. *)
Entries(o) ==
    LET list == AsyncSubscribers(cache, o.event, o.path)
    IN  Cardinality({i \in DOMAIN list : list[i] = Value(o)})

AsyncServed ==
    \A o \in Objects : IsAsync(o) /\ CaughtUp(o.kind) =>
        LET stored == store[Key(o)] # Absent
        IN  /\ stored => Entries(o) >= 1
            /\ Key(o) \notin lost \cup resent => Entries(o) = IF stored THEN 1 ELSE 0

(* Paths one of which may keep the other one out of the tree, be it by a   *)
(* node that is left of it.                                                *)
Incompatible(o, x) ==
    Routed(x) /\ Slot(x) = Slot(o) /\ Key(x) # Key(o) /\ Conflict(x.path, o.path)

(* A sync subscription or CORS configuration with a wildcard at most at    *)
(* the end, and compatible with all others there may be, is served,        *)
(* whatever happens to the others.  The exceptions are paths whose older   *)
(* value stays in the tree, because AddRoute refuses a path it has: its    *)
(* deletion was missed, or it was replaced without one.  That is what an   *)
(* update does to a CORS configuration, and to a subscription an update    *)
(* that comes after it was deleted and its path given to another function. *)
RouteServed ==
    \A o \in Objects :
        /\ Routed(o) /\ CaughtUp(o.kind)
        /\ store[Key(o)] = o /\ Key(o) \notin lost \cup replaced
        /\ WellFormed(o.path) /\ \A x \in Objects : ~Incompatible(o, x)
        => Resolved(cache, Slot(o), o.path) = {Value(o)}

(* A watcher that has caught up leaves no route to what is not in the      *)
(* store, with the same exceptions.                                        *)
NoStrayRoute ==
    \A s \in DOMAIN cache.trees : CaughtUp(s[1]) =>
        \A p \in DOMAIN cache.trees[s] : cache.trees[s][p] # Nil =>
            \E o \in Objects :
                /\ Routed(o) /\ Slot(o) = s /\ o.path = p
                /\ \/ store[Key(o)] = o /\ cache.trees[s][p] = Value(o)
                   \/ Key(o) \in lost \cup replaced

(* A deletion ends the gateway only if its path has several segments and   *)
(* was kept out of the tree, by another one it is incompatible with or by  *)
(* a wildcard before its end: DeleteRoute then walks into a child that is  *)
(* not there.                                                              *)
PanicOnlyByConflict ==
    [][~panicked /\ panicked' =>
          \E w \in Watchers :
              /\ batch'[w] # batch[w]
              /\ LET o == known[Head(batch[w]).key]
                 IN  /\ Len(o.path) > 1
                     /\ ~WellFormed(o.path) \/ \E x \in Objects : Incompatible(o, x)]_vars

(* The values that a sequence of changes has for a key, and those that are *)
(* on their way to a function or an event type.                            *)
Told(q, k) ==
    LET told[i \in 0..Len(q)] ==
            IF i = 0 THEN <<>>
            ELSE IF q[i].key = k THEN Append(told[i - 1], q[i].value) ELSE told[i - 1]
    IN  told[Len(q)]

Pending(k) == Told(batch[k[1]] \o FlattenSeq(incoming[k[1]]), k)

Eventual == INSTANCE EventualCache WITH
    Keys <- PlainKeys,
    Values <- Objects,
    Watchers <- Watchers \cap Plain,
    WatcherOf <- [k \in PlainKeys |-> k[1]],
    store <- Restrict(store, PlainKeys),
    connected <- Restrict(up, Watchers \cap Plain),
    pending <- [k \in PlainKeys |-> Pending(k)],
    view <- cache.objects

(* What the router looks up follows the writes of every gateway in their   *)
(* order, through all the batches and lost connections; see EventualCache. *)
FollowsStore == Eventual!Spec

(* When the store rests and stays reachable the watchers catch up, unless  *)
(* the gateway died.                                                       *)
Converges == <>[](panicked \/ \A w \in Watchers : CaughtUp(w))

-----------------------------------------------------------------------------
(***************************************************************************)
(* What documentation and comments say, and the code does not always do.   *)
(***************************************************************************)

(* docs/reliability-guarantees.md: an event is received by a subscriber at *)
(* most once.                                                              *)
CalledOnce == \A o \in Objects : IsAsync(o) => Entries(o) <= 1
=============================================================================
