# Event Gateway: specifications, model checking and proofs

TLA+ models of the Event Gateway, translated from its Go source. A module
states what one part of the gateway does, TLC checks it on small instances, and
TLAPS proves its main invariants for every value of the constants.
`PROJECT.json` is the index: which definition models which lines (`map`), which
run checks what (`runs`), how the code would have to be changed to break each
property (`mutants`), where code and documentation disagree (`findings`).

Paths below are relative to `src/`.

## 1. The system

The gateway receives events over HTTP and calls the functions subscribed to
them. Functions, event types, subscriptions and CORS configurations are kept in
etcd, through the `libkv` library, and any number of gateways share one store.

| Component | State | Operations |
|---|---|---|
| Router (`router/`) | `backlog` channel, `drain` channel, `active`, wait group of the workers, gauge `metricBacklog`, map `receivedEvents` | `ServeHTTP`, `StartWorkers`, `loop`, `callFunction`, `handleAsyncSubscriptions`, `enqueueWork`, `authorizeEventType`, `Drain` |
| Path tree (`internal/pathtree`) | tree of path segments with values | `AddRoute`, `DeleteRoute`, `Resolve` |
| Configuration services (`libkv/`) and API (`httpapi/`) | the store; gauges per kind in memory | create, update, delete, get, list of four kinds of objects |
| Target cache (`internal/cache`) | per kind a watcher and a cache: maps, lists of async subscribers, path trees | `watchRoot`, `processEvents`, `React`, `Modified`, `Deleted`, the router's lookups |
| Plugin manager (`plugin/`) | connections to plugin processes | `NewManager`, `React`, `Kill` |
| Providers (`providers/`) | none | `Call` of HTTP, Lambda, Kinesis, Firehose, SQS |
| Events (`event/`) | none | `New`, `FromRequest`, parsing, payload normalisation |
| Lifecycle (`cmd/`, `internal/sync`, `httpapi/server.go`, `internal/embedded`) | shutdown guard, two HTTP servers, embedded etcd | start, `Listen`, `InitiateShutdown`, `Wait`, `Drain` |

How they interact. Every request to the Events API has its own goroutine in
`ServeHTTP`. It asks the target cache for a sync subscriber and calls it, then
for async subscribers and sends one work item for each to the backlog, from
which worker goroutines take them. Plugins and subscribers of system events
(`event.received`, `function.invoking`, ...) hear of every step, so workers send
to the backlog they read from. The target cache is written by the goroutines of
its watchers, which follow the store; the store is written by the configuration
services of all gateways. Nothing but the store connects two gateways.

What is hard, and hence what the properties are about:

* *Concurrency in the router*: handlers, workers and `Drain` meet at two
  channels; `isDraining` is read long before its answer is used; the gauge
  changes after the channel does; the backlog may be full.
* *Feedback*: workers feed the backlog; draining must still end.
* *Check-then-act in the services*: every operation is several accesses to a
  store that others change in between, and each access can fail with or without
  effect.
* *Caches built from deltas*: a watcher loses its connection and starts over;
  changes are told twice or not at all; the cache's data structures are not all
  idempotent.
* *A data structure with partial failures*: `AddRoute` leaves nodes behind when
  it fails, `DeleteRoute` when it succeeds, and both follow Go's map order.
* *An object shared by copies*: `copier.Copy` copies an event but not its
  extensions; the handler writes the authorization of one subscriber into what
  the workers of earlier subscribers and of listeners read.
* *Errors that stand for others*: services, providers and the router translate
  each other's errors, and a client or a listener sees only the translation.
* *Several ways to end*: a server that fails, etcd that fails, a start that
  fails, each while the other goroutines are somewhere else.

What makes each component correct:

* Router: an accepted delivery is called at most once, in order of acceptance
  of the takes; `Drain` leaves nothing behind that was accepted in time;
  requests are answered and draining ends; the gauge accounts for the backlog.
* Path tree: `Resolve` is the reference matching of the routes that are in;
  the conflict check is the documented one; map order never shows.
* Services: nothing in the store names what is not there; conflicting paths are
  not stored together; updates do not create; gauges count.
* Target cache: it agrees with the store once it has caught up, which it
  eventually does, and follows the store in the order of its writes.
* Configuration API: a status says what happened in the store.
* Events: what the client sent reaches the functions, or the request fails
  alone: it makes its own handler panic at most.
* Providers: a call's result, and the answer made of it, tell what the function
  did.
* Plugin manager: every subscribed plugin is asked, and a refusal is obeyed.
* Lifecycle: a shutdown ends the process, after the servers stopped and the
  router drained, and a process that returns leaves nothing behind.

## 2. Modules

| Module | Models | Uses |
|---|---|---|
| `Router` | `router/router.go`, `router/metrics.go`: the processes and the channels | `Delivery` (refinement) |
| `Delivery` | abstract: what the router promises for async events | |
| `Exchange` | `router/router.go`: one request and what becomes of its contents | `Event`, `Provider` |
| `Event` | `event/*.go`, `internal/http/headers.go` as operators | |
| `Provider` | `function/function.go`, `providers/*` as operators | |
| `PathTree` | `internal/pathtree/tree.go` as operators, with reference definitions | |
| `PathTreeSpec` | sequences of calls of the tree | `PathTree` |
| `ConfigService` | `libkv/*.go`, and the gauges of `httpapi/httpapi.go` | `PathTree` |
| `ConfigAPI` | `httpapi/httpapi.go`: the answers | `ConfigService` |
| `TargetCache` | `internal/cache/*.go` | `PathTree`, `EventualCache` (refinement) |
| `EventualCache` | abstract: what the router may expect of a lookup | |
| `Plugins` | `plugin/*.go` | |
| `Lifecycle` | `cmd/event-gateway/main.go`, `internal/sync`, `httpapi/server.go`, `httpapi/events.go`, `httpapi/config.go`, `internal/embedded` | `Plugins` |
| `RouterProofs` | theorems about `Router`: the inductive invariant and what follows from it at once | `Router` |
| `DeliveryProofs` | theorems about `Router`: the metrics and the refinement | `RouterProofs` |
| `PathTreeProofs` | theorems about `PathTreeSpec` | `PathTreeSpec` |
| `ConfigServiceProofs` | theorems about `ConfigService` and `ConfigAPI` | `ConfigAPI`, `DataLemmas` |
| `TargetCacheProofs` | theorems about `TargetCache` | `TargetCache`, `DataLemmas` |
| `ExchangeProofs` | theorems about `Exchange` and `Event` | `Exchange` |
| `LifecycleProofs` | theorems about `Lifecycle` and `Plugins` | `Lifecycle` |
| `DataLemmas` | lemmas about sequences, concatenation and sums over finite sets | |
| `MC*` | constants for TLC | |

`Router` and `Exchange` model the same functions at two grains. `Router` has
several requests, `Drain` and full control flow, and no contents: what lookups
and calls answer is a choice. `Exchange` has one request and follows what the
event carries. It also has the panics that depend on what the client sent
(`router/router.go:180`, `router/router.go:347`, `event/event.go:200`), where
a handler of `Router` goes on. `Lifecycle` knows of the router
only the phases of `Drain`, which `Router` shows to return, and that a panic of a
worker ends the process.

A definition introduced by "Mutant:" is a faulty version of the one that
follows it. No specification uses it; it documents that a property notices.

### Router

`pc[p]` is the position of a goroutine: handlers and workers share the code of
`callFunction` and of the fan-out, hence the actions `Fanout` and `Call`. Every
channel operation, every change of a shared variable and every remote call is a
step of its own. The `select`s of `loop` are `Receive`, `NoWork`, `SeeDrain`
and `LeaveLoop`: the second look at the backlog after the drain is
seen is there because it matters. What the target cache, plugins, authorizers
and functions answer is a choice: the cache changes under the router and the
rest is remote. Deliveries have numbers only for the properties
(`deliveries`, `lost` are history).

A panic in a handler is recovered by `net/http` (`aborted`); one in a worker
ends the program (`crashed`).

### PathTree and PathTreeSpec

A route is a sequence of segments and a tree a function from nodes, named by
the path to them, to values. `first` picks any child of a Go map: the operators
quantify over the children, and `Resolve` returns the *set* of values that may
come out. The parameters extracted from a path are left out.

### ConfigService

A request is a program, a sequence of steps: checks (reads of the store), one
write, and the change of a gauge. One access is one action. `Outcomes` is what
a check says of a store, `ErrorIgnored` the two checks that read an error as
good news: of a creation, that its key is free, and of `checkForPathConflict`,
to which a list that cannot be read is an empty one. A path that no tree accepts
is refused all the same. `CheckError` and `WriteError` are failing accesses; a write may fail
after it took effect. `Refused` is how `AtomicPut` and `Delete` treat an
existing and a missing key. `Crash` restarts a gateway. History: `stale[h]`,
the keys others wrote since the request of `h` began; `skew`, that something
happened the gauges cannot see.

`ConfigAPI` adds what the handlers answer. An answer ends a request and nothing
depends on it, so it is no state: `Answered(h, status)` says which status the
step that is being taken answers, and `AnswersTrue` what the client may conclude
from it. The authorizer's check is its own case because the handlers of
creations and of updates treat its error differently.

Not modelled: requests the validators reject, reads, metadata.

### TargetCache

`store` changes by `Put` and `Delete` of any gateway. The services check an
object against what they read before, and write it later: `Accepted` allows what
some earlier store allowed. A new sync subscription may therefore conflict with
any other, and an update may put back a subscription of the past (`past`) when
its key is free or another function's (`libkv/subscription.go:95`). `WatchTree` is `watchRoot` succeeding: the first batch lists
the directory in any order. `Receive` takes a batch, `React` handles one change
of it: `known` is the map in `processEvents`, `cache` what the reactors hold.
`Disconnect` drops what has not been received. `Restart` starts the gateway
again. The library behind `WatchTree` is not part of the repository; it is
modelled from how `processEvents` reads its channel: listing first, then every
change in order, a nil value for a deletion, a closed channel at the end.
History: `lost`, deletions the watcher was not told; `resent`, values it was
told again; `replaced`, keys whose value another one replaced without a deletion.
Directory keys, undecodable values and `Shutdown` (which nothing
calls) are left out.

`EventualCache` is the same seen from the router, for functions and event types:
per key a queue of what the store held since the watcher connected, and a view
that takes from its head. `FollowsStore` maps `known`, the batches and the
watcher's channel to that queue (`Pending`).

### Exchange, Event, Provider

`Event` is `FromRequest` and its helpers: a request is what these look at
(content type, legacy header, `CE-` headers, body), the result a set of outcomes,
an event, an error or a panic, since the loop over the headers follows a Go map.
Names of extensions are sequences of characters, because `TrimLeft` and the
lowering of the first one are about characters; `Cutset` is the argument of
`TrimLeft`. Payloads keep the form they are in: bytes, a string, a decoded object,
the data of an `http.request`.

`Provider` is what `UnmarshalJSON` and `Load` accept, what `MarshalJSON` keeps,
and how `Call` of each provider turns a reply into an output or an error. AWS
error codes are grouped as `Call` groups them. The replies are external.

`Exchange` is one `ServeHTTP`: `Receive`, `EmitReceived`, `AuthorizeSync`,
`InvokeSync`, `CallSync`, one `HandleAsyncSubscription` per async subscriber and
`Finish`, with workers that `Take` a copy and `Deliver` it. `authorization` is
the object under the extension `eventgateway`, which all copies of an event
share; a copy is `private` if `authorizeEventType` gave it a map of its own. What
a function is told (`Marshal`) is what the shared object holds when the worker
marshals, not when the copy was queued. A write while a worker reads is a data
race: the runtime may end the program (`crashed`) or not. The window of this
race (`Racing`) ends at the marshal; the logging and the plugins of a worker read
the event after it too, which could only make `crashed` more frequent.

### Plugins and Lifecycle

`Plugins` follows one event type. `Launch` and `Kill` are `NewManager` and `Kill`
of the manager, `Begin` starts `Manager.React`, `AskSubscriptions` and
`CallReact` are its two remote calls per plugin. A plugin may die at any time
(`Crash`). `refused` and `heard` are history.

`Lifecycle` has the position of `main`, the guard's counter and channel, per
server the goroutine that listens and the one that waits for the shutdown, etcd's
goroutine, and requests of the events server that ask the plugins. `outcome` says
how the process ended: `main` returned, `log.Fatal`, a panic before the start was
complete (`start`), in a server's goroutine or in etcd's, or something that ends
it at any moment (`Die`): a worker's or a watcher's panic, a map that is read and
written at once, or a signal, which nothing handles. `Loggers`
says which servers exist: `main.go` leaves `ServerConfig.Log` empty (`FALSE`);
`TRUE` is what the type allows, and the only case in which `Drain` is reached.
The build is with Go 1.9 (`Dockerfile`): there `Shutdown` of a server that is not
yet listening is lost.

## 3. Runs

Each run takes at most about three minutes with two TLC workers.

| Run | Instance | Shows |
|---|---|---|
| `router_system` | 1 request, 2 workers, backlog 2, system events, authorizers | types, at most once, leaks only by drops |
| `router_load` | 2 requests with the same event id, 2 subscribers, 2 workers, backlog 2 | what `Drain` leaves is late, the gauge, the refinement of `Delivery` |
| `router_live` | 1 request, 2 workers, backlog 1, system events, fairness | deliveries are taken, `Drain` returns, requests are answered |
| `pathtree` | 18 routes of at most 3 segments of all kinds, any sequence of calls | `Resolve` and the conflict check agree with their references; order of maps never shows, since children are of one kind |
| `config_races` | 2 gateways with a handler each, 3 requests, 7 bodies of all kinds, failing store, restarts | references break and conflicting paths are stored only by races or unreadable lists; the gauges follow the store; answers are true |
| `cache_subscriptions` | 2 async and 4 sync subscriptions of 2 spaces, 4 writes, 2 faults | every async subscriber is listed, once unless told again; compatible routes are served and there are no stray ones, also when checks are out of date at the write, up to missed deletions and replaced values |
| `cache_direct` | a function and CORS configurations of 2 methods, 4 writes, 1 fault, fairness | lookups are current up to missed deletions; compatible CORS paths are served; the cache catches up; it refines `EventualCache`; only conflicting and malformed paths make it panic |
| `exchange` | every content type, body and mode of request; 1 sync and 2 async subscribers, any set of authorizers, every provider, 2 workers, backlog 2 | what makes a handler panic and what that stops; which extensions functions see; no unauthorized call; whose authorization a function sees; what reports and answers tell |
| `gateway` | 2 plugins with up to 2 subscriptions each, 1 request, with and without etcd and logger, fairness | the guard counts; `Drain` comes last; how the process ends and what it leaves; plugins are heard and obeyed; a shutdown or a failed server ends the process |

Runs that end in a violation show a sentence of the documentation, or a
comment, that the code does not keep; `findings` quotes it.

| Run | The code |
|---|---|
| `cache_once_claim` | an updated async subscription is called twice for every event |
| `exchange_authorization_claim` | an async function may be told the authorization of a later subscriber |
| `exchange_result_claim` | `function.invoked` carries the event as its result, not the function's response |

The properties that pass name their exceptions. Each exception is something the
code does, and most readers of the documentation would not expect it:

* `StrandedOnlyLate`: `Drain` (`router/router.go:157`) may return with an event
  in the backlog that a handler sent after the workers left, where the comment at
  `router/router.go:143` says that it waits for the backlog to be processed.
* `BrokenOnlyByRace`: `DeleteFunction` lists the subscriptions, then deletes
  (`libkv/function.go:147`); a subscription stored in between is left without
  its function, which `docs/api.md:352` excludes.
* `ConflictOnlyByRace`: `checkForPathConflict` drops the error of `List`
  (`libkv/subscription.go:169`), so an unreadable store looks like an empty one.
* `GaugesFollowStore`: an update writes with `Put` and brings back what was
  deleted under it (`libkv/function.go:69`, where `docs/api.md:339` says 404);
  of two creations of a CORS configuration both succeed (`libkv/cors.go:45`,
  where `docs/api.md:582` says 409); a gauge starts at zero beside a full store
  (`httpapi/httpapi.go:280`, `docs/metrics.md:82`).
* `AnswersTrue`: a 404 may stand for a failing store: from `UpdateFunction`
  (`libkv/function.go:61`) and from all deletions (`libkv/function.go:148`,
  `libkv/eventtype.go:151`, `libkv/subscription.go:113`, `libkv/cors.go:134`),
  which may even have deleted. Creating an event type with a missing authorizer
  answers 500, since its handler lacks the case that the update's has
  (`docs/api.md:144`, `docs/api.md:174`). The loser of two creations gets 500, not
  409, and an update of CORS that changes the key 500.
* `LookupCurrent`, `NoStrayRoute`: `processEvents` starts with an empty map at
  every connection (`internal/cache/watcher.go:143`), so a deletion between two
  connections is never reported.
* `RouteServed`, `NoStrayRoute`: an update of a sync subscription that is stored
  after it was deleted and its path given to another function replaces that one
  in the store (`libkv/subscription.go:95`), since the ID of a sync subscription
  has no function in it. The caches are told, `AddRoute` refuses a path it has,
  and the gateway goes on calling a function that is not subscribed.
* `RouteServed`: a path that conflicts with one that was deleted may not be
  served, since nodes stay behind (`internal/cache/subscription_cache.go:53`);
  the paths of all spaces are in one tree, so deleting one space's subscription
  may remove another's route (`internal/cache/subscription_cache.go:111`, where
  `README.md:302` promises isolation);
  an updated CORS configuration never reaches the tree
  (`internal/cache/cors_cache.go:44`).
* `PanicOnlyByConflict`: deleting a path that was kept out of the tree
  dereferences a nil child (`internal/pathtree/tree.go:128`) and ends the gateway.
  A path with a wildcard before its end is kept out of every tree; for sync
  subscriptions the services refuse it, for CORS they do not
  (`libkv/cors.go:186`).
* `AbortsContained`: three inputs make the handler panic, and the client sees a
  closed connection: a header `CE-X-` whose name consists of `C`, `e`, `X` and `-`
  (`event/event.go:200`), a CloudEvent of type `http.request` that meets a sync
  subscriber (`router/router.go:180`), and an extension `eventgateway` that is no
  object and meets an authorizer (`router/router.go:347`). The last one may come
  after the sync function, and after some async subscribers were served.
* `ExtensionsDelivered`: the authorizer's answer replaces all extensions of an
  event that has none named `eventgateway` (`router/router.go:349`).
* `AuthorizationOwnOrLater`: a function or a listener may see the authorization
  of a later subscriber; a write while a worker reads may end the program.
* `AnswerTellsOutcome`: a sync function on Kinesis, SQS or Firehose answers 500
  though the event was stored, since the record's id is no response object
  (`router/router.go:205`).
* `RefusalObeyed` (its part `Heard`): a plugin that died counts as one without
  subscriptions, so a sync plugin fails open (`plugin/reacter.go:65`).
* `DrainIsLast`, `CleanEnd`: without a logger, as `main.go` builds the servers, a
  server that ends panics (`httpapi/server.go:56`), and `Drain` and `Kill` are
  unreachable. `log.Fatal` leaves plugins running that were launched before, and
  so does every end but the return of `main`; `CleanEnd` says nothing of those. When
  etcd fails its goroutine waits for the same guard as `main` and panics while
  `main` drains (`internal/embedded/embedded.go:74`).
* `ShutdownEnds`: a server told to shut down just before it
  listens serves on, and `main` waits for it (`httpapi/server.go:43`).

Some are in the models and belong to no property, which could only repeat them.
`TrimLeft` takes a set of characters, so the name of an extension loses every
leading `C`, `e`, `X` or `-`, and two names may become one (`event/event.go:198`).
`docs/api.md:114` says that in the legacy mode a body of type `application/json`
is passed as JSON and any other is base64 encoded; `normalizePayload` also decodes
types that end in `+json`, passes forms as strings, and leaves JSON that is no
object as bytes (`event/event.go:241`). In the binary mode, and in the data of
`http.request` events, it compares the header with its parameters, so that
`application/json; charset=utf-8` is not decoded (`event/event.go:206`,
`event/http.go:31`).
When a plugin rejects an event the handler returns without a status
(`router/router.go:91`) and the client sees 200, not the 202 of `docs/api.md:80`.
An authorizer on a system event type makes a worker dereference the nil request
(`router/router.go:318`), which ends the gateway; `docs/event-types.md:8` excludes
no type. A function without a provider configuration makes the API's handler
panic (`function/function.go:84`); nothing is stored.
The AWS providers end with a branch for errors that are not `awserr.Error`, which
the SDK does not return.

### Bounds

* `Requests`, `Workers`, `BacklogLength`: a race of the shutdown needs one
  handler, one worker and `Drain`; two workers add the race for one delivery,
  a second request a handler that sends while the other one's event is being
  processed; with a backlog of one or two, both a full and an empty channel are
  met by every process. Each client event is followed by at most three system
  events and these by none, so the backlog is finite without a bound of its own.
* `MaxRequests = 3` (configuration): two requests race after, or while, a third
  changes the store. `Stores` starts from one with a function and an event
  type, so that subscriptions can be created at once.
* `MaxPath = 3` with routes of up to three segments: conflicts are decided at
  one segment and inherited below it, so two segments before the last one show
  every combination; request paths may be longer than a wildcard's prefix.
* `MaxWrites = 4`, `MaxFaults = 2` (1 in `cache_direct`): the longest story known
  (create, delete, create another, delete it) takes four changes, and a missed
  deletion takes a disconnection before and a connection after it. `MaxFaults`
  counts lost connections and restarts together. Event types are cached by the
  same code as functions and have no object of their own in the instances.
* `AsyncCount = 2`, two workers, `BacklogLength = 2` (exchange): an earlier and a
  later subscriber, a worker that reads while the handler writes and another that
  has already read, a backlog that fills. One exchange: requests share nothing of
  an event. Names of at most two characters: one that is trimmed and one that
  stays, hence also two that become the same.
* `PluginCount = 2` with up to two subscriptions, `Reactions = {r1}` (gateway): a
  plugin before and one after the one that refuses or dies; reactions share only
  the plugins' processes, which may die at any time in any case.

`SYMMETRY` is over requests and workers (router), over workers (exchange), and in
`config_races` over those permutations of gateways and handlers that keep the
handlers' homes.

### Fairness

`Router`: each worker's loop and each handler takes a step it can take
(goroutines are scheduled), `StartWorkers` and the return of `Wait` happen, and
remote calls end. The last rests on the 5-second timeout of the HTTP provider's
client (`providers/http/http.go`) and on those of the AWS SDK. Requests need
not arrive and `Drain` need not be called. `TargetCache`: the watchers'
goroutines run, and a watcher that keeps trying gets a connection in the end;
neither writes nor faults are fair. `Lifecycle`: the goroutines of `main`, of the
servers, of etcd and of accepted requests run; nothing has to fail and no request
has to arrive, hence a shutdown need not begin.

Deadlock is checked in all runs but those of `Exchange` and `Lifecycle`: one
exchange ends, and so does the process. `Terminated` (Router) and `Quiet`
(ConfigService, TargetCache) are the stuttering of a system that has nothing
left to do within the bounds.

## 4. Proofs

All theorems hold for any constants that satisfy the named assumptions of the
modules, hence for any number of requests, workers, objects, writes and faults.
The bounds of the runs play no part in them.

| Theorem | Says |
|---|---|
| `RouterProofs!Inductive` | `IndInv` holds in every state (the runs check parts of it) |
| `RouterProofs!TypeCorrect`, `DeliveredAtMostOnce`, `DrainStrandsOnlyLate` | types; at most one call per delivery; after `Drain` only late deliveries are left |
| `DeliveryProofs!EntriesLeakOnlyByDrop` | an entry of `receivedEvents` stays behind only when its event was dropped |
| `DeliveryProofs!GaugeExact` | the gauge differs from the backlog by the sends and receives it has not seen yet |
| `DeliveryProofs!RouterImplementsDelivery` | every step of the router is a step of `Delivery` or none |
| `PathTreeProofs!ShapeKept` | the tree is prefix-closed and no node has children of two kinds |
| `PathTreeProofs!RoutesHeld`, `RoutesUndisturbed` | the values in the tree are those of the registered routes; no call changes another route |
| `PathTreeProofs!ConflictsFoundExactly` | `AddRoute` refuses exactly the routes the reference calls in conflict |
| `PathTreeProofs!ResolvesExactly` | `Resolve` of any path is the reference matching of the routes that are in |
| `ConfigServiceProofs!ConfigTyped` | objects are under their own keys, requests at a step of their program |
| `ConfigServiceProofs!ReferencesBreakOnlyByRaces` | a step breaks a reference only if one end was written by another request meanwhile |
| `ConfigServiceProofs!OneAtATime` | with one handler no reference breaks |
| `ConfigServiceProofs!AnswersAreTrue` | a status tells what happened in the store |
| `ConfigServiceProofs!GaugesCount` | the gauges count the objects, up to requests about to report |
| `TargetCacheProofs!CacheTyped`, `CacheIsCurrent` | types; a lookup finds what the store holds once nothing is under way, up to missed deletions |
| `TargetCacheProofs!CacheServesAsync` | an async subscription of the store is in the router's list, once unless it was told again or its deletion missed |
| `TargetCacheProofs!CacheServesRoutes`, `CacheHasNoStrays` | a route that is compatible with all others is served; no route is left of what is not in the store; both up to missed deletions and to values replaced without a deletion, and with requests that write what they checked long before |
| `TargetCacheProofs!CachePanics` | a deletion ends the gateway only if its path is incompatible with another one or has a wildcard before its end |
| `TargetCacheProofs!CacheImplementsEventual` | the cache of functions and event types implements `EventualCache` |
| `ExchangeProofs!ExchangeInductive`, `ExchangeTyped` | `ExInv` holds in every state; types |
| `ExchangeProofs!CallsAreAuthorized`, `AnswersOwnOrLater` | no function is called without the answer of its authorizer; it sees its own authorization or a later one |
| `ExchangeProofs!ExtensionsLostOnlyByAuthorizer` | only the authorizer's answer replaces extensions |
| `ExchangeProofs!ReportsAreTrue`, `AnswersAreTrue` | reports tell of calls that were made, as they ended; the answer tells the outcome of the sync call |
| `ExchangeProofs!AbortsAreContained` | only three inputs make a handler panic, and then no later subscriber is called |
| `LifecycleProofs!LifeInductive`, `LifecycleTyped`, `GuardIsExact` | `LifeInv` holds in every state; types; the guard counts what runs |
| `LifecycleProofs!DrainComesLast`, `EndIsClean` | `Drain` after the servers and etcd; when `main` returns, plugins, servers and etcd have ended; etcd's panic comes when no server serves, and a start that failed never served |
| `LifecycleProofs!RefusalsObeyed` | plugins are asked in order, and a refusal ends the reaction |

*Router.* Neither `AtMostOnce` nor `StrandedOnlyLate` is inductive. For the
first, `Numbering` says that the backlog holds the numbers after the ones taken,
in order, and that no two workers hold the same; `Uncalled` that nothing in the
backlog, or in the hands of a worker before its call, has been called;
`Jobs` and `Emissions` tie a worker's position to what it holds. For the
second, `LoopAlive` says that a worker is still in its loop while a delivery
that is not late waits, and `Lifecycle` ties the wait group to the workers'
positions. `LoopAlive` survives the exit of a worker because the worker has just
seen the backlog empty. The proof has one lemma per part and, under it, one step
per action. Assumed: workers are a finite, nonempty set disjoint from the
requests, the capacity is positive, lists of subscribers are lists.

The gauge is proved with `GaugeInv`: the sets of processes between a channel
operation and its update of the gauge are finite (there may be infinitely many
requests) and make up the difference. `GaugeKept` shows once that all other steps
leave both sides alone. For the refinement, `InHand`, `Attempted`, `Late` and
`Phase` are the values of the variables of `Delivery`. A send is `Accept`, a
receive `Take`, a call `Attempt`, and `Drain` moves the phase. `Close` needs
`LoopAlive`: what is left then is late. The rest changes none of the four.

*Path tree.* `TreeInv` (prefix-closed and one kind of child per node) is
inductive. The case to see is an `AddRoute` that fails half way: the nodes it
created hang under a node that had no children. `Held` says that the values in
the tree are the registered ones, `NoRemains` that a tree in which nothing failed
and from which nothing was deleted has no nodes but those of its routes. From the
second follows that the conflict check is exact in such a tree. `Resolve` is a
walk that keeps a set of nodes. `StandsAt` says that after `i` segments this set is
the one node the first `i` segments lead to, or none; it is unique because
children are of one kind. The induction on `i` takes the least `i` for which
`StandsAt` fails (the theorems of `NaturalsInduction` cannot be instantiated),
and the walk, a recursive function, is known to the provers by the predicate
`IsWalk` that its definition satisfies.

*ConfigService.* `ConfigInv` is `TypeOK`, `Aimed` (a request is about the key of
its body, except an update that has not compared it yet) and `Known` (what a
request has checked still holds unless others wrote the key meanwhile).
From it a write can break a reference only if the check that protects it is out
of date. With one handler nothing is ever written meanwhile, and
`ReferencesIntact` (no reference dangles) is an invariant.

`AnswersAreTrue` adds `Recorded`: a request with only its gauge left has what it
wrote in the store, unless others wrote the key. A status in the 400s comes from
a check, or from a delete, and `ChecksFirst` says that a program has its
checks before its write. `GaugesCount` is `Balanced`: a write by an active request
changes `Count` by one and makes one request more a reporter, a report moves the
one from the reporters to a gauge. The sum over the gateways is
`MapThenSumSet`, a recursion over a set; `Sums` in `DataLemmas` states what its
definition says of finite sets and `SumChanges` that changing one summand changes
the sum by the difference. Assumed: finitely many keys, gateways and handlers.

*TargetCache.* Per key of a function or event type, `KnownLeads`: what the
watcher knows, followed by what it will be told, ends in what the store holds,
while it is connected. `CacheKnown`: the cache holds what the watcher
knows, or the watcher knows nothing and is not told first of a deletion, which it
would not pass on. `AbsenceLeads`: what is not in the store will leave the
cache unless a deletion was missed. Neither of the three is inductive alone.
`Pending` is built from the batches by concatenation and a filter; `DataLemmas`
and the lemmas on `Told` say how it changes when a batch is sent, received or
worked off. The same facts make the refinement: `Pending` is the queue of
`EventualCache`. `CacheTyped` is about all kinds, the path trees included.

The trees and the lists are followed over a second layer. `KeySteps` says that a
step starts the gateway again, handles a change, or is `Distant`: it leaves the
caches alone and does one of four things to a key (`Idle`, `Written`, `Relisted`,
`Dropped`). `TreeInv` says that trees are `Grown` from the objects
(every node lies on the path of one, and a wildcard without a value is left of a
path that goes on after it) and that a known object that is compatible with all
others, its wildcard last, has its route (`Placed`). In a grown tree nothing
blocks the path of such an object, so `AddRoute` succeeds for it and `DeleteRoute`
finds its nodes: `CachePanics`.
`RouteInv` says that what a route holds and what will be told of its key are one
chain (`Chain`: between two deletions of a key that is not in `replaced` the value stays
the same for the caches) to
what is in the store; at the end of the chain, when nothing is pending,
`CacheHasNoStrays` and `CacheServesRoutes` follow. `ListInv` says the same of the
lists: values and deletions are told in turn (`Alternates`), a subscription the
watcher knows has a place in its list, and just one unless its key is in `lost` or
`resent`. `Modified` appends and `Deleted` removes the first equal entry, so the
turns are what keeps the count at one.

Assumed of the objects (`ObjectsAssumption`): kinds are the four there are, a
subscription has a space and a function, and a route has a path and a value.
Nothing is assumed of the paths, since those of CORS are not checked: that a
wildcard is last is a condition of `RouteServed` and of `PanicOnlyByConflict`.

*Exchange.* `ExInv` follows the copies of the event that are in the backlog or
with a worker (`Pending`): `GoodCopy` says that a copy is of a subscriber who had
its turn, with the consent of its authorizer, and that the shared object has this
authorizer's answer or a later one; `GoodPayload` says the same of what was
delivered. `OneCopy` and `OneReport` (one copy per subscriber, one report
per copy) are needed for the reports, and `Handler` ties all of them to the
position of `ServeHTTP`. For `AbortsAreContained`, `AbortInv` keeps the cause of a
panic: the event and the site stay as they are, and no worker calls the sync
subscriber. That later subscribers are not called is `GoodPayload`.

*Lifecycle and Plugins.* `LifeInv`: the guard is the sum of what each server and
etcd hold (`Counted`), the position of `main` tells what was started (`Started`),
a server that is done told the others (`Told`), and `main` is past
`Wait` only when all are done (`Ended`). A reaction of the plugin manager is in one
of four phases, `Fresh`, `Underway`, `Agreed` and `Stopped`; `Underway` counts
what the current plugin has heard and what is left. `NotBeforeServing` is what
lets the composition keep it: a plugin is never launched during a reaction.

Only model-checked:

* Liveness, since fairness is out of the prover's reach: `DeliveriesTaken`,
  `DrainCompletes`, `RequestsAnswered`, `Converges`, `ShutdownEnds`.
* `ConflictOnlyByRace` (`ConfigService`): what the tree of `checkForPathConflict`,
  built by a fold of `AddRoute` over a list of subscriptions, holds.
* The claims of the documentation that the three failing runs refute.

## 5. Not modelled

* The key prefix of `internal/store`: it renames keys and adds no behaviour.
* Validation of requests, metadata filters, reads and lists of the configuration
  API: they change no state; what they reject or return is a function of one
  request and one state of the store.
* The encoding of calls to plugins (`plugin/` over net/rpc), of JSON and of the
  log, command-line flags and TLS, counters that only grow.
* The parameters extracted from a path, except that the shared data of an
  `http.request` gets them.
* `isPathInConflict` in `libkv/subscription.go`, a second conflict check that
  nothing calls, and `Shutdown` of the cache, which nothing calls either.
* etcd, libkv, the AWS SDK, go-plugin and net/http: external, modelled from how
  the repository uses them.

## 6. Plan

All components that change state have a module, and every safety invariant but
one has a theorem. What is left:

1. What `FoldLeft` of `AddRoute` over a list of routes builds, in the way `Sums`
   treats `MapThenSumSet`, with the lemmas of `TargetCacheProofs` on single calls
   (`AddGrown`, `AddCompatible`), which are about any tree.
2. `ConflictOnlyByRace`: `Known` for `checkForPathConflict`, from 1. and from the
   fact that the paths in the store are well-formed.
