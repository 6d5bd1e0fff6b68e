------------------------------ MODULE Exchange ------------------------------
(***************************************************************************)
(* One request and what becomes of its contents: how the router's handler  *)
(* (src/router/router.go) turns it into an event, lets authorizers add to  *)
(* the event, calls the sync subscriber, and queues the event for the      *)
(* async subscribers and for the listeners of system events, whose workers *)
(* read it while the handler still writes.                                 *)
(*                                                                         *)
(* Copying an event copies the reference to its extensions.  What the      *)
(* extension "eventgateway" refers to is therefore one object for all      *)
(* copies, here `authorization`; only an event without this extension gets *)
(* an object of its own from the authorizer.                               *)
(***************************************************************************)
EXTENDS Event, Provider

CONSTANTS
    Requests,       \* the requests that are enumerated
    AsyncCount,     \* number of async subscribers
    Sites,          \* configurations of the gateway, see below
    BacklogLength,
    Workers

ASSUME BoundsAssumption == AsyncCount \in Nat /\ BacklogLength \in Nat

ASSUME RequestsAssumption ==
    \A r \in Requests :
        r.body.kind = "event" => r.body.eventgateway \in ExtensionKinds

(* Subscriber 0 is the sync one, the others are in the order of the list.  *)
Async == 1..AsyncCount
Subscribers == 0..AsyncCount

SystemKinds == {"received", "invoking", "invoked", "failed"}

(* sync: whether there is a sync subscriber; authorizers: the subscribers  *)
(* whose space has one for the event type; functions: as the API received  *)
(* them; listeners: the system events with a subscriber.                   *)
SiteOK(s) ==
    /\ s.sync \in BOOLEAN
    /\ s.authorizers \subseteq Subscribers
    /\ DOMAIN s.functions = Subscribers
    /\ s.listeners \subseteq SystemKinds

ASSUME SitesAssumption == \A s \in Sites : SiteOK(s)

VARIABLES
    pc,             \* where the handler is
    request,        \* the request, until the event is passed on
    event,
    site,           \* chosen when it first matters
    next,           \* the async subscriber that is next
    authorization,  \* in the shared object: the subscriber whose authorizer wrote it
    params,         \* whether the shared data has the sync subscriber's parameters
    backlog,
    busy,           \* what a worker has received and not yet marshalled
    status,         \* of the response
    delivered,      \* the payloads that functions were called with
    granted,        \* subscribers whose authorizer agreed
    crashed         \* the Go runtime found the map read and written at once

handlerVars == <<pc, request, event, site, next, status>>
sharedVars == <<authorization, params, granted, crashed>>
vars == <<pc, request, event, site, next, authorization, params, backlog, busy, status,
          delivered, granted, crashed>>

Init ==
    /\ pc = "idle"
    /\ request = None /\ event = None /\ site = None
    /\ next = 1
    /\ authorization = None /\ params = FALSE
    /\ backlog = <<>> /\ busy = [w \in Workers |-> None]
    /\ status = "none"
    /\ delivered = {} /\ granted = {} /\ crashed = FALSE

----------------------------------------------------------------------------
(* Functions.                                                              *)

(* What the target cache has of a function: what the API accepted, stored  *)
(* and read back.                                                          *)
Cached(i) ==
    UNION {UnmarshalJSON(MarshalJSON(f), TRUE) : f \in UnmarshalJSON(site.functions[i], TRUE)}

(* The results of calling the function of i.  It may not be found: deleted *)
(* meanwhile, not yet or no longer in the cache, without a session there.  *)
Results(i) ==
    {Failure("lookup")} \cup UNION {{Call(f, r) : r \in Replies(f.type)} : f \in Cached(i)}

----------------------------------------------------------------------------
(* Copies of the event.  private: the extensions are the subscriber's own. *)

Copy(kind, i, private) ==
    [kind |-> kind, of |-> i, private |-> private, result |-> None, output |-> None]

(* json.Marshal of a copy, and of the event in the data of a system event. *)
Marshal(c) ==
    [kind |-> c.kind, of |-> c.of, result |-> c.result, output |-> c.output, params |-> params,
     authorization |-> IF c.private THEN c.of ELSE authorization,
     names |-> IF c.private THEN NoNames ELSE event.names]

(* Mutant: the send does not give up.                                      *)
EnqueueAlways(q, c) == Append(q, c)

(* enqueueWork.                                                            *)
Enqueue(q, c) == IF Len(q) < BacklogLength THEN Append(q, c) ELSE q

(* A system event goes to its subscriber, if it has one.                   *)
Emit(q, c) == IF c.kind \in site.listeners THEN Enqueue(q, c) ELSE q

(* Mutant: a function that is not found is reported as failed.             *)
ReportedLookup(q, c, r) ==
    IF c.kind = "client"
    THEN Emit(q, Copy(IF r.ok THEN "invoked" ELSE "failed", c.of, c.private))
    ELSE q

(* callFunction after the call: the event of an invocation that succeeded  *)
(* has the payload for a result.  A function that is not found is no       *)
(* invocation, and events about system events are not emitted.             *)
Reported(q, c, r) ==
    CASE c.kind # "client" -> q
      [] c.kind = "client" /\ r.ok ->
            Emit(q, [Copy("invoked", c.of, c.private) EXCEPT !.result = Marshal(c), !.output = r])
      [] c.kind = "client" /\ ~r.ok ->
            IF r.error = "lookup" THEN q ELSE Emit(q, Copy("failed", c.of, c.private))

----------------------------------------------------------------------------
(* authorizeEventType for subscriber i.  A write of the shared object      *)
(* while a worker marshals it may be noticed by the runtime.  Logging and  *)
(* plugins read the event after the marshal too; these reads change        *)
(* nothing that is modelled, and the window here ends at the marshal.      *)

Racing == \E w \in Workers : busy[w] # None /\ ~busy[w].private

(* Mutant: an answer that is already there is kept.                        *)
AuthorizeOnce(i) ==
    \/ /\ i \notin site.authorizers
       /\ UNCHANGED <<granted, authorization, crashed>>
    \/ /\ i \in site.authorizers /\ event.eventgateway # "other"
       /\ granted' = granted \cup {i}
       /\ authorization' = IF event.eventgateway = "object" /\ authorization = None
                           THEN i ELSE authorization
       /\ crashed' = FALSE

(* The event may go on; Private tells whether it has extensions of its own *)
(* now, in place of those it came with.                                    *)
Authorize(i) ==
    \/ /\ i \notin site.authorizers
       /\ UNCHANGED <<granted, authorization, crashed>>
    \/ /\ i \in site.authorizers /\ event.eventgateway # "other"
       /\ granted' = granted \cup {i}
       /\ authorization' = IF event.eventgateway = "object" THEN i ELSE authorization
       /\ crashed' \in {FALSE, event.eventgateway = "object" /\ Racing}

(* Mutant: the extensions are replaced even if they have the key.          *)
PrivateAlways(i) == i \in site.authorizers

Private(i) == i \in site.authorizers /\ event.eventgateway = "none"

(* No function, a failed call, an answer that is not understood or an      *)
(* error object.                                                           *)
Denied(i) ==
    /\ i \in site.authorizers
    /\ UNCHANGED <<granted, authorization, crashed>>

(* Mutant: the extension is asserted to be an object without looking       *)
(* whether there is one.                                                   *)
AuthorizePanicsWithout(i) ==
    /\ i \in site.authorizers /\ event.eventgateway # "object"
    /\ pc' = "done" /\ status' = "aborted"
    /\ UNCHANGED <<request, event, site, next, params, backlog, busy, delivered,
                   authorization, granted, crashed>>

(* The extension is not an object: the type assertion panics, and the      *)
(* server ends the connection.                                             *)
AuthorizePanics(i) ==
    /\ i \in site.authorizers /\ event.eventgateway = "other"
    /\ pc' = "done" /\ status' = "aborted"
    /\ UNCHANGED <<request, event, site, next, params, backlog, busy, delivered,
                   authorization, granted, crashed>>

----------------------------------------------------------------------------
(* The handler.                                                            *)

Receive ==
    /\ pc = "idle"
    /\ \E r \in Requests : \E p \in FromRequest(r) :
        /\ request' = r
        /\ \/ /\ p.outcome = "event" /\ ~IsSystem(p.event)
              /\ event' = p.event /\ pc' = "parsed" /\ status' = status
           \/ /\ p.outcome # "panic" /\ (p.outcome = "event" => IsSystem(p.event))
              /\ event' = None /\ pc' = "done" /\ status' = "400"
           \/ /\ p.outcome = "panic"
              /\ event' = None /\ pc' = "done" /\ status' = "aborted"
    /\ UNCHANGED <<site, next, backlog, busy, delivered>> /\ UNCHANGED sharedVars

(* What the rest of the exchange can tell of the event.                    *)
Carried(e) ==
    [type |-> e.type, eventgateway |-> e.eventgateway, names |-> e.names, form |-> e.data.form]

(* emitSystemEventReceived: the listener's event is queued before plugins  *)
(* are asked; a refusal ends the handler without a status.                 *)
EmitReceived ==
    /\ pc = "parsed"
    /\ \E s \in Sites :
        /\ site' = s
        /\ backlog' = IF "received" \in s.listeners
                      THEN Enqueue(backlog, Copy("received", None, FALSE)) ELSE backlog
        /\ pc' \in {"done", IF s.sync THEN "sync" ELSE "async"}
    /\ request' = None /\ event' = Carried(event)
    /\ UNCHANGED <<next, status, busy, delivered>> /\ UNCHANGED sharedVars

(* handleSyncSubscription up to the call.                                  *)
AuthorizeSync ==
    /\ pc = "sync"
    /\ \/ Authorize(0) /\ pc' = "invoking" /\ status' = status
       \/ Denied(0) /\ pc' = "async" /\ status' = "403"
    /\ UNCHANGED <<request, event, site, next, params, backlog, busy, delivered>>

(* The data of an http.request gets the parameters of the path.  Then      *)
(* emitSystemFunctionInvoking: a plugin may refuse.                        *)
InvokeSync ==
    /\ pc = "invoking"
    /\ event.type = HTTPRequest => event.form = "http"
    /\ params' = (params \/ event.type = HTTPRequest)
    /\ backlog' = Emit(backlog, Copy("invoking", 0, Private(0)))
    /\ \/ pc' = "call" /\ status' = status
       \/ pc' = "async" /\ status' = "500"
    /\ UNCHANGED <<request, event, site, next, busy, delivered, authorization, granted, crashed>>

(* An http.request whose data is something else panics.                    *)
InvokeSyncPanics ==
    /\ pc = "invoking"
    /\ event.type = HTTPRequest /\ event.form # "http"
    /\ pc' = "done" /\ status' = "aborted"
    /\ UNCHANGED <<request, event, site, next, params, backlog, busy, delivered,
                   authorization, granted, crashed>>

(* What a function that is not found, and one that is called, are told.    *)
Told(c, r) == IF r.ok \/ r.error # "lookup" THEN {Marshal(c)} ELSE {}

(* Mutant: any output is passed on as the response's body.                 *)
AnswerOfRaw(r) == IF r.ok THEN "function" ELSE "500"

(* httpRequestHandler's answer.                                            *)
AnswerOf(r) == IF r = Success("response") THEN "function" ELSE "500"

CallSync ==
    /\ pc = "call"
    /\ LET c == Copy("client", 0, Private(0))
       IN  \E r \in Results(0) :
            /\ delivered' = delivered \cup Told(c, r)
            /\ backlog' = Reported(backlog, c, r)
            /\ status' = AnswerOf(r)
    /\ pc' = "async"
    /\ UNCHANGED <<request, event, site, next, busy>> /\ UNCHANGED sharedVars

(* Mutant: the event is queued before the authorizer is asked.             *)
HandleAsyncSubscriptionQueuedFirst ==
    /\ pc = "async" /\ next \in Async
    /\ backlog' = Enqueue(backlog, Copy("client", next, Private(next)))
    /\ Authorize(next) \/ Denied(next)
    /\ next' = next + 1
    /\ UNCHANGED <<pc, request, event, site, params, busy, status, delivered>>

(* One round of the loop in handleAsyncSubscriptions.                      *)
HandleAsyncSubscription ==
    /\ pc = "async" /\ next \in Async
    /\ \/ Authorize(next) /\ backlog' = Enqueue(backlog, Copy("client", next, Private(next)))
       \/ Denied(next) /\ backlog' = backlog
    /\ next' = next + 1
    /\ UNCHANGED <<pc, request, event, site, params, busy, status, delivered>>

AuthorizationPanics ==
    \/ pc = "sync" /\ AuthorizePanics(0)
    \/ pc = "async" /\ next \in Async /\ AuthorizePanics(next)

Finish ==
    /\ pc = "async" /\ next \notin Async
    /\ pc' = "done"
    /\ status' = IF site.sync THEN status ELSE "202"
    /\ UNCHANGED <<request, event, site, next, backlog, busy, delivered>> /\ UNCHANGED sharedVars

----------------------------------------------------------------------------
(* The workers.                                                            *)

(* A worker receives a copy and begins to call its function: for a copy of *)
(* the client's event it emits a system event first and a plugin may       *)
(* refuse.                                                                 *)
Take(w) ==
    /\ busy[w] = None /\ backlog # <<>>
    /\ LET c == Head(backlog)
       IN  \/ /\ backlog' = IF c.kind = "client"
                            THEN Emit(Tail(backlog), Copy("invoking", c.of, c.private))
                            ELSE Tail(backlog)
              /\ busy' = [busy EXCEPT ![w] = c]
           \/ /\ c.kind = "client"
              /\ backlog' = Emit(Tail(backlog), Copy("invoking", c.of, c.private))
              /\ busy' = busy
    /\ UNCHANGED handlerVars /\ UNCHANGED sharedVars /\ UNCHANGED delivered

(* The listeners' functions behave as any function; their results matter   *)
(* to nobody.                                                              *)
Deliver(w) ==
    /\ busy[w] # None
    /\ \E r \in IF busy[w].kind = "client" THEN Results(busy[w].of) ELSE {Success("other")} :
        /\ delivered' = delivered \cup Told(busy[w], r)
        /\ backlog' = Reported(backlog, busy[w], r)
    /\ busy' = [busy EXCEPT ![w] = None]
    /\ UNCHANGED handlerVars /\ UNCHANGED sharedVars

Next ==
    /\ ~crashed
    /\ \/ Receive \/ EmitReceived
       \/ AuthorizeSync \/ InvokeSync \/ InvokeSyncPanics \/ CallSync
       \/ HandleAsyncSubscription \/ AuthorizationPanics \/ Finish
       \/ \E w \in Workers : Take(w) \/ Deliver(w)

Spec == Init /\ [][Next]_vars

----------------------------------------------------------------------------
(* Properties.                                                             *)

Statuses == {"none", "aborted", "202", "400", "403", "500", "function"}

Copies ==
    [kind : SystemKinds \cup {"client"}, of : Subscribers \cup {None}, private : BOOLEAN,
     result : {None}, output : {None}]

TypeOK ==
    /\ pc \in {"idle", "parsed", "sync", "invoking", "call", "async", "done"}
    /\ next \in 1..(AsyncCount + 1)
    /\ authorization \in Subscribers \cup {None}
    /\ params \in BOOLEAN /\ crashed \in BOOLEAN
    /\ Len(backlog) <= BacklogLength
    /\ \A c \in Range(backlog) \cup Range(busy) :
        c # None => [c EXCEPT !.result = None, !.output = None] \in Copies
    /\ status \in Statuses
    /\ granted \subseteq Subscribers

Client(i) == {d \in delivered : d.kind = "client" /\ d.of = i}

(* No function is called for an event its space's authorizer has not       *)
(* agreed to, although denials of some subscribers leave the others going. *)
AuthorizedOnly ==
    \A i \in Subscribers : Client(i) # {} /\ i \in site.authorizers => i \in granted

(* A function finds its own authorizer's answer in the event, or that of a *)
(* subscriber later in the list, which overwrote it; exactly its own if it *)
(* is the sync one or the event came without the extension.  A function    *)
(* without authorizer sees that of others only in the shared object.       *)
AuthorizationOwnOrLater ==
    \A d \in delivered : d.kind = "client" =>
        IF d.of \in site.authorizers
        THEN /\ d.authorization \in {j \in granted : j >= d.of}
             /\ d.of = 0 \/ event.eventgateway = "none" => d.authorization = d.of
        ELSE d.authorization # None =>
                d.authorization \in granted /\ event.eventgateway = "object"

(* docs/event-types.md: the authorization is attached to the event that    *)
(* the subscribed function receives.                                       *)
OwnAuthorization ==
    \A d \in delivered :
        d.kind = "client" /\ d.of \in site.authorizers => d.authorization = d.of

(* The extensions a client sent reach every function and every listener,   *)
(* except through an authorizer of an event without the extension          *)
(* "eventgateway": authorizeEventType replaces them all.                   *)
ExtensionsDelivered ==
    \A d \in delivered :
        d.names # event.names => d.of \in granted /\ event.eventgateway = "none"

(* A listener hears that a function was invoked, or that it failed, only   *)
(* if it was called, and never both.                                       *)
ReportsTrue ==
    \A d \in delivered : d.kind \in {"invoked", "failed"} =>
        /\ Client(d.of) # {}
        /\ ~ \E e \in delivered :
                e.of = d.of /\ e.kind = IF d.kind = "invoked" THEN "failed" ELSE "invoked"

(* docs/system-events-and-plugin-system.md: the result of function.invoked *)
(* is the function's response.                                             *)
ResultIsResponse ==
    \A d \in delivered : d.kind = "invoked" => d.result = d.output

(* A handler panics, and the client's connection is closed, only for what  *)
(* the client sent: a header name that TrimLeft leaves nothing of          *)
(* (event.go:200), an http.request event not made from a request that      *)
(* meets a sync subscriber (router.go:180), or an extension "eventgateway" *)
(* that is no object and meets an authorizer (router.go:347).  In the last *)
(* case it stops in the middle of the subscribers: those that are left are *)
(* never called, whatever the workers still do.                            *)
AbortsContained ==
    status = "aborted" =>
        /\ \/ event = None /\ KeyPanics(request.names)
           \/ /\ site.sync /\ Client(0) = {}
              /\ event.type = HTTPRequest /\ event.form # "http"
           \/ event.eventgateway = "other" /\ {0, next} \cap site.authorizers # {}
        /\ \A i \in Async : i >= next => Client(i) = {}

(* What the client is told: a function's status only if it was called and  *)
(* is not a stream, which answers 500 even when it stored the event; 403   *)
(* only if the sync function was not called; 202 only when there is no     *)
(* sync function and all async subscribers had their turn.                 *)
AnswerTellsOutcome ==
    /\ status = "function" => Client(0) # {} /\ site.functions[0].type \notin Streams
    /\ status = "403" => Client(0) = {} /\ 0 \notin granted
    /\ status = "202" => ~site.sync /\ next > AsyncCount
=============================================================================
