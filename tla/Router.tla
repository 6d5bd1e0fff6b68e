------------------------------- MODULE Router -------------------------------
(***************************************************************************)
(* The event router of the Event Gateway (src/router/router.go,            *)
(* src/router/metrics.go): HTTP handlers and worker goroutines that share  *)
(* the buffered channel `backlog`, the channel `drain` whose closing       *)
(* announces the shutdown, the wait group of the workers, the gauge        *)
(* metricBacklog and the map receivedEvents.                               *)
(*                                                                         *)
(* A process is a request handler (ServeHTTP, one per request) or a worker *)
(* (loop).  Both call functions and both fan events out to the backlog, so *)
(* the actions of callFunction and handleAsyncSubscriptions are shared.    *)
(* What the router asks of others (the target cache, plugins, authorizers  *)
(* and functions) is a nondeterministic answer: the cache changes under    *)
(* the router and the rest is remote.                                      *)
(***************************************************************************)
EXTENDS Integers, Sequences, FiniteSets

CONSTANTS
    Requests,         \* requests to the Events API, one handler goroutine each
    Workers,          \* worker goroutines: workersNumber of them
    BacklogLength,    \* capacity of the channel backlog
    EventIDs,         \* ids of the events clients send (clients may repeat one)
    Subscribers,      \* subscribers, a (space, function) each
    SyncSubscribers,  \* those that SyncSubscriber may return
    SubscriberLists,  \* per event type, the lists AsyncSubscribers may return
    Guarded,          \* <<subscriber, type>>: the type has an authorizer there
    None              \* "no event"

SystemTypes == {"received", "invoking", "invoked", "failed"}
EventTypes == SystemTypes \cup {"user"}

ASSUME ProcessesAssumption ==
    /\ Workers # {}
    /\ IsFiniteSet(Workers)
    /\ Requests \cap Workers = {}
    /\ Requests \cap Nat = {}

ASSUME BacklogAssumption == BacklogLength \in Nat \ {0}

ASSUME SubscribersAssumption ==
    /\ DOMAIN SubscriberLists = EventTypes
    /\ \A t \in EventTypes : \A l \in SubscriberLists[t] : l \in Seq(Subscribers)
    /\ Guarded \subseteq Subscribers \X EventTypes
    /\ SyncSubscribers \subseteq Subscribers

Processes == Requests \cup Workers

(***************************************************************************)
(* Events.  A client's event is its id.  A system event is made by         *)
(* event.New with a fresh UUID: the pair of its type and the call it is    *)
(* about (a handler, or the delivery a worker is processing) names it      *)
(* uniquely.                                                               *)
(***************************************************************************)
SystemEvents == SystemTypes \X (Requests \cup Nat)
Events == EventIDs \cup SystemEvents

ASSUME EventsAssumption == EventIDs \cap SystemEvents = {} /\ None \notin Events

IsSystem(e) == e \notin EventIDs
TypeOf(e) == IF IsSystem(e) THEN e[1] ELSE "user"

VARIABLES
    active,          \* router.active
    drain,           \* the channel drain is closed
    drainer,         \* where the caller of Drain is: "idle", "waiting", "returned"
    drainWaitGroup,  \* workers that have not called Done
    backlog,         \* the channel: numbers of the deliveries it holds
    metricBacklog,   \* the gauge
    receivedEvents,  \* keys of the map receivedEvents
    pc,              \* where each process is
    job,             \* the call a process makes: delivery number (0: sync) and event
    emitted,         \* the event a process is fanning out
    subs,            \* the subscribers still to be served by that fan-out
    result,          \* outcome of the process's last callFunction
    status,          \* HTTP status of each request, "none" until written
    hasSync,         \* syncSubscriber # nil in the handler
    crashed,         \* a panic in a worker goroutine ended the program
    deliveries,      \* history: every delivery accepted by the backlog, in order
    lost             \* history: events dropped at a full backlog

shared == <<active, drain, drainer, drainWaitGroup, crashed>>
metrics == <<metricBacklog, receivedEvents, lost>>
queue == <<backlog, deliveries>>
fanout == <<emitted, subs>>
reply == <<status, hasSync>>
vars == <<active, drain, drainer, drainWaitGroup, backlog, metricBacklog,
          receivedEvents, pc, job, emitted, subs, result, status, hasSync,
          crashed, deliveries, lost>>

HandlerPCs == {"idle", "reactReceived", "sync", "finish", "done"}
WorkerPCs == {"off", "poll", "wait", "recheck", "dec", "out", "exiting", "exited"}
CommonPCs == {"fanout", "report", "send", "inc", "call", "reactInvoking",
              "invoke", "return"}
Statuses == {"none", "200", "202", "400", "403", "500", "503", "function", "aborted"}

Delivery == [event : Events, late : BOOLEAN, calls : Nat]

NoJob == [n |-> 0, event |-> None]

Init ==
    /\ active = FALSE
    /\ drain = FALSE
    /\ drainer = "idle"
    /\ drainWaitGroup = {}
    /\ backlog = <<>>
    /\ metricBacklog = 0
    /\ receivedEvents = {}
    /\ pc = [p \in Processes |-> IF p \in Requests THEN "idle" ELSE "off"]
    /\ job = [p \in Processes |-> NoJob]
    /\ emitted = [p \in Processes |-> None]
    /\ subs = [p \in Processes |-> <<>>]
    /\ result = [p \in Processes |-> "none"]
    /\ status = [r \in Requests |-> "none"]
    /\ hasSync = [r \in Requests |-> FALSE]
    /\ crashed = FALSE
    /\ deliveries = <<>>
    /\ lost = {}

Goto(p, l) == pc' = [pc EXCEPT ![p] = l]

(* handleAsyncSubscriptions, its first half: look the subscribers up.      *)
StartFanout(p, e) ==
    /\ Goto(p, "fanout")
    /\ emitted' = [emitted EXCEPT ![p] = e]
    /\ \E l \in SubscriberLists[TypeOf(e)] : subs' = [subs EXCEPT ![p] = l]

-----------------------------------------------------------------------------
(***************************************************************************)
(* The fan-out loop: authorize, then enqueueWork for each subscriber.      *)
(***************************************************************************)

(* Where the caller of handleAsyncSubscriptions continues.  The error of   *)
(* the plugins that react to an "invoked" event is ignored.                *)
AfterFanout(e) ==
    CASE TypeOf(e) = "received" -> "reactReceived"
      [] TypeOf(e) = "invoking" -> "reactInvoking"
      [] TypeOf(e) \in {"invoked", "failed"} -> "return"
      [] OTHER -> "finish"

FanoutDone(p) ==
    /\ pc[p] = "fanout"
    /\ subs[p] = <<>>
    /\ Goto(p, AfterFanout(emitted[p]))
    /\ emitted' = [emitted EXCEPT ![p] = None]
    /\ UNCHANGED <<shared, metrics, queue, subs, reply, job, result>>

HasAuthorizer(p) == <<Head(subs[p]), TypeOf(emitted[p])>> \in Guarded

(* authorizeEventType returns nil: no authorizer, or one that agrees.  A   *)
(* system event is fanned out with a nil request and never gets past an    *)
(* authorizer.                                                             *)
Authorized(p) ==
    /\ pc[p] = "fanout"
    /\ subs[p] # <<>>
    /\ HasAuthorizer(p) => ~IsSystem(emitted[p])
    /\ Goto(p, "report")
    /\ UNCHANGED <<shared, metrics, queue, fanout, reply, job, result>>

(* The authorizer refuses, fails or cannot be looked up: next subscriber.  *)
Unauthorized(p) ==
    /\ pc[p] = "fanout"
    /\ subs[p] # <<>>
    /\ HasAuthorizer(p)
    /\ ~IsSystem(emitted[p])
    /\ subs' = [subs EXCEPT ![p] = Tail(@)]
    /\ UNCHANGED <<shared, metrics, queue, emitted, reply, job, result, pc>>

(* NewHTTPRequestData(nil, nil) dereferences the nil request.  net/http    *)
(* recovers the panic of a handler; nothing recovers that of a worker.     *)
AuthorizePanic(p) ==
    /\ pc[p] = "fanout"
    /\ subs[p] # <<>>
    /\ HasAuthorizer(p)
    /\ IsSystem(emitted[p])
    /\ \/ /\ p \in Requests
          /\ Goto(p, "done")
          /\ status' = [status EXCEPT ![p] = "aborted"]
          /\ UNCHANGED crashed
       \/ /\ p \in Workers
          /\ crashed' = TRUE
          /\ UNCHANGED <<pc, status>>
    /\ UNCHANGED <<active, drain, drainer, drainWaitGroup, metrics, queue,
                   fanout, hasSync, job, result>>

ReportEventInTheQueue(p) ==
    /\ pc[p] = "report"
    /\ receivedEvents' = receivedEvents \cup {emitted[p]}
    /\ Goto(p, "send")
    /\ UNCHANGED <<shared, metricBacklog, lost, queue, fanout, reply, job, result>>

(* Mutant: room for one more than the capacity.                            *)
SendBeyond(p) ==
    /\ pc[p] = "send"
    /\ Len(backlog) <= BacklogLength
    /\ deliveries' = Append(deliveries, [event |-> emitted[p], late |-> FALSE, calls |-> 0])
    /\ backlog' = Append(backlog, Len(deliveries) + 1)
    /\ Goto(p, "inc")
    /\ UNCHANGED <<shared, metrics, fanout, reply, job, result>>

(* The select of enqueueWork: send when the channel has room, ...          *)
Send(p) ==
    /\ pc[p] = "send"
    /\ Len(backlog) < BacklogLength
    /\ deliveries' = Append(deliveries, [event |-> emitted[p],
                                         late |-> drain /\ p \in Requests,
                                         calls |-> 0])
    /\ backlog' = Append(backlog, Len(deliveries) + 1)
    /\ Goto(p, "inc")
    /\ UNCHANGED <<shared, metrics, fanout, reply, job, result>>

(* Mutants: a dropped event is counted as waiting; it is tried again.      *)
DropCounted(p) ==
    /\ pc[p] = "send"
    /\ Len(backlog) >= BacklogLength
    /\ lost' = lost \cup {emitted[p]}
    /\ metricBacklog' = metricBacklog + 1
    /\ subs' = [subs EXCEPT ![p] = Tail(@)]
    /\ Goto(p, "fanout")
    /\ UNCHANGED <<shared, receivedEvents, queue, emitted, reply, job, result>>

DropRetried(p) ==
    /\ pc[p] = "send"
    /\ Len(backlog) >= BacklogLength
    /\ Goto(p, "fanout")
    /\ UNCHANGED <<shared, metrics, queue, fanout, reply, job, result>>

(* ... and drop the event when it has none.                                *)
Drop(p) ==
    /\ pc[p] = "send"
    /\ Len(backlog) >= BacklogLength
    /\ lost' = lost \cup {emitted[p]}
    /\ subs' = [subs EXCEPT ![p] = Tail(@)]
    /\ Goto(p, "fanout")
    /\ UNCHANGED <<shared, metricBacklog, receivedEvents, queue, emitted, reply,
                   job, result>>

MetricInc(p) ==
    /\ pc[p] = "inc"
    /\ metricBacklog' = metricBacklog + 1
    /\ subs' = [subs EXCEPT ![p] = Tail(@)]
    /\ Goto(p, "fanout")
    /\ UNCHANGED <<shared, receivedEvents, lost, queue, emitted, reply, job, result>>

Fanout(p) ==
    \/ FanoutDone(p)
    \/ Authorized(p)
    \/ Unauthorized(p)
    \/ AuthorizePanic(p)
    \/ ReportEventInTheQueue(p)
    \/ Send(p)
    \/ Drop(p)
    \/ MetricInc(p)

-----------------------------------------------------------------------------
(***************************************************************************)
(* callFunction, run by a handler for a sync subscriber and by a worker    *)
(* for a delivery.                                                         *)
(***************************************************************************)
Origin(p) == IF p \in Requests THEN p ELSE job[p].n

(* emitSystemFunctionInvoking: nothing for a call about a system event.    *)
EmitInvoking(p) ==
    /\ pc[p] = "call"
    /\ \/ /\ IsSystem(job[p].event)
          /\ Goto(p, "invoke")
          /\ UNCHANGED fanout
       \/ /\ ~IsSystem(job[p].event)
          /\ StartFanout(p, <<"invoking", Origin(p)>>)
    /\ UNCHANGED <<shared, metrics, queue, reply, job, result>>

(* plugins.React on the "invoking" event; an error ends the call.          *)
ReactInvoking(p) ==
    /\ pc[p] = "reactInvoking"
    /\ \/ Goto(p, "invoke") /\ UNCHANGED result
       \/ Goto(p, "return") /\ result' = [result EXCEPT ![p] = "error"]
    /\ UNCHANGED <<shared, metrics, queue, fanout, reply, job>>

(* The function is not in the cache, or its payload cannot be encoded.     *)
InvokeNothing(p) ==
    /\ pc[p] = "invoke"
    /\ result' = [result EXCEPT ![p] = "error"]
    /\ Goto(p, "return")
    /\ UNCHANGED <<shared, metrics, queue, fanout, reply, job>>

(* f.Call: the function is called once and answers, fails or times out;    *)
(* emitSystemFunctionInvoked or ...InvocationFailed starts.                *)
Invoke(p) ==
    /\ pc[p] = "invoke"
    /\ deliveries' = IF job[p].n = 0 THEN deliveries
                     ELSE [deliveries EXCEPT ![job[p].n].calls = @ + 1]
    /\ \E res \in {"ok", "error"} :
          /\ result' = [result EXCEPT ![p] = res]
          /\ \/ /\ IsSystem(job[p].event)
                /\ Goto(p, "return")
                /\ UNCHANGED fanout
             \/ /\ ~IsSystem(job[p].event)
                /\ StartFanout(p, <<IF res = "ok" THEN "invoked" ELSE "failed",
                                    Origin(p)>>)
    /\ UNCHANGED <<shared, metrics, backlog, reply, job>>

CallFunction(p) ==
    \/ EmitInvoking(p)
    \/ ReactInvoking(p)
    \/ InvokeNothing(p)
    \/ Invoke(p)

-----------------------------------------------------------------------------
(***************************************************************************)
(* ServeHTTP.                                                              *)
(***************************************************************************)

(* An answer that involves neither events nor functions.                   *)
Answer(r, code) ==
    /\ Goto(r, "done")
    /\ status' = [status EXCEPT ![r] = code]

(* isDraining; a CORS preflight answered by the cors package; a request    *)
(* that is no event, or a system event; otherwise emitSystemEventReceived. *)
(* main starts the workers before the listeners.                           *)
ServeHTTP(r) ==
    /\ pc[r] = "idle"
    /\ active \/ drain
    /\ \/ /\ drain
          /\ Answer(r, "503")
          /\ UNCHANGED <<fanout, job>>
       \/ /\ ~drain
          /\ \E code \in {"200", "400"} : Answer(r, code)
          /\ UNCHANGED <<fanout, job>>
       \/ /\ ~drain
          /\ \E e \in EventIDs : job' = [job EXCEPT ![r] = [n |-> 0, event |-> e]]
          /\ StartFanout(r, <<"received", r>>)
          /\ UNCHANGED status
    /\ UNCHANGED <<shared, metrics, queue, hasSync, result>>

(* plugins.React on the "received" event.  On an error the handler returns *)
(* without writing a status, which net/http turns into 200.                *)
ReactReceived(r) ==
    /\ pc[r] = "reactReceived"
    /\ \/ Goto(r, "sync") /\ UNCHANGED status
       \/ Answer(r, "200")
    /\ UNCHANGED <<shared, metrics, queue, fanout, hasSync, job, result>>

(* SyncSubscriber and the authorization of handleSyncSubscription.  The    *)
(* async fan-out follows whatever the sync part did.                       *)
SyncSubscription(r) ==
    /\ pc[r] = "sync"
    /\ \/ /\ StartFanout(r, job[r].event)
          /\ UNCHANGED reply
       \/ /\ \E s \in SyncSubscribers : <<s, "user">> \in Guarded
          /\ hasSync' = [hasSync EXCEPT ![r] = TRUE]
          /\ status' = [status EXCEPT ![r] = "403"]
          /\ StartFanout(r, job[r].event)
       \/ /\ SyncSubscribers # {}
          /\ hasSync' = [hasSync EXCEPT ![r] = TRUE]
          /\ Goto(r, "call")
          /\ UNCHANGED <<status, fanout>>
    /\ UNCHANGED <<shared, metrics, queue, job, result>>

(* httpRequestHandler: 500 when the call failed or its answer is not a     *)
(* response object, else the function's status; then the async fan-out.    *)
Respond(r) ==
    /\ pc[r] = "return"
    /\ \E code \in IF result[r] = "ok" THEN {"function", "500"} ELSE {"500"} :
          status' = [status EXCEPT ![r] = code]
    /\ StartFanout(r, job[r].event)
    /\ UNCHANGED <<shared, metrics, queue, hasSync, job, result>>

Finish(r) ==
    /\ pc[r] = "finish"
    /\ Goto(r, "done")
    /\ status' = IF hasSync[r] THEN status ELSE [status EXCEPT ![r] = "202"]
    /\ UNCHANGED <<shared, metrics, queue, fanout, hasSync, job, result>>

Handler(r) ==
    \/ ReactReceived(r)
    \/ SyncSubscription(r)
    \/ Respond(r)
    \/ Finish(r)
    \/ Fanout(r)
    \/ CallFunction(r)

-----------------------------------------------------------------------------
(***************************************************************************)
(* StartWorkers, loop and Drain.                                           *)
(***************************************************************************)
StartWorkers ==
    /\ ~active
    /\ drainer = "idle"
    /\ active' = TRUE
    /\ drainWaitGroup' = Workers
    /\ pc' = [p \in Processes |-> IF p \in Workers THEN "poll" ELSE pc[p]]
    /\ UNCHANGED <<drain, drainer, crashed, metrics, queue, fanout, reply, job, result>>

(* Mutants: the delivery stays in the backlog; the newest one is taken.    *)
ReceivePeek(w) ==
    /\ pc[w] \in {"poll", "wait", "recheck"}
    /\ backlog # <<>>
    /\ job' = [job EXCEPT ![w] = [n |-> Head(backlog),
                                  event |-> deliveries[Head(backlog)].event]]
    /\ Goto(w, "dec")
    /\ UNCHANGED <<shared, metrics, queue, fanout, reply, result>>

ReceiveNewest(w) ==
    /\ pc[w] \in {"poll", "wait", "recheck"}
    /\ backlog # <<>>
    /\ LET last == backlog[Len(backlog)]
       IN  job' = [job EXCEPT ![w] = [n |-> last, event |-> deliveries[last].event]]
    /\ backlog' = SubSeq(backlog, 1, Len(backlog) - 1)
    /\ Goto(w, "dec")
    /\ UNCHANGED <<shared, metrics, deliveries, fanout, reply, result>>

(* Receiving from the backlog, in any of the three selects of loop.        *)
Receive(w) ==
    /\ pc[w] \in {"poll", "wait", "recheck"}
    /\ backlog # <<>>
    /\ backlog' = Tail(backlog)
    /\ job' = [job EXCEPT ![w] = [n |-> Head(backlog),
                                  event |-> deliveries[Head(backlog)].event]]
    /\ Goto(w, "dec")
    /\ UNCHANGED <<shared, metrics, deliveries, fanout, reply, result>>

(* Select 1 finds no work.                                                 *)
NoWork(w) ==
    /\ pc[w] = "poll"
    /\ backlog = <<>>
    /\ Goto(w, "wait")
    /\ UNCHANGED <<shared, metrics, queue, fanout, reply, job, result>>

(* Mutants: without the check AGAIN; back to select 1 forever.             *)
SeeDrainNoRecheck(w) ==
    /\ pc[w] = "wait"
    /\ drain
    /\ Goto(w, "exiting")
    /\ UNCHANGED <<shared, metrics, queue, fanout, reply, job, result>>

SeeDrainContinue(w) ==
    /\ pc[w] = "wait"
    /\ drain
    /\ Goto(w, "poll")
    /\ UNCHANGED <<shared, metrics, queue, fanout, reply, job, result>>

(* Select 2 sees the drain closed (work may be there as well).             *)
SeeDrain(w) ==
    /\ pc[w] = "wait"
    /\ drain
    /\ Goto(w, "recheck")
    /\ UNCHANGED <<shared, metrics, queue, fanout, reply, job, result>>

(* Select 3, the check "AGAIN": no work, leave the loop.                   *)
LeaveLoop(w) ==
    /\ pc[w] = "recheck"
    /\ backlog = <<>>
    /\ Goto(w, "exiting")
    /\ UNCHANGED <<shared, metrics, queue, fanout, reply, job, result>>

WaitGroupDone(w) ==
    /\ pc[w] = "exiting"
    /\ drainWaitGroup' = drainWaitGroup \ {w}
    /\ Goto(w, "exited")
    /\ UNCHANGED <<active, drain, drainer, crashed, metrics, queue, fanout,
                   reply, job, result>>

MetricDec(w) ==
    /\ pc[w] = "dec"
    /\ metricBacklog' = metricBacklog - 1
    /\ Goto(w, "out")
    /\ UNCHANGED <<shared, receivedEvents, lost, queue, fanout, reply, job, result>>

(* Mutant: the entry of the received event is not deleted.                 *)
ReportEventOutOfQueueKept(w) ==
    /\ pc[w] = "out"
    /\ Goto(w, "call")
    /\ UNCHANGED <<shared, metrics, queue, fanout, reply, job, result>>

(* processEvent, up to its call of callFunction.                           *)
ReportEventOutOfQueue(w) ==
    /\ pc[w] = "out"
    /\ receivedEvents' = receivedEvents \ {job[w].event}
    /\ Goto(w, "call")
    /\ UNCHANGED <<shared, metricBacklog, lost, queue, fanout, reply, job, result>>

(* Mutant: the worker returns instead of continuing its loop.              *)
EventProcessedReturn(w) ==
    /\ pc[w] = "return"
    /\ Goto(w, "exiting")
    /\ job' = [job EXCEPT ![w] = NoJob]
    /\ UNCHANGED <<shared, metrics, queue, fanout, reply, result>>

(* callFunction returned to processEvent: back to select 1.                *)
EventProcessed(w) ==
    /\ pc[w] = "return"
    /\ Goto(w, "poll")
    /\ job' = [job EXCEPT ![w] = NoJob]
    /\ result' = [result EXCEPT ![w] = "none"]
    /\ UNCHANGED <<shared, metrics, queue, fanout, reply>>

Loop(w) ==
    \/ Receive(w)
    \/ NoWork(w)
    \/ SeeDrain(w)
    \/ LeaveLoop(w)
    \/ WaitGroupDone(w)
    \/ MetricDec(w)
    \/ ReportEventOutOfQueue(w)
    \/ EventProcessed(w)
    \/ Fanout(w)
    \/ CallFunction(w)

(* Drain: close the channel; then, when the wait group is empty, return.   *)
CloseDrain ==
    /\ active
    /\ ~drain
    /\ drain' = TRUE
    /\ drainer' = "waiting"
    /\ UNCHANGED <<active, drainWaitGroup, crashed, pc, metrics, queue, fanout,
                   reply, job, result>>

DrainReturns ==
    /\ drainer = "waiting"
    /\ drainWaitGroup = {}
    /\ drainer' = "returned"
    /\ active' = FALSE
    /\ UNCHANGED <<drain, drainWaitGroup, crashed, pc, metrics, queue, fanout,
                   reply, job, result>>

(* The program is over: it crashed, or Drain returned and no handler runs. *)
Terminated ==
    /\ \/ crashed
       \/ drainer = "returned" /\ \A r \in Requests : pc[r] = "done"
    /\ UNCHANGED vars

Next ==
    \/ /\ ~crashed
       /\ \/ StartWorkers
          \/ CloseDrain
          \/ DrainReturns
          \/ \E r \in Requests : ServeHTTP(r) \/ Handler(r)
          \/ \E w \in Workers : Loop(w)
    \/ Terminated

Spec == Init /\ [][Next]_vars

(* Goroutines that can run do run.  Every remote call ends: the HTTP       *)
(* client of the providers has a timeout of 5 s, and a plugin or a cloud   *)
(* SDK call ends with an answer or an error.  Whether a request arrives    *)
(* and whether the program is told to stop is up to the environment.       *)
Fairness ==
    /\ WF_vars(~crashed /\ StartWorkers)
    /\ WF_vars(~crashed /\ DrainReturns)
    /\ \A r \in Requests : WF_vars(~crashed /\ Handler(r))
    /\ \A w \in Workers : WF_vars(~crashed /\ Loop(w))

FairSpec == Spec /\ Fairness
-----------------------------------------------------------------------------
(***************************************************************************)
(* Properties.                                                             *)
(***************************************************************************)

(* Every variable has its type: the state of the Router struct, of the     *)
(* metrics and of the goroutines running its methods.                      *)
TypeOK ==
    /\ active \in BOOLEAN
    /\ drain \in BOOLEAN
    /\ drainer \in {"idle", "waiting", "returned"}
    /\ drainWaitGroup \subseteq Workers
    /\ backlog \in Seq(Nat) /\ Len(backlog) <= BacklogLength
    /\ metricBacklog \in Int
    /\ receivedEvents \subseteq Events
    /\ pc \in [Processes -> HandlerPCs \cup WorkerPCs \cup CommonPCs]
    /\ job \in [Processes -> [n : Nat, event : Events \cup {None}]]
    /\ emitted \in [Processes -> Events \cup {None}]
    /\ subs \in [Processes -> Seq(Subscribers)]
    /\ result \in [Processes -> {"none", "ok", "error"}]
    /\ status \in [Requests -> Statuses]
    /\ hasSync \in [Requests -> BOOLEAN]
    /\ crashed \in BOOLEAN
    /\ deliveries \in Seq(Delivery)
    /\ lost \subseteq Events

FanoutPCs == {"fanout", "report", "send", "inc"}
HoldingPCs == {"dec", "out"} \cup CommonPCs
Taken == Len(deliveries) - Len(backlog)

(* docs/reliability-guarantees.md, "at most once": the worker pool calls   *)
(* the subscriber's function at most once for a delivery that the backlog  *)
(* accepted, whatever the interleaving of workers and the shutdown.        *)
AtMostOnce == \A n \in DOMAIN deliveries : deliveries[n].calls <= 1

(* The three selects of loop: once Drain has returned, a delivery that is  *)
(* still in the backlog was sent by a handler after the drain was closed.  *)
(* All that was accepted before, and all that workers sent themselves, has *)
(* been taken out.                                                         *)
StrandedOnlyLate ==
    drainer = "returned" => \A i \in DOMAIN backlog : deliveries[backlog[i]].late

(* metricBacklog is changed after the channel, in separate steps: it is    *)
(* the length of the backlog up to the sends and receives not yet counted, *)
(* whatever was dropped in between.                                        *)
BacklogGauge ==
    metricBacklog = Len(backlog) + Cardinality({p \in Processes : pc[p] = "dec"})
                                 - Cardinality({p \in Processes : pc[p] = "inc"})

(* reportEventInTheQueue runs before the send and only the receiver of the *)
(* event cleans up: an entry of receivedEvents whose event is not on its   *)
(* way through the backlog belongs to an event that was dropped there (and *)
(* then stays forever).                                                    *)
LeakOnlyByDrop ==
    \A e \in receivedEvents :
        \/ e \in lost
        \/ \E p \in Processes : pc[p] = "send" /\ emitted[p] = e
        \/ \E i \in DOMAIN backlog : deliveries[backlog[i]].event = e
        \/ \E w \in Workers : pc[w] \in {"dec", "out"} /\ job[w].event = e

(***************************************************************************)
(* The router implements Delivery.  A delivery is in hand from the receive *)
(* until its function is called or callFunction returns without a call.    *)
(***************************************************************************)
Waiting(w) ==
    \/ pc[w] \in {"dec", "out", "call", "reactInvoking", "invoke"}
    \/ pc[w] \in FanoutPCs /\ TypeOf(emitted[w]) = "invoking"

Abstract == INSTANCE Delivery WITH
    accepted <- Len(deliveries),
    taken <- Taken,
    inHand <- {job[w].n : w \in {v \in Workers : Waiting(v)}},
    attempted <- {n \in DOMAIN deliveries : deliveries[n].calls > 0},
    late <- {n \in DOMAIN deliveries : deliveries[n].late},
    phase <- CASE drainer = "idle" -> "open"
               [] drainer = "waiting" -> "closing"
               [] OTHER -> "closed"

(* Deliveries leave the backlog first in, first out, each is attempted by  *)
(* the one worker that took it and only once, and Drain returns only when  *)
(* nothing is in hand and only late deliveries are left (router.go: loop,  *)
(* processEvent, callFunction, Drain).                                     *)
ImplementsDelivery == Abstract!Spec

(***************************************************************************)
(* The inductive invariant behind the safety properties above.             *)
(***************************************************************************)

(* Handlers and workers stay in their own code, and what they hold is      *)
(* there: a handler has its event from the moment it is accepted, a worker *)
(* the number and the event of the delivery it took.                       *)
HandlerJob(r) ==
    /\ pc[r] \in HandlerPCs \cup CommonPCs
    /\ job[r].n = 0
    /\ pc[r] \notin {"idle", "done"} => job[r].event \in EventIDs

WorkerJob(w) ==
    /\ pc[w] \in WorkerPCs \cup CommonPCs
    /\ pc[w] \in HoldingPCs =>
          /\ job[w].n \in 1..Taken
          /\ job[w].event = deliveries[job[w].n].event

Jobs ==
    /\ \A r \in Requests : HandlerJob(r)
    /\ \A w \in Workers : WorkerJob(w)

(* What is fanned out: a system event about the call in hand, or, by a     *)
(* handler only, the client's event.                                       *)
Emission(p) ==
    pc[p] \in FanoutPCs =>
        /\ \/ /\ emitted[p] \in EventIDs
              /\ p \in Requests
           \/ /\ emitted[p] = <<"received", p>>
              /\ p \in Requests
           \/ \E t \in {"invoking", "invoked", "failed"} :
                 /\ emitted[p] = <<t, Origin(p)>>
                 /\ ~IsSystem(job[p].event)
        /\ pc[p] # "fanout" => subs[p] # <<>>

Emissions == \A p \in Processes : Emission(p)

(* The backlog holds the deliveries accepted last, in their order, and no  *)
(* two workers hold the same one.                                          *)
Numbering ==
    /\ Taken \in Nat
    /\ \A i \in DOMAIN backlog : backlog[i] = Taken + i
    /\ \A v, w \in Workers :
          v # w /\ pc[v] \in HoldingPCs /\ pc[w] \in HoldingPCs => job[v].n # job[w].n

(* No function has been called for a delivery in the backlog, nor for one  *)
(* whose worker has not come to the call.                                  *)
Uncalled ==
    /\ \A n \in DOMAIN deliveries : n > Taken => deliveries[n].calls = 0
    /\ \A w \in Workers : Waiting(w) => deliveries[job[w].n].calls = 0

Gone == {"exiting", "exited"}

InLoop(w) == pc[w] \notin {"off"} \cup Gone

(* The life of the worker pool.                                            *)
Lifecycle ==
    /\ drain <=> drainer # "idle"
    /\ active => \A w \in Workers : pc[w] # "off"
    /\ drain => \A w \in Workers : pc[w] # "off"
    /\ ~active /\ ~drain => /\ \A r \in Requests : pc[r] = "idle"
                            /\ \A w \in Workers : pc[w] = "off"
    /\ ~drain => \A w \in Workers : pc[w] \notin {"recheck"} \cup Gone
    /\ \A w \in Workers : w \in drainWaitGroup <=> pc[w] \notin {"off", "exited"}
    /\ drainer = "returned" => drainWaitGroup = {}

(* While the backlog holds a delivery that is not late some worker is      *)
(* still in its loop.                                                      *)
LoopAlive ==
    (\E i \in DOMAIN backlog : ~deliveries[backlog[i]].late)
        => \E w \in Workers : InLoop(w)

(* The inductive invariant: types, the code position of every goroutine,   *)
(* the numbering of deliveries, the worker pool's life, and the properties *)
(* they carry.                                                             *)
IndInv ==
    /\ TypeOK
    /\ Jobs
    /\ Emissions
    /\ Numbering
    /\ Uncalled
    /\ AtMostOnce
    /\ Lifecycle
    /\ LoopAlive

(* Every accepted delivery that is not late is taken out of the backlog by *)
(* a worker, before or during the drain (loop).                            *)
EventuallyTaken(n) ==
    (n \in DOMAIN deliveries /\ ~deliveries[n].late) ~> (Taken >= n)

(* Drain returns: the workers find the backlog empty in the end, also when *)
(* they feed it with system events themselves.                             *)
DrainCompletes == drain ~> drainer = "returned"

(* Every request that is served is answered: neither a full backlog nor    *)
(* the drain blocks a handler.                                             *)
RequestsAnswered == \A r \in Requests : pc[r] # "idle" ~> pc[r] = "done"
=============================================================================
