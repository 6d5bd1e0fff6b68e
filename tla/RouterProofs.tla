---------------------------- MODULE RouterProofs ----------------------------
(***************************************************************************)
(* Proofs about Router, for any number of requests and workers, any        *)
(* capacity of the backlog and any subscriptions.                          *)
(***************************************************************************)
EXTENDS Router, TLAPS

(* The events a fan-out may start with have a type, and the lists the      *)
(* cache returns for it are lists of subscribers (StartFanout).            *)
LEMMA EventTypesKnown ==
    ASSUME NEW e \in Events
    PROVE  /\ TypeOf(e) \in EventTypes
           /\ \A l \in SubscriberLists[TypeOf(e)] : l \in Seq(Subscribers)
BY SubscribersAssumption DEF TypeOf, IsSystem, Events, SystemEvents, EventTypes

(* What a process fans out next is an event.                               *)
LEMMA SystemEventsTyped ==
    ASSUME NEW t \in SystemTypes, NEW o \in Requests \cup Nat
    PROVE  /\ <<t, o>> \in Events
           /\ IsSystem(<<t, o>>)
           /\ TypeOf(<<t, o>>) = t
BY EventsAssumption DEF Events, SystemEvents, IsSystem, TypeOf

(* A fan-out is started with well-typed data.                              *)
LEMMA StartFanoutTyped ==
    ASSUME TypeOK, NEW p \in Processes, NEW e \in Events, StartFanout(p, e)
    PROVE  /\ pc' \in [Processes -> HandlerPCs \cup WorkerPCs \cup CommonPCs]
           /\ emitted' \in [Processes -> Events \cup {None}]
           /\ subs' \in [Processes -> Seq(Subscribers)]
BY EventTypesKnown DEF TypeOK, StartFanout, Goto, CommonPCs

(* A process works for a request or a delivery.                            *)
LEMMA OriginTyped ==
    ASSUME TypeOK, NEW p \in Processes
    PROVE  Origin(p) \in Requests \cup Nat
BY DEF TypeOK, Origin, Processes

(* What a process is fanning out is an event.                              *)
LEMMA EmittedTyped ==
    ASSUME TypeOK, Emissions, NEW p \in Processes, pc[p] \in FanoutPCs
    PROVE  emitted[p] \in Events
<1>1. CASE emitted[p] \in EventIDs
  BY <1>1 DEF Events
<1>2. CASE emitted[p] = <<"received", p>> /\ p \in Requests
  BY <1>2, SystemEventsTyped DEF SystemTypes
<1>3. ASSUME NEW t \in {"invoking", "invoked", "failed"}, emitted[p] = <<t, Origin(p)>>
      PROVE  emitted[p] \in Events
  BY <1>3, OriginTyped, SystemEventsTyped DEF SystemTypes
<1>4. QED BY <1>1, <1>2, <1>3 DEF Emissions, Emission

(* The fields of a delivery, and one more call of it.                      *)
LEMMA DeliveryTyped ==
    ASSUME TypeOK, NEW n \in 1..Len(deliveries)
    PROVE  /\ deliveries[n] \in Delivery
           /\ deliveries[n].event \in Events
           /\ deliveries[n].late \in BOOLEAN
           /\ deliveries[n].calls \in Nat
           /\ [deliveries[n] EXCEPT !.calls = @ + 1] \in Delivery
<1>1. deliveries[n] \in Delivery
  BY DEF TypeOK
<1>2. QED BY <1>1 DEF Delivery

(* Counting a call (Invoke) changes that delivery's count and nothing else.*)
LEMMA CallCounted ==
    ASSUME TypeOK, NEW n \in 1..Len(deliveries),
           deliveries' = [deliveries EXCEPT ![n].calls = @ + 1]
    PROVE  /\ deliveries' \in Seq(Delivery)
           /\ Len(deliveries') = Len(deliveries)
           /\ \A m \in 1..Len(deliveries) : m # n => deliveries'[m] = deliveries[m]
           /\ deliveries'[n].event = deliveries[n].event
           /\ deliveries'[n].late = deliveries[n].late
           /\ deliveries'[n].calls = deliveries[n].calls + 1
<1> DEFINE d == [deliveries[n] EXCEPT !.calls = @ + 1]
<1>1. d \in Delivery
  BY DeliveryTyped
<1>2. deliveries \in Seq(Delivery) /\ deliveries' = [deliveries EXCEPT ![n] = d]
  BY DEF TypeOK
<1>3. d.event = deliveries[n].event /\ d.late = deliveries[n].late
      /\ d.calls = deliveries[n].calls + 1
  BY DeliveryTyped DEF Delivery
<1> HIDE DEF d
<1>4. QED BY <1>1, <1>2, <1>3

(* Every action keeps the types.                                           *)
LEMMA TypeOKStep ==
    ASSUME IndInv, Next
    PROVE  TypeOK'
<1> USE DEF IndInv
<1>1. ASSUME NEW p \in Processes, Fanout(p) PROVE TypeOK'
  <2>1. CASE FanoutDone(p)
    BY <2>1 DEF TypeOK, FanoutDone, Goto, AfterFanout, HandlerPCs, CommonPCs,
                shared, metrics, queue, reply
  <2>2. CASE Authorized(p)
    BY <2>2 DEF TypeOK, Authorized, Goto, CommonPCs, shared, metrics, queue, fanout, reply
  <2>3. CASE Unauthorized(p)
    BY <2>3 DEF TypeOK, Unauthorized, shared, metrics, queue, reply
  <2>4. CASE AuthorizePanic(p)
    BY <2>4 DEF TypeOK, AuthorizePanic, Goto, HandlerPCs, Statuses, metrics, queue, fanout
  <2>5. CASE ReportEventInTheQueue(p)
    <3>1. emitted[p] \in Events
      BY <2>5, EmittedTyped DEF ReportEventInTheQueue, FanoutPCs
    <3>2. QED
      BY <2>5, <3>1 DEF TypeOK, ReportEventInTheQueue, Goto, CommonPCs, shared, queue,
                        fanout, reply
  <2>6. CASE Send(p)
    <3>1. emitted[p] \in Events
      BY <2>6, EmittedTyped DEF Send, FanoutPCs
    <3>2. [event |-> emitted[p], late |-> drain /\ p \in Requests, calls |-> 0] \in Delivery
      BY <3>1 DEF Delivery
    <3>3. /\ backlog' \in Seq(Nat) /\ Len(backlog') <= BacklogLength
          /\ deliveries' \in Seq(Delivery)
      BY <2>6, <3>2, BacklogAssumption DEF TypeOK, Send
    <3>4. pc' \in [Processes -> HandlerPCs \cup WorkerPCs \cup CommonPCs]
      BY <2>6 DEF TypeOK, Send, Goto, CommonPCs
    <3>5. QED
      BY <2>6, <3>3, <3>4 DEF TypeOK, Send, shared, metrics, fanout, reply
  <2>7. CASE Drop(p)
    <3>1. emitted[p] \in Events /\ subs[p] # <<>>
      BY <2>7, EmittedTyped DEF Emissions, Emission, Drop, FanoutPCs
    <3>2. QED
      BY <2>7, <3>1 DEF TypeOK, Drop, Goto, CommonPCs, shared, queue, reply
  <2>8. CASE MetricInc(p)
    <3>1. subs[p] # <<>>
      BY <2>8 DEF Emissions, Emission, MetricInc, FanoutPCs
    <3>2. QED
      BY <2>8, <3>1 DEF TypeOK, MetricInc, Goto, CommonPCs, shared, queue, reply
  <2>9. QED BY <1>1, <2>1, <2>2, <2>3, <2>4, <2>5, <2>6, <2>7, <2>8 DEF Fanout
<1>2. ASSUME NEW p \in Processes, CallFunction(p) PROVE TypeOK'
  <2>1. CASE EmitInvoking(p)
    <3>1. <<"invoking", Origin(p)>> \in Events
      BY OriginTyped, SystemEventsTyped DEF SystemTypes
    <3>2. CASE Goto(p, "invoke") /\ UNCHANGED fanout
      BY <2>1, <3>2 DEF TypeOK, EmitInvoking, Goto, CommonPCs, shared, metrics, queue,
                        reply, fanout
    <3>3. CASE StartFanout(p, <<"invoking", Origin(p)>>)
      BY <2>1, <3>1, <3>3, StartFanoutTyped
      DEF TypeOK, EmitInvoking, shared, metrics, queue, reply
    <3>4. QED BY <2>1, <3>2, <3>3 DEF EmitInvoking
  <2>2. CASE ReactInvoking(p)
    BY <2>2 DEF TypeOK, ReactInvoking, Goto, CommonPCs, shared, metrics, queue, fanout, reply
  <2>3. CASE InvokeNothing(p)
    BY <2>3 DEF TypeOK, InvokeNothing, Goto, CommonPCs, shared, metrics, queue, fanout, reply
  <2>4. CASE Invoke(p)
    <3>1. deliveries' \in Seq(Delivery)
      <4>1. job[p].n # 0 => job[p].n \in 1..Len(deliveries)
        BY <2>4 DEF Jobs, HandlerJob, WorkerJob, Invoke, HoldingPCs, CommonPCs, Processes, TypeOK, Taken
      <4>2. QED BY <2>4, <4>1, CallCounted DEF TypeOK, Invoke
    <3>2. PICK res \in {"ok", "error"} :
             /\ result' = [result EXCEPT ![p] = res]
             /\ \/ Goto(p, "return") /\ UNCHANGED fanout
                \/ StartFanout(p, <<IF res = "ok" THEN "invoked" ELSE "failed", Origin(p)>>)
      BY <2>4 DEF Invoke
    <3>3. <<IF res = "ok" THEN "invoked" ELSE "failed", Origin(p)>> \in Events
      BY OriginTyped, SystemEventsTyped DEF SystemTypes
    <3>4. CASE Goto(p, "return") /\ UNCHANGED fanout
      BY <2>4, <3>1, <3>2, <3>4
      DEF TypeOK, Invoke, Goto, CommonPCs, shared, metrics, reply, fanout
    <3>5. CASE StartFanout(p, <<IF res = "ok" THEN "invoked" ELSE "failed", Origin(p)>>)
      BY <2>4, <3>1, <3>2, <3>3, <3>5, StartFanoutTyped
      DEF TypeOK, Invoke, shared, metrics, reply
    <3>6. QED BY <3>2, <3>4, <3>5
  <2>5. QED BY <1>2, <2>1, <2>2, <2>3, <2>4 DEF CallFunction
<1>3. ASSUME NEW r \in Requests, ServeHTTP(r) PROVE TypeOK'
  <2>1. <<"received", r>> \in Events
    BY SystemEventsTyped DEF SystemTypes
  <2>2. ASSUME StartFanout(r, <<"received", r>>), NEW e \in EventIDs,
               job' = [job EXCEPT ![r] = [n |-> 0, event |-> e]], UNCHANGED status
        PROVE  TypeOK'
    <3>1. job' \in [Processes -> [n : Nat, event : Events \cup {None}]]
      BY <2>2 DEF TypeOK, Events
    <3>2. r \in Processes BY DEF Processes
    <3>3. QED
      BY <1>3, <2>1, <2>2, <3>1, <3>2, StartFanoutTyped
      DEF TypeOK, ServeHTTP, shared, metrics, queue
  <2>3. ASSUME NEW code \in {"200", "400", "503"}, Answer(r, code), UNCHANGED <<fanout, job>>
        PROVE  TypeOK'
    BY <1>3, <2>3 DEF TypeOK, ServeHTTP, Answer, Goto, Statuses, HandlerPCs, shared,
                      metrics, queue, fanout
  <2>4. QED BY <1>3, <2>2, <2>3 DEF ServeHTTP
<1>4. ASSUME NEW r \in Requests,
             ReactReceived(r) \/ SyncSubscription(r) \/ Respond(r) \/ Finish(r)
      PROVE  TypeOK'
  <2>1. job[r].event \in Events /\ r \in Processes
    BY <1>4 DEF Jobs, HandlerJob, ReactReceived, SyncSubscription, Respond, Finish, Events, Processes
  <2>2. CASE ReactReceived(r)
    BY <2>1, <2>2 DEF TypeOK, ReactReceived, Answer, Goto, Statuses, HandlerPCs, shared,
                      metrics, queue, fanout
  <2>3. CASE SyncSubscription(r)
    <3>1. status' \in [Requests -> Statuses] /\ hasSync' \in [Requests -> BOOLEAN]
      BY <2>3 DEF TypeOK, SyncSubscription, Statuses, reply
    <3>2. CASE StartFanout(r, job[r].event)
      BY <2>1, <2>3, <3>1, <3>2, StartFanoutTyped
      DEF TypeOK, SyncSubscription, shared, metrics, queue
    <3>3. CASE Goto(r, "call") /\ UNCHANGED fanout
      BY <2>1, <2>3, <3>1, <3>3
      DEF TypeOK, SyncSubscription, Goto, CommonPCs, shared, metrics, queue, fanout
    <3>4. QED BY <2>3, <3>2, <3>3 DEF SyncSubscription, fanout
  <2>4. CASE Respond(r)
    BY <2>1, <2>4, StartFanoutTyped DEF TypeOK, Respond, Statuses, shared, metrics, queue
  <2>5. CASE Finish(r)
    BY <2>1, <2>5 DEF TypeOK, Finish, Goto, Statuses, HandlerPCs, shared, metrics, queue, fanout
  <2>6. QED BY <1>4, <2>2, <2>3, <2>4, <2>5
<1>5. ASSUME NEW w \in Workers,
             \/ Receive(w) \/ NoWork(w) \/ SeeDrain(w) \/ LeaveLoop(w)
             \/ WaitGroupDone(w) \/ MetricDec(w) \/ ReportEventOutOfQueue(w)
             \/ EventProcessed(w)
      PROVE  TypeOK'
  <2> w \in Processes BY DEF Processes
  <2>1. CASE Receive(w)
    <3>1. Head(backlog) \in 1..Len(deliveries)
      BY <2>1 DEF TypeOK, Receive, Numbering, Taken
    <3>2. deliveries[Head(backlog)].event \in Events
      BY <3>1, DeliveryTyped
    <3>3. backlog' \in Seq(Nat) /\ Len(backlog') <= BacklogLength
      BY <2>1, BacklogAssumption DEF TypeOK, Receive
    <3>4. job' \in [Processes -> [n : Nat, event : Events \cup {None}]]
      BY <2>1, <3>1, <3>2 DEF TypeOK, Receive
    <3>5. pc' \in [Processes -> HandlerPCs \cup WorkerPCs \cup CommonPCs]
      BY <2>1 DEF TypeOK, Receive, Goto, WorkerPCs
    <3>6. QED
      BY <2>1, <3>3, <3>4, <3>5 DEF TypeOK, Receive, shared, metrics, fanout, reply
  <2>2. CASE NoWork(w) \/ SeeDrain(w) \/ LeaveLoop(w)
    BY <2>2 DEF TypeOK, NoWork, SeeDrain, LeaveLoop, Goto, WorkerPCs, shared, metrics,
                queue, fanout, reply
  <2>3. CASE WaitGroupDone(w)
    BY <2>3 DEF TypeOK, WaitGroupDone, Goto, WorkerPCs, metrics, queue, fanout, reply
  <2>6. CASE MetricDec(w)
    BY <2>6 DEF TypeOK, MetricDec, Goto, WorkerPCs, shared, queue, fanout, reply
  <2>7. CASE ReportEventOutOfQueue(w)
    BY <2>7 DEF TypeOK, ReportEventOutOfQueue, Goto, CommonPCs, shared, queue, fanout, reply
  <2>4. CASE EventProcessed(w)
    BY <2>4 DEF TypeOK, EventProcessed, NoJob, Goto, WorkerPCs, shared, metrics, queue,
                fanout, reply
  <2>5. QED BY <1>5, <2>1, <2>2, <2>3, <2>4, <2>6, <2>7
<1>6. CASE StartWorkers
  BY <1>6 DEF TypeOK, StartWorkers, WorkerPCs, metrics, queue, fanout, reply
<1>7. CASE CloseDrain \/ DrainReturns
  BY <1>7 DEF TypeOK, CloseDrain, DrainReturns, metrics, queue, fanout, reply
<1>8. CASE Terminated
  BY <1>8 DEF TypeOK, Terminated, vars
<1>9. QED
  BY <1>1, <1>2, <1>3, <1>4, <1>5, <1>6, <1>7, <1>8 DEF Next, Handler, Loop, Processes
-----------------------------------------------------------------------------
(***************************************************************************)
(* Steps of one process leave the others alone, and the queue only grows.  *)
(***************************************************************************)
OwnStep(p) == \A q \in Processes : q # p =>
    /\ pc'[q] = pc[q]
    /\ job'[q] = job[q]
    /\ emitted'[q] = emitted[q]
    /\ subs'[q] = subs[q]

HandlerStep(r) ==
    ServeHTTP(r) \/ ReactReceived(r) \/ SyncSubscription(r) \/ Respond(r) \/ Finish(r)

LoopStep(w) ==
    \/ Receive(w) \/ NoWork(w) \/ SeeDrain(w) \/ LeaveLoop(w) \/ WaitGroupDone(w)
    \/ MetricDec(w) \/ ReportEventOutOfQueue(w) \/ EventProcessed(w)

ProcessStep(p) ==
    \/ Fanout(p)
    \/ CallFunction(p)
    \/ p \in Requests /\ HandlerStep(p)
    \/ p \in Workers /\ LoopStep(p)

(* Next is a step of a process or one of the four steps of main.           *)
LEMMA NextCases ==
    ASSUME Next
    PROVE  \/ \E p \in Processes : ProcessStep(p)
           \/ StartWorkers
           \/ CloseDrain
           \/ DrainReturns
           \/ UNCHANGED vars
BY DEF Next, Handler, Loop, ProcessStep, HandlerStep, LoopStep, Processes, Terminated

(* A handler or worker changes no other goroutine's locals.                *)
LEMMA Locality ==
    ASSUME TypeOK, NEW p \in Processes, ProcessStep(p)
    PROVE  OwnStep(p)
<1>1. CASE Fanout(p)
  BY <1>1 DEF Fanout, FanoutDone, Authorized, Unauthorized, AuthorizePanic,
     ReportEventInTheQueue, Send, Drop, MetricInc, Goto, OwnStep, TypeOK, fanout
<1>2. CASE CallFunction(p)
  BY <1>2 DEF CallFunction, EmitInvoking, ReactInvoking, InvokeNothing, Invoke,
     StartFanout, Goto, OwnStep, TypeOK, fanout
<1>3. CASE HandlerStep(p)
  BY <1>3 DEF HandlerStep, ServeHTTP, ReactReceived, SyncSubscription, Respond, Finish,
     Answer, StartFanout, Goto, OwnStep, TypeOK, fanout
<1>4. CASE LoopStep(p)
  BY <1>4 DEF LoopStep, Receive, NoWork, SeeDrain, LeaveLoop, WaitGroupDone, MetricDec,
     ReportEventOutOfQueue, EventProcessed, Goto, OwnStep, TypeOK, fanout
<1>5. QED BY <1>1, <1>2, <1>3, <1>4 DEF ProcessStep

(* Only Send, Receive and Invoke touch the backlog and the deliveries.     *)
LEMMA QueueSteps ==
    ASSUME NEW p \in Processes, ProcessStep(p),
           ~Send(p), ~(p \in Workers /\ Receive(p)), ~Invoke(p)
    PROVE  UNCHANGED <<backlog, deliveries>>
<1>1. CASE Fanout(p)
  BY <1>1 DEF Fanout, FanoutDone, Authorized, Unauthorized, AuthorizePanic,
     ReportEventInTheQueue, Drop, MetricInc, queue
<1>2. CASE CallFunction(p)
  BY <1>2 DEF CallFunction, EmitInvoking, ReactInvoking, InvokeNothing, queue
<1>3. CASE HandlerStep(p)
  BY <1>3 DEF HandlerStep, ServeHTTP, ReactReceived, SyncSubscription, Respond, Finish, queue
<1>4. CASE p \in Workers /\ LoopStep(p)
  BY <1>4 DEF LoopStep, NoWork, SeeDrain, LeaveLoop, WaitGroupDone, MetricDec,
     ReportEventOutOfQueue, EventProcessed, queue
<1>5. QED BY <1>1, <1>2, <1>3, <1>4 DEF ProcessStep

(* enqueueWork appends one delivery, nothing called for it yet.            *)
LEMMA SendEffect ==
    ASSUME IndInv, NEW p \in Processes, Send(p)
    PROVE  /\ Len(deliveries') = Len(deliveries) + 1
           /\ Len(backlog') = Len(backlog) + 1
           /\ Taken' = Taken
           /\ \A n \in 1..Len(deliveries) : deliveries'[n] = deliveries[n]
           /\ \A i \in 1..Len(backlog) : backlog'[i] = backlog[i]
           /\ backlog'[Len(backlog) + 1] = Len(deliveries) + 1
           /\ deliveries'[Len(deliveries) + 1] =
                [event |-> emitted[p], late |-> drain /\ p \in Requests, calls |-> 0]
BY DEF IndInv, TypeOK, Send, Taken

(* loop receives the oldest delivery in the backlog.                       *)
LEMMA ReceiveEffect ==
    ASSUME IndInv, NEW w \in Workers, Receive(w)
    PROVE  /\ deliveries' = deliveries
           /\ Head(backlog) = Taken + 1
           /\ Taken + 1 \in 1..Len(deliveries)
           /\ Len(backlog') = Len(backlog) - 1
           /\ Taken' = Taken + 1
           /\ \A i \in 1..Len(backlog') : backlog'[i] = backlog[i + 1]
           /\ job'[w] = [n |-> Taken + 1, event |-> deliveries[Taken + 1].event]
BY DEF IndInv, TypeOK, Numbering, Receive, Taken, Processes

(* A delivery that is in hand when its function is called is counted once. *)
LEMMA InvokeEffect ==
    ASSUME IndInv, NEW p \in Processes, Invoke(p)
    PROVE  /\ backlog' = backlog
           /\ Len(deliveries') = Len(deliveries)
           /\ Taken' = Taken
           /\ \A n \in 1..Len(deliveries) :
                 /\ deliveries'[n].event = deliveries[n].event
                 /\ deliveries'[n].late = deliveries[n].late
                 /\ deliveries'[n].calls = IF n = job[p].n THEN deliveries[n].calls + 1
                                           ELSE deliveries[n].calls
<1>1. job[p].n # 0 => job[p].n \in 1..Len(deliveries)
  BY DEF IndInv, Jobs, HandlerJob, WorkerJob, Invoke, HoldingPCs, CommonPCs, Processes, TypeOK, Taken
<1>2. CASE job[p].n = 0
  BY <1>2 DEF Invoke, Taken
<1>3. CASE job[p].n # 0
  <2>1. deliveries' = [deliveries EXCEPT ![job[p].n].calls = @ + 1] /\ backlog' = backlog
    BY <1>3 DEF Invoke
  <2>2. QED BY <1>1, <1>3, <2>1, CallCounted DEF IndInv, Taken
<1>4. QED BY <1>2, <1>3

(* In every step of a process the deliveries keep their events and their   *)
(* lateness, and none goes back into the backlog.                          *)
LEMMA QueueGrows ==
    ASSUME IndInv, NEW p \in Processes, ProcessStep(p)
    PROVE  /\ Len(deliveries') >= Len(deliveries)
           /\ Taken' >= Taken
           /\ \A n \in 1..Len(deliveries) :
                 /\ deliveries'[n].event = deliveries[n].event
                 /\ deliveries'[n].late = deliveries[n].late
<1>0. Len(deliveries) \in Nat /\ Len(backlog) \in Nat /\ Taken \in Int
  BY DEF IndInv, TypeOK, Taken
<1>1. CASE Send(p)
  <2>1. /\ Len(deliveries') = Len(deliveries) + 1
        /\ Taken' = Taken
        /\ \A n \in 1..Len(deliveries) : deliveries'[n] = deliveries[n]
    BY <1>1, SendEffect
  <2>2. QED BY <1>0, <2>1
<1>2. CASE p \in Workers /\ Receive(p)
  BY <1>0, <1>2, ReceiveEffect
<1>3. CASE Invoke(p)
  BY <1>0, <1>3, InvokeEffect
<1>4. CASE ~Send(p) /\ ~(p \in Workers /\ Receive(p)) /\ ~Invoke(p)
  BY <1>0, <1>4, QueueSteps DEF Taken
<1>5. QED BY <1>1, <1>2, <1>3, <1>4

-----------------------------------------------------------------------------
(***************************************************************************)
(* Jobs and Emissions.                                                     *)
(***************************************************************************)

(* A worker only fans out events about the call in hand, so it comes back  *)
(* to callFunction.                                                        *)
LEMMA WorkerFanoutReturns ==
    ASSUME TypeOK, Emissions, NEW w \in Workers, pc[w] = "fanout"
    PROVE  AfterFanout(emitted[w]) \in {"reactInvoking", "return"}
<1>1. PICK t \in {"invoking", "invoked", "failed"} : emitted[w] = <<t, Origin(w)>>
  BY ProcessesAssumption DEF Emissions, Emission, FanoutPCs, Processes
<1>2. TypeOf(emitted[w]) = t
  BY <1>1, OriginTyped, SystemEventsTyped DEF SystemTypes, Processes
<1>3. QED BY <1>2 DEF AfterFanout

(* A step of a handler keeps its own event and stays in its code.          *)
LEMMA HandlerJobStep ==
    ASSUME IndInv, NEW r \in Requests, ProcessStep(r)
    PROVE  HandlerJob(r)'
<1> r \in Processes /\ r \notin Workers
  BY ProcessesAssumption DEF Processes
<1> HandlerJob(r) /\ TypeOK
  BY DEF IndInv, Jobs
<1>1. CASE Fanout(r)
  <2>1. CASE FanoutDone(r)
    BY <2>1 DEF FanoutDone, AfterFanout, Goto, HandlerJob, HandlerPCs, CommonPCs, TypeOK
  <2>2. CASE ~FanoutDone(r)
    BY <1>1, <2>2 DEF Fanout, Authorized, Unauthorized, AuthorizePanic,
       ReportEventInTheQueue, Send, Drop, MetricInc, Goto, HandlerJob, HandlerPCs,
       CommonPCs, TypeOK
  <2>3. QED BY <2>1, <2>2
<1>2. CASE CallFunction(r)
  BY <1>2 DEF CallFunction, EmitInvoking, ReactInvoking, InvokeNothing, Invoke,
     StartFanout, Goto, HandlerJob, HandlerPCs, CommonPCs, TypeOK
<1>3. CASE HandlerStep(r)
  <2>1. CASE ServeHTTP(r)
    BY <2>1 DEF ServeHTTP, Answer, StartFanout, Goto, HandlerJob, HandlerPCs, CommonPCs, TypeOK
  <2>2. CASE ~ServeHTTP(r)
    BY <1>3, <2>2 DEF HandlerStep, ReactReceived, SyncSubscription, Respond, Finish,
       Answer, StartFanout, Goto, HandlerJob, HandlerPCs, CommonPCs, TypeOK
  <2>3. QED BY <2>1, <2>2
<1>4. QED BY <1>1, <1>2, <1>3 DEF ProcessStep

(* A step of a worker keeps the delivery it holds, or takes the next one.  *)
LEMMA WorkerJobStep ==
    ASSUME IndInv, NEW w \in Workers, ProcessStep(w)
    PROVE  WorkerJob(w)'
<1> w \in Processes /\ w \notin Requests
  BY ProcessesAssumption DEF Processes
<1>0. WorkerJob(w) /\ TypeOK /\ Emissions /\ Taken \in Nat /\ Taken <= Len(deliveries)
  BY DEF IndInv, Jobs, Numbering, TypeOK, Taken
<1>1. ASSUME pc[w] \in HoldingPCs, job'[w] = job[w]
      PROVE  /\ job'[w].n \in 1..Taken'
             /\ job'[w].event = deliveries'[job'[w].n].event
  <2>1. job[w].n \in 1..Taken /\ job[w].event = deliveries[job[w].n].event
    BY <1>0, <1>1 DEF WorkerJob
  <2>2. Taken' \in Int
    BY DEF Taken
  <2>3. QED BY <1>0, <1>1, <2>1, <2>2, QueueGrows
<1>2. CASE Fanout(w)
  <2>1. pc[w] \in HoldingPCs /\ job'[w] = job[w]
    BY <1>2 DEF Fanout, FanoutDone, Authorized, Unauthorized, AuthorizePanic,
       ReportEventInTheQueue, Send, Drop, MetricInc, HoldingPCs, CommonPCs
  <2>2. CASE FanoutDone(w)
    <3>1. pc'[w] \in {"reactInvoking", "return"}
      BY <1>0, <2>2, WorkerFanoutReturns DEF FanoutDone, Goto, TypeOK
    <3>2. QED BY <1>1, <2>1, <3>1 DEF WorkerJob, CommonPCs
  <2>3. CASE ~FanoutDone(w)
    <3>1. pc'[w] \in CommonPCs
      BY <1>0, <1>2, <2>3 DEF Fanout, Authorized, Unauthorized, AuthorizePanic,
         ReportEventInTheQueue, Send, Drop, MetricInc, Goto, CommonPCs, TypeOK
    <3>2. QED BY <1>1, <2>1, <3>1 DEF WorkerJob
  <2>4. QED BY <2>2, <2>3
<1>3. CASE CallFunction(w)
  <2>1. pc[w] \in HoldingPCs /\ job'[w] = job[w] /\ pc'[w] \in CommonPCs
    BY <1>0, <1>3 DEF CallFunction, EmitInvoking, ReactInvoking, InvokeNothing, Invoke,
       StartFanout, Goto, HoldingPCs, CommonPCs, TypeOK
  <2>2. QED BY <1>1, <2>1 DEF WorkerJob
<1>4. CASE LoopStep(w)
  <2>1. CASE Receive(w)
    <3>1. pc'[w] = "dec"
      BY <1>0, <2>1 DEF Receive, Goto, TypeOK
    <3>2. /\ job'[w].n = Taken + 1
          /\ Taken' = Taken + 1
          /\ job'[w].event = deliveries'[Taken + 1].event
      BY <2>1, ReceiveEffect
    <3>3. QED BY <1>0, <3>1, <3>2 DEF WorkerJob, WorkerPCs
  <2>2. CASE MetricDec(w) \/ ReportEventOutOfQueue(w)
    <3>1. pc[w] \in HoldingPCs /\ job'[w] = job[w] /\ pc'[w] \in {"out", "call"}
      BY <1>0, <2>2 DEF MetricDec, ReportEventOutOfQueue, Goto, HoldingPCs, TypeOK
    <3>2. QED BY <1>1, <3>1 DEF WorkerJob, WorkerPCs, CommonPCs
  <2>3. CASE ~Receive(w) /\ ~MetricDec(w) /\ ~ReportEventOutOfQueue(w)
    <3>1. pc'[w] \in {"wait", "recheck", "exiting", "exited", "poll"}
      BY <1>0, <1>4, <2>3 DEF LoopStep, NoWork, SeeDrain, LeaveLoop, WaitGroupDone,
         EventProcessed, Goto, TypeOK
    <3>2. QED BY <3>1 DEF WorkerJob, WorkerPCs, HoldingPCs, CommonPCs
  <2>4. QED BY <2>1, <2>2, <2>3
<1>5. QED BY <1>2, <1>3, <1>4 DEF ProcessStep

(* Handlers and workers keep what they hold, whoever takes the step.       *)
LEMMA JobsStep ==
    ASSUME IndInv, Next
    PROVE  Jobs'
<1>0. TypeOK /\ Jobs /\ Taken \in Nat /\ Taken <= Len(deliveries)
  BY DEF IndInv, Numbering, TypeOK, Taken
<1>1. ASSUME NEW p \in Processes, ProcessStep(p)
      PROVE  Jobs'
  <2>1. ASSUME NEW r \in Requests PROVE HandlerJob(r)'
    <3>1. CASE r = p
      BY <1>1, <3>1, HandlerJobStep
    <3>2. CASE r # p
      <4>1. pc'[r] = pc[r] /\ job'[r] = job[r]
        BY <1>0, <1>1, <3>2, Locality DEF OwnStep, Processes
      <4>2. QED BY <1>0, <4>1 DEF Jobs, HandlerJob
    <3>3. QED BY <3>1, <3>2
  <2>2. ASSUME NEW w \in Workers PROVE WorkerJob(w)'
    <3>1. CASE w = p
      BY <1>1, <3>1, WorkerJobStep
    <3>2. CASE w # p
      <4>1. pc'[w] = pc[w] /\ job'[w] = job[w]
        BY <1>0, <1>1, <3>2, Locality DEF OwnStep, Processes
      <4>2. Taken' \in Int /\ Taken' >= Taken
            /\ \A n \in 1..Len(deliveries) : deliveries'[n].event = deliveries[n].event
        BY <1>1, QueueGrows DEF Taken
      <4>3. QED BY <1>0, <4>1, <4>2 DEF Jobs, WorkerJob
    <3>3. QED BY <3>1, <3>2
  <2>3. QED BY <2>1, <2>2 DEF Jobs
<1>2. CASE StartWorkers
  <2>1. \A r \in Requests : pc'[r] = pc[r]
    BY <1>2, ProcessesAssumption DEF StartWorkers, Processes
  <2>2. \A w \in Workers : pc'[w] = "poll"
    BY <1>2 DEF StartWorkers, Processes
  <2>3. UNCHANGED job
    BY <1>2 DEF StartWorkers
  <2>4. QED
    BY <1>0, <2>1, <2>2, <2>3 DEF Jobs, HandlerJob, WorkerJob, WorkerPCs, HoldingPCs, CommonPCs
<1>3. CASE UNCHANGED <<pc, job, deliveries, backlog>>
  BY <1>0, <1>3 DEF Jobs, HandlerJob, WorkerJob, Taken
<1>4. QED
  BY <1>1, <1>2, <1>3, NextCases DEF CloseDrain, DrainReturns, vars, queue

(* The event a process fans out is of its own call.                        *)
LEMMA EmissionStep ==
    ASSUME IndInv, NEW p \in Processes, ProcessStep(p)
    PROVE  Emission(p)'
<1>0. TypeOK /\ Emission(p) /\ Jobs
  BY DEF IndInv, Emissions
<1>1. CASE Fanout(p)
  <2>1. CASE FanoutDone(p)
    <3>1. pc'[p] \notin FanoutPCs
      BY <1>0, <2>1 DEF FanoutDone, AfterFanout, Goto, FanoutPCs, TypeOK
    <3>2. QED BY <3>1 DEF Emission
  <2>2. CASE ~FanoutDone(p)
    <3>1. pc[p] \in FanoutPCs /\ emitted'[p] = emitted[p] /\ job' = job
      BY <1>1, <2>2 DEF Fanout, Authorized, Unauthorized, AuthorizePanic,
         ReportEventInTheQueue, Send, Drop, MetricInc, FanoutPCs, fanout
    <3>2. pc'[p] \in FanoutPCs /\ pc'[p] # "fanout" => subs'[p] # <<>>
      BY <1>0, <1>1, <2>2 DEF Fanout, Authorized, Unauthorized, AuthorizePanic,
         ReportEventInTheQueue, Send, Drop, MetricInc, Goto, FanoutPCs, fanout, TypeOK, Emission
    <3>3. QED BY <1>0, <3>1, <3>2 DEF Emission, Origin
  <2>3. QED BY <2>1, <2>2
<1>2. CASE CallFunction(p)
  <2>1. job' = job
    BY <1>2 DEF CallFunction, EmitInvoking, ReactInvoking, InvokeNothing, Invoke
  <2>2. \/ pc'[p] \notin FanoutPCs
        \/ /\ pc'[p] = "fanout"
           /\ ~IsSystem(job[p].event)
           /\ \E t \in {"invoking", "invoked", "failed"} : emitted'[p] = <<t, Origin(p)>>
    <3>1. CASE EmitInvoking(p)
      BY <1>0, <3>1 DEF EmitInvoking, StartFanout, Goto, FanoutPCs, TypeOK
    <3>2. CASE ReactInvoking(p) \/ InvokeNothing(p)
      BY <1>0, <3>2 DEF ReactInvoking, InvokeNothing, Goto, FanoutPCs, TypeOK
    <3>3. CASE Invoke(p)
      BY <1>0, <3>3 DEF Invoke, StartFanout, Goto, FanoutPCs, TypeOK
    <3>4. QED BY <1>2, <3>1, <3>2, <3>3 DEF CallFunction
  <2>3. QED BY <2>1, <2>2 DEF Emission, Origin
<1>3. CASE p \in Requests /\ HandlerStep(p)
  <2>1. \/ pc'[p] \notin FanoutPCs
        \/ pc'[p] = "fanout" /\ emitted'[p] \in EventIDs \cup {<<"received", p>>}
    <3>1. CASE ServeHTTP(p)
      BY <1>0, <3>1 DEF ServeHTTP, Answer, StartFanout, Goto, FanoutPCs, TypeOK
    <3>2. CASE ReactReceived(p) \/ Finish(p)
      BY <1>0, <3>2 DEF ReactReceived, Finish, Answer, Goto, FanoutPCs, TypeOK
    <3>3. CASE SyncSubscription(p) \/ Respond(p)
      BY <1>0, <1>3, <3>3
      DEF SyncSubscription, Respond, StartFanout, Goto, FanoutPCs, TypeOK, Jobs, HandlerJob
    <3>4. QED BY <1>3, <3>1, <3>2, <3>3 DEF HandlerStep
  <2>2. QED BY <1>3, <2>1 DEF Emission
<1>4. CASE LoopStep(p)
  <2>1. pc'[p] \notin FanoutPCs
    BY <1>0, <1>4 DEF LoopStep, Receive, NoWork, SeeDrain, LeaveLoop, WaitGroupDone,
       MetricDec, ReportEventOutOfQueue, EventProcessed, Goto, FanoutPCs, TypeOK
  <2>2. QED BY <2>1 DEF Emission
<1>5. QED BY <1>1, <1>2, <1>3, <1>4 DEF ProcessStep

(* Every step keeps Emissions.                                             *)
LEMMA EmissionsStep ==
    ASSUME IndInv, Next
    PROVE  Emissions'
<1>0. TypeOK /\ Emissions
  BY DEF IndInv
<1>1. ASSUME NEW p \in Processes, ProcessStep(p), NEW q \in Processes
      PROVE  Emission(q)'
  <2>1. CASE q = p
    BY <1>1, <2>1, EmissionStep
  <2>2. CASE q # p
    <3>1. /\ pc'[q] = pc[q] /\ job'[q] = job[q]
          /\ emitted'[q] = emitted[q] /\ subs'[q] = subs[q]
      BY <1>0, <1>1, <2>2, Locality DEF OwnStep
    <3>2. QED BY <1>0, <3>1 DEF Emissions, Emission, Origin
  <2>3. QED BY <2>1, <2>2
<1>2. CASE StartWorkers
  <2>1. \A p \in Processes : pc'[p] \in {"poll", pc[p]}
    BY <1>2 DEF StartWorkers
  <2>2. QED BY <1>0, <1>2, <2>1 DEF StartWorkers, Emissions, Emission, FanoutPCs, Origin, fanout
<1>3. CASE UNCHANGED <<pc, job, emitted, subs>>
  BY <1>0, <1>3 DEF Emissions, Emission, Origin
<1>4. QED
  BY <1>1, <1>2, <1>3, NextCases DEF Emissions, CloseDrain, DrainReturns, vars, fanout

-----------------------------------------------------------------------------
(***************************************************************************)
(* The numbering of deliveries and the calls made for them.                *)
(***************************************************************************)
LEMMA NumberingStep ==
    ASSUME IndInv, Next
    PROVE  Numbering'
<1>0. /\ TypeOK /\ Jobs /\ Numbering
      /\ Len(backlog) \in Nat /\ Len(deliveries) \in Nat /\ Taken \in Nat
      /\ DOMAIN backlog = 1..Len(backlog)
  BY DEF IndInv, Numbering, TypeOK
<1>1. ASSUME NEW p \in Processes, ProcessStep(p)
      PROVE  Taken' \in Nat /\ \A i \in DOMAIN backlog' : backlog'[i] = Taken' + i
  <2>1. CASE Send(p)
    <3>1. DOMAIN backlog' = 1..(Len(backlog) + 1)
      BY <1>0, <2>1 DEF Send, TypeOK
    <3>2. Len(deliveries) = Taken + Len(backlog)
      BY <1>0 DEF Taken
    <3>3. /\ Taken' = Taken
          /\ \A i \in 1..Len(backlog) : backlog'[i] = backlog[i]
          /\ backlog'[Len(backlog) + 1] = Len(deliveries) + 1
      BY <2>1, SendEffect
    <3>4. QED BY <1>0, <3>1, <3>2, <3>3 DEF Numbering
  <2>2. CASE p \in Workers /\ Receive(p)
    <3>1. DOMAIN backlog' = 1..Len(backlog')
      BY <1>0, <2>2 DEF Receive, TypeOK
    <3>2. /\ Taken' = Taken + 1
          /\ Len(backlog') = Len(backlog) - 1
          /\ \A i \in 1..Len(backlog') : backlog'[i] = backlog[i + 1]
      BY <2>2, ReceiveEffect
    <3>3. ASSUME NEW i \in 1..Len(backlog')
          PROVE  backlog'[i] = Taken + (i + 1)
      <4>1. i + 1 \in DOMAIN backlog
        BY <1>0, <3>2
      <4>2. QED BY <1>0, <3>2, <4>1 DEF Numbering
    <3>4. QED BY <1>0, <3>1, <3>2, <3>3
  <2>3. CASE Invoke(p)
    BY <1>0, <2>3, InvokeEffect DEF Numbering
  <2>4. CASE ~Send(p) /\ ~(p \in Workers /\ Receive(p)) /\ ~Invoke(p)
    BY <1>0, <1>1, <2>4, QueueSteps DEF Numbering, Taken
  <2>5. QED BY <2>1, <2>2, <2>3, <2>4
<1>2. ASSUME NEW p \in Processes, ProcessStep(p), NEW v \in Workers, NEW w \in Workers,
             v # w, pc'[v] \in HoldingPCs, pc'[w] \in HoldingPCs
      PROVE  job'[v].n # job'[w].n
  <2>0. ASSUME NEW u \in Workers, u # p
        PROVE  pc'[u] = pc[u] /\ job'[u] = job[u]
    BY <1>0, <1>2, <2>0, Locality DEF OwnStep, Processes
  <2>1. ASSUME NEW u \in Workers, u = p, pc'[u] \in HoldingPCs
        PROVE  \/ pc[u] \in HoldingPCs /\ job'[u] = job[u]
               \/ job'[u].n = Taken + 1
    <3>1. u \notin Requests
      BY ProcessesAssumption
    <3>2. CASE Fanout(u)
      BY <3>2 DEF Fanout, FanoutDone, Authorized, Unauthorized, AuthorizePanic,
         ReportEventInTheQueue, Send, Drop, MetricInc, HoldingPCs, CommonPCs
    <3>3. CASE CallFunction(u)
      BY <3>3 DEF CallFunction, EmitInvoking, ReactInvoking, InvokeNothing, Invoke,
         HoldingPCs, CommonPCs
    <3>4. CASE Receive(u)
      BY <3>4, ReceiveEffect
    <3>5. CASE LoopStep(u) /\ ~Receive(u)
      BY <1>0, <2>1, <3>5 DEF LoopStep, NoWork, SeeDrain, LeaveLoop, WaitGroupDone,
         MetricDec, ReportEventOutOfQueue, EventProcessed, Goto, HoldingPCs, CommonPCs, TypeOK
    <3>6. QED BY <1>2, <2>1, <3>1, <3>2, <3>3, <3>4, <3>5 DEF ProcessStep
  <2>2. ASSUME NEW u \in Workers, pc[u] \in HoldingPCs
        PROVE  job[u].n \in 1..Taken
    BY <1>0, <2>2 DEF Jobs, WorkerJob
  <2>3. QED BY <1>0, <1>2, <2>0, <2>1, <2>2 DEF Numbering
<1>3. CASE StartWorkers
  <2>1. \A w \in Workers : pc'[w] = "poll"
    BY <1>3 DEF StartWorkers, Processes
  <2>2. QED BY <1>0, <1>3, <2>1 DEF StartWorkers, Numbering, Taken, queue, HoldingPCs, CommonPCs
<1>4. CASE UNCHANGED <<pc, job, deliveries, backlog>>
  BY <1>0, <1>4 DEF Numbering, Taken
<1>5. QED
  BY <1>1, <1>2, <1>3, <1>4, NextCases DEF Numbering, CloseDrain, DrainReturns, vars, queue

(* A worker that still has to call its function was so before the step, or *)
(* has just received the delivery.                                         *)
LEMMA WaitingStep ==
    ASSUME IndInv, NEW w \in Workers, ProcessStep(w), Waiting(w)'
    PROVE  \/ Waiting(w) /\ job'[w] = job[w] /\ ~Invoke(w)
           \/ Receive(w)
<1>0. TypeOK /\ Emission(w) /\ w \in Processes /\ w \notin Requests
  BY ProcessesAssumption DEF IndInv, Emissions, Processes
<1>1. CASE Fanout(w)
  <2>1. pc[w] \in FanoutPCs /\ job' = job /\ ~Invoke(w)
    BY <1>1 DEF Fanout, FanoutDone, Authorized, Unauthorized, AuthorizePanic,
       ReportEventInTheQueue, Send, Drop, MetricInc, FanoutPCs, Invoke
  <2>2. CASE FanoutDone(w)
    <3>1. PICK t \in {"invoking", "invoked", "failed"} : emitted[w] = <<t, Origin(w)>>
      BY <1>0, <2>1 DEF Emission
    <3>2. TypeOf(emitted[w]) = t
      BY <1>0, <3>1, OriginTyped, SystemEventsTyped DEF SystemTypes
    <3>3. pc'[w] = AfterFanout(emitted[w])
      BY <1>0, <2>2 DEF FanoutDone, Goto, TypeOK
    <3>4. t = "invoking"
      BY <3>2, <3>3 DEF Waiting, AfterFanout, FanoutPCs
    <3>5. QED BY <2>1, <3>2, <3>4 DEF Waiting
  <2>3. CASE ~FanoutDone(w)
    <3>1. emitted' = emitted /\ pc'[w] \in FanoutPCs
      BY <1>0, <1>1, <2>3 DEF Fanout, Authorized, Unauthorized, AuthorizePanic,
         ReportEventInTheQueue, Send, Drop, MetricInc, Goto, FanoutPCs, fanout, TypeOK
    <3>2. QED BY <2>1, <3>1 DEF Waiting, FanoutPCs, TypeOf, IsSystem
  <2>4. QED BY <2>2, <2>3
<1>2. CASE CallFunction(w)
  <2>1. CASE Invoke(w)
    <3>1. \/ pc'[w] = "return"
          \/ pc'[w] = "fanout" /\ \E t \in {"invoked", "failed"} : emitted'[w] = <<t, Origin(w)>>
      BY <1>0, <2>1 DEF Invoke, StartFanout, Goto, TypeOK
    <3>2. pc'[w] = "fanout" => TypeOf(emitted'[w]) \in {"invoked", "failed"}
      BY <1>0, <3>1, OriginTyped, SystemEventsTyped DEF SystemTypes
    <3>3. TypeOf(emitted[w])' = TypeOf(emitted'[w])
      BY DEF TypeOf, IsSystem
    <3>4. QED BY <3>1, <3>2, <3>3 DEF Waiting, FanoutPCs
  <2>2. CASE InvokeNothing(w)
    <3>1. pc'[w] = "return"
      BY <1>0, <2>2 DEF InvokeNothing, Goto, TypeOK
    <3>2. QED BY <3>1 DEF Waiting, FanoutPCs
  <2>3. CASE EmitInvoking(w) \/ ReactInvoking(w)
    BY <2>3 DEF EmitInvoking, ReactInvoking, Waiting, Invoke
  <2>4. QED BY <1>2, <2>1, <2>2, <2>3 DEF CallFunction
<1>3. CASE LoopStep(w) /\ ~Receive(w)
  BY <1>0, <1>3 DEF LoopStep, NoWork, SeeDrain, LeaveLoop, WaitGroupDone, MetricDec,
     ReportEventOutOfQueue, EventProcessed, Goto, Waiting, FanoutPCs, TypeOK, Invoke
<1>4. QED BY <1>0, <1>1, <1>2, <1>3 DEF ProcessStep

(* A worker that waits for its call holds a delivery.                      *)
LEMMA WaitingHolds ==
    ASSUME NEW w \in Workers, Waiting(w)
    PROVE  pc[w] \in HoldingPCs
BY DEF Waiting, HoldingPCs, FanoutPCs, CommonPCs

(* No call precedes the worker's own, and there is only one.               *)
LEMMA CallsStep ==
    ASSUME IndInv, Next
    PROVE  Uncalled' /\ AtMostOnce'
<1>0. /\ TypeOK /\ Jobs /\ Numbering /\ Uncalled /\ AtMostOnce
      /\ DOMAIN deliveries = 1..Len(deliveries)
      /\ Len(deliveries) \in Nat /\ Taken \in Nat /\ Taken <= Len(deliveries)
  BY DEF IndInv, Numbering, TypeOK, Taken
<1>1. ASSUME NEW p \in Processes, ProcessStep(p)
      PROVE  Uncalled' /\ AtMostOnce'
  <2>0. ASSUME NEW w \in Workers, Waiting(w)'
        PROVE  \/ Waiting(w) /\ job'[w] = job[w] /\ (w = p => ~Invoke(p))
               \/ w = p /\ Receive(p)
    <3>1. CASE w = p
      BY <1>1, <2>0, <3>1, WaitingStep
    <3>2. CASE w # p
      <4>1. pc'[w] = pc[w] /\ job'[w] = job[w] /\ emitted'[w] = emitted[w]
        BY <1>0, <1>1, <3>2, Locality DEF OwnStep, Processes
      <4>2. QED BY <2>0, <3>2, <4>1 DEF Waiting, TypeOf, IsSystem
    <3>3. QED BY <3>1, <3>2
  <2>1. ASSUME NEW w \in Workers, Waiting(w)
        PROVE  /\ job[w].n \in 1..Taken
               /\ job[w].n \in 1..Len(deliveries)
               /\ deliveries[job[w].n].calls = 0
    <3>1. pc[w] \in HoldingPCs BY <2>1, WaitingHolds
    <3>2. QED BY <1>0, <2>1, <3>1 DEF Jobs, WorkerJob, Uncalled
  <2>2. DOMAIN deliveries' = 1..Len(deliveries')
    BY TypeOKStep DEF TypeOK
  <2>3. CASE Send(p)
    <3>1. /\ Len(deliveries') = Len(deliveries) + 1 /\ Taken' = Taken
          /\ \A n \in 1..Len(deliveries) : deliveries'[n] = deliveries[n]
          /\ deliveries'[Len(deliveries) + 1].calls = 0
      <4>1. deliveries'[Len(deliveries) + 1] =
               [event |-> emitted[p], late |-> drain /\ p \in Requests, calls |-> 0]
        BY <2>3, SendEffect
      <4>2. deliveries'[Len(deliveries) + 1].calls = 0
        BY <4>1
      <4>3. QED BY <2>3, <4>2, SendEffect
    <3>2. \A n \in DOMAIN deliveries' :
             n \in 1..Len(deliveries) \/ n = Len(deliveries) + 1
      BY <1>0, <2>2, <3>1
    <3>3. AtMostOnce'
      BY <1>0, <3>1, <3>2 DEF AtMostOnce
    <3>4. \A n \in DOMAIN deliveries' : n > Taken' => deliveries'[n].calls = 0
      BY <1>0, <3>1, <3>2 DEF Uncalled
    <3>5. \A w \in Workers : Waiting(w)' => deliveries'[job'[w].n].calls = 0
      BY <2>0, <2>1, <2>3, <3>1 DEF Send, Receive
    <3>6. QED BY <3>3, <3>4, <3>5 DEF Uncalled
  <2>4. CASE p \in Workers /\ Receive(p)
    <3>1. /\ deliveries' = deliveries /\ Taken' = Taken + 1
          /\ Taken + 1 \in 1..Len(deliveries)
          /\ job'[p].n = Taken + 1
      BY <2>4, ReceiveEffect
    <3>2. \A w \in Workers : Waiting(w)' => deliveries'[job'[w].n].calls = 0
      BY <1>0, <2>0, <2>1, <3>1 DEF Uncalled
    <3>3. \A n \in DOMAIN deliveries' : n > Taken' => deliveries'[n].calls = 0
      BY <1>0, <3>1 DEF Uncalled
    <3>4. QED BY <1>0, <3>1, <3>2, <3>3 DEF Uncalled, AtMostOnce
  <2>5. CASE Invoke(p)
    <3>1. /\ Len(deliveries') = Len(deliveries) /\ Taken' = Taken
          /\ \A n \in 1..Len(deliveries) :
                deliveries'[n].calls = IF n = job[p].n THEN deliveries[n].calls + 1
                                       ELSE deliveries[n].calls
      BY <2>5, InvokeEffect
    <3>2. pc[p] = "invoke"
      BY <2>5 DEF Invoke
    <3>3. p \in Requests => job[p].n = 0
      BY <1>0 DEF Jobs, HandlerJob
    <3>4. p \in Workers => Waiting(p) /\ pc[p] \in HoldingPCs
      BY <3>2 DEF Waiting, HoldingPCs, CommonPCs
    <3>5. p \in Workers => job[p].n \in 1..Taken /\ deliveries[job[p].n].calls = 0
      BY <2>1, <3>4
    <3>6. AtMostOnce'
      BY <1>0, <2>2, <3>1, <3>3, <3>5 DEF AtMostOnce, Processes
    <3>7. \A n \in DOMAIN deliveries' : n > Taken' => deliveries'[n].calls = 0
      BY <1>0, <2>2, <3>1, <3>3, <3>5 DEF Uncalled, Processes
    <3>8. ASSUME NEW w \in Workers, Waiting(w)'
          PROVE  deliveries'[job'[w].n].calls = 0
      <4>1. Waiting(w) /\ job'[w] = job[w] /\ w # p
        BY <2>0, <2>5, <3>2, <3>8 DEF Receive
      <4>2. job[w].n # job[p].n
        <5>1. pc[w] \in HoldingPCs BY <4>1, WaitingHolds
        <5>2. CASE p \in Workers
          BY <1>0, <3>4, <4>1, <5>1, <5>2 DEF Numbering
        <5>3. CASE p \in Requests
          BY <1>0, <2>1, <3>3, <4>1, <5>3
        <5>4. QED BY <5>2, <5>3 DEF Processes
      <4>3. QED BY <2>1, <3>1, <4>1, <4>2
    <3>9. QED BY <3>6, <3>7, <3>8 DEF Uncalled
  <2>6. CASE ~Send(p) /\ ~(p \in Workers /\ Receive(p)) /\ ~Invoke(p)
    <3>1. deliveries' = deliveries /\ Taken' = Taken
      BY <1>1, <2>6, QueueSteps DEF Taken
    <3>2. \A w \in Workers : Waiting(w)' => deliveries'[job'[w].n].calls = 0
      BY <2>0, <2>1, <2>6, <3>1
    <3>3. QED BY <1>0, <3>1, <3>2 DEF Uncalled, AtMostOnce
  <2>7. QED BY <2>3, <2>4, <2>5, <2>6
<1>2. CASE StartWorkers
  <2>1. \A w \in Workers : pc'[w] = "poll"
    BY <1>2 DEF StartWorkers, Processes
  <2>2. \A w \in Workers : ~Waiting(w)'
    BY <2>1 DEF Waiting, FanoutPCs
  <2>3. QED BY <1>0, <1>2, <2>2 DEF StartWorkers, queue, Uncalled, AtMostOnce, Taken
<1>3. CASE UNCHANGED <<pc, job, emitted, deliveries, backlog>>
  <2>1. \A w \in Workers : Waiting(w)' <=> Waiting(w)
    BY <1>3 DEF Waiting, TypeOf, IsSystem
  <2>2. QED BY <1>0, <1>3, <2>1 DEF Uncalled, AtMostOnce, Taken
<1>4. QED
  BY <1>1, <1>2, <1>3, NextCases DEF CloseDrain, DrainReturns, vars, queue, fanout

-----------------------------------------------------------------------------
(***************************************************************************)
(* The worker pool and the drain.                                          *)
(***************************************************************************)

(* The flags of the router change in StartWorkers, CloseDrain and          *)
(* DrainReturns only, the wait group also in WaitGroupDone.                *)
LEMMA FlagsKept ==
    ASSUME NEW p \in Processes, ProcessStep(p)
    PROVE  /\ UNCHANGED <<active, drain, drainer>>
           /\ ~(p \in Workers /\ WaitGroupDone(p)) => UNCHANGED drainWaitGroup
<1>1. CASE Fanout(p)
  BY <1>1 DEF Fanout, FanoutDone, Authorized, Unauthorized, AuthorizePanic,
     ReportEventInTheQueue, Send, Drop, MetricInc, shared
<1>2. CASE CallFunction(p)
  BY <1>2 DEF CallFunction, EmitInvoking, ReactInvoking, InvokeNothing, Invoke, shared
<1>3. CASE HandlerStep(p)
  BY <1>3 DEF HandlerStep, ServeHTTP, ReactReceived, SyncSubscription, Respond, Finish, shared
<1>4. CASE p \in Workers /\ LoopStep(p)
  BY <1>4 DEF LoopStep, Receive, NoWork, SeeDrain, LeaveLoop, WaitGroupDone, MetricDec,
     ReportEventOutOfQueue, EventProcessed, shared
<1>5. QED BY <1>1, <1>2, <1>3, <1>4 DEF ProcessStep

(* A worker's step: it is started, it leaves its loop only by LeaveLoop    *)
(* and it is gone for good only by WaitGroupDone.                          *)
LEMMA WorkerLife ==
    ASSUME IndInv, NEW w \in Workers, ProcessStep(w)
    PROVE  /\ pc[w] \notin {"off", "exited"}
           /\ pc'[w] # "off"
           /\ pc'[w] = "recheck" => drain
           /\ pc'[w] = "exiting" => LeaveLoop(w)
           /\ pc'[w] = "exited" => WaitGroupDone(w)
<1>0. TypeOK /\ Emissions /\ w \in Processes /\ w \notin Requests
  BY ProcessesAssumption DEF IndInv, Processes
<1>1. CASE Fanout(w)
  <2>1. pc[w] \in FanoutPCs
    BY <1>1 DEF Fanout, FanoutDone, Authorized, Unauthorized, AuthorizePanic,
       ReportEventInTheQueue, Send, Drop, MetricInc, FanoutPCs
  <2>2. CASE FanoutDone(w)
    <3>1. pc'[w] \in {"reactInvoking", "return"}
      BY <1>0, <2>2, WorkerFanoutReturns DEF FanoutDone, Goto, TypeOK
    <3>2. QED BY <2>1, <3>1 DEF FanoutPCs
  <2>3. CASE ~FanoutDone(w)
    <3>1. pc'[w] \in FanoutPCs
      BY <1>0, <1>1, <2>3 DEF Fanout, Authorized, Unauthorized, AuthorizePanic,
         ReportEventInTheQueue, Send, Drop, MetricInc, Goto, FanoutPCs, TypeOK
    <3>2. QED BY <2>1, <3>1 DEF FanoutPCs
  <2>4. QED BY <2>2, <2>3
<1>2. CASE CallFunction(w)
  BY <1>0, <1>2 DEF CallFunction, EmitInvoking, ReactInvoking, InvokeNothing, Invoke,
     StartFanout, Goto, TypeOK
<1>3. CASE LoopStep(w)
  BY <1>0, <1>3 DEF LoopStep, Receive, NoWork, SeeDrain, LeaveLoop, WaitGroupDone,
     MetricDec, ReportEventOutOfQueue, EventProcessed, Goto, TypeOK
<1>4. QED BY <1>0, <1>1, <1>2, <1>3 DEF ProcessStep

(* No handler runs before the workers are started.                         *)
LEMMA HandlersWait ==
    ASSUME IndInv, NEW r \in Requests, ProcessStep(r)
    PROVE  active \/ drain
<1>1. CASE ServeHTTP(r)
  BY <1>1 DEF ServeHTTP
<1>2. CASE ~ServeHTTP(r)
  <2>1. pc[r] # "idle"
    BY <1>2, ProcessesAssumption DEF ProcessStep, HandlerStep, ReactReceived,
       SyncSubscription, Respond, Finish, Fanout, FanoutDone, Authorized, Unauthorized,
       AuthorizePanic, ReportEventInTheQueue, Send, Drop, MetricInc, CallFunction,
       EmitInvoking, ReactInvoking, InvokeNothing, Invoke
  <2>2. QED BY <2>1 DEF IndInv, Lifecycle, TypeOK
<1>3. QED BY <1>1, <1>2

(* The life of the worker pool follows StartWorkers, loop and Drain.       *)
LEMMA LifecycleStep ==
    ASSUME IndInv, Next
    PROVE  Lifecycle'
<1>0. TypeOK /\ Lifecycle
  BY DEF IndInv
<1>1. ASSUME NEW p \in Processes, ProcessStep(p)
      PROVE  Lifecycle'
  <2>1. UNCHANGED <<active, drain, drainer>>
    BY <1>1, FlagsKept
  <2>2. \A w \in Workers : w # p => pc'[w] = pc[w]
    BY <1>0, <1>1, Locality DEF OwnStep, Processes
  <2>3. p \in Workers => /\ pc[p] \notin {"off", "exited"}
                         /\ pc'[p] # "off"
                         /\ pc'[p] = "recheck" => drain
                         /\ pc'[p] = "exiting" => LeaveLoop(p)
                         /\ pc'[p] = "exited" => WaitGroupDone(p)
    BY <1>1, WorkerLife
  <2>4. ASSUME ~active', ~drain', NEW r \in Requests PROVE pc'[r] = "idle"
    <3>1. r # p
      BY <1>1, <2>1, <2>4, HandlersWait
    <3>2. QED BY <1>0, <1>1, <2>1, <2>4, <3>1, Locality DEF OwnStep, Processes, Lifecycle
  <2>9. ASSUME ~active', ~drain', NEW w \in Workers PROVE pc'[w] = "off"
    BY <1>0, <2>1, <2>2, <2>3, <2>9 DEF Lifecycle
  <2>5. ASSUME ~drain', NEW w \in Workers PROVE pc'[w] \notin {"recheck"} \cup Gone
    <3>1. w = p => ~LeaveLoop(p) /\ ~WaitGroupDone(p)
      BY <1>0, <2>1, <2>5 DEF LeaveLoop, WaitGroupDone, Lifecycle, Gone
    <3>2. QED BY <1>0, <2>1, <2>2, <2>3, <2>5, <3>1 DEF Lifecycle, Gone
  <2>6. ASSUME NEW w \in Workers PROVE w \in drainWaitGroup' <=> pc'[w] \notin {"off", "exited"}
    <3>1. CASE p \in Workers /\ WaitGroupDone(p)
      <4>1. drainWaitGroup' = drainWaitGroup \ {p} /\ pc'[p] = "exited"
        BY <1>0, <3>1 DEF WaitGroupDone, Goto, TypeOK
      <4>2. QED BY <1>0, <2>2, <4>1 DEF Lifecycle
    <3>2. CASE ~(p \in Workers /\ WaitGroupDone(p))
      BY <1>0, <1>1, <2>2, <2>3, <3>2, FlagsKept DEF Lifecycle
    <3>3. QED BY <3>1, <3>2
  <2>7. drainer' = "returned" => drainWaitGroup' = {}
    <3>1. drainWaitGroup' = drainWaitGroup \/ drainWaitGroup' = drainWaitGroup \ {p}
      BY <1>1, FlagsKept DEF WaitGroupDone
    <3>2. QED BY <1>0, <2>1, <3>1 DEF Lifecycle
  <2>8. QED BY <1>0, <2>1, <2>2, <2>3, <2>4, <2>5, <2>6, <2>7, <2>9 DEF Lifecycle
<1>2. CASE StartWorkers
  <2>1. \A w \in Workers : pc'[w] = "poll"
    BY <1>2 DEF StartWorkers, Processes
  <2>2. QED BY <1>0, <1>2, <2>1 DEF StartWorkers, Lifecycle, Gone, TypeOK
<1>3. CASE CloseDrain
  BY <1>0, <1>3 DEF CloseDrain, Lifecycle
<1>4. CASE DrainReturns
  BY <1>0, <1>4 DEF DrainReturns, Lifecycle
<1>5. CASE UNCHANGED vars
  BY <1>0, <1>5 DEF vars, Lifecycle
<1>6. QED BY <1>1, <1>2, <1>3, <1>4, <1>5, NextCases

(* The check "AGAIN" of loop: a worker that is in its loop stays there     *)
(* while it sends and while the backlog holds work.                        *)
LEMMA LoopAliveStep ==
    ASSUME IndInv, Next
    PROVE  LoopAlive'
<1>0. /\ TypeOK /\ Lifecycle /\ LoopAlive /\ Numbering
      /\ DOMAIN backlog = 1..Len(backlog) /\ Len(backlog) \in Nat
      /\ Len(deliveries) = Taken + Len(backlog) /\ Taken \in Nat
  BY DEF IndInv, Numbering, TypeOK, Taken
<1>1. ASSUME NEW p \in Processes, ProcessStep(p), NEW i \in DOMAIN backlog',
             ~deliveries'[backlog'[i]].late
      PROVE  \E w \in Workers : InLoop(w)'
  <2>1. ASSUME NEW w \in Workers, InLoop(w), ~LeaveLoop(w)
        PROVE  InLoop(w)'
    <3>1. CASE w = p
      BY <1>1, <2>1, <3>1, WorkerLife DEF InLoop, Gone, WaitGroupDone
    <3>2. CASE w # p
      <4>1. pc'[w] = pc[w]
        BY <1>0, <1>1, <3>2, Locality DEF OwnStep, Processes
      <4>2. QED BY <2>1, <4>1 DEF InLoop, Gone
    <3>3. QED BY <3>1, <3>2
  <2>2. CASE Send(p)
    <3>1. \A w \in Workers : ~LeaveLoop(w)
      <4>1. Len(backlog') = Len(backlog) + 1
        BY <2>2, SendEffect
      <4>2. backlog' # backlog
        BY <1>0, <4>1
      <4>3. QED BY <4>2 DEF LeaveLoop, queue
    <3>2. CASE p \in Workers
      <4>1. InLoop(p)
        BY <2>2 DEF Send, InLoop, Gone
      <4>2. QED BY <2>1, <3>1, <3>2, <4>1
    <3>3. CASE p \in Requests /\ ~drain
      <4>1. active
        BY <1>0, <2>2, <3>3 DEF Send, Lifecycle, TypeOK
      <4>2. \A w \in Workers : InLoop(w)
        BY <1>0, <3>3, <4>1 DEF Lifecycle, InLoop, Gone
      <4>3. QED BY <2>1, <3>1, <4>2, ProcessesAssumption
    <3>4. CASE p \in Requests /\ drain
      <4>0. DOMAIN backlog' = 1..(Len(backlog) + 1)
        BY <1>0, <2>2 DEF Send, TypeOK
      <4>1. /\ \A j \in 1..Len(backlog) : backlog'[j] = backlog[j]
            /\ backlog'[Len(backlog) + 1] = Len(deliveries) + 1
            /\ \A n \in 1..Len(deliveries) : deliveries'[n] = deliveries[n]
            /\ deliveries'[Len(deliveries) + 1] =
                 [event |-> emitted[p], late |-> drain /\ p \in Requests, calls |-> 0]
        BY <2>2, SendEffect
      <4>2. deliveries'[Len(deliveries) + 1].late
        <5>1. deliveries'[Len(deliveries) + 1] =
                 [event |-> emitted[p], late |-> TRUE, calls |-> 0]
          BY <3>4, <4>1
        <5>2. QED BY <5>1
      <4>3. i \in DOMAIN backlog
        BY <1>0, <1>1, <4>0, <4>1, <4>2
      <4>4. backlog[i] \in 1..Len(deliveries)
        BY <1>0, <4>3 DEF Numbering
      <4>5. ~deliveries[backlog[i]].late
        BY <1>0, <1>1, <4>1, <4>3, <4>4
      <4>6. PICK w \in Workers : InLoop(w)
        BY <1>0, <4>3, <4>5 DEF LoopAlive
      <4>7. QED BY <2>1, <3>1, <4>6
    <3>5. QED BY <3>2, <3>3, <3>4 DEF Processes
  <2>3. CASE p \in Workers /\ Receive(p)
    <3>1. InLoop(p) /\ ~LeaveLoop(p)
      BY <2>3 DEF Receive, LeaveLoop, InLoop, Gone
    <3>2. QED BY <2>1, <2>3, <3>1
  <2>4. CASE ~Send(p) /\ ~(p \in Workers /\ Receive(p))
    <3>1. backlog' = backlog
      BY <1>1, <2>4, QueueSteps, InvokeEffect
    <3>2. backlog[i] \in 1..Len(deliveries)
      BY <1>0, <1>1, <3>1 DEF Numbering
    <3>3. ~deliveries[backlog[i]].late
      BY <1>1, <3>1, <3>2, QueueGrows
    <3>4. PICK w \in Workers : InLoop(w)
      BY <1>0, <1>1, <3>1, <3>3 DEF LoopAlive
    <3>5. ~LeaveLoop(w)
      BY <1>0, <1>1, <3>1 DEF LeaveLoop
    <3>6. QED BY <2>1, <3>4, <3>5
  <2>5. QED BY <2>2, <2>3, <2>4
<1>2. CASE StartWorkers
  <2>1. \A w \in Workers : pc'[w] = "poll"
    BY <1>2 DEF StartWorkers, Processes
  <2>2. QED BY <2>1, ProcessesAssumption DEF LoopAlive, InLoop, Gone
<1>3. CASE UNCHANGED <<pc, deliveries, backlog>>
  BY <1>0, <1>3 DEF LoopAlive, InLoop
<1>4. QED
  BY <1>1, <1>2, <1>3, NextCases DEF LoopAlive, CloseDrain, DrainReturns, vars, queue

-----------------------------------------------------------------------------
(***************************************************************************)
(* The theorems.                                                           *)
(***************************************************************************)
LEMMA IndInvInit ==
    ASSUME Init
    PROVE  IndInv
<1>1. TypeOK
  <2>1. pc \in [Processes -> HandlerPCs \cup WorkerPCs \cup CommonPCs]
    BY DEF Init, HandlerPCs, WorkerPCs
  <2>2. job \in [Processes -> [n : Nat, event : Events \cup {None}]]
    BY DEF Init, NoJob
  <2>3. backlog \in Seq(Nat) /\ deliveries \in Seq(Delivery)
        /\ subs \in [Processes -> Seq(Subscribers)] /\ Len(backlog) <= BacklogLength
    BY BacklogAssumption DEF Init
  <2>4. status \in [Requests -> Statuses] /\ hasSync \in [Requests -> BOOLEAN]
        /\ result \in [Processes -> {"none", "ok", "error"}]
        /\ emitted \in [Processes -> Events \cup {None}]
    BY DEF Init, Statuses
  <2>5. active \in BOOLEAN /\ drain \in BOOLEAN /\ crashed \in BOOLEAN
    BY Zenon DEF Init
  <2>6. drainer \in {"idle", "waiting", "returned"} /\ metricBacklog \in Int
    BY DEF Init
  <2>7. drainWaitGroup \subseteq Workers /\ receivedEvents \subseteq Events
        /\ lost \subseteq Events
    BY DEF Init
  <2>8. QED BY <2>1, <2>2, <2>3, <2>4, <2>5, <2>6, <2>7 DEF TypeOK
<1>2. Jobs
  BY ProcessesAssumption DEF Init, Jobs, HandlerJob, WorkerJob, NoJob, HandlerPCs,
     WorkerPCs, HoldingPCs, CommonPCs, Processes
<1>3. Emissions
  BY DEF Init, Emissions, Emission, FanoutPCs
<1>4. Numbering
  BY ProcessesAssumption DEF Init, Numbering, Taken, HoldingPCs, CommonPCs, Processes
<1>5. Uncalled /\ AtMostOnce
  <2>1. \A w \in Workers : ~Waiting(w)
    BY ProcessesAssumption DEF Init, Waiting, FanoutPCs, Processes
  <2>2. QED BY <2>1 DEF Init, Uncalled, AtMostOnce
<1>6. Lifecycle /\ LoopAlive
  BY ProcessesAssumption DEF Init, Lifecycle, LoopAlive, Gone, Processes
<1>7. QED BY <1>1, <1>2, <1>3, <1>4, <1>5, <1>6 DEF IndInv

(* IndInv is an invariant of the router: types, code positions, numbering, *)
(* calls and the life of the worker pool, in every reachable state.        *)
THEOREM Inductive == Spec => []IndInv
<1>1. Init => IndInv
  BY IndInvInit
<1>2. IndInv /\ [Next]_vars => IndInv'
  <2>1. CASE Next /\ IndInv
    BY <2>1, TypeOKStep, JobsStep, EmissionsStep, NumberingStep, CallsStep,
       LifecycleStep, LoopAliveStep DEF IndInv
  <2>2. CASE UNCHANGED vars /\ IndInv
    <3>1. \A w \in Workers : Waiting(w)' <=> Waiting(w)
      BY <2>2 DEF vars, Waiting, TypeOf, IsSystem
    <3>2. TypeOK' /\ Jobs' /\ Emissions'
      BY <2>2 DEF vars, IndInv, TypeOK, Jobs, HandlerJob, WorkerJob, Emissions, Emission,
         Origin, Taken
    <3>3. Numbering' /\ Uncalled' /\ AtMostOnce'
      BY <2>2, <3>1 DEF vars, IndInv, Numbering, Uncalled, AtMostOnce, Taken
    <3>4. Lifecycle' /\ LoopAlive'
      BY <2>2 DEF vars, IndInv, Lifecycle, LoopAlive, InLoop
    <3>5. QED BY <3>2, <3>3, <3>4 DEF IndInv
  <2>3. QED BY <2>1, <2>2
<1>3. QED BY <1>1, <1>2, PTL DEF Spec

(* The router's variables keep their types: no handler, worker or drain    *)
(* step leaves the router in a state its code does not expect.             *)
THEOREM TypeCorrect == Spec => []TypeOK
<1>1. IndInv => TypeOK
  BY DEF IndInv
<1>2. QED BY <1>1, Inductive, PTL

(* A function is called at most once for a delivery the backlog accepted,  *)
(* whatever the number of workers and the moment of the drain.             *)
THEOREM DeliveredAtMostOnce == Spec => []AtMostOnce
<1>1. IndInv => AtMostOnce
  BY DEF IndInv
<1>2. QED BY <1>1, Inductive, PTL

(* When Drain has returned only deliveries that handlers sent after the    *)
(* drain was closed are left in the backlog.                               *)
THEOREM DrainStrandsOnlyLate == Spec => []StrandedOnlyLate
<1>1. IndInv => StrandedOnlyLate
  <2>1. SUFFICES ASSUME IndInv, drainer = "returned", NEW i \in DOMAIN backlog,
                        ~deliveries[backlog[i]].late
                 PROVE  FALSE
    BY DEF StrandedOnlyLate
  <2>2. PICK w \in Workers : InLoop(w)
    BY <2>1 DEF IndInv, LoopAlive
  <2>3. w \notin drainWaitGroup
    BY <2>1 DEF IndInv, Lifecycle
  <2>4. QED BY <2>1, <2>2, <2>3 DEF IndInv, Lifecycle, InLoop, Gone
<1>2. QED BY <1>1, Inductive, PTL
=============================================================================
