--------------------------- MODULE DeliveryProofs ---------------------------
(***************************************************************************)
(* More about Router, from the inductive invariant of RouterProofs: what   *)
(* the metrics say of the backlog, and that the router implements          *)
(* Delivery.                                                               *)
(***************************************************************************)
EXTENDS RouterProofs, FiniteSetTheorems

(* A process at the select of enqueueWork sends or drops, and a worker     *)
(* that has received an event counts it and reports it.                    *)
LEMMA Selected ==
    ASSUME NEW p \in Processes, ProcessStep(p)
    PROVE  /\ pc[p] = "send" => Send(p) \/ Drop(p)
           /\ pc[p] = "dec" /\ p \in Workers => MetricDec(p)
           /\ pc[p] = "out" /\ p \in Workers => ReportEventOutOfQueue(p)
<1>1. CASE Fanout(p)
  <2>1. pc[p] \in {"fanout", "report", "send", "inc"}
    BY <1>1 DEF Fanout, FanoutDone, Authorized, Unauthorized, AuthorizePanic,
       ReportEventInTheQueue, Send, Drop, MetricInc
  <2>2. pc[p] = "send" => Send(p) \/ Drop(p)
    BY <1>1 DEF Fanout, FanoutDone, Authorized, Unauthorized, AuthorizePanic,
       ReportEventInTheQueue, MetricInc
  <2>3. QED BY <2>1, <2>2
<1>2. CASE CallFunction(p)
  BY <1>2 DEF CallFunction, EmitInvoking, ReactInvoking, InvokeNothing, Invoke
<1>3. CASE p \in Requests /\ HandlerStep(p)
  <2>1. p \notin Workers
    BY <1>3, ProcessesAssumption
  <2>2. QED BY <1>3, <2>1 DEF HandlerStep, ServeHTTP, ReactReceived, SyncSubscription, Respond, Finish
<1>4. CASE p \in Workers /\ LoopStep(p)
  BY <1>4 DEF LoopStep, Receive, NoWork, SeeDrain, LeaveLoop, WaitGroupDone, MetricDec,
     ReportEventOutOfQueue, EventProcessed
<1>5. QED BY <1>1, <1>2, <1>3, <1>4 DEF ProcessStep

(* Which steps touch receivedEvents and the record of dropped events.      *)
LEMMA ReportSteps ==
    ASSUME NEW p \in Processes, ProcessStep(p)
    PROVE  \/ UNCHANGED <<receivedEvents, lost>>
           \/ ReportEventInTheQueue(p)
           \/ Drop(p)
           \/ p \in Workers /\ ReportEventOutOfQueue(p)
<1>1. CASE Fanout(p)
  BY <1>1 DEF Fanout, FanoutDone, Authorized, Unauthorized, AuthorizePanic, Send,
     MetricInc, metrics
<1>2. CASE CallFunction(p)
  BY <1>2 DEF CallFunction, EmitInvoking, ReactInvoking, InvokeNothing, Invoke, metrics
<1>3. CASE p \in Requests /\ HandlerStep(p)
  BY <1>3 DEF HandlerStep, ServeHTTP, ReactReceived, SyncSubscription, Respond, Finish, metrics
<1>4. CASE p \in Workers /\ LoopStep(p)
  BY <1>4 DEF LoopStep, Receive, NoWork, SeeDrain, LeaveLoop, WaitGroupDone, MetricDec,
     EventProcessed, metrics
<1>5. QED BY <1>1, <1>2, <1>3, <1>4 DEF ProcessStep

(* An event in the backlog stays there until a worker has it.              *)
LEMMA BacklogEvents ==
    ASSUME IndInv, NEW p \in Processes, ProcessStep(p), NEW i \in DOMAIN backlog
    PROVE  \/ \E j \in DOMAIN backlog' :
                deliveries'[backlog'[j]].event = deliveries[backlog[i]].event
           \/ /\ p \in Workers /\ pc'[p] = "dec"
              /\ job'[p].event = deliveries[backlog[i]].event
<1>0. /\ DOMAIN backlog = 1..Len(backlog) /\ Len(backlog) \in Nat
      /\ \A k \in DOMAIN backlog : backlog[k] \in 1..Len(deliveries)
      /\ Len(deliveries) = Taken + Len(backlog) /\ Taken \in Nat
      /\ backlog[i] = Taken + i
      /\ pc \in [Processes -> HandlerPCs \cup WorkerPCs \cup CommonPCs]
      /\ backlog \in Seq(Nat) /\ p \in Processes
  BY DEF IndInv, TypeOK, Numbering, Taken
<1>1. CASE Send(p)
  <2>1. i \in DOMAIN backlog'
    BY <1>0, <1>1, SendEffect DEF Send
  <2>2. QED BY <1>0, <1>1, <2>1, SendEffect
<1>2. CASE p \in Workers /\ Receive(p)
  <2>1. CASE i = 1
    <3>1. pc'[p] = "dec"
      BY <1>0, <1>2 DEF Receive, Goto
    <3>2. job'[p].event = deliveries[backlog[i]].event
      <4>1. backlog[i] = Taken + 1
        BY <1>0, <2>1
      <4>2. job'[p] = [n |-> Taken + 1, event |-> deliveries[Taken + 1].event]
        BY <1>2, ReceiveEffect
      <4>3. QED BY <4>1, <4>2
    <3>3. QED BY <1>2, <3>1, <3>2
  <2>2. CASE i > 1
    <3>0. i \in Nat /\ i <= Len(backlog) /\ i - 1 + 1 = i
      BY <1>0
    <3>1. i - 1 \in 1..Len(backlog') /\ backlog'[i - 1] = backlog[i] /\ deliveries' = deliveries
      <4>1. Len(backlog') = Len(backlog) - 1 /\ deliveries' = deliveries
            /\ \A k \in 1..Len(backlog') : backlog'[k] = backlog[k + 1]
        BY <1>2, ReceiveEffect
      <4>2. i - 1 \in 1..Len(backlog')
        BY <1>0, <2>2, <3>0, <4>1
      <4>3. QED BY <3>0, <4>1, <4>2
    <3>2. DOMAIN backlog' = 1..Len(backlog')
      BY <1>0, <1>2 DEF Receive
    <3>3. QED BY <3>1, <3>2
  <2>3. QED BY <1>0, <2>1, <2>2
<1>3. CASE Invoke(p)
  BY <1>0, <1>3, InvokeEffect
<1>4. CASE ~Send(p) /\ ~(p \in Workers /\ Receive(p)) /\ ~Invoke(p)
  BY <1>4, QueueSteps
<1>5. QED BY <1>1, <1>2, <1>3, <1>4

(* Every step keeps LeakOnlyByDrop.                                        *)
LEMMA LeakStep ==
    ASSUME IndInv, LeakOnlyByDrop, Next
    PROVE  LeakOnlyByDrop'
<1>1. ASSUME NEW p \in Processes, ProcessStep(p), NEW e \in receivedEvents'
      PROVE  \/ e \in lost'
             \/ \E q \in Processes : pc'[q] = "send" /\ emitted'[q] = e
             \/ \E i \in DOMAIN backlog' : deliveries'[backlog'[i]].event = e
             \/ \E w \in Workers : pc'[w] \in {"dec", "out"} /\ job'[w].event = e
  <2>0. /\ OwnStep(p) /\ Workers \subseteq Processes
        /\ pc \in [Processes -> HandlerPCs \cup WorkerPCs \cup CommonPCs]
    BY <1>1, Locality DEF IndInv, TypeOK, Processes
  <2>1. CASE e \notin receivedEvents
    <3>1. ReportEventInTheQueue(p)
      BY <1>1, <2>1, ReportSteps DEF Drop, ReportEventOutOfQueue
    <3>2. e = emitted[p] /\ pc'[p] = "send" /\ emitted' = emitted
      BY <1>1, <2>0, <2>1, <3>1 DEF ReportEventInTheQueue, Goto, fanout
    <3>3. QED BY <1>1, <3>2
  <2>2. CASE e \in receivedEvents
    <3>1. CASE e \in lost
      BY <1>1, <3>1, ReportSteps DEF ReportEventInTheQueue, Drop, ReportEventOutOfQueue
    <3>2. ASSUME NEW q \in Processes, pc[q] = "send", emitted[q] = e
          PROVE  \/ e \in lost'
                 \/ \E s \in Processes : pc'[s] = "send" /\ emitted'[s] = e
                 \/ \E i \in DOMAIN backlog' : deliveries'[backlog'[i]].event = e
      <4>1. CASE q # p
        BY <2>0, <3>2, <4>1 DEF OwnStep
      <4>2. CASE q = p /\ Send(p)
        <5>1. Len(backlog) + 1 \in DOMAIN backlog'
          BY <1>1, <4>2, SendEffect DEF Send, IndInv, TypeOK
        <5>2. deliveries'[backlog'[Len(backlog) + 1]] =
                [event |-> emitted[p], late |-> drain /\ p \in Requests, calls |-> 0]
          BY <1>1, <4>2, SendEffect
        <5>3. deliveries'[backlog'[Len(backlog) + 1]].event = e
          BY <3>2, <4>2, <5>2
        <5>4. QED BY <5>1, <5>3
      <4>3. CASE q = p /\ Drop(p)
        BY <3>2, <4>3 DEF Drop
      <4>4. QED BY <1>1, <3>2, <4>1, <4>2, <4>3, Selected
    <3>3. ASSUME NEW i \in DOMAIN backlog, deliveries[backlog[i]].event = e
          PROVE  \/ \E j \in DOMAIN backlog' : deliveries'[backlog'[j]].event = e
                 \/ \E w \in Workers : pc'[w] \in {"dec", "out"} /\ job'[w].event = e
      BY <1>1, <3>3, BacklogEvents
    <3>4. ASSUME NEW w \in Workers, pc[w] \in {"dec", "out"}, job[w].event = e
          PROVE  \E v \in Workers : pc'[v] \in {"dec", "out"} /\ job'[v].event = e
      <4>1. CASE w # p
        BY <2>0, <3>4, <4>1 DEF OwnStep
      <4>2. CASE w = p /\ pc[w] = "dec"
        BY <1>1, <2>0, <3>4, <4>2, Selected DEF MetricDec, Goto
      <4>3. CASE w = p /\ pc[w] = "out"
        BY <1>1, <3>4, <4>3, Selected DEF ReportEventOutOfQueue
      <4>4. QED BY <3>4, <4>1, <4>2, <4>3
    <3>5. QED BY <2>2, <3>1, <3>2, <3>3, <3>4 DEF LeakOnlyByDrop
  <2>3. QED BY <2>1, <2>2
<1>2. CASE \E p \in Processes : ProcessStep(p)
  BY <1>1, <1>2 DEF LeakOnlyByDrop
<1>3. CASE StartWorkers
  <2>4. \A w \in Workers : pc[w] = "off"
    BY <1>3 DEF IndInv, TypeOK, Lifecycle, StartWorkers
  <2>1. \A w \in Workers : pc[w] \notin {"dec", "out"}
    BY <2>4
  <2>2. UNCHANGED <<receivedEvents, lost, emitted, job, backlog, deliveries>>
    BY <1>3 DEF StartWorkers, metrics, fanout, queue
  <2>3. \A p \in Processes : pc[p] = "send" => pc'[p] = "send"
    BY <1>3, <2>4 DEF StartWorkers
  <2>5. QED BY <2>1, <2>2, <2>3 DEF LeakOnlyByDrop
<1>4. CASE CloseDrain \/ DrainReturns \/ UNCHANGED vars
  BY <1>4 DEF LeakOnlyByDrop, CloseDrain, DrainReturns, vars, metrics, queue, fanout
<1>5. QED BY <1>2, <1>3, <1>4, NextCases

(* An entry of receivedEvents that is not on its way through the backlog   *)
(* belongs to an event dropped there: enqueueWork's default branch is the  *)
(* only leak of the map, whatever the interleaving.                        *)
THEOREM EntriesLeakOnlyByDrop == Spec => []LeakOnlyByDrop
<1>1. Init => LeakOnlyByDrop
  BY DEF Init, LeakOnlyByDrop
<1>2. IndInv /\ LeakOnlyByDrop /\ [Next]_vars => LeakOnlyByDrop'
  <2>1. CASE UNCHANGED vars /\ LeakOnlyByDrop
    BY <2>1 DEF vars, LeakOnlyByDrop
  <2>2. QED BY <2>1, LeakStep
<1>3. QED BY <1>1, <1>2, Inductive, PTL DEF Spec
-----------------------------------------------------------------------------
(***************************************************************************)
(* The gauge metricBacklog.                                                *)
(***************************************************************************)
Incs == {p \in Processes : pc[p] = "inc"}
Decs == {p \in Processes : pc[p] = "dec"}

(* Sends and receives that the gauge has not seen yet are finitely many,   *)
(* and they make up its difference to the length of the backlog.           *)
GaugeInv == IsFiniteSet(Incs) /\ IsFiniteSet(Decs) /\ BacklogGauge

(* Steps other than a send, a receive and the two updates of the gauge     *)
(* neither change it nor leave or enter the places between them.           *)
LEMMA GaugeKept ==
    ASSUME TypeOK, NEW p \in Processes, ProcessStep(p),
           ~Send(p), ~MetricInc(p), ~(p \in Workers /\ Receive(p)),
           ~(p \in Workers /\ MetricDec(p))
    PROVE  /\ metricBacklog' = metricBacklog
           /\ pc'[p] = pc[p] \/ {pc[p], pc'[p]} \cap {"inc", "dec"} = {}
<1>1. CASE Fanout(p)
  BY <1>1 DEF Fanout, FanoutDone, Authorized, Unauthorized, AuthorizePanic, AfterFanout,
     ReportEventInTheQueue, Drop, metrics, Goto, TypeOK
<1>2. CASE CallFunction(p)
  BY <1>2 DEF CallFunction, EmitInvoking, ReactInvoking, InvokeNothing, Invoke, StartFanout,
     metrics, Goto, TypeOK
<1>3. CASE p \in Requests /\ HandlerStep(p)
  BY <1>3 DEF HandlerStep, ServeHTTP, ReactReceived, SyncSubscription, Respond, Finish,
     Answer, StartFanout, metrics, Goto, TypeOK
<1>4. CASE p \in Workers /\ LoopStep(p)
  BY <1>4 DEF LoopStep, NoWork, SeeDrain, LeaveLoop, WaitGroupDone,
     ReportEventOutOfQueue, EventProcessed, metrics, Goto, TypeOK
<1>5. QED BY <1>1, <1>2, <1>3, <1>4 DEF ProcessStep

(* Every step keeps the balance of the gauge.                              *)
LEMMA GaugeStep ==
    ASSUME IndInv, GaugeInv, Next
    PROVE  GaugeInv'
<1>0. /\ TypeOK /\ metricBacklog \in Int /\ Len(backlog) \in Nat
      /\ pc \in [Processes -> HandlerPCs \cup WorkerPCs \cup CommonPCs]
      /\ IsFiniteSet(Incs) /\ IsFiniteSet(Decs)
      /\ Cardinality(Incs) \in Nat /\ Cardinality(Decs) \in Nat
      /\ metricBacklog = Len(backlog) + Cardinality(Decs) - Cardinality(Incs)
  BY FS_CardinalityType DEF IndInv, TypeOK, GaugeInv, BacklogGauge, Incs, Decs
<1>1. ASSUME Incs' = Incs, Decs' = Decs, metricBacklog' = metricBacklog,
             Len(backlog') = Len(backlog)
      PROVE  GaugeInv'
  BY <1>0, <1>1 DEF GaugeInv, BacklogGauge, Incs, Decs
<1>2. ASSUME NEW p \in Processes, ProcessStep(p)
      PROVE  GaugeInv'
  <2>0. \A q \in Processes : q # p => pc'[q] = pc[q]
    BY <1>0, <1>2, Locality DEF OwnStep
  <2>1. CASE Send(p)
    <3>1. pc[p] = "send" /\ pc'[p] = "inc" /\ metricBacklog' = metricBacklog
          /\ Len(backlog') = Len(backlog) + 1
      BY <1>0, <2>1, SendEffect DEF Send, Goto, metrics
    <3>2. Incs' = Incs \cup {p} /\ p \notin Incs /\ Decs' = Decs
      BY <2>0, <3>1 DEF Incs, Decs
    <3>3. IsFiniteSet(Incs') /\ Cardinality(Incs') = Cardinality(Incs) + 1
      BY <1>0, <3>2, FS_AddElement
    <3>4. metricBacklog' = Len(backlog') + Cardinality(Decs') - Cardinality(Incs')
      BY <1>0, <3>1, <3>2, <3>3
    <3>5. QED BY <1>0, <3>2, <3>3, <3>4 DEF GaugeInv, BacklogGauge, Incs, Decs
  <2>2. CASE MetricInc(p)
    <3>1. pc[p] = "inc" /\ pc'[p] = "fanout" /\ metricBacklog' = metricBacklog + 1
          /\ backlog' = backlog
      BY <1>0, <2>2 DEF MetricInc, Goto, queue
    <3>2. Incs' = Incs \ {p} /\ p \in Incs /\ Decs' = Decs
      BY <2>0, <3>1 DEF Incs, Decs
    <3>3. IsFiniteSet(Incs') /\ Cardinality(Incs') = Cardinality(Incs) - 1
      BY <1>0, <3>2, FS_RemoveElement
    <3>4. metricBacklog' = Len(backlog') + Cardinality(Decs') - Cardinality(Incs')
      BY <1>0, <3>1, <3>2, <3>3
    <3>5. QED BY <1>0, <3>2, <3>3, <3>4 DEF GaugeInv, BacklogGauge, Incs, Decs
  <2>3. CASE p \in Workers /\ Receive(p)
    <3>1. pc[p] \in {"poll", "wait", "recheck"} /\ pc'[p] = "dec" /\ metricBacklog' = metricBacklog
          /\ Len(backlog') = Len(backlog) - 1
      BY <1>0, <2>3, ReceiveEffect DEF Receive, Goto, metrics
    <3>2. Decs' = Decs \cup {p} /\ p \notin Decs /\ Incs' = Incs
      BY <2>0, <3>1 DEF Incs, Decs
    <3>3. IsFiniteSet(Decs') /\ Cardinality(Decs') = Cardinality(Decs) + 1
      BY <1>0, <3>2, FS_AddElement
    <3>4. metricBacklog' = Len(backlog') + Cardinality(Decs') - Cardinality(Incs')
      BY <1>0, <3>1, <3>2, <3>3
    <3>5. QED BY <1>0, <3>2, <3>3, <3>4 DEF GaugeInv, BacklogGauge, Incs, Decs
  <2>4. CASE p \in Workers /\ MetricDec(p)
    <3>1. pc[p] = "dec" /\ pc'[p] = "out" /\ metricBacklog' = metricBacklog - 1
          /\ backlog' = backlog
      BY <1>0, <2>4 DEF MetricDec, Goto, queue
    <3>2. Decs' = Decs \ {p} /\ p \in Decs /\ Incs' = Incs
      BY <2>0, <3>1 DEF Incs, Decs
    <3>3. IsFiniteSet(Decs') /\ Cardinality(Decs') = Cardinality(Decs) - 1
      BY <1>0, <3>2, FS_RemoveElement
    <3>4. metricBacklog' = Len(backlog') + Cardinality(Decs') - Cardinality(Incs')
      BY <1>0, <3>1, <3>2, <3>3
    <3>5. QED BY <1>0, <3>2, <3>3, <3>4 DEF GaugeInv, BacklogGauge, Incs, Decs
  <2>5. CASE ~Send(p) /\ ~MetricInc(p) /\ ~(p \in Workers /\ Receive(p))
             /\ ~(p \in Workers /\ MetricDec(p))
    <3>1. /\ metricBacklog' = metricBacklog
          /\ pc'[p] = pc[p] \/ {pc[p], pc'[p]} \cap {"inc", "dec"} = {}
      BY <1>0, <1>2, <2>5, GaugeKept
    <3>2. backlog' = backlog
      BY <1>2, <2>5, QueueSteps, InvokeEffect
    <3>3. Incs' = Incs /\ Decs' = Decs
      BY <2>0, <3>1 DEF Incs, Decs
    <3>4. QED BY <1>1, <3>1, <3>2, <3>3
  <2>6. QED BY <2>1, <2>2, <2>3, <2>4, <2>5
<1>3. CASE StartWorkers
  <2>1. \A w \in Workers : pc[w] = "off"
    BY <1>3 DEF IndInv, TypeOK, Lifecycle, StartWorkers
  <2>2. Incs' = Incs /\ Decs' = Decs
    BY <1>3, <2>1 DEF StartWorkers, Incs, Decs
  <2>3. QED BY <1>1, <1>3, <2>2 DEF StartWorkers, metrics, queue
<1>4. CASE UNCHANGED <<pc, metricBacklog, backlog>>
  BY <1>1, <1>4 DEF Incs, Decs
<1>5. QED
  BY <1>2, <1>3, <1>4, NextCases DEF CloseDrain, DrainReturns, vars, metrics, queue

(* The gauge of metrics.go is the length of the backlog up to the sends    *)
(* and receives that handlers and workers are about to count; so it is     *)
(* exact whenever none is, and it never drifts.                            *)
THEOREM GaugeExact == Spec => []BacklogGauge
<1>1. Init => GaugeInv
  <2>1. SUFFICES ASSUME Init PROVE GaugeInv
    OBVIOUS
  <2>2. Incs = {} /\ Decs = {} /\ metricBacklog = 0 /\ Len(backlog) = 0
    BY <2>1 DEF Init, Incs, Decs
  <2>3. /\ IsFiniteSet(Incs) /\ IsFiniteSet(Decs)
        /\ Cardinality(Incs) = 0 /\ Cardinality(Decs) = 0
    BY <2>2, FS_EmptySet
  <2>4. metricBacklog = Len(backlog) + Cardinality(Decs) - Cardinality(Incs)
    BY <2>2, <2>3
  <2>5. QED BY <2>3, <2>4 DEF GaugeInv, BacklogGauge, Incs, Decs
<1>2. IndInv /\ GaugeInv /\ [Next]_vars => GaugeInv'
  <2>1. CASE UNCHANGED vars /\ GaugeInv
    BY <2>1 DEF vars, GaugeInv, BacklogGauge, Incs, Decs
  <2>2. QED BY <2>1, GaugeStep
<1>3. GaugeInv => BacklogGauge
  BY DEF GaugeInv
<1>4. QED BY <1>1, <1>2, <1>3, Inductive, PTL DEF Spec
-----------------------------------------------------------------------------
(***************************************************************************)
(* The router implements Delivery.                                         *)
(***************************************************************************)
InHand == {job[w].n : w \in {v \in Workers : Waiting(v)}}
Attempted == {n \in DOMAIN deliveries : deliveries[n].calls > 0}
Late == {n \in DOMAIN deliveries : deliveries[n].late}
Phase == CASE drainer = "idle" -> "open"
           [] drainer = "waiting" -> "closing"
           [] OTHER -> "closed"

(* A worker's step changes what is in hand by its own delivery at most:    *)
(* no two workers hold the same one.                                       *)
LEMMA InHandStep ==
    ASSUME IndInv, NEW p \in Workers, ProcessStep(p)
    PROVE  /\ Waiting(p)' /\ ~Receive(p) => InHand' = InHand
           /\ ~Waiting(p)' /\ ~Waiting(p) => InHand' = InHand
           /\ ~Waiting(p)' /\ Waiting(p) => InHand' = InHand \ {job[p].n}
           /\ Waiting(p)' /\ ~Waiting(p) => InHand' = InHand \cup {job'[p].n}
<1>1. \A w \in Workers : w # p => (Waiting(w)' <=> Waiting(w)) /\ job'[w] = job[w]
  <2>1. OwnStep(p) /\ Workers \subseteq Processes
    BY Locality DEF IndInv, Processes
  <2>2. QED BY <2>1 DEF OwnStep, Waiting, TypeOf, IsSystem
<1>2. ASSUME NEW w \in Workers, w # p, Waiting(w), Waiting(p) PROVE job[w].n # job[p].n
  BY <1>2, WaitingHolds DEF IndInv, Numbering
<1>3. Waiting(p)' /\ ~Receive(p) => Waiting(p) /\ job'[p] = job[p]
  BY WaitingStep
<1>4. Waiting(p)' /\ ~Receive(p) => InHand' = InHand
  BY <1>1, <1>3 DEF InHand
<1>5. ~Waiting(p)' /\ ~Waiting(p) => InHand' = InHand
  BY <1>1 DEF InHand
<1>6. ~Waiting(p)' /\ Waiting(p) => InHand' = InHand \ {job[p].n}
  BY <1>1, <1>2 DEF InHand
<1>7. Waiting(p)' /\ ~Waiting(p) => InHand' = InHand \cup {job'[p].n}
  BY <1>1 DEF InHand
<1>8. QED BY <1>4, <1>5, <1>6, <1>7

(* A handler's step does not touch what the workers hold.                  *)
LEMMA InHandKept ==
    ASSUME IndInv, NEW r \in Requests, ProcessStep(r)
    PROVE  InHand' = InHand
<1>1. OwnStep(r) /\ Workers \subseteq Processes /\ r \notin Workers /\ r \in Processes
  BY Locality, ProcessesAssumption DEF IndInv, Processes
<1>2. \A w \in Workers : (Waiting(w)' <=> Waiting(w)) /\ job'[w] = job[w]
  BY <1>1 DEF OwnStep, Waiting, TypeOf, IsSystem
<1>3. QED BY <1>2 DEF InHand

(* No worker runs when Drain has returned.                                 *)
LEMMA NoneLeft ==
    ASSUME IndInv, drain, drainWaitGroup = {}
    PROVE  \A w \in Workers : pc[w] = "exited"
BY DEF IndInv, Lifecycle

(* A worker that takes a step finds the drain not finished.                *)
LEMMA ClosedForWorkers ==
    ASSUME IndInv, NEW w \in Workers, ProcessStep(w)
    PROVE  Phase # "closed"
<1>1. pc[w] # "exited"
  BY WorkerLife
<1>2. drainer # "returned"
  BY <1>1, NoneLeft DEF IndInv, Lifecycle
<1>3. QED BY <1>2 DEF Phase, IndInv, TypeOK

(* enqueueWork accepts one delivery; after the drain only a handler does.  *)
LEMMA SendAccepts ==
    ASSUME IndInv, TypeOK', NEW p \in Processes, ProcessStep(p), Send(p)
    PROVE  \E isLate \in BOOLEAN : Abstract!Accept(isLate)
<1>1. Phase' = Phase /\ (Phase = "open" <=> ~drain)
  BY FlagsKept DEF Phase, IndInv, Lifecycle, TypeOK
<1>2. Phase = "closed" => drain /\ p \in Requests
  BY <1>1, ClosedForWorkers DEF Processes
<1>3. /\ Len(deliveries') = Len(deliveries) + 1 /\ Len(deliveries) \in Nat
      /\ Taken' = Taken
      /\ DOMAIN deliveries = 1..Len(deliveries) /\ DOMAIN deliveries' = 1..Len(deliveries')
      /\ \A n \in 1..Len(deliveries) : deliveries'[n] = deliveries[n]
  <2>1. deliveries \in Seq(Delivery) /\ deliveries' \in Seq(Delivery)
    BY DEF IndInv, TypeOK
  <2>2. /\ Len(deliveries') = Len(deliveries) + 1 /\ Taken' = Taken
        /\ \A n \in 1..Len(deliveries) : deliveries'[n] = deliveries[n]
    BY SendEffect
  <2>3. QED BY <2>1, <2>2
<1>4. deliveries'[Len(deliveries) + 1] =
        [event |-> emitted[p], late |-> drain /\ p \in Requests, calls |-> 0]
  BY SendEffect
<1>5. Attempted' = Attempted
  <2>1. deliveries'[Len(deliveries) + 1].calls = 0
    BY <1>4
  <2>2. QED BY <1>3, <2>1 DEF Attempted
<1>7. InHand' = InHand
  <2>1. CASE p \in Workers
    <3>1. Waiting(p)' <=> Waiting(p)
      <4>1. pc[p] = "send" /\ pc'[p] = "inc" /\ emitted' = emitted
        BY DEF Send, Goto, fanout, IndInv, TypeOK
      <4>2. QED BY <4>1 DEF Waiting, FanoutPCs, TypeOf, IsSystem
    <3>2. ~Receive(p)
      BY DEF Send, Receive
    <3>3. QED BY <2>1, <3>1, <3>2, InHandStep
  <2>2. QED BY <2>1, InHandKept DEF Processes
<1>8. CASE drain /\ p \in Requests
  <2>1. deliveries'[Len(deliveries) + 1] = [event |-> emitted[p], late |-> TRUE, calls |-> 0]
    BY <1>4, <1>8
  <2>2. deliveries'[Len(deliveries) + 1].late
    BY <2>1
  <2>3. Late' = Late \cup {Len(deliveries) + 1}
    BY <1>3, <2>2 DEF Late
  <2>4. Abstract!Accept(TRUE)
    BY <1>1, <1>3, <1>5, <1>7, <1>8, <2>3 DEF Abstract!Accept, InHand, Attempted, Late, Phase
  <2>5. QED BY <2>4
<1>9. CASE ~(drain /\ p \in Requests)
  <2>1. deliveries'[Len(deliveries) + 1] = [event |-> emitted[p], late |-> FALSE, calls |-> 0]
    BY <1>4, <1>9
  <2>2. ~deliveries'[Len(deliveries) + 1].late
    BY <2>1
  <2>3. Late' = Late
    BY <1>3, <2>2 DEF Late
  <2>4. Abstract!Accept(FALSE)
    BY <1>1, <1>2, <1>3, <1>5, <1>7, <1>9, <2>3
    DEF Abstract!Accept, InHand, Attempted, Late, Phase
  <2>5. QED BY <2>4
<1>10. QED BY <1>8, <1>9

(* loop hands out the oldest delivery, while the drain has not returned.   *)
LEMMA ReceiveTakes ==
    ASSUME IndInv, NEW w \in Workers, ProcessStep(w), Receive(w)
    PROVE  Abstract!Take
<1>1. Phase # "closed" /\ Phase' = Phase
  BY ClosedForWorkers, FlagsKept DEF Phase, Processes
<1>2. deliveries' = deliveries /\ Taken' = Taken + 1 /\ Taken + 1 \in 1..Len(deliveries)
      /\ job'[w].n = Taken + 1
  BY ReceiveEffect
<1>3. Taken < Len(deliveries)
  BY <1>2 DEF IndInv, Numbering, TypeOK
<1>4. Attempted' = Attempted /\ Late' = Late
  BY <1>2 DEF Attempted, Late
<1>5. InHand' = InHand \cup {Taken + 1}
  <2>1. ~Waiting(w)
    BY DEF Receive, Waiting, FanoutPCs
  <2>2. pc'[w] = "dec"
    BY DEF Receive, Goto, IndInv, TypeOK, Processes
  <2>3. Waiting(w)'
    BY <2>2 DEF Waiting
  <2>4. QED BY <1>2, <2>1, <2>3, InHandStep
<1>6. QED BY <1>1, <1>2, <1>3, <1>4, <1>5 DEF Abstract!Take, InHand, Attempted, Late, Phase

(* f.Call attempts the delivery the worker holds, and ends its wait.       *)
LEMMA InvokeAttempts ==
    ASSUME IndInv, TypeOK', NEW w \in Workers, ProcessStep(w), Invoke(w)
    PROVE  \E n \in InHand : Abstract!Attempt(n)
<1>1. Phase # "closed" /\ Phase' = Phase
  BY ClosedForWorkers, FlagsKept DEF Phase, Processes
<1>2. Waiting(w)
  BY DEF Waiting, Invoke
<1>3. ~Waiting(w)' /\ ~Receive(w)
  BY WaitingStep DEF Invoke, Receive
<1>4. job[w].n \in InHand /\ InHand' = InHand \ {job[w].n}
  BY <1>2, <1>3, InHandStep DEF InHand
<1>5. job[w].n \in 1..Len(deliveries) /\ deliveries[job[w].n].calls = 0
  BY <1>2, WaitingHolds DEF IndInv, Jobs, WorkerJob, Uncalled, Taken, TypeOK
<1>6. /\ Len(deliveries') = Len(deliveries) /\ Taken' = Taken
      /\ DOMAIN deliveries = 1..Len(deliveries) /\ DOMAIN deliveries' = 1..Len(deliveries)
      /\ \A n \in 1..Len(deliveries) :
            /\ deliveries'[n].late = deliveries[n].late
            /\ deliveries'[n].calls = IF n = job[w].n THEN deliveries[n].calls + 1
                                      ELSE deliveries[n].calls
  <2>1. deliveries \in Seq(Delivery) /\ deliveries' \in Seq(Delivery) /\ w \in Processes
    BY DEF IndInv, TypeOK, Processes
  <2>2. QED BY <2>1, InvokeEffect
<1>7. Late' = Late
  BY <1>6 DEF Late
<1>8. Attempted' = Attempted \cup {job[w].n}
  BY <1>5, <1>6 DEF Attempted
<1>9. PICK n : n = job[w].n
  OBVIOUS
<1>10. n \in InHand /\ InHand' = InHand \ {n} /\ Attempted' = Attempted \cup {n}
  BY <1>4, <1>8, <1>9
<1>11. Abstract!Attempt(n)
  BY <1>1, <1>6, <1>7, <1>10 DEF Abstract!Attempt, InHand, Attempted, Late, Phase
<1>12. QED BY <1>10, <1>11

(* Everything else a process does is invisible, or ends a call early.      *)
LEMMA OtherSteps ==
    ASSUME IndInv, NEW p \in Processes, ProcessStep(p),
           ~Send(p), ~(p \in Workers /\ Receive(p)), ~(p \in Workers /\ Invoke(p))
    PROVE  \/ \E n \in InHand : Abstract!Abandon(n)
           \/ UNCHANGED Abstract!dvars
<1>1. deliveries' = deliveries /\ backlog' = backlog
  <2>1. CASE p \in Requests /\ Invoke(p)
    BY <2>1 DEF Invoke, IndInv, Jobs, HandlerJob
  <2>2. QED BY <2>1, QueueSteps DEF Processes
<1>2. Phase' = Phase
  BY FlagsKept DEF Phase
<1>3. Attempted' = Attempted /\ Late' = Late /\ Taken' = Taken
  BY <1>1 DEF Attempted, Late, Taken
<1>4. CASE InHand' = InHand
  BY <1>1, <1>2, <1>3, <1>4 DEF Abstract!dvars, InHand, Attempted, Late, Phase
<1>5. CASE p \in Workers /\ job[p].n \in InHand /\ InHand' = InHand \ {job[p].n}
  <2>1. PICK n : n = job[p].n
    OBVIOUS
  <2>2. n \in InHand /\ InHand' = InHand \ {n}
    BY <1>5, <2>1
  <2>3. Abstract!Abandon(n)
    BY <1>1, <1>2, <1>3, <2>2 DEF Abstract!Abandon, InHand, Attempted, Late, Phase
  <2>4. QED BY <2>2, <2>3
<1>6. p \in Workers /\ Waiting(p) => job[p].n \in InHand
  BY DEF InHand
<1>7. QED BY <1>4, <1>5, <1>6, InHandStep, InHandKept DEF Processes

(* Drain returns when the workers have left, and the last one left an      *)
(* empty backlog: what is there now is late.                               *)
LEMMA DrainFinishes ==
    ASSUME IndInv, DrainReturns
    PROVE  Abstract!Finish
<1>1. drainer = "waiting" /\ drainer' = "returned" /\ UNCHANGED <<deliveries, backlog, pc, job, emitted>>
  BY DEF DrainReturns, queue, fanout
<1>2. \A w \in Workers : pc[w] = "exited"
  BY <1>1, NoneLeft DEF DrainReturns, IndInv, Lifecycle
<1>3. InHand = {} /\ InHand' = {}
  BY <1>1, <1>2 DEF InHand, Waiting, FanoutPCs
<1>4. (Taken + 1)..Len(deliveries) \subseteq Late
  <2>1. SUFFICES ASSUME NEW n \in (Taken + 1)..Len(deliveries), ~deliveries[n].late
                 PROVE  FALSE
    BY DEF Late, IndInv, TypeOK, Numbering
  <2>2. n - Taken \in DOMAIN backlog /\ backlog[n - Taken] = n
    <3>1. /\ Taken \in Nat /\ Len(backlog) \in Nat /\ Len(deliveries) = Taken + Len(backlog)
          /\ DOMAIN backlog = 1..Len(backlog)
          /\ \A i \in DOMAIN backlog : backlog[i] = Taken + i
      BY DEF IndInv, Numbering, Taken, TypeOK
    <3>2. n - Taken \in 1..Len(backlog) /\ Taken + (n - Taken) = n
      BY <3>1
    <3>3. QED BY <3>1, <3>2
  <2>3. PICK w \in Workers : InLoop(w)
    BY <2>1, <2>2 DEF IndInv, LoopAlive
  <2>4. QED BY <1>2, <2>3 DEF InLoop, Gone
<1>5. Phase = "closing" /\ Phase' = "closed"
  BY <1>1 DEF Phase
<1>6. Attempted' = Attempted /\ Late' = Late /\ Taken' = Taken
  BY <1>1 DEF Attempted, Late, Taken
<1>7. QED BY <1>1, <1>3, <1>4, <1>5, <1>6 DEF Abstract!Finish, InHand, Attempted, Late, Phase

(* A step of Delivery about a delivery in hand.                            *)
LEMMA StepInHand ==
    ASSUME NEW n \in InHand, Abstract!Attempt(n) \/ Abstract!Abandon(n)
    PROVE  Abstract!Next
<1>1. n \in {job[w].n : w \in {v \in Workers : Waiting(v)}}
  BY DEF InHand
<1>2. QED BY <1>1 DEF Abstract!Next

(* Every step of the router is a step of Delivery or invisible to it.      *)
LEMMA RefinementStep ==
    ASSUME IndInv, IndInv', Next
    PROVE  [Abstract!Next]_(Abstract!dvars)
<1>1. ASSUME NEW p \in Processes, ProcessStep(p)
      PROVE  [Abstract!Next]_(Abstract!dvars)
  <2>1. CASE Send(p)
    BY <1>1, <2>1, SendAccepts DEF IndInv, Abstract!Next
  <2>2. CASE p \in Workers /\ Receive(p)
    BY <1>1, <2>2, ReceiveTakes DEF Abstract!Next
  <2>3. CASE p \in Workers /\ Invoke(p)
    BY <1>1, <2>3, InvokeAttempts, StepInHand DEF IndInv
  <2>4. CASE ~Send(p) /\ ~(p \in Workers /\ Receive(p)) /\ ~(p \in Workers /\ Invoke(p))
    BY <1>1, <2>4, OtherSteps, StepInHand
  <2>5. QED BY <2>1, <2>2, <2>3, <2>4
<1>2. CASE StartWorkers
  <2>1. \A w \in Workers : ~Waiting(w) /\ ~Waiting(w)'
    <3>1. \A w \in Workers : pc[w] = "off" /\ pc'[w] = "poll"
      BY <1>2 DEF IndInv, TypeOK, Lifecycle, StartWorkers, Processes
    <3>2. QED BY <3>1 DEF Waiting, FanoutPCs
  <2>2. InHand' = InHand
    BY <2>1 DEF InHand
  <2>3. UNCHANGED <<deliveries, backlog, drainer>>
    BY <1>2 DEF StartWorkers, queue
  <2>4. Attempted' = Attempted /\ Late' = Late /\ Taken' = Taken /\ Phase' = Phase
    BY <2>3 DEF Attempted, Late, Taken, Phase
  <2>5. QED BY <2>2, <2>3, <2>4 DEF Abstract!dvars, InHand, Attempted, Late, Phase
<1>3. CASE CloseDrain
  <2>1. UNCHANGED <<deliveries, backlog, pc, job, emitted>>
    BY <1>3 DEF CloseDrain, queue, fanout
  <2>2. Phase = "open" /\ Phase' = "closing"
    BY <1>3 DEF CloseDrain, Phase, IndInv, Lifecycle, TypeOK
  <2>3. Attempted' = Attempted /\ Late' = Late /\ Taken' = Taken /\ InHand' = InHand
    BY <2>1 DEF Attempted, Late, Taken, InHand, Waiting, TypeOf, IsSystem
  <2>4. Abstract!Close
    BY <2>1, <2>2, <2>3 DEF Abstract!Close, InHand, Attempted, Late, Phase
  <2>5. QED BY <2>4 DEF Abstract!Next
<1>4. CASE DrainReturns
  BY <1>4, DrainFinishes DEF Abstract!Next
<1>5. CASE UNCHANGED vars
  BY <1>5 DEF vars, Abstract!dvars, Taken, Waiting, TypeOf, IsSystem
<1>6. QED BY <1>1, <1>2, <1>3, <1>4, <1>5, NextCases

(* The router implements Delivery: first in, first out, each delivery      *)
(* attempted at most once and by the worker that took it, and a drain that *)
(* returns only when nothing but late deliveries is left.                  *)
THEOREM RouterImplementsDelivery == Spec => ImplementsDelivery
<1>1. Init => Abstract!Init
  <2>1. SUFFICES ASSUME Init PROVE Abstract!Init
    OBVIOUS
  <2>2. \A w \in Workers : ~Waiting(w)
    BY <2>1, ProcessesAssumption DEF Init, Waiting, FanoutPCs, Processes
  <2>3. Len(deliveries) = 0 /\ Taken = 0 /\ DOMAIN deliveries = {} /\ drainer = "idle"
    BY <2>1 DEF Init, Taken
  <2>4. QED BY <2>2, <2>3 DEF Abstract!Init
<1>2. IndInv /\ IndInv' /\ [Next]_vars => [Abstract!Next]_(Abstract!dvars)
  <2>1. CASE UNCHANGED vars
    BY <2>1 DEF vars, Abstract!dvars, Taken, Waiting, TypeOf, IsSystem
  <2>2. QED BY <2>1, RefinementStep
<1>3. QED BY <1>1, <1>2, Inductive, PTL DEF Spec, ImplementsDelivery, Abstract!Spec
=============================================================================
