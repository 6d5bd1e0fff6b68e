--------------------------- MODULE ExchangeProofs ---------------------------
(***************************************************************************)
(* Proofs about Exchange, for any requests, any configuration of the       *)
(* gateway, any number of async subscribers and workers and any backlog.   *)
(***************************************************************************)
EXTENDS Exchange, TLAPS

(* The copies on their way: in the backlog or with a worker.               *)
Holding == {w \in Workers : busy[w] # None}
Pending == {backlog[i] : i \in DOMAIN backlog} \cup {busy[w] : w \in Holding}

Kinds == SystemKinds \cup {"client"}
Reports == {"invoked", "failed"}

(* What a copy says, it says of a subscriber who had its turn; the         *)
(* authorizer agreed, and the shared object has its answer or that of a    *)
(* later one.                                                              *)
GoodCopy(c) ==
    /\ c.kind \in Kinds
    /\ c.kind = "received" => ~c.private
    /\ c.kind # "received" =>
          /\ c.of \in 0..(next - 1)
          /\ c.private <=> Private(c.of)
          /\ c.of \in site.authorizers => c.of \in granted
    /\ c.kind = "client" => c.of # 0
    /\ c.kind = "client" /\ c.of \in site.authorizers /\ ~c.private =>
          authorization \in granted /\ authorization >= c.of
    /\ c.kind \in Reports => Client(c.of) # {}

OwnOrLater(d) ==
    IF d.of \in site.authorizers
    THEN /\ d.authorization \in {j \in granted : j >= d.of}
         /\ d.of = 0 \/ event.eventgateway = "none" => d.authorization = d.of
    ELSE d.authorization # None => d.authorization \in granted /\ event.eventgateway = "object"

GoodPayload(d) ==
    /\ d.kind # "received" => d.of \in 0..(next - 1)
    /\ d.kind = "client" => (d.of \in site.authorizers => d.of \in granted) /\ OwnOrLater(d)
    /\ d.names # event.names => d.of \in granted /\ event.eventgateway = "none"
    /\ d.kind \in Reports => Client(d.of) # {}

(* Nobody has been told how a call of subscriber i ended.                  *)
Unreported(i) == \A x \in Pending \cup delivered : x.kind \in Reports => x.of # i

(* A subscriber gets one copy of the client's event, and one report is     *)
(* made of it.                                                             *)
OneReport ==
    /\ \A c \in Pending : c.kind = "client" => Unreported(c.of)
    /\ \A x, y \in Pending \cup delivered : x.kind = "invoked" /\ y.kind = "failed" => x.of # y.of

OneCopy ==
    /\ \A i, j \in DOMAIN backlog :
          i # j /\ backlog[i].kind = "client" /\ backlog[j].kind = "client" =>
              backlog[i].of # backlog[j].of
    /\ \A i \in DOMAIN backlog, w \in Holding :
          backlog[i].kind = "client" /\ busy[w].kind = "client" => backlog[i].of # busy[w].of
    /\ \A v, w \in Holding :
          v # w /\ busy[v].kind = "client" /\ busy[w].kind = "client" => busy[v].of # busy[w].of

(* Where the handler is.                                                   *)
Before == {"idle", "parsed"}
SyncPCs == {"sync", "invoking", "call"}
PCs == Before \cup SyncPCs \cup {"async", "done"}

Handler ==
    /\ pc \in PCs
    /\ next \in 1..(AsyncCount + 1)
    /\ granted \subseteq 0..(next - 1)
    /\ pc \in Before => Pending = {} /\ delivered = {}
    /\ pc \in Before \cup SyncPCs => next = 1 /\ status = "none" /\ Unreported(0) /\ Client(0) = {}
    /\ pc \in Before \cup {"sync"} => granted = {} /\ authorization = None
    /\ pc \in {"invoking", "call"} /\ 0 \in site.authorizers =>
          /\ 0 \in granted
          /\ event.eventgateway # "other"
          /\ event.eventgateway = "object" => authorization = 0
    /\ pc \notin {"idle", "done"} => event.eventgateway \in ExtensionKinds
    /\ authorization # None => authorization \in granted /\ event.eventgateway = "object"

Queue ==
    /\ \E S : backlog \in Seq(S)
    /\ Len(backlog) <= BacklogLength
    /\ DOMAIN busy = Workers

ExInv ==
    /\ Handler
    /\ Queue
    /\ OneCopy
    /\ OneReport
    /\ \A c \in Pending : GoodCopy(c)
    /\ \A d \in delivered : GoodPayload(d)
    /\ AnswerTellsOutcome

(* The invariant holds in the beginning.                                   *)
LEMMA ExInit == ASSUME Init PROVE ExInv
<1>1. Pending = {} /\ backlog = <<>> /\ Holding = {} /\ delivered = {}
  BY DEF Init, Pending, Holding
<1>2. Handler
  BY <1>1, BoundsAssumption DEF Init, Handler, PCs, Before, SyncPCs, Unreported, Client
<1>3. Queue
  <2>1. backlog \in Seq({}) /\ Len(backlog) = 0
    BY <1>1
  <2>2. QED BY <2>1, BoundsAssumption DEF Queue, Init
<1>4. OneCopy /\ OneReport
  BY <1>1 DEF OneCopy, OneReport
<1>5. AnswerTellsOutcome
  BY DEF Init, AnswerTellsOutcome
<1>6. QED BY <1>1, <1>2, <1>3, <1>4, <1>5 DEF ExInv

-----------------------------------------------------------------------------
(***************************************************************************)
(* The queue.                                                              *)
(***************************************************************************)
Added(q, q2, c) == q2 = q \/ (Len(q) < BacklogLength /\ q2 = Append(q, c))

(* enqueueWork and the emission of a system event send or give up.         *)
LEMMA EmitAdds == ASSUME NEW q, NEW c PROVE Added(q, Enqueue(q, c), c) /\ Added(q, Emit(q, c), c)
BY DEF Added, Enqueue, Emit

(* Where an element is appended.                                           *)
LEMMA AppendedAt ==
    ASSUME NEW S, NEW q \in Seq(S), NEW c
    PROVE  /\ Append(q, c) \in Seq(S \cup {c})
           /\ Len(Append(q, c)) = Len(q) + 1
           /\ DOMAIN Append(q, c) = 1..(Len(q) + 1)
           /\ DOMAIN q = 1..Len(q) /\ Len(q) \in Nat
           /\ \A i \in 1..Len(q) : Append(q, c)[i] = q[i]
           /\ Append(q, c)[Len(q) + 1] = c
<1>1. q \in Seq(S \cup {c})
  OBVIOUS
<1>2. QED BY <1>1

(* A copy is queued: no other copy appears, and it stays one of a kind.    *)
LEMMA QueueAdd ==
    ASSUME Queue, OneCopy, NEW c, Added(backlog, backlog', c), busy' = busy,
           \A x \in Pending : x.kind = "client" /\ c.kind = "client" => x.of # c.of
    PROVE  Queue' /\ OneCopy' /\ Pending \subseteq Pending' /\ Pending' \subseteq Pending \cup {c}
<1>1. PICK S : backlog \in Seq(S)
  BY DEF Queue
<1>2. Holding' = Holding
  BY DEF Holding
<1>3. CASE backlog' = backlog
  BY <1>2, <1>3 DEF Queue, OneCopy, Pending
<1>4. CASE Len(backlog) < BacklogLength /\ backlog' = Append(backlog, c)
  <2>1. /\ backlog' \in Seq(S \cup {c})
        /\ Len(backlog') = Len(backlog) + 1
        /\ DOMAIN backlog' = 1..(Len(backlog) + 1)
        /\ DOMAIN backlog = 1..Len(backlog) /\ Len(backlog) \in Nat
        /\ \A i \in 1..Len(backlog) : backlog'[i] = backlog[i]
        /\ backlog'[Len(backlog) + 1] = c
    BY <1>1, <1>4, AppendedAt
  <2>2. Queue'
    BY <1>4, <2>1, BoundsAssumption DEF Queue
  <2>3. Pending \subseteq Pending' /\ Pending' \subseteq Pending \cup {c}
    BY <1>2, <2>1 DEF Pending
  <2>4. \A i \in DOMAIN backlog : backlog[i] \in Pending
    BY DEF Pending
  <2>5. \A w \in Holding : busy[w] \in Pending
    BY DEF Pending
  <2>6. OneCopy'
    BY <1>2, <2>1, <2>4, <2>5 DEF OneCopy
  <2>7. QED BY <2>2, <2>3, <2>6
<1>5. QED BY <1>3, <1>4 DEF Added

(* Where the elements of the rest of a sequence were.                      *)
LEMMA TailAt ==
    ASSUME NEW S, NEW q \in Seq(S), q # <<>>
    PROVE  /\ Tail(q) \in Seq(S)
           /\ Len(q) \in Nat /\ Len(q) > 0
           /\ Len(Tail(q)) = Len(q) - 1
           /\ DOMAIN q = 1..Len(q)
           /\ DOMAIN Tail(q) = 1..(Len(q) - 1)
           /\ \A i \in 1..(Len(q) - 1) : Tail(q)[i] = q[i + 1]
           /\ Head(q) = q[1]
OBVIOUS

(* A worker takes the first copy, or drops it when a plugin refuses.       *)
LEMMA TakeShape ==
    ASSUME Queue, OneCopy, NEW w \in Workers, busy[w] = None, backlog # <<>>,
           NEW c, c.kind # "client", Added(Tail(backlog), backlog', c),
           busy' = busy \/ busy' = [busy EXCEPT ![w] = Head(backlog)]
    PROVE  Queue' /\ OneCopy' /\ Pending' \subseteq Pending \cup {c}
<1>1. PICK S : backlog \in Seq(S)
  BY DEF Queue
<1>0. PICK n : n = Len(backlog)
  OBVIOUS
<1>2. /\ Tail(backlog) \in Seq(S)
      /\ n \in Nat /\ n > 0
      /\ Len(Tail(backlog)) = n - 1
      /\ DOMAIN backlog = 1..n
      /\ DOMAIN Tail(backlog) = 1..(n - 1)
      /\ \A i \in 1..(n - 1) : Tail(backlog)[i] = backlog[i + 1]
      /\ Head(backlog) = backlog[1]
  BY <1>0, <1>1, TailAt
<1>3. \E T : backlog' \in Seq(T)
  <2>1. CASE backlog' = Tail(backlog)
    BY <1>2, <2>1
  <2>2. CASE backlog' = Append(Tail(backlog), c)
    BY <1>2, <2>2, AppendedAt
  <2>3. QED BY <2>1, <2>2 DEF Added
<1>4. PICK m \in {n - 1, n} :
          /\ Len(backlog') = m
          /\ DOMAIN backlog' = 1..m
          /\ \A i \in 1..(n - 1) : backlog'[i] = backlog[i + 1]
          /\ m = n => backlog'[n] = c
  <2>1. CASE backlog' = Tail(backlog)
    BY <1>2, <2>1
  <2>2. CASE backlog' = Append(Tail(backlog), c)
    <3>1. /\ Len(backlog') = n - 1 + 1
          /\ DOMAIN backlog' = 1..(n - 1 + 1)
          /\ \A i \in 1..(n - 1) : backlog'[i] = Tail(backlog)[i]
          /\ backlog'[n - 1 + 1] = c
      <4>1. PICK q : q = Tail(backlog)
        OBVIOUS
      <4>2. QED BY <1>2, <2>2, <4>1, AppendedAt
    <3>2. QED BY <1>2, <3>1
  <2>3. QED BY <2>1, <2>2 DEF Added
<1>5. DOMAIN busy = Workers /\ DOMAIN busy' = Workers
  BY DEF Queue
<1>6. Queue'
  <2>1. n <= BacklogLength
    BY <1>0 DEF Queue
  <2>2. m <= BacklogLength
    BY <1>2, <1>4, <2>1, BoundsAssumption
  <2>3. QED BY <1>3, <1>4, <1>5, <2>2 DEF Queue
<1>7. /\ Holding' \subseteq Holding \cup {w}
      /\ \A v \in Holding' : v # w => v \in Holding /\ busy'[v] = busy[v]
      /\ w \in Holding' => busy'[w] = backlog[1]
      /\ w \notin Holding
  BY <1>2, <1>5 DEF Holding
<1>8. \A i \in DOMAIN backlog' :
          backlog'[i] = c \/ (i + 1 \in DOMAIN backlog /\ i + 1 # 1 /\ backlog'[i] = backlog[i + 1])
  BY <1>2, <1>4
<1>9. 1 \in DOMAIN backlog /\ (\A i \in DOMAIN backlog : i \in Nat) /\ (\A i \in DOMAIN backlog' : i \in Nat)
  BY <1>2, <1>4
<1>10. Pending' \subseteq Pending \cup {c}
  <2> SUFFICES ASSUME NEW x \in Pending' PROVE x \in Pending \cup {c}
    OBVIOUS
  <2>1. CASE \E i \in DOMAIN backlog' : x = backlog'[i]
    BY <1>8, <2>1 DEF Pending
  <2>2. CASE \E v \in Holding' : x = busy'[v]
    BY <1>7, <1>9, <2>2 DEF Pending
  <2>3. QED BY <2>1, <2>2 DEF Pending
<1>11. OneCopy'
  <2>1. \A i, j \in DOMAIN backlog' :
          i # j /\ backlog'[i].kind = "client" /\ backlog'[j].kind = "client" =>
              backlog'[i].of # backlog'[j].of
    BY <1>8, <1>9 DEF OneCopy
  <2>2. \A i \in DOMAIN backlog', v \in Holding' :
          backlog'[i].kind = "client" /\ busy'[v].kind = "client" => backlog'[i].of # busy'[v].of
    BY <1>7, <1>8, <1>9 DEF OneCopy
  <2>3. \A u, v \in Holding' :
          u # v /\ busy'[u].kind = "client" /\ busy'[v].kind = "client" => busy'[u].of # busy'[v].of
    BY <1>7, <1>9 DEF OneCopy
  <2>4. QED BY <2>1, <2>2, <2>3 DEF OneCopy
<1>12. QED BY <1>6, <1>10, <1>11

(* A worker is done with its copy, and may report.                         *)
LEMMA DeliverShape ==
    ASSUME Queue, OneCopy, NEW w \in Workers, busy[w] # None,
           NEW c, c.kind # "client", Added(backlog, backlog', c),
           busy' = [busy EXCEPT ![w] = None]
    PROVE  /\ Queue' /\ OneCopy'
           /\ Pending' \subseteq Pending \cup {c}
           /\ busy[w].kind = "client" =>
                 \A x \in Pending' : x.kind = "client" => x.of # busy[w].of
<1>1. PICK S : backlog \in Seq(S)
  BY DEF Queue
<1>2. DOMAIN busy = Workers /\ DOMAIN busy' = Workers
  BY DEF Queue
<1>3. /\ w \in Holding
      /\ \A v \in Holding' : v # w /\ v \in Holding /\ busy'[v] = busy[v]
  BY <1>2 DEF Holding
<1>4. /\ \E T : backlog' \in Seq(T)
      /\ Len(backlog') <= BacklogLength
      /\ DOMAIN backlog \subseteq DOMAIN backlog'
      /\ \A i \in DOMAIN backlog' :
            IF i \in DOMAIN backlog THEN backlog'[i] = backlog[i] ELSE backlog'[i] = c
  <2>1. CASE backlog' = backlog
    BY <2>1 DEF Queue
  <2>2. CASE Len(backlog) < BacklogLength /\ backlog' = Append(backlog, c)
    <3>1. /\ backlog' \in Seq(S \cup {c})
          /\ Len(backlog') = Len(backlog) + 1
          /\ DOMAIN backlog' = 1..(Len(backlog) + 1)
          /\ DOMAIN backlog = 1..Len(backlog) /\ Len(backlog) \in Nat
          /\ \A i \in 1..Len(backlog) : backlog'[i] = backlog[i]
          /\ backlog'[Len(backlog) + 1] = c
      BY <1>1, <2>2, AppendedAt
    <3>2. QED BY <2>2, <3>1, BoundsAssumption
  <2>3. QED BY <2>1, <2>2 DEF Added
<1>5. Queue'
  BY <1>2, <1>4 DEF Queue
<1>6. Pending' \subseteq Pending \cup {c}
  BY <1>3, <1>4 DEF Pending
<1>7. OneCopy'
  BY <1>3, <1>4 DEF OneCopy
<1>8. ASSUME busy[w].kind = "client", NEW x \in Pending', x.kind = "client"
      PROVE  x.of # busy[w].of
  BY <1>3, <1>4, <1>8 DEF OneCopy, Pending
<1>9. QED BY <1>5, <1>6, <1>7, <1>8

-----------------------------------------------------------------------------
(***************************************************************************)
(* Operators of the model.                                                 *)
(***************************************************************************)

(* FromRequest: the extension "eventgateway" of an event is absent, an     *)
(* object or something else, whichever way the request was parsed.         *)
LEMMA ParsedKind ==
    ASSUME NEW r \in Requests, NEW p \in FromRequest(r), p.outcome = "event"
    PROVE  p.event.eventgateway \in ExtensionKinds
<1>1. /\ p # Invalid /\ p # Panic
  BY DEF Invalid, Panic
<1>2. ASSUME NEW e, p = Parsed(e), e.eventgateway \in ExtensionKinds
      PROVE  p.event.eventgateway \in ExtensionKinds
  BY <1>2 DEF Parsed
<1>3. ASSUME NEW t, NEW d PROVE New(t, d).eventgateway \in ExtensionKinds
  BY DEF New, ExtensionKinds
<1>4. r.body.kind = "event" => ParseAsCloudEvent(r.body).eventgateway \in ExtensionKinds
  BY RequestsAssumption DEF ParseAsCloudEvent
<1>5. CASE p \in ParseAsCloudEventBinary(r)
  <2>1. p \in {Parsed([type |-> r.attributes.type, mode |-> "binary",
               eventgateway |-> IF ExtensionKey(Eventgateway) \in DOMAIN m THEN "other" ELSE "none",
               names |-> Restrict(m, DOMAIN m \ {ExtensionKey(Eventgateway)}),
               data |-> NormalizePayload(r.body, r.contentType)]) : m \in ExtensionMaps(r.names)}
    BY <1>1, <1>5 DEF ParseAsCloudEventBinary
  <2>2. PICK m, t, d, n :
               p = Parsed([type |-> t, mode |-> "binary",
               eventgateway |-> IF ExtensionKey(Eventgateway) \in DOMAIN m THEN "other" ELSE "none",
               names |-> n, data |-> d])
    BY <2>1
  <2>3. QED BY <2>2 DEF Parsed, ExtensionKinds
<1>6. CASE p \notin ParseAsCloudEventBinary(r)
  <2>1. \/ p = Parsed(New(HTTPRequest, NewHTTPRequestData(r)))
        \/ p = Parsed(New(r.event, NormalizePayload(r.body, MediaType(r.contentType))))
        \/ r.body.kind = "event" /\ p = Parsed(ParseAsCloudEvent(r.body))
    BY <1>1, <1>6 DEF FromRequest
  <2>2. QED BY <2>1, <1>2, <1>3, <1>4
<1>7. QED BY <1>5, <1>6

(* Storing and loading a function keep its provider, and a stream answers  *)
(* with the id of a record: a response object comes from http or lambda.   *)
LEMMA ResponseFromFunction ==
    ASSUME NEW i, Success("response") \in Results(i)
    PROVE  site.functions[i].type \notin Streams
<1>1. Success("response") # Failure("lookup")
  BY DEF Success, Failure
<1>2. PICK f \in Cached(i) : \E r \in Replies(f.type) : Call(f, r) = Success("response")
  BY <1>1 DEF Results
<1>3. PICK g \in UnmarshalJSON(site.functions[i], TRUE) : f \in UnmarshalJSON(MarshalJSON(g), TRUE)
  BY <1>2 DEF Cached
<1>4. g.type = site.functions[i].type
  BY <1>3 DEF UnmarshalJSON, Load
<1>5. f.type = g.type
  BY <1>3 DEF UnmarshalJSON, Load, MarshalJSON
<1>6. SUFFICES ASSUME f.type \in Streams PROVE FALSE
  BY <1>4, <1>5
<1>7. f.type # "http" /\ f.type # "awslambda"
  BY <1>6 DEF Streams
<1>13. PICK r \in Replies(f.type) : Call(f, r) = Success("response")
  BY <1>2
<1>8. r \in {[kind |-> "unreachable"], [kind |-> "answer", output |-> "other"]}
  BY <1>7 DEF Replies
<1>9. Call(f, r) = CallStream(r)
  BY <1>6, <1>7 DEF Call
<1>10. CallStream(r) \in {Failure("callFailed"), Success("other")}
  BY <1>8 DEF CallStream
<1>11. Failure("callFailed") # Success("response") /\ Success("other") # Success("response")
  BY DEF Failure, Success
<1>12. QED BY <1>13, <1>9, <1>10, <1>11

(* The fields of a copy of the event.                                      *)
LEMMA CopyFields ==
    ASSUME NEW k, NEW i, NEW b
    PROVE  /\ Copy(k, i, b).kind = k
           /\ Copy(k, i, b).of = i
           /\ Copy(k, i, b).private = b
BY DEF Copy

(* The same of a copy that reports a result.                               *)
LEMMA ReportFields ==
    ASSUME NEW k, NEW i, NEW b, NEW x, NEW y
    PROVE  LET c == [Copy(k, i, b) EXCEPT !.result = x, !.output = y]
           IN  c.kind = k /\ c.of = i /\ c.private = b
BY DEF Copy

(* What is sent of a copy.                                                 *)
LEMMA MarshalFields ==
    ASSUME NEW c
    PROVE  /\ Marshal(c).kind = c.kind
           /\ Marshal(c).of = c.of
           /\ Marshal(c).authorization = IF c.private THEN c.of ELSE authorization
           /\ Marshal(c).names = IF c.private THEN NoNames ELSE event.names
BY DEF Marshal

(* What is true of copies and payloads stays true: the site and the event  *)
(* are fixed, and the other things only grow.                              *)
LEMMA Kept ==
    ASSUME site' = site, event' = event, granted \subseteq granted',
           next \in Nat, next' \in Nat, next <= next', delivered \subseteq delivered',
           \/ authorization' = authorization
           \/ /\ authorization' \in granted'
              /\ \A c \in Pending : c.kind = "client" => authorization' >= c.of
    PROVE  /\ \A c \in Pending : GoodCopy(c) => GoodCopy(c)'
           /\ \A d : GoodPayload(d) => GoodPayload(d)'
<1>1. \A i : (Private(i))' <=> Private(i)
  BY DEF Private
<1>2. \A i : Client(i) # {} => (Client(i))' # {}
  BY DEF Client
<1>3. \A i : i \in 0..(next - 1) => i \in 0..(next' - 1)
  <2>1. ASSUME NEW m \in Nat, NEW n \in Nat, m <= n, NEW i \in 0..(m - 1) PROVE i \in 0..(n - 1)
    BY <2>1
  <2>2. QED BY <2>1
<1>4. ASSUME NEW c \in Pending, GoodCopy(c) PROVE GoodCopy(c)'
  BY <1>1, <1>2, <1>3, <1>4 DEF GoodCopy
<1>5. ASSUME NEW d, GoodPayload(d) PROVE GoodPayload(d)'
  BY <1>2, <1>3, <1>5 DEF GoodPayload, OwnOrLater
<1>6. QED BY <1>4, <1>5

(* A copy that a worker marshals becomes a payload as good as the copy.    *)
LEMMA GoodMarshal ==
    ASSUME NEW c, GoodCopy(c), authorization # None => authorization \in granted /\ event.eventgateway = "object"
    PROVE  GoodPayload(Marshal(c))
<1>1. PICK d : d = Marshal(c)
  OBVIOUS
<1>2. /\ d.kind = c.kind /\ d.of = c.of
      /\ d.authorization = IF c.private THEN c.of ELSE authorization
      /\ d.names = IF c.private THEN NoNames ELSE event.names
  BY <1>1, MarshalFields
<1>3. c.private => c.kind # "received"
  BY DEF GoodCopy
<1>4. d.names # event.names => d.of \in granted /\ event.eventgateway = "none"
  BY <1>2, <1>3 DEF GoodCopy, Private
<1>5. ASSUME d.kind = "client" PROVE OwnOrLater(d)
  <2>1. /\ c.of \in Nat /\ c.of # 0
        /\ c.private <=> Private(c.of)
        /\ c.of \in site.authorizers => c.of \in granted
    BY <1>2, <1>5 DEF GoodCopy
  <2>2. CASE c.private
    BY <1>2, <2>1, <2>2 DEF OwnOrLater, Private
  <2>3. CASE ~c.private
    <3>1. CASE c.of \in site.authorizers
      <4>1. event.eventgateway # "none"
        BY <2>1, <2>3, <3>1 DEF Private
      <4>2. authorization \in granted /\ authorization >= c.of
        BY <1>2, <1>5, <2>3, <3>1 DEF GoodCopy
      <4>3. QED BY <1>2, <2>1, <2>3, <3>1, <4>1, <4>2 DEF OwnOrLater
    <3>2. CASE c.of \notin site.authorizers
      BY <1>2, <2>3, <3>2 DEF OwnOrLater
    <3>3. QED BY <3>1, <3>2
  <2>4. QED BY <2>2, <2>3
<1>6. QED BY <1>1, <1>2, <1>4, <1>5 DEF GoodPayload, GoodCopy

(* A step after which nobody has been told more about how calls ended.     *)
LEMMA QuietStep ==
    ASSUME OneReport,
           \A x \in Pending' \cup delivered' : x.kind \in Reports =>
               \E y \in Pending \cup delivered : y.kind = x.kind /\ y.of = x.of,
           \A c \in Pending' : c.kind = "client" => Unreported(c.of)
    PROVE  OneReport' /\ (\A i : Unreported(i) => Unreported(i)')
<1>1. ASSUME NEW i, Unreported(i) PROVE Unreported(i)'
  BY <1>1 DEF Unreported
<1>2. "invoked" \in Reports /\ "failed" \in Reports
  BY DEF Reports
<1>3. \A x, y \in Pending' \cup delivered' : x.kind = "invoked" /\ y.kind = "failed" => x.of # y.of
  BY <1>2 DEF OneReport
<1>4. QED BY <1>1, <1>3 DEF OneReport

(* A call of subscriber i ends, and this is reported.                      *)
LEMMA ReportingStep ==
    ASSUME OneReport, NEW i, NEW k \in Reports, Unreported(i),
           \A x \in Pending' \cup delivered' : x.kind \in Reports =>
               \/ \E y \in Pending \cup delivered : y.kind = x.kind /\ y.of = x.of
               \/ x.kind = k /\ x.of = i,
           \A c \in Pending' : c.kind = "client" => Unreported(c.of) /\ c.of # i
    PROVE  OneReport' /\ (\A j : j # i /\ Unreported(j) => Unreported(j)')
<1>1. ASSUME NEW j, j # i, Unreported(j) PROVE Unreported(j)'
  BY <1>1 DEF Unreported
<1>2. "invoked" \in Reports /\ "failed" \in Reports /\ "invoked" # "failed"
  BY DEF Reports
<1>3. ASSUME NEW x \in Pending' \cup delivered', NEW y \in Pending' \cup delivered',
             x.kind = "invoked", y.kind = "failed"
      PROVE  x.of # y.of
  BY <1>2, <1>3 DEF OneReport, Unreported
<1>4. QED BY <1>1, <1>3 DEF OneReport

-----------------------------------------------------------------------------
(***************************************************************************)
(* The handler's steps.                                                    *)
(***************************************************************************)

(* A step that leaves the backlog and the workers alone.                   *)
LEMMA NothingPending ==
    ASSUME backlog' = backlog, busy' = busy
    PROVE  /\ Pending' = Pending
           /\ Queue => Queue'
           /\ OneCopy => OneCopy'
<1>1. Holding' = Holding
  BY DEF Holding
<1>2. QED BY <1>1 DEF Pending, Queue, OneCopy

(* A request arrives.                                                      *)
LEMMA ReceiveStep == ASSUME ExInv, Receive PROVE ExInv'
<1>1. /\ Pending' = {} /\ delivered' = {} /\ Queue' /\ OneCopy'
      /\ Pending = {} /\ delivered = {}
  BY NothingPending DEF ExInv, Receive, Handler, Before
<1>2. /\ pc = "idle" /\ next' = next /\ site' = site /\ granted' = granted
      /\ authorization' = authorization
      /\ next = 1 /\ status = "none" /\ granted = {} /\ authorization = None
  BY DEF ExInv, Receive, Handler, Before, sharedVars
<1>3. \/ pc' = "parsed" /\ status' = "none" /\ event'.eventgateway \in ExtensionKinds
      \/ pc' = "done" /\ status' \in {"400", "aborted"}
  <2>1. PICK r \in Requests : \E p \in FromRequest(r) :
           \/ p.outcome = "event" /\ event' = p.event /\ pc' = "parsed" /\ status' = status
           \/ pc' = "done" /\ status' \in {"400", "aborted"}
    BY DEF Receive
  <2>2. QED BY <1>2, <2>1, ParsedKind
<1>4. OneReport'
  BY <1>1 DEF OneReport
<1>5. Handler'
  BY <1>1, <1>2, <1>3, BoundsAssumption DEF Handler, PCs, Before, SyncPCs, Unreported, Client
<1>6. AnswerTellsOutcome'
  BY <1>3 DEF AnswerTellsOutcome
<1>7. QED BY <1>1, <1>4, <1>5, <1>6 DEF ExInv

(* The event is reported as received.                                      *)
LEMMA EmitReceivedStep == ASSUME ExInv, EmitReceived PROVE ExInv'
<1>1. /\ Pending = {} /\ delivered = {} /\ delivered' = {} /\ busy' = busy
      /\ Queue /\ OneCopy
  BY DEF ExInv, EmitReceived, Handler, Before
<1>2. /\ pc = "parsed" /\ next' = next /\ granted' = granted /\ status' = status
      /\ authorization' = authorization
      /\ next = 1 /\ status = "none" /\ granted = {} /\ authorization = None
      /\ event.eventgateway \in ExtensionKinds
  BY DEF ExInv, EmitReceived, Handler, Before, sharedVars
<1>3. PICK c : c = Copy("received", None, FALSE)
  OBVIOUS
<1>4. c.kind = "received" /\ ~c.private
  BY <1>3 DEF Copy
<1>5. Added(backlog, backlog', c) /\ pc' \in {"done", "sync", "async"}
  BY <1>3, EmitAdds DEF EmitReceived, Added
<1>6. Queue' /\ OneCopy' /\ Pending' \subseteq {c}
  BY <1>1, <1>4, <1>5, QueueAdd
<1>7. \A x \in Pending' : GoodCopy(x)'
  BY <1>4, <1>6 DEF GoodCopy, Kinds, SystemKinds, Reports
<1>8. \A x \in Pending' : x.kind = "received"
  BY <1>4, <1>6
<1>9. OneReport'
  BY <1>1, <1>8 DEF OneReport
<1>10. event'.eventgateway = event.eventgateway
  BY DEF EmitReceived, Carried
<1>11. Handler'
  BY <1>1, <1>2, <1>5, <1>8, <1>10, BoundsAssumption
     DEF Handler, PCs, Before, SyncPCs, Unreported, Client, Reports
<1>12. AnswerTellsOutcome'
  BY <1>2 DEF AnswerTellsOutcome
<1>13. QED BY <1>1, <1>6, <1>7, <1>9, <1>11, <1>12 DEF ExInv

(* The queue and the payloads when a step leaves both alone.               *)
LEMMA AsideStep ==
    ASSUME ExInv, UNCHANGED <<backlog, busy, delivered, site, event>>,
           granted \subseteq granted', next' = next,
           \/ authorization' = authorization
           \/ /\ authorization' \in granted'
              /\ \A c \in Pending : c.kind = "client" => authorization' >= c.of
    PROVE  /\ Pending' = Pending /\ Queue' /\ OneCopy' /\ OneReport'
           /\ \A c \in Pending' : GoodCopy(c)'
           /\ \A d \in delivered' : GoodPayload(d)'
           /\ \A i : Unreported(i) => Unreported(i)'
           /\ \A i : Client(i)' = Client(i)
<1>1. Pending' = Pending /\ Queue' /\ OneCopy' /\ next \in Nat
  BY NothingPending DEF ExInv, Handler
<1>2. OneReport' /\ \A i : Unreported(i) => Unreported(i)'
  BY <1>1 DEF OneReport, Unreported, ExInv
<1>3. /\ \A c \in Pending : GoodCopy(c) => GoodCopy(c)'
      /\ \A d : GoodPayload(d) => GoodPayload(d)'
  BY <1>1, Kept
<1>4. \A i : Client(i)' = Client(i)
  BY DEF Client
<1>5. QED BY <1>1, <1>2, <1>3, <1>4 DEF ExInv

(* Before the async subscribers no copy of the client's event is queued.   *)
LEMMA NoClientYet ==
    ASSUME ExInv, pc \in SyncPCs
    PROVE  \A c \in Pending : c.kind # "client"
<1>1. next = 1
  BY DEF ExInv, Handler
<1>2. ASSUME NEW c \in Pending, c.kind = "client" PROVE FALSE
  BY <1>1, <1>2 DEF ExInv, GoodCopy
<1>3. QED BY <1>2

(* The authorizer is asked.                                                *)
LEMMA AuthorizeSyncStep == ASSUME ExInv, AuthorizeSync PROVE ExInv'
<1>1. /\ pc = "sync" /\ pc \in SyncPCs /\ pc \notin Before
      /\ next = 1 /\ status = "none" /\ Unreported(0) /\ Client(0) = {}
      /\ granted = {} /\ authorization = None
      /\ event.eventgateway \in ExtensionKinds
  BY DEF ExInv, AuthorizeSync, Handler, SyncPCs, Before
<1>2. /\ UNCHANGED <<backlog, busy, delivered, site, event, next>>
  BY DEF AuthorizeSync
<1>3. \/ /\ pc' = "invoking" /\ status' = status
         /\ \/ /\ 0 \notin site.authorizers
               /\ granted' = granted /\ authorization' = authorization
            \/ /\ 0 \in site.authorizers /\ event.eventgateway # "other"
               /\ granted' = {0}
               /\ authorization' = IF event.eventgateway = "object" THEN 0 ELSE authorization
      \/ /\ pc' = "async" /\ status' = "403" /\ granted' = granted /\ authorization' = authorization
  BY <1>1 DEF AuthorizeSync, Authorize, Denied
<1>4. \A c \in Pending : c.kind # "client"
  BY <1>1, NoClientYet
<1>5. /\ Pending' = Pending /\ Queue' /\ OneCopy' /\ OneReport'
      /\ \A c \in Pending' : GoodCopy(c)'
      /\ \A d \in delivered' : GoodPayload(d)'
      /\ \A i : Unreported(i) => Unreported(i)'
      /\ \A i : Client(i)' = Client(i)
  BY <1>1, <1>2, <1>3, <1>4, AsideStep
<1>6. Handler'
  BY <1>1, <1>2, <1>3, <1>5, BoundsAssumption DEF Handler, PCs, Before, SyncPCs
<1>7. AnswerTellsOutcome'
  BY <1>1, <1>2, <1>3, <1>5 DEF AnswerTellsOutcome
<1>8. QED BY <1>5, <1>6, <1>7 DEF ExInv

(* The data is not that of a HTTP request, and the handler panics.         *)
LEMMA InvokeSyncPanicsStep == ASSUME ExInv, InvokeSyncPanics PROVE ExInv'
<1>1. /\ UNCHANGED <<backlog, busy, delivered, site, event, next, granted, authorization>>
      /\ pc' = "done" /\ status' = "aborted"
  BY DEF InvokeSyncPanics
<1>2. /\ Pending' = Pending /\ Queue' /\ OneCopy' /\ OneReport'
      /\ \A c \in Pending' : GoodCopy(c)'
      /\ \A d \in delivered' : GoodPayload(d)'
      /\ \A i : Client(i)' = Client(i)
  BY <1>1, AsideStep
<1>3. Handler'
  BY <1>1, <1>2 DEF Handler, PCs, Before, SyncPCs, ExInv
<1>4. AnswerTellsOutcome'
  BY <1>1 DEF AnswerTellsOutcome
<1>5. QED BY <1>2, <1>3, <1>4 DEF ExInv

(* The extension is not an object, and the handler panics.                 *)
LEMMA AuthorizationPanicsStep == ASSUME ExInv, AuthorizationPanics PROVE ExInv'
<1>1. /\ UNCHANGED <<backlog, busy, delivered, site, event, next, granted, authorization>>
      /\ pc' = "done" /\ status' = "aborted"
  BY DEF AuthorizationPanics, AuthorizePanics
<1>2. /\ Pending' = Pending /\ Queue' /\ OneCopy' /\ OneReport'
      /\ \A c \in Pending' : GoodCopy(c)'
      /\ \A d \in delivered' : GoodPayload(d)'
      /\ \A i : Client(i)' = Client(i)
  BY <1>1, AsideStep
<1>3. Handler'
  BY <1>1, <1>2 DEF Handler, PCs, Before, SyncPCs, ExInv
<1>4. AnswerTellsOutcome'
  BY <1>1 DEF AnswerTellsOutcome
<1>5. QED BY <1>2, <1>3, <1>4 DEF ExInv

(* The answer is sent.                                                     *)
LEMMA FinishStep == ASSUME ExInv, Finish PROVE ExInv'
<1>1. /\ UNCHANGED <<backlog, busy, delivered, site, event, next, granted, authorization>>
      /\ pc' = "done" /\ status' = IF site.sync THEN status ELSE "202"
      /\ pc = "async" /\ next \notin Async
  BY DEF Finish, sharedVars
<1>2. /\ Pending' = Pending /\ Queue' /\ OneCopy' /\ OneReport'
      /\ \A c \in Pending' : GoodCopy(c)'
      /\ \A d \in delivered' : GoodPayload(d)'
      /\ \A i : Client(i)' = Client(i)
  BY <1>1, AsideStep
<1>3. Handler'
  BY <1>1, <1>2 DEF Handler, PCs, Before, SyncPCs, ExInv
<1>4. next > AsyncCount
  BY <1>1, BoundsAssumption DEF Async, ExInv, Handler
<1>5. AnswerTellsOutcome'
  BY <1>1, <1>2, <1>4 DEF AnswerTellsOutcome, ExInv
<1>6. QED BY <1>2, <1>3, <1>5 DEF ExInv

(* What is queued about subscriber i has its extensions.                   *)
LEMMA PrivateCopy ==
    ASSUME NEW k, NEW i, NEW c, c = Copy(k, i, Private(i))
    PROVE  c.kind = k /\ c.of = i /\ (c.private <=> Private(i))
<1>1. CASE Private(i)
  <2>1. c = Copy(k, i, TRUE)
    BY <1>1, Zenon
  <2>2. QED BY <1>1, <2>1 DEF Copy
<1>2. CASE ~Private(i)
  <2>1. c = Copy(k, i, FALSE)
    <3>1. Private(i) = FALSE
      BY <1>2, Zenon DEF Private
    <3>2. QED BY <3>1, Zenon
  <2>2. QED BY <1>2, <2>1 DEF Copy
<1>3. QED BY <1>1, <1>2

(* The call of the sync function is reported.                              *)
LEMMA InvokeSyncStep == ASSUME ExInv, InvokeSync PROVE ExInv'
<1>1. /\ pc = "invoking" /\ pc \in SyncPCs
      /\ next = 1 /\ status = "none" /\ Unreported(0) /\ Client(0) = {}
      /\ 0 \in site.authorizers => 0 \in granted
  BY DEF ExInv, InvokeSync, Handler, SyncPCs
<1>2. /\ UNCHANGED <<busy, delivered, site, event, next, granted, authorization>>
      /\ \/ pc' = "call" /\ status' = status
         \/ pc' = "async" /\ status' = "500"
  BY Zenon DEF InvokeSync
<1>3. PICK c : c = Copy("invoking", 0, Private(0))
  OBVIOUS
<1>4. c.kind = "invoking" /\ c.of = 0 /\ (c.private <=> Private(0))
  BY <1>3, PrivateCopy
<1>5. Added(backlog, backlog', c)
  BY <1>3, EmitAdds DEF InvokeSync
<1>6. Queue' /\ OneCopy' /\ Pending' \subseteq Pending \cup {c}
  BY <1>2, <1>4, <1>5, QueueAdd DEF ExInv
<1>7. /\ \A x \in Pending : GoodCopy(x)'
      /\ \A d \in delivered' : GoodPayload(d)'
  BY <1>1, <1>2, Kept DEF ExInv
<1>8. GoodCopy(c)'
  BY <1>1, <1>2, <1>4 DEF GoodCopy, Kinds, SystemKinds, Reports, Private
<1>9. OneReport' /\ \A i : Unreported(i) => Unreported(i)'
  <2>1. \A x \in Pending' \cup delivered' : x.kind \in Reports =>
            \E y \in Pending \cup delivered : y.kind = x.kind /\ y.of = x.of
    BY <1>2, <1>4, <1>6 DEF Reports
  <2>2. \A x \in Pending' : x.kind = "client" => Unreported(x.of)
    BY <1>4, <1>6 DEF ExInv, OneReport
  <2>3. QED BY <2>1, <2>2, QuietStep DEF ExInv
<1>10. \A i : Client(i)' = Client(i)
  BY <1>2 DEF Client
<1>11. Handler'
  BY <1>1, <1>2, <1>9, <1>10 DEF Handler, PCs, Before, SyncPCs, ExInv
<1>12. AnswerTellsOutcome'
  BY <1>1, <1>2 DEF AnswerTellsOutcome
<1>13. QED BY <1>6, <1>7, <1>8, <1>9, <1>11, <1>12 DEF ExInv

(* callFunction reports only calls that were made, of the copy it has.     *)
LEMMA ReportedAs ==
    ASSUME NEW q, NEW c, NEW r
    PROVE  /\ Told(c, r) \subseteq {Marshal(c)}
           /\ \/ Reported(q, c, r) = q
              \/ /\ c.kind = "client" /\ Told(c, r) = {Marshal(c)}
                 /\ \E p :
                       /\ p.kind \in Reports /\ p.of = c.of /\ p.private = c.private
                       /\ Added(q, Reported(q, c, r), p)
<1>1. Told(c, r) \subseteq {Marshal(c)}
  BY DEF Told
<1>2. CASE c.kind # "client"
  BY <1>1, <1>2 DEF Reported
<1>3. CASE c.kind = "client" /\ r.ok
  <2>1. PICK x : x = Marshal(c)
    OBVIOUS
  <2>2. PICK p : p = [Copy("invoked", c.of, c.private) EXCEPT !.result = x, !.output = r]
    OBVIOUS
  <2>3. Reported(q, c, r) = Emit(q, p) /\ Told(c, r) = {Marshal(c)}
    BY <1>3, <2>1, <2>2 DEF Reported, Told
  <2>4. p.kind = "invoked" /\ p.of = c.of /\ p.private = c.private
    BY <2>2, ReportFields
  <2>5. "invoked" \in Reports
    BY DEF Reports
  <2>6. QED BY <1>1, <1>3, <2>3, <2>4, <2>5, EmitAdds
<1>4. CASE c.kind = "client" /\ ~r.ok /\ r.error # "lookup"
  <2>1. PICK p : p = Copy("failed", c.of, c.private)
    OBVIOUS
  <2>2. Reported(q, c, r) = Emit(q, p) /\ Told(c, r) = {Marshal(c)}
    BY <1>4, <2>1 DEF Reported, Told
  <2>3. p.kind = "failed" /\ p.of = c.of /\ p.private = c.private
    BY <2>1, CopyFields
  <2>4. "failed" \in Reports
    BY DEF Reports
  <2>5. QED BY <1>1, <1>4, <2>2, <2>3, <2>4, EmitAdds
<1>5. CASE c.kind = "client" /\ ~r.ok /\ r.error = "lookup"
  BY <1>1, <1>5 DEF Reported
<1>6. QED BY <1>2, <1>3, <1>4, <1>5

(* The event is queued for a subscriber.                                   *)
LEMMA HandleAsyncStep == ASSUME ExInv, HandleAsyncSubscription PROVE ExInv'
<1>1. /\ pc = "async" /\ pc' = pc /\ next \in Nat /\ next >= 1 /\ next \in Async /\ next' = next + 1
      /\ granted \subseteq 0..(next - 1)
      /\ event.eventgateway \in ExtensionKinds
      /\ authorization # None => authorization \in granted /\ event.eventgateway = "object"
      /\ UNCHANGED <<busy, delivered, site, event, status>>
  BY DEF ExInv, HandleAsyncSubscription, Handler
<1>2. PICK c : c = Copy("client", next, Private(next))
  OBVIOUS
<1>3. c.kind = "client" /\ c.of = next /\ (c.private <=> Private(next))
  BY <1>2, PrivateCopy
<1>4. /\ granted \subseteq granted' /\ granted' \subseteq granted \cup {next}
      /\ \/ authorization' = authorization
         \/ authorization' = next /\ next \in granted' /\ event.eventgateway = "object"
      /\ \/ backlog' = backlog
         \/ /\ Added(backlog, backlog', c)
            /\ next \in site.authorizers =>
                  /\ next \in granted' /\ event.eventgateway # "other"
                  /\ event.eventgateway = "object" => authorization' = next
  BY <1>2, EmitAdds DEF HandleAsyncSubscription, Authorize, Denied
<1>5. \A x \in Pending \cup delivered : x.kind \in Reports \cup {"client"} => x.of \in 0..(next - 1)
  BY DEF ExInv, GoodCopy, GoodPayload, Reports
<1>6. \A x \in Pending : x.kind = "client" => x.of # c.of /\ next >= x.of
  BY <1>1, <1>3, <1>5
<1>7. Queue' /\ OneCopy' /\ Pending' \subseteq Pending \cup {c} /\ (backlog' = backlog => Pending' = Pending)
  <2>1. CASE backlog' = backlog
    BY <1>1, <2>1, NothingPending DEF ExInv
  <2>2. CASE backlog' # backlog
    BY <1>1, <1>4, <1>6, <2>2, QueueAdd DEF ExInv
  <2>3. QED BY <2>1, <2>2
<1>8. /\ \A x \in Pending : GoodCopy(x)'
      /\ \A d \in delivered' : GoodPayload(d)'
  BY <1>1, <1>4, <1>6, Kept DEF ExInv
<1>9. ASSUME backlog' # backlog PROVE GoodCopy(c)'
  <2>1. /\ next \in site.authorizers =>
             /\ next \in granted' /\ event.eventgateway # "other"
             /\ event.eventgateway = "object" => authorization' = next
    BY <1>4, <1>9
  <2>2. next \in 0..(next' - 1) /\ next # 0 /\ next >= next
    BY <1>1
  <2>3. next \in site.authorizers /\ ~c.private => authorization' = next
    BY <1>1, <1>3, <2>1 DEF Private, ExtensionKinds
  <2>4. "client" \in Kinds /\ "client" \notin Reports
    BY DEF Kinds, Reports
  <2>5. QED BY <1>1, <1>3, <2>1, <2>2, <2>3, <2>4 DEF GoodCopy, Private
<1>10. \A x \in Pending' : GoodCopy(x)'
  BY <1>7, <1>8, <1>9
<1>11. OneReport' /\ \A i : Unreported(i) => Unreported(i)'
  <2>1. \A x \in Pending' \cup delivered' : x.kind \in Reports =>
            \E y \in Pending \cup delivered : y.kind = x.kind /\ y.of = x.of
    BY <1>1, <1>3, <1>7 DEF Reports
  <2>2. Unreported(next)
    BY <1>1, <1>5 DEF Unreported
  <2>3. \A x \in Pending' : x.kind = "client" => Unreported(x.of)
    BY <1>3, <1>7, <2>2 DEF ExInv, OneReport
  <2>4. QED BY <2>1, <2>3, QuietStep DEF ExInv
<1>12. \A i : Client(i)' = Client(i)
  BY <1>1 DEF Client
<1>13. Handler'
  <2>1. next' \in 1..(AsyncCount + 1)
    BY <1>1, BoundsAssumption DEF Async
  <2>2. granted' \subseteq 0..(next' - 1)
    BY <1>1, <1>4
  <2>3. authorization' # None => authorization' \in granted' /\ event'.eventgateway = "object"
    BY <1>1, <1>4
  <2>4. QED BY <1>1, <2>1, <2>2, <2>3 DEF Handler, PCs, Before, SyncPCs, ExInv
<1>14. AnswerTellsOutcome'
  BY <1>1, <1>4, <1>12, BoundsAssumption DEF AnswerTellsOutcome, ExInv
<1>15. QED BY <1>7, <1>8, <1>10, <1>11, <1>13, <1>14 DEF ExInv

(* The sync function finds its own authorizer's answer.                    *)
LEMMA SyncPayload ==
    ASSUME ExInv, pc = "call", NEW c, c.kind = "client", c.of = 0, c.private <=> Private(0)
    PROVE  GoodPayload(Marshal(c))
<1>1. /\ next = 1
      /\ 0 \in site.authorizers =>
            /\ 0 \in granted /\ event.eventgateway # "other"
            /\ event.eventgateway = "object" => authorization = 0
      /\ event.eventgateway \in ExtensionKinds
      /\ authorization # None => authorization \in granted /\ event.eventgateway = "object"
  BY DEF ExInv, Handler, SyncPCs
<1>2. PICK d : d = Marshal(c)
  OBVIOUS
<1>3. /\ d.kind = "client" /\ d.of = 0
      /\ d.authorization = IF c.private THEN 0 ELSE authorization
      /\ d.names = IF c.private THEN NoNames ELSE event.names
  BY <1>2, MarshalFields
<1>4. OwnOrLater(d)
  <2>1. CASE 0 \in site.authorizers
    <3>1. d.authorization = 0
      BY <1>1, <1>3, <2>1 DEF Private, ExtensionKinds
    <3>2. QED BY <1>1, <1>3, <2>1, <3>1 DEF OwnOrLater
  <2>2. CASE 0 \notin site.authorizers
    BY <1>1, <1>3, <2>2 DEF OwnOrLater, Private
  <2>3. QED BY <2>1, <2>2
<1>5. d.names # event.names => d.of \in granted /\ event.eventgateway = "none"
  BY <1>1, <1>3 DEF Private
<1>6. "client" \notin Reports /\ 0 \in 0..(next - 1)
  BY <1>1 DEF Reports
<1>7. QED BY <1>1, <1>2, <1>3, <1>4, <1>5, <1>6 DEF GoodPayload

(* The sync function is called and the result is reported.                 *)
LEMMA CallSyncStep == ASSUME ExInv, CallSync PROVE ExInv'
<1>1. /\ pc = "call" /\ pc \in SyncPCs /\ pc' = "async"
      /\ next = 1 /\ Unreported(0) /\ Client(0) = {}
      /\ 0 \in site.authorizers => 0 \in granted
      /\ UNCHANGED <<busy, site, event, next, granted, authorization>>
  BY DEF ExInv, CallSync, Handler, SyncPCs, sharedVars
<1>2. PICK c : c = Copy("client", 0, Private(0))
  OBVIOUS
<1>3. c.kind = "client" /\ c.of = 0 /\ (c.private <=> Private(0))
  BY <1>2, PrivateCopy
<1>4. PICK r \in Results(0) :
          /\ delivered' = delivered \cup Told(c, r)
          /\ backlog' = Reported(backlog, c, r)
          /\ status' = AnswerOf(r)
  BY <1>2 DEF CallSync
<1>5. PICK d : d = Marshal(c)
  OBVIOUS
<1>6. d.kind = "client" /\ d.of = 0 /\ GoodPayload(d)
  BY <1>1, <1>3, <1>5, MarshalFields, SyncPayload
<1>7. /\ delivered \subseteq delivered' /\ delivered' \subseteq delivered \cup {d}
      /\ \/ backlog' = backlog
         \/ /\ d \in delivered'
            /\ \E p :
                  /\ p.kind \in Reports /\ p.of = 0 /\ p.private = c.private
                  /\ Added(backlog, backlog', p)
  BY <1>3, <1>4, <1>5, ReportedAs
<1>8. \A x \in Pending : x.kind # "client"
  BY <1>1, NoClientYet
<1>9. /\ \A x \in Pending : GoodCopy(x)'
      /\ \A x \in delivered' : GoodPayload(x)'
  BY <1>1, <1>6, <1>7, Kept DEF ExInv
<1>10. AnswerTellsOutcome'
  <2>1. status' = "function" => r = Success("response")
    BY <1>4 DEF AnswerOf
  <2>2. r = Success("response") => d \in delivered'
    BY <1>4, <1>5 DEF Success, Told
  <2>3. r = Success("response") => site.functions[0].type \notin Streams
    BY ResponseFromFunction
  <2>4. d \in delivered' => Client(0)' # {}
    BY <1>6 DEF Client
  <2>5. status' \in {"function", "500"}
    BY <1>4 DEF AnswerOf
  <2>6. QED BY <1>1, <2>1, <2>2, <2>3, <2>4, <2>5 DEF AnswerTellsOutcome
<1>11. Handler'
  BY <1>1 DEF Handler, PCs, Before, SyncPCs, ExInv
<1>12. "client" \notin Reports /\ Reports \subseteq Kinds /\ "received" \notin Reports
  BY DEF Reports, Kinds, SystemKinds
<1>13. CASE backlog' = backlog
  <2>1. Pending' = Pending /\ Queue' /\ OneCopy'
    BY <1>1, <1>13, NothingPending DEF ExInv
  <2>2. \A x \in Pending' \cup delivered' : x.kind \in Reports =>
            \E y \in Pending \cup delivered : y.kind = x.kind /\ y.of = x.of
    BY <1>6, <1>7, <1>12, <2>1
  <2>3. OneReport'
    BY <1>8, <2>1, <2>2, QuietStep DEF ExInv
  <2>4. QED BY <1>9, <1>10, <1>11, <2>1, <2>3 DEF ExInv
<1>14. CASE backlog' # backlog
  <2>1. d \in delivered'
    BY <1>7, <1>14
  <2>2. PICK p :
           /\ p.kind \in Reports /\ p.of = 0 /\ p.private = c.private
           /\ Added(backlog, backlog', p)
    BY <1>7, <1>14
  <2>kind. PICK k \in Reports : p.kind = k
    BY <2>2
  <2>3. Queue' /\ OneCopy' /\ Pending' \subseteq Pending \cup {p}
    BY <1>1, <1>12, <2>2, QueueAdd DEF ExInv
  <2>4. Client(0)' # {}
    BY <1>6, <2>1 DEF Client
  <2>5. GoodCopy(p)'
    BY <1>1, <1>3, <1>12, <2>2, <2>4 DEF GoodCopy, Private
  <2>6. \A x \in Pending' \cup delivered' : x.kind \in Reports =>
            \/ \E y \in Pending \cup delivered : y.kind = x.kind /\ y.of = x.of
            \/ x.kind = k /\ x.of = 0
    BY <1>6, <1>7, <1>12, <2>2, <2>3, <2>kind
  <2>7. \A x \in Pending' : x.kind # "client"
    BY <1>8, <1>12, <2>2, <2>3
  <2>8. OneReport'
    BY <1>1, <2>6, <2>7, ReportingStep DEF ExInv
  <2>9. QED BY <1>9, <1>10, <1>11, <2>3, <2>5, <2>8 DEF ExInv
<1>15. QED BY <1>13, <1>14

-----------------------------------------------------------------------------
(***************************************************************************)
(* The workers' steps.                                                     *)
(***************************************************************************)

(* A worker takes a copy.                                                  *)
LEMMA TakeStep == ASSUME ExInv, NEW w \in Workers, Take(w) PROVE ExInv'
<1>1. /\ UNCHANGED <<pc, event, site, next, status, granted, authorization, delivered>>
      /\ busy[w] = None /\ backlog # <<>>
  BY DEF Take, handlerVars, sharedVars
<1>2. PICK c : c = Head(backlog)
  OBVIOUS
<1>3. c \in Pending
  <2>1. PICK S : backlog \in Seq(S)
    BY DEF ExInv, Queue
  <2>2. 1 \in DOMAIN backlog /\ c = backlog[1]
    BY <1>1, <1>2, <2>1
  <2>3. QED BY <2>2 DEF Pending
<1>4. PICK p : p = Copy("invoking", c.of, c.private)
  OBVIOUS
<1>5. p.kind = "invoking" /\ p.of = c.of /\ p.private = c.private
  BY <1>4, CopyFields
<1>6. /\ busy' = busy \/ busy' = [busy EXCEPT ![w] = Head(backlog)]
      /\ \/ backlog' = Tail(backlog)
         \/ c.kind = "client" /\ Added(Tail(backlog), backlog', p)
  BY <1>2, <1>4, EmitAdds DEF Take, Added
<1>7. Queue' /\ OneCopy' /\ Pending' \subseteq Pending \cup {p} /\ (c.kind # "client" => Pending' \subseteq Pending)
  <2>1. Added(Tail(backlog), backlog', p)
    BY <1>6 DEF Added
  <2>2. Queue' /\ OneCopy' /\ Pending' \subseteq Pending \cup {p}
    BY <1>1, <1>5, <1>6, <2>1, TakeShape DEF ExInv
  <2>3. ASSUME c.kind # "client" PROVE Pending' \subseteq Pending
    <3>1. Added(Tail(backlog), backlog', c)
      BY <1>6, <2>3 DEF Added
    <3>2. Pending' \subseteq Pending \cup {c}
      BY <1>1, <1>6, <2>3, <3>1, TakeShape DEF ExInv
    <3>3. QED BY <1>3, <3>2
  <2>4. QED BY <2>2, <2>3
<1>8. /\ \A x \in Pending : GoodCopy(x)'
      /\ \A d \in delivered' : GoodPayload(d)'
  BY <1>1, Kept DEF ExInv, Handler
<1>9. c.kind = "client" => GoodCopy(p)'
  <2>1. GoodCopy(c)'
    BY <1>3, <1>8
  <2>2. QED BY <2>1, <1>5 DEF GoodCopy, Kinds, SystemKinds, Reports, Private
<1>10. OneReport' /\ \A i : Unreported(i) => Unreported(i)'
  <2>1. \A x \in Pending' \cup delivered' : x.kind \in Reports =>
            \E y \in Pending \cup delivered : y.kind = x.kind /\ y.of = x.of
    BY <1>1, <1>5, <1>7 DEF Reports
  <2>2. \A x \in Pending' : x.kind = "client" => Unreported(x.of)
    BY <1>5, <1>7 DEF ExInv, OneReport
  <2>3. QED BY <2>1, <2>2, QuietStep DEF ExInv
<1>11. \A i : Client(i)' = Client(i)
  BY <1>1 DEF Client
<1>12. pc \notin Before
  BY <1>3 DEF ExInv, Handler
<1>13. Handler'
  BY <1>1, <1>10, <1>11, <1>12 DEF Handler, ExInv
<1>14. AnswerTellsOutcome'
  BY <1>1, <1>11 DEF AnswerTellsOutcome, ExInv
<1>15. QED BY <1>7, <1>8, <1>9, <1>10, <1>13, <1>14 DEF ExInv

(* A worker delivers its copy.                                             *)
LEMMA DeliverStep == ASSUME ExInv, NEW w \in Workers, Deliver(w) PROVE ExInv'
<1>1. /\ UNCHANGED <<pc, event, site, next, status, granted, authorization>>
      /\ busy[w] # None /\ busy' = [busy EXCEPT ![w] = None]
  BY DEF Deliver, handlerVars, sharedVars
<1>2. PICK c : c = busy[w]
  OBVIOUS
<1>3. c \in Pending /\ GoodCopy(c) /\ pc \notin Before
  <2>1. c \in Pending
    BY <1>1, <1>2 DEF Pending, Holding
  <2>2. QED BY <2>1 DEF ExInv, Handler
<1>4. PICK r : delivered' = delivered \cup Told(c, r) /\ backlog' = Reported(backlog, c, r)
  BY <1>2 DEF Deliver
<1>5. PICK d : d = Marshal(c)
  OBVIOUS
<1>6. d.kind = c.kind /\ d.of = c.of /\ GoodPayload(d)
  BY <1>3, <1>5, MarshalFields, GoodMarshal DEF ExInv, Handler
<1>7. /\ delivered \subseteq delivered' /\ delivered' \subseteq delivered \cup {d}
      /\ \/ backlog' = backlog
         \/ /\ c.kind = "client" /\ d \in delivered'
            /\ \E p :
                  /\ p.kind \in Reports /\ p.of = c.of /\ p.private = c.private
                  /\ Added(backlog, backlog', p)
  BY <1>4, <1>5, ReportedAs
<1>8. /\ \A x \in Pending : GoodCopy(x)'
      /\ \A x \in delivered' : GoodPayload(x)'
  BY <1>1, <1>6, <1>7, Kept DEF ExInv, Handler
<1>9. "client" \notin Reports /\ Reports \subseteq Kinds /\ "received" \notin Reports
  BY DEF Reports, Kinds, SystemKinds
<1>10. c.kind = "client" => c.of # 0 /\ c.of \in 0..(next - 1)
  BY <1>3 DEF GoodCopy
<1>11. Client(0)' = Client(0)
  BY <1>6, <1>7, <1>10 DEF Client
<1>12. AnswerTellsOutcome'
  BY <1>1, <1>11 DEF AnswerTellsOutcome, ExInv
<1>13. ASSUME Unreported(0) => Unreported(0)' PROVE Handler'
  BY <1>1, <1>3, <1>11, <1>13 DEF Handler, ExInv
<1>14. CASE backlog' = backlog
  <2>1. PICK p : p = Copy("received", None, FALSE)
    OBVIOUS
  <2>2. p.kind # "client" /\ Added(backlog, backlog', p)
    BY <1>14, <2>1 DEF Added, Copy
  <2>3. Queue' /\ OneCopy'
    BY <1>1, <2>2, DeliverShape DEF ExInv
  <2>4. Pending' \subseteq Pending
    <3>1. \A v \in Holding' : v \in Holding /\ busy'[v] = busy[v]
      BY <1>1 DEF Holding, ExInv, Queue
    <3>2. QED BY <1>14, <3>1 DEF Pending
  <2>5. \A x \in Pending' \cup delivered' : x.kind \in Reports =>
            \E y \in Pending \cup delivered : y.kind = x.kind /\ y.of = x.of
    BY <1>3, <1>6, <1>7, <2>4
  <2>6. OneReport' /\ \A i : Unreported(i) => Unreported(i)'
    <3>1. \A x \in Pending' : x.kind = "client" => Unreported(x.of)
      BY <2>4 DEF ExInv, OneReport
    <3>2. QED BY <2>5, <3>1, QuietStep DEF ExInv
  <2>7. QED BY <1>8, <1>12, <1>13, <2>3, <2>4, <2>6 DEF ExInv
<1>15. CASE backlog' # backlog
  <2>1. d \in delivered' /\ c.kind = "client"
    BY <1>7, <1>15
  <2>2. PICK p :
           /\ p.kind \in Reports /\ p.of = c.of /\ p.private = c.private
           /\ Added(backlog, backlog', p)
    BY <1>7, <1>15
  <2>kind. PICK k \in Reports : p.kind = k
    BY <2>2
  <2>3. /\ Queue' /\ OneCopy' /\ Pending' \subseteq Pending \cup {p}
        /\ \A x \in Pending' : x.kind = "client" => x.of # c.of
    BY <1>1, <1>2, <1>9, <2>1, <2>2, DeliverShape DEF ExInv
  <2>4. Client(c.of)' # {}
    BY <1>6, <2>1 DEF Client
  <2>5. GoodCopy(p)'
    <3>1. GoodCopy(c)'
      BY <1>3, <1>8
    <3>2. QED BY <1>9, <2>1, <2>2, <2>4, <3>1 DEF GoodCopy
  <2>6. \A x \in Pending' \cup delivered' : x.kind \in Reports =>
            \/ \E y \in Pending \cup delivered : y.kind = x.kind /\ y.of = x.of
            \/ x.kind = k /\ x.of = c.of
    BY <1>6, <1>7, <1>9, <2>1, <2>2, <2>3, <2>kind
  <2>7. \A x \in Pending' : x.kind = "client" => Unreported(x.of) /\ x.of # c.of
    BY <1>9, <2>2, <2>3 DEF ExInv, OneReport
  <2>8. OneReport' /\ \A j : j # c.of /\ Unreported(j) => Unreported(j)'
    <3>1. Unreported(c.of)
      BY <1>3, <2>1 DEF ExInv, OneReport
    <3>2. QED BY <2>6, <2>7, <3>1, ReportingStep DEF ExInv
  <2>9. Handler'
    BY <1>10, <1>13, <2>1, <2>8
  <2>10. QED BY <1>8, <1>12, <2>3, <2>5, <2>8, <2>9 DEF ExInv
<1>16. QED BY <1>14, <1>15

-----------------------------------------------------------------------------
(***************************************************************************)
(* The invariant and what follows from it.                                 *)
(***************************************************************************)

(* Nothing happens.                                                        *)
LEMMA ExStutter == ASSUME ExInv, UNCHANGED vars PROVE ExInv'
<1>1. UNCHANGED <<backlog, busy, delivered, site, event, next, granted, authorization, pc, status>>
  BY DEF vars
<1>2. /\ Pending' = Pending /\ Queue' /\ OneCopy' /\ OneReport'
      /\ \A c \in Pending' : GoodCopy(c)'
      /\ \A d \in delivered' : GoodPayload(d)'
      /\ \A i : Unreported(i) => Unreported(i)'
      /\ \A i : Client(i)' = Client(i)
  BY <1>1, AsideStep
<1>3. Handler' /\ AnswerTellsOutcome'
  BY <1>1, <1>2 DEF ExInv, Handler, AnswerTellsOutcome
<1>4. QED BY <1>2, <1>3 DEF ExInv

(* Every step keeps the invariant.                                         *)
LEMMA ExStep == ASSUME ExInv, [Next]_vars PROVE ExInv'
<1>1. CASE Receive BY <1>1, ReceiveStep
<1>2. CASE EmitReceived BY <1>2, EmitReceivedStep
<1>3. CASE AuthorizeSync BY <1>3, AuthorizeSyncStep
<1>4. CASE InvokeSync BY <1>4, InvokeSyncStep
<1>5. CASE InvokeSyncPanics BY <1>5, InvokeSyncPanicsStep
<1>6. CASE CallSync BY <1>6, CallSyncStep
<1>7. CASE HandleAsyncSubscription BY <1>7, HandleAsyncStep
<1>8. CASE AuthorizationPanics BY <1>8, AuthorizationPanicsStep
<1>9. CASE Finish BY <1>9, FinishStep
<1>10. ASSUME NEW w \in Workers, Take(w) PROVE ExInv' BY <1>10, TakeStep
<1>11. ASSUME NEW w \in Workers, Deliver(w) PROVE ExInv' BY <1>11, DeliverStep
<1>12. CASE UNCHANGED vars BY <1>12, ExStutter
<1>13. QED
  BY <1>1, <1>2, <1>3, <1>4, <1>5, <1>6, <1>7, <1>8, <1>9, <1>10, <1>11, <1>12 DEF Next

(* Whatever requests, sites, backlog and workers there are: the copies on  *)
(* their way and the payloads delivered say of their subscriber only what  *)
(* its authorizer agreed to, one subscriber has one copy and one report of *)
(* it, and the answer to the client fits what was delivered.               *)
THEOREM ExchangeInductive == Spec => []ExInv
BY ExInit, ExStep, PTL DEF Spec

(* router.go, handleAsyncSubscriptions and handleSyncSubscription: no      *)
(* function is called with the client's event unless its space has no      *)
(* authorizer or the authorizer agreed.                                    *)
THEOREM CallsAreAuthorized == Spec => []AuthorizedOnly
<1>1. ExInv => AuthorizedOnly
  BY DEF ExInv, AuthorizedOnly, GoodPayload, Client
<1>2. QED BY <1>1, ExchangeInductive, PTL

(* authorizeEventType writes its answer to an object the copies may share: *)
(* a function sees its own authorizer's answer or that of a later          *)
(* subscriber, never an earlier one's or none.                             *)
THEOREM AnswersOwnOrLater == Spec => []AuthorizationOwnOrLater
<1>1. ExInv => AuthorizationOwnOrLater
  BY DEF ExInv, AuthorizationOwnOrLater, GoodPayload, OwnOrLater
<1>2. QED BY <1>1, ExchangeInductive, PTL

(* The extensions a client sent are lost only for a subscriber whose       *)
(* authorizer agreed to an event without the extension "eventgateway".     *)
THEOREM ExtensionsLostOnlyByAuthorizer == Spec => []ExtensionsDelivered
<1>1. ExInv => ExtensionsDelivered
  BY DEF ExInv, ExtensionsDelivered, GoodPayload
<1>2. QED BY <1>1, ExchangeInductive, PTL

(* callFunction: a listener hears of a call that was made, and hears one   *)
(* end of it.                                                              *)
THEOREM ReportsAreTrue == Spec => []ReportsTrue
<1>1. ASSUME ExInv PROVE ReportsTrue
  <2> SUFFICES ASSUME NEW d \in delivered, d.kind \in Reports
               PROVE  /\ Client(d.of) # {}
                      /\ ~ \E e \in delivered :
                            e.of = d.of /\ e.kind = IF d.kind = "invoked" THEN "failed" ELSE "invoked"
    BY DEF ReportsTrue, Reports
  <2>1. Client(d.of) # {}
    BY <1>1 DEF ExInv, GoodPayload
  <2>2. ASSUME NEW e \in delivered, e.of = d.of,
               e.kind = IF d.kind = "invoked" THEN "failed" ELSE "invoked"
        PROVE  FALSE
    BY <1>1, <2>2 DEF ExInv, OneReport, Reports
  <2>3. QED BY <2>1, <2>2
<1>2. QED BY <1>1, ExchangeInductive, PTL

(* httpRequestHandler: the status the client gets is true of what happened *)
(* to its event.                                                           *)
THEOREM AnswersAreTrue == Spec => []AnswerTellsOutcome
<1>1. ExInv => AnswerTellsOutcome
  BY DEF ExInv
<1>2. QED BY <1>1, ExchangeInductive, PTL

-----------------------------------------------------------------------------
(***************************************************************************)
(* Types.                                                                  *)
(***************************************************************************)
Whole(c) ==
    \E X, Y : c \in [kind : Kinds, of : Subscribers \cup {None}, private : BOOLEAN,
                     result : X, output : Y]

TypeInv ==
    /\ params \in BOOLEAN /\ crashed \in BOOLEAN
    /\ status \in Statuses
    /\ \A c \in Pending : Whole(c)

(* A copy of a subscriber's event, and one made after another, is whole.   *)
LEMMA WholeCopy ==
    ASSUME NEW k \in Kinds, NEW i \in Subscribers \cup {None}, NEW b \in BOOLEAN, NEW x, NEW y
    PROVE  /\ Whole(Copy(k, i, b))
           /\ Whole([Copy(k, i, b) EXCEPT !.result = x, !.output = y])
<1>1. Copy(k, i, b) \in [kind : Kinds, of : Subscribers \cup {None}, private : BOOLEAN,
                         result : {None}, output : {None}]
  BY DEF Copy
<1>2. [Copy(k, i, b) EXCEPT !.result = x, !.output = y]
          \in [kind : Kinds, of : Subscribers \cup {None}, private : BOOLEAN,
               result : {x}, output : {y}]
  BY <1>1
<1>3. QED BY <1>1, <1>2 DEF Whole

(* A copy made for the subscriber of a whole copy is whole.                *)
LEMMA WholeAgain ==
    ASSUME NEW k \in Kinds, NEW c, Whole(c), NEW x, NEW y
    PROVE  /\ Whole(Copy(k, c.of, c.private))
           /\ Whole([Copy(k, c.of, c.private) EXCEPT !.result = x, !.output = y])
<1>1. c.of \in Subscribers \cup {None} /\ c.private \in BOOLEAN
  BY DEF Whole
<1>2. QED BY <1>1, WholeCopy

(* One more whole copy is pending.                                         *)
LEMMA WholeAdded ==
    ASSUME TypeInv, NEW c, Whole(c), Pending' \subseteq Pending \cup {c}
    PROVE  \A x \in Pending' : Whole(x)'
BY DEF TypeInv, Whole

(* Every step keeps the types.                                             *)
LEMMA TypeInvStep == ASSUME ExInv, TypeInv, [Next]_vars PROVE TypeInv'
<1>1. ASSUME UNCHANGED <<backlog, busy>> PROVE \A x \in Pending' : Whole(x)'
  BY <1>1, NothingPending DEF TypeInv, Whole
<1>2. \A i : Private(i) \in BOOLEAN
  BY Zenon DEF Private
<1>3. {"received", "invoking", "client"} \subseteq Kinds /\ Reports \subseteq Kinds /\ "client" \notin Reports
  BY DEF Kinds, SystemKinds, Reports
<1>4. CASE Receive
  <2>1. /\ UNCHANGED <<backlog, busy, params, crashed>> /\ status' \in {status, "400", "aborted"}
    BY <1>4 DEF Receive, sharedVars
  <2>2. QED BY <1>1, <2>1 DEF TypeInv, Statuses
<1>5. CASE EmitReceived
  <2>1. UNCHANGED <<status, busy, params, crashed>>
    BY <1>5 DEF EmitReceived, sharedVars
  <2>2. PICK c : c = Copy("received", None, FALSE)
    OBVIOUS
  <2>3. Added(backlog, backlog', c)
    BY <1>5, <2>2, EmitAdds DEF EmitReceived, Added
  <2>4. Whole(c) /\ c.kind # "client"
    BY <1>3, <2>2, WholeCopy DEF Copy
  <2>5. Pending' \subseteq Pending \cup {c}
    BY <2>1, <2>3, <2>4, QueueAdd DEF ExInv
  <2>6. QED BY <2>1, <2>4, <2>5, WholeAdded DEF TypeInv
<1>6. CASE AuthorizeSync
  <2>1. UNCHANGED <<backlog, busy, params>> /\ status' \in {status, "403"}
    BY <1>6 DEF AuthorizeSync
  <2>2. crashed' \in BOOLEAN
    BY <1>6, Zenon DEF AuthorizeSync, Authorize, Denied, TypeInv, Racing
  <2>3. QED BY <1>1, <2>1, <2>2 DEF TypeInv, Statuses
<1>7. CASE InvokeSync
  <2>1. UNCHANGED <<busy, crashed>> /\ status' \in {status, "500"}
    BY <1>7, Zenon DEF InvokeSync
  <2>2. params' \in BOOLEAN
    BY <1>7, Zenon DEF InvokeSync
  <2>3. PICK c : c = Copy("invoking", 0, Private(0))
    OBVIOUS
  <2>4. Added(backlog, backlog', c)
    BY <1>7, <2>3, EmitAdds DEF InvokeSync
  <2>5. c.kind # "client"
    BY <2>3, PrivateCopy
  <2>6. Whole(c)
    <3>1. 0 \in Subscribers
      BY BoundsAssumption DEF Subscribers
    <3>2. PICK b \in BOOLEAN : c = Copy("invoking", 0, b)
      BY <1>2, <2>3
    <3>3. QED BY <1>3, <3>1, <3>2, WholeCopy
  <2>7. Pending' \subseteq Pending \cup {c}
    BY <2>1, <2>4, <2>5, QueueAdd DEF ExInv
  <2>8. QED BY <2>1, <2>2, <2>6, <2>7, WholeAdded DEF TypeInv, Statuses
<1>8. CASE InvokeSyncPanics
  BY <1>1, <1>8 DEF InvokeSyncPanics, TypeInv, Statuses
<1>9. CASE AuthorizationPanics
  BY <1>1, <1>9 DEF AuthorizationPanics, AuthorizePanics, TypeInv, Statuses
<1>10. CASE Finish
  BY <1>1, <1>10 DEF Finish, sharedVars, TypeInv, Statuses
<1>11. ASSUME NEW c, Whole(c), NEW r, backlog' = Reported(backlog, c, r)
       PROVE  \/ backlog' = backlog
              \/ \E p : Whole(p) /\ p.kind \in Reports /\ Added(backlog, backlog', p)
  <2>1. "invoked" \in Reports /\ "failed" \in Reports
    BY DEF Reports
  <2>2. CASE c.kind = "client" /\ r.ok
    <3>1. PICK x : x = Marshal(c)
      OBVIOUS
    <3>2. PICK p : p = [Copy("invoked", c.of, c.private) EXCEPT !.result = x, !.output = r]
      OBVIOUS
    <3>3. backlog' = Emit(backlog, p)
      BY <1>11, <2>2, <3>1, <3>2 DEF Reported
    <3>4. Whole(p) /\ p.kind = "invoked"
      <4>1. "invoked" \in Kinds
        BY <1>3, <2>1
      <4>2. Whole(p)
        BY <1>11, <3>2, <4>1, WholeAgain, Zenon
      <4>3. p.kind = "invoked"
        BY <3>2, ReportFields
      <4>4. QED BY <4>2, <4>3
    <3>5. QED BY <2>1, <3>3, <3>4, EmitAdds
  <2>3. CASE c.kind = "client" /\ ~r.ok
    <3>1. PICK p : p = Copy("failed", c.of, c.private)
      OBVIOUS
    <3>2. backlog' = backlog \/ backlog' = Emit(backlog, p)
      BY <1>11, <2>3, <3>1 DEF Reported
    <3>3. Whole(p) /\ p.kind = "failed"
      <4>1. "failed" \in Kinds
        BY <1>3, <2>1
      <4>2. Whole(p)
        BY <1>11, <3>1, <4>1, WholeAgain, Zenon
      <4>3. p.kind = "failed"
        BY <3>1, CopyFields
      <4>4. QED BY <4>2, <4>3
    <3>4. QED BY <2>1, <3>2, <3>3, EmitAdds
  <2>4. CASE c.kind # "client"
    BY <1>11, <2>4 DEF Reported
  <2>5. QED BY <2>2, <2>3, <2>4
<1>12. CASE CallSync
  <2>1. UNCHANGED <<busy, params, crashed>>
    BY <1>12 DEF CallSync, sharedVars
  <2>2. status' \in {"function", "500"}
    BY <1>12 DEF CallSync, AnswerOf
  <2>3. PICK c : c = Copy("client", 0, Private(0))
    OBVIOUS
  <2>4. Whole(c)
    <3>1. 0 \in Subscribers
      BY BoundsAssumption DEF Subscribers
    <3>2. PICK b \in BOOLEAN : c = Copy("client", 0, b)
      BY <1>2, <2>3
    <3>3. QED BY <1>3, <3>1, <3>2, WholeCopy
  <2>5. PICK r : backlog' = Reported(backlog, c, r)
    BY <1>12, <2>3 DEF CallSync
  <2>6. CASE backlog' = backlog
    BY <1>1, <2>1, <2>2, <2>6 DEF TypeInv, Statuses
  <2>7. CASE backlog' # backlog
    <3>1. PICK p : Whole(p) /\ p.kind \in Reports /\ Added(backlog, backlog', p)
      BY <1>11, <2>4, <2>5, <2>7
    <3>2. Pending' \subseteq Pending \cup {p}
      BY <1>3, <2>1, <3>1, QueueAdd DEF ExInv
    <3>3. QED BY <2>1, <2>2, <3>1, <3>2, WholeAdded DEF TypeInv, Statuses
  <2>8. QED BY <2>6, <2>7
<1>13. CASE HandleAsyncSubscription
  <2>1. UNCHANGED <<busy, params, status>> /\ next \in Async
    BY <1>13 DEF HandleAsyncSubscription
  <2>2. crashed' \in BOOLEAN
    BY <1>13, Zenon DEF HandleAsyncSubscription, Authorize, Denied, TypeInv, Racing
  <2>3. PICK c : c = Copy("client", next, Private(next))
    OBVIOUS
  <2>4. Added(backlog, backlog', c)
    BY <1>13, <2>3, EmitAdds DEF HandleAsyncSubscription, Added
  <2>5. Whole(c)
    <3>1. next \in Subscribers
      BY <2>1, BoundsAssumption DEF Subscribers, Async
    <3>2. PICK b \in BOOLEAN : c = Copy("client", next, b)
      BY <1>2, <2>3
    <3>3. QED BY <1>3, <3>1, <3>2, WholeCopy
  <2>6. \A x \in Pending : x.kind = "client" => x.of # c.of
    <3>1. c.of = next /\ next \in Nat
      BY <2>3, PrivateCopy DEF ExInv, Handler
    <3>2. \A x \in Pending : x.kind = "client" => x.of \in 0..(next - 1)
      BY DEF ExInv, GoodCopy
    <3>3. QED BY <3>1, <3>2
  <2>7. Pending' \subseteq Pending \cup {c}
    BY <2>1, <2>4, <2>6, QueueAdd DEF ExInv
  <2>8. QED BY <2>1, <2>2, <2>5, <2>7, WholeAdded DEF TypeInv
<1>14. ASSUME NEW w \in Workers, Take(w) PROVE TypeInv'
  <2>1. UNCHANGED <<params, crashed, status>> /\ busy[w] = None /\ backlog # <<>>
    BY <1>14 DEF Take, handlerVars, sharedVars
  <2>2. PICK c : c = Head(backlog)
    OBVIOUS
  <2>3. Whole(c)
    <3>1. PICK S : backlog \in Seq(S)
      BY DEF ExInv, Queue
    <3>2. 1 \in DOMAIN backlog /\ c = backlog[1]
      BY <2>1, <2>2, <3>1
    <3>3. QED BY <3>2 DEF Pending, TypeInv
  <2>4. PICK p : p = Copy("invoking", c.of, c.private)
    OBVIOUS
  <2>5. Whole(p) /\ p.kind # "client"
    <3>1. "invoking" \in Kinds
      BY <1>3
    <3>2. Whole(p)
      BY <2>3, <2>4, <3>1, WholeAgain, Zenon
    <3>3. p.kind = "invoking"
      BY <2>4, CopyFields
    <3>4. QED BY <3>2, <3>3
  <2>6. /\ busy' = busy \/ busy' = [busy EXCEPT ![w] = Head(backlog)]
        /\ Added(Tail(backlog), backlog', p)
    BY <1>14, <2>2, <2>4, EmitAdds DEF Take, Added
  <2>7. Pending' \subseteq Pending \cup {p}
    BY <2>1, <2>5, <2>6, TakeShape DEF ExInv
  <2>8. QED BY <2>1, <2>5, <2>7, WholeAdded DEF TypeInv
<1>15. ASSUME NEW w \in Workers, Deliver(w) PROVE TypeInv'
  <2>1. UNCHANGED <<params, crashed, status>> /\ busy[w] # None /\ busy' = [busy EXCEPT ![w] = None]
    BY <1>15 DEF Deliver, handlerVars, sharedVars
  <2>2. PICK c : c = busy[w]
    OBVIOUS
  <2>3. Whole(c)
    BY <2>1, <2>2 DEF Pending, Holding, TypeInv
  <2>4. PICK r : backlog' = Reported(backlog, c, r)
    BY <1>15, <2>2 DEF Deliver
  <2>5. PICK p : Whole(p) /\ p.kind # "client" /\ Added(backlog, backlog', p)
    <3>1. CASE backlog' = backlog
      <4>1. PICK p : p = Copy("received", None, FALSE)
        OBVIOUS
      <4>2. Whole(p) /\ p.kind # "client"
        BY <1>3, <4>1, WholeCopy DEF Copy
      <4>3. QED BY <3>1, <4>2 DEF Added
    <3>2. CASE backlog' # backlog
      BY <1>3, <1>11, <2>3, <2>4, <3>2
    <3>3. QED BY <3>1, <3>2
  <2>6. Pending' \subseteq Pending \cup {p}
    BY <2>1, <2>5, DeliverShape DEF ExInv
  <2>7. QED BY <2>1, <2>5, <2>6, WholeAdded DEF TypeInv
<1>16. CASE UNCHANGED vars
  BY <1>1, <1>16 DEF vars, TypeInv
<1>17. QED
  BY <1>4, <1>5, <1>6, <1>7, <1>8, <1>9, <1>10, <1>12, <1>13, <1>14, <1>15, <1>16 DEF Next

(* Every variable keeps its type; the backlog never exceeds its length.    *)
THEOREM ExchangeTyped == Spec => []TypeOK
<1>1. Init => TypeInv
  <2>1. Init => Pending = {}
    BY DEF Init, Pending, Holding
  <2>2. QED BY <2>1 DEF Init, TypeInv, Statuses
<1>2. ASSUME ExInv, TypeInv PROVE TypeOK
  <2>1. ASSUME NEW c \in Range(backlog) \cup Range(busy), c # None
        PROVE  [c EXCEPT !.result = None, !.output = None] \in Copies
    <3>1. c \in Pending
      BY <1>2, <2>1 DEF Range, Pending, Holding, ExInv, Queue
    <3>2. PICK X, Y : c \in [kind : Kinds, of : Subscribers \cup {None}, private : BOOLEAN,
                             result : X, output : Y]
      BY <1>2, <3>1 DEF TypeInv, Whole
    <3>3. QED BY <3>2 DEF Copies, Kinds
  <2>2. granted \subseteq Subscribers /\ authorization \in Subscribers \cup {None}
    <3>1. next \in 1..(AsyncCount + 1) /\ granted \subseteq 0..(next - 1)
      BY <1>2 DEF ExInv, Handler
    <3>2. 0..(next - 1) \subseteq 0..AsyncCount
      BY <3>1, BoundsAssumption
    <3>3. QED BY <1>2, <3>1, <3>2 DEF ExInv, Handler, Subscribers
  <2>3. pc \in {"idle", "parsed", "sync", "invoking", "call", "async", "done"}
    BY <1>2 DEF ExInv, Handler, PCs, Before, SyncPCs
  <2>4. next \in 1..(AsyncCount + 1) /\ Len(backlog) <= BacklogLength
    BY <1>2 DEF ExInv, Handler, Queue
  <2>5. QED BY <1>2, <2>1, <2>2, <2>3, <2>4 DEF TypeOK, TypeInv
<1>3. QED BY <1>1, <1>2, TypeInvStep, ExchangeInductive, PTL DEF Spec

-----------------------------------------------------------------------------
(***************************************************************************)
(* Panics of the handler.                                                  *)
(***************************************************************************)

(* What the client sent to make the handler panic.                         *)
Cause ==
    \/ event = None /\ KeyPanics(request.names)
    \/ /\ site.sync /\ Client(0) = {}
       /\ event.type = HTTPRequest /\ event.form # "http"
    \/ event.eventgateway = "other" /\ {0, next} \cap site.authorizers # {}

AbortInv ==
    /\ pc \in SyncPCs => site.sync
    /\ status = "aborted" => pc = "done" /\ Cause

(* FromRequest panics only in the loop over the headers of binary mode.    *)
LEMMA ParsingPanics ==
    ASSUME NEW r, NEW p \in FromRequest(r), p.outcome = "panic"
    PROVE  KeyPanics(r.names)
<1>1. p # Invalid /\ \A e : p # Parsed(e)
  BY DEF Invalid, Parsed
<1>2. p \in ParseAsCloudEventBinary(r)
  BY <1>1 DEF FromRequest
<1>3. SUFFICES ASSUME ~KeyPanics(r.names) PROVE FALSE
  OBVIOUS
<1>4. \E e : p = Parsed(e)
  BY <1>1, <1>2, <1>3 DEF ParseAsCloudEventBinary
<1>5. QED BY <1>1, <1>4

(* No worker calls the sync subscriber: its copy is never queued.          *)
LEMMA WorkersSpareSync ==
    ASSUME ExInv, NEW w \in Workers, Deliver(w)
    PROVE  Client(0)' = Client(0)
<1>1. PICK c : c = busy[w]
  OBVIOUS
<1>2. c \in Pending /\ GoodCopy(c)
  <2>1. c \in Pending
    BY <1>1 DEF Deliver, Pending, Holding
  <2>2. QED BY <2>1 DEF ExInv
<1>3. PICK r : delivered' = delivered \cup Told(c, r)
  BY <1>1 DEF Deliver
<1>4. PICK d : d = Marshal(c)
  OBVIOUS
<1>5. d.kind = c.kind /\ d.of = c.of
  BY <1>4, MarshalFields
<1>6. delivered \subseteq delivered' /\ delivered' \subseteq delivered \cup {d}
  BY <1>3, <1>4 DEF Told
<1>7. ~(d.kind = "client" /\ d.of = 0)
  BY <1>2, <1>5 DEF GoodCopy
<1>8. QED BY <1>6, <1>7 DEF Client

(* Every step keeps the cause of a panic.                                  *)
LEMMA AbortStep == ASSUME ExInv, AbortInv, [Next]_vars PROVE AbortInv'
<1>1. CASE Receive
  <2>1. pc = "idle" /\ status = "none"
    BY <1>1 DEF Receive, ExInv, Handler, Before
  <2>2. PICK r, p :
          /\ p \in FromRequest(r) /\ request' = r
          /\ \/ pc' = "parsed" /\ status' = status
             \/ pc' = "done" /\ status' = "400"
             \/ p.outcome = "panic" /\ event' = None /\ pc' = "done" /\ status' = "aborted"
    BY <1>1 DEF Receive
  <2>3. CASE p.outcome = "panic" /\ event' = None /\ pc' = "done" /\ status' = "aborted"
    <3>1. event' = None /\ KeyPanics(request'.names)
      BY <2>2, <2>3, ParsingPanics
    <3>2. Cause'
      BY <3>1 DEF Cause
    <3>3. QED BY <2>3, <3>2 DEF AbortInv, SyncPCs
  <2>4. CASE pc' \in {"parsed", "done"} /\ status' \in {"none", "400"}
    BY <2>4 DEF AbortInv, SyncPCs
  <2>5. QED BY <2>1, <2>2, <2>3, <2>4
<1>2. CASE EmitReceived
  <2>1. status' = "none"
    BY <1>2 DEF EmitReceived, ExInv, Handler, Before
  <2>2. PICK s : site' = s /\ pc' \in {"done", IF s.sync THEN "sync" ELSE "async"}
    BY <1>2 DEF EmitReceived
  <2>3. QED BY <2>1, <2>2 DEF AbortInv, SyncPCs
<1>3. CASE AuthorizeSync \/ CallSync
  <2>1. pc \in SyncPCs /\ site' = site /\ status = "none"
    BY <1>3 DEF AuthorizeSync, CallSync, ExInv, Handler, SyncPCs
  <2>2. status' # "aborted"
    BY <1>3, <2>1 DEF AuthorizeSync, CallSync, AnswerOf
  <2>3. QED BY <2>1, <2>2 DEF AbortInv
<1>4. CASE InvokeSync
  <2>1. pc \in SyncPCs /\ site' = site /\ status = "none"
    BY <1>4 DEF InvokeSync, ExInv, Handler, SyncPCs
  <2>2. status' \in {status, "500"}
    BY <1>4, Zenon DEF InvokeSync
  <2>3. QED BY <2>1, <2>2 DEF AbortInv
<1>5. CASE InvokeSyncPanics
  <2>1. /\ pc \in SyncPCs /\ site.sync /\ Client(0) = {}
        /\ event.type = HTTPRequest /\ event.form # "http"
    BY <1>5 DEF InvokeSyncPanics, ExInv, Handler, SyncPCs, AbortInv
  <2>2. UNCHANGED <<site, event, delivered>> /\ pc' = "done"
    BY <1>5 DEF InvokeSyncPanics
  <2>3. Client(0)' = {}
    BY <2>1, <2>2 DEF Client
  <2>4. Cause'
    BY <2>1, <2>2, <2>3 DEF Cause
  <2>5. QED BY <2>2, <2>4 DEF AbortInv, SyncPCs
<1>6. CASE AuthorizationPanics
  <2>1. /\ event.eventgateway = "other" /\ {0, next} \cap site.authorizers # {}
        /\ UNCHANGED <<site, event, next>> /\ pc' = "done"
    BY <1>6 DEF AuthorizationPanics, AuthorizePanics
  <2>2. Cause'
    BY <2>1 DEF Cause
  <2>3. QED BY <2>1, <2>2 DEF AbortInv, SyncPCs
<1>7. CASE HandleAsyncSubscription
  BY <1>7 DEF HandleAsyncSubscription, AbortInv, SyncPCs
<1>8. CASE Finish
  <2>1. pc = "async" /\ pc' = "done" /\ status' \in {status, "202"}
    BY <1>8 DEF Finish
  <2>2. QED BY <2>1 DEF AbortInv, SyncPCs
<1>9. ASSUME NEW w \in Workers, Take(w) \/ Deliver(w) PROVE AbortInv'
  <2>1. UNCHANGED handlerVars
    BY <1>9 DEF Take, Deliver
  <2>2. Client(0)' = Client(0)
    <3>1. CASE Take(w)
      BY <3>1 DEF Take, Client
    <3>2. CASE Deliver(w)
      BY <3>2, WorkersSpareSync
    <3>3. QED BY <1>9, <3>1, <3>2
  <2>3. QED BY <2>1, <2>2 DEF handlerVars, AbortInv, Cause
<1>10. CASE UNCHANGED vars
  BY <1>10 DEF vars, AbortInv, Cause, Client
<1>11. QED
  BY <1>1, <1>2, <1>3, <1>4, <1>5, <1>6, <1>7, <1>8, <1>9, <1>10 DEF Next

(* event.go:200, router.go:180 and router.go:347: whatever requests, sites *)
(* and workers there are, a handler panics only for one of these three     *)
(* inputs, and an async subscriber whose turn had not come when it did is  *)
(* never called.                                                           *)
THEOREM AbortsAreContained == Spec => []AbortsContained
<1>1. Init => AbortInv
  BY DEF Init, AbortInv, SyncPCs
<1>2. ASSUME ExInv, AbortInv PROVE AbortsContained
  <2>1. ASSUME NEW i \in Async, i >= next, Client(i) # {} PROVE FALSE
    <3>1. PICK d \in delivered : d.kind = "client" /\ d.of = i
      BY <2>1 DEF Client
    <3>2. i \in 0..(next - 1) /\ next \in 1..(AsyncCount + 1)
      BY <1>2, <3>1 DEF ExInv, GoodPayload, Handler
    <3>3. QED BY <2>1, <3>2, BoundsAssumption DEF Async
  <2>2. QED BY <1>2, <2>1 DEF AbortsContained, AbortInv, Cause
<1>3. QED BY <1>1, <1>2, AbortStep, ExchangeInductive, PTL DEF Spec
=============================================================================
