-------------------------- MODULE PeerWritesProofs --------------------------
(* Proofs about PeerWrites for any two gateways, any number of ordinary API  *)
(* workers, any capacity of the queues, any set of items and any number of   *)
(* client writes and faults.                                                 *)
EXTENDS PeerWrites, TLAPS

-----------------------------------------------------------------------------
(* The inductive invariant. *)

Caller == Node \X Thread
(* What the requests about the pair itself are called. *)
Asks == {"peer_status", "activate", "yield"}
Onward == {"reply", "save", "reconcile", "generated", "undone"}
State == [at : {"idle", "group", "save", "reconcile", "ha", "peer", "call"},
          req : Request \cup {NoRequest}, doc : SUBSET Item,
          got : {"none", "ok", "error"},
          next : Onward]

(* The variables have their types; a thread is idle or has a request. *)
QueueType == queue \in [Node -> [Pools -> Seq(Request)]]
ThreadType ==
    /\ thr \in [Node -> [Thread -> State]]
    /\ \A n \in Node, t \in Thread : thr[n][t].at # "idle" => thr[n][t].req \in Request
ClientType ==
    /\ reply \in [Id -> {"none", "ok", "error"}]
    /\ asked \in Seq(Kind \X Operation) /\ Len(asked) <= MaxRequests
DidType == did \in [Id -> SUBSET (Node \cup {"group", "generated"})]
RestType ==
    /\ active \in [Node -> Node]
    /\ docs \in [Node -> [Document -> SUBSET Item]]
    /\ faults \in 0..MaxFaults
    /\ calm \in BOOLEAN
Bounded == \A n \in Node, p \in Pools : Len(queue[n][p]) <= QueueCap

(* A caller's request under way: in a queue, or with a thread that serves it. *)
Busy(n, t) == thr[n][t].at # "idle"

(* What is done for a write, as far as an answer "ok" to a request promises it. *)
Promise(r, n, done) ==
    /\ r.path = "replica" => n \in done
    /\ r.path = "group" => "group" \in done
    /\ r.path \in {"save", "active"} => Node \subseteq done /\ (Reconciles(r) => "generated" \in done)
    /\ r.path = "save" /\ r.op = "prune" => "group" \in done

(* A request at node n fits the call its caller <<m, u>> is waiting in. *)
Answers(n, r, m, s, done) ==
    /\ n = Peer[m]
    /\ s.at = "call" /\ s.got = "none"
    /\ r.id = s.req.id /\ r.kind = s.req.kind
    /\ r.path = "group" => s.next \in {"save", "generated"}
    /\ r.path = "replica" => /\ s.next \in {"reconcile", "reply"} /\ m \in done
                             /\ s.next = "reply" => ~Reconciles(s.req)
    /\ r.path = "active" => s.next = "reply" /\ s.req.path = "save"
    /\ r.path \in Asks <=> s.req.path = "ha"

(* Only clients send "save" and "ha"; the client's request is the one that was asked for; a
   peer's request answers its caller, who is waiting. *)
GoodRequest(n, r, threads, writes, work) ==
    /\ r.path \in {"save", "ha"} <=> r.from = Client
    /\ r.kind = "ha" <=> r.path \in {"ha"} \cup Asks
    /\ r.from = Client => r.id <= Len(writes) /\ writes[r.id] = <<r.kind, r.op>>
    /\ r.from \in Caller => Answers(n, r, r.from[1], threads[r.from[1]][r.from[2]], work[r.id])

Requests ==
    /\ \A n \in Node, p \in Pools : \A i \in 1..Len(queue[n][p]) : GoodRequest(n, queue[n][p][i], thr, asked, did)
    /\ \A n \in Node, t \in Thread : Busy(n, t) => GoodRequest(n, thr[n][t].req, thr, asked, did)

(* No caller has two requests under way. *)
OneInQueues ==
    \A n, m \in Node, p, q \in Pools :
        \A i \in 1..Len(queue[n][p]), j \in 1..Len(queue[m][q]) :
            queue[n][p][i].from \in Caller /\ queue[n][p][i].from = queue[m][q][j].from
            => n = m /\ p = q /\ i = j
OneInThreads ==
    \A n, m \in Node, t, u \in Thread :
        Busy(n, t) /\ Busy(m, u) /\ thr[n][t].req.from \in Caller
        /\ thr[n][t].req.from = thr[m][u].req.from => n = m /\ t = u
OneOrOther ==
    \A n, m \in Node, t \in Thread, q \in Pools : \A j \in 1..Len(queue[m][q]) :
        Busy(n, t) /\ thr[n][t].req.from \in Caller => thr[n][t].req.from # queue[m][q][j].from

(* What was done for the request of a thread by the time it is at a place. *)
Progress(n, s, done) ==
    /\ s.at = "idle" => s.req = NoRequest
    /\ s.at = "group" => s.req.path = "group" \/ (s.req.path = "save" /\ s.req.op = "prune")
    /\ s.at = "save" => s.req.path \in {"save", "active", "replica"}
    /\ s.at = "ha" => s.req.path = "ha"
    /\ s.at = "peer" => s.req.path \in Asks
    /\ s.at = "reconcile" => s.req.path \in {"save", "active"}
    /\ s.at = "call" => s.req.path \in {"save", "active", "ha"}
    /\ s.at = "save" \/ s.at = "reconcile" \/ (s.at = "call" /\ (s.next = "save" => s.got = "ok")) =>
          (s.req.path = "save" /\ s.req.op = "prune" => "group" \in done)
    /\ s.at = "reconcile" \/ (s.at = "call" /\ s.next \in {"reconcile", "generated"}) => Reconciles(s.req)
    /\ s.at = "reconcile" \/ (s.at = "call" /\ s.next = "generated")
       \/ (s.at = "call" /\ s.got = "ok" /\ s.next \in {"reconcile", "reply"} /\ s.req.path # "ha")
       => Node \subseteq done
    /\ s.at = "call" /\ s.got = "ok" /\ s.next = "reply" /\ s.req.path # "ha" => (Reconciles(s.req) => "generated" \in done)

InProgress == \A n \in Node, t \in Thread : Progress(n, thr[n][t], did[thr[n][t].req.id])

(* What was answered was done. *)
Done(kind_op, done) ==
    kind_op[1] \in Document =>
        /\ Node \subseteq done
        /\ kind_op[2] = "prune" => "group" \in done
        /\ kind_op \in {"automation"} \X {"upsert", "replace"} => "generated" \in done
Replied == \A i \in Id : reply[i] = "ok" => i <= Len(asked) /\ Done(asked[i], did[i])

Typed == QueueType /\ ThreadType /\ ClientType /\ DidType
Single == OneInQueues /\ OneInThreads /\ OneOrOther
Core == Typed /\ Requests /\ Single /\ InProgress /\ Replied
IInv == Core /\ RestType /\ Bounded

(* For the absence of a wait cycle: the queues and threads keep to their kind of
   request, whoever waits has a request under way, and without a role change under
   running requests a MASTER waits for replica writes only, or in a request about the
   pair itself. *)
Separated ==
    /\ \A n \in Node, p \in Pools : \A i \in 1..Len(queue[n][p]) : p = "replica" <=> queue[n][p][i].path = "replica"
    /\ \A n \in Node : Busy(n, Replica) => thr[n][Replica].req.path = "replica"
UnderWay(m, u) ==
    \/ \E p \in Pools : \E i \in 1..Len(queue[Peer[m]][p]) : queue[Peer[m]][p][i].from = <<m, u>>
    \/ \E t \in Thread : Busy(Peer[m], t) /\ thr[Peer[m]][t].req.from = <<m, u>>
Attended == \A m \in Node, u \in Thread : Waiting(m, u) => UnderWay(m, u)
OfMaster(r, roles) == r.from \in Caller /\ roles[r.from[1]] = r.from[1] => r.path = "replica" \/ r.kind = "ha"
Ordered ==
    /\ \A n \in Node, p \in Pools : \A i \in 1..Len(queue[n][p]) : OfMaster(queue[n][p][i], active)
    /\ \A n \in Node, t \in Thread : Busy(n, t) => OfMaster(thr[n][t].req, active)
CalmOrder == calm => (\E n \in Node : IsMaster(n)) /\ Ordered

WInv == Separated /\ Attended /\ CalmOrder

-----------------------------------------------------------------------------
(* Lemmas. *)

(* A client is not a thread, and a thread is a gateway and a worker. *)
LEMMA Callers ==
    /\ Client \notin Caller /\ Nobody \notin Caller /\ Client # Nobody
    /\ \A c \in Caller : c = <<c[1], c[2]>> /\ c[1] \in Node /\ c[2] \in Thread
    /\ \A n \in Node, t \in Thread :
          <<n, t>> \in Caller /\ <<n, t>>[1] = n /\ <<n, t>>[2] = t
  BY DEF Client, Nobody, Caller

LEMMA IdleType ==
    /\ Idle \in State /\ Idle.at = "idle" /\ Idle.req = NoRequest /\ Idle.got = "none"
    /\ \A r \in Request : r # NoRequest
  BY DEF Idle, State, Onward, NoRequest, Request, Calls

(* The fields of a request. *)
LEMMA RequestFields ==
    ASSUME NEW r \in Request
    PROVE  /\ r.path \in {"save", "ha", "active", "replica", "group"} \cup Asks /\ r.kind \in Kind
           /\ r.op \in Operation /\ r.item \in Item /\ r.doc \in SUBSET Item /\ r.id \in Id
           /\ r.from \in {Client, Nobody} \cup Caller
  BY DEF Request, Calls, Asks, Caller

LEMMA CallNames ==
    /\ {"active", "replica", "group"} \cup Asks = Calls /\ Asks = {"peer_status", "activate", "yield"}
    /\ Onward = {"reply", "save", "reconcile", "generated", "undone"}
  BY DEF Calls, Asks, Onward

(* The two gateways. *)
LEMMA Pair ==
    \A n \in Node : Peer[n] \in Node /\ Peer[n] # n /\ Node = {n, Peer[n]} /\ Peer[Peer[n]] = n
  BY PeerWritesAssumption

(* What is done for a write stays done. *)
Grows == DidType' /\ \A i \in Id : did[i] \subseteq did'[i]

LEMMA RecordGrows ==
    ASSUME DidType, NEW r \in Request, NEW what \in Node \cup {"group", "generated"},
           Record(r, what)
    PROVE  /\ Grows /\ what \in did'[r.id] /\ did'[r.id] = did[r.id] \cup {what}
           /\ did[r.id] \subseteq did'[r.id]
  BY RequestFields DEF DidType, Record, Grows

LEMMA SameGrows ==
    ASSUME DidType, UNCHANGED did
    PROVE  Grows
  BY DEF DidType, Grows

LEMMA ProgressGrows ==
    ASSUME NEW n, NEW s, NEW d, NEW e, d \subseteq e, Progress(n, s, d)
    PROVE  Progress(n, s, e)
  BY DEF Progress

(* Only a waiting thread has a request under way. *)
LEMMA NotWaiting ==
    ASSUME Core, NEW n \in Node, NEW t \in Thread, ~Waiting(n, t)
    PROVE  /\ \A m \in Node, p \in Pools : \A i \in 1..Len(queue[m][p]) : queue[m][p][i].from # <<n, t>>
           /\ \A m \in Node, u \in Thread : Busy(m, u) => thr[m][u].req.from # <<n, t>>
  <1>1. ASSUME NEW m, NEW r, GoodRequest(m, r, thr, asked, did), r.from = <<n, t>>
        PROVE  FALSE
    <2>1. r.from \in Caller /\ r.from[1] = n /\ r.from[2] = t
      BY <1>1, Callers
    <2>2. Answers(m, r, n, thr[n][t], did[r.id])
      BY <1>1, <2>1 DEF GoodRequest
    <2> QED BY <2>2 DEF Answers, Waiting
  <1> QED BY <1>1 DEF Core, Requests

(* A waiting caller is not the thread that serves it. *)
LEMMA CallerElsewhere ==
    ASSUME Core, NEW n \in Node, NEW t \in Thread, Busy(n, t), thr[n][t].req.from \in Caller
    PROVE  \E m \in Node, u \in Thread :
              /\ thr[n][t].req.from = <<m, u>> /\ m # n /\ Waiting(m, u)
              /\ Answers(n, thr[n][t].req, m, thr[m][u], did[thr[n][t].req.id])
  <1>1. PICK m \in Node, u \in Thread : thr[n][t].req.from = <<m, u>>
    BY DEF Caller
  <1>2. GoodRequest(n, thr[n][t].req, thr, asked, did)
    BY DEF Core, Requests
  <1>3. Answers(n, thr[n][t].req, m, thr[m][u], did[thr[n][t].req.id])
    BY <1>1, <1>2, Callers DEF GoodRequest
  <1> QED BY <1>1, <1>3, Pair DEF Answers, Waiting

(* The threads' states. *)
LEMMA GotFields ==
    ASSUME NEW s \in State, NEW x \in {"none", "ok", "error"}
    PROVE  /\ Got(s, x) \in State
           /\ Got(s, x).at = s.at /\ Got(s, x).req = s.req /\ Got(s, x).got = x
           /\ Got(s, x).next = s.next
  BY DEF Got, State

LEMMA GoingOnFields ==
    ASSUME NEW s \in State, NEW at \in {"save", "reconcile"}
    PROVE  /\ GoingOn(s, at) \in State
           /\ GoingOn(s, at).at = at /\ GoingOn(s, at).req = s.req /\ GoingOn(s, at).got = "none"
           /\ GoingOn(s, at).next = s.next
  BY DEF GoingOn, State

LEMMA CallingFields ==
    ASSUME NEW s \in State, NEW x \in {"none", "ok", "error"},
           NEW next \in Onward
    PROVE  /\ Calling(s, next, x) \in State
           /\ Calling(s, next, x).at = "call" /\ Calling(s, next, x).req = s.req
           /\ Calling(s, next, x).got = x /\ Calling(s, next, x).next = next
  BY DEF Calling, State

LEMMA StartedFields ==
    ASSUME NEW r \in Request, NEW at \in {"group", "save", "ha", "peer"}, NEW doc \in SUBSET Item
    PROVE  /\ Started(r, at, doc) \in State
           /\ Started(r, at, doc).at = at /\ Started(r, at, doc).req = r
           /\ Started(r, at, doc).got = "none" /\ Started(r, at, doc).next = "reply"
  BY DEF Started, Idle, State, Onward

LEMMA PeerRequestFields ==
    ASSUME NEW r \in Request, NEW path \in Calls, NEW doc \in SUBSET Item,
           NEW c \in Caller
    PROVE  LET s == PeerRequest(r, path, doc, c) IN
           /\ s \in Request /\ s.path = path /\ s.from = c
           /\ s.id = r.id /\ s.kind = r.kind /\ s.op = r.op
  BY DEF PeerRequest, Request, Caller

LEMMA UnownedFields ==
    ASSUME NEW r \in Request
    PROVE  /\ Unowned(r) \in Request /\ Unowned(r).path = r.path /\ Unowned(r).from = Nobody
           /\ Unowned(r).id = r.id /\ Unowned(r).kind = r.kind /\ Unowned(r).op = r.op
  BY DEF Unowned, Request

(* The threads after a response. *)
AfterResponse(n, t, code) ==
    \A m \in Node, u \in Thread :
        thr'[m][u] = IF m = n /\ u = t THEN Idle
                     ELSE IF thr[n][t].req.from = <<m, u>> THEN Got(thr[m][u], code)
                     ELSE thr[m][u]

LEMMA Responded ==
    ASSUME Core, NEW n \in Node, NEW t \in Thread, Busy(n, t), NEW code \in {"ok", "error"},
           Respond(n, t, code)
    PROVE  thr' \in [Node -> [Thread -> State]] /\ AfterResponse(n, t, code)
  <1> USE DEF Core, Typed, ThreadType
  <1>1. CASE thr[n][t].req.from \in Caller
    <2>1. PICK m \in Node, u \in Thread : thr[n][t].req.from = <<m, u>> /\ m # n /\ Waiting(m, u)
      BY <1>1, CallerElsewhere
    <2>2. thr' = [thr EXCEPT ![n][t] = Idle, ![m][u] = Got(@, code)]
      BY <2>1, Callers DEF Respond, Caller
    <2>3. thr'[n] = [thr[n] EXCEPT ![t] = Idle]
      BY <2>1, <2>2
    <2>4. thr'[m] = [thr[m] EXCEPT ![u] = Got(thr[m][u], code)]
      BY <2>1, <2>2, GotFields
    <2>5. thr' = [thr EXCEPT ![n] = [thr[n] EXCEPT ![t] = Idle],
                             ![m] = [thr[m] EXCEPT ![u] = Got(thr[m][u], code)]]
      BY <2>1, <2>2, <2>3, <2>4
    <2>6. thr' \in [Node -> [Thread -> State]]
      <3>1. [thr[n] EXCEPT ![t] = Idle] \in [Thread -> State]
        BY IdleType
      <3>2. [thr[m] EXCEPT ![u] = Got(thr[m][u], code)] \in [Thread -> State]
        BY <2>1, GotFields
      <3> QED BY <2>1, <2>5, <3>1, <3>2
    <2>7. AfterResponse(n, t, code)
      BY <2>1, <2>5 DEF AfterResponse
    <2> QED BY <2>6, <2>7
  <1>2. CASE thr[n][t].req.from \notin Caller
    <2>1. thr' = [thr EXCEPT ![n][t] = Idle]
      BY <1>2 DEF Respond, Caller
    <2>2. \A m \in Node, u \in Thread : thr[n][t].req.from # <<m, u>>
      BY <1>2, Callers
    <2> QED BY <2>1, <2>2, IdleType DEF AfterResponse
  <1> QED BY <1>1, <1>2

(* A request still answers its caller while that one does not move. *)
Extends(before, after) ==
    Len(before) <= Len(after) /\ \A i \in 1..Len(before) : after[i] = before[i]

LEMMA GoodKept ==
    ASSUME NEW n, NEW r \in Request, GoodRequest(n, r, thr, asked, did),
           Grows, ClientType, Extends(asked, asked'), ClientType',
           r.from \in Caller => thr'[r.from[1]][r.from[2]] = thr[r.from[1]][r.from[2]]
    PROVE  GoodRequest(n, r, thr', asked', did')
  <1>1. r.id \in Id /\ r.id \in Nat /\ r.id >= 1 /\ did[r.id] \subseteq did'[r.id]
    BY RequestFields, PeerWritesAssumption DEF Grows, Id
  <1>2. r.from = Client => r.id <= Len(asked') /\ asked'[r.id] = <<r.kind, r.op>>
    BY <1>1 DEF GoodRequest, Extends, ClientType
  <1>3. r.from \in Caller => Answers(n, r, r.from[1], thr'[r.from[1]][r.from[2]], did'[r.id])
    BY <1>1 DEF GoodRequest, Answers
  <1> QED BY <1>2, <1>3 DEF GoodRequest

(* The answer a caller gets is what its next step relies on. *)
LEMMA GotProgress ==
    ASSUME NEW m \in Node, NEW s \in State, NEW n \in Node, NEW r \in Request, r.path \notin {"save", "ha"},
           NEW d, NEW e, Progress(m, s, d), d \subseteq e, Answers(n, r, m, s, d),
           NEW code \in {"ok", "error"}, code = "ok" => Promise(r, n, e)
    PROVE  Progress(m, Got(s, code), e)
  <1>1. Progress(m, s, e)
    BY ProgressGrows
  <1>2. CASE code = "error"
    BY <1>1, <1>2, GotFields DEF Progress, Answers
  <1>3. CASE code = "ok"
    <2>1. Node = {m, n}
      BY Pair DEF Answers
    <2>2. CASE r.path = "group"
      BY <1>1, <1>3, <2>2, GotFields DEF Progress, Answers, Promise
    <2>3. CASE r.path = "replica"
      BY <1>1, <1>3, <2>1, <2>3, GotFields DEF Progress, Answers, Promise
    <2>4. CASE r.path = "active"
      BY <1>1, <1>3, <2>4, GotFields DEF Progress, Answers, Promise, Reconciles
    <2>5. CASE r.path \in Asks
      BY <1>1, <1>3, <2>5, GotFields DEF Progress, Answers
    <2> QED BY <2>2, <2>3, <2>4, <2>5, RequestFields
  <1> QED BY <1>2, <1>3

LEMMA IdleProgress == \A n, d : Progress(n, Idle, d)
  BY IdleType DEF Progress

(* An answer to a client is what the properties require. *)
LEMMA RepliedKept ==
    ASSUME ClientType, Replied, Grows, ClientType', Extends(asked, asked'), NEW i \in Id,
           reply[i] = "ok"
    PROVE  i <= Len(asked') /\ Done(asked'[i], did'[i])
  <1>1. i \in 1..Len(asked) /\ Done(asked[i], did[i])
    BY PeerWritesAssumption DEF Replied, Id, ClientType
  <1> QED BY <1>1 DEF Extends, ClientType, Done, Grows

(* An answer is given to whoever waits for it, and is true. *)
LEMMA RespondKeeps ==
    ASSUME Core, Grows, NEW n \in Node, NEW t \in Thread, Busy(n, t), ~Waiting(n, t),
           NEW code \in {"ok", "error"}, Respond(n, t, code), UNCHANGED asked,
           code = "ok" => Promise(thr[n][t].req, n, did'[thr[n][t].req.id])
    PROVE  Core'
  <1> DEFINE r == thr[n][t].req
  <1>r. r \in Request /\ GoodRequest(n, r, thr, asked, did)
    BY DEF Core, Typed, ThreadType, Busy, Requests
  <1>1. thr' \in [Node -> [Thread -> State]] /\ AfterResponse(n, t, code) /\ queue' = queue
    <2>1. queue' = queue
      BY DEF Respond
    <2> QED BY <2>1, Responded
  <1>2. \A m \in Node, u \in Thread :
           thr'[m][u].at # "idle" => Busy(m, u) /\ thr'[m][u].req = thr[m][u].req /\ ~(m = n /\ u = t)
    BY <1>1, IdleType, GotFields DEF AfterResponse, Busy, Core, Typed, ThreadType
  <1>3. ThreadType' /\ QueueType' /\ DidType'
    BY <1>1, <1>2 DEF Core, Typed, ThreadType, QueueType, Busy, Grows
  <1>4. ClientType'
    BY RequestFields DEF Core, Typed, ClientType, ThreadType, Busy, Respond
  <1>5. OneInQueues'
    BY <1>1 DEF Core, Single, OneInQueues
  <1>6. OneInThreads'
    BY <1>2 DEF Core, Single, OneInThreads, Busy
  <1>7. OneOrOther'
    BY <1>1, <1>2 DEF Core, Single, OneOrOther, Busy
  <1>a. Extends(asked, asked')
    BY DEF Extends
  <1>8. Requests'
    <2>1. ASSUME NEW q \in Request, q.from \in Caller, q.from # <<n, t>>, q.from # r.from
          PROVE  thr'[q.from[1]][q.from[2]] = thr[q.from[1]][q.from[2]]
      BY <1>1, <2>1, Callers DEF AfterResponse
    <2>2. ASSUME NEW m \in Node, NEW p \in Pools, NEW i \in 1..Len(queue[m][p])
          PROVE  GoodRequest(m, queue[m][p][i], thr', asked', did')
      <3>1. queue[m][p][i] \in Request /\ GoodRequest(m, queue[m][p][i], thr, asked, did)
        BY DEF Core, Requests, Typed, QueueType
      <3>2. queue[m][p][i].from \in Caller => queue[m][p][i].from # <<n, t>> /\ queue[m][p][i].from # r.from
        BY NotWaiting DEF Core, Single, OneOrOther
      <3> QED BY <1>a, <1>4, <2>1, <3>1, <3>2, GoodKept DEF Core, Typed
    <2>3. ASSUME NEW m \in Node, NEW u \in Thread, thr'[m][u].at # "idle"
          PROVE  GoodRequest(m, thr'[m][u].req, thr', asked', did')
      <3>1. thr'[m][u].req = thr[m][u].req /\ Busy(m, u) /\ ~(m = n /\ u = t)
        BY <1>2, <2>3
      <3>2. thr[m][u].req \in Request /\ GoodRequest(m, thr[m][u].req, thr, asked, did)
        BY <3>1 DEF Core, Requests, Typed, ThreadType, Busy
      <3>3. thr[m][u].req.from \in Caller => thr[m][u].req.from # <<n, t>> /\ thr[m][u].req.from # r.from
        BY <3>1, NotWaiting DEF Core, Single, OneInThreads
      <3> QED BY <1>a, <1>4, <2>1, <3>1, <3>2, <3>3, GoodKept DEF Core, Typed
    <2> QED BY <1>1, <2>2, <2>3 DEF Requests, Busy
  <1>9. InProgress'
    <2> SUFFICES ASSUME NEW m \in Node, NEW u \in Thread
                 PROVE  Progress(m, thr'[m][u], did'[thr'[m][u].req.id])
      BY DEF InProgress
    <2>1. CASE m = n /\ u = t
      BY <1>1, <2>1, IdleProgress DEF AfterResponse
    <2>2. CASE ~(m = n /\ u = t) /\ r.from = <<m, u>>
      <3>1. thr'[m][u] = Got(thr[m][u], code) /\ thr[m][u] \in State
        BY <1>1, <2>2 DEF AfterResponse, Core, Typed, ThreadType
      <3>2. Answers(n, r, m, thr[m][u], did[r.id]) /\ r.path \notin {"save", "ha"}
        BY <1>r, <2>2, Callers DEF GoodRequest
      <3>3. r.id = thr[m][u].req.id /\ Progress(m, thr[m][u], did[r.id])
        BY <3>2 DEF Answers, Core, InProgress
      <3>4. did[r.id] \subseteq did'[r.id]
        BY <1>r, RequestFields DEF Grows
      <3>5. Progress(m, Got(thr[m][u], code), did'[r.id])
        BY <1>r, <3>1, <3>2, <3>3, <3>4, GotProgress
      <3> QED BY <3>1, <3>3, <3>5, GotFields
    <2>3. CASE ~(m = n /\ u = t) /\ r.from # <<m, u>>
      <3>1. thr'[m][u] = thr[m][u]
        BY <1>1, <2>3 DEF AfterResponse
      <3>2. CASE Busy(m, u)
        BY <3>1, <3>2, RequestFields, ProgressGrows DEF Core, Typed, ThreadType, InProgress, Busy, Grows
      <3>3. CASE ~Busy(m, u)
        BY <3>1, <3>3 DEF Core, InProgress, Progress, Busy
      <3> QED BY <3>2, <3>3
    <2> QED BY <2>1, <2>2, <2>3
  <1>10. Replied'
    <2> SUFFICES ASSUME NEW i \in Id, reply'[i] = "ok"
                 PROVE  i <= Len(asked') /\ Done(asked'[i], did'[i])
      BY DEF Replied
    <2>1. CASE reply[i] = "ok"
      BY <1>4, <1>a, <2>1, RepliedKept DEF Core, Typed
    <2>2. CASE reply[i] # "ok"
      <3>1. r.from = Client /\ i = r.id /\ code = "ok"
        <4>1. reply' = IF r.from = Client THEN [reply EXCEPT ![r.id] = code] ELSE reply
          BY DEF Respond
        <4>2. reply \in [Id -> {"none", "ok", "error"}] /\ r.id \in Id
          BY <1>r, RequestFields DEF Core, Typed, ClientType
        <4> QED BY <2>2, <4>1, <4>2
      <3>2. /\ r.path \in {"save", "ha"} /\ i <= Len(asked) /\ asked[i] = <<r.kind, r.op>>
            /\ r.path = "ha" => r.kind = "ha"
        BY <1>r, <3>1 DEF GoodRequest
      <3>3. Done(<<r.kind, r.op>>, did'[i])
        BY <3>1, <3>2 DEF Promise, Done, Reconciles, Document
      <3> QED BY <3>2, <3>3
    <2> QED BY <2>1, <2>2
  <1> QED BY <1>3, <1>4, <1>5, <1>6, <1>7, <1>8, <1>9, <1>10 DEF Core, Typed, Single
(* A step that adds at most one request, at the end of a queue. *)
QueueAdds(p, pool, r) ==
    /\ QueueType'
    /\ \A m \in Node, q \in Pools : \A i \in 1..Len(queue'[m][q]) :
          \/ i \in 1..Len(queue[m][q]) /\ queue'[m][q][i] = queue[m][q][i]
          \/ m = p /\ q = pool /\ i = Len(queue[m][q]) + 1 /\ queue'[m][q][i] = r

LEMMA SameAdds ==
    ASSUME QueueType, UNCHANGED queue, NEW p, NEW pool, NEW r
    PROVE  QueueAdds(p, pool, r)
  BY DEF QueueType, QueueAdds

LEMMA AppendAdds ==
    ASSUME QueueType, NEW p \in Node, NEW pool \in Pools, NEW r \in Request,
           queue' = [queue EXCEPT ![p][pool] = Append(@, r)]
    PROVE  QueueAdds(p, pool, r)
  <1>1. QueueType'
    BY DEF QueueType
  <1>2. ASSUME NEW m \in Node, NEW q \in Pools, NEW i \in 1..Len(queue'[m][q]), ~(m = p /\ q = pool)
        PROVE  i \in 1..Len(queue[m][q]) /\ queue'[m][q][i] = queue[m][q][i]
    BY <1>2 DEF QueueType
  <1>3. ASSUME NEW i \in 1..Len(queue'[p][pool])
        PROVE  \/ i \in 1..Len(queue[p][pool]) /\ queue'[p][pool][i] = queue[p][pool][i]
               \/ i = Len(queue[p][pool]) + 1 /\ queue'[p][pool][i] = r
    <2>1. queue'[p][pool] = Append(queue[p][pool], r) /\ queue[p][pool] \in Seq(Request)
      BY DEF QueueType
    <2> QED BY <2>1, <1>3
  <1> QED BY <1>1, <1>2, <1>3 DEF QueueAdds

LEMMA AddsOne ==
    ASSUME OneInQueues, QueueType, NEW p \in Node, NEW pool \in Pools, NEW r, QueueAdds(p, pool, r),
           r.from \in Caller =>
              \A m \in Node, q \in Pools : \A i \in 1..Len(queue[m][q]) : queue[m][q][i].from # r.from
    PROVE  OneInQueues'
  <1> SUFFICES ASSUME NEW n \in Node, NEW m \in Node, NEW a \in Pools, NEW b \in Pools,
                      NEW i \in 1..Len(queue'[n][a]), NEW j \in 1..Len(queue'[m][b]),
                      queue'[n][a][i].from \in Caller, queue'[n][a][i].from = queue'[m][b][j].from
               PROVE  n = m /\ a = b /\ i = j
    BY DEF OneInQueues
  <1> DEFINE Old(k, c, l) == l \in 1..Len(queue[k][c]) /\ queue'[k][c][l] = queue[k][c][l]
             New(k, c, l) == k = p /\ c = pool /\ l = Len(queue[k][c]) + 1 /\ queue'[k][c][l] = r
  <1>1. (Old(n, a, i) \/ New(n, a, i)) /\ (Old(m, b, j) \/ New(m, b, j))
    BY DEF QueueAdds
  <1>2. CASE Old(n, a, i) /\ Old(m, b, j)
    BY <1>2 DEF OneInQueues
  <1>3. CASE Old(n, a, i) /\ New(m, b, j)
    BY <1>3
  <1>4. CASE New(n, a, i) /\ Old(m, b, j)
    BY <1>4
  <1>5. CASE New(n, a, i) /\ New(m, b, j)
    BY <1>5
  <1> QED BY <1>1, <1>2, <1>3, <1>4, <1>5

(* A thread that waits for nothing moves, and may send a request. *)
LEMMA MoveKeeps ==
    ASSUME Core, Grows, NEW n \in Node, NEW t \in Thread, Busy(n, t), ~Waiting(n, t),
           NEW s \in State, s.at # "idle", s.req = thr[n][t].req, thr' = [thr EXCEPT ![n][t] = s],
           Progress(n, s, did'[s.req.id]), UNCHANGED <<asked, reply>>,
           NEW p \in Node, NEW pool \in Pools, NEW r \in Request, r.from = <<n, t>>,
           QueueAdds(p, pool, r), queue' = queue \/ GoodRequest(p, r, thr', asked', did')
    PROVE  Core'
  <1>1. \A m \in Node, u \in Thread :
           /\ thr'[m][u] = IF m = n /\ u = t THEN s ELSE thr[m][u]
           /\ thr'[m][u].req = thr[m][u].req
           /\ thr'[m][u].at # "idle" => Busy(m, u)
    BY DEF Core, Typed, ThreadType, Busy
  <1>2. ThreadType' /\ QueueType' /\ DidType' /\ ClientType'
    BY <1>1 DEF Core, Typed, ThreadType, ClientType, Busy, Grows, QueueAdds
  <1>3. OneInQueues'
    BY NotWaiting, AddsOne DEF Core, Single, Typed
  <1>4. OneInThreads'
    BY <1>1 DEF Core, Single, OneInThreads, Busy
  <1>5. OneOrOther'
    <2> SUFFICES ASSUME NEW m \in Node, NEW u \in Thread, NEW k \in Node, NEW q \in Pools,
                        NEW i \in 1..Len(queue'[k][q]), thr'[m][u].at # "idle",
                        thr'[m][u].req.from \in Caller
                 PROVE  thr'[m][u].req.from # queue'[k][q][i].from
      BY DEF OneOrOther, Busy
    <2>1. CASE i \in 1..Len(queue[k][q]) /\ queue'[k][q][i] = queue[k][q][i]
      BY <1>1, <2>1 DEF Core, Single, OneOrOther
    <2>2. CASE queue'[k][q][i] = r
      BY <1>1, <2>2, NotWaiting
    <2> QED BY <2>1, <2>2 DEF QueueAdds
  <1>a. Extends(asked, asked')
    BY DEF Extends
  <1>6. ASSUME NEW q \in Request, q.from \in Caller, q.from # <<n, t>>
        PROVE  thr'[q.from[1]][q.from[2]] = thr[q.from[1]][q.from[2]]
    BY <1>1, <1>6, Callers
  <1>7. Requests'
    <2>1. ASSUME NEW m \in Node, NEW q \in Pools, NEW i \in 1..Len(queue[m][q])
          PROVE  GoodRequest(m, queue[m][q][i], thr', asked', did')
      <3>1. queue[m][q][i] \in Request /\ GoodRequest(m, queue[m][q][i], thr, asked, did)
        BY DEF Core, Requests, Typed, QueueType
      <3>2. queue[m][q][i].from # <<n, t>>
        BY NotWaiting
      <3> QED BY <1>a, <1>2, <1>6, <3>1, <3>2, GoodKept DEF Core, Typed
    <2>2. ASSUME NEW m \in Node, NEW q \in Pools, NEW i \in 1..Len(queue'[m][q])
          PROVE  GoodRequest(m, queue'[m][q][i], thr', asked', did')
      <3>1. CASE i \in 1..Len(queue[m][q]) /\ queue'[m][q][i] = queue[m][q][i]
        BY <2>1, <3>1
      <3>2. CASE queue' = queue
        BY <2>1, <3>2
      <3>3. CASE m = p /\ queue'[m][q][i] = r /\ queue' # queue
        BY <3>3
      <3> QED BY <3>1, <3>2, <3>3 DEF QueueAdds
    <2>3. ASSUME NEW m \in Node, NEW u \in Thread, thr'[m][u].at # "idle"
          PROVE  GoodRequest(m, thr'[m][u].req, thr', asked', did')
      <3>1. thr[m][u].req \in Request /\ GoodRequest(m, thr[m][u].req, thr, asked, did)
        BY <1>1, <2>3 DEF Core, Requests, Typed, ThreadType, Busy
      <3>2. thr[m][u].req.from # <<n, t>>
        BY <1>1, <2>3, NotWaiting
      <3> QED BY <1>1, <1>a, <1>2, <1>6, <3>1, <3>2, GoodKept DEF Core, Typed
    <2> QED BY <2>2, <2>3 DEF Requests, Busy
  <1>8. InProgress'
    <2> SUFFICES ASSUME NEW m \in Node, NEW u \in Thread
                 PROVE  Progress(m, thr'[m][u], did'[thr'[m][u].req.id])
      BY DEF InProgress
    <2>1. CASE m = n /\ u = t
      BY <1>1, <2>1
    <2>2. CASE ~(m = n /\ u = t) /\ Busy(m, u)
      BY <1>1, <2>2, RequestFields, ProgressGrows DEF Core, Typed, ThreadType, InProgress, Busy, Grows
    <2>3. CASE ~(m = n /\ u = t) /\ ~Busy(m, u)
      BY <1>1, <2>3 DEF Core, InProgress, Progress, Busy
    <2> QED BY <2>1, <2>2, <2>3
  <1>9. Replied'
    BY <1>2, <1>a, RepliedKept DEF Core, Typed, Replied
  <1> QED BY <1>2, <1>3, <1>4, <1>5, <1>7, <1>8, <1>9 DEF Core, Typed, Single

LEMMA ContinueKeeps ==
    ASSUME Core, Grows, NEW n \in Node, NEW t \in Thread, Busy(n, t), ~Waiting(n, t),
           NEW at \in {"save", "reconcile"}, Continue(n, t, at), UNCHANGED asked,
           Progress(n, GoingOn(thr[n][t], at), did'[thr[n][t].req.id])
    PROVE  Core'
  <1> DEFINE s == GoingOn(thr[n][t], at)
  <1>1. s \in State /\ s.at # "idle" /\ s.req = thr[n][t].req
    BY GoingOnFields DEF Core, Typed, ThreadType
  <1>2. thr' = [thr EXCEPT ![n][t] = s] /\ UNCHANGED <<asked, reply, queue>>
    BY DEF Continue, Core, Typed, ThreadType
  <1>3. Progress(n, s, did'[s.req.id])
    BY <1>1
  <1> DEFINE r == PeerRequest(thr[n][t].req, "group", {}, <<n, t>>)
  <1>4. r \in Request /\ r.from = <<n, t>>
    BY PeerRequestFields, Callers DEF Core, Typed, ThreadType, Busy, Calls
  <1>5. QueueAdds(n, "public", r)
    BY <1>2, SameAdds DEF Core, Typed
  <1> HIDE DEF s, r
  <1> QED BY <1>1, <1>2, <1>3, <1>4, <1>5, MoveKeeps DEF Pools

(* What a handler has to have done when it calls the peer. *)
MayCall(n, req, path, next, done) ==
    /\ req.path \in {"save", "active", "ha"}
    /\ path \in Asks <=> req.path = "ha"
    /\ req.path = "ha" => next \in {"reply", "undone"} /\ req.kind = "ha"
    /\ path = "group" => next \in {"save", "generated"}
    /\ path = "replica" => /\ next \in {"reconcile", "reply"} /\ n \in done
                           /\ next = "reply" => ~Reconciles(req)
    /\ path = "active" => next = "reply" /\ req.path = "save"
    /\ req.path # "ha" => req.kind # "ha" /\ next # "undone"
    /\ next # "save" /\ req.path = "save" /\ req.op = "prune" => "group" \in done
    /\ next \in {"reconcile", "generated"} => Reconciles(req)
    /\ next = "generated" => Node \subseteq done

LEMMA SendKeeps ==
    ASSUME Core, Grows, NEW n \in Node, NEW t \in Thread, Busy(n, t), ~Waiting(n, t),
           NEW path \in Calls, NEW doc \in SUBSET Item,
           NEW next \in Onward,
           send_peer_json(n, t, path, doc, next), UNCHANGED asked,
           MayCall(n, thr[n][t].req, path, next, did'[thr[n][t].req.id])
    PROVE  Core'
  <1> DEFINE p == Peer[n]
             pool == Pool(path)
             got == IF Fits(queue[p][pool]) THEN "none" ELSE "error"
             s == Calling(thr[n][t], next, got)
             r == PeerRequest(thr[n][t].req, path, doc, <<n, t>>)
  <1>1. p \in Node /\ pool \in Pools /\ got \in {"none", "error"}
    BY Pair DEF Pool, Pools
  <1>2. thr[n][t].req \in Request /\ thr[n][t] \in State
    BY DEF Core, Typed, ThreadType, Busy
  <1>3. s \in State /\ s.at = "call" /\ s.req = thr[n][t].req /\ s.next = next /\ s.got = got
    BY <1>1, <1>2, CallingFields
  <1>4. /\ r \in Request /\ r.from = <<n, t>> /\ r.path = path
        /\ r.id = thr[n][t].req.id /\ r.kind = thr[n][t].req.kind
    BY <1>2, PeerRequestFields, Callers
  <1>5. /\ thr' = [thr EXCEPT ![n][t] = s] /\ UNCHANGED <<asked, reply>>
        /\ queue' = IF Fits(queue[p][pool]) THEN [queue EXCEPT ![p][pool] = Append(@, r)] ELSE queue
    BY DEF send_peer_json, Core, Typed, ThreadType
  <1> HIDE DEF s, r, pool
  <1>6. Progress(n, s, did'[s.req.id])
    BY <1>1, <1>3 DEF MayCall, Progress
  <1>7. QueueAdds(p, pool, r)
    BY <1>1, <1>4, <1>5, SameAdds, AppendAdds DEF Core, Typed
  <1>8. queue' = queue \/ GoodRequest(p, r, thr', asked', did')
    <2>1. SUFFICES ASSUME Fits(queue[p][pool])
                   PROVE  GoodRequest(p, r, thr', asked', did')
      BY <1>5
    <2>2. thr'[n][t] = s /\ s.got = "none"
      BY <1>3, <1>5, <2>1 DEF Core, Typed, ThreadType
    <2>3. Answers(p, r, n, s, did'[r.id])
      BY <1>3, <1>4, <2>2 DEF Answers, MayCall
    <2>4. r.from \in Caller /\ r.from # Client /\ r.from[1] = n /\ r.from[2] = t
      BY <1>4, Callers
    <2>5. r.path \notin {"save", "ha"} /\ (r.kind = "ha" <=> r.path \in Asks)
      BY <1>4 DEF MayCall, Calls
    <2> QED BY <1>4, <2>2, <2>3, <2>4, <2>5 DEF GoodRequest
  <1> QED BY <1>1, <1>3, <1>4, <1>5, <1>6, <1>7, <1>8, MoveKeeps

-----------------------------------------------------------------------------
(* One lemma per action. *)

(* A client's write is added to a queue, or refused. *)
LEMMA AskKeeps ==
    ASSUME Core, NEW n \in Node, NEW k \in Kind, NEW o \in Operation, NEW i \in Item, Ask(n, k, o, i)
    PROVE  Core'
  <1> DEFINE id == Len(asked) + 1
             r == [path |-> IF k = "ha" THEN "ha" ELSE "save", kind |-> k, op |-> o, item |-> i,
                   doc |-> {}, id |-> id, from |-> Client]
  <1>1. id \in Id /\ id \in Nat /\ Len(asked) \in Nat /\ asked \in Seq(Kind \X Operation)
    BY PeerWritesAssumption DEF Ask, Id, Core, Typed, ClientType
  <1>2. /\ r \in Request /\ r.from = Client /\ r.path = IF k = "ha" THEN "ha" ELSE "save"
        /\ r.id = id /\ r.kind = k /\ r.op = o
    BY <1>1 DEF Request
  <1>3. /\ asked' = Append(asked, <<k, o>>) /\ UNCHANGED <<thr, did>> /\ Len(asked) < MaxRequests
        /\ queue' = queue \/ queue' = [queue EXCEPT ![n]["public"] = Append(@, r)]
        /\ reply' = reply \/ reply' = [reply EXCEPT ![id] = "error"]
    BY DEF Ask
  <1> HIDE DEF r
  <1>4. asked' \in Seq(Kind \X Operation) /\ Len(asked') = id /\ asked'[id] = <<k, o>> /\ Extends(asked, asked')
    BY <1>1, <1>3 DEF Extends
  <1>5. Grows
    BY <1>3, SameGrows DEF Core, Typed
  <1>6. QueueAdds(n, "public", r)
    BY <1>2, <1>3, SameAdds, AppendAdds DEF Core, Typed, Pools
  <1>7. ThreadType' /\ QueueType' /\ DidType'
    BY <1>3, <1>6 DEF Core, Typed, ThreadType, DidType, QueueAdds
  <1>8. ClientType'
    BY <1>1, <1>3, <1>4, PeerWritesAssumption DEF Core, Typed, ClientType
  <1>9. OneInQueues'
    BY <1>2, <1>6, Callers, AddsOne DEF Core, Single, Typed, Pools
  <1>10. OneInThreads'
    BY <1>3 DEF Core, Single, OneInThreads, Busy
  <1>11. OneOrOther'
    <2> SUFFICES ASSUME NEW m \in Node, NEW u \in Thread, NEW l \in Node, NEW q \in Pools,
                        NEW j \in 1..Len(queue'[l][q]), Busy(m, u), thr[m][u].req.from \in Caller
                 PROVE  thr[m][u].req.from # queue'[l][q][j].from
      BY <1>3 DEF OneOrOther, Busy
    <2>1. CASE j \in 1..Len(queue[l][q]) /\ queue'[l][q][j] = queue[l][q][j]
      BY <2>1 DEF Core, Single, OneOrOther
    <2>2. CASE queue'[l][q][j] = r
      BY <1>2, <2>2, Callers
    <2> QED BY <1>6, <2>1, <2>2 DEF QueueAdds
  <1>12. Requests'
    <2>1. ASSUME NEW m, NEW q \in Request, GoodRequest(m, q, thr, asked, did)
          PROVE  GoodRequest(m, q, thr', asked', did')
      BY <1>3, <1>4, <1>5, <1>8, <2>1, GoodKept DEF Core, Typed
    <2>2. GoodRequest(n, r, thr', asked', did')
      BY <1>1, <1>2, <1>4, Callers DEF GoodRequest, Asks
    <2>3. ASSUME NEW m \in Node, NEW p \in Pools, NEW j \in 1..Len(queue'[m][p])
          PROVE  GoodRequest(m, queue'[m][p][j], thr', asked', did')
      <3>1. CASE j \in 1..Len(queue[m][p]) /\ queue'[m][p][j] = queue[m][p][j]
        BY <2>1, <3>1 DEF Core, Requests, Typed, QueueType
      <3>2. CASE m = n /\ queue'[m][p][j] = r
        BY <2>2, <3>2
      <3> QED BY <1>6, <3>1, <3>2 DEF QueueAdds
    <2>4. ASSUME NEW m \in Node, NEW u \in Thread, Busy(m, u)
          PROVE  GoodRequest(m, thr[m][u].req, thr', asked', did')
      BY <2>1, <2>4 DEF Core, Requests, Typed, ThreadType, Busy
    <2> QED BY <1>3, <2>3, <2>4 DEF Requests, Busy
  <1>13. InProgress'
    BY <1>3 DEF Core, InProgress
  <1>14. Replied'
    <2> SUFFICES ASSUME NEW j \in Id, reply'[j] = "ok"
                 PROVE  j <= Len(asked') /\ Done(asked'[j], did'[j])
      BY DEF Replied
    <2>1. reply[j] = "ok"
      BY <1>1, <1>3 DEF Core, Typed, ClientType
    <2> QED BY <1>4, <1>5, <1>8, <2>1, RepliedKept DEF Core, Typed
  <1> QED BY <1>7, <1>8, <1>9, <1>10, <1>11, <1>12, <1>13, <1>14 DEF Core, Typed, Single

LEMMA TailIndex ==
    ASSUME NEW S, NEW q \in Seq(S), q # <<>>
    PROVE  /\ Tail(q) \in Seq(S) /\ Len(q) \in Nat /\ Len(q) > 0 /\ Len(Tail(q)) = Len(q) - 1
           /\ \A i \in 1..Len(Tail(q)) : i + 1 \in 1..Len(q) /\ Tail(q)[i] = q[i + 1]
  <1>1. Tail(q) \in Seq(S) /\ Len(q) \in Nat /\ Len(q) > 0 /\ Len(Tail(q)) = Len(q) - 1
    OBVIOUS
  <1>2. \A i \in 1..Len(Tail(q)) : i + 1 \in 1..Len(q)
    BY <1>1
  <1>3. \A i \in 1..Len(Tail(q)) : Tail(q)[i] = q[i + 1]
    BY <1>1
  <1> QED BY <1>1, <1>2, <1>3

(* The head of a queue is taken; the others move up. *)
Pos(n, p, m, q, i) == IF m = n /\ q = p THEN i + 1 ELSE i
HeadGone(n, p) ==
    /\ QueueType'
    /\ \A m \in Node, q \in Pools : \A i \in 1..Len(queue'[m][q]) :
          /\ Pos(n, p, m, q, i) \in 1..Len(queue[m][q])
          /\ queue'[m][q][i] = queue[m][q][Pos(n, p, m, q, i)]

LEMMA TailGone ==
    ASSUME QueueType, NEW n \in Node, NEW p \in Pools, queue[n][p] # <<>>,
           queue' = [queue EXCEPT ![n][p] = Tail(@)]
    PROVE  /\ HeadGone(n, p)
           /\ 1 \in 1..Len(queue[n][p]) /\ Head(queue[n][p]) = queue[n][p][1]
           /\ queue[n][p][1] \in Request
  <1>1. queue[n][p] \in Seq(Request) /\ queue'[n][p] = Tail(queue[n][p])
    BY DEF QueueType
  <1>2. /\ 1 \in 1..Len(queue[n][p]) /\ Head(queue[n][p]) = queue[n][p][1]
        /\ queue[n][p][1] \in Request
    BY <1>1
  <1>3. QueueType'
    BY DEF QueueType
  <1>4. ASSUME NEW i \in 1..Len(queue'[n][p])
        PROVE  i + 1 \in 1..Len(queue[n][p]) /\ queue'[n][p][i] = queue[n][p][i + 1]
    BY <1>1, <1>4, TailIndex
  <1>5. ASSUME NEW m \in Node, NEW q \in Pools, ~(m = n /\ q = p)
        PROVE  queue'[m][q] = queue[m][q]
    BY <1>5 DEF QueueType
  <1> QED BY <1>2, <1>3, <1>4, <1>5 DEF HeadGone, Pos

LEMMA HeadGoneOne ==
    ASSUME OneInQueues, QueueType, NEW n \in Node, NEW p \in Pools, HeadGone(n, p),
           1 \in 1..Len(queue[n][p])
    PROVE  /\ OneInQueues'
           /\ queue[n][p][1].from \in Caller =>
                 \A m \in Node, q \in Pools : \A i \in 1..Len(queue'[m][q]) :
                    queue'[m][q][i].from # queue[n][p][1].from
  <1>1. OneInQueues'
    <2> SUFFICES ASSUME NEW k \in Node, NEW m \in Node, NEW a \in Pools, NEW b \in Pools,
                        NEW i \in 1..Len(queue'[k][a]), NEW j \in 1..Len(queue'[m][b]),
                        queue'[k][a][i].from \in Caller, queue'[k][a][i].from = queue'[m][b][j].from
                 PROVE  k = m /\ a = b /\ i = j
      BY DEF OneInQueues
    <2> DEFINE x == Pos(n, p, k, a, i)
               y == Pos(n, p, m, b, j)
    <2>a. /\ x \in 1..Len(queue[k][a]) /\ queue'[k][a][i] = queue[k][a][x]
          /\ y \in 1..Len(queue[m][b]) /\ queue'[m][b][j] = queue[m][b][y]
      BY DEF HeadGone
    <2>1. k = m /\ a = b /\ x = y
      <3> HIDE DEF x, y
      <3> QED BY <2>a DEF OneInQueues
    <2>2. i \in Nat /\ j \in Nat
      OBVIOUS
    <2> QED BY <2>1, <2>2 DEF Pos
  <1>2. ASSUME queue[n][p][1].from \in Caller,
               NEW m \in Node, NEW q \in Pools, NEW i \in 1..Len(queue'[m][q]),
               queue'[m][q][i].from = queue[n][p][1].from
        PROVE  FALSE
    <2> DEFINE x == Pos(n, p, m, q, i)
    <2>a. x \in 1..Len(queue[m][q]) /\ queue'[m][q][i] = queue[m][q][x]
      BY DEF HeadGone
    <2>1. m = n /\ q = p /\ x = 1
      <3> HIDE DEF x
      <3> QED BY <1>2, <2>a DEF OneInQueues
    <2> QED BY <2>1 DEF Pos
  <1> QED BY <1>1, <1>2

(* A request from the head of a queue starts an idle thread. *)
LEMMA StartKeeps ==
    ASSUME Core, NEW n \in Node, NEW t \in Thread, NEW p \in Pools, ~Busy(n, t),
           HeadGone(n, p), 1 \in 1..Len(queue[n][p]), NEW s \in State, s.at # "idle",
           s.req = queue[n][p][1], queue[n][p][1] \in Request, thr' = [thr EXCEPT ![n][t] = s],
           Progress(n, s, did[s.req.id]), UNCHANGED <<asked, reply, did>>
    PROVE  Core'
  <1> DEFINE r == queue[n][p][1]
  <1>w. ~Waiting(n, t)
    BY DEF Waiting, Busy
  <1>1. \A m \in Node, u \in Thread : thr'[m][u] = IF m = n /\ u = t THEN s ELSE thr[m][u]
    BY DEF Core, Typed, ThreadType
  <1>2. ThreadType' /\ QueueType' /\ DidType' /\ ClientType'
    BY <1>1 DEF Core, Typed, ThreadType, ClientType, DidType, HeadGone
  <1>3. /\ OneInQueues'
        /\ r.from \in Caller => \A m \in Node, q \in Pools : \A i \in 1..Len(queue'[m][q]) :
                                   queue'[m][q][i].from # r.from
    BY HeadGoneOne DEF Core, Single, Typed
  <1>4. \A m \in Node, u \in Thread : Busy(m, u) /\ thr[m][u].req.from \in Caller =>
           thr[m][u].req.from # r.from
    BY DEF Core, Single, OneOrOther
  <1>5. OneInThreads'
    <2> SUFFICES ASSUME NEW k \in Node, NEW m \in Node, NEW v \in Thread, NEW u \in Thread,
                        thr'[k][v].at # "idle", thr'[m][u].at # "idle", thr'[k][v].req.from \in Caller,
                        thr'[k][v].req.from = thr'[m][u].req.from
                 PROVE  k = m /\ v = u
      BY DEF OneInThreads, Busy
    <2>1. CASE (k = n /\ v = t) \/ (m = n /\ u = t)
      BY <1>1, <1>4, <2>1 DEF Busy
    <2>2. CASE ~(k = n /\ v = t) /\ ~(m = n /\ u = t)
      BY <1>1, <2>2 DEF Core, Single, OneInThreads, Busy
    <2> QED BY <2>1, <2>2
  <1>6. OneOrOther'
    <2> SUFFICES ASSUME NEW k \in Node, NEW v \in Thread, NEW m \in Node, NEW q \in Pools,
                        NEW i \in 1..Len(queue'[m][q]), thr'[k][v].at # "idle",
                        thr'[k][v].req.from \in Caller
                 PROVE  thr'[k][v].req.from # queue'[m][q][i].from
      BY DEF OneOrOther, Busy
    <2>1. CASE k = n /\ v = t
      BY <1>1, <1>3, <2>1
    <2>2. CASE ~(k = n /\ v = t)
      <3>1. Pos(n, p, m, q, i) \in 1..Len(queue[m][q])
            /\ queue'[m][q][i] = queue[m][q][Pos(n, p, m, q, i)]
        BY DEF HeadGone
      <3> QED BY <1>1, <2>2, <3>1 DEF Core, Single, OneOrOther, Busy
    <2> QED BY <2>1, <2>2
  <1>a. Extends(asked, asked') /\ Grows
    BY SameGrows DEF Extends, Core, Typed
  <1>7. Requests'
    <2>1. ASSUME NEW m \in Node, NEW q \in Request, GoodRequest(m, q, thr, asked, did), q.from # <<n, t>>
          PROVE  GoodRequest(m, q, thr', asked', did')
      <3>1. q.from \in Caller => thr'[q.from[1]][q.from[2]] = thr[q.from[1]][q.from[2]]
        BY <1>1, <2>1, Callers
      <3> QED BY <1>2, <1>a, <2>1, <3>1, GoodKept DEF Core, Typed
    <2>2. ASSUME NEW m \in Node, NEW q \in Pools, NEW i \in 1..Len(queue[m][q])
          PROVE  GoodRequest(m, queue[m][q][i], thr', asked', did')
      <3>1. queue[m][q][i] \in Request /\ GoodRequest(m, queue[m][q][i], thr, asked, did)
        BY DEF Core, Requests, Typed, QueueType
      <3>2. queue[m][q][i].from # <<n, t>>
        BY <1>w, NotWaiting
      <3> QED BY <2>1, <3>1, <3>2
    <2>3. ASSUME NEW m \in Node, NEW q \in Pools, NEW i \in 1..Len(queue'[m][q])
          PROVE  GoodRequest(m, queue'[m][q][i], thr', asked', did')
      <3>1. PICK j \in 1..Len(queue[m][q]) : queue'[m][q][i] = queue[m][q][j]
        BY DEF HeadGone
      <3> QED BY <2>2, <3>1
    <2>4. ASSUME NEW m \in Node, NEW u \in Thread, Busy(m, u)
          PROVE  GoodRequest(m, thr[m][u].req, thr', asked', did')
      BY <1>w, <2>1, <2>4, NotWaiting DEF Core, Requests, Typed, ThreadType, Busy
    <2>5. ASSUME NEW m \in Node, NEW u \in Thread, thr'[m][u].at # "idle"
          PROVE  GoodRequest(m, thr'[m][u].req, thr', asked', did')
      <3>1. CASE m = n /\ u = t
        <4>1. thr'[m][u].req = r /\ m = n
          BY <1>1, <3>1
        <4>2. GoodRequest(n, r, thr', asked', did')
          BY <2>2
        <4> QED BY <4>1, <4>2
      <3>2. CASE ~(m = n /\ u = t)
        <4>1. thr'[m][u] = thr[m][u]
          BY <1>1, <3>2
        <4>2. Busy(m, u)
          BY <2>5, <4>1 DEF Busy
        <4> QED BY <2>4, <4>1, <4>2
      <3> QED BY <3>1, <3>2
    <2> QED BY <2>3, <2>5 DEF Requests, Busy
  <1>8. InProgress'
    BY <1>1 DEF Core, InProgress
  <1>9. Replied'
    BY DEF Core, Replied
  <1> QED BY <1>2, <1>3, <1>5, <1>6, <1>7, <1>8, <1>9 DEF Core, Typed, Single

(* The request at the head of a queue is answered with an error. *)
Turned(n, p) ==
    LET r == queue[n][p][1] IN
    /\ HeadGone(n, p) /\ 1 \in 1..Len(queue[n][p]) /\ r \in Request
    /\ thr' = IF r.from \in Caller
              THEN [thr EXCEPT ![r.from[1]][r.from[2]] = Got(@, "error")] ELSE thr
    /\ reply' = IF r.from = Client THEN [reply EXCEPT ![r.id] = "error"] ELSE reply

LEMMA TurnKeeps ==
    ASSUME Core, NEW n \in Node, NEW p \in Pools, Turned(n, p), UNCHANGED <<asked, did>>
    PROVE  Core'
  <1> DEFINE r == queue[n][p][1]
  <1>r. HeadGone(n, p) /\ 1 \in 1..Len(queue[n][p]) /\ r \in Request
    BY DEF Turned
  <1>1. /\ thr' \in [Node -> [Thread -> State]]
        /\ \A m \in Node, u \in Thread :
             thr'[m][u] = IF r.from = <<m, u>> THEN Got(thr[m][u], "error") ELSE thr[m][u]
    <2>1. CASE r.from \in Caller
      <3>1. PICK x \in Node, y \in Thread : r.from = <<x, y>>
        BY <2>1 DEF Caller
      <3>2. thr' = [thr EXCEPT ![x][y] = Got(@, "error")]
        BY <2>1, <3>1, Callers DEF Turned
      <3>3. thr' = [thr EXCEPT ![x] = [thr[x] EXCEPT ![y] = Got(thr[x][y], "error")]]
        BY <3>2 DEF Core, Typed, ThreadType
      <3>4. thr \in [Node -> [Thread -> State]] /\ Got(thr[x][y], "error") \in State
        BY GotFields DEF Core, Typed, ThreadType
      <3>5. ASSUME NEW m \in Node, NEW u \in Thread
            PROVE  thr'[m][u] = IF r.from = <<m, u>> THEN Got(thr[m][u], "error") ELSE thr[m][u]
        BY <3>1, <3>3, <3>4
      <3> QED BY <3>3, <3>4, <3>5
    <2>2. CASE r.from \notin Caller
      <3>1. thr' = thr
        BY <2>2 DEF Turned
      <3>2. \A m \in Node, u \in Thread : r.from # <<m, u>>
        BY <2>2, Callers
      <3> QED BY <3>1, <3>2 DEF Core, Typed, ThreadType
    <2> QED BY <2>1, <2>2
  <1>2. \A m \in Node, u \in Thread :
           thr'[m][u].req = thr[m][u].req /\ thr'[m][u].at = thr[m][u].at
    BY <1>1, GotFields DEF Core, Typed, ThreadType
  <1>3. ThreadType' /\ QueueType' /\ DidType'
    BY <1>1, <1>2, <1>r DEF Core, Typed, ThreadType, DidType, HeadGone
  <1>4. ClientType'
    BY <1>r, RequestFields DEF Turned, Core, Typed, ClientType
  <1>5. /\ OneInQueues'
        /\ r.from \in Caller => \A m \in Node, q \in Pools : \A i \in 1..Len(queue'[m][q]) :
                                   queue'[m][q][i].from # r.from
    BY <1>r, HeadGoneOne DEF Core, Single, Typed
  <1>6. \A m \in Node, u \in Thread : Busy(m, u) /\ thr[m][u].req.from \in Caller =>
           thr[m][u].req.from # r.from
    BY <1>r DEF Core, Single, OneOrOther
  <1>7. OneInThreads'
    BY <1>2 DEF Core, Single, OneInThreads, Busy
  <1>q. ASSUME NEW m \in Node, NEW q \in Pools, NEW i \in 1..Len(queue'[m][q])
        PROVE  \E j \in 1..Len(queue[m][q]) : queue'[m][q][i] = queue[m][q][j]
    BY <1>r DEF HeadGone
  <1>8. OneOrOther'
    <2> SUFFICES ASSUME NEW k \in Node, NEW v \in Thread, NEW m \in Node, NEW q \in Pools,
                        NEW i \in 1..Len(queue'[m][q]), Busy(k, v), thr[k][v].req.from \in Caller
                 PROVE  thr[k][v].req.from # queue'[m][q][i].from
      BY <1>2 DEF OneOrOther, Busy
    <2>1. PICK j \in 1..Len(queue[m][q]) : queue'[m][q][i] = queue[m][q][j]
      BY <1>q
    <2> QED BY <2>1 DEF Core, Single, OneOrOther
  <1>a. Extends(asked, asked') /\ Grows
    BY SameGrows DEF Extends, Core, Typed
  <1>9. Requests'
    <2>1. ASSUME NEW m \in Node, NEW q \in Request, GoodRequest(m, q, thr, asked, did),
                 q.from \in Caller => q.from # r.from
          PROVE  GoodRequest(m, q, thr', asked', did')
      <3>1. q.from \in Caller => thr'[q.from[1]][q.from[2]] = thr[q.from[1]][q.from[2]]
        BY <1>1, <2>1, Callers
      <3> QED BY <1>4, <1>a, <2>1, <3>1, GoodKept DEF Core, Typed
    <2>2. ASSUME NEW m \in Node, NEW q \in Pools, NEW i \in 1..Len(queue'[m][q])
          PROVE  GoodRequest(m, queue'[m][q][i], thr', asked', did')
      <3>1. PICK j \in 1..Len(queue[m][q]) : queue'[m][q][i] = queue[m][q][j]
        BY <1>q
      <3>2. queue[m][q][j] \in Request /\ GoodRequest(m, queue[m][q][j], thr, asked, did)
        BY DEF Core, Requests, Typed, QueueType
      <3> QED BY <1>5, <2>1, <3>1, <3>2
    <2>3. ASSUME NEW m \in Node, NEW u \in Thread, Busy(m, u)
          PROVE  GoodRequest(m, thr[m][u].req, thr', asked', did')
      BY <1>6, <2>1, <2>3 DEF Core, Requests, Typed, ThreadType, Busy
    <2> QED BY <1>2, <2>2, <2>3 DEF Requests, Busy
  <1>10. InProgress'
    <2> SUFFICES ASSUME NEW m \in Node, NEW u \in Thread
                 PROVE  Progress(m, thr'[m][u], did'[thr'[m][u].req.id])
      BY DEF InProgress
    <2>1. Progress(m, thr[m][u], did[thr[m][u].req.id]) /\ thr[m][u] \in State
      BY DEF Core, InProgress, Typed, ThreadType
    <2>2. CASE r.from = <<m, u>>
      <3>1. thr'[m][u] = Got(thr[m][u], "error")
        BY <1>1, <2>2
      <3> QED BY <2>1, <3>1, GotFields DEF Progress
    <2> QED BY <1>1, <2>1, <2>2
  <1>11. Replied'
    <2>1. \A i \in Id : reply'[i] = "ok" => reply[i] = "ok"
      BY <1>r, RequestFields DEF Turned, Core, Typed, ClientType
    <2> QED BY <2>1 DEF Core, Replied
  <1> QED BY <1>3, <1>4, <1>5, <1>7, <1>8, <1>9, <1>10, <1>11 DEF Core, Typed, Single

(* A thread that only lost the caller of its request. *)
Similar(s, z) ==
    /\ z.at = s.at /\ z.got = s.got /\ z.next = s.next
    /\ z.req.path = s.req.path /\ z.req.kind = s.req.kind /\ z.req.op = s.req.op /\ z.req.id = s.req.id

OrphanOf(n, gone, s, z) ==
    /\ z \in State /\ z.at = s.at
    /\ s.at = "idle" => z = s
    /\ s.at # "idle" => /\ z.req \in Request /\ Similar(s, z)
                        /\ z.req.from = IF s.req.from \in gone THEN Nobody ELSE s.req.from
    /\ \A d : Progress(n, s, d) => Progress(n, z, d)

LEMMA OrphanedFields ==
    ASSUME ThreadType, InProgress, NEW n \in Node, NEW t \in Thread, NEW gone \in SUBSET Caller
    PROVE  OrphanOf(n, gone, thr[n][t], OrphanedThread(gone, thr[n][t]))
  <1> DEFINE s == thr[n][t]
             z == OrphanedThread(gone, s)
  <1>1. s \in State /\ (s.at # "idle" => s.req \in Request) /\ (s.at = "idle" => s.req = NoRequest)
    BY DEF ThreadType, InProgress, Progress
  <1>2. CASE s.at = "idle" \/ (s.req \in Request /\ s.req.from \notin gone)
    <2>1. z = s
      BY <1>1, <1>2 DEF OrphanedThread
    <2>2. OrphanOf(n, gone, s, s)
      BY <1>1, <1>2 DEF OrphanOf, Similar
    <2> QED BY <2>1, <2>2
  <1>3. CASE s.at # "idle" /\ s.req.from \in gone
    <2>1. s.req \in Request /\ s.req # NoRequest
      BY <1>1, <1>3, IdleType
    <2>2. /\ z \in State /\ z.at = s.at /\ z.got = s.got /\ z.next = s.next /\ z.req = Unowned(s.req)
      <3>1. z = [s EXCEPT !.req = Unowned(@)]
        BY <1>3, <2>1 DEF OrphanedThread
      <3>2. Unowned(s.req) \in Request
        BY <2>1, UnownedFields
      <3> HIDE DEF s, z
      <3> QED BY <1>1, <3>1, <3>2 DEF State
    <2>3. z.req \in Request /\ Similar(s, z) /\ z.req.from = Nobody
      BY <2>1, <2>2, UnownedFields DEF Similar
    <2>4. \A d : Progress(n, s, d) => Progress(n, z, d)
      <3> HIDE DEF s, z
      <3> QED BY <1>3, <2>2, <2>3 DEF Progress, Similar, Reconciles
    <2>5. OrphanOf(n, gone, s, z)
      <3> HIDE DEF s, z
      <3> QED BY <1>3, <2>2, <2>3, <2>4 DEF OrphanOf
    <2> QED BY <2>5
  <1> QED BY <1>1, <1>2, <1>3

(* A request whose caller is gone is owed to nobody, the others are what they were. *)
Kept(gone, r, z) ==
    /\ z \in Request /\ z.path = r.path /\ z.kind = r.kind /\ z.op = r.op /\ z.id = r.id
    /\ z.from = IF r.from \in gone THEN Nobody ELSE r.from

LEMMA OrphanedQueue ==
    ASSUME NEW q \in Seq(Request), NEW gone
    PROVE  /\ Orphaned(gone, q) \in Seq(Request) /\ Len(Orphaned(gone, q)) = Len(q)
           /\ \A i \in 1..Len(q) : Kept(gone, q[i], Orphaned(gone, q)[i])
  <1> DEFINE e(i) == IF q[i].from \in gone THEN Unowned(q[i]) ELSE q[i]
  <1>1. DOMAIN q = 1..Len(q) /\ Len(q) \in Nat
    OBVIOUS
  <1>2. \A i \in 1..Len(q) : e(i) \in Request
    BY <1>1, UnownedFields
  <1>3. Orphaned(gone, q) = [i \in 1..Len(q) |-> e(i)]
    BY <1>1 DEF Orphaned
  <1> HIDE DEF e
  <1>4. Orphaned(gone, q) \in Seq(Request) /\ Len(Orphaned(gone, q)) = Len(q)
    BY <1>1, <1>2, <1>3
  <1>5. \A i \in 1..Len(q) : Orphaned(gone, q)[i] = e(i)
    BY <1>3
  <1>6. \A i \in 1..Len(q) : Kept(gone, q[i], e(i))
    BY UnownedFields DEF e, Kept
  <1> QED BY <1>4, <1>5, <1>6

(* An orphan is still a good request. *)
LEMMA OrphanGood ==
    ASSUME NEW n, NEW r \in Request, NEW gone \in SUBSET Caller, NEW z, Kept(gone, r, z),
           GoodRequest(n, r, thr, asked, did), UNCHANGED <<asked, did>>,
           z.from \in Caller =>
               Similar(thr[r.from[1]][r.from[2]], thr'[r.from[1]][r.from[2]])
    PROVE  z \in Request /\ GoodRequest(n, z, thr', asked', did')
  <1>1. CASE r.from \in gone
    <2>1. r.from \in Caller /\ r.from # Client /\ z.from = Nobody
      BY <1>1, Callers DEF Kept
    <2> QED BY <2>1, Callers DEF GoodRequest, Kept
  <1>2. CASE r.from \notin gone
    <2>1. z.from = r.from
      BY <1>2 DEF Kept
    <2>2. r.from \in Caller => Answers(n, z, r.from[1], thr'[r.from[1]][r.from[2]], did[z.id])
      BY <2>1 DEF GoodRequest, Answers, Similar, Reconciles, Kept
    <2> QED BY <2>1, <2>2 DEF GoodRequest, Kept
  <1> QED BY <1>1, <1>2

(* What a timeout of the thread t of n does to the threads and the queues. *)
TimedOut(n, t) ==
    /\ \A m \in Node, u \in Thread :
          /\ thr'[m][u].at = thr[m][u].at
          /\ thr'[m][u].got = IF m = n /\ u = t THEN "error" ELSE thr[m][u].got
          /\ Busy(m, u) => Kept({<<n, t>>}, thr[m][u].req, thr'[m][u].req)
    /\ \A m \in Node, p \in Pools :
          /\ Len(queue'[m][p]) = Len(queue[m][p])
          /\ \A i \in 1..Len(queue[m][p]) : Kept({<<n, t>>}, queue[m][p][i], queue'[m][p][i])

LEMMA TimeoutKeeps ==
    ASSUME Core, NEW n \in Node, NEW t \in Thread, Timeout(n, t)
    PROVE  Core' /\ TimedOut(n, t)
  <1> DEFINE gone == {<<n, t>>}
  <1>g. gone \in SUBSET Caller /\ Waiting(n, t) /\ UNCHANGED <<asked, did, reply>>
    BY Callers DEF Timeout, TimesOut
  <1>0. ThreadType /\ QueueType /\ InProgress /\ thr[n][t] \in State
    BY DEF Core, Typed, ThreadType
  <1>1. /\ thr' = [m \in Node |-> [u \in Thread |->
                 IF <<m, u>> = <<n, t>> THEN Got(thr[n][t], "error")
                 ELSE OrphanedThread(gone, thr[m][u])]]
        /\ queue' = [m \in Node |-> [pool \in Pools |-> Orphaned(gone, queue[m][pool])]]
    BY DEF Timeout
  <1>2. ASSUME NEW m \in Node, NEW u \in Thread
        PROVE  IF m = n /\ u = t THEN thr'[m][u] = Got(thr[m][u], "error")
               ELSE thr'[m][u] = OrphanedThread(gone, thr[m][u]) /\ OrphanOf(m, gone, thr[m][u], thr'[m][u])
    <2>1. CASE m = n /\ u = t
      BY <1>1, <2>1
    <2>2. CASE ~(m = n /\ u = t)
      <3>1. thr'[m][u] = OrphanedThread(gone, thr[m][u])
        BY <1>1, <2>2
      <3>2. OrphanOf(m, gone, thr[m][u], OrphanedThread(gone, thr[m][u]))
        BY <1>g, <1>0, OrphanedFields
      <3> QED BY <2>2, <3>1, <3>2
    <2> QED BY <2>1, <2>2
  <1>3. ASSUME NEW m \in Node, NEW u \in Thread
        PROVE  /\ thr'[m][u] \in State /\ thr'[m][u].at = thr[m][u].at
               /\ thr'[m][u].got = IF m = n /\ u = t THEN "error" ELSE thr[m][u].got
               /\ Busy(m, u) => thr'[m][u].req \in Request /\ Kept(gone, thr[m][u].req, thr'[m][u].req)
               /\ Busy(m, u) /\ ~(m = n /\ u = t) => Similar(thr[m][u], thr'[m][u])
               /\ Progress(m, thr'[m][u], did[thr'[m][u].req.id])
    <2>1. CASE m = n /\ u = t
      <3>1. thr'[m][u] = Got(thr[m][u], "error") /\ thr[m][u] \in State
        BY <1>0, <1>2, <2>1
      <3>2. Busy(m, u) /\ thr[m][u].req \in Request
        BY <1>g, <1>0, <2>1 DEF Waiting, Busy, ThreadType
      <3>3. thr[m][u].req.from # <<n, t>>
        <4>1. SUFFICES ASSUME thr[m][u].req.from = <<n, t>>
                       PROVE  FALSE
          OBVIOUS
        <4>2. PICK k \in Node, v \in Thread : thr[m][u].req.from = <<k, v>> /\ k # m
          <5>1. thr[m][u].req.from \in Caller
            BY <4>1, Callers
          <5> QED BY <3>2, <5>1, CallerElsewhere
        <4> QED BY <2>1, <4>1, <4>2
      <3>4. Progress(m, thr[m][u], did[thr[m][u].req.id])
        BY <1>0 DEF InProgress
      <3>5. Progress(m, thr'[m][u], did[thr[m][u].req.id])
        BY <3>1, <3>4, GotFields DEF Progress
      <3> QED BY <2>1, <3>1, <3>2, <3>3, <3>5, GotFields DEF Kept
    <2>2. CASE ~(m = n /\ u = t)
      <3>1. OrphanOf(m, gone, thr[m][u], thr'[m][u]) /\ Progress(m, thr[m][u], did[thr[m][u].req.id])
        BY <1>0, <1>2, <2>2 DEF InProgress
      <3>2. thr'[m][u].at # "idle" => thr'[m][u].req.id = thr[m][u].req.id
        BY <3>1 DEF OrphanOf, Similar
      <3>3. Progress(m, thr'[m][u], did[thr'[m][u].req.id])
        <4>1. CASE thr'[m][u].at = "idle"
          BY <3>1, <4>1 DEF OrphanOf
        <4>2. CASE thr'[m][u].at # "idle"
          BY <3>1, <3>2, <4>2 DEF OrphanOf
        <4> QED BY <4>1, <4>2
      <3>4. Busy(m, u) => Kept(gone, thr[m][u].req, thr'[m][u].req)
        BY <3>1 DEF OrphanOf, Similar, Kept, Busy
      <3>5. thr'[m][u].got = thr[m][u].got
        BY <3>1 DEF OrphanOf, Similar
      <3> QED BY <2>2, <3>1, <3>3, <3>4, <3>5 DEF OrphanOf, Busy, Kept
    <2> QED BY <2>1, <2>2
  <1>4. ThreadType' /\ ClientType' /\ DidType'
    <2>1. thr' \in [Node -> [Thread -> State]]
      BY <1>1, <1>3
    <2> QED BY <1>g, <1>3, <2>1 DEF Core, Typed, ThreadType, ClientType, DidType, Busy
  <1>5. /\ QueueType'
        /\ \A m \in Node, p \in Pools :
             /\ Len(queue'[m][p]) = Len(queue[m][p])
             /\ \A i \in 1..Len(queue[m][p]) : Kept(gone, queue[m][p][i], queue'[m][p][i])
    <2>1. ASSUME NEW m \in Node, NEW p \in Pools
          PROVE  /\ queue'[m][p] \in Seq(Request) /\ Len(queue'[m][p]) = Len(queue[m][p])
                 /\ \A i \in 1..Len(queue[m][p]) : Kept(gone, queue[m][p][i], queue'[m][p][i])
      <3>1. queue'[m][p] = Orphaned(gone, queue[m][p]) /\ queue[m][p] \in Seq(Request)
        BY <1>0, <1>1 DEF QueueType
      <3> QED BY <3>1, OrphanedQueue
    <2>2. QueueType'
      BY <1>1, <2>1 DEF QueueType
    <2> QED BY <2>1, <2>2
  <1>6. ASSUME NEW r, NEW z, Kept(gone, r, z), z.from \in Caller
        PROVE  r.from = z.from /\ z.from # <<n, t>>
    BY <1>6, Callers DEF Kept
  <1>7. OneInQueues'
    <2> SUFFICES ASSUME NEW k \in Node, NEW m \in Node, NEW a \in Pools, NEW b \in Pools,
                        NEW i \in 1..Len(queue[k][a]), NEW j \in 1..Len(queue[m][b]),
                        queue'[k][a][i].from \in Caller, queue'[k][a][i].from = queue'[m][b][j].from
                 PROVE  k = m /\ a = b /\ i = j
      BY <1>5 DEF OneInQueues
    <2>1. Kept(gone, queue[k][a][i], queue'[k][a][i]) /\ Kept(gone, queue[m][b][j], queue'[m][b][j])
      BY <1>5
    <2>2. queue[k][a][i].from = queue'[k][a][i].from /\ queue[m][b][j].from = queue'[m][b][j].from
      BY <1>6, <2>1
    <2> QED BY <2>2 DEF Core, Single, OneInQueues
  <1>8. OneInThreads'
    <2> SUFFICES ASSUME NEW k \in Node, NEW m \in Node, NEW v \in Thread, NEW u \in Thread,
                        Busy(k, v), Busy(m, u), thr'[k][v].req.from \in Caller,
                        thr'[k][v].req.from = thr'[m][u].req.from
                 PROVE  k = m /\ v = u
      BY <1>3 DEF OneInThreads, Busy
    <2>1. Kept(gone, thr[k][v].req, thr'[k][v].req) /\ Kept(gone, thr[m][u].req, thr'[m][u].req)
      BY <1>3
    <2>2. thr[k][v].req.from = thr'[k][v].req.from /\ thr[m][u].req.from = thr'[m][u].req.from
      BY <1>6, <2>1
    <2> QED BY <2>2 DEF Core, Single, OneInThreads
  <1>9. OneOrOther'
    <2> SUFFICES ASSUME NEW k \in Node, NEW v \in Thread, NEW m \in Node, NEW q \in Pools,
                        NEW i \in 1..Len(queue[m][q]), Busy(k, v), thr'[k][v].req.from \in Caller,
                        thr'[k][v].req.from = queue'[m][q][i].from
                 PROVE  FALSE
      BY <1>3, <1>5 DEF OneOrOther, Busy
    <2>1. Kept(gone, thr[k][v].req, thr'[k][v].req) /\ Kept(gone, queue[m][q][i], queue'[m][q][i])
      BY <1>3, <1>5
    <2>2. thr[k][v].req.from = thr'[k][v].req.from /\ queue[m][q][i].from = queue'[m][q][i].from
      BY <1>6, <2>1
    <2> QED BY <2>2 DEF Core, Single, OneOrOther
  <1>10. Requests'
    <2>1. ASSUME NEW m \in Node, NEW r \in Request, NEW z, Kept(gone, r, z),
                 GoodRequest(m, r, thr, asked, did)
          PROVE  GoodRequest(m, z, thr', asked', did')
      <3>1. ASSUME z.from \in Caller
            PROVE  Similar(thr[r.from[1]][r.from[2]], thr'[r.from[1]][r.from[2]])
        <4>1. r.from \in Caller /\ r.from # <<n, t>>
          BY <1>6, <2>1, <3>1
        <4>2. /\ r.from[1] \in Node /\ r.from[2] \in Thread /\ ~(r.from[1] = n /\ r.from[2] = t)
              /\ Busy(r.from[1], r.from[2])
          BY <2>1, <4>1, Callers DEF GoodRequest, Answers, Busy
        <4> QED BY <1>3, <4>2
      <3> QED BY <1>g, <2>1, <3>1, OrphanGood
    <2>2. ASSUME NEW m \in Node, NEW q \in Pools, NEW i \in 1..Len(queue'[m][q])
          PROVE  GoodRequest(m, queue'[m][q][i], thr', asked', did')
      <3>1. i \in 1..Len(queue[m][q]) /\ Kept(gone, queue[m][q][i], queue'[m][q][i])
        BY <1>5
      <3>2. queue[m][q][i] \in Request /\ GoodRequest(m, queue[m][q][i], thr, asked, did)
        BY <3>1 DEF Core, Requests, Typed, QueueType
      <3> QED BY <2>1, <3>1, <3>2
    <2>3. ASSUME NEW m \in Node, NEW u \in Thread, thr'[m][u].at # "idle"
          PROVE  GoodRequest(m, thr'[m][u].req, thr', asked', did')
      <3>1. Busy(m, u) /\ Kept(gone, thr[m][u].req, thr'[m][u].req)
        BY <1>3, <2>3 DEF Busy
      <3>2. thr[m][u].req \in Request /\ GoodRequest(m, thr[m][u].req, thr, asked, did)
        BY <3>1 DEF Core, Requests, Typed, ThreadType, Busy
      <3> QED BY <2>1, <3>1, <3>2
    <2> QED BY <2>2, <2>3 DEF Requests, Busy
  <1>11. InProgress'
    BY <1>g, <1>3 DEF InProgress
  <1>12. Replied'
    BY <1>g DEF Core, Replied
  <1>13. TimedOut(n, t)
    BY <1>3, <1>5 DEF TimedOut
  <1> QED BY <1>4, <1>5, <1>7, <1>8, <1>9, <1>10, <1>11, <1>12, <1>13 DEF Core, Typed, Single

(* After a crash nobody waits for a request that is still under way, and whoever
   had one under way at the gateway that crashed has got its error. *)
Crashed(n) ==
    /\ \A m \in Node, u \in Thread : thr'[m][u].at # "idle" =>
          /\ Busy(m, u) /\ thr'[m][u].req.path = thr[m][u].req.path
          /\ thr'[m][u].req.from \notin Caller
    /\ \A m \in Node, p \in Pools : \A i \in 1..Len(queue'[m][p]) :
          /\ i \in 1..Len(queue[m][p]) /\ queue'[m][p][i].path = queue[m][p][i].path
          /\ queue'[m][p][i].from \notin Caller
    /\ Attended => \A m \in Node, u \in Thread :
          ~(thr'[m][u].at = "call" /\ thr'[m][u].got = "none")

LEMMA CrashKeeps ==
    ASSUME Core, NEW n \in Node, Crash(n)
    PROVE  Core' /\ Crashed(n)
  <1> DEFINE gone == {n} \X Thread
             lost == {thr[n][t].req : t \in Thread}
                     \cup UNION {{queue[n][pool][i] : i \in DOMAIN queue[n][pool]} : pool \in Pools}
             waits(x) == \E r \in lost \ {NoRequest} : r.from = x
             answered(i) == \E r \in lost \ {NoRequest} : r.id = i /\ r.from = Client
  <1>1. /\ thr' = [m \in Node |-> [t \in Thread |->
                     IF m = n THEN Idle
                     ELSE IF waits(<<m, t>>) THEN Got(OrphanedThread(gone, thr[m][t]), "error")
                          ELSE OrphanedThread(gone, thr[m][t])]]
        /\ queue' = [m \in Node |-> [pool \in Pools |->
                     IF m = n THEN <<>> ELSE Orphaned(gone, queue[m][pool])]]
        /\ reply' = [i \in Id |-> IF answered(i) THEN "error" ELSE reply[i]]
        /\ UNCHANGED <<asked, did>>
    BY DEF Crash
  <1> HIDE DEF lost, waits, answered
  <1>g. gone \in SUBSET Caller
    BY DEF Caller
  <1>0. ThreadType /\ QueueType /\ InProgress
    BY DEF Core, Typed
  <1>2. ASSUME NEW u \in Thread
        PROVE  thr'[n][u] = Idle
    BY <1>1
  <1>3. ASSUME NEW m \in Node, m # n, NEW u \in Thread
        PROVE  /\ thr'[m][u] \in State /\ thr'[m][u].at = thr[m][u].at
               /\ Busy(m, u) => Kept(gone, thr[m][u].req, thr'[m][u].req)
               /\ Progress(m, thr'[m][u], did[thr'[m][u].req.id])
               /\ thr'[m][u].got = IF waits(<<m, u>>) THEN "error" ELSE thr[m][u].got
    <2> DEFINE z == OrphanedThread(gone, thr[m][u])
    <2>1. OrphanOf(m, gone, thr[m][u], z) /\ Progress(m, thr[m][u], did[thr[m][u].req.id])
      BY <1>g, <1>0, OrphanedFields DEF InProgress
    <2>2. thr'[m][u] = IF waits(<<m, u>>) THEN Got(z, "error") ELSE z
      BY <1>1, <1>3
    <2> HIDE DEF z
    <2>3. /\ z \in State /\ z.at = thr[m][u].at /\ z.got = thr[m][u].got
          /\ Busy(m, u) => Kept(gone, thr[m][u].req, z.req)
      BY <2>1 DEF OrphanOf, Similar, Kept, Busy
    <2>4. Progress(m, z, did[z.req.id])
      <3>1. CASE z.at = "idle"
        BY <2>1, <3>1 DEF OrphanOf
      <3>2. CASE z.at # "idle"
        <4>1. z.req.id = thr[m][u].req.id
          BY <2>1, <3>2 DEF OrphanOf, Similar
        <4> QED BY <2>1, <4>1 DEF OrphanOf
      <3> QED BY <3>1, <3>2
    <2>5. Progress(m, Got(z, "error"), did[z.req.id])
      BY <2>3, <2>4, GotFields DEF Progress
    <2> QED BY <2>2, <2>3, <2>4, <2>5, GotFields
  <1>4. ThreadType' /\ ClientType' /\ DidType'
    <2>1. \A m \in Node, u \in Thread : thr'[m][u] \in State
      BY <1>2, <1>3, IdleType
    <2>2. thr' \in [Node -> [Thread -> State]]
      BY <1>1, <2>1
    <2>3. ASSUME NEW m \in Node, NEW u \in Thread, thr'[m][u].at # "idle"
          PROVE  thr'[m][u].req \in Request
      <3>1. m # n
        BY <1>2, <2>3, IdleType
      <3>2. Busy(m, u) => Kept(gone, thr[m][u].req, thr'[m][u].req)
        BY <1>3, <3>1
      <3>3. thr'[m][u].at = thr[m][u].at
        BY <1>3, <3>1
      <3> QED BY <2>3, <3>2, <3>3 DEF Kept, Busy
    <2> QED BY <1>1, <2>2, <2>3 DEF Core, Typed, ThreadType, ClientType, DidType
  <1>5. ASSUME NEW m \in Node, NEW p \in Pools
        PROVE  /\ queue'[m][p] \in Seq(Request)
               /\ m = n => Len(queue'[m][p]) = 0
               /\ m # n => /\ Len(queue'[m][p]) = Len(queue[m][p])
                           /\ \A i \in 1..Len(queue[m][p]) : Kept(gone, queue[m][p][i], queue'[m][p][i])
    <2>1. CASE m = n
      BY <1>1, <2>1
    <2>2. CASE m # n
      <3>1. queue'[m][p] = Orphaned(gone, queue[m][p]) /\ queue[m][p] \in Seq(Request)
        BY <1>0, <1>1, <2>2 DEF QueueType
      <3> QED BY <2>2, <3>1, OrphanedQueue
    <2> QED BY <2>1, <2>2
  <1>6. QueueType'
    BY <1>1, <1>5 DEF QueueType
  (* Whoever has a request at the other gateway is a thread of this one. *)
  <1>7. ASSUME NEW m \in Node, m # n, NEW r \in Request, GoodRequest(m, r, thr, asked, did),
               NEW z, Kept(gone, r, z)
        PROVE  GoodRequest(m, z, thr', asked', did') /\ z.from \notin Caller
    <2>1. r.from \in Caller => r.from \in gone
      <3>1. SUFFICES ASSUME r.from \in Caller
                     PROVE  r.from \in gone
        OBVIOUS
      <3>2. PICK x \in Node, y \in Thread : r.from = <<x, y>>
        BY <3>1 DEF Caller
      <3>3. m = Peer[x]
        BY <1>7, <3>1, <3>2, Callers DEF GoodRequest, Answers
      <3>4. x = n
        BY <1>7, <3>3, Pair
      <3> QED BY <3>2, <3>4
    <2>2. z.from \notin Caller
      BY <1>7, <2>1, Callers DEF Kept
    <2> QED BY <1>1, <1>7, <1>g, <2>2, OrphanGood
  <1>8. ASSUME NEW m \in Node, NEW q \in Pools, NEW i \in 1..Len(queue'[m][q])
        PROVE  GoodRequest(m, queue'[m][q][i], thr', asked', did') /\ queue'[m][q][i].from \notin Caller
    <2>1. m # n
      BY <1>5
    <2>2. i \in 1..Len(queue[m][q]) /\ Kept(gone, queue[m][q][i], queue'[m][q][i])
      BY <1>5, <2>1
    <2>3. queue[m][q][i] \in Request /\ GoodRequest(m, queue[m][q][i], thr, asked, did)
      BY <2>2 DEF Core, Requests, Typed, QueueType
    <2> QED BY <1>7, <2>1, <2>2, <2>3
  <1>9. ASSUME NEW m \in Node, NEW u \in Thread, thr'[m][u].at # "idle"
        PROVE  GoodRequest(m, thr'[m][u].req, thr', asked', did') /\ thr'[m][u].req.from \notin Caller
    <2>1. m # n
      BY <1>2, <1>9, IdleType
    <2>2. Busy(m, u) /\ Kept(gone, thr[m][u].req, thr'[m][u].req)
      BY <1>3, <1>9, <2>1 DEF Busy
    <2>3. thr[m][u].req \in Request /\ GoodRequest(m, thr[m][u].req, thr, asked, did)
      BY <2>2 DEF Core, Requests, Typed, ThreadType, Busy
    <2> QED BY <1>7, <2>1, <2>2, <2>3
  <1>10. Requests' /\ Single'
    BY <1>8, <1>9 DEF Requests, Single, OneInQueues, OneInThreads, OneOrOther, Busy
  <1>11. InProgress'
    <2> SUFFICES ASSUME NEW m \in Node, NEW u \in Thread
                 PROVE  Progress(m, thr'[m][u], did'[thr'[m][u].req.id])
      BY DEF InProgress
    <2>1. CASE m = n
      BY <1>2, <2>1, IdleProgress
    <2> QED BY <1>1, <1>3, <2>1
  <1>12. Replied'
    <2>1. \A i \in Id : reply'[i] = "ok" => reply[i] = "ok"
      BY <1>1
    <2> QED BY <1>1, <2>1 DEF Core, Replied
  <1>13. ASSUME Attended, NEW m \in Node, NEW u \in Thread
         PROVE  ~(thr'[m][u].at = "call" /\ thr'[m][u].got = "none")
    <2>1. CASE m = n
      BY <1>2, <2>1, IdleType
    <2>2. CASE m # n
      <3>1. SUFFICES ASSUME Waiting(m, u) PROVE waits(<<m, u>>)
        BY <1>3, <2>2 DEF Waiting
      <3>2. Peer[m] = n /\ UnderWay(m, u)
        BY <1>13, <2>2, <3>1, Pair DEF Attended
      <3>3. ASSUME NEW r \in Request, r \in lost, r.from = <<m, u>>
            PROVE  waits(<<m, u>>)
        BY <3>3, IdleType DEF waits
      <3>4. CASE \E p \in Pools : \E i \in 1..Len(queue[n][p]) : queue[n][p][i].from = <<m, u>>
        <4>0. PICK p \in Pools : \E i \in 1..Len(queue[n][p]) : queue[n][p][i].from = <<m, u>>
          BY <3>4
        <4>1. PICK i \in 1..Len(queue[n][p]) : queue[n][p][i].from = <<m, u>>
          BY <4>0
        <4>2. queue[n][p][i] \in Request /\ i \in DOMAIN queue[n][p]
          BY <1>0 DEF QueueType
        <4>3. queue[n][p][i] \in lost
          BY <4>2 DEF lost
        <4> QED BY <3>3, <4>1, <4>2, <4>3
      <3>5. CASE \E v \in Thread : Busy(n, v) /\ thr[n][v].req.from = <<m, u>>
        <4>1. PICK v \in Thread : Busy(n, v) /\ thr[n][v].req.from = <<m, u>>
          BY <3>5
        <4>2. thr[n][v].req \in Request /\ thr[n][v].req \in lost
          BY <1>0, <4>1 DEF ThreadType, Busy, lost
        <4> QED BY <3>3, <4>1, <4>2
      <3> QED BY <3>2, <3>4, <3>5 DEF UnderWay
    <2> QED BY <2>1, <2>2
  <1>14. Crashed(n)
    <2>1. ASSUME NEW m \in Node, NEW u \in Thread, thr'[m][u].at # "idle"
          PROVE  Busy(m, u) /\ thr'[m][u].req.path = thr[m][u].req.path
      <3>1. m # n
        BY <1>2, <2>1, IdleType
      <3> QED BY <1>3, <2>1, <3>1 DEF Busy, Kept
    <2>2. ASSUME NEW m \in Node, NEW p \in Pools, NEW i \in 1..Len(queue'[m][p])
          PROVE  i \in 1..Len(queue[m][p]) /\ queue'[m][p][i].path = queue[m][p][i].path
      <3>1. m # n
        BY <1>5
      <3> QED BY <1>5, <3>1 DEF Kept
    <2> QED BY <1>8, <1>9, <1>13, <2>1, <2>2 DEF Crashed
  <1> QED BY <1>4, <1>6, <1>10, <1>11, <1>12, <1>14 DEF Core, Typed

LEMMA TakeKeeps ==
    ASSUME Core, docs \in [Node -> [Document -> SUBSET Item]], NEW n \in Node, NEW t \in Thread, Take(n, t)
    PROVE  Core'
  <1> DEFINE p == PoolOf(t)
             r == queue[n][p][1]
  <1>1. p \in Pools /\ queue[n][p] # <<>> /\ ~Busy(n, t) /\ UNCHANGED <<asked, did>>
        /\ queue' = [queue EXCEPT ![n][p] = Tail(@)]
    BY DEF Take, PoolOf, Pools, Busy
  <1>2. HeadGone(n, p) /\ 1 \in 1..Len(queue[n][p]) /\ Head(queue[n][p]) = r /\ r \in Request
    BY <1>1, TailGone DEF Core, Typed
  <1>3. GoodRequest(n, r, thr, asked, did)
    BY <1>1, <1>2 DEF Core, Requests
  <1>f. /\ r.path \in {"save", "ha", "active", "replica", "group"} \cup Asks /\ r.kind \in Kind
        /\ r.op \in Operation /\ r.item \in Item /\ r.doc \in SUBSET Item /\ r.id \in Id
        /\ r.path = "save" => r.kind \in Document
    BY <1>2, <1>3, RequestFields DEF GoodRequest, Kind, Asks
  <1>4. ASSUME NEW at \in {"group", "save", "ha", "peer"}, NEW doc \in SUBSET Item,
               thr' = [thr EXCEPT ![n][t] = Started(r, at, doc)], UNCHANGED reply,
               at = "group" => r.path = "group" \/ (r.path = "save" /\ r.op = "prune"),
               at = "save" => /\ r.path \in {"save", "active", "replica"}
                              /\ ~(r.path = "save" /\ r.op = "prune"),
               at = "ha" => r.path = "ha", at = "peer" => r.path \in Asks
        PROVE  Core'
    <2> DEFINE s == Started(r, at, doc)
    <2>1. s \in State /\ s.at = at /\ s.req = r
      BY <1>2, <1>4, StartedFields
    <2> HIDE DEF s
    <2>2. Progress(n, s, did[s.req.id])
      BY <1>4, <2>1 DEF Progress
    <2>3. thr' = [thr EXCEPT ![n][t] = s] /\ s.at # "idle"
      BY <1>4, <2>1 DEF s
    <2> QED BY <1>1, <1>2, <1>4, <2>1, <2>2, <2>3, StartKeeps
  <1>5. CASE /\ r.path = "save"
             /\ reply' = IF r.from = Client THEN [reply EXCEPT ![r.id] = "error"] ELSE reply
             /\ thr' = thr
    <2>1. r.from \notin Caller
      BY <1>3, <1>5, Callers DEF GoodRequest
    <2>2. Turned(n, p)
      BY <1>2, <1>5, <2>1 DEF Turned
    <2> QED BY <1>1, <2>2, TurnKeeps
  <1>6. CASE /\ r.path = "save"
             /\ thr' = [thr EXCEPT ![n][t] =
                   Started(r, IF r.op = "prune" THEN "group" ELSE "save",
                           Edited(r.op, docs[n][r.kind], r.item))]
             /\ UNCHANGED reply
    <2>1. Edited(r.op, docs[n][r.kind], r.item) \in SUBSET Item
      BY <1>f, <1>6 DEF Edited, upsert_in_config, merge_import, delete_in_config, Operation
    <2>2. CASE r.op = "prune"
      BY <1>4, <1>6, <2>1, <2>2
    <2>3. CASE r.op # "prune"
      BY <1>4, <1>6, <2>1, <2>3
    <2> QED BY <2>2, <2>3
  <1>7. CASE /\ r.path # "save"
             /\ thr' = [thr EXCEPT ![n][t] = Started(r, Entry(r.path), r.doc)]
             /\ UNCHANGED reply
    <2>1. /\ Entry(r.path) \in {"group", "save", "ha", "peer"}
          /\ Entry(r.path) = "group" => r.path = "group"
          /\ Entry(r.path) = "save" => r.path \in {"active", "replica"}
          /\ Entry(r.path) = "ha" => r.path = "ha"
          /\ Entry(r.path) = "peer" => r.path \in Asks
      BY <1>7, <1>f DEF Entry, Asks
    <2> HIDE DEF r
    <2> QED BY <1>4, <1>7, <1>f, <2>1
  <1> HIDE DEF r
  <1> QED BY <1>2, <1>5, <1>6, <1>7 DEF Take

LEMMA RejectTurns ==
    ASSUME Core, NEW n \in Node, NEW t \in Thread, queue[n][PoolOf(t)] # <<>>, Reject(n, t)
    PROVE  PoolOf(t) \in Pools /\ Turned(n, PoolOf(t)) /\ UNCHANGED <<asked, did>>
  <1> DEFINE p == PoolOf(t)
             r == queue[n][p][1]
  <1>1. p \in Pools /\ queue' = [queue EXCEPT ![n][p] = Tail(@)] /\ UNCHANGED <<asked, did>>
    BY DEF Reject, PoolOf, Pools
  <1>2. HeadGone(n, p) /\ 1 \in 1..Len(queue[n][p]) /\ Head(queue[n][p]) = r /\ r \in Request
    BY <1>1, TailGone DEF Core, Typed
  <1>3. /\ thr' = IF r.from \in Caller
                  THEN [thr EXCEPT ![r.from[1]][r.from[2]] = Got(@, "error")] ELSE thr
        /\ reply' = IF r.from = Client THEN [reply EXCEPT ![r.id] = "error"] ELSE reply
    BY <1>2 DEF Reject, Caller
  <1> QED BY <1>1, <1>2, <1>3 DEF Turned

LEMMA RejectKeeps ==
    ASSUME Core, NEW n \in Node, NEW t \in Thread, queue[n][PoolOf(t)] # <<>>, Reject(n, t)
    PROVE  Core'
  BY RejectTurns, TurnKeeps

(* What the invariant says of a thread that is about to step. *)
LEMMA Stepping ==
    ASSUME Core, NEW n \in Node, NEW t \in Thread, Busy(n, t)
    PROVE  /\ thr[n][t] \in State /\ thr[n][t].req \in Request /\ thr[n][t].doc \in SUBSET Item
           /\ Progress(n, thr[n][t], did[thr[n][t].req.id]) /\ DidType
           /\ thr[n][t].at # "call" => ~Waiting(n, t)
           /\ thr[n][t].req.kind = "ha" <=> thr[n][t].req.path \in {"ha"} \cup Asks
  <1>1. GoodRequest(n, thr[n][t].req, thr, asked, did)
    BY DEF Core, Requests
  <1>2. thr[n][t].req.kind = "ha" <=> thr[n][t].req.path \in {"ha"} \cup Asks
    BY <1>1 DEF GoodRequest
  <1> QED BY <1>2 DEF Core, Typed, ThreadType, InProgress, Busy, Waiting, State

LEMMA ApplyGroupKeeps ==
    ASSUME Core, NEW n \in Node, NEW t \in Thread, ApplyGroup(n, t)
    PROVE  Core'
  <1> DEFINE s == thr[n][t]
  <1>1. Busy(n, t) /\ s.at = "group" /\ UNCHANGED asked
    BY DEF ApplyGroup, Busy
  <1>2. /\ s \in State /\ s.req \in Request /\ Progress(n, s, did[s.req.id]) /\ DidType
        /\ s.req.kind = "ha" <=> s.req.path \in {"ha"} \cup Asks
        /\ ~Waiting(n, t)
    BY <1>1, Stepping
  <1>3. CASE Record(s.req, "group") /\ s.req.path = "group" /\ Respond(n, t, "ok")
    <2>1. Grows /\ "group" \in did'[s.req.id]
      BY <1>2, <1>3, RecordGrows
    <2>2. Promise(s.req, n, did'[s.req.id])
      BY <1>3, <2>1 DEF Promise
    <2> QED BY <1>1, <1>2, <1>3, <2>1, <2>2, RespondKeeps
  <1>4. CASE Record(s.req, "group") /\ s.req.path # "group" /\ Continue(n, t, "save")
    <2>1. Grows /\ "group" \in did'[s.req.id]
      BY <1>2, <1>4, RecordGrows
    <2>2. Progress(n, GoingOn(s, "save"), did'[s.req.id])
      BY <1>1, <1>2, <1>4, <2>1, GoingOnFields DEF Progress
    <2> QED BY <1>1, <1>2, <1>4, <2>1, <2>2, ContinueKeeps
  <1>5. CASE Respond(n, t, "error") /\ UNCHANGED did
    BY <1>1, <1>2, <1>5, SameGrows, RespondKeeps
  <1>6. CASE s.req.path # "group" /\ send_peer_json(n, t, "group", {}, "save") /\ UNCHANGED did
    <2>1. MayCall(n, s.req, "group", "save", did'[s.req.id])
      BY <1>1, <1>2, <1>6 DEF Progress, MayCall, Asks
    <2> QED BY <1>1, <1>2, <1>6, <2>1, SameGrows, SendKeeps, CallNames
  <1> QED BY <1>3, <1>4, <1>5, <1>6 DEF ApplyGroup

LEMMA SaveKeeps ==
    ASSUME Core, NEW n \in Node, NEW t \in Thread, Save(n, t)
    PROVE  Core'
  <1> DEFINE s == thr[n][t]
  <1>1. Busy(n, t) /\ s.at = "save" /\ UNCHANGED asked
    BY DEF Save, Busy
  <1>2. /\ s \in State /\ s.req \in Request /\ Progress(n, s, did[s.req.id]) /\ DidType
        /\ s.req.kind = "ha" <=> s.req.path \in {"ha"} \cup Asks
        /\ ~Waiting(n, t) /\ s.doc \in SUBSET Item
    BY <1>1, Stepping
  <1>3. CASE save_from_peer_replica(n, t)
    <2>1. Record(s.req, n) /\ s.req.path = "replica" /\ Respond(n, t, "ok")
      BY <1>3 DEF save_from_peer_replica
    <2>2. Grows /\ n \in did'[s.req.id]
      BY <1>2, <2>1, RecordGrows
    <2>3. Promise(s.req, n, did'[s.req.id])
      BY <2>1, <2>2 DEF Promise
    <2> QED BY <1>1, <1>2, <2>1, <2>2, <2>3, RespondKeeps
  <1>4. CASE save_as_master(n, t)
    <2> DEFINE next == IF Reconciles(s.req) THEN "reconcile" ELSE "reply"
    <2>1. /\ Record(s.req, n) /\ s.req.path \in {"save", "active"}
          /\ send_peer_json(n, t, "replica", s.doc, next)
      BY <1>4 DEF save_as_master
    <2>2. Grows /\ n \in did'[s.req.id] /\ did[s.req.id] \subseteq did'[s.req.id]
      <3>1. Record(s.req, n) /\ DidType /\ s.req \in Request /\ n \in Node \cup {"group", "generated"}
        BY <1>2, <2>1
      <3> HIDE DEF s
      <3>2. Grows /\ n \in did'[s.req.id] /\ did'[s.req.id] = did[s.req.id] \cup {n}
        BY <3>1, RecordGrows
      <3> QED BY <3>2
    <2>3. MayCall(n, s.req, "replica", next, did'[s.req.id])
      BY <1>1, <1>2, <2>1, <2>2 DEF Progress, MayCall, Asks
    <2> HIDE DEF s
    <2>4. next \in Onward
      BY DEF Onward
    <2> HIDE DEF next
    <2> QED BY <1>1, <1>2, <2>1, <2>2, <2>3, <2>4, SendKeeps, CallNames DEF s
  <1>5. CASE not_master(n, t)
    <2>1. Respond(n, t, "error") /\ UNCHANGED did
      BY <1>5 DEF not_master
    <2> QED BY <1>1, <1>2, <2>1, SameGrows, RespondKeeps
  <1>6. CASE forward_to_master(n, t)
    <2>1. s.req.path = "save" /\ send_peer_json(n, t, "active", s.doc, "reply") /\ UNCHANGED did
      BY <1>6 DEF forward_to_master
    <2>2. MayCall(n, s.req, "active", "reply", did'[s.req.id])
      BY <1>1, <1>2, <2>1 DEF Progress, MayCall, Asks
    <2> QED BY <1>1, <1>2, <2>1, <2>2, SameGrows, SendKeeps, CallNames
  <1> QED BY <1>3, <1>4, <1>5, <1>6 DEF Save

LEMMA ReconcileKeeps ==
    ASSUME Core, NEW n \in Node, NEW t \in Thread, reconcile_templates(n, t)
    PROVE  Core'
  <1> DEFINE s == thr[n][t]
  <1>1. Busy(n, t) /\ s.at = "reconcile" /\ UNCHANGED asked
    BY DEF reconcile_templates, Busy
  <1>2. /\ s \in State /\ s.req \in Request /\ Progress(n, s, did[s.req.id]) /\ DidType
        /\ s.req.kind = "ha" <=> s.req.path \in {"ha"} \cup Asks
        /\ ~Waiting(n, t)
    BY <1>1, Stepping
  <1>3. CASE Record(s.req, "generated") /\ Respond(n, t, "ok")
    <2>1. Grows /\ "generated" \in did'[s.req.id] /\ did[s.req.id] \subseteq did'[s.req.id]
      BY <1>2, <1>3, RecordGrows
    <2>2. Promise(s.req, n, did'[s.req.id])
      BY <1>1, <1>2, <2>1 DEF Promise, Progress
    <2> QED BY <1>1, <1>2, <1>3, <2>1, <2>2, RespondKeeps
  <1>4. CASE Respond(n, t, "error") /\ UNCHANGED did
    BY <1>1, <1>2, <1>4, SameGrows, RespondKeeps
  <1>5. CASE send_peer_json(n, t, "group", {}, "generated") /\ UNCHANGED did
    <2>1. MayCall(n, s.req, "group", "generated", did'[s.req.id])
      BY <1>1, <1>2, <1>5 DEF Progress, MayCall, Asks
    <2> QED BY <1>1, <1>2, <1>5, <2>1, SameGrows, SendKeeps, CallNames
  <1> QED BY <1>3, <1>4, <1>5 DEF reconcile_templates

LEMMA ResumeKeeps ==
    ASSUME Core, NEW n \in Node, NEW t \in Thread, Resume(n, t)
    PROVE  Core'
  <1> DEFINE s == thr[n][t]
  <1>1. Busy(n, t) /\ s.at = "call" /\ s.got # "none" /\ s.req.path # "ha" /\ ~Waiting(n, t) /\ UNCHANGED asked
    BY DEF Resume, Busy, Waiting
  <1>2. s \in State /\ s.req \in Request /\ Progress(n, s, did[s.req.id]) /\ DidType
    BY <1>1, Stepping
  <1>3. CASE Respond(n, t, "error") /\ UNCHANGED did
    BY <1>1, <1>2, <1>3, SameGrows, RespondKeeps
  <1>4. CASE s.got = "ok" /\ s.next = "reply" /\ Respond(n, t, "ok") /\ UNCHANGED did
    <2>1. Promise(s.req, n, did'[s.req.id])
      BY <1>1, <1>2, <1>4 DEF Promise, Progress
    <2> QED BY <1>1, <1>2, <1>4, <2>1, SameGrows, RespondKeeps
  <1>5. CASE s.got = "ok" /\ s.next = "generated" /\ Record(s.req, "generated") /\ Respond(n, t, "ok")
    <2>1. Grows /\ "generated" \in did'[s.req.id] /\ did[s.req.id] \subseteq did'[s.req.id]
      BY <1>2, <1>5, RecordGrows
    <2>2. Promise(s.req, n, did'[s.req.id])
      BY <1>1, <1>2, <1>5, <2>1 DEF Promise, Progress
    <2> QED BY <1>1, <1>2, <1>5, <2>1, <2>2, RespondKeeps
  <1>6. CASE s.got = "ok" /\ s.next \in {"save", "reconcile"} /\ Continue(n, t, s.next) /\ UNCHANGED did
    <2>1. Progress(n, GoingOn(s, s.next), did'[s.req.id])
      BY <1>1, <1>2, <1>6, GoingOnFields DEF Progress
    <2> QED BY <1>1, <1>2, <1>6, <2>1, SameGrows, ContinueKeeps
  <1> QED BY <1>3, <1>4, <1>5, <1>6 DEF Resume, Accepted

(* The requests about the pair: the handler answers, or calls the peer, and only
   in a step that answers does a role change. *)
PairStep(n, t) ==
    \/ status(n, t) \/ switch_active_gateway(n, t) \/ write_active_gateway(n, t)
    \/ failed_switch(n, t) \/ peer_status(n, t) \/ peer_activate(n, t)
Answered(n, t) == \E code \in {"ok", "error"} : Respond(n, t, code)
Sent(n, t) ==
    /\ thr[n][t].req.path = "ha"
    /\ \E path \in Asks, next \in {"reply", "undone"} : send_peer_json(n, t, path, {}, next)

LEMMA PairShape ==
    ASSUME Core, active \in [Node -> Node], NEW n \in Node, NEW t \in Thread, PairStep(n, t)
    PROVE  /\ Busy(n, t) /\ ~Waiting(n, t) /\ UNCHANGED <<docs, asked, faults, did>>
           /\ thr[n][t].req.path \in {"ha"} \cup Asks
           /\ Answered(n, t) \/ Sent(n, t)
           /\ \/ UNCHANGED active /\ Calmer
              \/ active' \in [Node -> Node] /\ Unsettled /\ Answered(n, t)
  <1> DEFINE s == thr[n][t]
  <1>p. ASSUME Busy(n, t)
        PROVE  (s.at = "ha" => s.req.path = "ha") /\ (s.at = "peer" => s.req.path \in Asks)
    BY <1>p, Stepping DEF Progress
  <1>a. "peer_status" \in Asks /\ "activate" \in Asks /\ "yield" \in Asks
    BY DEF Asks
  <1>1. CASE status(n, t)
    <2>1. /\ s.req.path = "ha" /\ UNCHANGED <<active, docs, asked, faults, did>> /\ Calmer
          /\ \/ s.at = "ha" /\ send_peer_json(n, t, "peer_status", {}, "reply")
             \/ s.at = "call" /\ s.got # "none" /\ Respond(n, t, "ok")
      BY <1>1 DEF status
    <2> QED BY <1>a, <2>1 DEF Busy, Waiting, Answered, Sent
  <1>2. CASE switch_active_gateway(n, t)
    <2>1. /\ s.at = "ha" /\ UNCHANGED <<active, docs, asked, faults, did>> /\ Calmer
          /\ \/ Answered(n, t)
             \/ send_peer_json(n, t, "yield", {}, "reply")
             \/ send_peer_json(n, t, "activate", {}, "reply")
      BY <1>2 DEF switch_active_gateway, Answered
    <2> QED BY <1>a, <1>p, <2>1 DEF Busy, Waiting, Sent
  <1>3. CASE write_active_gateway(n, t)
    <2>1. /\ s.at = "call" /\ s.got # "none" /\ s.req.path = "ha"
          /\ UNCHANGED <<docs, asked, faults, did>> /\ Unsettled /\ Respond(n, t, "ok")
          /\ active' = [active EXCEPT ![n] = IF s.req.op = "takeover" THEN n ELSE Peer[n]]
      BY <1>3 DEF write_active_gateway
    <2>2. active' \in [Node -> Node]
      BY <2>1, Pair
    <2> QED BY <2>1, <2>2 DEF Busy, Waiting, Answered
  <1>4. CASE failed_switch(n, t)
    <2>1. /\ s.at = "call" /\ s.got # "none" /\ s.req.path = "ha"
          /\ UNCHANGED <<active, docs, asked, faults, did>> /\ Calmer
          /\ \/ Respond(n, t, "error")
             \/ send_peer_json(n, t, "activate", {}, "undone")
      BY <1>4 DEF failed_switch
    <2> QED BY <1>a, <2>1 DEF Busy, Waiting, Answered, Sent
  <1>5. CASE peer_status(n, t)
    <2>1. /\ s.at = "peer" /\ UNCHANGED <<active, docs, asked, faults, did>> /\ Calmer
          /\ Answered(n, t)
      BY <1>5 DEF peer_status, Answered
    <2> QED BY <1>p, <2>1 DEF Busy, Waiting
  <1>6. CASE peer_activate(n, t)
    <2>1. /\ s.at = "peer" /\ UNCHANGED <<docs, asked, faults, did>>
          /\ \/ /\ active' = [active EXCEPT ![n] = IF s.req.path = "activate" THEN n ELSE Peer[n]]
                /\ Respond(n, t, "ok") /\ Unsettled
             \/ UNCHANGED active /\ Respond(n, t, "error") /\ Calmer
      BY <1>6 DEF peer_activate
    <2>2. active' \in [Node -> Node]
      BY <2>1, Pair
    <2> QED BY <1>p, <2>1, <2>2 DEF Busy, Waiting, Answered
  <1> QED BY <1>1, <1>2, <1>3, <1>4, <1>5, <1>6 DEF PairStep

LEMMA PairKeeps ==
    ASSUME Core, active \in [Node -> Node], NEW n \in Node, NEW t \in Thread, PairStep(n, t)
    PROVE  Core'
  <1> DEFINE s == thr[n][t]
  <1>1. /\ Busy(n, t) /\ ~Waiting(n, t) /\ UNCHANGED <<asked, did>>
        /\ s.req.path \in {"ha"} \cup Asks /\ (Answered(n, t) \/ Sent(n, t))
    BY PairShape
  <1>2. /\ s \in State /\ s.req \in Request /\ Progress(n, s, did[s.req.id]) /\ DidType
        /\ s.req.kind = "ha"
    BY <1>1, Stepping
  <1>3. Grows
    BY <1>1, <1>2, SameGrows
  <1>4. CASE Answered(n, t)
    <2>1. PICK code \in {"ok", "error"} : Respond(n, t, code)
      BY <1>4 DEF Answered
    <2>2. Promise(s.req, n, did'[s.req.id])
      BY <1>1 DEF Promise, Asks
    <2> QED BY <1>1, <1>3, <2>1, <2>2, RespondKeeps
  <1>5. CASE Sent(n, t)
    <2>1. PICK path \in Asks, next \in {"reply", "undone"} : send_peer_json(n, t, path, {}, next)
      BY <1>5 DEF Sent
    <2>2. s.req.path = "ha" /\ path \in Calls /\ next \in Onward /\ {} \in SUBSET Item
      BY <1>5, CallNames DEF Sent
    <2>3. MayCall(n, s.req, path, next, did'[s.req.id])
      BY <1>2, <2>2 DEF MayCall, Asks
    <2> QED BY <1>1, <1>3, <2>1, <2>2, <2>3, SendKeeps
  <1> QED BY <1>1, <1>4, <1>5

-----------------------------------------------------------------------------
(* The invariant holds initially and every step keeps it. *)

LEMMA InitIInv == Init => IInv
  <1> SUFFICES ASSUME Init PROVE IInv
    OBVIOUS
  <1>1. /\ thr = [n \in Node |-> [t \in Thread |-> Idle]]
        /\ queue = [n \in Node |-> [pool \in Pools |-> <<>>]]
        /\ reply = [i \in Id |-> "none"] /\ asked = <<>> /\ faults = MaxFaults
        /\ did = [i \in Id |-> {}]
    BY DEF Init
  <1>2. Typed
    BY <1>1, IdleType, PeerWritesAssumption
       DEF Typed, QueueType, ThreadType, ClientType, DidType
  <1>3. RestType
    <2>1. active \in [Node -> Node] /\ calm \in BOOLEAN
      BY PeerWritesAssumption DEF Init
    <2>2. docs \in [Node -> [Document -> SUBSET Item]]
      BY DEF Init
    <2> QED BY <1>1, <2>1, <2>2, PeerWritesAssumption DEF RestType
  <1>4. Bounded
    BY <1>1, PeerWritesAssumption DEF Bounded
  <1>5. Requests /\ Single
    BY <1>1, IdleType DEF Requests, Single, OneInQueues, OneInThreads, OneOrOther, Busy
  <1>6. InProgress
    BY <1>1, IdleProgress DEF InProgress
  <1>7. Replied
    BY <1>1 DEF Replied
  <1> QED BY <1>2, <1>3, <1>4, <1>5, <1>6, <1>7 DEF IInv, Core

(* No step fills a queue over its capacity. *)
QueueOps(n, p) ==
    \/ queue' = queue
    \/ queue[n][p] # <<>> /\ queue' = [queue EXCEPT ![n][p] = Tail(@)]
    \/ Fits(queue[n][p]) /\ \E r : queue' = [queue EXCEPT ![n][p] = Append(@, r)]

LEMMA QueueOpsBounded ==
    ASSUME QueueType, QueueType', Bounded, NEW n \in Node, NEW p \in Pools, QueueOps(n, p)
    PROVE  Bounded'
  <1> SUFFICES ASSUME NEW m \in Node, NEW q \in Pools
               PROVE  Len(queue'[m][q]) <= QueueCap
    BY DEF Bounded
  <1>1. /\ queue[m][q] \in Seq(Request) /\ queue'[m][q] \in Seq(Request)
        /\ Len(queue[m][q]) <= QueueCap /\ QueueCap \in Nat
    BY PeerWritesAssumption DEF QueueType, Bounded
  <1>2. CASE ~(m = n /\ q = p)
    BY <1>1, <1>2 DEF QueueOps, QueueType
  <1>3. CASE m = n /\ q = p
    <2>1. CASE queue' = queue
      BY <1>1, <2>1
    <2>2. CASE queue[n][p] # <<>> /\ queue' = [queue EXCEPT ![n][p] = Tail(@)]
      <3>1. queue'[m][q] = Tail(queue[m][q]) /\ queue[m][q] # <<>>
        BY <1>3, <2>2 DEF QueueType
      <3> QED BY <1>1, <3>1, TailIndex
    <2>3. ASSUME NEW r, Fits(queue[n][p]), queue' = [queue EXCEPT ![n][p] = Append(@, r)]
          PROVE  Len(queue'[m][q]) <= QueueCap
      <3>1. queue'[m][q] = Append(queue[m][q], r) /\ Len(queue[m][q]) < QueueCap
        BY <1>3, <2>3 DEF QueueType, Fits
      <3>2. Len(queue'[m][q]) = Len(queue[m][q]) + 1 /\ Len(queue[m][q]) \in Nat
        BY <1>1, <3>1
      <3> QED BY <1>1, <3>1, <3>2
    <2> QED BY <2>1, <2>2, <2>3 DEF QueueOps
  <1> QED BY <1>2, <1>3

(* The variables that no other lemma speaks of. *)
LEMMA StoredType ==
    ASSUME Core, docs \in [Node -> [Document -> SUBSET Item]], NEW n \in Node, NEW t \in Thread,
           Busy(n, t), Stored(n, t)
    PROVE  docs' \in [Node -> [Document -> SUBSET Item]]
  <1>1. thr[n][t].doc \in SUBSET Item /\ thr[n][t].req.kind \in Kind
    BY Stepping, RequestFields
  <1> QED BY <1>1 DEF Stored

LEMMA CalmerType ==
    ASSUME calm \in BOOLEAN, Calmer
    PROVE  calm' \in BOOLEAN
  BY DEF Calmer

(* What a step of a handler does to the queues and to the rest of the state. *)
LEMMA HandlerQueue ==
    ASSUME NEW n \in Node, NEW t \in Thread, Take(n, t) \/ ApplyGroup(n, t) \/ Save(n, t)
           \/ reconcile_templates(n, t) \/ Resume(n, t) \/ handle_refuses(n, t)
           \/ channels_invalid(n, t) \/ templates_invalid(n, t) \/ Answered(n, t) \/ Sent(n, t)
    PROVE  \E m \in Node, p \in Pools : QueueOps(m, p)
  <1>1. ASSUME NEW path, NEW doc, NEW next, send_peer_json(n, t, path, doc, next)
        PROVE  \E m \in Node, p \in Pools : QueueOps(m, p)
    <2>1. Peer[n] \in Node /\ Pool(path) \in Pools
      BY Pair DEF Pool, Pools
    <2>2. QueueOps(Peer[n], Pool(path))
      BY <1>1 DEF send_peer_json, QueueOps
    <2> QED BY <2>1, <2>2
  <1>2. ASSUME NEW x, Respond(n, t, x) \/ Continue(n, t, x)
        PROVE  \E m \in Node, p \in Pools : QueueOps(m, p)
    <2>1. queue' = queue
      BY <1>2 DEF Respond, Continue
    <2> QED BY <2>1 DEF QueueOps, Pools
  <1>3. ASSUME Take(n, t) \/ (queue[n][PoolOf(t)] # <<>> /\ Reject(n, t))
        PROVE  \E m \in Node, p \in Pools : QueueOps(m, p)
    <2>1. PoolOf(t) \in Pools
      BY DEF PoolOf, Pools
    <2>2. QueueOps(n, PoolOf(t))
      BY <1>3 DEF Take, Reject, QueueOps
    <2> QED BY <2>1, <2>2
  <1>4. CASE ApplyGroup(n, t)
    BY <1>1, <1>2, <1>4 DEF ApplyGroup
  <1>5. CASE Save(n, t)
    BY <1>1, <1>2, <1>5
       DEF Save, save_from_peer_replica, save_as_master, not_master, forward_to_master
  <1>6. CASE reconcile_templates(n, t)
    BY <1>1, <1>2, <1>6 DEF reconcile_templates
  <1>7. CASE Resume(n, t)
    BY <1>1, <1>2, <1>7 DEF Resume
  <1>8. CASE handle_refuses(n, t) \/ channels_invalid(n, t) \/ templates_invalid(n, t)
    BY <1>3, <1>8 DEF handle_refuses, channels_invalid, templates_invalid
  <1>9. CASE Answered(n, t) \/ Sent(n, t)
    BY <1>1, <1>2, <1>9 DEF Answered, Sent
  <1> QED BY <1>3, <1>4, <1>5, <1>6, <1>7, <1>8, <1>9

LEMMA StepIInv ==
    ASSUME IInv, NEW n \in Node, NEW t \in Thread, Step(n, t)
    PROVE  IInv'
  <1>0. Core /\ RestType /\ Bounded /\ docs \in [Node -> [Document -> SUBSET Item]]
    BY DEF IInv, RestType
  <1>h. ASSUME Core', Take(n, t) \/ ApplyGroup(n, t) \/ Save(n, t)
               \/ reconcile_templates(n, t) \/ Resume(n, t) \/ handle_refuses(n, t)
               \/ channels_invalid(n, t) \/ templates_invalid(n, t) \/ Answered(n, t) \/ Sent(n, t)
        PROVE  Bounded'
    <2>1. QueueType /\ QueueType'
      BY <1>0, <1>h DEF Core, Typed
    <2> QED BY <1>0, <1>h, <2>1, HandlerQueue, QueueOpsBounded
  <1>1. CASE Take(n, t)
    <2>1. Core'
      BY <1>0, <1>1, TakeKeeps
    <2>2. RestType'
      BY <1>0, <1>1, CalmerType DEF RestType, Take
    <2> QED BY <1>1, <1>h, <2>1, <2>2 DEF IInv
  <1>2. CASE handle_refuses(n, t) \/ channels_invalid(n, t) \/ templates_invalid(n, t)
    <2>1. queue[n][PoolOf(t)] # <<>> /\ Reject(n, t)
      BY <1>2 DEF handle_refuses, channels_invalid, templates_invalid
    <2>2. Core'
      BY <1>0, <2>1, RejectKeeps
    <2>3. RestType'
      BY <1>0, <2>1, CalmerType, PeerWritesAssumption DEF RestType, Reject
    <2> QED BY <1>2, <1>h, <2>2, <2>3 DEF IInv
  <1>3. CASE ApplyGroup(n, t)
    <2>1. Core'
      BY <1>0, <1>3, ApplyGroupKeeps
    <2>2. RestType'
      BY <1>0, <1>3, CalmerType DEF RestType, ApplyGroup
    <2> QED BY <1>3, <1>h, <2>1, <2>2 DEF IInv
  <1>4. CASE Save(n, t)
    <2>1. Core'
      BY <1>0, <1>4, SaveKeeps
    <2>2. Busy(n, t) /\ (Stored(n, t) \/ UNCHANGED docs)
      BY <1>4 DEF Save, Busy, save_from_peer_replica, save_as_master, not_master, forward_to_master
    <2>3. docs' \in [Node -> [Document -> SUBSET Item]]
      BY <1>0, <2>2, StoredType
    <2>4. RestType'
      BY <1>0, <1>4, <2>3, CalmerType DEF RestType, Save
    <2> QED BY <1>4, <1>h, <2>1, <2>4 DEF IInv
  <1>5. CASE reconcile_templates(n, t)
    <2>1. Core'
      BY <1>0, <1>5, ReconcileKeeps
    <2>2. RestType'
      BY <1>0, <1>5, CalmerType DEF RestType, reconcile_templates
    <2> QED BY <1>5, <1>h, <2>1, <2>2 DEF IInv
  <1>6. CASE Resume(n, t)
    <2>1. Core'
      BY <1>0, <1>6, ResumeKeeps
    <2>2. RestType'
      BY <1>0, <1>6, CalmerType DEF RestType, Resume
    <2> QED BY <1>6, <1>h, <2>1, <2>2 DEF IInv
  <1>7. CASE Timeout(n, t)
    <2>1. Core'
      BY <1>0, <1>7, TimeoutKeeps
    <2>2. RestType'
      BY <1>0, <1>7, CalmerType, PeerWritesAssumption DEF RestType, Timeout
    <2>3. ASSUME NEW m \in Node, NEW p \in Pools
          PROVE  Len(queue'[m][p]) = Len(queue[m][p])
      <3>1. queue'[m][p] = Orphaned({<<n, t>>}, queue[m][p]) /\ queue[m][p] \in Seq(Request)
        BY <1>0, <1>7 DEF Timeout, Core, Typed, QueueType
      <3> QED BY <3>1, OrphanedQueue
    <2> QED BY <1>0, <2>1, <2>2, <2>3 DEF IInv, Bounded
  <1>8. CASE PairStep(n, t)
    <2>1. Core'
      BY <1>0, <1>8, PairKeeps DEF RestType
    <2>2. /\ UNCHANGED <<docs, faults>> /\ (Answered(n, t) \/ Sent(n, t))
          /\ (UNCHANGED active /\ Calmer) \/ (active' \in [Node -> Node] /\ Unsettled)
      BY <1>0, <1>8, PairShape DEF RestType
    <2>3. RestType'
      BY <1>0, <2>2, CalmerType DEF RestType, Unsettled
    <2> QED BY <1>h, <2>1, <2>2, <2>3 DEF IInv
  <1> QED BY <1>1, <1>2, <1>3, <1>4, <1>5, <1>6, <1>7, <1>8 DEF Step, PairStep

LEMMA NextIInv == IInv /\ [Next]_vars => IInv'
  <1> SUFFICES ASSUME IInv, [Next]_vars PROVE IInv'
    OBVIOUS
  <1>0. Core /\ RestType /\ Bounded
    BY DEF IInv
  <1>1. ASSUME NEW n \in Node, NEW k \in Kind, NEW o \in Operation, NEW i \in Item, Ask(n, k, o, i)
        PROVE  IInv'
    <2>1. Core'
      BY <1>0, <1>1, AskKeeps
    <2>2. RestType'
      BY <1>0, <1>1, CalmerType DEF RestType, Ask
    <2>3. QueueOps(n, "public") /\ "public" \in Pools
      BY <1>1 DEF Ask, QueueOps, Pools
    <2>4. QueueType /\ QueueType'
      BY <1>0, <2>1 DEF Core, Typed
    <2> QED BY <1>0, <2>1, <2>2, <2>3, <2>4, QueueOpsBounded DEF IInv
  <1>2. ASSUME NEW n \in Node, Switch(n)
        PROVE  IInv'
    <2>1. RestType'
      <3>1. active' \in [Node -> Node]
        BY <1>0, <1>2, PeerWritesAssumption DEF RestType, Switch
      <3>2. calm' \in BOOLEAN /\ faults' \in 0..MaxFaults /\ docs' = docs
        BY <1>0, <1>2, PeerWritesAssumption DEF RestType, Switch, Unsettled
      <3> QED BY <1>0, <3>1, <3>2 DEF RestType
    <2>2. UNCHANGED <<queue, thr, reply, asked, did>>
      BY <1>2 DEF Switch
    <2>3. Core' /\ Bounded'
      <3>1. Typed' /\ Bounded'
        BY <1>0, <2>2 DEF Core, Typed, QueueType, ThreadType, ClientType, DidType, Bounded
      <3>2. Single' /\ Replied' /\ InProgress'
        BY <1>0, <2>2 DEF Core, Single, OneInQueues, OneInThreads, OneOrOther, Busy, Replied, InProgress
      <3>3. Requests'
        BY <1>0, <2>2 DEF Core, Requests, Busy
      <3> QED BY <3>1, <3>2, <3>3 DEF Core
    <2> QED BY <2>1, <2>3 DEF IInv
  <1>3. ASSUME NEW n \in Node, Crash(n)
        PROVE  IInv'
    <2>1. Core'
      BY <1>0, <1>3, CrashKeeps
    <2>2. RestType'
      BY <1>0, <1>3, CalmerType, PeerWritesAssumption DEF RestType, Crash
    <2>3. ASSUME NEW m \in Node, NEW p \in Pools
          PROVE  Len(queue'[m][p]) <= QueueCap
      <3>1. queue[m][p] \in Seq(Request) /\ Len(queue[m][p]) <= QueueCap /\ QueueCap \in Nat
        BY <1>0, PeerWritesAssumption DEF Core, Typed, QueueType, Bounded
      <3>2. queue'[m][p] = <<>> \/ queue'[m][p] = Orphaned({n} \X Thread, queue[m][p])
        BY <1>3 DEF Crash
      <3> QED BY <3>1, <3>2, OrphanedQueue
    <2> QED BY <2>1, <2>2, <2>3 DEF IInv, Bounded
  <1>4. CASE UNCHANGED vars
    BY <1>0, <1>4 DEF IInv, vars, Core, Typed, QueueType, ThreadType, ClientType, DidType, Requests,
       Single, OneInQueues, OneInThreads, OneOrOther, Busy, InProgress, Replied, Bounded, RestType
  <1>5. CASE Rest
    BY <1>4, <1>5 DEF Rest
  <1> QED BY <1>1, <1>2, <1>3, <1>4, <1>5, StepIInv DEF Next, Operation

LEMMA Inductive == Spec => []IInv
  BY InitIInv, NextIInv, PTL DEF Spec

(* The variables keep their types, no queue is filled over its capacity and only
   a handler of a client's request or of the active endpoint calls the peer, for any
   number of workers, requests and faults (api/server.rs, notify/sync.rs). *)
THEOREM PeerWritesTypes == Spec => []TypeOK
  <1>1. IInv => TypeOK
    <2> SUFFICES ASSUME IInv PROVE TypeOK
      OBVIOUS
    <2>1. /\ reply \in [Id -> {"none", "ok", "error"}] /\ asked \in Seq(Kind \X Operation)
          /\ Len(asked) <= MaxRequests
          /\ did \in [Id -> SUBSET (Node \cup {"group", "generated"})]
      BY DEF IInv, Core, Typed, ClientType, DidType
    <2>2. active \in [Node -> Node] /\ docs \in [Node -> [Document -> SUBSET Item]]
          /\ faults \in 0..MaxFaults /\ calm \in BOOLEAN
      BY DEF IInv, RestType
    <2>3. ASSUME NEW n \in Node, NEW p \in Pools
          PROVE  /\ Len(queue[n][p]) <= QueueCap
                 /\ \A i \in DOMAIN queue[n][p] : queue[n][p][i] \in Request
      BY DEF IInv, Core, Typed, QueueType, Bounded
    <2>4. ASSUME NEW n \in Node, NEW t \in Thread
          PROVE  /\ thr[n][t].at \in {"idle", "group", "save", "reconcile", "ha", "peer", "call"}
                 /\ thr[n][t].req \in Request \cup {NoRequest}
                 /\ thr[n][t].at = "call" => thr[n][t].req.path \in {"save", "active", "ha"}
      <3>1. thr[n][t] \in State /\ Progress(n, thr[n][t], did[thr[n][t].req.id])
        BY DEF IInv, Core, Typed, ThreadType, InProgress
      <3> QED BY <3>1 DEF State, Progress
    <2> QED BY <2>1, <2>2, <2>3, <2>4 DEF TypeOK, Operation
  <1> QED BY <1>1, Inductive, PTL

(* A write that a client was told succeeded is stored by both gateways, with the
   group deleted and the template reconciled where the write asks for it: for any
   number of workers, writes and faults, role changes and crashes included. *)
THEOREM PeerWritesAnswered == Spec => []AnsweredIsDone
  <1>1. IInv => AnsweredIsDone
    BY DEF IInv, Core, Replied, Done, AnsweredIsDone
  <1> QED BY <1>1, Inductive, PTL

-----------------------------------------------------------------------------
(* No wait cycle. *)

(* What a step keeps of the separation, of the requests under way and of the
   order, whether or not the system is calm. *)
WKept == Separated' /\ Attended' /\ (Ordered => Ordered')

(* Requests stay in the queues, but for the head of the queue p of n. *)
QueuesKeep == \A m \in Node, q \in Pools : \A i \in 1..Len(queue[m][q]) :
    \E j \in 1..Len(queue'[m][q]) : queue'[m][q][j] = queue[m][q][i]
QueuesKeepBut(n, p) == \A m \in Node, q \in Pools : \A i \in 1..Len(queue[m][q]) :
    \/ m = n /\ q = p /\ i = 1
    \/ \E j \in 1..Len(queue'[m][q]) : queue'[m][q][j] = queue[m][q][i]

LEMMA SameQueuesKeep ==
    ASSUME UNCHANGED queue
    PROVE  QueuesKeep
  BY DEF QueuesKeep

LEMMA AppendLast ==
    ASSUME NEW q \in Seq(Request), NEW r \in Request
    PROVE  \E j \in 1..Len(Append(q, r)) : Append(q, r)[j] = r
  <1>1. Append(q, r)[Len(q) + 1] = r /\ Len(q) + 1 \in 1..Len(Append(q, r))
    OBVIOUS
  <1> QED BY <1>1

LEMMA AppendQueuesKeep ==
    ASSUME QueueType, NEW p \in Node, NEW pool \in Pools, NEW r \in Request,
           queue' = [queue EXCEPT ![p][pool] = Append(@, r)]
    PROVE  /\ QueuesKeep
           /\ \E j \in 1..Len(queue'[p][pool]) : queue'[p][pool][j] = r
  <1>1. queue'[p][pool] = Append(queue[p][pool], r) /\ queue[p][pool] \in Seq(Request)
    BY DEF QueueType
  <1>2. /\ Len(queue'[p][pool]) = Len(queue[p][pool]) + 1 /\ Len(queue[p][pool]) \in Nat
        /\ queue'[p][pool][Len(queue[p][pool]) + 1] = r
        /\ \A i \in 1..Len(queue[p][pool]) : queue'[p][pool][i] = queue[p][pool][i]
    BY <1>1
  <1>3. ASSUME NEW m \in Node, NEW q \in Pools, NEW i \in 1..Len(queue[m][q])
        PROVE  i \in 1..Len(queue'[m][q]) /\ queue'[m][q][i] = queue[m][q][i]
    <2>1. CASE m = p /\ q = pool
      BY <1>2, <2>1
    <2>2. CASE ~(m = p /\ q = pool)
      <3>1. queue'[m][q] = queue[m][q]
        BY <2>2 DEF QueueType
      <3> QED BY <3>1
    <2> QED BY <2>1, <2>2
  <1>4. Len(queue[p][pool]) + 1 \in 1..Len(queue'[p][pool])
    BY <1>2
  <1> QED BY <1>2, <1>3, <1>4 DEF QueuesKeep

LEMMA TailQueuesKeep ==
    ASSUME QueueType, NEW n \in Node, NEW p \in Pools, queue[n][p] # <<>>,
           queue' = [queue EXCEPT ![n][p] = Tail(@)]
    PROVE  QueuesKeepBut(n, p)
  <1>1. queue[n][p] \in Seq(Request) /\ queue'[n][p] = Tail(queue[n][p])
    BY DEF QueueType
  <1>2. /\ Len(queue[n][p]) \in Nat /\ Len(queue'[n][p]) = Len(queue[n][p]) - 1
        /\ \A i \in 1..Len(queue'[n][p]) : queue'[n][p][i] = queue[n][p][i + 1]
    BY <1>1, TailIndex
  <1>3. ASSUME NEW i \in 1..Len(queue[n][p]), i # 1
        PROVE  \E j \in 1..Len(queue'[n][p]) : queue'[n][p][j] = queue[n][p][i]
    <2>1. i - 1 \in 1..Len(queue'[n][p]) /\ (i - 1) + 1 = i
      BY <1>2, <1>3
    <2>2. queue'[n][p][i - 1] = queue[n][p][i]
      BY <1>2, <2>1
    <2> QED BY <2>1, <2>2
  <1>4. ASSUME NEW m \in Node, NEW q \in Pools, ~(m = n /\ q = p)
        PROVE  queue'[m][q] = queue[m][q]
    BY <1>4 DEF QueueType
  <1> QED BY <1>3, <1>4 DEF QueuesKeepBut

LEMMA RespondOrder ==
    ASSUME Core, Separated, Attended, NEW n \in Node, NEW t \in Thread, Busy(n, t),
           NEW code \in {"ok", "error"}, Respond(n, t, code)
    PROVE  Separated' /\ Attended' /\ (UNCHANGED active => WKept)
  <1> DEFINE r == thr[n][t].req
  <1>1. AfterResponse(n, t, code) /\ queue' = queue
    <2>1. queue' = queue
      BY DEF Respond
    <2> QED BY <2>1, Responded
  <1>2. \A m \in Node, u \in Thread :
           thr'[m][u].at # "idle" => Busy(m, u) /\ thr'[m][u].req = thr[m][u].req
    BY <1>1, IdleType, GotFields DEF AfterResponse, Busy, Core, Typed, ThreadType
  <1>3. Separated'
    BY <1>1, <1>2 DEF Separated, Busy, Thread
  <1>4. Attended'
    <2> SUFFICES ASSUME NEW m \in Node, NEW u \in Thread, Waiting(m, u)'
                 PROVE  UnderWay(m, u)'
      BY DEF Attended
    <2>1. ~(m = n /\ u = t) /\ r.from # <<m, u>> /\ Waiting(m, u)
      BY <1>1, IdleType, GotFields DEF AfterResponse, Waiting, Core, Typed, ThreadType
    <2>2. CASE \E p \in Pools : \E i \in 1..Len(queue[Peer[m]][p]) : queue[Peer[m]][p][i].from = <<m, u>>
      BY <1>1, <2>2 DEF UnderWay
    <2>3. ASSUME NEW v \in Thread, Busy(Peer[m], v), thr[Peer[m]][v].req.from = <<m, u>>
          PROVE  UnderWay(m, u)'
      <3>1. ~(Peer[m] = n /\ v = t) /\ Peer[m] \in Node
        BY <2>1, <2>3, Pair
      <3>2. thr'[Peer[m]][v].at = thr[Peer[m]][v].at /\ thr'[Peer[m]][v].req = thr[Peer[m]][v].req
        BY <1>1, <3>1, GotFields DEF AfterResponse, Core, Typed, ThreadType
      <3> QED BY <2>3, <3>2 DEF UnderWay, Busy
    <2> QED BY <2>1, <2>2, <2>3 DEF Attended, UnderWay
  <1>5. UNCHANGED active /\ Ordered => Ordered'
    BY <1>1, <1>2 DEF Ordered, OfMaster, IsMaster, Busy
  <1> QED BY <1>3, <1>4, <1>5 DEF WKept

(* A thread moves and keeps its request; it sends one exactly when it waits then. *)
LEMMA MoveOrder ==
    ASSUME Core, Separated, Attended, NEW n \in Node, NEW t \in Thread, Busy(n, t),
           NEW s \in State, s.at # "idle", s.req = thr[n][t].req, thr' = [thr EXCEPT ![n][t] = s],
           UNCHANGED active, NEW p \in Node, NEW pool \in Pools, NEW r \in Request,
           r.from = <<n, t>>, QueueAdds(p, pool, r), QueuesKeep,
           queue' # queue => pool = "replica" <=> r.path = "replica",
           queue' # queue => (IsMaster(n) => r.path = "replica" \/ r.kind = "ha"),
           s.at = "call" /\ s.got = "none" =>
               p = Peer[n] /\ \E j \in 1..Len(queue'[p][pool]) : queue'[p][pool][j] = r
    PROVE  WKept
  <1>1. \A m \in Node, u \in Thread :
           /\ thr'[m][u] = IF m = n /\ u = t THEN s ELSE thr[m][u]
           /\ thr'[m][u].req = thr[m][u].req
           /\ thr'[m][u].at # "idle" <=> Busy(m, u)
    BY DEF Core, Typed, ThreadType, Busy
  <1>q. ASSUME NEW m \in Node, NEW q \in Pools, NEW i \in 1..Len(queue'[m][q])
        PROVE  \/ i \in 1..Len(queue[m][q]) /\ queue'[m][q][i] = queue[m][q][i]
               \/ m = p /\ q = pool /\ queue'[m][q][i] = r /\ queue' # queue
    BY DEF QueueAdds
  <1>2. Separated'
    <2>1. \A m \in Node : thr'[m][Replica].at # "idle" => thr'[m][Replica].req.path = "replica"
      BY <1>1 DEF Separated, Thread
    <2>2. ASSUME NEW m \in Node, NEW q \in Pools, NEW i \in 1..Len(queue'[m][q])
          PROVE  q = "replica" <=> queue'[m][q][i].path = "replica"
      BY <1>q DEF Separated
    <2> QED BY <2>1, <2>2 DEF Separated, Busy
  <1>3. Attended'
    <2> SUFFICES ASSUME NEW m \in Node, NEW u \in Thread, Waiting(m, u)'
                 PROVE  UnderWay(m, u)'
      BY DEF Attended
    <2>1. CASE m = n /\ u = t
      <3>1. s.at = "call" /\ s.got = "none"
        BY <1>1, <2>1 DEF Waiting
      <3> QED BY <2>1, <3>1 DEF UnderWay
    <2>2. CASE ~(m = n /\ u = t)
      <3>1. Waiting(m, u) /\ Peer[m] \in Node
        BY <1>1, <2>2, Pair DEF Waiting
      <3>2. ASSUME NEW q \in Pools, NEW i \in 1..Len(queue[Peer[m]][q]), queue[Peer[m]][q][i].from = <<m, u>>
            PROVE  UnderWay(m, u)'
        <4>1. PICK j \in 1..Len(queue'[Peer[m]][q]) : queue'[Peer[m]][q][j] = queue[Peer[m]][q][i]
          BY <3>1 DEF QueuesKeep
        <4> QED BY <3>2, <4>1 DEF UnderWay
      <3>3. ASSUME NEW v \in Thread, Busy(Peer[m], v), thr[Peer[m]][v].req.from = <<m, u>>
            PROVE  UnderWay(m, u)'
        BY <1>1, <3>1, <3>3 DEF UnderWay, Busy
      <3> QED BY <3>1, <3>2, <3>3 DEF Attended, UnderWay
    <2> QED BY <2>1, <2>2
  <1>4. Ordered => Ordered'
    <2> SUFFICES ASSUME Ordered PROVE Ordered'
      OBVIOUS
    <2>1. ASSUME NEW m \in Node, NEW q \in Pools, NEW i \in 1..Len(queue'[m][q])
          PROVE  OfMaster(queue'[m][q][i], active)
      <3>1. CASE i \in 1..Len(queue[m][q]) /\ queue'[m][q][i] = queue[m][q][i]
        BY <3>1 DEF Ordered
      <3>2. CASE queue'[m][q][i] = r /\ queue' # queue
        BY <3>2, Callers DEF OfMaster, IsMaster
      <3> QED BY <1>q, <3>1, <3>2
    <2>2. \A m \in Node, u \in Thread : thr'[m][u].at # "idle" => OfMaster(thr'[m][u].req, active)
      BY <1>1 DEF Ordered
    <2> QED BY <2>1, <2>2 DEF Ordered, Busy
  <1> QED BY <1>2, <1>3, <1>4 DEF WKept

LEMMA ContinueOrder ==
    ASSUME Core, Separated, Attended, NEW n \in Node, NEW t \in Thread, Busy(n, t),
           NEW at \in {"save", "reconcile"}, Continue(n, t, at), UNCHANGED active
    PROVE  WKept
  <1> DEFINE s == GoingOn(thr[n][t], at)
             r == PeerRequest(thr[n][t].req, "group", {}, <<n, t>>)
  <1>1. s \in State /\ s.at # "idle" /\ s.at # "call" /\ s.req = thr[n][t].req
    BY GoingOnFields DEF Core, Typed, ThreadType
  <1>2. thr' = [thr EXCEPT ![n][t] = s] /\ UNCHANGED queue
    BY DEF Continue, Core, Typed, ThreadType
  <1>3. r \in Request /\ r.from = <<n, t>>
    BY PeerRequestFields, Callers DEF Core, Typed, ThreadType, Busy, Calls
  <1>4. QueueAdds(n, "public", r) /\ QueuesKeep
    BY <1>2, SameAdds, SameQueuesKeep DEF Core, Typed
  <1> HIDE DEF s, r
  <1> QED BY <1>1, <1>2, <1>3, <1>4, MoveOrder DEF Pools

LEMMA SendOrder ==
    ASSUME Core, Separated, Attended, NEW n \in Node, NEW t \in Thread, Busy(n, t),
           NEW path \in Calls, NEW doc \in SUBSET Item,
           NEW next \in Onward,
           send_peer_json(n, t, path, doc, next), UNCHANGED active,
           path = "replica" \/ ~IsMaster(n) \/ thr[n][t].req.kind = "ha"
    PROVE  WKept
  <1> DEFINE p == Peer[n]
             pool == Pool(path)
             got == IF Fits(queue[p][pool]) THEN "none" ELSE "error"
             s == Calling(thr[n][t], next, got)
             r == PeerRequest(thr[n][t].req, path, doc, <<n, t>>)
  <1>1. p \in Node /\ pool \in Pools /\ (pool = "replica" <=> path = "replica")
    BY Pair DEF Pool, Pools, is_replica_write
  <1>2. thr[n][t].req \in Request /\ thr[n][t] \in State
    BY DEF Core, Typed, ThreadType, Busy
  <1>3. s \in State /\ s.at = "call" /\ s.req = thr[n][t].req /\ s.got = got
    BY <1>2, CallingFields
  <1>4. r \in Request /\ r.from = <<n, t>> /\ r.path = path /\ r.kind = thr[n][t].req.kind
    BY <1>2, PeerRequestFields, Callers
  <1>5. /\ thr' = [thr EXCEPT ![n][t] = s]
        /\ queue' = IF Fits(queue[p][pool]) THEN [queue EXCEPT ![p][pool] = Append(@, r)] ELSE queue
    BY DEF send_peer_json, Core, Typed, ThreadType
  <1> HIDE DEF s, r, pool
  <1>6. QueueAdds(p, pool, r) /\ QueuesKeep
    BY <1>1, <1>4, <1>5, SameAdds, AppendAdds, SameQueuesKeep, AppendQueuesKeep DEF Core, Typed
  <1>7. s.got = "none" => \E j \in 1..Len(queue'[p][pool]) : queue'[p][pool][j] = r
    <2>1. SUFFICES ASSUME Fits(queue[p][pool])
                   PROVE  \E j \in 1..Len(queue'[p][pool]) : queue'[p][pool][j] = r
      BY <1>3
    <2>2. queue'[p][pool] = Append(queue[p][pool], r) /\ queue[p][pool] \in Seq(Request)
      BY <1>1, <1>5, <2>1 DEF Core, Typed, QueueType
    <2> QED BY <1>4, <2>2, AppendLast
  <1> QED BY <1>1, <1>3, <1>4, <1>5, <1>6, <1>7, MoveOrder

LEMMA AskOrder ==
    ASSUME Core, Separated, Attended, NEW n \in Node, NEW k \in Kind, NEW o \in Operation, NEW i \in Item,
           Ask(n, k, o, i)
    PROVE  WKept
  <1> DEFINE r == [path |-> IF k = "ha" THEN "ha" ELSE "save", kind |-> k, op |-> o, item |-> i,
                   doc |-> {}, id |-> Len(asked) + 1, from |-> Client]
  <1>1. r \in Request /\ r.from \notin Caller /\ r.path \in {"save", "ha"}
    <2>1. Len(asked) + 1 \in Id
      BY PeerWritesAssumption DEF Ask, Id, Core, Typed, ClientType
    <2> QED BY <2>1, Callers DEF Request
  <1>2. /\ queue' = queue \/ queue' = [queue EXCEPT ![n]["public"] = Append(@, r)]
        /\ thr' = thr /\ active' = active
    BY DEF Ask
  <1> HIDE DEF r
  <1>3. QueueAdds(n, "public", r) /\ QueuesKeep
    BY <1>1, <1>2, SameAdds, AppendAdds, SameQueuesKeep, AppendQueuesKeep DEF Core, Typed, Pools
  <1>4. Separated'
    <2>1. ASSUME NEW m \in Node, NEW q \in Pools, NEW j \in 1..Len(queue'[m][q])
          PROVE  q = "replica" <=> queue'[m][q][j].path = "replica"
      <3>1. \/ j \in 1..Len(queue[m][q]) /\ queue'[m][q][j] = queue[m][q][j]
            \/ q = "public" /\ queue'[m][q][j] = r
        BY <1>3 DEF QueueAdds
      <3> QED BY <1>1, <3>1 DEF Separated
    <2> QED BY <1>2, <2>1 DEF Separated, Busy
  <1>5. Attended'
    <2> SUFFICES ASSUME NEW m \in Node, NEW u \in Thread, Waiting(m, u)
                 PROVE  UnderWay(m, u)'
      BY <1>2 DEF Attended, Waiting
    <2>1. Peer[m] \in Node
      BY Pair
    <2>2. ASSUME NEW q \in Pools, NEW l \in 1..Len(queue[Peer[m]][q]), queue[Peer[m]][q][l].from = <<m, u>>
          PROVE  UnderWay(m, u)'
      <3>1. PICK j \in 1..Len(queue'[Peer[m]][q]) : queue'[Peer[m]][q][j] = queue[Peer[m]][q][l]
        BY <1>3, <2>1 DEF QueuesKeep
      <3> QED BY <2>2, <3>1 DEF UnderWay
    <2>3. ASSUME NEW v \in Thread, Busy(Peer[m], v), thr[Peer[m]][v].req.from = <<m, u>>
          PROVE  UnderWay(m, u)'
      BY <1>2, <2>3 DEF UnderWay, Busy
    <2> QED BY <2>2, <2>3 DEF Attended, UnderWay
  <1>6. Ordered => Ordered'
    <2> SUFFICES ASSUME Ordered PROVE Ordered'
      OBVIOUS
    <2>1. ASSUME NEW m \in Node, NEW q \in Pools, NEW j \in 1..Len(queue'[m][q])
          PROVE  OfMaster(queue'[m][q][j], active)
      <3>1. CASE j \in 1..Len(queue[m][q]) /\ queue'[m][q][j] = queue[m][q][j]
        BY <3>1 DEF Ordered
      <3>2. CASE queue'[m][q][j] = r
        BY <1>1, <3>2 DEF OfMaster
      <3> QED BY <1>3, <3>1, <3>2 DEF QueueAdds
    <2> QED BY <1>2, <2>1 DEF Ordered, Busy
  <1> QED BY <1>4, <1>5, <1>6 DEF WKept

(* The head of a queue goes to a thread, or is answered with an error. *)
LEMMA StartOrder ==
    ASSUME Core, Separated, Attended, NEW n \in Node, NEW t \in Thread, ~Busy(n, t),
           HeadGone(n, PoolOf(t)), QueuesKeepBut(n, PoolOf(t)), PoolOf(t) \in Pools,
           1 \in 1..Len(queue[n][PoolOf(t)]), NEW s \in State, s.at \notin {"idle", "call"},
           s.req = queue[n][PoolOf(t)][1], thr' = [thr EXCEPT ![n][t] = s], UNCHANGED active
    PROVE  WKept
  <1> DEFINE p == PoolOf(t)
             r == queue[n][p][1]
  <1>1. \A m \in Node, u \in Thread : thr'[m][u] = IF m = n /\ u = t THEN s ELSE thr[m][u]
    BY DEF Core, Typed, ThreadType
  <1>q. ASSUME NEW m \in Node, NEW q \in Pools, NEW i \in 1..Len(queue'[m][q])
        PROVE  \E j \in 1..Len(queue[m][q]) : queue'[m][q][i] = queue[m][q][j]
    BY DEF HeadGone
  <1>2. Separated'
    <2>1. ASSUME NEW m \in Node, NEW q \in Pools, NEW j \in 1..Len(queue'[m][q])
          PROVE  q = "replica" <=> queue'[m][q][j].path = "replica"
      <3>1. PICK k \in 1..Len(queue[m][q]) : queue'[m][q][j] = queue[m][q][k]
        BY <1>q
      <3> QED BY <3>1 DEF Separated
    <2>2. ASSUME NEW m \in Node, thr'[m][Replica].at # "idle"
          PROVE  thr'[m][Replica].req.path = "replica"
      <3>0. Replica \in Thread
        BY DEF Thread
      <3>1. CASE m = n /\ t = Replica
        <4>1. p = "replica" /\ thr'[m][Replica].req = r
          BY <1>1, <3>0, <3>1 DEF PoolOf
        <4> QED BY <4>1 DEF Separated
      <3>2. CASE ~(m = n /\ t = Replica)
        <4>1. thr'[m][Replica] = thr[m][Replica]
          BY <1>1, <3>0, <3>2
        <4> QED BY <2>2, <4>1 DEF Separated, Busy
      <3> QED BY <3>1, <3>2
    <2> QED BY <2>1, <2>2 DEF Separated, Busy
  <1>3. Attended'
    <2> SUFFICES ASSUME NEW m \in Node, NEW u \in Thread, Waiting(m, u)'
                 PROVE  UnderWay(m, u)'
      BY DEF Attended
    <2>1. Waiting(m, u) /\ Peer[m] \in Node
      BY <1>1, Pair DEF Waiting
    <2>2. ASSUME NEW q \in Pools, NEW l \in 1..Len(queue[Peer[m]][q]), queue[Peer[m]][q][l].from = <<m, u>>
          PROVE  UnderWay(m, u)'
      <3>1. CASE Peer[m] = n /\ q = p /\ l = 1
        <4>1. thr'[n][t].req.from = <<m, u>> /\ thr'[n][t].at # "idle"
          BY <1>1, <2>2, <3>1
        <4> QED BY <3>1, <4>1 DEF UnderWay, Busy
      <3>2. ASSUME NEW j \in 1..Len(queue'[Peer[m]][q]), queue'[Peer[m]][q][j] = queue[Peer[m]][q][l]
            PROVE  UnderWay(m, u)'
        BY <2>2, <3>2 DEF UnderWay
      <3> QED BY <2>1, <3>1, <3>2 DEF QueuesKeepBut
    <2>3. ASSUME NEW v \in Thread, Busy(Peer[m], v), thr[Peer[m]][v].req.from = <<m, u>>
          PROVE  UnderWay(m, u)'
      <3>1. thr'[Peer[m]][v] = thr[Peer[m]][v]
        BY <1>1, <2>1, <2>3
      <3> QED BY <2>3, <3>1 DEF UnderWay, Busy
    <2> QED BY <2>1, <2>2, <2>3 DEF Attended, UnderWay
  <1>4. Ordered => Ordered'
    <2> SUFFICES ASSUME Ordered PROVE Ordered'
      OBVIOUS
    <2>1. ASSUME NEW m \in Node, NEW q \in Pools, NEW j \in 1..Len(queue'[m][q])
          PROVE  OfMaster(queue'[m][q][j], active)
      <3>1. PICK k \in 1..Len(queue[m][q]) : queue'[m][q][j] = queue[m][q][k]
        BY <1>q
      <3> QED BY <3>1 DEF Ordered
    <2>2. ASSUME NEW m \in Node, NEW u \in Thread, thr'[m][u].at # "idle"
          PROVE  OfMaster(thr'[m][u].req, active)
      <3>1. CASE m = n /\ u = t
        <4>1. thr'[m][u].req = r /\ OfMaster(r, active)
          BY <1>1, <3>1 DEF Ordered
        <4> QED BY <4>1
      <3>2. CASE ~(m = n /\ u = t)
        <4>1. thr'[m][u] = thr[m][u]
          BY <1>1, <3>2
        <4> QED BY <2>2, <4>1 DEF Ordered, Busy
      <3> QED BY <3>1, <3>2
    <2> QED BY <2>1, <2>2 DEF Ordered, Busy
  <1> QED BY <1>2, <1>3, <1>4 DEF WKept

LEMMA TurnOrder ==
    ASSUME Core, Separated, Attended, NEW n \in Node, NEW p \in Pools, Turned(n, p),
           QueuesKeepBut(n, p), UNCHANGED active
    PROVE  WKept
  <1> DEFINE r == queue[n][p][1]
  <1>r. HeadGone(n, p) /\ 1 \in 1..Len(queue[n][p]) /\ r \in Request
    BY DEF Turned
  <1>1. ASSUME NEW m \in Node, NEW u \in Thread
        PROVE  thr'[m][u] = IF r.from = <<m, u>> THEN Got(thr[m][u], "error") ELSE thr[m][u]
    <2>1. CASE r.from \in Caller
      <3>1. PICK x \in Node, y \in Thread : r.from = <<x, y>>
        BY <2>1 DEF Caller
      <3>2. thr' = [thr EXCEPT ![x][y] = Got(@, "error")]
        BY <2>1, <3>1, Callers DEF Turned
      <3>3. thr' = [thr EXCEPT ![x] = [thr[x] EXCEPT ![y] = Got(thr[x][y], "error")]]
        BY <3>2 DEF Core, Typed, ThreadType
      <3> QED BY <3>1, <3>3 DEF Core, Typed, ThreadType
    <2>2. CASE r.from \notin Caller
      <3>1. thr' = thr
        BY <2>2 DEF Turned
      <3>2. r.from # <<m, u>>
        BY <2>2, Callers
      <3> QED BY <3>1, <3>2
    <2> QED BY <2>1, <2>2
  <1>2. \A m \in Node, u \in Thread :
           thr'[m][u].req = thr[m][u].req /\ thr'[m][u].at = thr[m][u].at
    BY <1>1, GotFields DEF Core, Typed, ThreadType
  <1>q. ASSUME NEW m \in Node, NEW q \in Pools, NEW i \in 1..Len(queue'[m][q])
        PROVE  \E j \in 1..Len(queue[m][q]) : queue'[m][q][i] = queue[m][q][j]
    BY <1>r DEF HeadGone
  <1>3. Separated'
    <2>1. ASSUME NEW m \in Node, NEW q \in Pools, NEW j \in 1..Len(queue'[m][q])
          PROVE  q = "replica" <=> queue'[m][q][j].path = "replica"
      <3>1. PICK k \in 1..Len(queue[m][q]) : queue'[m][q][j] = queue[m][q][k]
        BY <1>q
      <3> QED BY <3>1 DEF Separated
    <2> QED BY <1>2, <2>1 DEF Separated, Busy, Thread
  <1>4. Attended'
    <2> SUFFICES ASSUME NEW m \in Node, NEW u \in Thread, Waiting(m, u)'
                 PROVE  UnderWay(m, u)'
      BY DEF Attended
    <2>1. Waiting(m, u) /\ r.from # <<m, u>> /\ Peer[m] \in Node
      BY <1>1, Pair, GotFields DEF Waiting, Core, Typed, ThreadType
    <2>2. ASSUME NEW q \in Pools, NEW l \in 1..Len(queue[Peer[m]][q]), queue[Peer[m]][q][l].from = <<m, u>>
          PROVE  UnderWay(m, u)'
      <3>1. PICK j \in 1..Len(queue'[Peer[m]][q]) : queue'[Peer[m]][q][j] = queue[Peer[m]][q][l]
        BY <2>1, <2>2 DEF QueuesKeepBut
      <3> QED BY <2>2, <3>1 DEF UnderWay
    <2>3. ASSUME NEW v \in Thread, Busy(Peer[m], v), thr[Peer[m]][v].req.from = <<m, u>>
          PROVE  UnderWay(m, u)'
      BY <1>2, <2>1, <2>3 DEF UnderWay, Busy
    <2> QED BY <2>1, <2>2, <2>3 DEF Attended, UnderWay
  <1>5. Ordered => Ordered'
    <2> SUFFICES ASSUME Ordered PROVE Ordered'
      OBVIOUS
    <2>1. ASSUME NEW m \in Node, NEW q \in Pools, NEW j \in 1..Len(queue'[m][q])
          PROVE  OfMaster(queue'[m][q][j], active)
      <3>1. PICK k \in 1..Len(queue[m][q]) : queue'[m][q][j] = queue[m][q][k]
        BY <1>q
      <3> QED BY <3>1 DEF Ordered
    <2> QED BY <1>2, <2>1 DEF Ordered, Busy
  <1> QED BY <1>3, <1>4, <1>5 DEF WKept

LEMMA TimeoutOrder ==
    ASSUME Core, Separated, Attended, NEW n \in Node, NEW t \in Thread, TimedOut(n, t), UNCHANGED active
    PROVE  WKept
  <1> DEFINE gone == {<<n, t>>}
  <1>1. \A m \in Node, u \in Thread :
          /\ thr'[m][u].at = thr[m][u].at
          /\ thr'[m][u].got = IF m = n /\ u = t THEN "error" ELSE thr[m][u].got
          /\ Busy(m, u) => Kept(gone, thr[m][u].req, thr'[m][u].req)
    BY DEF TimedOut
  <1>2. \A m \in Node, q \in Pools :
          /\ Len(queue'[m][q]) = Len(queue[m][q])
          /\ \A i \in 1..Len(queue[m][q]) : Kept(gone, queue[m][q][i], queue'[m][q][i])
    BY DEF TimedOut
  <1>3. Separated'
    <2>1. ASSUME NEW m \in Node, NEW q \in Pools, NEW i \in 1..Len(queue'[m][q])
          PROVE  q = "replica" <=> queue'[m][q][i].path = "replica"
      BY <1>2 DEF Separated, Kept
    <2>2. ASSUME NEW m \in Node, thr'[m][Replica].at # "idle"
          PROVE  thr'[m][Replica].req.path = "replica"
      <3>1. Busy(m, Replica) /\ Replica \in Thread
        BY <1>1, <2>2 DEF Busy, Thread
      <3> QED BY <1>1, <3>1 DEF Separated, Kept
    <2> QED BY <2>1, <2>2 DEF Separated, Busy
  <1>4. Attended'
    <2> SUFFICES ASSUME NEW m \in Node, NEW u \in Thread, Waiting(m, u)'
                 PROVE  UnderWay(m, u)'
      BY DEF Attended
    <2>1. Waiting(m, u) /\ <<m, u>> \notin gone /\ Peer[m] \in Node
      BY <1>1, Pair DEF Waiting
    <2>2. ASSUME NEW q \in Pools, NEW l \in 1..Len(queue[Peer[m]][q]), queue[Peer[m]][q][l].from = <<m, u>>
          PROVE  UnderWay(m, u)'
      <3>1. l \in 1..Len(queue'[Peer[m]][q]) /\ queue'[Peer[m]][q][l].from = <<m, u>>
        BY <1>2, <2>1, <2>2 DEF Kept
      <3> QED BY <3>1 DEF UnderWay
    <2>3. ASSUME NEW v \in Thread, Busy(Peer[m], v), thr[Peer[m]][v].req.from = <<m, u>>
          PROVE  UnderWay(m, u)'
      <3>1. thr'[Peer[m]][v].at # "idle" /\ thr'[Peer[m]][v].req.from = <<m, u>>
        BY <1>1, <2>1, <2>3 DEF Kept, Busy
      <3> QED BY <3>1 DEF UnderWay, Busy
    <2> QED BY <2>1, <2>2, <2>3 DEF Attended, UnderWay
  <1>5. Ordered => Ordered'
    <2> SUFFICES ASSUME Ordered PROVE Ordered'
      OBVIOUS
    <2>0. ASSUME NEW r, NEW z, Kept(gone, r, z), OfMaster(r, active)
          PROVE  OfMaster(z, active)
      BY <2>0, Callers DEF Kept, OfMaster
    <2>1. ASSUME NEW m \in Node, NEW q \in Pools, NEW j \in 1..Len(queue'[m][q])
          PROVE  OfMaster(queue'[m][q][j], active)
      <3>1. j \in 1..Len(queue[m][q]) /\ Kept(gone, queue[m][q][j], queue'[m][q][j])
        BY <1>2
      <3> QED BY <2>0, <3>1 DEF Ordered
    <2>2. ASSUME NEW m \in Node, NEW u \in Thread, thr'[m][u].at # "idle"
          PROVE  OfMaster(thr'[m][u].req, active)
      <3>1. Busy(m, u) /\ Kept(gone, thr[m][u].req, thr'[m][u].req)
        BY <1>1, <2>2 DEF Busy
      <3> QED BY <2>0, <3>1 DEF Ordered
    <2> QED BY <2>1, <2>2 DEF Ordered, Busy
  <1> QED BY <1>3, <1>4, <1>5 DEF WKept

LEMMA CrashOrder ==
    ASSUME Separated, Attended, NEW n \in Node, Crashed(n)
    PROVE  WKept
  <1>1. Separated'
    <2>1. ASSUME NEW m \in Node, NEW q \in Pools, NEW i \in 1..Len(queue'[m][q])
          PROVE  q = "replica" <=> queue'[m][q][i].path = "replica"
      BY DEF Separated, Crashed
    <2>2. ASSUME NEW m \in Node, thr'[m][Replica].at # "idle"
          PROVE  thr'[m][Replica].req.path = "replica"
      BY <2>2 DEF Separated, Crashed, Thread
    <2> QED BY <2>1, <2>2 DEF Separated, Busy
  <1>2. Attended'
    BY DEF Attended, Crashed, Waiting
  <1>3. Ordered'
    BY DEF Ordered, Crashed, OfMaster, Busy
  <1> QED BY <1>1, <1>2, <1>3 DEF WKept

LEMMA TakeOrder ==
    ASSUME Core, Separated, Attended, docs \in [Node -> [Document -> SUBSET Item]],
           NEW n \in Node, NEW t \in Thread, Take(n, t)
    PROVE  WKept
  <1> DEFINE p == PoolOf(t)
             r == queue[n][p][1]
  <1>1. p \in Pools /\ queue[n][p] # <<>> /\ ~Busy(n, t) /\ UNCHANGED active
        /\ queue' = [queue EXCEPT ![n][p] = Tail(@)]
    BY DEF Take, PoolOf, Pools, Busy
  <1>2. HeadGone(n, p) /\ 1 \in 1..Len(queue[n][p]) /\ Head(queue[n][p]) = r /\ r \in Request
    BY <1>1, TailGone DEF Core, Typed
  <1>3. GoodRequest(n, r, thr, asked, did) /\ QueuesKeepBut(n, p)
    BY <1>1, <1>2, TailQueuesKeep DEF Core, Requests, Typed
  <1>f. /\ r.op \in Operation /\ r.item \in Item /\ r.doc \in SUBSET Item
        /\ r.path = "save" => r.kind \in Document
    BY <1>2, <1>3, RequestFields DEF GoodRequest, Kind, Asks
  <1>4. ASSUME NEW at \in {"group", "save", "ha", "peer"}, NEW doc \in SUBSET Item,
               thr' = [thr EXCEPT ![n][t] = Started(r, at, doc)]
        PROVE  WKept
    <2> DEFINE s == Started(r, at, doc)
    <2>1. s \in State /\ s.at \notin {"idle", "call"} /\ s.req = r
      BY <1>2, <1>4, StartedFields
    <2>2. thr' = [thr EXCEPT ![n][t] = s]
      BY <1>4
    <2> HIDE DEF s
    <2> QED BY <1>1, <1>2, <1>3, <2>1, <2>2, StartOrder
  <1>5. CASE /\ r.path = "save"
             /\ reply' = IF r.from = Client THEN [reply EXCEPT ![r.id] = "error"] ELSE reply
             /\ thr' = thr
    <2>1. r.from \notin Caller
      BY <1>3, <1>5, Callers DEF GoodRequest
    <2>2. Turned(n, p)
      BY <1>2, <1>5, <2>1 DEF Turned
    <2> QED BY <1>1, <1>3, <2>2, TurnOrder
  <1>6. CASE /\ r.path = "save"
             /\ thr' = [thr EXCEPT ![n][t] =
                   Started(r, IF r.op = "prune" THEN "group" ELSE "save",
                           Edited(r.op, docs[n][r.kind], r.item))]
    <2>1. Edited(r.op, docs[n][r.kind], r.item) \in SUBSET Item
      BY <1>f, <1>6 DEF Edited, upsert_in_config, merge_import, delete_in_config, Operation
    <2> QED BY <1>4, <1>6, <2>1
  <1>7. CASE thr' = [thr EXCEPT ![n][t] = Started(r, Entry(r.path), r.doc)]
    <2>1. Entry(r.path) \in {"group", "save", "ha", "peer"}
      BY DEF Entry
    <2> HIDE DEF r
    <2> QED BY <1>4, <1>7, <1>f, <2>1
  <1> HIDE DEF r
  <1> QED BY <1>2, <1>5, <1>6, <1>7 DEF Take

LEMMA RejectOrder ==
    ASSUME Core, Separated, Attended, NEW n \in Node, NEW t \in Thread, queue[n][PoolOf(t)] # <<>>,
           Reject(n, t)
    PROVE  WKept
  <1>1. PoolOf(t) \in Pools /\ Turned(n, PoolOf(t))
    BY RejectTurns
  <1>2. queue' = [queue EXCEPT ![n][PoolOf(t)] = Tail(@)] /\ UNCHANGED active
    BY DEF Reject
  <1>3. QueuesKeepBut(n, PoolOf(t))
    BY <1>1, <1>2, TailQueuesKeep DEF Core, Typed
  <1> QED BY <1>1, <1>2, <1>3, TurnOrder

(* The steps of a handler that serves a request: it answers, goes on or calls. *)
LEMMA HandlerOrder ==
    ASSUME Core, Separated, Attended, NEW n \in Node, NEW t \in Thread,
           ApplyGroup(n, t) \/ Save(n, t) \/ reconcile_templates(n, t) \/ Resume(n, t)
    PROVE  WKept
  <1> DEFINE s == thr[n][t]
  <1>1. Busy(n, t) /\ UNCHANGED active
    BY DEF ApplyGroup, Save, reconcile_templates, Resume, Busy
  <1>2. s \in State /\ s.req \in Request /\ s.doc \in SUBSET Item
    BY <1>1, Stepping
  <1>r. ASSUME NEW code \in {"ok", "error"}, Respond(n, t, code)
        PROVE  WKept
    BY <1>1, <1>r, RespondOrder
  <1>c. ASSUME NEW at \in {"save", "reconcile"}, Continue(n, t, at)
        PROVE  WKept
    BY <1>1, <1>c, ContinueOrder
  <1>s. ASSUME NEW path \in Calls, NEW doc \in SUBSET Item,
               NEW next \in Onward,
               send_peer_json(n, t, path, doc, next), path = "replica" \/ ~IsMaster(n)
        PROVE  WKept
    BY <1>1, <1>s, SendOrder
  <1>n. {"active", "replica", "group"} \subseteq Calls /\ {"reply", "save", "reconcile", "generated"} \subseteq Onward
    BY DEF Calls, Onward
  <1>3. CASE ApplyGroup(n, t)
    <2>1. \/ Respond(n, t, "ok") \/ Respond(n, t, "error") \/ Continue(n, t, "save")
          \/ ~IsMaster(n) /\ send_peer_json(n, t, "group", {}, "save")
      BY <1>3 DEF ApplyGroup
    <2> QED BY <1>n, <1>r, <1>c, <1>s, <2>1
  <1>4. CASE Save(n, t)
    <2> DEFINE next == IF Reconciles(s.req) THEN "reconcile" ELSE "reply"
    <2>1. \/ Respond(n, t, "ok") \/ Respond(n, t, "error")
          \/ send_peer_json(n, t, "replica", s.doc, next)
          \/ ~IsMaster(n) /\ send_peer_json(n, t, "active", s.doc, "reply")
      BY <1>4 DEF Save, save_from_peer_replica, save_as_master, not_master, forward_to_master
    <2>2. next \in Onward
      BY DEF Onward
    <2> HIDE DEF next
    <2> QED BY <1>2, <1>n, <1>r, <1>s, <2>1, <2>2
  <1>5. CASE reconcile_templates(n, t)
    <2>1. \/ Respond(n, t, "ok") \/ Respond(n, t, "error")
          \/ ~IsMaster(n) /\ send_peer_json(n, t, "group", {}, "generated")
      BY <1>5 DEF reconcile_templates
    <2> QED BY <1>n, <1>r, <1>s, <2>1
  <1>6. CASE Resume(n, t)
    <2>1. \/ Respond(n, t, "ok") \/ Respond(n, t, "error")
          \/ s.next \in {"save", "reconcile"} /\ Continue(n, t, s.next)
      BY <1>6 DEF Resume
    <2> QED BY <1>r, <1>c, <2>1
  <1> QED BY <1>3, <1>4, <1>5, <1>6

(* The steps of a request about the pair. *)
LEMMA PairOrder ==
    ASSUME Core, active \in [Node -> Node], Separated, Attended, NEW n \in Node, NEW t \in Thread,
           PairStep(n, t)
    PROVE  Separated' /\ Attended' /\ (UNCHANGED active => WKept)
  <1>1. /\ Busy(n, t) /\ thr[n][t].req.path \in {"ha"} \cup Asks
        /\ \/ Answered(n, t)
           \/ Sent(n, t) /\ UNCHANGED active
    BY PairShape
  <1>2. CASE Answered(n, t)
    <2>1. PICK code \in {"ok", "error"} : Respond(n, t, code)
      BY <1>2 DEF Answered
    <2> QED BY <1>1, <2>1, RespondOrder
  <1>3. CASE Sent(n, t) /\ UNCHANGED active
    <2>1. PICK path \in Asks, next \in {"reply", "undone"} : send_peer_json(n, t, path, {}, next)
      BY <1>3 DEF Sent
    <2>2. path \in Calls /\ next \in Onward /\ {} \in SUBSET Item
      BY CallNames
    <2>3. thr[n][t].req.kind = "ha"
      BY <1>1, Stepping
    <2>4. WKept
      BY <1>1, <1>3, <2>1, <2>2, <2>3, SendOrder
    <2> QED BY <2>4 DEF WKept
  <1> QED BY <1>1, <1>2, <1>3

LEMMA QuietOrdered ==
    ASSUME Quiet'
    PROVE  Ordered'
  <1>1. \A m \in Node, q \in Pools : Len(queue'[m][q]) = 0
    BY DEF Quiet
  <1>2. \A m \in Node, u \in Thread : thr'[m][u].at = "idle"
    BY IdleType DEF Quiet
  <1> QED BY <1>1, <1>2 DEF Ordered, Busy

(* After a role change only a moment without requests is calm. *)
LEMMA UnsettledKept ==
    ASSUME Separated', Attended', Unsettled
    PROVE  WInv'
  <1>1. calm' => Quiet' /\ \E n \in Node : active'[n] = n
    BY DEF Unsettled
  <1>2. CalmOrder'
    BY <1>1, QuietOrdered DEF CalmOrder, IsMaster
  <1> QED BY <1>2 DEF WInv

(* A moment without requests is in order; otherwise the order is kept. *)
LEMMA CalmKept ==
    ASSUME WKept, CalmOrder, Calmer, UNCHANGED active
    PROVE  WInv'
  <1>1. Separated' /\ Attended' /\ (Ordered => Ordered')
    BY DEF WKept
  <1>2. ASSUME calm', ~calm
        PROVE  Ordered' /\ \E n \in Node : IsMaster(n)
    <2>1. Quiet' /\ \E n \in Node : IsMaster(n)
      BY <1>2 DEF Calmer, IsMaster
    <2> QED BY <2>1, QuietOrdered
  <1>3. CalmOrder'
    BY <1>1, <1>2 DEF CalmOrder, IsMaster
  <1> QED BY <1>1, <1>3 DEF WInv

LEMMA InitWInv == Init => WInv
  <1> SUFFICES ASSUME Init PROVE WInv
    OBVIOUS
  <1>1. /\ \A m \in Node, q \in Pools : Len(queue[m][q]) = 0
        /\ \A m \in Node, u \in Thread : thr[m][u].at = "idle"
    BY IdleType DEF Init
  <1>2. calm => \E n \in Node : IsMaster(n)
    BY DEF Init, IsMaster
  <1>3. Separated /\ Attended
    BY <1>1 DEF Separated, Attended, Busy, Waiting, Thread
  <1>4. Ordered
    BY <1>1 DEF Ordered, Busy
  <1> QED BY <1>2, <1>3, <1>4 DEF WInv, CalmOrder

LEMMA NextWInv == IInv /\ WInv /\ [Next]_vars => WInv'
  <1> SUFFICES ASSUME IInv, WInv, [Next]_vars PROVE WInv'
    OBVIOUS
  <1>0. Core /\ docs \in [Node -> [Document -> SUBSET Item]] /\ Separated /\ Attended /\ CalmOrder
    BY DEF IInv, RestType, WInv
  <1>q. ASSUME UNCHANGED <<queue, thr>>
        PROVE  Separated' /\ Attended'
    <2>1. Separated'
      BY <1>0, <1>q DEF Separated, Busy
    <2>2. ASSUME NEW m \in Node, NEW u \in Thread
          PROVE  Waiting(m, u)' => UnderWay(m, u)'
      <3>1. (Waiting(m, u)' <=> Waiting(m, u)) /\ (UnderWay(m, u)' <=> UnderWay(m, u))
        BY <1>q DEF Waiting, UnderWay, Busy
      <3> QED BY <1>0, <3>1 DEF Attended
    <2> QED BY <2>1, <2>2 DEF Attended
  <1>1. ASSUME NEW n \in Node, NEW k \in Kind, NEW o \in Operation, NEW i \in Item, Ask(n, k, o, i)
        PROVE  WInv'
    <2>1. Calmer /\ UNCHANGED active
      BY <1>1 DEF Ask
    <2> QED BY <1>0, <1>1, <2>1, AskOrder, CalmKept
  <1>2. ASSUME NEW n \in Node, NEW t \in Thread, Step(n, t)
        PROVE  WInv'
    <2>1. CASE Take(n, t)
      <3>1. Calmer /\ UNCHANGED active
        BY <2>1 DEF Take
      <3> QED BY <1>0, <2>1, <3>1, TakeOrder, CalmKept
    <2>2. CASE handle_refuses(n, t) \/ channels_invalid(n, t) \/ templates_invalid(n, t)
      <3>1. queue[n][PoolOf(t)] # <<>> /\ Reject(n, t)
        BY <2>2 DEF handle_refuses, channels_invalid, templates_invalid
      <3>2. Calmer /\ UNCHANGED active
        BY <3>1 DEF Reject
      <3> QED BY <1>0, <3>1, <3>2, RejectOrder, CalmKept
    <2>3. CASE ApplyGroup(n, t) \/ Save(n, t) \/ reconcile_templates(n, t) \/ Resume(n, t)
      <3>1. Calmer /\ UNCHANGED active
        BY <2>3 DEF ApplyGroup, Save, reconcile_templates, Resume
      <3> QED BY <1>0, <2>3, <3>1, HandlerOrder, CalmKept
    <2>4. CASE Timeout(n, t)
      <3>1. Calmer /\ UNCHANGED active /\ TimedOut(n, t)
        BY <1>0, <2>4, TimeoutKeeps DEF Timeout
      <3> QED BY <1>0, <3>1, TimeoutOrder, CalmKept
    <2>5. CASE PairStep(n, t)
      <3>1. active \in [Node -> Node]
        BY DEF IInv, RestType
      <3>2. Separated' /\ Attended' /\ (UNCHANGED active => WKept)
        BY <1>0, <2>5, <3>1, PairOrder
      <3>3. (UNCHANGED active /\ Calmer) \/ Unsettled
        BY <1>0, <2>5, <3>1, PairShape
      <3>4. CASE UNCHANGED active /\ Calmer
        BY <1>0, <3>2, <3>4, CalmKept
      <3>5. CASE Unsettled
        BY <3>2, <3>5, UnsettledKept
      <3> QED BY <3>3, <3>4, <3>5
    <2> QED BY <1>2, <2>1, <2>2, <2>3, <2>4, <2>5 DEF Step, PairStep
  <1>3. ASSUME NEW n \in Node, Switch(n)
        PROVE  WInv'
    <2>1. UNCHANGED <<queue, thr>> /\ Unsettled
      BY <1>3 DEF Switch
    <2>2. Separated' /\ Attended'
      BY <1>0, <1>q, <2>1
    <2> QED BY <2>1, <2>2, UnsettledKept
  <1>4. ASSUME NEW n \in Node, Crash(n)
        PROVE  WInv'
    <2>1. Calmer /\ UNCHANGED active /\ Crashed(n)
      BY <1>0, <1>4, CrashKeeps DEF Crash
    <2> QED BY <1>0, <2>1, CrashOrder, CalmKept
  <1>5. CASE UNCHANGED vars
    <2>1. UNCHANGED <<queue, thr>> /\ UNCHANGED <<active, calm>>
      BY <1>5 DEF vars
    <2>2. Separated' /\ Attended'
      BY <1>0, <1>q, <2>1
    <2>3. CalmOrder'
      BY <1>0, <2>1 DEF CalmOrder, Ordered, IsMaster, Busy
    <2> QED BY <2>2, <2>3 DEF WInv
  <1>6. CASE Rest
    BY <1>5, <1>6 DEF Rest
  <1> QED BY <1>1, <1>2, <1>3, <1>4, <1>5, <1>6 DEF Next, Operation

(* Without a role change under running requests, and with a gateway that takes
   itself for the MASTER, some thread can always go on while another waits, as long
   as no worker of a MASTER waits in a request about the pair (ha/status,
   ha/failover): the MASTER's workers then wait for replica writes only, which the
   worker reserved for them serves without calling back (api/server.rs). *)
THEOREM PeerWritesNoWaitCycle == Spec => []NoWaitCycle
  <1>1. IInv /\ WInv => NoWaitCycle
    <2> SUFFICES ASSUME IInv, WInv, calm, Stalled,
                        \A n \in Node, t \in Thread :
                            IsMaster(n) /\ Waiting(n, t) => thr[n][t].req.kind # "ha"
                 PROVE  FALSE
      BY DEF NoWaitCycle
    <2>0. /\ Core /\ Separated /\ Attended /\ Ordered
          /\ \A n \in Node, t \in Thread : ~CanStep(n, t)
      BY DEF IInv, WInv, CalmOrder, Stalled
    <2>1. \A n \in Node, t \in Thread :
             /\ Busy(n, t) => Waiting(n, t) /\ thr[n][t].req.path # "replica"
             /\ ~Busy(n, t) => queue[n][PoolOf(t)] = <<>>
      <3> SUFFICES ASSUME NEW n \in Node, NEW t \in Thread
                   PROVE  /\ Busy(n, t) => Waiting(n, t) /\ thr[n][t].req.path # "replica"
                          /\ ~Busy(n, t) => queue[n][PoolOf(t)] = <<>>
        OBVIOUS
      <3>1. ~CanStep(n, t)
        BY <2>0
      <3>2. Progress(n, thr[n][t], did[thr[n][t].req.id])
        BY <2>0 DEF Core, InProgress
      <3> QED BY <3>1, <3>2 DEF CanStep, Busy, Waiting, Progress
    <2>2. \A n \in Node : queue[n]["replica"] = <<>>
      BY <2>0, <2>1 DEF Separated, Thread, PoolOf
    <2>3. \A n \in Node : queue[n]["public"] # <<>> => \E w \in Thread : Waiting(n, w)
      <3>1. PICK w \in Worker : TRUE
        BY PeerWritesAssumption
      <3>2. w \in Thread /\ PoolOf(w) = "public"
        BY PeerWritesAssumption DEF Thread, PoolOf
      <3> QED BY <2>1, <3>2
    <2>4. ASSUME NEW m \in Node, NEW u \in Thread, Waiting(m, u)
          PROVE  ~IsMaster(m) /\ \E w \in Thread : Waiting(Peer[m], w)
      <3>0. Peer[m] \in Node /\ UnderWay(m, u) /\ <<m, u>> \in Caller /\ <<m, u>>[1] = m
        BY <2>0, <2>4, Pair, Callers DEF Attended
      <3>1. ASSUME NEW p \in Pools, NEW i \in 1..Len(queue[Peer[m]][p]), queue[Peer[m]][p][i].from = <<m, u>>
            PROVE  ~IsMaster(m) /\ \E w \in Thread : Waiting(Peer[m], w)
        <4>1. p = "public" /\ queue[Peer[m]]["public"] # <<>>
          BY <2>2, <3>0, <3>1 DEF Pools
        <4>2. queue[Peer[m]][p][i].path # "replica" /\ OfMaster(queue[Peer[m]][p][i], active)
          BY <2>0, <3>0, <3>1, <4>1 DEF Separated, Ordered
        <4>k. queue[Peer[m]][p][i].kind = thr[m][u].req.kind
          <5>1. GoodRequest(Peer[m], queue[Peer[m]][p][i], thr, asked, did)
            BY <2>0, <3>0, <3>1 DEF Core, Requests
          <5>2. Answers(Peer[m], queue[Peer[m]][p][i], m, thr[m][u], did[queue[Peer[m]][p][i].id])
            BY <3>1, <5>1, Callers DEF GoodRequest
          <5> QED BY <5>2 DEF Answers
        <4>3. ~IsMaster(m)
          BY <2>4, <3>0, <3>1, <4>2, <4>k DEF OfMaster, IsMaster
        <4> QED BY <2>3, <3>0, <4>1, <4>3
      <3>2. ASSUME NEW v \in Thread, Busy(Peer[m], v), thr[Peer[m]][v].req.from = <<m, u>>
            PROVE  ~IsMaster(m) /\ \E w \in Thread : Waiting(Peer[m], w)
        <4>1. thr[Peer[m]][v].req.path # "replica" /\ OfMaster(thr[Peer[m]][v].req, active)
          BY <2>0, <2>1, <3>0, <3>2 DEF Ordered
        <4>k. thr[Peer[m]][v].req.kind = thr[m][u].req.kind
          <5>1. GoodRequest(Peer[m], thr[Peer[m]][v].req, thr, asked, did)
            BY <2>0, <3>0, <3>2 DEF Core, Requests
          <5>2. Answers(Peer[m], thr[Peer[m]][v].req, m, thr[m][u], did[thr[Peer[m]][v].req.id])
            BY <3>2, <5>1, Callers DEF GoodRequest
          <5> QED BY <5>2 DEF Answers
        <4>2. ~IsMaster(m)
          BY <2>4, <3>0, <3>2, <4>1, <4>k DEF OfMaster, IsMaster
        <4> QED BY <2>1, <3>0, <3>2, <4>2
      <3>3. CASE \E p \in Pools : \E i \in 1..Len(queue[Peer[m]][p]) : queue[Peer[m]][p][i].from = <<m, u>>
        BY <3>1, <3>3
      <3>4. CASE \E v \in Thread : Busy(Peer[m], v) /\ thr[Peer[m]][v].req.from = <<m, u>>
        BY <3>2, <3>4
      <3>5. UnderWay(m, u)
        BY <3>0
      <3> QED BY <3>3, <3>4, <3>5 DEF UnderWay
    <2>5. PICK m \in Node, u \in Thread : Waiting(m, u)
      BY DEF Stalled
    <2>6. \A n \in Node : ~IsMaster(n)
      <3>1. Peer[m] \in Node /\ Node = {m, Peer[m]}
        BY Pair
      <3> QED BY <2>4, <2>5, <3>1
    <2> QED BY <2>6 DEF WInv, CalmOrder
  <1>2. Spec => []WInv
    <2>1. Init => WInv
      BY InitWInv
    <2>2. IInv /\ WInv /\ [Next]_vars => WInv'
      BY NextWInv
    <2> QED BY <2>1, <2>2, Inductive, PTL DEF Spec
  <1> QED BY <1>1, <1>2, Inductive, PTL

=============================================================================
