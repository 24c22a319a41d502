----------------------------- MODULE PeerWrites -----------------------------
(***************************************************************************)
(* Writes of the notification channels and of the automation templates on  *)
(* a pair of gateways.  A write is served by one of the ordinary API       *)
(* workers of the gateway it is sent to.  The MASTER stores the document   *)
(* and calls the peer's "replica" endpoint; a BACKUP calls the MASTER's    *)
(* "active" endpoint, whose handler stores and calls back.  A worker that  *)
(* calls the peer holds its thread until the answer or the client timeout. *)
(* Replica writes are served by a worker of their own, so that the two     *)
(* gateways do not wait for each other.                                    *)
(*                                                                         *)
(* A template write also touches the generated target group: a deletion    *)
(* with the prune policy deletes the group first, a stored template is     *)
(* reconciled afterwards, and on a BACKUP either is forwarded as a         *)
(* "group" call (POST proxy-config/active).                                *)
(*                                                                         *)
(* The same ordinary workers serve GET ha/status, which reads the peer's   *)
(* status, and POST ha/failover, which has the peer change its role; both  *)
(* calls are for the ordinary workers of the peer.                         *)
(*                                                                         *)
(* The contents of a document are the set of its items (channel ids or     *)
(* template names).  Whether a generated group already matches its         *)
(* template, and whether a listener still refers to a group that is to be  *)
(* deleted, are choices: both are data of other modules.                   *)
(***************************************************************************)
EXTENDS Naturals, Sequences, FiniteSets

CONSTANTS
    Node,         \* the two gateways
    Peer,         \* the gateway each one is paired with
    Worker,       \* the ordinary API workers of a gateway (API_WORKERS)
    Replica,      \* the worker reserved for replica writes
    Roles,        \* whom each gateway takes for the MASTER at the start
    Item,         \* channel ids and template names
    QueueCap,     \* requests each queue holds (QUEUE_CAPACITY)
    MaxRequests,  \* bound: client requests
    MaxFaults     \* bound: role changes, crashes, refusals, slow answers

ASSUME PeerWritesAssumption ==
    /\ Worker # {} /\ Replica \notin Worker
    /\ Peer \in [Node -> Node] /\ \A n \in Node : Peer[n] # n
    /\ \A n, m \in Node : m \in {n, Peer[n]}
    /\ Roles \subseteq [Node -> Node]
    /\ QueueCap \in Nat \ {0} /\ MaxRequests \in Nat /\ MaxFaults \in Nat

Document == {"notifications", "automation"}
Kind == Document \cup {"ha"}
Operation == {"upsert", "replace", "delete", "prune", "status", "takeover", "handoff"}
Id == 1..MaxRequests
Thread == Worker \cup {Replica}
Pools == {"public", "replica"}
Client == <<"client">>
Nobody == <<"nobody">>

(***************************************************************************)
(* A request: the endpoint it is for, what the client asked, the document  *)
(* a peer call carries, the client request it belongs to and who waits for *)
(* the answer: the client, a thread of the peer, or nobody any more.  The  *)
(* two peer/activate calls are told apart by the gateway they name: the    *)
(* addressee ("activate") or the caller ("yield").                         *)
(***************************************************************************)
Calls == {"active", "replica", "group", "peer_status", "activate", "yield"}
Request == [path : {"save", "ha"} \cup Calls, kind : Kind, op : Operation, item : Item,
            doc : SUBSET Item, id : Id,
            from : {Client, Nobody} \cup (Node \X Thread)]

NoRequest == [path |-> "none"]

VARIABLES
    active,   \* active[n]: the gateway n takes for the MASTER
    docs,     \* docs[n][k]: the stored document of kind k
    queue,    \* queue[n]["public"] and queue[n]["replica"]
    thr,      \* thr[n][t]: the thread's place in its handler
    reply,    \* reply[i]: what the client was answered
    asked,    \* the client requests sent, as <<kind, operation>>
    faults,   \* faults left
    did,      \* history: what was carried out for each client request
    calm      \* history: no role change since the last moment without requests

vars == <<active, docs, queue, thr, reply, asked, faults, did, calm>>

Idle == [at |-> "idle", req |-> NoRequest, doc |-> {}, got |-> "none",
         next |-> "reply"]

TypeOK ==
    /\ active \in [Node -> Node]
    /\ docs \in [Node -> [Document -> SUBSET Item]]
    /\ \A n \in Node : \A pool \in Pools :
          /\ Len(queue[n][pool]) <= QueueCap
          /\ \A i \in DOMAIN queue[n][pool] : queue[n][pool][i] \in Request
    /\ \A n \in Node : \A t \in Thread :
          /\ thr[n][t].at \in {"idle", "group", "save", "reconcile", "ha", "peer", "call"}
          /\ thr[n][t].req \in Request \cup {NoRequest}
          /\ thr[n][t].at = "call" => thr[n][t].req.path \in {"save", "active", "ha"}
    /\ reply \in [Id -> {"none", "ok", "error"}]
    /\ asked \in Seq(Kind \X Operation)
    /\ Len(asked) <= MaxRequests /\ faults \in 0..MaxFaults
    /\ did \in [Id -> SUBSET (Node \cup {"group", "generated"})]
    /\ calm \in BOOLEAN

Init ==
    /\ active \in Roles
    /\ \E d \in SUBSET Item : docs = [n \in Node |-> [k \in Document |-> d]]
    /\ queue = [n \in Node |-> [pool \in Pools |-> <<>>]]
    /\ thr = [n \in Node |-> [t \in Thread |-> Idle]]
    /\ reply = [i \in Id |-> "none"] /\ asked = <<>> /\ faults = MaxFaults
    /\ did = [i \in Id |-> {}]
    /\ calm = \E n \in Node : active[n] = n

-----------------------------------------------------------------------------
(* ha_write::write_role of a paired gateway. *)
IsMaster(n) == active[n] = n

(* Mutant: replica writes are left to the ordinary workers. *)
is_replica_write_never(path) == FALSE

(* Which requests the reserved worker serves. *)
is_replica_write(path) == path = "replica"

Pool(path) == IF is_replica_write(path) THEN "replica" ELSE "public"
PoolOf(t) == IF t = Replica THEN "replica" ELSE "public"

(* Mutant: one request too many is let into a queue. *)
FitsOneMore(q) == Len(q) <= QueueCap

(* try_send of the dispatcher: a full queue takes nothing and never waits. *)
Fits(q) == Len(q) < QueueCap

(* Mutant: any answer of the peer counts as success. *)
AcceptedAny(got) == got # "none"

(* put_peer_config and the reply checks: only a 2xx answer is a success. *)
Accepted(got) == got = "ok"

(* The edits of a document: an item is added or replaced, removed, or an
   import replaces the whole document. *)
upsert_in_config(doc, i) == doc \cup {i}
delete_in_config(doc, i) == doc \ {i}
merge_import(doc, i) == {i}

(* What the handlers create, update, import and delete make of the document
   they loaded. *)
Edited(op, doc, i) ==
    CASE op = "upsert" -> upsert_in_config(doc, i)
      [] op = "replace" -> merge_import(doc, i)
      [] OTHER -> delete_in_config(doc, i)

(* The handlers that reconcile once their document is saved: create, update
   and import where they saved it themselves, and the active endpoint. *)
Reconciles(req) ==
    req.kind = "automation" /\ (req.path = "active" \/ req.op \in {"upsert", "replace"})

Waiting(n, t) == thr[n][t].at = "call" /\ thr[n][t].got = "none"
CanStep(n, t) ==
    IF thr[n][t].at = "idle" THEN queue[n][PoolOf(t)] # <<>> ELSE ~Waiting(n, t)

(* Somebody waits and nobody has anything else to do. *)
Stalled ==
    /\ \E n \in Node, t \in Thread : Waiting(n, t)
    /\ ~\E n \in Node, t \in Thread : CanStep(n, t)

-----------------------------------------------------------------------------
(* Building blocks of a handler's steps. *)

Quiet == \A n \in Node :
    /\ \A pool \in Pools : queue[n][pool] = <<>>
    /\ \A t \in Thread : thr[n][t] = Idle

(* The history variable calm, in every step but a role change and in one. *)
Calmer == calm' = (calm \/ (Quiet' /\ \E n \in Node : active[n] = n))
Unsettled == calm' = (Quiet' /\ \E n \in Node : active'[n] = n)

Record(req, what) == did' = [did EXCEPT ![req.id] = @ \cup {what}]

(* A thread takes up a request, calls the peer, has its answer, goes on. *)
Started(req, at, doc) == [Idle EXCEPT !.at = at, !.req = req, !.doc = doc]
Calling(s, next, got) == [s EXCEPT !.at = "call", !.next = next, !.got = got]
Got(s, status) == [s EXCEPT !.got = status]
GoingOn(s, at) == [s EXCEPT !.at = at, !.got = "none"]

(* What a handler sends to the peer for the request it serves. *)
PeerRequest(req, path, doc, from) == [req EXCEPT !.path = path, !.doc = doc, !.from = from]

(* The answer reaches whoever waits for it; the thread is free again. *)
Respond(n, t, status) ==
    LET req == thr[n][t].req IN
    /\ thr' = IF req.from \in Node \X Thread
              THEN [thr EXCEPT ![n][t] = Idle,
                               ![req.from[1]][req.from[2]] = Got(@, status)]
              ELSE [thr EXCEPT ![n][t] = Idle]
    /\ reply' = IF req.from = Client THEN [reply EXCEPT ![req.id] = status] ELSE reply
    /\ UNCHANGED queue

(* send_peer_json: the thread waits; a full queue at the peer answers 503. *)
send_peer_json(n, t, path, doc, next) ==
    LET p == Peer[n]
        req == PeerRequest(thr[n][t].req, path, doc, <<n, t>>)
        fits == Fits(queue[p][Pool(path)])
    IN  /\ queue' = IF fits THEN [queue EXCEPT ![p][Pool(path)] = Append(@, req)] ELSE queue
        /\ thr' = [thr EXCEPT ![n][t] = Calling(@, next, IF fits THEN "none" ELSE "error")]
        /\ UNCHANGED reply

Continue(n, t, at) ==
    /\ thr' = [thr EXCEPT ![n][t] = GoingOn(@, at)]
    /\ UNCHANGED <<queue, reply>>

-----------------------------------------------------------------------------
(* A client's request reaches gateway n: the dispatcher never waits for a full
   queue, it answers 503. *)
Ask(n, k, o, i) ==
    LET id == Len(asked) + 1
        req == [path |-> IF k = "ha" THEN "ha" ELSE "save", kind |-> k, op |-> o, item |-> i, doc |-> {},
                id |-> id, from |-> Client]
        fits == Fits(queue[n]["public"])
    IN  /\ Len(asked) < MaxRequests
        /\ o \in {"prune", "replace"} => k = "automation"
        /\ o \in {"status", "takeover", "handoff"} <=> k = "ha"
        /\ asked' = Append(asked, <<k, o>>)
        /\ queue' = IF fits THEN [queue EXCEPT ![n]["public"] = Append(@, req)] ELSE queue
        /\ reply' = IF fits THEN reply ELSE [reply EXCEPT ![id] = "error"]
        /\ UNCHANGED <<active, docs, thr, faults, did>>
        /\ Calmer

(* Where the handler of a request other than a client's write starts. *)
Entry(path) ==
    CASE path = "group" -> "group"
      [] path = "ha" -> "ha"
      [] path \in {"peer_status", "activate", "yield"} -> "peer"
      [] OTHER -> "save"

(* A thread takes the oldest request of its queue.  The client's handlers load
   the document here and edit their copy; a deletion of an item that is not in
   it is answered 404. *)
Take(n, t) ==
    LET req == Head(queue[n][PoolOf(t)])
    IN  /\ thr[n][t].at = "idle" /\ queue[n][PoolOf(t)] # <<>>
        /\ queue' = [queue EXCEPT ![n][PoolOf(t)] = Tail(@)]
        /\ \/ /\ req.path = "save"
              /\ req.op \in {"delete", "prune"} /\ req.item \notin docs[n][req.kind]
              /\ reply' = IF req.from = Client THEN [reply EXCEPT ![req.id] = "error"] ELSE reply
              /\ thr' = thr
           \/ /\ req.path = "save"
              /\ req.op \in {"upsert", "replace"} \/ req.item \in docs[n][req.kind]
              /\ thr' = [thr EXCEPT ![n][t] =
                    Started(req, IF req.op = "prune" THEN "group" ELSE "save",
                            Edited(req.op, docs[n][req.kind], req.item))]
              /\ UNCHANGED reply
           \/ /\ req.path # "save"
              /\ thr' = [thr EXCEPT ![n][t] = Started(req, Entry(req.path), req.doc)]
              /\ UNCHANGED reply
        /\ UNCHANGED <<active, docs, asked, faults, did>>
        /\ Calmer

(* A thread answers a request with an error before its handler did anything. *)
Reject(n, t) ==
    LET req == Head(queue[n][PoolOf(t)]) IN
    /\ faults > 0 /\ faults' = faults - 1
    /\ thr[n][t].at = "idle"
    /\ queue' = [queue EXCEPT ![n][PoolOf(t)] = Tail(@)]
    /\ thr' = IF req.from \in Node \X Thread
              THEN [thr EXCEPT ![req.from[1]][req.from[2]] = Got(@, "error")]
              ELSE thr
    /\ reply' = IF req.from = Client THEN [reply EXCEPT ![req.id] = "error"] ELSE reply
    /\ UNCHANGED <<active, docs, asked, did>>
    /\ Calmer

(* handle: an untrusted source, a wrong or missing token, a body that is too
   large or cannot be read, a configuration that cannot be loaded. *)
handle_refuses(n, t) == queue[n][PoolOf(t)] # <<>> /\ Reject(n, t)

(* validate_config of the notification channels: ids, names, events and the
   settings each kind of channel needs. *)
channels_invalid(n, t) ==
    /\ queue[n][PoolOf(t)] # <<>> /\ Head(queue[n][PoolOf(t)]).path # "group"
    /\ Head(queue[n][PoolOf(t)]).kind = "notifications"
    /\ Reject(n, t)

(* normalize_config of the automation templates: probe settings, filters and
   unique names. *)
templates_invalid(n, t) ==
    /\ queue[n][PoolOf(t)] # <<>> /\ Head(queue[n][PoolOf(t)]).path # "group"
    /\ Head(queue[n][PoolOf(t)]).kind = "automation"
    /\ Reject(n, t)

(* apply_authoritative(TargetGroupDelete) of a pruning deletion, and the
   handler of a forwarded group write.  The mutation itself may be rejected. *)
ApplyGroup(n, t) ==
    LET req == thr[n][t].req IN
    /\ thr[n][t].at = "group"
    /\ \/ /\ IsMaster(n)
          /\ Record(req, "group")
          /\ IF req.path = "group" THEN Respond(n, t, "ok") ELSE Continue(n, t, "save")
       \/ /\ IsMaster(n)
          /\ Respond(n, t, "error") /\ UNCHANGED did
       \/ /\ ~IsMaster(n) /\ req.path = "group"
          /\ Respond(n, t, "error") /\ UNCHANGED did
       \/ /\ ~IsMaster(n) /\ req.path # "group"
          /\ send_peer_json(n, t, "group", {}, "save") /\ UNCHANGED did
    /\ UNCHANGED <<active, docs, asked, faults>>
    /\ Calmer

Stored(n, t) == docs' = [docs EXCEPT ![n][thr[n][t].req.kind] = thr[n][t].doc]

(* The replica endpoint stores what it is sent, whatever the role. *)
save_from_peer_replica(n, t) ==
    /\ thr[n][t].req.path = "replica"
    /\ Stored(n, t) /\ Record(thr[n][t].req, n) /\ Respond(n, t, "ok")

(* The MASTER stores first and then calls the peer. *)
save_as_master(n, t) ==
    LET req == thr[n][t].req IN
    /\ req.path \in {"save", "active"} /\ IsMaster(n)
    /\ Stored(n, t) /\ Record(req, n)
    /\ send_peer_json(n, t, "replica", thr[n][t].doc,
                      IF Reconciles(req) THEN "reconcile" ELSE "reply")

(* save_from_peer_active of a gateway that is not the MASTER. *)
not_master(n, t) ==
    /\ thr[n][t].req.path = "active" /\ ~IsMaster(n)
    /\ Respond(n, t, "error") /\ UNCHANGED <<docs, did>>

(* A BACKUP stores nothing itself. *)
forward_to_master(n, t) ==
    /\ thr[n][t].req.path = "save" /\ ~IsMaster(n)
    /\ send_peer_json(n, t, "active", thr[n][t].doc, "reply")
    /\ UNCHANGED <<docs, did>>

Save(n, t) ==
    /\ thr[n][t].at = "save"
    /\ \/ save_from_peer_replica(n, t) \/ save_as_master(n, t)
       \/ not_master(n, t) \/ forward_to_master(n, t)
    /\ UNCHANGED <<active, asked, faults>>
    /\ Calmer

(* planned_target_group against the stored group: it depends on the nodes
   subscribed and on the template's filter. *)
planned_target_group == {"matches", "differs"}

(* reconcile_templates: a group that already matches is left alone, any other
   is written through apply_authoritative, which may reject it. *)
reconcile_templates(n, t) ==
    LET req == thr[n][t].req IN
    /\ thr[n][t].at = "reconcile"
    /\ \E group \in planned_target_group :
          \/ /\ group = "matches" \/ IsMaster(n)
             /\ Record(req, "generated") /\ Respond(n, t, "ok")
          \/ /\ group = "differs" /\ IsMaster(n)
             /\ Respond(n, t, "error") /\ UNCHANGED did
          \/ /\ group = "differs" /\ ~IsMaster(n)
             /\ send_peer_json(n, t, "group", {}, "generated") /\ UNCHANGED did
    /\ UNCHANGED <<active, docs, asked, faults>>
    /\ Calmer

(* The call returned: go on, or give the error back. *)
Resume(n, t) ==
    LET s == thr[n][t] IN
    /\ s.at = "call" /\ s.got # "none" /\ s.req.path # "ha"
    /\ \/ /\ ~Accepted(s.got) /\ Respond(n, t, "error") /\ UNCHANGED did
       \/ /\ Accepted(s.got) /\ s.next = "reply" /\ Respond(n, t, "ok") /\ UNCHANGED did
       \/ /\ Accepted(s.got) /\ s.next = "generated"
          /\ Record(s.req, "generated") /\ Respond(n, t, "ok")
       \/ /\ Accepted(s.got) /\ s.next \in {"save", "reconcile"}
          /\ Continue(n, t, s.next) /\ UNCHANGED did
    /\ UNCHANGED <<active, docs, asked, faults>>
    /\ Calmer

-----------------------------------------------------------------------------
(* The requests about the pair itself. *)

(* GET ha/status: the peer is asked for its metadata, and whatever comes of
   that the status is answered. *)
status(n, t) ==
    LET s == thr[n][t] IN
    /\ s.req.path = "ha" /\ s.req.op = "status"
    /\ \/ /\ s.at = "ha" /\ send_peer_json(n, t, "peer_status", {}, "reply")
       \/ /\ s.at = "call" /\ s.got # "none" /\ Respond(n, t, "ok")
    /\ UNCHANGED <<active, docs, asked, faults, did>>
    /\ Calmer

(* switch_active_gateway_coordinated: a takeover has the peer yield first,
   unless this gateway is the MASTER already; a handoff demotes this gateway
   and then has the peer take over.  Applying the local role may fail. *)
switch_active_gateway(n, t) ==
    LET op == thr[n][t].req.op IN
    /\ thr[n][t].at = "ha"
    /\ \/ /\ op = "takeover" /\ IsMaster(n)
          /\ \E code \in {"ok", "error"} : Respond(n, t, code)
       \/ /\ op = "takeover" /\ ~IsMaster(n) /\ send_peer_json(n, t, "yield", {}, "reply")
       \/ /\ op = "handoff" /\ Respond(n, t, "error")
       \/ /\ op = "handoff" /\ send_peer_json(n, t, "activate", {}, "reply")
    /\ UNCHANGED <<active, docs, asked, faults, did>>
    /\ Calmer

(* The peer has answered: the selection is written and the client answered. *)
write_active_gateway(n, t) ==
    LET s == thr[n][t] IN
    /\ s.at = "call" /\ s.got # "none" /\ Accepted(s.got) /\ s.next = "reply"
    /\ s.req.path = "ha" /\ s.req.op \in {"takeover", "handoff"}
    /\ active' = [active EXCEPT ![n] = IF s.req.op = "takeover" THEN n ELSE Peer[n]]
    /\ Respond(n, t, "ok")
    /\ UNCHANGED <<docs, asked, faults, did>>
    /\ Unsettled

(* The peer refused, or was asked to take its role back; or the peer yielded
   and the local takeover fails, after which it is asked to take it back
   (restore_peer_after_failed_local_takeover). *)
failed_switch(n, t) ==
    LET s == thr[n][t] IN
    /\ s.at = "call" /\ s.got # "none"
    /\ s.req.path = "ha" /\ s.req.op \in {"takeover", "handoff"}
    /\ \/ /\ ~Accepted(s.got) \/ s.next = "undone"
          /\ Respond(n, t, "error")
       \/ /\ Accepted(s.got) /\ s.next = "reply" /\ s.req.op = "takeover"
          /\ send_peer_json(n, t, "activate", {}, "undone")
    /\ UNCHANGED <<active, docs, asked, faults, did>>
    /\ Calmer

(* GET ha/peer/status calls nobody. *)
peer_status(n, t) ==
    /\ thr[n][t].at = "peer" /\ thr[n][t].req.path = "peer_status"
    /\ \E code \in {"ok", "error"} : Respond(n, t, code)
    /\ UNCHANGED <<active, docs, asked, faults, did>>
    /\ Calmer

(* POST ha/peer/activate: the local role is applied and the selection written. *)
peer_activate(n, t) ==
    LET path == thr[n][t].req.path IN
    /\ thr[n][t].at = "peer" /\ path \in {"activate", "yield"}
    /\ \/ /\ active' = [active EXCEPT ![n] = IF path = "activate" THEN n ELSE Peer[n]]
          /\ Respond(n, t, "ok") /\ Unsettled
       \/ /\ UNCHANGED active /\ Respond(n, t, "error") /\ Calmer
    /\ UNCHANGED <<docs, asked, faults, did>>

-----------------------------------------------------------------------------
(* The requests whose caller has gone are still carried out. *)
Unowned(req) == [req EXCEPT !.from = Nobody]
Orphaned(gone, q) == [i \in DOMAIN q |-> IF q[i].from \in gone THEN Unowned(q[i]) ELSE q[i]]
OrphanedThread(gone, s) ==
    IF s.req # NoRequest /\ s.req.from \in gone THEN [s EXCEPT !.req = Unowned(@)] ELSE s

(* Mutant: the peer client is built without a request timeout. *)
WaitsForever(n, t) == FALSE

(* The ten seconds of the peer client have passed. *)
TimesOut(n, t) == Waiting(n, t)

(* Ten seconds pass because nobody can do anything, or because a thread of
   the peer is that slow, which is one of the faults. *)
Timeout(n, t) ==
    LET gone == {<<n, t>>} IN
    /\ TimesOut(n, t)
    /\ \/ Stalled /\ UNCHANGED faults
       \/ ~Stalled /\ faults > 0 /\ faults' = faults - 1
    /\ thr' = [m \in Node |-> [u \in Thread |->
                 IF <<m, u>> = <<n, t>> THEN Got(thr[n][t], "error")
                 ELSE OrphanedThread(gone, thr[m][u])]]
    /\ queue' = [m \in Node |-> [pool \in Pools |->
                 Orphaned(gone, queue[m][pool])]]
    /\ UNCHANGED <<active, docs, reply, asked, did>>
    /\ Calmer

-----------------------------------------------------------------------------
(* The gateway takes another gateway for the MASTER (module HaFailover). *)
Switch(n) ==
    /\ faults > 0 /\ faults' = faults - 1
    /\ active' = [active EXCEPT ![n] = Peer[active[n]]]
    /\ UNCHANGED <<docs, queue, thr, reply, asked, did>>
    /\ Unsettled

(* The process dies and is started again: its documents are on disk, the
   connections of everyone it served or called are reset. *)
Crash(n) ==
    LET gone == {n} \X Thread
        lost == {thr[n][t].req : t \in Thread}
                \cup UNION {{queue[n][pool][i] : i \in DOMAIN queue[n][pool]} : pool \in Pools}
        waits(x) == \E r \in lost \ {NoRequest} : r.from = x
    IN  /\ faults > 0 /\ faults' = faults - 1
        /\ thr' = [m \in Node |-> [t \in Thread |->
                     IF m = n THEN Idle
                     ELSE LET s == OrphanedThread(gone, thr[m][t]) IN
                          IF waits(<<m, t>>) THEN Got(s, "error") ELSE s]]
        /\ queue' = [m \in Node |-> [pool \in Pools |->
                     IF m = n THEN <<>> ELSE Orphaned(gone, queue[m][pool])]]
        /\ reply' = [i \in Id |->
                     IF \E r \in lost \ {NoRequest} : r.id = i /\ r.from = Client
                     THEN "error" ELSE reply[i]]
        /\ UNCHANGED <<active, docs, asked, did>>
        /\ Calmer

Step(n, t) ==
    Take(n, t) \/ handle_refuses(n, t) \/ channels_invalid(n, t)
    \/ templates_invalid(n, t) \/ ApplyGroup(n, t) \/ Save(n, t) \/ reconcile_templates(n, t)
    \/ Resume(n, t) \/ status(n, t) \/ switch_active_gateway(n, t)
    \/ write_active_gateway(n, t) \/ failed_switch(n, t) \/ peer_status(n, t)
    \/ peer_activate(n, t) \/ Timeout(n, t)

(* All the requests were sent and no thread runs. *)
Rest ==
    /\ Len(asked) = MaxRequests /\ \A n \in Node, t \in Thread : ~CanStep(n, t)
    /\ UNCHANGED vars

Next ==
    \/ \E n \in Node, k \in Kind, o \in Operation, i \in Item :
          Ask(n, k, o, i)
    \/ \E n \in Node, t \in Thread : Step(n, t)
    \/ \E n \in Node : Switch(n) \/ Crash(n)
    \/ Rest

Spec == Init /\ [][Next]_vars

(* The threads run; a call that is not answered times out. *)
FairSpec == Spec /\ \A n \in Node, t \in Thread : WF_vars(Step(n, t))

-----------------------------------------------------------------------------
(* Unless a role changed under running requests, or both gateways take the
   other for the MASTER, the workers of the two gateways do not all wait for
   each other (server.rs: the reserved replica worker), except where a worker
   of the MASTER itself asks the peer's ordinary workers for something: those
   are the requests ha/status and ha/failover, and while one waits the two
   pools may wait for each other until the client timeout.  Writes on either
   gateway, and the BACKUP's own status requests, never close the circle. *)
NoWaitCycle ==
    calm /\ (\A n \in Node, t \in Thread :
                IsMaster(n) /\ Waiting(n, t) => thr[n][t].req.kind # "ha")
    => ~Stalled

(* A write answered with success was stored by both gateways, a pruning
   deletion has deleted the group and a stored template was reconciled: no
   failure of a later step, on either gateway, is reported as success
   (notify/sync.rs, automation/sync.rs, handlers/automations.rs). *)
AnsweredIsDone ==
    \A i \in Id : reply[i] = "ok" /\ asked[i][1] \in Document =>
        /\ Node \subseteq did[i]
        /\ asked[i][2] = "prune" => "group" \in did[i]
        /\ asked[i] \in {"automation"} \X {"upsert", "replace"} => "generated" \in did[i]

(* Every request is answered, also when roles change, a gateway dies or the two
   gateways wait for each other. *)
EventuallyAnswered == \A i \in Id : Len(asked) >= i ~> reply[i] # "none"
=============================================================================
