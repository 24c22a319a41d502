------------------------------ MODULE FlowSync ------------------------------
(***************************************************************************)
(* Two paired gateways, their flow tables, the xSync stream from the       *)
(* MASTER to the BACKUP (provider/native/xsync.rs) and the flow sweep of   *)
(* the reconcile loop.  Client and return packets arrive at the MASTER.    *)
(* Monotonic clocks start with their hosts, which is why the stream        *)
(* carries ages: an entry's age is taken when the batch is sent and        *)
(* subtracted from the clock of the host that applies it, down to 0.  A    *)
(* last-seen is written here as the common time, 0 stands for the code's 0.*)
(***************************************************************************)
EXTENDS FlowTable, Sequences

CONSTANTS
    Gateway,
    RingSize,   \* events the flow-event ring holds (NATIVE_FLOW_EVENTS)
    BatchSize,  \* MAX_SYNC_OPS_PER_BATCH
    MaxTime,    \* bound on the clock
    MaxFaults   \* bound on failovers, restarts, stops, lost maps and broken streams

ASSUME FlowAssumption ==
    /\ Timeout \in Nat \ {0}
    /\ RingSize \in Nat /\ BatchSize \in Nat \ {0}
    /\ NoTarget \notin Target
    /\ \E a, b \in Gateway : a # b /\ Gateway = {a, b}

VARIABLES
    now,        \* the time
    boot,       \* when the clock of each host started
    master,     \* the gateway whose HA state is MASTER (HaFailover)
    attached,   \* whose datapath maps exist
    table,      \* NATIVE_FLOWS per gateway
    ring,       \* NATIVE_FLOW_EVENTS per gateway
    sweep,      \* a sweep between its scan and its removals
    link,       \* the xSync session
    lost,       \* history: keys a gateway lost alive since the session began
    faults      \* faults so far

vars == <<now, boot, master, attached, table, ring, sweep, link, lost, faults>>

Peer(g) == CHOOSE p \in Gateway : p # g

NoOp == [op |-> "none", value |-> NoFlow]
Delete == [op |-> "delete", value |-> NoFlow]
Upsert(value) == [op |-> "upsert", value |-> value]
NoBatch == [k \in Key |-> NoOp]
Unknown == -1                \* not in the index of the peer's flows
NoReplica == [k \in Key |-> Unknown]

(* pc: "down" no session, "top" start of the loop, "drained" events taken,
   "sent" waiting for the peer, "acked" answered.  deaf: the event reader of
   the session is not on the present ring, it still holds the events in old. *)
Down == [pc |-> "down", gw |-> CHOOSE g \in Gateway : TRUE, replica |-> NoReplica,
         pending |-> NoBatch, batch |-> NoBatch, sent |-> 0, full |-> FALSE,
         deaf |-> FALSE, old |-> << >>]

(* The range of every variable. *)
TypeOK ==
    /\ now \in 1..MaxTime /\ master \in Gateway /\ attached \in SUBSET Gateway
    /\ table \in [Gateway -> [Key -> Value \union {NoFlow}]]
    /\ \A g \in Gateway : Len(ring[g]) <= RingSize
    /\ link.pc \in {"down", "top", "drained", "sent", "acked"}
    /\ link.pc \in {"sent", "acked"} <=> link.batch # NoBatch
    /\ faults \in 0..MaxFaults

Init ==
    /\ now = 1 /\ boot = [g \in Gateway |-> 0] /\ master = Down.gw /\ attached = Gateway
    /\ table = [g \in Gateway |-> EmptyTable]
    /\ ring = [g \in Gateway |-> << >>]
    /\ sweep = [g \in Gateway |-> {}]
    /\ link = Down /\ lost = {} /\ faults = 0

Tick ==
    /\ now < MaxTime /\ now' = now + 1
    /\ UNCHANGED <<boot, master, attached, table, ring, sweep, link, lost, faults>>

-----------------------------------------------------------------------------
(* Packets at the MASTER. *)

(* One event per key, in order; an event that finds the ring full is lost. *)
emit_flow_event(events, keys, op, value) ==
    LET all == events \o [i \in 1..Len(keys) |-> [key |-> keys[i], op |-> op, value |-> value]]
    IN  SubSeq(all, 1, Min({RingSize, Len(all)}))

(* What the session's peer loses alive.  A pair goes when the key of the packet
   has expired: replication may have refreshed the other one. *)
Lost(g, newTable) ==
    {<<g, k>> : k \in {x \in LiveKeys(table[g], now) : newTable[x] = NoFlow /\ link.pc # "down" /\ g # link.gw}}

Packet(g, newTable, newRing) ==
    /\ table' = [table EXCEPT ![g] = newTable]
    /\ ring' = [ring EXCEPT ![g] = newRing]
    /\ lost' = lost \union Lost(g, newTable)
    /\ UNCHANGED <<now, boot, master, attached, sweep, link, faults>>

(* A packet of a live flow. *)
IngressHit(c) ==
    LET k == Forward(c) IN
    /\ master \in attached /\ k \in LiveKeys(table[master], now)
    /\ Packet(master, Refresh(table[master], k, now), ring[master])

(* A first packet, or the first after the flow expired: the old pair goes, a
   target is selected (Datapath) and the new pair is inserted. *)
IngressNew(c, t) ==
    LET k == Forward(c)
        old == table[master][k]
        cleared == IF old # NoFlow THEN RemovePair(table[master], k) ELSE table[master]
        gone == IF old # NoFlow THEN emit_flow_event(ring[master], <<k, Backward(c, old.target)>>, "delete", old)
                ELSE ring[master]
        value == [target |-> t, seen |-> now]
    IN
    /\ master \in attached /\ k \notin LiveKeys(table[master], now)
    /\ Packet(master, NewPair(cleared, c, value),
              emit_flow_event(gone, <<k, Backward(c, t)>>, "upsert", value))

(* A reply of target t. *)
Return(c, t) ==
    LET k == Backward(c, t)
        old == table[master][k]
    IN
    /\ master \in attached /\ old # NoFlow
    /\ IF flow_expired(old, now)
       THEN Packet(master, RemovePair(table[master], k),
                   emit_flow_event(ring[master], <<k, Forward(c)>>, "delete", old))
       ELSE Packet(master, Refresh(table[master], k, now), ring[master])

-----------------------------------------------------------------------------
(* The sweep of the reconcile loop: scan the table, then remove what had
   expired at the scan. *)

sweep_scan(g) ==
    LET gone == Present(table[g]) \ LiveKeys(table[g], now) IN
    /\ g \in attached /\ sweep[g] = {} /\ gone # {}
    /\ sweep' = [sweep EXCEPT ![g] = gone]
    /\ UNCHANGED <<now, boot, master, attached, table, ring, link, lost, faults>>

sweep_remove(g) ==
    /\ sweep[g] # {}
    /\ table' = [table EXCEPT ![g] = delete_flows(@, sweep[g])]
    /\ lost' = lost \union Lost(g, delete_flows(table[g], sweep[g]))
    /\ sweep' = [sweep EXCEPT ![g] = {}]
    /\ UNCHANGED <<now, boot, master, attached, ring, link, faults>>

-----------------------------------------------------------------------------
(* The xSync session of the MASTER. *)

(* Mutant: the index of what the peer holds survives a reconnect. *)
replica_kept(replica) == replica

(* What the peer held before the handshake is not known. *)
replica_cleared(replica) == NoReplica

(* Handshake; the peer's server runs before and after its datapath is attached.
   The event ring is opened once per session, if there is one. *)
Connect ==
    /\ link.pc = "down"
    /\ link' = [Down EXCEPT !.pc = "top", !.gw = master, !.replica = replica_cleared(link.replica),
                            !.deaf = master \notin attached]
    /\ lost' = {}
    /\ UNCHANGED <<now, boot, master, attached, table, ring, sweep, faults>>

apply_upsert(op, value) ==
    IF op.op = "upsert" /\ value.seen < op.value.seen THEN op ELSE Upsert(value)

(* Event by event: a delete replaces what is pending for its key, an upsert
   replaces a delete and what is not fresher. *)
apply_mutations(pending, events) ==
    [k \in Key |->
        LET mine == {i \in DOMAIN events : events[i].key = k}
            deleted == Max({0} \union {i \in mine : events[i].op = "delete"})
            op == IF deleted = 0 THEN pending[k] ELSE Delete
            upserts == {i \in mine : i > deleted}
            freshest == CHOOSE i \in upserts : \A j \in upserts :
                           \/ events[i].value.seen > events[j].value.seen
                           \/ events[i].value.seen = events[j].value.seen /\ i >= j
        IN  IF upserts = {} THEN op ELSE apply_upsert(op, events[freshest].value)]

(* The role check at the top of the loop, then the events in order. *)
Drain ==
    /\ link.pc = "top"
    /\ IF link.gw # master
       THEN link' = [Down EXCEPT !.replica = link.replica] /\ UNCHANGED ring
       ELSE /\ link' = [link EXCEPT !.pc = "drained", !.old = << >>,
                            !.pending = apply_mutations(@, IF link.deaf THEN link.old ELSE ring[link.gw])]
            /\ ring' = IF link.deaf THEN ring ELSE [ring EXCEPT ![link.gw] = << >>]
    /\ UNCHANGED <<now, boot, master, attached, table, sweep, lost, faults>>

(* Mutant: entries whose refresh the peer has not seen are not sent. *)
reconcile_new_only(replica, current, pending) ==
    [k \in Key |-> IF current[k] = NoFlow
                   THEN IF replica[k] # Unknown THEN Delete ELSE pending[k]
                   ELSE IF replica[k] = Unknown
                        THEN apply_upsert(pending[k], current[k]) ELSE pending[k]]

(* Deletes for what the peer holds and the table does not, upserts for what is
   new or fresher than what the peer acknowledged. *)
reconcile(replica, current, pending) ==
    [k \in Key |-> IF current[k] = NoFlow
                   THEN IF replica[k] # Unknown THEN Delete ELSE pending[k]
                   ELSE IF replica[k] = Unknown \/ current[k].seen > replica[k]
                        THEN apply_upsert(pending[k], current[k]) ELSE pending[k]]

OpsOf(pending, op) == {k \in Key : pending[k].op = op}
UpTo(n, keys) == kSubset(Min({n, Cardinality(keys)}), keys)

(* Up to BatchSize operations in any order, upserts before deletes. *)
take_limited_batch(pending) ==
    UNION {{up \union down : down \in UpTo(BatchSize - Cardinality(up), OpsOf(pending, "delete"))} :
            up \in UpTo(BatchSize, OpsOf(pending, "upsert"))}

Only(pending, keys) == [k \in Key |-> IF k \in keys THEN pending[k] ELSE NoOp]

(* The link after this round's flush: nothing to send, or a batch is taken. *)
Flushed(pending) ==
    IF pending = NoBatch THEN {[link EXCEPT !.pc = "top", !.pending = NoBatch]}
    ELSE {[link EXCEPT !.pc = "sent", !.batch = Only(pending, keys),
                       !.pending = Only(pending, Key \ keys), !.sent = now] :
            keys \in take_limited_batch(pending)}

(* The full reconcile is due: sweep, dump, compare, and force a flush. *)
Reconcile ==
    LET g == link.gw
        swept == delete_flows(table[g], Present(table[g]) \ LiveKeys(table[g], now))
    IN
    /\ link.pc = "drained"
    /\ table' = [table EXCEPT ![g] = swept]
    /\ link' \in Flushed(reconcile(link.replica, swept, link.pending))
    /\ UNCHANGED <<now, boot, master, attached, ring, sweep, lost, faults>>

(* The oldest update is old enough for a batch. *)
Flush ==
    /\ link.pc = "drained" /\ link.pending # NoBatch
    /\ link' \in Flushed(link.pending)
    /\ UNCHANGED <<now, boot, master, attached, table, ring, sweep, lost, faults>>

(* Nothing to send this time round. *)
Pause ==
    /\ link.pc = "drained"
    /\ link' = [link EXCEPT !.pc = "top"]
    /\ UNCHANGED <<now, boot, master, attached, table, ring, sweep, lost, faults>>

(* What the clock of a host reads; it has run for a while when programs start. *)
Clock(g) == now - boot[g] + 1

(* The age when the batch was sent, none for a last-seen of 0. *)
flow_age(value, sent) == IF value.seen = 0 THEN 0 ELSE sent - value.seen

(* The age taken off the clock where it is applied, down to 0. *)
local_last_seen(age, g) == IF age >= Clock(g) THEN 0 ELSE now - age

apply_proto_request(current, batch, sent, g) ==
    delete_flows(
        upsert_flows(current, [k \in Key |->
            IF batch[k].op # "upsert" THEN NoFlow
            ELSE [batch[k].value EXCEPT !.seen = local_last_seen(flow_age(batch[k].value, sent), g)]]),
        OpsOf(batch, "delete"))

(* The peer: a MASTER refuses and ends the stream, a detached datapath accepts
   no operation, an attached one accepts them all. *)
Replicate ==
    LET p == Peer(link.gw) IN
    /\ link.pc = "sent"
    /\ IF p = master
       THEN link' = [Down EXCEPT !.replica = link.replica] /\ UNCHANGED <<table, lost>>
       ELSE /\ link' = [link EXCEPT !.pc = "acked", !.full = p \in attached]
            /\ IF p \in attached
               THEN /\ table' = [table EXCEPT ![p] = apply_proto_request(@, link.batch, link.sent, p)]
                    /\ lost' = lost \ {<<p, k>> : k \in OpsOf(link.batch, "upsert")}
               ELSE UNCHANGED <<table, lost>>
    /\ UNCHANGED <<now, boot, master, attached, ring, sweep, faults>>

requeue_batch(pending, batch) ==
    [k \in Key |-> IF batch[k].op = "upsert" THEN apply_upsert(pending[k], batch[k].value)
                   ELSE IF batch[k].op = "delete" THEN Delete ELSE pending[k]]

Acknowledged(replica, batch) ==
    [k \in Key |-> IF batch[k].op = "upsert" THEN batch[k].value.seen
                   ELSE IF batch[k].op = "delete" THEN Unknown ELSE replica[k]]

(* The peer answers with the operations it accepted: all of them, or none. *)
flow_ack_covers_sent(full) == full

(* An answer for fewer operations than were sent leaves the batch pending. *)
Ack ==
    /\ link.pc = "acked"
    /\ link' = [link EXCEPT !.pc = "top", !.batch = NoBatch, !.sent = 0, !.full = FALSE,
                !.replica = IF flow_ack_covers_sent(link.full)
                            THEN Acknowledged(@, link.batch) ELSE @,
                !.pending = IF flow_ack_covers_sent(link.full) THEN @
                            ELSE requeue_batch(@, link.batch)]
    /\ UNCHANGED <<now, boot, master, attached, table, ring, sweep, lost, faults>>

-----------------------------------------------------------------------------
(* Faults. *)

(* The stream breaks, with or without the batch applied. *)
LinkBreaks ==
    /\ faults < MaxFaults /\ link.pc # "down"
    /\ link' = [Down EXCEPT !.replica = link.replica]
    /\ faults' = faults + 1
    /\ UNCHANGED <<now, boot, master, attached, table, ring, sweep, lost>>

Failover ==
    /\ faults < MaxFaults /\ Peer(master) \in attached
    /\ master' = Peer(master) /\ faults' = faults + 1
    /\ UNCHANGED <<now, boot, attached, table, ring, sweep, link, lost>>

(* The process of one side dies; pinned maps stay. *)
Restart(g) ==
    /\ faults < MaxFaults /\ sweep[g] # {}
    /\ link' = Down
    /\ sweep' = [sweep EXCEPT ![g] = {}]
    /\ faults' = faults + 1
    /\ UNCHANGED <<now, boot, master, attached, table, ring, lost>>

(* The flow maps of a gateway go, with what they hold; a running sweep goes on
   with the old ones. *)
MapsGone(g) ==
    /\ table' = [table EXCEPT ![g] = EmptyTable]
    /\ ring' = [ring EXCEPT ![g] = << >>]
    /\ sweep' = [sweep EXCEPT ![g] = {}]
    /\ lost' = lost \union Lost(g, EmptyTable)

(* The session of a sender whose maps went reads on from the old ring. *)
ReaderLeft(g) ==
    IF link.pc = "down" \/ link.gw # g \/ link.deaf THEN link
    ELSE [link EXCEPT !.deaf = TRUE, !.old = ring[g]]

(* The gateway has no listener any more; process and session stay up. *)
cleanup(g) ==
    /\ faults < MaxFaults /\ g \in attached
    /\ MapsGone(g) /\ attached' = attached \ {g} /\ link' = ReaderLeft(g)
    /\ faults' = faults + 1
    /\ UNCHANGED <<now, boot, master>>

(* The programs are not attached as configured, the refresh of the pinned maps
   fails, or the process is new: the maps are replaced under a running session. *)
apply(g) ==
    /\ faults < MaxFaults /\ g \in attached
    /\ MapsGone(g) /\ link' = ReaderLeft(g)
    /\ faults' = faults + 1
    /\ UNCHANGED <<now, boot, master, attached>>

(* A shutdown of the process removes the maps, a reboot of the host loses them
   and starts the clock anew. *)
Stop(g) ==
    /\ faults < MaxFaults /\ g \in attached
    /\ MapsGone(g) /\ attached' = attached \ {g} /\ link' = Down
    /\ boot' \in {boot, [boot EXCEPT ![g] = now]}
    /\ faults' = faults + 1
    /\ UNCHANGED <<now, master>>

(* The first apply with a listener. *)
attach_prepared(g) ==
    /\ g \notin attached /\ attached' = attached \union {g}
    /\ UNCHANGED <<now, boot, master, table, ring, sweep, link, lost, faults>>

(* The worker's own steps. *)
Worker == Connect \/ Drain \/ Pause \/ Replicate \/ Ack \/ Flush \/ Reconcile

Next ==
    \/ Tick
    \/ \E c \in Conn : IngressHit(c)
    \/ \E c \in Conn, t \in Target : IngressNew(c, t)
    \/ \E c \in Conn, t \in Target : Return(c, t)
    \/ \E g \in Gateway : sweep_scan(g)
    \/ \E g \in Gateway : sweep_remove(g)
    \/ Connect
    \/ Drain
    \/ Reconcile
    \/ Flush
    \/ Pause
    \/ Replicate
    \/ Ack
    \/ LinkBreaks
    \/ Failover
    \/ \E g \in Gateway : Restart(g)
    \/ \E g \in Gateway : Stop(g)
    \/ \E g \in Gateway : cleanup(g)
    \/ \E g \in Gateway : apply(g)
    \/ \E g \in Gateway : attach_prepared(g)

Spec == Init /\ [][Next]_vars

(* The worker loop runs and its reconcile timer comes due again and again. *)
FairSpec == Spec /\ WF_vars(Worker) /\ SF_vars(Reconcile)

-----------------------------------------------------------------------------
(* Held at least as fresh; a last-seen of 0 outlives every time. *)
HeldAt(g, k, seen) ==
    table[g][k] # NoFlow /\ (table[g][k].seen = 0 \/ table[g][k].seen >= seen)

(* What the sender's index says the peer holds (replica), the peer holds at
   least as fresh, as long as the entry is within its timeout, whichever side is
   the MASTER.  Exempt: a key under way, and a key that the peer lost alive: with
   its expired other half, in a sweep that had judged it before replication
   refreshed it, or with its maps, replaced or removed under the session. *)
AckedIsHeld ==
    link.pc # "down" =>
        \A k \in Key :
            \/ link.replica[k] = Unknown
            \/ now - link.replica[k] > Timeout
            \/ HeldAt(Peer(link.gw), k, link.replica[k])
            \/ link.batch[k] # NoOp
            \/ <<Peer(link.gw), k>> \in lost

(* Packets, replicated batches and reconciles never make a flow older than the
   table already knows it: last-seen only moves forward until the flow is
   removed. *)
NeverRegresses ==
    [][\A g \in Gateway, k \in Key :
          table'[g][k] # NoFlow => table'[g][k].seen >= table[g][k].seen]_vars

(* Once faults and new packets stop, a BACKUP with attached maps holds every
   live flow of the MASTER, as fresh as the MASTER has it.  Exempt: a flow of
   last-seen 0, and a flow that the BACKUP lost alive during the session and
   that has had no packet since it was acknowledged (the index keeps it from
   being sent again). *)
EventuallyReplicated ==
    <>[](Peer(master) \in attached =>
            \A k \in LiveKeys(table[master], now) :
                \/ table[master][k].seen = 0
                \/ HeldAt(Peer(master), k, table[master][k].seen)
                \/ /\ <<Peer(master), k>> \in lost
                   /\ table[master][k].seen <= link.replica[k])
=============================================================================
