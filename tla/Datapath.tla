------------------------------ MODULE Datapath ------------------------------
(***************************************************************************)
(* One listener of the native datapath on one gateway: the maps userspace  *)
(* writes (listener, targets, consistent-hash buckets, in that order), the *)
(* selection of a target for a new flow, the flow table with its counters  *)
(* of active flows, the sweeps, the entries xSync replicates into it, and  *)
(* the flow snapshot that survives a restart (edge-lb-ebpf/src/main.rs,    *)
(* linux/native_dnat.rs, provider/native/flow_persistence.rs).  Times are  *)
(* the wall clock's; a last-seen is on the clock of the host, which starts *)
(* with it: 0 stands for the code's 0, which never expires.                *)
(***************************************************************************)
EXTENDS FlowTable, Sequences

CONSTANTS
    Selector,    \* selectors the listener may have
    Weight,      \* weights a target group may carry
    WeightCap,   \* u16::MAX: what the target map can hold
    Bucket,      \* 0 .. NATIVE_CONSISTENT_HASH_BUCKETS - 1
    Score,       \* HRW score of a target in a bucket
    HashOf,      \* flow hash of a connection
    CursorSize,  \* the round-robin cursor wraps here
    MinRemaining, MaxRecords, \* settings of the flow persistence
    MaxTime,     \* bound on the clock
    MaxEvents    \* bound on changes, restarts, saves, late writes, replicated batches and xSync sweeps together

ASSUME DatapathAssumption ==
    /\ Timeout \in Nat \ {0} /\ WeightCap \in Nat \ {0} /\ Weight \subseteq Nat \ {0} /\ Weight # {}
    /\ CursorSize \in Nat \ {0} /\ Selector # {}
    /\ HashOf \in [Conn -> Nat] /\ Score \in [Bucket \X Target -> Nat]
    /\ IsFiniteSet(Conn) /\ IsFiniteSet(Target) /\ Target # {} /\ NoTarget \notin Target
    /\ IsFiniteSet(Bucket) /\ Bucket # {} /\ Bucket = 0..Cardinality(Bucket) - 1

VARIABLES
    now,
    boot,      \* when the clock of the host started
    config,    \* targets of the listener's group, in order: address and weight
    nok,       \* targets observed unhealthy
    select,    \* the listener's selector
    listener,  \* NATIVE_LISTENERS: target_count, weight_total
    slots,     \* NATIVE_TARGETS: address and clamped weight per target id
    buckets,   \* NATIVE_CHASH_BUCKETS: target id per bucket
    sync,      \* the update of the maps: "idle", "targets", "buckets", "detached"
    current,   \* the running or last update began after the last change
    cursor,    \* NATIVE_RR_COUNTERS
    table,     \* NATIVE_FLOWS
    loads,     \* NATIVE_ACTIVE_FLOWS
    late,      \* a counter update between its read and its write on another CPU
    sweep,     \* a sweep with refreshed counters between its scan and its end
    xsweep,    \* keys a sweep of xSync found expired and has yet to remove
    file,      \* the snapshot: pairs with the age of their last packet
    restored,  \* flow_restore_done
    packet,    \* history: last packet of each connection, or the last-seen replication told
    ageless,   \* history: connections given a last-seen of 0 since their last packet
    told,      \* history: connections the peer wrote since their last packet
    drift,     \* history: a race may have unsettled the counters
    events     \* what MaxEvents bounds, so far

maps == <<listener, slots, buckets, sync, current>>
history == <<packet, ageless, told>>
flows == <<cursor, table, loads, late, history, drift>>
sweeps == <<sweep, xsweep>>
vars == <<now, boot, config, nok, select, maps, flows, sweeps, file, restored, events>>

Configs == {c \in UNION {[1..n -> [address : Target, weight : Weight]] : n \in 1..Cardinality(Target)} :
              \A i, j \in DOMAIN c : i # j => c[i].address # c[j].address}
Id == 0..Cardinality(Target) - 1
NoSlot == Cardinality(Target)    \* MAX_TARGETS_PER_LISTENER: nothing selected
NoEntry == [address |-> NoTarget, weight |-> 0]
NoLoads == [i \in Id |-> 0]
NoLate == [id |-> NoSlot, load |-> 0]
NoSweep == [on |-> FALSE, gone |-> {}, loads |-> NoLoads]
NoFile == [saved |-> 0, pairs |-> {}]

-----------------------------------------------------------------------------
(* The maps as userspace computes them. *)

native_target_is_active(t) == t.address \notin nok

(* Weights added up in order: the sum of those below each id. *)
Cumulated(w) ==
    LET sum[n \in 0..NoSlot] == IF n = 0 THEN 0 ELSE sum[n - 1] + w[n - 1] IN sum

(* The listener's weight is the sum over its active targets. *)
ActiveWeight ==
    [i \in Id |-> IF i < Len(config) /\ native_target_is_active(config[i + 1])
                  THEN config[i + 1].weight ELSE 0]
WeightTotal == Cumulated(ActiveWeight)[Len(config)]
Listener == [count |-> Len(config), total |-> WeightTotal]

(* Active targets keep their position as id; everything else is removed. *)
Targets ==
    [i \in Id |-> IF i < Len(config) /\ native_target_is_active(config[i + 1])
                  THEN [address |-> config[i + 1].address, weight |-> Min({config[i + 1].weight, WeightCap})]
                  ELSE NoEntry]

(* Highest score, the first of equals. *)
choose_consistent_hash_bucket_target(b, ids) ==
    IF ids = {} THEN NoSlot
    ELSE CHOOSE i \in ids : \A j \in ids :
            LET si == Score[<<b, config[i + 1].address>>]
                sj == Score[<<b, config[j + 1].address>>]
            IN  si > sj \/ (si = sj /\ i <= j)

desired_consistent_hash_buckets ==
    LET ids == {i \in Id : i < Len(config) /\ native_target_is_active(config[i + 1])}
    IN  [b \in Bucket |-> IF select = "consistent_hash"
                          THEN choose_consistent_hash_bucket_target(b, ids) ELSE NoSlot]

-----------------------------------------------------------------------------
(* The selection of a new flow's target. *)

target_slot_is_usable(i) == slots[i] # NoEntry /\ slots[i].weight > 0

first_usable_target(count) ==
    LET usable == {i \in Id : i < count /\ target_slot_is_usable(i)}
    IN  IF usable = {} THEN NoSlot ELSE Min(usable)

(* Mutant: the rotation gives up at the first unusable slot. *)
select_round_robin_once(at, count) ==
    IF target_slot_is_usable(at % count) THEN at % count ELSE NoSlot

(* The first usable slot from the cursor on. *)
select_round_robin(at, count) ==
    LET steps == {o \in 0..count - 1 : target_slot_is_usable((at + o) % count)}
    IN  IF steps = {} THEN NoSlot ELSE (at + Min(steps)) % count

(* The slot whose interval of the cumulated weights holds hash % weight_total. *)
Weigh(i) == IF target_slot_is_usable(i) THEN slots[i].weight ELSE 0
WeightBelow(i) == Cumulated([j \in Id |-> Weigh(j)])[i]
select_weighted_hash(hash, count) ==
    LET hit == {i \in Id : i < count /\ hash % listener.total >= WeightBelow(i)
                             /\ hash % listener.total < WeightBelow(i) + Weigh(i)}
    IN  IF hit = {} THEN NoSlot ELSE Min(hit)

select_hash_slot(hash, count) ==
    IF target_slot_is_usable(hash % count) THEN hash % count ELSE first_usable_target(count)

(* Two folds of the client address, then the first usable slot. *)
select_persist_slot(client, count) ==
    LET primary == client % count
        secondary == (client \div 2) % count
    IN  IF target_slot_is_usable(primary) THEN primary
        ELSE IF target_slot_is_usable(secondary) THEN secondary ELSE first_usable_target(count)

select_consistent_hash(hash, count) ==
    LET i == buckets[hash % Cardinality(Bucket)]
    IN  IF i < count /\ target_slot_is_usable(i) THEN i ELSE first_usable_target(count)

(* The least loaded usable slot, the first one from the cursor on among equals. *)
select_least_connections(at, count) ==
    LET At(o) == (at + o) % count
        steps == {o \in 0..count - 1 : target_slot_is_usable(At(o))}
        best == {o \in steps : \A p \in steps : loads[At(o)] <= loads[At(p)]}
    IN  IF best = {} THEN NoSlot ELSE At(Min(best))

AllSelectors == {"rr", "priority", "hash", "persist", "consistent_hash", "lc"}
UsesCursor(s) == s \in {"rr", "priority", "lc"}

select_target(s, hash, at) ==
    LET count == Min({listener.count, NoSlot}) IN
    IF count = 0 \/ listener.total = 0 THEN NoSlot
    ELSE CASE s = "priority" -> select_weighted_hash(at, count)
           [] s = "hash" -> select_hash_slot(hash, count)
           [] s = "persist" -> select_persist_slot(hash, count)
           [] s = "consistent_hash" -> select_consistent_hash(hash, count)
           [] s = "lc" -> select_least_connections(at, count)
           [] OTHER -> select_round_robin(at, count)

-----------------------------------------------------------------------------
(* Flow counters. *)

PairsAt(t, i) == {PairOf(k, t[k]) : k \in {x \in Present(t) : t[x].slot = i}}
LoadsOf(t) == [i \in Id |-> Cardinality(PairsAt(t, i))]

(* Keys whose pair is not whole: the other key is gone or tells another target or id. *)
Orphans(t) == {k \in Present(t) : \E x \in PairOf(k, t[k]) :
                  t[x] = NoFlow \/ t[x].target # t[k].target \/ t[x].slot # t[k].slot}

Adjusted(load, delta) == IF load + delta < 0 THEN 0 ELSE load + delta

(* Read and write of a counter are two helper calls: the write may come late. *)
adjust_active_flows(l, i, delta) ==
    \/ loads' = [l EXCEPT ![i] = Adjusted(@, delta)] /\ UNCHANGED <<late, events>>
    \/ /\ late = NoLate /\ loads' = l /\ events < MaxEvents /\ events' = events + 1
       /\ late' = [id |-> i, load |-> Adjusted(l[i], delta)]

Unsettled == drift \/ sweep.on \/ late # NoLate \/ late' # NoLate

LateWrite ==
    /\ late # NoLate
    /\ loads' = [loads EXCEPT ![late.id] = late.load] /\ late' = NoLate
    /\ UNCHANGED <<now, boot, config, nok, select, maps, cursor, table, sweeps, file, restored, history,
                   drift, events>>

-----------------------------------------------------------------------------
(* Packets. *)

Running == sync # "detached"

(* Connections with an entry of last-seen 0. *)
Ageless(t) == {k[1] : k \in {x \in Present(t) : t[x].seen = 0}}

Seen(c) ==
    /\ packet' = [packet EXCEPT ![c] = now] /\ told' = told \ {c}
    /\ ageless' = (ageless \ {c}) \union Ageless(table')

(* A packet of a live flow keeps the cached target. *)
IngressHit(c) ==
    /\ Running /\ Forward(c) \in LiveKeys(table, now)
    /\ table' = Refresh(table, Forward(c), now) /\ Seen(c)
    /\ drift' = (drift \/ Orphans(table) # {})
    /\ UNCHANGED <<now, boot, config, nok, select, maps, cursor, loads, late, sweeps, file, restored, events>>

(* An expired flow of the connection goes first, with its counter. *)
IngressNew(c) ==
    LET k == Forward(c)
        old == table[k]
        freed == IF old = NoFlow THEN loads ELSE [loads EXCEPT ![old.slot] = Adjusted(@, -1)]
        cleared == IF old = NoFlow THEN table ELSE RemovePair(table, k)
        i == select_target(select, HashOf[c], cursor)
    IN
    /\ Running /\ k \notin LiveKeys(table, now)
    /\ cursor' = IF UsesCursor(select) /\ listener.count > 0 /\ listener.total > 0
                 THEN (cursor + 1) % CursorSize ELSE cursor
    /\ IF i # NoSlot /\ target_slot_is_usable(i)
       THEN /\ table' = NewPair(cleared, c, [target |-> slots[i].address, slot |-> i, seen |-> now])
            /\ adjust_active_flows(freed, i, 1) /\ Seen(c)
       ELSE table' = cleared /\ loads' = freed /\ UNCHANGED <<late, history, events>>
    /\ drift' = (Unsettled \/ Orphans(table) # {})
    /\ UNCHANGED <<now, boot, config, nok, select, maps, sweeps, file, restored>>

(* A reply of target t. *)
Return(c, t) ==
    LET k == Backward(c, t)
        old == table[k]
    IN
    /\ Running /\ old # NoFlow
    /\ IF flow_expired(old, now)
       THEN /\ table' = RemovePair(table, k)
            /\ loads' = [loads EXCEPT ![old.slot] = Adjusted(@, -1)]
            /\ drift' = (drift \/ sweep.on \/ late # NoLate \/ Orphans(table) # {})
            /\ UNCHANGED history
       ELSE /\ table' = Refresh(table, k, now) /\ Seen(c) /\ UNCHANGED loads
            /\ drift' = (drift \/ Orphans(table) # {})
    /\ table' # table
    /\ UNCHANGED <<now, boot, config, nok, select, maps, cursor, late, sweeps, file, restored, events>>

-----------------------------------------------------------------------------
(* The sweep of the reconcile loop, with refreshed counters. *)

sweep_flows_and_refresh_loads ==
    /\ Running /\ ~sweep.on
    /\ LET gone == Present(table) \ LiveKeys(table, now) IN
       sweep' = [on |-> TRUE, gone |-> gone, loads |-> LoadsOf(delete_flows(table, gone))]
    /\ sweep'.gone # {} \/ sweep'.loads # loads
    /\ drift' = FALSE
    /\ UNCHANGED <<now, boot, config, nok, select, maps, cursor, table, loads, late, xsweep, file, restored,
                   history, events>>

(* Mutant: a counter missing from the new count is kept. *)
replace_active_flows_keeps(old, new) == [i \in Id |-> IF new[i] = 0 THEN old[i] ELSE new[i]]

(* Counters without a flow are removed, the others replaced. *)
replace_active_flows(old, new) == new

sweep_finish ==
    /\ sweep.on
    /\ table' = delete_flows(table, sweep.gone)
    /\ loads' = replace_active_flows(loads, sweep.loads)
    /\ drift' = (drift \/ late # NoLate)
    /\ sweep' = NoSweep
    /\ UNCHANGED <<now, boot, config, nok, select, maps, cursor, late, xsweep, file, restored, history, events>>

(* xSync sweeps as well, before it compares tables; it leaves the counters
   alone unless the listener selects by them. *)
sweep_flows ==
    LET gone == Present(table) \ LiveKeys(table, now) IN
    /\ Running /\ select # "lc" /\ xsweep = {} /\ gone # {}
    /\ events < MaxEvents /\ events' = events + 1 /\ xsweep' = gone
    /\ UNCHANGED <<now, boot, config, nok, select, maps, flows, sweep, file, restored>>

sweep_flows_finish ==
    /\ xsweep # {} /\ xsweep' = {}
    /\ table' = delete_flows(table, xsweep)
    /\ drift' = (drift \/ table' # table)
    /\ UNCHANGED <<now, boot, config, nok, select, maps, cursor, loads, late, history, sweep, file, restored,
                   events>>

-----------------------------------------------------------------------------
(* Batches of the peer (FlowSync), which arrive while this gateway is the
   BACKUP.  They write keys, one or both of a connection, and no counter. *)

KeysOf(c, t) == SUBSET {Forward(c), Backward(c, t)} \ {{}}

(* The entries carry the peer's target id, and a last-seen on this host's
   clock: 0 when they are older than the clock. *)
replicated_upsert(c, t) ==
    /\ Running /\ events < MaxEvents /\ events' = events + 1
    /\ \E keys \in KeysOf(c, t), i \in Id, s \in {0} \union boot..now :
          /\ table' = upsert_flows(table, [k \in Key |->
                         IF k \in keys THEN [target |-> t, slot |-> i, seen |-> s] ELSE NoFlow])
          /\ packet' = [packet EXCEPT ![c] = Max({@, s})]
    /\ table' # table /\ drift' = TRUE
    /\ told' = told \union {c} /\ ageless' = ageless \union Ageless(table')
    /\ UNCHANGED <<now, boot, config, nok, select, maps, cursor, loads, late, sweeps, file, restored>>

replicated_delete(c, t) ==
    /\ Running /\ events < MaxEvents /\ events' = events + 1
    /\ \E keys \in KeysOf(c, t) : table' = delete_flows(table, keys)
    /\ table' # table /\ drift' = TRUE
    /\ UNCHANGED <<now, boot, config, nok, select, maps, cursor, loads, late, history, sweeps, file, restored>>

-----------------------------------------------------------------------------
(* Configuration and health. *)

Change ==
    /\ events < MaxEvents /\ events' = events + 1 /\ current' = FALSE
    /\ \/ config' \in Configs \ {config} /\ UNCHANGED nok
       \/ nok' \in SUBSET Target \ {nok} /\ UNCHANGED config
    /\ UNCHANGED <<now, boot, select, listener, slots, buckets, sync, flows, sweeps, file, restored>>

sync_listener_map ==
    /\ sync = "idle" /\ ~current
    /\ listener' = Listener /\ sync' = "targets" /\ current' = TRUE
    /\ UNCHANGED <<now, boot, config, nok, select, slots, buckets, flows, sweeps, file, restored, events>>

sync_target_map ==
    /\ sync = "targets" /\ slots' = Targets /\ sync' = "buckets"
    /\ UNCHANGED <<now, boot, config, nok, select, listener, buckets, current, flows, sweeps, file,
                   restored, events>>

sync_consistent_hash_bucket_map ==
    /\ sync = "buckets" /\ buckets' = desired_consistent_hash_buckets /\ sync' = "idle"
    /\ UNCHANGED <<now, boot, config, nok, select, listener, slots, current, flows, sweeps, file,
                   restored, events>>

-----------------------------------------------------------------------------
(* The snapshot. *)

(* What the clock of the host reads: it has run for a while when programs start. *)
Clock == now - boot + 1

(* An entry of last-seen 0 has no age. *)
flow_age(value) == IF value.seen = 0 THEN 0 ELSE now - value.seen
remaining_ttl_ns(age) == IF age > Timeout THEN 0 ELSE Timeout - age

(* Pairs with both keys and enough lifetime left; the younger age counts. *)
pair_from_entries ==
    LET kept == {k \in Present(table) : remaining_ttl_ns(flow_age(table[k])) >= MinRemaining}
        whole == {p \in Conn \X Target :
                    /\ {Forward(p[1]), Backward(p[1], p[2])} \subseteq kept
                    /\ table[Forward(p[1])].target = p[2]}
    IN  {[conn |-> p[1], target |-> p[2],
          age |-> Min({flow_age(table[Forward(p[1])]), flow_age(table[Backward(p[1], p[2])])})] : p \in whole}

(* The youngest pairs, at most MaxRecords. *)
collect_snapshot_pairs ==
    LET n == Min({MaxRecords, Cardinality(pair_from_entries)})
    IN  {s \in kSubset(n, pair_from_entries) :
            \A p \in s, q \in pair_from_entries \ s : p.age <= q.age}

(* Ages instead of monotonic times, and the time of the save. *)
encode_snapshot(pairs) == [saved |-> now, pairs |-> pairs]

(* An empty table never replaces an existing file. *)
write_snapshot(pairs) == IF pairs = {} /\ file # NoFile THEN file ELSE encode_snapshot(pairs)

Save ==
    /\ Running
    /\ \E pairs \in collect_snapshot_pairs : file' = write_snapshot(pairs)
    /\ file' # file /\ events < MaxEvents /\ events' = events + 1
    /\ UNCHANGED <<now, boot, config, nok, select, maps, flows, sweeps, restored>>

(* The maps go, with what they hold; a new attachment writes all maps before
   its programs run. *)
MapsGone ==
    /\ sync' = "detached"
    /\ table' = EmptyTable /\ loads' = NoLoads /\ late' = NoLate /\ sweep' = NoSweep /\ xsweep' = {}
    /\ cursor' = 0 /\ drift' = FALSE

(* The process ends, with a last snapshot when it is asked to stop, or the host
   with it, whose clock then starts anew. *)
Restart ==
    /\ Running /\ events < MaxEvents /\ events' = events + 1
    /\ \/ UNCHANGED file
       \/ \E pairs \in collect_snapshot_pairs : file' = write_snapshot(pairs)
    /\ boot' \in {boot, now}
    /\ MapsGone /\ restored' = FALSE
    /\ UNCHANGED <<now, config, nok, select, listener, slots, buckets, current, history>>

(* The programs are not attached as configured, the refresh of the pinned maps
   fails, or there is no listener for a while: the maps go under a running process. *)
apply ==
    /\ Running /\ ~sweep.on /\ events < MaxEvents /\ events' = events + 1
    /\ MapsGone
    /\ UNCHANGED <<now, boot, config, nok, select, listener, slots, buckets, current, file, restored, history>>

attach_prepared ==
    /\ sync = "detached" /\ sync' = "idle" /\ current' = TRUE
    /\ listener' = Listener /\ slots' = Targets /\ buckets' = desired_consistent_hash_buckets
    /\ UNCHANGED <<now, boot, config, nok, select, flows, sweeps, file, restored, events>>

(* Mutant: the time between the save and the restore is left out. *)
restored_age_ignores_elapsed(p) == p.age

(* The age at the save plus the time since then. *)
restored_age(p) == p.age + (now - file.saved)

(* A pair still within its timeout whose target the listener still has, with
   the id the target has now; its age is taken off the clock, down to 0. *)
remap_value(p) ==
    LET at == {i \in Id : i < Len(config) /\ config[i + 1].address = p.target}
    IN  IF at = {} \/ restored_age(p) >= Timeout THEN NoFlow
        ELSE [target |-> p.target, slot |-> Min(at),
              seen |-> IF restored_age(p) >= Clock THEN 0 ELSE now - restored_age(p)]

restore_entries_from_snapshot ==
    [k \in Key |->
        LET mine == {p \in file.pairs : k \in {Forward(p.conn), Backward(p.conn, p.target)}}
        IN  IF mine = {} THEN NoFlow ELSE remap_value(CHOOSE p \in mine : TRUE)]

(* After an apply, once: written where fresher, then swept and counted. *)
restore_on_start ==
    /\ sync = "idle" /\ ~restored /\ file # NoFile
    /\ LET all == upsert_flows(table, restore_entries_from_snapshot)
           live == delete_flows(all, Present(all) \ LiveKeys(all, now))
       IN  /\ table' = live /\ loads' = replace_active_flows(loads, LoadsOf(live))
           /\ ageless' = ageless \union Ageless(live)
    /\ restored' = TRUE
    /\ drift' = (sweep.on \/ late # NoLate)
    /\ UNCHANGED <<now, boot, config, nok, select, maps, cursor, late, sweeps, file, packet, told, events>>

-----------------------------------------------------------------------------
Tick ==
    /\ now < MaxTime /\ now' = now + 1
    /\ UNCHANGED <<boot, config, nok, select, maps, flows, sweeps, file, restored, events>>

Init ==
    /\ now = 1 /\ boot = 1 /\ nok = {} /\ select \in Selector
    /\ config = CHOOSE c \in Configs : Len(c) = Cardinality(Target)
    /\ listener = Listener /\ slots = Targets /\ buckets = desired_consistent_hash_buckets
    /\ sync = "idle" /\ current = TRUE
    /\ cursor = 0 /\ table = EmptyTable /\ loads = NoLoads /\ late = NoLate
    /\ sweep = NoSweep /\ xsweep = {} /\ file = NoFile /\ restored = FALSE
    /\ packet = [c \in Conn |-> 0] /\ ageless = {} /\ told = {} /\ drift = FALSE /\ events = 0

Next ==
    \/ Tick \/ LateWrite
    \/ sweep_flows_and_refresh_loads \/ sweep_finish \/ sweep_flows \/ sweep_flows_finish
    \/ \E c \in Conn : IngressHit(c) \/ IngressNew(c) \/ \E t \in Target : Return(c, t)
    \/ \E c \in Conn, t \in Target : replicated_upsert(c, t) \/ replicated_delete(c, t)
    \/ Change \/ sync_listener_map \/ sync_target_map \/ sync_consistent_hash_bucket_map
    \/ Save \/ Restart \/ apply \/ attach_prepared \/ restore_on_start

Spec == Init /\ [][Next]_vars

-----------------------------------------------------------------------------
(* Properties. *)

(* Ids in the maps are target positions; counters never go negative. *)
TypeOK ==
    /\ config \in Configs /\ nok \subseteq Target
    /\ slots \in [Id -> [address : Target, weight : 1..WeightCap] \union {NoEntry}]
    /\ buckets \in [Bucket -> Id \union {NoSlot}]
    /\ loads \in [Id -> Nat] /\ cursor \in 0..CursorSize - 1
    /\ \A k \in Present(table) : table[k].slot \in Id

(* Once the three maps are written, every selector finds a healthy target for
   every hash and every cursor whenever the listener has one. *)
SettledSelects ==
    sync = "idle" /\ current /\ (\E i \in DOMAIN config : config[i].address \notin nok) =>
        \A s \in AllSelectors, n \in 0..2 * CursorSize - 1 :
            LET chosen == select_target(s, n, n)
            IN  chosen # NoSlot /\ slots[chosen].address \notin nok

(* The counters of active flows are exact, unless something that leaves them
   behind came since the last refreshing sweep: a late write, a packet during
   that sweep, half a pair, a batch of the peer, a sweep of xSync.  The next
   refreshing sweep that nothing disturbs makes them exact again. *)
LoadsSettle == ~drift /\ ~sweep.on /\ late = NoLate => loads = LoadsOf(table)

(* Nothing keeps a flow alive longer than the timeout after its last packet here,
   or the last-seen that replication told: not a sweep, a restart, a reboot or a
   restored snapshot.  Exempt: a flow that got a last-seen of 0 because it was
   older than the clock of the host; it lives until its next packet. *)
NoFlowOutlivesTimeout ==
    \A k \in LiveKeys(table, now) : now - packet[k[1]] <= Timeout \/ k[1] \in ageless

KeepsTarget ==
    \A c \in Conn \ (told' \union {k[1] : k \in Orphans(table)}) :
        Forward(c) \in LiveKeys(table, now) /\ Forward(c) \in LiveKeys(table', now')
            => table'[Forward(c)].target = table[Forward(c)].target

(* A live flow keeps the target it was given, through changes of the listener,
   sweeps, restarts and restores, unless the peer's batches wrote it since its
   last packet or a reverse key without its forward key claims it. *)
FlowKeepsTarget == [][KeepsTarget]_vars
=============================================================================
