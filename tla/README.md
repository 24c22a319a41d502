# edge-lb in TLA+

A verification project for edge-lb, a layer-4 load balancer whose gateways run
in active/standby (HA) pairs. Paths below are relative to the repository; the
Rust crate is `edge-lb/src`.

## 1. Inventory

| Component | State it keeps | Operations | Talks to | What makes it correct |
|---|---|---|---|---|
| Business configuration writes (`storage/proxy_config.rs`, `api/handlers/{proxy_config,listeners,target_groups}.rs`) | listener and target-group documents | create, update, delete, import, each a closure run by `mutate` | document store; forwards to the peer when BACKUP | no lost update, no dangling reference, no write in the wrong role |
| Business configuration replication (`storage/proxy_replication.rs`, `runtime/proxy_replication.rs`) | cursor (sequence, source, pairing, digest, pending, last error), snapshot being sent, baseline flag | restamp, send, receive, record result | peer's replica endpoint, document store | cursor describes content; replica is a MASTER's snapshot; acknowledged means replicated; eventual convergence |
| Document store (`storage/repository.rs`) | documents with revisions, one SQLite thread | get, get many, put, compare-and-put, list, prune | every component | compare-and-put fails on any write since the read |
| HA pairing and active selection (`runtime/ha.rs`, `control/peer.rs`, `config/mod.rs`) | HA configuration, session token, active gateway | pair, accept pairing, unpair, save, select active | gRPC peer, document store | both sides agree on token and active gateway or replication stays shut |
| HA switchover and VIP ownership (`provider/native/ha.rs`, `api/handlers/ha.rs`) | local role, VIP addresses | switch, notify, restore | peer API, host network | at most one owner after a completed switch; a failed one restores |
| BFD and election (`runtime/bfd.rs`) | session state, discriminators, election queue | receive, expire, elect | UDP peer, switchover | a dead MASTER is replaced; a live one is not |
| API server (`api/server.rs`, `runtime/ha_write.rs`) | bounded queues, 4 ordinary workers, 1 reserved replica worker | accept, queue, refuse, forward | handlers, peer | replica requests never wait behind forwarded writes |
| Gateway reconcile loop (`role/gateway.rs`, `provider/native/store.rs`) | dirty flag, loaded file version, known nodes, kernel objects | reload, merge subscriptions, debounce, drift check, apply, automations | datapath maps, probe worker | what is committed ends up in the kernel |
| Health probes (`provider/native/probe.rs`) | failure counters, verdict per target | schedule, probe, count, publish, refresh maps | reconcile loop, datapath maps | a late answer is not applied to another configuration |
| Native DNAT datapath (`edge-lb-ebpf`, `linux/native_dnat.rs`) | listener, target, bucket, cursor, load and flow maps | select, insert, refresh, expire, sweep | reconcile loop, flow sync | a healthy target is found; a flow keeps its target; counters settle |
| Connection sync, flow persistence (`provider/native/{xsync,flow_persistence}.rs`) | pending batch, replica set, snapshot file | drain, reconcile, flush, apply, ack, save, restore | peer, flow map | a failover or a restart keeps established flows and revives none |
| Discovery stream (`control/{gateway,backend,registry,snapshot}.rs`) | registry, streams, last snapshot of each gateway | subscribe, push, ack, reject, expire | backends over gRPC | a backend applies the latest combination |
| Backend role (`role/backend.rs`, `linux/{net,backend_redirect}.rs`) | VXLAN device, peers, redirect maps | apply, heal | discovery, netlink, tc | what is remembered as applied is on the host |
| Redirect admission and publication (`linux/redirect`) | token, routes with leases | observe, plan, publish, invalidate | kernel, target maps | no packet leaves on another target's path; stale only within a lease |
| Notifications, automations (`notify`, `automation`) | channel and template documents, event queue, delivery history | save, forward, replicate, dispatch, retry, prune | webhooks, peer, document store | success means done on both sides; nothing waits for ever |
| CLI, metrics, installation, verification, UI, tools | none of their own | rendering, one-shot commands | - | not modelled, see section 8 |

The hard behaviour is in the HA pair: API workers, the sync thread, the replica
worker, BFD elections, pairing and switchover all write the same five documents
on two machines, over requests that can time out after they were executed, with
crashes anywhere. The document store's compare-and-put, the role check inside
the transaction and the version rules of the receiver are what keeps it
consistent; none of it is visible to a unit test that runs one thread at a time.
The second source of trouble is state kept twice: committed configuration and kernel
maps, the flow table and its replica, a lease and the host it describes, a snapshot
and what was programmed from it, each updated in several steps that can fail.
The hazards, each with its source line and the properties that would catch it,
are listed in `PROJECT.json`.

## 2. Modules

| Module | What it is |
|---|---|
| `ProxyConfig` | listeners, target groups, the eight API operations (create and update of a target group are one upsert), the rejection rules, the shared projection and its digest |
| `ProxyReplication` | the documents of both gateways, the three kinds of threads, the network, HA control, crashes; the properties |
| `MCProxyReplication` | instances for TLC |
| `ProxyReplicationProofs` | types, the inductive invariant, what a step can do; provenance of versions, receipts and tokens; nine theorems |
| `HaFailover` | VIP ownership: BFD sessions, elections, switchover, activation of the peer, watch loop, shutdown, crashes and cut links; the properties |
| `MCHaFailover` | instances for TLC |
| `HaFailoverProofs` | types, waits, history of elections and ownership, three theorems |
| `ProbeVerdict` | failure counting and verdict of a health probe |
| `GatewayLoop` | the gateway's main loop, the API worker that marks it dirty, the probe worker, and the maps both write |
| `FlowTable` | a flow table with forward and reverse keys: refresh, insert, remove, apply a replicated entry |
| `FlowSync` | two gateways with their clocks, tables and event rings, the xSync stream between them, sweeps, maps that go under a session |
| `FlowSyncProofs` | ages in tables, rings and batches, what the peer holds; three theorems |
| `Datapath` | one listener on one gateway: the three maps, every selector, flows with load counters, the peer's batches, both kinds of sweep, snapshot and restore |
| `DatapathProofs` | ages, pairs, counters, the snapshot and the selectors; five theorems |
| `Redirect` | the redirect worker, its leases and both classifiers, on a host that changes |
| `GatewayProofs` | the redirect cache: tokens and leases of what is observed, planned and published; the reconcile loop: what is written at each of its places; five theorems |
| `BackendHost` | the kernel state of a backend and the calls that change it |
| `BackendSync` | registry and streams of the gateways, a backend that combines, applies, acknowledges or rejects |
| `BackendSyncProofs` | streams and their receivers, the apply lock, host and memory of the backend; three theorems |
| `PeerWrites` | API worker pools of both gateways, the writes of channels and templates with forwarding, replication and generated groups, and the HA status and failover requests that wait for the peer |
| `PeerWritesProofs` | requests and their threads, what an answer means, who can go on; three theorems |
| `Documents` | abstract specification of the document repository: every call is atomic |
| `DocumentStore` | the storage thread: command channel, transactions in statements, revisions, failures, restart |
| `Notifier` | event queue, dispatcher and delivery history, as callers of the store |
| `NotifierProofs` | the refinement of `Documents`, the order of delivery records; three theorems |
| `MC...` | the instances of each for TLC |

*Composition.* `ProxyReplication` extends `ProxyConfig`; the proof modules extend
their specification. `ProxyReplication` lets the active selection change at any time
to either gateway, so what it shows holds for every behaviour of `HaFailover`; in the
same way `FlowSync` and `PeerWrites` take a role change as one step. `FlowSync` and
`Datapath` extend `FlowTable`, `GatewayLoop` extends `ProbeVerdict`, `BackendSync`
extends `BackendHost`. `Notifier` extends `DocumentStore`, and the property
`ImplementsDocuments` instantiates `Documents` with the committed documents, the
recorded revisions and the callers' commands: it is what entitles `ProxyReplication`
and `HaFailover` to read and commit documents in one step.

## 3. How the model corresponds to the code

**Documents.** `docs[n]` is gateway n's SQLite database: `proxy` stands for the
two documents `listeners/config` and `target_groups/config`, which `commit`
always writes together; `sync` is `SyncState`; `ha`, `secret` and `active` are
the HA configuration (enabled or not), the session token that doubles as
pairing id, and the active gateway. A gateway without stored business documents
uses those of its configuration file (`config`).

**Transactions.** `get_many` reads all documents in one transaction (`Read`),
the caller decides, and `compare_and_put_guarded` commits only if no document
it read, written or merely guarded, has a new revision. A revision is only ever
compared for equality, so the model keeps the set of keys *not* written since
the read (`seen`); every write removes its keys from everybody's set. Between
read and commit any other thread may run. After `MaxTries` losses (16 in the
code) the operation gives up.

**API workers.** `MutateBegin` is a request that reached `mutate` on this
gateway, directly or forwarded; `MutateRetry`, `MutateCommit` and
`MutateConflict` are its loop. A request that ends at its first read leaves no
trace and is not a step. The edit closures are `edit`, their rejections `rejected`.

**Sync thread.** `OutgoingNone`, `OutgoingStale`, `RestampCommit`,
`RestampConflict`, `OutgoingSkip` and `OutgoingSend` are the branches of
`outgoing_on` and `sync_once`; `Post` loads the token and sends; `Timeout` is
the client's deadline, after which the request may still be executed;
`RecordRead`, `RecordCommit`, `RecordConflict` are `record_result_on`.

**Replica worker.** `Deliver` authenticates and validates, `ReceiveRead` applies
the rules of `receive_on`, `ReceiveCommit` installs, `ReceiveConflict` retries.

**HA control.** `SwitchActive` is `write_active_gateway`, allowed at any moment
and towards either gateway: the model does not trust the election. `PutHaConfig`
toggles HA. The first MASTER of a pairing is either gateway
(`initial_active_gateway_key` decides in the code). `Pair` and `Unpair` queue the
document writes in the order the code performs them; `AdminStep` does one, `AdminAbort` and `Crash` drop the rest.

**Failures.** `Lose` drops a request, `Crash` restarts a daemon on its database.
Requests a dead or impatient sender left behind stay executable but no longer
answer anybody (`live`).

**History.** `authored` and `applied` record which versions a gateway authored
and installed. No guard reads them.

**Switchover (`HaFailover`).** `pc[n][t]` is where the election worker, an API
worker that serves operators or the main loop of gateway n is in
`reconcile_election`, `switch_active_gateway_inner`, `reconcile_vip` or the
shutdown sequence. Binding or releasing the VIP, asking the peer, getting its
answer and writing the selection are steps of their own, so that any other thread,
a timeout or a crash fits between them.

| Model | Code |
|---|---|
| `Failover`; `Bind`, `BindFails`, `CommitLocal`; `Release`, `ReleaseFails`, `Restore`, `CommitPeer` | `failover`; the two branches of `switch_active_gateway_inner` with their rollbacks |
| `Notify`, `Answer`, `CallFails`, `Activate`, `ActivateCommit`, `Lost` | `POST /api/v1/ha/peer/activate`: the request, its outcome for the caller, the handler's two effects, and a request that never arrives |
| `Hear`, `Expire`, `SocketError`, `queue_election` | the BFD loop `run`; `on_packet` stands for the library's state machine |
| `ElectionTake`, `Probe`, `AskState`, `AskRevision`, `AskFails` | `reconcile_election`: status and selection, the probe of the control port, the peer's selection and then its revision |
| `Watch`, `ReconcileVip`, `Stop`, `StopRelease`, `Exit`, `Restart` | main loop, shutdown and start of the gateway role |
| `Crash`, `Cut`, `Heal` | environment; a killed daemon leaves its addresses, a dead host does not |

A request lives in `calls` until it is handled. `live` says that its caller still
waits; one that nobody waits for can still be executed or vanish. `revision` follows
`next_revision`: the gateway's clock, or one more than the last revision. Time is
counted in writes of the selection and `Skew` shifts a gateway's clock. `seen` is
history and no guard reads it. `Apart` separates two questions: with it, operators act
and outages begin only while the pair is at rest and end when their effects have
settled; without it they come at any instant. `Spent` lists which budgets of
switchovers, outages and failing VIP changes a behaviour may count as used up at its
start, so that one run covers "outages" and "failures" (`ha_apart`), or "a switchover"
and "an outage" (`ha_faults`), without covering every combination of both.

**Reconcile loop (`GatewayLoop`).** `main.pc` walks through one iteration of `run`:
merge subscriptions, reload the file (`FileUnread`, `AutoIpsUnresolved` and
`MergePeers` are its ways to end early), record the modification time (`Finish` records
the first one, after the apply at the start), take the dirty
flag, debounce, drift check, then `apply_inner` in its steps (network, listener state,
the three maps, attach, marker) and the automations, which may start a second apply.
The probe worker takes a configuration, probes (`ProbeTargets`, whose answers may
come at any later time), re-reads the configuration, keeps the outcomes still
scheduled, counts, and refreshes slots and weights. `writer` is the lock
`CACHE_WRITER`. `stale` is history: an apply failed, or a step used a reading that was
outdated by then.

**Flows (`FlowTable`, `FlowSync`, `Datapath`).** A flow is a pair of keys with target
and last-seen time. `FlowSync`: packets at the MASTER write table and ring
(`IngressHit`, `IngressNew`, `Return`), the worker connects, drains the ring into a
pending batch, reconciles in full, flushes a limited batch and handles the answer
(`Connect`, `Drain`, `Reconcile`, `Flush`, `Pause`, `Replicate`, `Ack`); a sweep scans
and removes in two steps. Monotonic clocks differ per host, so ages travel, as in the
code: `boot` is when a host's clock began, `flow_age` is taken when a batch leaves, and
`local_last_seen` takes it off the clock of the receiver, down to 0, which never expires
(`flow_expired`). Maps are lost in three ways: `cleanup` (no listener is left) and
`apply` (the attachment is replaced) under a running process and session, `Stop` with the
process or the host. A session whose maps went reads on from the old ring (`deaf`, `old`)
until it ends. `lost` is history: keys the receiver lost alive since the session began.
`Datapath`: `Change` alters targets, weights or health, `sync_*` are the three
map writes in the code's order, `IngressNew` runs `select_target`, `LateWrite` is the
non-atomic counter update of another CPU. `sweep_flows_and_refresh_loads` and
`sweep_finish` are the sweep of the reconcile loop, `sweep_flows` and
`sweep_flows_finish` that of xSync, which leaves the counters alone unless the listener
selects by least connections. `replicated_upsert` and `replicated_delete` are the peer's
batches while this gateway is BACKUP: any keys of a connection, any target id, no counter.
`Save`, `Restart` (of the process or of the host, whose clock then begins anew), `apply`
(maps replaced under the process), `attach_prepared` and `restore_on_start` are the life
of the flow snapshot. `ageless` (connections with a last-seen of 0), `told` (connections
the peer wrote since their last packet) and `drift` are history.

**Redirect.** The host is one fact per thing the worker reads (path per address, five
checks). `snapshot` takes the token, `check_host` to `check_return_tc` observe,
`pending` reads the netlink monitor, `publish` writes under the lock if the token still
holds; `begin_mutation` is a target-map update, which revokes. `forward` and
`return_forward` are the classifiers' verdicts for a packet now.

**Discovery and backend (`BackendSync`, `BackendHost`).** `watch` registers a stream,
`Send` builds and sends a snapshot when its version changed, `StreamEnds` removes the
registration of that stream only, `prune_expired` and `GatewayTick` expire and merge; a
tick also publishes the assignments when the loop's own inventory did not change.
The subscriber merges (`merge_snapshot`), waits until every gateway has sent
(`Waits`), compares versions (`SameVersion`), validates (`Ambiguous`) and applies in
two phases, each a sequence of netlink or tc calls of which any may fail
(`ApplyTunnel`, `ApplyRedirect`). `FileApply` and `heal` are the mode without
discovery.

**Peer writes.** `Ask` is a client request, refused if the queue is full; `Take` is a
worker picking it up; `Save`, `ApplyGroup`, `reconcile_templates` are the handler's
effects; a worker that calls the peer stands at `call` until `Resume` or `Timeout`.
`is_replica_write` sends replicas to the reserved worker. Requests of kind `ha` compete
for the same ordinary workers: `status` asks the peer's `peer_status`, a failover
(`switch_active_gateway`, `write_active_gateway`, `failed_switch`) its `peer_activate`,
once to step down or to take over and once more to undo a takeover that failed.

**Store and notifications.** A caller draws its revision and prepares its command
(`Prepare`), sends it when the channel has room, and waits. The storage thread begins
a transaction, reads, records the revision, writes one document per step, commits and
replies; `FailStatement` rolls back, `Restart` keeps what was committed and observes
the largest stored revision. The dispatcher loads channels, sends with a bounded
number of attempts, appends a record and prunes the history, each command a call.

## 4. Runs

| Run | Checks | Bounds | States |
|---|---|---|---|
| `mutate` | `ReferencesResolve`, `NoLostUpdate`, `LastSequenceIsFinal` | 2 workers per gateway, 1 group with 2 target lists, 1 listener, 3 writes, 3 tries, sequence up to 3 | 0.62 M |
| `failover` | `TypeOK`, `CursorMatchesContent`, `AckedIsReplicated`, `ReplicaIsPeerSnapshot`, `RoleFence`, `CursorAdvances` | from empty databases: 1 pairing, 1 write, 2 role changes or unpairings, 1 fault | 1.75 M |
| `live` | `EventuallyReplicated` | 1 write, 1 role change, 1 fault | 0.16 M |
| `ha_apart` | `QuietHasOneOwner`, `EventuallyOneOwner` | apart, 2 switchovers, and either 2 outages or 1 failed change of the VIP | 0.14 M |
| `ha_faults` | `TypeOK`, `StartupNonPreemptive`, `VipFollowsSelection` | apart, 1 switchover or 1 outage, with 1 loss and 1 failed change of the VIP, channel of 1, the preferred gateway's clock ahead | 0.59 M |
| `gateway` | `QuietIsProgrammed`, `EventuallyProgrammed` | 2 backends, 1 probe definition, 1 measuring probe round, 2 events of any kind | 0.86 M |
| `flows` | `AckedIsHeld`, `NeverRegresses`, `EventuallyReplicated` | 1 connection (two keys), ring of 2, batches of 1, 3 ticks, timeout 1, 1 fault | 0.52 M |
| `redirect` | `CacheMatchesSlots`, `StaleOnlyWithinLease`, `RedirectsToFlowTarget`, `EventuallyPublished` | 1 slot, 2 addresses, 2 paths, lease of 2 ticks, 2 changes, 1 fault | 0.74 M |
| `datapath` | `SettledSelects`, `LoadsSettle`, `NoFlowOutlivesTimeout`, `FlowKeepsTarget` | 1 connection, 2 targets, weights up to 2, 2 buckets, consistent hash and least connections, timeout 2, 4 ticks, 2 events | 1.11 M |
| `backend` | `TypeOK`, `AppliedIsInstalled`, `LiveIsRegistered`, `EventuallyInstalled` | 2 gateways, 2 nodes, 3 codepoints, 2 stream ids, 2 events, both modes | 0.13 M |
| `ops` | `TypeOK`, `NoWaitCycle`, `AnsweredIsDone`, `EventuallyAnswered` | 1 ordinary and 1 reserved worker, queue of 1, 2 requests of any kind, 1 fault, every combination of roles | 0.28 M |
| `store` | `TypeOK`, `KeepsLatest`, `ImplementsDocuments`, `EventuallyDispatched` | channel of 1, event queue of 1, 2 attempts, history of 1, 2 events, 2 calls, 1 fault | 0.44 M |

*Why the bounds are enough.* Two gateways is the system. Every hazard is a race of at
most two commits and one change in between, so one or two operations per thread, two
tries (a loss and a success, or a loss and giving up) and one request in flight beside
the one being handled reach it. Two role changes give failover and failback, or two
MASTERs; one fault gives each crash point. Where `MaxSequence` is 6 the other bounds
keep sequences below it, so only `mutate` meets the end of the range. `failover` has
one token: a pairing followed by another one with a second token is covered by the
theorems (section 6), which hold for any set of tokens. Symmetry is under permutations
of the gateways and of the tokens, in `failover` only; that instance is symmetric: both
configuration files are equal, and the initial MASTER and the pairing's token are
chosen by an existential. Runs with liveness properties and the switchover runs use no
symmetry.

In the switchover two disturbances give failover and failback, a crash during a
rollback, or two operators; the election channel has 8 places in the code and is made
smaller in `ha_faults` so that it fills. Clocks are equal except in `ha_faults`. In
`gateway` two events give an edit overtaken by a second edit, a crash between commit
and dirty flag, or a failed apply after a change; one probe round suffices because
what matters is a round that spans a change. In `flows` the ring is smaller than the
events of two packets and a batch smaller than a flow pair, so events are dropped and
flushes are partial; three ticks with timeout 1 let a flow expire and begin again. In
`redirect` a lease of two ticks has an entry that is older than an observation but not
expired. `datapath` creates flows with the consistent hash, whose three maps must agree,
and with least connections, which reads the counters; `SettledSelects` evaluates every
selector over two turns of the cursor in each settled state. One connection has two keys
for each of two targets, which is what the counters, the restore and the peer's batches
can get wrong; with one connection a snapshot is never cut to `MaxRecords`. Timeout 2 in
4 ticks leaves room for an entry that is saved, aged by a reboot and restored within or
past its timeout. In `backend` three codepoints for two gateways allow collisions and changes
without. In `ops` pools of one and queues of one are the smallest that fill; the code's
four workers and longer queues only delay the same cycle. In `store` a channel of one
makes senders wait and a history of one makes every second delivery prune. Deadlock is
checked everywhere; `Rest` in `PeerWrites` and `Notifier` is the state in which all the
bounded work is done.

*What the properties say.* `CursorMatchesContent`: the digest in the cursor is
that of the documents beside it. `ReferencesResolve`: deleting a target group and
adding a listener to it never both commit. `NoLostUpdate`: the configuration
changes only by an accepted operation applied to the configuration current at
the commit, or by installing the peer's content. `RoleFence`: role and pairing
hold at the instant of the commit, not only at the read. `CursorAdvances`: within
one pairing a delayed or repeated snapshot never takes the cursor back.
`ReplicaIsPeerSnapshot`: what is held in the peer's name the peer once committed.
`AckedIsReplicated`: a cleared `pending` means the peer durably installed exactly
this version. `LastSequenceIsFinal`: nothing goes on from the last sequence.
`EventuallyReplicated`: once roles and token settle, the BACKUP holds the
MASTER's version and the MASTER knows, except when the BACKUP holds a version of
this pairing that the MASTER's does not supersede (`Diverged`).
`QuietHasOneOwner`: when both daemons run, see each other and nothing is under way,
one gateway holds the VIP and both name it. `EventuallyOneOwner`: such an owner
emerges and stays once daemons and link stay up. `VipFollowsSelection`: whatever was
lost, given up or failed, each gateway's VIP ends up bound exactly if its own stored
selection names it; that the two selections agree is `QuietHasOneOwner`, which holds only
without losses (observation 4). `StartupNonPreemptive`: the election thread of the
preferred gateway starts a promotion only after the gateway saw its peer up since it
started. It restrains that thread only: a restarted daemon whose own stored selection
names it binds the VIP at once, and an operator may always switch.

`QuietIsProgrammed`: when loop and probe worker have nothing left to do, listener,
target, bucket and weight maps, marker, VXLAN peers, health records and the generated
group are those of the committed configuration, unless an apply failed or something
was written from an outdated reading. `EventuallyProgrammed`: it gets there, with the
same exemptions.
`AckedIsHeld`: what the sender takes for replicated the peer holds at least as fresh,
until it expires, unless the peer lost it alive: in a sweep that raced with a refresh,
with the other half of its pair, which had expired, or with its maps. `NeverRegresses`: no
batch makes a flow older. `EventuallyReplicated` of `FlowSync`: a BACKUP with maps comes to
hold every live flow of the MASTER as fresh, except flows of last-seen 0 and flows it lost
alive that had no packet since they were acknowledged.
`CacheMatchesSlots`: a published route is for the target its slot has now.
`StaleOnlyWithinLease`: whatever is lost or fails, a route that contradicts the host
outlives the change by less than a lease. `RedirectsToFlowTarget`: a packet of a flow
leaves by the path of the address it was rewritten to. `EventuallyPublished`: the fast
path comes back. `SettledSelects`: once the maps are written every selector finds a
healthy target if there is one. `LoadsSettle`: load counters are exact unless a late
write, a packet during the sweep, half a pair, a batch of the peer or a sweep of xSync came
since the last refreshing sweep, and the next undisturbed one makes them exact again.
`NoFlowOutlivesTimeout`: neither sweep, replaced maps, restart, reboot nor restore keeps a
flow beyond the timeout after its last packet or what the peer told of it, except a flow of
last-seen 0. `FlowKeepsTarget`: a live flow with whole pairs is not moved, except by the
peer's batches. `AppliedIsInstalled`: the backend's host
carries exactly what it remembers as applied. `LiveIsRegistered`: the end of an older
stream does not unregister a newer one, and overlays are unique. `EventuallyInstalled`:
the last combination is installed. `NoWaitCycle`: while there is a MASTER, no role change
meets running requests and no worker of the MASTER waits in a status request or failover,
the workers of both gateways do not all wait for each other (observation 16).
`AnsweredIsDone`: success is answered only for what was done on both gateways,
including the group. `EventuallyAnswered`: every request is answered.
`ImplementsDocuments`: section 2. `KeepsLatest`: pruning keeps the newest deliveries.
`EventuallyDispatched`: neither a failing channel nor a failing database blocks the
dispatcher.

Several of these name an exemption (`stale`, `lost`, `drift`, `ageless`, `told`, `torn`,
`calm`). Each is a history variable no guard reads, set only by the interleaving it is
named for, and section 7 says what the code does in that case.

Each property has a mutant of the code in `PROJECT.json` (a dropped comparison, a
digest taken before the edit, an acknowledgement without a version check, an
unchecked increment, a replica served by an ordinary worker, a lease counted from its
publication) under which the same run refutes it.

## 5. Fairness

Weak fairness of each gateway's `Mutate`, `Send`, `Receive` and `Timeout` and of
`AdminStep`. The threads are loops that only block on the store, on their queue
or on a request with a deadline, and the sync thread wakes at least every 30
seconds, which is why `OutgoingSkip` is not part of the fair `Send`: a skipped
round does not count as progress, since the baseline is sent again when the 30
seconds are over. API writes, role changes, crashes and losses are not fair; they
are bounded, so "eventually" means after they stop.

In `HaFailover`, weak fairness of each gateway's BFD loop, election worker, API
worker, main loop and activation handler, each restricted to steps that need no
loss or failure, and of `Restart` (`Restart=always` in
`deploy/edge-lb-gateway.service`). Operators, outages, losses and failures are
bounded and not fair, and a cut link need not heal: `EventuallyOneOwner` is about
behaviours in which daemons and link stay up from some point on. `VipFollowsSelection`
needs the watch loop, the activation handler and the restart, and no link.

`GatewayLoop`: weak fairness of the main loop, of the probe worker once a round has
begun, and of the worker that marks the state dirty. The loop never waits for anything
but its timer and a lock that the probe worker holds for a bounded time. `FlowSync`:
weak fairness of the worker, strong fairness of `Reconcile`, since the full reconcile
is due again every interval although events keep the loop busy in between; a gateway
without maps need not get them back. `Redirect`: the worker
thread, and the end of an update that holds the lock. `BackendSync`: service and
subscriber of each gateway (they reconnect and poll on timers) and the tick of file
mode. `PeerWrites`: every thread, its client timeout included. `Notifier`: dispatcher,
storage thread and callers that have an answer. `Datapath` states no liveness.
Packets, kernel changes, requests, faults and role changes are never fair.

## 6. Proofs

TLAPS proves, for any number of workers, listeners, groups, addresses, tokens,
writes, role changes, faults and requests in flight, and any sequence limit:
`TypeCorrect`, `CursorContent`, `References`, `Fence`, `Advances`, `Updates`,
`Replicas`, `Acknowledged` and `Final` (in `ProxyReplicationProofs`). The
assumptions are those of the modules: gateways are paired, threads are distinct,
special values are outside the sets they extend, configuration files are valid,
bounds are naturals. TLC evaluates them in every run.

*The inductive invariant* is `Inv == TypeOK /\ ThreadState /\ FreshBundle`.
`TypeOK` alone is not inductive, because a commit writes what a thread computed
from its bundle; `ThreadState` says what that was (the bundle passed the checks
of the branch the thread is in), and `FreshBundle` says that a compare-and-put
that would succeed has a bundle equal to the current documents. Together they
turn every commit into an atomic step on the current documents: lemma
`StepEffect` states that a step keeps the business documents and cursor of a
gateway (`Keeps`), applies an accepted operation (`Edits`), re-authors the content
(`Restamps`), records a delivery (`Records`) or installs a peer's version
(`Installs`). The theorems on cursor, references, fence, order and updates are
case splits on these five.

*Acknowledgement* needs the history of messages. `Provenance`: every cursor,
snapshot and request carries a version its author authored. `Receipts`: every
receipt on the way names an installed version. `FreshToken`: a token is written
to a gateway at most once, so a token that reappears is impossible, hence
`SamePairing`: while the pairing of the snapshot being sent is current, the
cursor belongs to it as well, which closes the gap left by `record_result_on`
comparing the snapshot's pairing with the secret rather than with the cursor.
`Final` rests on `WithinRange`, the bound on the sequences of cursors and of
snapshots anywhere in flight.

*Switchover.* `HaFailoverProofs` proves `HaTypeCorrect` and `HaStartupNonPreemptive` for every clock skew and every number of switchovers,
outages, losses, failures and places in the channel, with and without `Apart` (TLC
checks only instances with it), from the assumptions of `HaFailover` (a pair of gateways, the preferred one is one of
them, bounds are naturals). The invariant `Waits` says which requests are under way:
`Matched` (the caller of a live request waits, at the label that sent it), `Single` (a
thread has at most one live request) and `Waited` (a waiting thread has one), with one
lemma per kind of step: a thread moves, sends, gets an outcome, a request advances or
vanishes, a process ends. `HaOneOwner` rests on it. `StartupNonPreemptive` needs `Seen`: a
session that is up was seen up, and so was the session behind a queued request that
carries `peer_was_up`, however many requests were dropped before it.

`HaOneOwner` proves `QuietHasOneOwner` under the hypothesis `Gentle`: disturbances come
apart (`Apart`), nothing is lost on a healthy link, the clocks agree, and a behaviour has
outages of any number or one failing change of the VIP. TLC evaluates that the instance of
`ha_apart` is of this kind (`GentleAssumption`); the theorem has any number of switchovers,
outages and places in the channel. Each part is needed: TLC finds a pair at rest with two
MASTERs or none once a call may be lost, a clock is ahead, disturbances overlap, a VIP error
meets an outage, or two VIP errors occur (observation 4 says why nothing repairs such an
end). The invariant `OwnInv` divides a behaviour into three phases. `Outage`: while a
daemon is down or stopping or the link is cut, only elections that promote and the handoff
of a daemon that stops run, and the gateways either agree or are `Rivals`, two MASTERs with
different revisions. `OperatorAt`: during an operator's switchover nothing else goes on, and
each place of it says what both selections are, down to the stage of the one request under
way. `Automatic`: otherwise elections ask and adopt; of two MASTERs the one with the older
revision has yet to ask (`RivalAt`), and while it hands over the peer cannot find it newer
(`Adopts`), so exactly one of two steps down. `Stamped` (no revision is ahead of the clock)
makes every write the newest, `Handshake` shows that sessions come up together, and `Told`
that the request of a handover does not fail. TLC checked `OwnInv` on `ha_apart` and with 4
outages, 3 switchovers and a channel of one place before it was proved.

*Redirect.* `RedirectCache`, `RedirectStaleness`, `RedirectTarget` (and
`RedirectTypes`), for any slots, addresses, paths, lease and number of changes and
faults. The invariant follows an observation through the worker. `TokenCurrent`: as long
as its token is valid, the worker's copy of the target map is the map; `Revoked`: while
an update holds the lock nothing is published and no token is valid; `PlanForSlots`: a
plan is for that copy. `ObservationFresh`, `RoutesFresh` and `LeaseFresh` say that what
an observation found at the checks it has passed either still holds or changed since,
no longer ago than the part of the lease that is used up: time takes as much from a
lease as it adds to the age of a fact.

*Reconcile loop.* `LoopProgrammed` proves `QuietIsProgrammed` for every list of backends,
every set of probe definitions and every number of commits, node changes, file edits,
lost kernel objects, crashes, failing steps and probe rounds, with `LoopAssumption` as the
only assumption (at least one retry, well-formed configurations at the first start).
The invariant `LoopInv` says, for each place of the loop, what has been written so far and
from what. `WorkIsConfig`: unless a commit is on its way to the dirty flag, an apply works
on what is committed. `HealthIsProjected` and `MapsWritten` (`ListenerWritten`,
`SlotsWritten`, `BucketsWritten`, `NothingServed`): each map is that of configuration and
health from the step that writes it on, except between the worker's publication of a
verdict and its own refresh of that map. `Places` brings in the lock: while the loop is
between two maps the worker is not between slots and weights. `OutcomesAreScheduled` is
what makes a published verdict keep the projection (`VerdictsAreProjected`; results of an
edited probe would not). `PeersWritten`, `GroupWritten` and `GroupRewritten` tie peers and
generated group to the subscriptions the loop knows, through the debounce, the reload and
the second apply after an automation. TLC checked `LoopInv` on the instance of `gateway`
and on random behaviours with 8 events before it was proved.

*Peer writes.* `PeerWritesTypes`, `PeerWritesAnswered` and `PeerWritesNoWaitCycle`, for
any non-empty set of workers, any queue capacity and any number of requests and faults.
For `AnsweredIsDone` the invariant `Core` says what was done for the request of a thread
by the time it is at a place (`InProgress`), that a request from a worker answers the
call that worker waits in (`Requests`), and that no caller has two requests under way
(`Single`), also after timeouts and crashes that leave requests without a caller. For
`NoWaitCycle`, `WInv` says that the queues and threads keep to their kind of request,
that whoever waits has a request under way, and that while `calm` holds there is a
MASTER, which waits for replica writes or in requests of kind `ha` only. Where the
property leaves those out, what it waits for is served by the reserved worker, which calls
nobody, so one of them can go on; the ordinary workers of the BACKUP then wait for a
MASTER some thread of which can.

*Store and notifications.* `NotifierImplements` is the refinement: lemma `NextRefines`
maps every step of the storage thread and its callers to a step of `Documents` or to a
stutter. Its invariant `SInv` ties the transaction under way to the documents it read
and the statements already executed, so that the commit is the one moment at which the
call takes effect. `NotifierTypes`; `NotifierKeepsLatest` adds the order of delivery
keys, the record being appended and one left-over record for each fault.

*Backend.* `BackendTypes`, `BackendInstalled` and `BackendRegistered`, for any number of
gateways and nodes and any codepoints and stream ids. The invariant `BInv` adds that one
thread at a time holds the apply lock (`OneApplies`), that its work is complete and, while
it programs the host, the tunnel is that of its work unless the host drifted
(`Programming`), that without discovery what is applied is the file (`FileAlone`), and
that a live stream has its receiver (`HasTask`).

*Datapath.* `DatapathInv`, `DatapathTimeout`, `DatapathLoads`, `DatapathTargets`,
`DatapathSettled`, for
finite sets of connections and addresses, any weights, `n` buckets, any selectors, cursor
size and timeout and any number of events, reboots and batches of the peer. `DInv` says
that no entry of the table or of the snapshot is younger than its connection's last packet
or what the peer told, but for the connections with a last-seen of 0 (`Aged`, `Saved`), that
the snapshot has one record per connection and the table its target, a later packet or what
the peer told (`Restorable`), that a reverse key tells its target (`Backs`), and that an undisturbed
sweep ends with the counters of what it leaves (`SweepCounts`). `DatapathSettled` proves
`SettledSelects` from `Written` (an update that began after the last change has written the
listener, and from the second map on the targets, of the present configuration and health).
It has a hypothesis of its own, `Weight \subseteq 1..WeightCap`, the documented range of a
weight: beyond it the property is false (observation 9). The weights are added up by the
recursive function `Cumulated`; that it exists and what it computes (`SumsExist`,
`CumulatedIs`, `Intervals`, `Positive`) is shown by smallest counterexample, in place of an
induction. `Rotation` says that a turn from any cursor reaches every slot.

*Flow replication.* `FlowSyncInv`, `FlowsAcked`, `FlowsAdvance`, for any connections,
targets, ring and batch sizes and timeout, and any number of packets, sweeps, sessions
and faults. `AckedIsHeld` is not inductive: `Typed` adds that nothing in tables, rings
or session is younger than the clock, `Batched` that a batch under way is not younger
than its departure, so an entry is applied at least as fresh as it was sent; `Taken`
that what a full answer covers is at the peer, or was lost there, while the answer
travels; `Backed` the same for what the index lists, also while a batch is under way;
`Booted` that a last-seen other than 0 is not older than its host's clock, so that an entry
that becomes 0 is one no clock can outlive. The lemma `HeldKept` carries
what is held over every step of either table, and `FlowsAdvance` is the same table
lemmas (`StepsOn`) read as an action property.

The assumptions of these modules, beyond the sets being disjoint where the code's types
are: two gateways, at least one ordinary worker, at least one weight, finite sets in
`Datapath`, buckets numbered from 0. Each is evaluated by TLC in the module's run.

*Only model-checked:*

- the liveness properties (the prover has no rules for fairness and ENABLED);
- `QuietHasOneOwner` is proved under `Gentle` only; outside it the property is false.

## 7. Observations

What the models showed about the code where a document, a comment or the reader might
expect otherwise. None is stated as a property of a run.

Replication and HA:

1. `receive_on` writes the documents when the content changed *or when none are
   stored* (`storage/proxy_replication.rs:339`). A replica whose listeners still come
   from its configuration file gets the snapshot's listeners, whose `vip_ips` are
   cleared, and no reconcile follows. `docs/implementation-contracts.md:382`: only the
   metadata is updated when the content is the same.
2. A replica that refused a snapshot with the same sequence and another content keeps
   no trace of it (`:319`); the MASTER's next edit replaces the refused version.
   `docs/implementation-contracts.md:391` wants a version conflict to stop the
   overwriting.
3. `native::ha::state` reads selection and revision in two transactions
   (`provider/native/ha.rs:77`). A peer that is adopting this gateway at that moment
   answers MASTER with the revision that made it BACKUP, and the VIP goes back to the
   gateway that was replaced. `docs/config.md:182-183`: no preemption.
4. `docs/config.md:184-185` calls `preferred_active` the tie-breaker of double MASTER
   and double BACKUP. No code resolves two BACKUPs whose session is up (a takeover
   whose answer was lost, `provider/native/ha.rs:257`), and two MASTERs are resolved by
   revision in an election queued by a session transition (`runtime/bfd.rs:276`), which
   is not repeated. The comparison is of two wall clocks and strict.
5. The watch loop may bind the VIP again between the release and the write of the
   selection in a healthy handoff; the next watch interval repairs it. A request dropped
   from a full election channel is harmless next to one that is still queued.

Gateway, datapath, flows:

6. A failed apply is logged and the dirty flag is gone (`role/gateway.rs:317`, `:354`);
   the drift check looks at device and marker, not at the DNAT maps, so the next change
   or restart repairs it. `docs/architecture.md:149-150` speaks of idempotent
   convergence by heal.
7. The file's modification time is read after the file (`role/gateway.rs:311`), and at
   the start only after the first apply (`:266`): an edit in between is not loaded until
   the next one.
8. A probe round that re-read the configuration just before monitoring was disabled may
   write its verdict after the reconcile has reset it (`provider/native/probe.rs:121`),
   and an unhealthy target without a probe stays so until the next reconcile; the
   comment at `provider/native/store.rs:365` says that disabling removes the old verdict.
9. `docs/native-resource-model.md:20` bounds a weight by 65535, `config/validate.rs:156`
   only from below; the target map clamps, `weight_total` does not, so with a
   larger weight the `priority` selector may find no target although one is healthy. The
   run `datapath` keeps to the documented range.
10. A hit refreshes a flow without an event, so the BACKUP learns of it at the next full
    reconcile; the sweep removes keys it judged earlier, also ones refreshed since
    (`linux/native_dnat.rs:878`). The two keys of a flow are replicated as separate
    entries, so one may be refreshed and the other expired; a packet on the expired one
    removes both (`edge-lb-ebpf/src/main.rs:193`, `:349`). If that happens at a gateway
    that is MASTER only between two failovers, within one session of the other one, the
    other's index still lists the key it removed, and the next full reconcile does not
    send it again before it is refreshed. A flow keeps its cached target id when targets are
    reordered; the classifier compares the address, and takes the slow path.
    Maps can go under a running session: with the last listener, or when the attachment is
    replaced (`linux/native_dnat.rs:401-435`, `:1077`). At the BACKUP the sender's index
    keeps the flows the maps held, and they are sent again only after a packet refreshed
    them or in a new session. At the MASTER the next full reconcile deletes its flows at
    the BACKUP, and the session stays on the old event ring, so that new flows are
    replicated by full reconciles only. The new maps are not filled from the snapshot,
    because the restore of the process is done (`role/gateway.rs:418`).
    A last-seen of 0 never expires (`linux/native_dnat.rs:945`). An entry older than the
    uptime of the host that receives or restores it gets 0 (`xsync.rs:240`,
    `flow_persistence.rs:537`), lives until its next packet, and is replicated and saved
    with age 0 until then. The counters of active flows do not follow the peer's batches
    and, unless the listener selects by them, the sweeps of xSync; the reconcile loop's
    sweep counts anew.
11. One target without a route fails the whole redirect observation, and every target
    loses its lease (`linux/redirect/netlink.rs:100`).

Backend:

12. A failed apply leaves the host half programmed, and if the gateways then return to
    the version applied before, it stays so (`control/backend.rs:242`). With discovery
    there is no heal loop; in file mode heal gives up on a missing device
    (`role/backend.rs:393`). `docs/implementation-contracts.md:221-223` says that every
    heal pass restores the device.
13. `ensure_local_addrs` parses `a.b.c.d/p` as an address (`linux/net.rs:452`), which
    never matches, so kept addresses are removed and added again. VXLAN peers are only
    ever added. A backend that waits for one of its gateways acknowledges nobody. A live
    stream whose subscription expired is registered again only when it reconnects
    (`control/registry.rs:177`).

Notifications, automations, store:

14. Replicas of channels and templates carry no version and are accepted in any role
    (`notify/sync.rs:38`): two successful writes may leave the BACKUP with the older one
    (`docs/automations.md:124` expects equal copies). A MASTER keeps what it saved when
    the replication fails and an error is answered. Handlers read, edit and save without
    comparing revisions, so two concurrent edits of the document may lose one.
15. A BACKUP's main loop reconciles automations and forwards the group write
    (`role/gateway.rs:357`); `docs/automations.md:94` says it does not evaluate. A pruning
    deletion deletes the group before the templates are saved.
16. Two BACKUPs forward a write to each other until their workers are used up; the
    client's 10-second timeout ends it (`runtime/ha_write.rs:23`). With one MASTER, writes
    cannot do that, but `GET /ha/status` and a failover at the MASTER wait for ordinary
    workers of the BACKUP (`api/handlers/ha.rs:182`, `provider/native/ha.rs:319`): if those
    all wait for the MASTER, both pools stand still until a timeout. The worker reserved
    for replicas does not serve these requests.
17. A revision is drawn before the command is queued (`storage/mod.rs:76`), so `put` may
    replace a document by one with a smaller revision. Events are dropped when the
    dispatcher's queue is full, and one failing channel delays all events behind it.

## 8. Abstractions, and what is not modelled

- Listeners and target groups keep only the fields the modelled rules read; port
  conflicts between listeners and the hash-capacity limit are left out with their
  fields. Every operation of the API is there.
- SHA-256 does not collide; digests stand for what was hashed.
- Storage I/O errors: an operation that fails before its commit is a crash of
  that operation, which leaves the same state as giving up.
- One pairing or unpairing is in progress at a time, and the identity and slot
  checks of pairing are not modelled (`AdminAbort` may end it at any step); token, role
  and order of writes are.
- In `ProxyReplication` any failover path may write either gateway at any time, so
  election and switchover add no behaviour to it; `HaFailover` models those.
- `HaFailover` has two paired gateways with HA enabled, `bfd_auto` and the L2
  provider with a VIP configured; the Hook provider, keepalived events and changes of
  the HA configuration during a switchover are left out, and so are errors of the
  store and a failover without a previous active gateway. One operator request at a time is handled on a gateway.
- The reads of the selection that open `reconcile_election`, `state` and a switchover
  are one step each; what the code reads after a call to the peer, the store or the
  network is a step of its own. An election whose probe cannot matter skips it.
- Two writes never get the same millisecond, and `LAST_REVISION` is taken as the
  revision of the selection; other documents only make it grow.
- `GatewayLoop` has one listener with its group. A verdict needs `Retries` failures;
  probe protocols (TCP, UDP, HTTP, ping) are answered or not. VIP reconcile is in
  `HaFailover`, flow sweep and restore are in `Datapath`.
- A flow has no protocol state; a packet is its connection and direction. Parsing,
  rewriting, checksums, fragments and statistics are left out. HRW scores and flow
  hashes are given functions. Counter races are one late write at a time, and with least
  connections the two refreshing sweeps (reconcile loop and xSync) do not overlap. Every
  listener has a timeout (one of 0 would keep its flows for ever). An entry of
  the peer gets younger by the time its batch was on the way, as in the code, and
  `NoFlowOutlivesTimeout` counts from what it then says. The wall clock is not set back between
  a save and a restore.
- The redirect's checks are one fact each for what the code groups together; sysctls,
  rules, security modules and FIB are the check `policy`. A token is the revision of the
  target map; that the map is still the same one (`linux/redirect/maps.rs:122`) is not
  modelled.
- One backend is followed in full, the other nodes only in the gateways' registries.
  Snapshot versions stand for what was hashed; an overlay is an index. File mode has one
  gateway: several would share `network.dscp`, which the validation of the return paths
  rejects, so the failover branch (`role/backend.rs:147-159`, `:382-388`) and the branch of
  heal for a peer without an overlay (`:412-416`) are left out.
- Channel configurations and templates are ids; validation of their fields, and what a
  notification service answers, are choices. Whether a generated group matches its
  template is a choice in `PeerWrites` and computed in `GatewayLoop`. An import is
  `ReplaceAll`; the merging imports change the document as an upsert does. The pair has HA
  enabled, so `GET /ha/status` always asks the peer. A dispatcher whose HTTP client cannot
  be built ends at its start (`notify/mod.rs:32-38`); that it was built is assumed.
- SQLite commits atomically; a failing statement or commit leaves the database as it
  was. Reads (list, count, export) are like `get`.

Not modelled: metrics, CLI, installation and verification commands, the management UI
and the tools (rendering, argument parsing and one-shot commands without state of their
own); packet authentication; STUN and the discovery of addresses (I/O that succeeds or
not); the Hook VIP provider and keepalived events (`runtime/ka_hook.rs`, external
scripts decide); the policy-routing, nftables and legacy tc code that the redirect-only
runtime does not call (`linux/route.rs`); sysctls.

## 9. Plan

Modelled: every component with concurrent or durable state (section 2). Proved: every
safety property the runs check (section 6). Next:

1. `HaFailover`: a survivor that starts while its peer is dead, sessions that flap on
   one side, the Hook provider.
2. Larger instances: `live` with two role changes or a disabled and enabled HA, two
   connections with the other selectors, two probe rounds.
