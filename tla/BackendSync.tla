---------------------------- MODULE BackendSync ----------------------------
(***************************************************************************)
(* The discovery streams between the gateways and one backend              *)
(* (edge-lb/src/control): a gateway registers the backend, assigns it an   *)
(* overlay address and sends a snapshot whenever its version changes; the  *)
(* backend keeps the latest snapshot of every gateway, combines them,      *)
(* programs its host and acknowledges.  Streams break, gateways and the    *)
(* backend restart, subscriptions expire, netlink calls fail.              *)
(*                                                                         *)
(* A backend without discovery applies its file once and heals the host    *)
(* on every tick (role/backend.rs).                                        *)
(***************************************************************************)
EXTENDS BackendHost, FiniteSets

CONSTANTS
    Gateways,   \* number of gateways, 1..Gateways in the order of their addresses
    Nodes,      \* number of backend nodes, 1..Nodes in the order of their names
    Dscp,       \* the codepoints a gateway may be configured with
    StreamId,   \* stream nonces
    QueueSize,  \* responses a stream holds before the sender waits
    MaxEvents   \* bound on faults, restarts, expiries and configuration changes

ASSUME BackendAssumption ==
    /\ Gateways \in Nat \ {0} /\ Nodes \in Nat \ {0}
    /\ Dscp \subseteq Nat \ {0} /\ 1..Gateways \subseteq Dscp
    /\ StreamId \subseteq Nat \ {0} /\ 1 \in StreamId /\ QueueSize \in Nat \ {0} /\ MaxEvents \in Nat

Gateway == 1..Gateways
Node == 1..Nodes
Self == 1
NoSnapshot == [dscp |-> 0, overlay |-> 0]
NoHeld == [g \in Gateway |-> NoSnapshot]
NoWork == [of |-> NoHeld, conflict |-> FALSE]

VARIABLES
    mode,     \* active_source: "xds" or "file"
    dscp,     \* each gateway's configured codepoint
    nodes,    \* registry nodes: overlay index per node, 0 absent, 1 "auto"
    inv,      \* the gateway loop's own backend_nodes
    sub,      \* registry subscriptions: the stream id per node, 0 none
    shown,    \* the conflict the registry shows for the backend
    tasks,    \* streams whose receiver task still runs at the gateway
    stream,   \* the backend's live stream to each gateway, 0 none
    sent,     \* the sender's last snapshot
    queue,    \* responses under way
    job,      \* the subscriber thread: "down", "wait", "merged", "apply"
    held,     \* the latest snapshot of each gateway
    applied,  \* last_applied: what was combined, and the conflict seen
    work,     \* what the holder of the apply lock combined
    host,     \* the backend's kernel
    current,  \* this process holds the redirect attachment (CURRENT)
    foreign,  \* something on the host conflicts with the overlay
    torn,     \* history: since the last commit an apply failed, or the host drifted
    lapsed,   \* history: the live stream's subscription expired
    events

gateway == <<dscp, nodes, inv, sub, shown, tasks>>
wire == <<stream, sent, queue, lapsed>>
backend == <<job, held, applied, work, host, current, torn>>
vars == <<mode, gateway, wire, backend, foreign, events>>

Init ==
    /\ mode \in {"xds", "file"}
    /\ dscp = [g \in Gateway |-> g]
    /\ nodes = [g \in Gateway |-> [n \in Node |-> 0]] /\ inv = nodes /\ sub = nodes
    /\ shown = [g \in Gateway |-> FALSE]
    /\ tasks = [g \in Gateway |-> {}]
    /\ stream = [g \in Gateway |-> 0]
    /\ sent = NoHeld /\ queue = [g \in Gateway |-> <<>>]
    /\ job = [g \in Gateway |-> "down"]
    /\ held = NoHeld
    /\ applied = NoWork /\ work = NoWork
    /\ host = BareHost /\ current = FALSE /\ foreign = FALSE /\ torn = "no"
    /\ lapsed = [g \in Gateway |-> FALSE]
    /\ events = 0

TypeOK ==
    /\ mode \in {"xds", "file"} /\ dscp \in [Gateway -> Dscp]
    /\ {nodes, inv} \subseteq [Gateway -> [Node -> 0..(Nodes + 1)]]
    /\ sub \in [Gateway -> [Node -> StreamId \union {0}]]
    /\ tasks \in [Gateway -> SUBSET StreamId] /\ stream \in [Gateway -> StreamId \union {0}]
    /\ \A g \in Gateway : stream[g] \in tasks[g] \union {0}
    /\ {held, sent} \subseteq [Gateway -> [dscp : Dscp \union {0}, overlay : 0..(Nodes + 1)]]
    /\ job \in [Gateway -> {"down", "wait", "merged", "apply"}]
    /\ \A g, k \in Gateway : {job[g], job[k]} = {"apply"} => g = k
    /\ host.dev \in {"absent", "drifted", "down", "ours"}
    /\ {current, foreign} \subseteq BOOLEAN /\ torn \in {"no", "failed", "drift"} /\ events \in 0..MaxEvents

(* The backend's end of a stream is gone, with what was under way. *)
Closed(g) ==
    /\ stream' = [stream EXCEPT ![g] = 0]
    /\ sent' = [sent EXCEPT ![g] = NoSnapshot]
    /\ queue' = [queue EXCEPT ![g] = <<>>]
    /\ lapsed' = [lapsed EXCEPT ![g] = FALSE]

Event == events < MaxEvents /\ events' = events + 1

-----------------------------------------------------------------------------
(* The registry of a gateway. *)

(* The registered nodes; the caller's own entry decides the overlay. *)
merge_backend_inventory(g, own) ==
    [n \in Node |-> IF nodes[g][n] # 0 /\ own[n] # 0 THEN own[n] ELSE nodes[g][n]]

(* The first holder keeps a shared address; the others, and "auto", get free ones. *)
assign_overlay_ips(base) ==
    LET keeps == {n \in Node : base[n] > 1 /\ \A k \in 1..(n - 1) : base[k] # base[n]}
        autos == {n \in Node : base[n] # 0} \ keeps
        free == 2..(2 * Nodes + 1) \ {base[n] : n \in keeps}
        nth(n) == CHOOSE i \in free : Cardinality({j \in free : j < i})
                                    = Cardinality({k \in autos : k < n})
    IN [n \in Node |-> IF n \in autos THEN nth(n) ELSE base[n]]

merge_into(g, own) == assign_overlay_ips(merge_backend_inventory(g, own))

(* A new stream takes over the node's subscription; its overlay is kept. *)
upsert(g, n, s) ==
    /\ sub' = [sub EXCEPT ![g][n] = s]
    /\ nodes' = [nodes EXCEPT ![g][n] = IF @ = 0 THEN 1 ELSE @]

(* Subscription and overlay go together. *)
Removed(g, n) ==
    /\ sub' = [sub EXCEPT ![g][n] = 0]
    /\ nodes' = [nodes EXCEPT ![g][n] = 0]

(* Mutant: the end of any stream ends the subscription. *)
remove_any(g, n, s) == IF sub[g][n] # 0 THEN Removed(g, n) ELSE UNCHANGED <<sub, nodes>>

(* Only the stream that holds the subscription ends it. *)
remove(g, n, s) == IF sub[g][n] = s THEN Removed(g, n) ELSE UNCHANGED <<sub, nodes>>

(* A reader of the registry finds no heartbeat for the time to live: the backend
   was busy programming, the stream stalled or the wall clock stepped. *)
prune_expired(g, n) ==
    /\ mode = "xds" /\ sub[g][n] # 0
    /\ IF n = Self /\ sub[g][n] # stream[g] THEN UNCHANGED events ELSE Event
    /\ Removed(g, n)
    /\ lapsed' = [lapsed EXCEPT ![g] = @ \/ (n = Self /\ sub[g][n] = stream[g])]
    /\ shown' = IF n = Self THEN [shown EXCEPT ![g] = FALSE] ELSE shown
    /\ UNCHANGED <<mode, dscp, inv, tasks, stream, sent, queue, backend, foreign>>

(* Another backend subscribes or leaves. *)
OtherSubscribes(g, n) ==
    /\ mode = "xds" /\ n # Self /\ Event
    /\ IF sub[g][n] = 0 THEN upsert(g, n, 1) ELSE remove(g, n, 1)
    /\ UNCHANGED <<mode, dscp, inv, shown, tasks, wire, backend, foreign>>

(* The gateway loop's tick merges the registry into its own configuration and
   publishes the assignments, also when its own inventory stays the same; a tick
   that changes either counts as an event. *)
GatewayTick(g) ==
    LET merged == merge_into(g, inv[g])
    IN /\ mode = "xds" /\ (merged # inv[g] \/ merged # nodes[g]) /\ Event
       /\ nodes' = [nodes EXCEPT ![g] = merged]
       /\ inv' = [inv EXCEPT ![g] = merged]
       /\ UNCHANGED <<mode, dscp, sub, shown, tasks, wire, backend, foreign>>

-----------------------------------------------------------------------------
(* The discovery service. *)

(* The backend connects and registers: subscribe_gateway and the head of watch. *)
watch(g) ==
    /\ mode = "xds" /\ job[g] = "down"
    /\ \E s \in StreamId \ (tasks[g] \union {sub[g][Self]}) :
        /\ \A r \in StreamId \ (tasks[g] \union {sub[g][Self]}) : s <= r
        /\ upsert(g, Self, s)
        /\ tasks' = [tasks EXCEPT ![g] = @ \union {s}]
        /\ stream' = [stream EXCEPT ![g] = s]
    /\ shown' = [shown EXCEPT ![g] = FALSE]
    /\ sent' = [sent EXCEPT ![g] = NoSnapshot]
    /\ queue' = [queue EXCEPT ![g] = <<>>]
    /\ lapsed' = [lapsed EXCEPT ![g] = FALSE]
    /\ job' = [job EXCEPT ![g] = "wait"]
    /\ UNCHANGED <<mode, dscp, inv, held, applied, work, host, current, torn, foreign, events>>

from_config_for_backend(g, assigned) == [dscp |-> dscp[g], overlay |-> assigned[Self]]

(* The file, which lists no backends, with the registry merged in. *)
build_snapshot(g) ==
    LET assigned == merge_into(g, [n \in Node |-> 0])
    IN  [nodes |-> assigned, response |-> from_config_for_backend(g, assigned)]

(* The sender publishes the overlay assignments and sends a new version. *)
Send(g) ==
    LET built == build_snapshot(g)
    IN /\ stream[g] # 0 /\ Len(queue[g]) < QueueSize
       /\ built.response # sent[g] \/ built.nodes # nodes[g]
       /\ nodes' = [nodes EXCEPT ![g] = built.nodes]
       /\ sent' = [sent EXCEPT ![g] = built.response]
       /\ queue' = [queue EXCEPT ![g] = IF built.response = sent[g] THEN @
                                        ELSE Append(@, built.response)]
       /\ UNCHANGED <<mode, dscp, inv, sub, shown, tasks, stream, lapsed, backend, foreign, events>>

(* A full ACK replaces the conflict shown, if its stream still is the subscription. *)
touch(g, conflict) ==
    shown' = IF stream[g] # 0 /\ sub[g][Self] = stream[g]
             THEN [shown EXCEPT ![g] = conflict] ELSE shown

(* The receiver task sees the end of its stream, maybe after the backend is back. *)
StreamEnds(g, s) ==
    /\ s \in tasks[g] /\ s # stream[g]
    /\ tasks' = [tasks EXCEPT ![g] = @ \ {s}]
    /\ remove(g, Self, s)
    /\ shown' = IF sub'[g][Self] = 0 THEN [shown EXCEPT ![g] = FALSE] ELSE shown
    /\ UNCHANGED <<mode, dscp, inv, stream, sent, queue, lapsed, backend, foreign, events>>

-----------------------------------------------------------------------------
(* The backend's subscriber threads. *)

Idle(g) == IF stream[g] = 0 THEN "down" ELSE "wait"

(* A response is stored under its gateway. *)
merge_snapshot(g) ==
    /\ job[g] = "wait" /\ queue[g] # <<>>
    /\ held' = [held EXCEPT ![g] = Head(queue[g])]
    /\ queue' = [queue EXCEPT ![g] = Tail(@)]
    /\ job' = [job EXCEPT ![g] = "merged"]
    /\ UNCHANGED <<mode, gateway, stream, sent, lapsed, applied, work, host, current, torn,
                   foreign, events>>

(* Mutant: the first snapshot is applied without the others. *)
AnyHeld == \E g \in Gateway : held[g] # NoSnapshot

AllHeld == \A g \in Gateway : held[g] # NoSnapshot

(* The combination of the held snapshots: every gateway's path, the overlay each
   one assigned, or the backend's own where none did. *)
Combines(snapshots) == {g \in Gateway : snapshots[g] # NoSnapshot}
Paths(snapshots) == {<<g, snapshots[g].dscp>> : g \in Combines(snapshots)}
Addrs(snapshots) == {IF snapshots[g].overlay = 0 THEN <<0, 0>> ELSE <<g, snapshots[g].overlay>> :
                        g \in Combines(snapshots)}

(* Mutant: the stream is kept and the snapshot is never sent again. *)
RejectedOnce(g) == job' = [job EXCEPT ![g] = Idle(g)] /\ UNCHANGED wire

(* A rejected snapshot ends the stream; the datapath stays as it is. *)
Rejected(g) == Closed(g) /\ job' = [job EXCEPT ![g] = "down"]

(* Mutant: the apply lock is not taken. *)
NeverLocked == TRUE

(* DATAPATH_APPLY_LOCK is free. *)
Unlocked == \A g \in Gateway : job[g] # "apply"

(* Not every gateway has sent a snapshot: wait, without an ACK. *)
Waits(g) ==
    /\ job[g] = "merged" /\ ~AllHeld
    /\ job' = [job EXCEPT ![g] = Idle(g)]
    /\ UNCHANGED <<mode, gateway, wire, held, applied, work, host, current, torn, foreign, events>>

(* The combined version is the applied one: only an ACK, with the conflict seen then. *)
SameVersion(g) ==
    /\ job[g] = "merged" /\ AllHeld /\ Unlocked /\ held = applied.of
    /\ touch(g, applied.conflict)
    /\ job' = [job EXCEPT ![g] = Idle(g)]
    /\ UNCHANGED <<mode, dscp, nodes, inv, sub, tasks, wire, held, applied, work, host, current, torn,
                   foreign, events>>

(* An ambiguous contract is rejected before the host is touched. *)
Ambiguous(g) ==
    /\ job[g] = "merged" /\ AllHeld /\ Unlocked /\ held # applied.of
    /\ ~validate(Paths(held))
    /\ Rejected(g)
    /\ UNCHANGED <<mode, gateway, held, applied, work, host, current, torn, foreign, events>>

(* Another interface or route overlaps the planned overlay. *)
inspect_backend == foreign

(* apply_with, up to the tunnel; a netlink call may fail in between. *)
ApplyTunnel(g) ==
    /\ job[g] = "merged" /\ AllHeld /\ Unlocked /\ held # applied.of /\ validate(Paths(held))
    /\ LET hosts == ensure_vxlan_multipoint(host, Addrs(held), Gateway)
       IN \/ /\ host' = Last(hosts)
             /\ job' = [job EXCEPT ![g] = "apply"]
             /\ torn' = "failed"
             /\ work' = [of |-> held, conflict |-> inspect_backend]
             /\ UNCHANGED <<wire, events>>
          \/ /\ Event /\ host' \in ToSet(Front(hosts)) /\ torn' = IF host' = host THEN torn ELSE "failed"
             /\ Rejected(g) /\ UNCHANGED work
    /\ UNCHANGED <<mode, gateway, held, applied, current, foreign>>

(* The rest of apply_with: the redirect programs, then the commit and the ACK.  A
   failure after the old attachment was dropped leaves none. *)
ApplyRedirect(g) ==
    /\ job[g] = "apply"
    /\ work' = NoWork
    /\ \/ /\ host.dev # "absent" /\ host' = redirect_apply(host, Paths(work.of))
          /\ current' = TRUE /\ applied' = work
          /\ torn' = IF torn = "drift" THEN torn ELSE "no"
          /\ touch(g, work.conflict)
          /\ job' = [job EXCEPT ![g] = Idle(g)]
          /\ UNCHANGED <<wire, events>>
       \/ /\ IF host.dev = "absent" THEN UNCHANGED events ELSE Event
          /\ host' \in redirect_failures(host)
          /\ current' = (current /\ host' = host)
          /\ Rejected(g)
          /\ UNCHANGED <<applied, torn, shown>>
    /\ UNCHANGED <<mode, dscp, nodes, inv, sub, tasks, held, foreign>>

-----------------------------------------------------------------------------
(* Faults and changes. *)

(* The stream breaks; a thread that is programming the host finishes first. *)
StreamBreaks(g) ==
    /\ stream[g] # 0 /\ Event
    /\ Closed(g)
    /\ job' = [job EXCEPT ![g] = IF @ = "wait" THEN "down" ELSE @]
    /\ UNCHANGED <<mode, gateway, held, applied, work, host, current, torn, foreign>>

(* A gateway restarts with an empty registry. *)
GatewayRestart(g) ==
    /\ mode = "xds" /\ Event
    /\ nodes' = [nodes EXCEPT ![g] = [n \in Node |-> 0]]
    /\ inv' = [inv EXCEPT ![g] = [n \in Node |-> 0]]
    /\ sub' = [sub EXCEPT ![g] = [n \in Node |-> 0]]
    /\ shown' = [shown EXCEPT ![g] = FALSE]
    /\ tasks' = [tasks EXCEPT ![g] = {}]
    /\ Closed(g)
    /\ job' = [job EXCEPT ![g] = IF @ = "wait" THEN "down" ELSE @]
    /\ UNCHANGED <<mode, dscp, held, applied, work, host, current, torn, foreign>>

(* The backend process restarts: the kernel keeps what was programmed. *)
BackendRestart ==
    /\ Event
    /\ stream' = [g \in Gateway |-> 0] /\ sent' = NoHeld
    /\ queue' = [g \in Gateway |-> <<>>]
    /\ lapsed' = [g \in Gateway |-> FALSE]
    /\ job' = [g \in Gateway |-> "down"]
    /\ held' = NoHeld /\ applied' = NoWork /\ work' = NoWork
    /\ current' = FALSE /\ torn' = "no"
    /\ UNCHANGED <<mode, gateway, host, foreign>>

(* An operator changes a gateway's codepoint. *)
DscpChanges(g, d) ==
    /\ mode = "xds" /\ d # dscp[g] /\ Event
    /\ dscp' = [dscp EXCEPT ![g] = d]
    /\ UNCHANGED <<mode, nodes, inv, sub, shown, tasks, wire, backend, foreign>>

(* Something else on the host changes the device, its peers or an interface. *)
HostDrifts ==
    /\ Event
    /\ \/ /\ host' \in {BareHost,
                        [host EXCEPT !.dev = "drifted"], [host EXCEPT !.peers = {}]}
          /\ host.dev = "ours" /\ torn' = "drift"
          /\ UNCHANGED foreign
       \/ foreign' = ~foreign /\ UNCHANGED <<host, torn>>
    /\ UNCHANGED <<mode, gateway, wire, job, held, applied, work, current>>

-----------------------------------------------------------------------------
(* A backend without discovery. *)

(* Its own configuration: one gateway, the local overlay address. *)
FileHeld == [g \in Gateway |-> IF g = 1 THEN [dscp |-> 1, overlay |-> 0] ELSE NoSnapshot]

(* The process applies its file once; it exits when that fails. *)
FileApply ==
    /\ mode = "file" /\ job[1] = "down"
    /\ LET hosts == ensure_vxlan_multipoint(host, Addrs(FileHeld), {1})
           done == redirect_apply(Last(hosts), Paths(FileHeld))
       IN \/ /\ host' = done /\ current' = TRUE /\ torn' = "no"
             /\ applied' = [of |-> FileHeld, conflict |-> FALSE]
             /\ job' = [job EXCEPT ![1] = "wait"] /\ UNCHANGED events
          \/ /\ Event /\ host' \in ToSet(hosts) \union redirect_failures(Last(hosts))
             /\ UNCHANGED <<job, current, applied, torn>>
    /\ UNCHANGED <<mode, gateway, wire, held, work, foreign>>

(* A tick heals what it looks at; a missing device is only reported. *)
heal ==
    /\ mode = "file" /\ job[1] = "wait" /\ host.dev # "absent"
    /\ LET up == IF host.dev = "down" THEN set_link(host) ELSE host
           addressed == ensure_local_addrs(up, Addrs(FileHeld))
           peered == sync_vxlan_peers(addressed, {1})
           done == redirect_apply(peered, Paths(FileHeld))
       IN \/ /\ host' = done /\ current' = TRUE /\ UNCHANGED events
             /\ torn' = IF host.dev = "drifted" THEN "drift" ELSE "no"
          \/ /\ Event /\ host' \in {up, addressed, peered} \union redirect_failures(peered)
             /\ current' = (current /\ host'.map = host.map)
             /\ torn' = IF torn = "drift" THEN "drift" ELSE "failed"
    /\ UNCHANGED <<mode, gateway, wire, job, held, applied, work, foreign>>

(* Heartbeats change nothing but the time of the last one. *)
Heartbeat == UNCHANGED vars

-----------------------------------------------------------------------------
Service(g) ==
    \/ watch(g) \/ Send(g)
    \/ \E s \in StreamId : StreamEnds(g, s)
Subscriber(g) ==
    \/ merge_snapshot(g) \/ Waits(g) \/ SameVersion(g) \/ Ambiguous(g)
    \/ ApplyTunnel(g) \/ ApplyRedirect(g)

Next ==
    \/ \E g \in Gateway : Service(g) \/ Subscriber(g)
    \/ \E g \in Gateway : StreamBreaks(g) \/ GatewayRestart(g) \/ GatewayTick(g)
    \/ \E g \in Gateway, n \in Node : prune_expired(g, n) \/ OtherSubscribes(g, n)
    \/ \E g \in Gateway, d \in Dscp : DscpChanges(g, d)
    \/ BackendRestart \/ HostDrifts \/ FileApply \/ heal \/ Heartbeat

Spec == Init /\ [][Next]_vars

(* The backend's threads reconnect and process what arrives, a sender looks at its
   file on every watch interval, tasks deliver what was sent, ticks come. *)
Fairness ==
    /\ \A g \in Gateway : WF_vars(Service(g)) /\ WF_vars(Subscriber(g))
    /\ WF_vars(FileApply \/ heal)
FairSpec == Spec /\ Fairness

-----------------------------------------------------------------------------
(* The host carries exactly what last_applied says, every configured gateway's path
   under a codepoint of its own, unless it was disturbed or left half programmed. *)
AppliedIsInstalled ==
    applied # NoWork /\ torn = "no" =>
        /\ mode = "xds" => Combines(applied.of) = Gateway
        /\ validate(Paths(applied.of))
        /\ Carries(host, Addrs(applied.of), Combines(applied.of), Paths(applied.of))

(* A live stream is the node's subscription until that expires, whatever older
   streams still do, and a subscribed node has an overlay of its own. *)
LiveIsRegistered ==
    \A g \in Gateway :
        /\ stream[g] # 0 /\ ~lapsed[g] => sub[g][Self] = stream[g]
        /\ \A n \in Node : sub[g][n] # 0 <=> nodes[g][n] # 0
        /\ \A n, k \in Node : nodes[g][n] > 1 /\ nodes[g][n] = nodes[g][k] => n = k

(* Once nothing changes any more the host carries what the gateways would send now,
   unless their codepoints collide, the host drifted under an applied version, or a
   failed apply was followed by a return to the applied version. *)
Desired == [g \in Gateway |-> from_config_for_backend(g, nodes[g])]
EventuallyInstalled ==
    <>[](\/ torn = "drift"
         \/ torn = "failed" /\ held = applied.of
         \/ mode = "xds" /\ ~validate(Paths(Desired))
         \/ LET want == IF mode = "file" THEN FileHeld ELSE Desired
            IN Carries(host, Addrs(want), Combines(want), Paths(want)))
=============================================================================
