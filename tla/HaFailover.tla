----------------------------- MODULE HaFailover -----------------------------
(***************************************************************************)
(* VIP ownership of the gateway pair: the BFD session and the elections it *)
(* queues (runtime/bfd.rs), the switchover (provider/native/ha.rs), the    *)
(* activation a gateway asks of its peer (api/handlers/ha.rs) and the      *)
(* watch loop that binds or releases the VIP (role/gateway.rs).  Two       *)
(* paired gateways, HA enabled with failover bfd_auto, provider L2.        *)
(*                                                                         *)
(* On a gateway run the election worker, an API worker that serves         *)
(* operators, the API workers that serve the peer, and the main loop.      *)
(* Every read of the active selection, every change of the VIP, every      *)
(* write and every message is a step of its own.                           *)
(***************************************************************************)
EXTENDS Naturals, Sequences

CONSTANTS
    Node,         \* the two gateways
    Peer,         \* the other gateway of each gateway
    Preferred,    \* ha_cfg.preferred_active
    Skew,         \* Skew[n]: by how much the clock of n is ahead
    Apart,        \* TRUE: disturbances come one at a time, see below
    QueueCap,     \* capacity of the election channel
    MaxSwitches,  \* bound on operator requests
    MaxOutages,   \* bound on link cuts, crashes and stops of the daemon
    MaxLosses,    \* bound on calls and packets lost on a healthy link
    MaxVipErrors, \* bound on failed changes of the VIP
    Spent         \* what of these bounds a behaviour may count as spent already

ASSUME PairAssumption ==
    /\ Peer \in [Node -> Node]
    /\ \A n \in Node : Peer[n] # n /\ Peer[Peer[n]] = n
    /\ \A n, m \in Node : m \in {n, Peer[n]}
ASSUME PreferredAssumption == Preferred \in Node
ASSUME SkewAssumption == Skew \in [Node -> Nat]
ASSUME BoundAssumption ==
    /\ Apart \in BOOLEAN /\ QueueCap \in Nat \ {0}
    /\ MaxSwitches \in Nat /\ MaxOutages \in Nat
    /\ MaxLosses \in Nat /\ MaxVipErrors \in Nat
    /\ Spent \subseteq [switches : Nat, outages : Nat, viperrors : Nat]

Thread == {"election", "api", "main"}

(* Where a thread is in reconcile_election, switch_active_gateway_inner,   *)
(* reconcile_vip or the shutdown sequence.                                 *)
Pc == { "idle", "probe", "ask", "ask_revision",
        "takeover", "bind", "bind_notified", "restore_peer", "commit_local",
        "release", "handoff", "restore", "commit_peer",
        "rebind", "unbind", "stop_release" }

(* POST /api/v1/ha/peer/activate: who asked, which gateway is to be        *)
(* active, how far the handler is, and whether somebody waits for the      *)
(* answer.                                                                 *)
Call == [ from : Node, thread : Thread, gateway : Node,
          stage : {"sent", "applied", "ok", "failed"}, live : BOOLEAN ]

VARIABLES
    active,    \* active[n]: document ha_active_gateway of n
    revision,  \* revision[n]: the revision of that document
    vip,       \* vip[n]: the VIP is an address of n's device
    up,        \* up[n]: the daemon of n runs
    stopping,  \* stopping[n]: shutdown::requested()
    link,      \* packets pass between the gateways
    session,   \* session[n]: state of the BFD session of n
    bfd,       \* bfd[n]: the published status, STATUS.state
    queue,     \* queue[n]: election requests, each its peer_was_up
    pc,        \* pc[n][t]: where thread t of n is
    asked,     \* asked[n]: local revision an election compares with
    calls,     \* activation requests that exist
    clock,     \* time, counted in writes of the selection
    seen,      \* history: seen[n], the session was Up since n started
    switches,  \* operator requests so far
    outages,   \* link cuts, crashes and stops so far
    losses,    \* losses so far
    viperrors  \* failed changes of the VIP so far

data == <<active, revision, clock>>
bfdVars == <<session, bfd, queue, seen>>
bounds == <<switches, outages, losses, viperrors>>
vars == <<active, revision, vip, up, stopping, link, session, bfd, queue, pc,
          asked, calls, clock, seen, switches, outages, losses, viperrors>>

-----------------------------------------------------------------------------
(* The BFD loop and the API server of n work.                              *)
alive(n)   == up[n] /\ ~stopping[n]
reaches(n) == link /\ up[Peer[n]]

local_gateway_is_active(n) == active[n] = n

busy(n) == \E t \in Thread : pc[n][t] # "idle"

(* Nothing is going on: both daemons run and see each other, and no        *)
(* thread, election or request is pending.                                 *)
Quiet ==
    /\ link /\ calls = {}
    /\ \A n \in Node :
        /\ alive(n) /\ session[n] = "Up" /\ bfd[n] = "up" /\ queue[n] = <<>>
        /\ ~busy(n) /\ vip[n] = local_gateway_is_active(n)

(* With Apart, operators act, daemons end and the link breaks only while   *)
(* the pair is at rest, and an outage lasts until its effects are over.    *)
MayDisturb == Apart => Quiet

settled(n) ==
    \/ ~up[n]
    \/ session[n] = "Down" /\ bfd[n] = "down" /\ queue[n] = <<>> /\ ~busy(n)

MayRecover == Apart => calls = {} /\ \A n \in Node : settled(n)

(* write_active_gateway with next_revision: the wall clock, or one more    *)
(* than the last revision if the clock is not ahead of it.                 *)
write_active_gateway(n, gateway) ==
    /\ clock' = clock + 1
    /\ active' = [active EXCEPT ![n] = gateway]
    /\ revision' = [revision EXCEPT ![n] = IF clock + Skew[n] >= @ THEN clock + 1 + Skew[n]
                                                                   ELSE @ + 1]

(* Mutant: the channel takes any number of requests.                       *)
queue_unbounded(n, peer_was_up) == queue' = [queue EXCEPT ![n] = Append(@, peer_was_up)]

(* try_send: a request that finds the channel full is dropped.             *)
queue_election(n, peer_was_up) ==
    queue' = [queue EXCEPT ![n] = IF Len(@) < QueueCap THEN Append(@, peer_was_up) ELSE @]

Goto(n, t, label) == pc' = [pc EXCEPT ![n][t] = label]

(* The switchover of thread t ends with an error: nothing else happens,    *)
(* except that a daemon that stops releases its VIP.                       *)
Fail(n, t) == Goto(n, t, IF t = "main" THEN "stop_release" ELSE "idle")

(* post_peer_json: nobody listens if the daemon of the peer is down.       *)
Notify(n, t, gateway) ==
    calls' = calls \cup {[ from |-> n, thread |-> t, gateway |-> gateway, live |-> TRUE,
                           stage |-> IF up[Peer[n]] THEN "sent" ELSE "failed" ]}

-----------------------------------------------------------------------------
(* The BFD session.                                                        *)

(* Session::on_packet: state after a control packet that carries the state *)
(* of the peer (RFC 5880, 6.8.6).                                          *)
on_packet(mine, theirs) ==
    CASE mine = "Down" /\ theirs = "Down" -> "Init"
      [] mine = "Down" /\ theirs = "Init" -> "Up"
      [] mine = "Init" /\ theirs \in {"Init", "Up"} -> "Up"
      [] mine = "Up" /\ theirs = "Down" -> "Down"
      [] OTHER -> mine

(* A packet of the peer arrives.  Only a transition queues an election.    *)
Hear(n) ==
    LET s == on_packet(session[n], session[Peer[n]])
        status == IF s = "Up" THEN "up" ELSE "negotiating"
    IN  /\ alive(n) /\ alive(Peer[n]) /\ link
        /\ session' = [session EXCEPT ![n] = s]
        /\ bfd' = [bfd EXCEPT ![n] = status]
        /\ seen' = [seen EXCEPT ![n] = @ \/ s = "Up"]
        /\ IF s # session[n] THEN queue_election(n, s = "Up") ELSE UNCHANGED queue
        /\ UNCHANGED <<data, vip, up, stopping, link, pc, asked, calls, bounds>>

(* Mutant: the timeout queues an election although the peer was not up.    *)
ExpireAlways(n) ==
    /\ alive(n) /\ (session[n] # "Down" \/ bfd[n] # "down")
    /\ IF link /\ alive(Peer[n])
       THEN losses < MaxLosses /\ losses' = losses + 1
       ELSE UNCHANGED losses
    /\ session' = [session EXCEPT ![n] = "Down"]
    /\ bfd' = [bfd EXCEPT ![n] = "down"]
    /\ queue_election(n, TRUE)
    /\ UNCHANGED <<data, vip, up, stopping, link, pc, asked, calls, seen, switches, outages, viperrors>>

(* The detection time passes without a packet.                             *)
Expire(n) ==
    /\ alive(n) /\ (session[n] # "Down" \/ bfd[n] # "down")
    /\ IF link /\ alive(Peer[n])
       THEN losses < MaxLosses /\ losses' = losses + 1
       ELSE UNCHANGED losses
    /\ session' = [session EXCEPT ![n] = "Down"]
    /\ bfd' = [bfd EXCEPT ![n] = "down"]
    /\ IF session[n] = "Up" THEN queue_election(n, TRUE) ELSE UNCHANGED queue
    /\ UNCHANGED <<data, vip, up, stopping, link, pc, asked, calls, seen, switches, outages, viperrors>>

(* set_error: a send or a receive fails.                                   *)
SocketError(n) ==
    /\ alive(n) /\ bfd[n] # "error" /\ losses < MaxLosses
    /\ bfd' = [bfd EXCEPT ![n] = "error"]
    /\ losses' = losses + 1
    /\ UNCHANGED <<data, vip, up, stopping, link, session, queue, pc, asked, calls, seen,
                   switches, outages, viperrors>>

-----------------------------------------------------------------------------
(* reconcile_election on the worker's thread.                              *)

should_promote_local(n, state, peer_was_up, active_is_peer, active_peer_reachable) ==
    /\ state = "down"
    /\ \/ peer_was_up
       \/ active_is_peer /\ ~active_peer_reachable /\ Preferred # n
       \/ ~active_is_peer /\ Preferred = n

(* The status and the selection are read now.  A MASTER whose session is   *)
(* up asks the peer for its state; a BACKUP that did not lose a session    *)
(* probes the peer, which matters only if the status was down.             *)
ElectionTake(n) ==
    LET peer_was_up == Head(queue[n])
        already_local == local_gateway_is_active(n)
    IN  /\ alive(n) /\ pc[n]["election"] = "idle" /\ queue[n] # <<>>
        /\ queue' = [queue EXCEPT ![n] = Tail(@)]
        /\ \/ /\ bfd[n] = "up" /\ already_local
              /\ Goto(n, "election", "ask")
              /\ asked' = [asked EXCEPT ![n] = revision[n]]
           \/ /\ ~already_local /\ peer_was_up
              /\ Goto(n, "election", IF should_promote_local(n, bfd[n], TRUE, TRUE, FALSE)
                                     THEN "bind" ELSE "idle")
              /\ UNCHANGED asked
           \/ /\ ~already_local /\ ~peer_was_up
              /\ Goto(n, "election", IF bfd[n] = "down" THEN "probe" ELSE "idle")
              /\ UNCHANGED asked
           \/ already_local /\ bfd[n] # "up" /\ UNCHANGED <<pc, asked>>
        /\ UNCHANGED <<data, vip, up, stopping, link, session, bfd, calls, seen, bounds>>

(* peer_control_plane_reachable, and what follows for a status that was    *)
(* down when it was read.                                                  *)
Probe(n) ==
    /\ up[n] /\ pc[n]["election"] = "probe"
    /\ \E reachable \in BOOLEAN :
        /\ reachable => reaches(n)
        /\ IF reaches(n) /\ ~reachable THEN losses < MaxLosses /\ losses' = losses + 1
                                       ELSE UNCHANGED losses
        /\ Goto(n, "election", IF should_promote_local(n, "down", FALSE, TRUE, reachable)
                               THEN "bind" ELSE "idle")
    /\ UNCHANGED <<data, vip, up, stopping, link, bfdVars, asked, calls, switches, outages, viperrors>>

(* GET /api/v1/ha/peer/status: native::ha::state reads the selection ...   *)
AskState(n) ==
    /\ up[n] /\ reaches(n) /\ pc[n]["election"] = "ask"
    /\ IF local_gateway_is_active(Peer[n])
       THEN Goto(n, "election", "ask_revision") /\ UNCHANGED asked
       ELSE Goto(n, "election", "idle") /\ asked' = [asked EXCEPT ![n] = 0]
    /\ UNCHANGED <<data, vip, up, stopping, link, bfdVars, calls, bounds>>

(* Mutant: the local revision is compared with itself.                     *)
reports_own_revision(n) == revision[n] > asked[n]

peer_reports_newer_master(n) == revision[Peer[n]] > asked[n]

(* ... and then its revision.  A newer MASTER is adopted.                  *)
AskRevision(n) ==
    /\ up[n] /\ reaches(n) /\ pc[n]["election"] = "ask_revision"
    /\ Goto(n, "election", IF peer_reports_newer_master(n) THEN "release" ELSE "idle")
    /\ asked' = [asked EXCEPT ![n] = 0]
    /\ UNCHANGED <<data, vip, up, stopping, link, bfdVars, calls, bounds>>

(* The peer does not answer in time.                                       *)
AskFails(n) ==
    /\ up[n] /\ pc[n]["election"] \in {"ask", "ask_revision"}
    /\ IF reaches(n) THEN losses < MaxLosses /\ losses' = losses + 1 ELSE UNCHANGED losses
    /\ Goto(n, "election", "idle")
    /\ asked' = [asked EXCEPT ![n] = 0]
    /\ UNCHANGED <<data, vip, up, stopping, link, bfdVars, calls, switches, outages, viperrors>>

-----------------------------------------------------------------------------
(* switch_active_gateway_inner, on whichever thread called it.             *)

(* POST /api/v1/ha/failover: coordinated, to either gateway.               *)
Failover(n, target) ==
    /\ up[n] /\ pc[n]["api"] = "idle" /\ switches < MaxSwitches /\ MayDisturb
    /\ switches' = switches + 1
    /\ \/ /\ target = n /\ ~local_gateway_is_active(n)
          /\ Notify(n, "api", n) /\ Goto(n, "api", "takeover")
       \/ /\ target = n /\ local_gateway_is_active(n)
          /\ Goto(n, "api", "bind") /\ UNCHANGED calls
       \/ /\ target = Peer[n]
          /\ Goto(n, "api", "release") /\ UNCHANGED calls
    /\ UNCHANGED <<data, vip, up, stopping, link, bfdVars, asked, outages, losses, viperrors>>

(* The VIP is added to the device of n or removed from it, over rtnetlink. *)
bind_vip_on_device(n) == vip' = [vip EXCEPT ![n] = TRUE]
release_vip_on_device(n) == vip' = [vip EXCEPT ![n] = FALSE]
vip_bound_on_device(n) == vip[n]

(* The bind fails, or it succeeds and its announcement by gratuitous ARP   *)
(* fails.                                                                  *)
announce_vip_fails(n) == \E bound \in BOOLEAN : vip' = [vip EXCEPT ![n] = bound]

(* apply_local_ha_role(true): bind the VIP and announce it.                *)
Bind(n, t) ==
    /\ up[n] /\ pc[n][t] \in {"bind", "bind_notified"}
    /\ bind_vip_on_device(n)
    /\ Goto(n, t, "commit_local")
    /\ UNCHANGED <<data, up, stopping, link, bfdVars, asked, calls, bounds>>

(* Mutant: the peer is not told to take its role back.                     *)
BindFailsAlone(n, t) ==
    /\ up[n] /\ pc[n][t] \in {"bind", "bind_notified"}
    /\ ~vip[n] /\ viperrors < MaxVipErrors
    /\ viperrors' = viperrors + 1
    /\ announce_vip_fails(n)
    /\ Fail(n, t) /\ UNCHANGED calls
    /\ UNCHANGED <<data, up, stopping, link, bfdVars, asked, switches, outages, losses>>

(* Binding fails, or the announcement after it; a peer that was told to    *)
(* step down is told to take its role back.                                *)
BindFails(n, t) ==
    /\ up[n] /\ pc[n][t] \in {"bind", "bind_notified"}
    /\ ~vip[n] /\ viperrors < MaxVipErrors
    /\ viperrors' = viperrors + 1
    /\ announce_vip_fails(n)
    /\ IF pc[n][t] = "bind_notified"
       THEN Notify(n, t, Peer[n]) /\ Goto(n, t, "restore_peer")
       ELSE Fail(n, t) /\ UNCHANGED calls
    /\ UNCHANGED <<data, up, stopping, link, bfdVars, asked, switches, outages, losses>>

CommitLocal(n, t) ==
    /\ up[n] /\ pc[n][t] = "commit_local"
    /\ write_active_gateway(n, n)
    /\ Goto(n, t, "idle")
    /\ UNCHANGED <<vip, up, stopping, link, bfdVars, asked, calls, bounds>>

(* apply_local_ha_role(false), then the peer is told to take over.         *)
Release(n, t) ==
    /\ up[n] /\ pc[n][t] = "release"
    /\ release_vip_on_device(n)
    /\ Notify(n, t, Peer[n])
    /\ Goto(n, t, "handoff")
    /\ UNCHANGED <<data, up, stopping, link, bfdVars, asked, bounds>>

(* The VIP cannot be removed: nobody is told.                              *)
ReleaseFails(n, t) ==
    /\ up[n] /\ pc[n][t] = "release" /\ vip[n] /\ viperrors < MaxVipErrors
    /\ viperrors' = viperrors + 1
    /\ Fail(n, t)
    /\ UNCHANGED <<data, vip, up, stopping, link, bfdVars, asked, calls, switches, outages, losses>>

(* restore_local_master_after_failed_handoff.                              *)
Restore(n, t) ==
    /\ up[n] /\ pc[n][t] = "restore"
    /\ \/ bind_vip_on_device(n) /\ UNCHANGED viperrors
       \/ /\ ~vip[n] /\ viperrors < MaxVipErrors /\ viperrors' = viperrors + 1
          /\ announce_vip_fails(n)
    /\ Fail(n, t)
    /\ UNCHANGED <<data, up, stopping, link, bfdVars, asked, calls, switches, outages, losses>>

CommitPeer(n, t) ==
    /\ up[n] /\ pc[n][t] = "commit_peer"
    /\ write_active_gateway(n, Peer[n])
    /\ Goto(n, t, "idle")
    /\ UNCHANGED <<vip, up, stopping, link, bfdVars, asked, calls, bounds>>

(* What the caller does with the outcome of its call.                      *)
Return(n, t, ok) ==
    \/ pc[n][t] = "takeover" /\ Goto(n, t, IF ok THEN "bind_notified" ELSE "idle")
    \/ pc[n][t] = "restore_peer" /\ Goto(n, t, "idle")
    \/ pc[n][t] = "handoff" /\ Goto(n, t, IF ok THEN "commit_peer" ELSE "restore")

Answer(c) ==
    /\ c.live /\ c.stage \in {"ok", "failed"} /\ link /\ up[c.from]
    /\ Return(c.from, c.thread, c.stage = "ok")
    /\ calls' = calls \ {c}
    /\ UNCHANGED <<data, vip, up, stopping, link, bfdVars, asked, bounds>>

(* The caller gives up; what it asked for may still be executed.           *)
CallFails(c) ==
    /\ c.live /\ up[c.from]
    /\ IF reaches(c.from) THEN losses < MaxLosses /\ losses' = losses + 1 ELSE UNCHANGED losses
    /\ Return(c.from, c.thread, FALSE)
    /\ calls' = IF c.stage \in {"sent", "applied"}
                THEN (calls \ {c}) \cup {[c EXCEPT !.live = FALSE]}
                ELSE calls \ {c}
    /\ UNCHANGED <<data, vip, up, stopping, link, bfdVars, asked, switches, outages, viperrors>>

-----------------------------------------------------------------------------
(* peer_activate, on a worker of the gateway that was asked.               *)

Advance(c, stage) ==
    calls' = (calls \ {c}) \cup
             (IF c.live \/ stage = "applied" THEN {[c EXCEPT !.stage = stage]} ELSE {})

(* The role is applied; a release, a bind or its announcement may fail     *)
(* (HTTP 500).                                                             *)
Activate(c) ==
    LET n == Peer[c.from]
    IN  /\ c.stage = "sent" /\ up[n] /\ link
        /\ \/ /\ vip' = [vip EXCEPT ![n] = c.gateway = n]
              /\ Advance(c, "applied") /\ UNCHANGED viperrors
           \/ /\ vip[n] # (c.gateway = n)
              /\ viperrors < MaxVipErrors /\ viperrors' = viperrors + 1
              /\ \E bound \in BOOLEAN : (bound \/ ~vip[n]) /\ vip' = [vip EXCEPT ![n] = bound]
              /\ Advance(c, "failed")
        /\ UNCHANGED <<data, up, stopping, link, bfdVars, pc, asked, switches, outages, losses>>

ActivateCommit(c) ==
    LET n == Peer[c.from]
    IN  /\ c.stage = "applied" /\ up[n]
        /\ write_active_gateway(n, c.gateway)
        /\ Advance(c, "ok")
        /\ UNCHANGED <<vip, up, stopping, link, bfdVars, pc, asked, bounds>>

(* An abandoned request never reached the peer.                            *)
Lost(c) ==
    /\ ~c.live /\ c.stage = "sent"
    /\ calls' = calls \ {c}
    /\ UNCHANGED <<data, vip, up, stopping, link, bfdVars, pc, asked, bounds>>

-----------------------------------------------------------------------------
(* Mutant: the watch loop binds a missing VIP and keeps a stray one.       *)
WatchMissing(n) ==
    /\ alive(n) /\ pc[n]["main"] = "idle"
    /\ ~vip_bound_on_device(n) /\ local_gateway_is_active(n)
    /\ Goto(n, "main", "rebind")
    /\ UNCHANGED <<data, vip, up, stopping, link, bfdVars, asked, calls, bounds>>

(* The main loop: reconcile_vip reads what is bound and who is active ...  *)
Watch(n) ==
    /\ alive(n) /\ pc[n]["main"] = "idle"
    /\ vip_bound_on_device(n) # local_gateway_is_active(n)
    /\ Goto(n, "main", IF vip_bound_on_device(n) THEN "unbind" ELSE "rebind")
    /\ UNCHANGED <<data, vip, up, stopping, link, bfdVars, asked, calls, bounds>>

(* ... and then binds or releases.                                         *)
ReconcileVip(n) ==
    /\ up[n]
    /\ \/ /\ pc[n]["main"] = "unbind"
          /\ release_vip_on_device(n) /\ UNCHANGED viperrors
       \/ /\ pc[n]["main"] = "rebind"
          /\ bind_vip_on_device(n) /\ UNCHANGED viperrors
       \/ /\ pc[n]["main"] \in {"unbind", "rebind"} /\ viperrors < MaxVipErrors /\ viperrors' = viperrors + 1
          /\ UNCHANGED vip
    /\ Goto(n, "main", "idle")
    /\ UNCHANGED <<data, up, stopping, link, bfdVars, asked, calls, switches, outages, losses>>

(* handoff_or_release_on_shutdown: a MASTER hands over first.              *)
Stop(n) ==
    /\ alive(n) /\ pc[n]["main"] = "idle" /\ outages < MaxOutages /\ MayDisturb
    /\ outages' = outages + 1
    /\ stopping' = [stopping EXCEPT ![n] = TRUE]
    /\ Goto(n, "main", IF local_gateway_is_active(n) THEN "release" ELSE "stop_release")
    /\ UNCHANGED <<data, vip, up, link, bfdVars, asked, calls, switches, losses, viperrors>>

(* release_local_vip after a handoff that failed or was not needed.        *)
StopRelease(n) ==
    /\ up[n] /\ pc[n]["main"] = "stop_release"
    /\ \/ release_vip_on_device(n) /\ UNCHANGED viperrors
       \/ /\ vip[n] /\ viperrors < MaxVipErrors /\ viperrors' = viperrors + 1
          /\ UNCHANGED vip
    /\ Goto(n, "main", "idle")
    /\ UNCHANGED <<data, up, stopping, link, bfdVars, asked, calls, switches, outages, losses>>

(* The requests of n are abandoned, the ones it was to answer fail.        *)
calls_without(n) ==
    { IF c.from = n THEN [c EXCEPT !.live = FALSE] ELSE [c EXCEPT !.stage = "failed"] :
      c \in {d \in calls : IF d.from = n THEN d.stage \in {"sent", "applied"} ELSE d.live} }

(* The process ends: its threads, its session and its answers are gone.    *)
ProcessEnds(n) ==
    /\ up' = [up EXCEPT ![n] = FALSE]
    /\ stopping' = [stopping EXCEPT ![n] = FALSE]
    /\ session' = [session EXCEPT ![n] = "Down"]
    /\ bfd' = [bfd EXCEPT ![n] = "down"]
    /\ queue' = [queue EXCEPT ![n] = <<>>]
    /\ pc' = [pc EXCEPT ![n] = [t \in Thread |-> "idle"]]
    /\ asked' = [asked EXCEPT ![n] = 0]
    /\ seen' = [seen EXCEPT ![n] = FALSE]
    /\ calls' = calls_without(n)

Exit(n) ==
    /\ up[n] /\ stopping[n] /\ pc[n]["main"] = "idle"
    /\ ProcessEnds(n)
    /\ UNCHANGED <<data, vip, link, bounds>>

(* The daemon is killed and leaves its addresses, or the host goes down.   *)
Crash(n) ==
    /\ up[n] /\ outages < MaxOutages /\ MayDisturb
    /\ outages' = outages + 1
    /\ \E kept \in BOOLEAN : vip' = [vip EXCEPT ![n] = @ /\ kept]
    /\ ProcessEnds(n)
    /\ UNCHANGED <<data, link, switches, losses, viperrors>>

(* Restart=always; reconcile_vip runs before any thread is spawned.        *)
Restart(n) ==
    /\ ~up[n] /\ MayRecover
    /\ up' = [up EXCEPT ![n] = TRUE]
    /\ vip' = [vip EXCEPT ![n] = local_gateway_is_active(n)]
    /\ UNCHANGED <<data, stopping, link, bfdVars, pc, asked, calls, bounds>>

Cut ==
    /\ link /\ outages < MaxOutages /\ MayDisturb
    /\ link' = FALSE
    /\ outages' = outages + 1
    /\ UNCHANGED <<data, vip, up, stopping, bfdVars, pc, asked, calls, switches, losses, viperrors>>

Heal ==
    /\ ~link /\ MayRecover
    /\ link' = TRUE
    /\ UNCHANGED <<data, vip, up, stopping, bfdVars, pc, asked, calls, bounds>>

-----------------------------------------------------------------------------
Init ==
    \E master \in Node :
        /\ active = [n \in Node |-> master]
        /\ revision = Skew
        /\ vip = [n \in Node |-> n = master]
        /\ up = [n \in Node |-> TRUE]
        /\ stopping = [n \in Node |-> FALSE]
        /\ link = TRUE
        /\ session = [n \in Node |-> "Down"]
        /\ bfd = [n \in Node |-> "down"]
        /\ queue = [n \in Node |-> <<>>]
        /\ pc = [n \in Node |-> [t \in Thread |-> "idle"]]
        /\ asked = [n \in Node |-> 0]
        /\ calls = {}
        /\ clock = 0
        /\ seen = [n \in Node |-> FALSE]
        /\ losses = 0
        /\ \E s \in Spent : switches = s.switches /\ outages = s.outages /\ viperrors = s.viperrors

BfdLoop(n) == Hear(n) \/ Expire(n) \/ SocketError(n)

SwitchStep(n, t) ==
    \/ Bind(n, t) \/ BindFails(n, t) \/ CommitLocal(n, t)
    \/ Release(n, t) \/ ReleaseFails(n, t) \/ Restore(n, t) \/ CommitPeer(n, t)
    \/ \E c \in calls : c.from = n /\ c.thread = t /\ (Answer(c) \/ CallFails(c))

ElectionWorker(n) ==
    \/ ElectionTake(n) \/ Probe(n) \/ AskState(n) \/ AskRevision(n) \/ AskFails(n)
    \/ SwitchStep(n, "election")

MainLoop(n) == Watch(n) \/ ReconcileVip(n) \/ StopRelease(n) \/ Exit(n) \/ SwitchStep(n, "main")

PeerActivate(n) ==
    \E c \in calls : c.from = Peer[n] /\ (Activate(c) \/ ActivateCommit(c))

Next ==
    \/ \E n \in Node :
        \/ BfdLoop(n) \/ ElectionWorker(n) \/ SwitchStep(n, "api") \/ MainLoop(n)
        \/ PeerActivate(n) \/ Stop(n) \/ Crash(n) \/ Restart(n)
        \/ \E target \in Node : Failover(n, target)
    \/ \E c \in calls : Lost(c)
    \/ Cut \/ Heal

Spec == Init /\ [][Next]_vars

(* Threads that can run do run, requests that arrived are handled, and     *)
(* systemd restarts the daemon.  No loss, failure or outage has to happen, *)
(* and a cut link need not heal.                                           *)
Fairness ==
    \A n \in Node :
        /\ WF_vars(BfdLoop(n) /\ UNCHANGED bounds)
        /\ WF_vars(ElectionWorker(n) /\ UNCHANGED bounds)
        /\ WF_vars(SwitchStep(n, "api") /\ UNCHANGED bounds)
        /\ WF_vars(MainLoop(n) /\ UNCHANGED bounds)
        /\ WF_vars(PeerActivate(n) /\ UNCHANGED bounds)
        /\ WF_vars(Restart(n))

FairSpec == Spec /\ Fairness

-----------------------------------------------------------------------------
TypeOK ==
    /\ active \in [Node -> Node] /\ revision \in [Node -> Nat]
    /\ vip \in [Node -> BOOLEAN] /\ up \in [Node -> BOOLEAN]
    /\ stopping \in [Node -> BOOLEAN] /\ link \in BOOLEAN
    /\ session \in [Node -> {"Down", "Init", "Up"}]
    /\ bfd \in [Node -> {"down", "negotiating", "up", "error"}]
    /\ queue \in [Node -> Seq(BOOLEAN)] /\ \A n \in Node : Len(queue[n]) <= QueueCap
    /\ pc \in [Node -> [Thread -> Pc]] /\ asked \in [Node -> Nat]
    /\ calls \subseteq Call
    /\ clock \in Nat /\ seen \in [Node -> BOOLEAN]
    /\ switches \in Nat /\ outages \in Nat /\ losses \in Nat /\ viperrors \in Nat

Owner(n) == active[n] = n /\ vip[n] /\ active[Peer[n]] = n /\ ~vip[Peer[n]]

(* Disturbances come apart, nothing is lost on a healthy link, the clocks  *)
(* agree, and a behaviour has outages or one failing change of the VIP.    *)
Gentle ==
    /\ Apart /\ MaxLosses = 0 /\ \A n \in Node : Skew[n] = Skew[Peer[n]]
    /\ \A s \in Spent :
          \/ MaxVipErrors <= s.viperrors
          \/ MaxOutages <= s.outages /\ MaxVipErrors <= s.viperrors + 1

(* When a switchover, its rollback, a promotion or an adoption is over and *)
(* the pair is at rest, exactly one gateway holds the VIP and both name it *)
(* (switch_active_gateway_inner, reconcile_election).                      *)
QuietHasOneOwner == Quiet => \E n \in Node : Owner(n)

(* Once both daemons run and reach each other for good, one gateway comes  *)
(* to hold the VIP alone and keeps it: elections queued on transitions are *)
(* enough (queue_election, peer_reports_newer_master).                     *)
EventuallyOneOwner ==
    <>[](link /\ \A n \in Node : alive(n)) => <>[](\E n \in Node : Owner(n))

(* Whatever was lost, given up or failed, the VIP of each gateway ends up  *)
(* on its device exactly if its stored selection names the gateway: the    *)
(* watch loop repairs a role applied without its commit, a bind that       *)
(* failed, an activation executed after its caller gave up, and its own    *)
(* late step on an old read (reconcile_vip, switch_active_gateway_inner).  *)
(* It does not say that the selections of the two agree.                   *)
VipFollowsSelection ==
    \A n \in Node : <>[](vip[n] = local_gateway_is_active(n))

(* The election thread of the preferred gateway starts a takeover only if  *)
(* the session was Up since the daemon started: with no session since its  *)
(* restart it leaves the VIP with the peer (should_promote_local,          *)
(* queue_election).  It restrains that thread only: a restarted daemon     *)
(* whose own stored selection still names it binds the VIP at once         *)
(* (Restart), and an operator may always switch.                           *)
StartupNonPreemptive ==
    [][\A n \in Node :
          n = Preferred /\ pc[n]["election"] # "bind" /\ pc'[n]["election"] = "bind" => seen[n]]_vars
=============================================================================
