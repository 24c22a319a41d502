---------------------------- MODULE GatewayLoop ----------------------------
(***************************************************************************)
(* The reconcile loop of the gateway role (role/gateway.rs) with the two   *)
(* threads it shares state with: the API worker that commits business      *)
(* configuration and marks it dirty, and the health probe worker           *)
(* (provider/native/probe.rs).  Both the loop and the probe worker write   *)
(* the pinned maps of the native DNAT datapath (linux/native_dnat.rs);     *)
(* they exclude each other with the redirect cache's writer lock, but they *)
(* read configuration and health before and between the map writes.        *)
(*                                                                         *)
(* One listener and its target group stand for the business configuration: *)
(* whether the listener exists, the group's probe, and its targets.  A     *)
(* target is a backend; an automation template, when there is one, makes   *)
(* the group of the backends that are online.  The configuration file is   *)
(* its version, which is its modification time as well; what it determines *)
(* is the DSCP value in the listener map and in the marker.                *)
(***************************************************************************)
EXTENDS ProbeVerdict, Sequences, FiniteSets

CONSTANTS
    Order,       \* every backend, in the order a group lists them
    Probe,       \* probe definitions a monitored group may carry
    NoProbe,     \* the group is not monitored
    NoTarget,    \* an empty slot of the target map
    Retries,     \* consecutive failures before a target is unhealthy
    FirstConfig, \* configurations the process may find when it first starts
    MaxRounds,   \* bound: probe rounds that measure something
    MaxEvents    \* bound: commits, file edits, node changes, crashes, failed
                 \* steps and lost kernel objects together

VARIABLES
    config,   \* listeners/config and target_groups/config
    editor,   \* an API worker: "idle", or "committed" and not yet marked dirty
    dirty,    \* PROXY_STATE_DIRTY
    health,   \* target_health of the native_proxy_state document
    online,   \* backends with an active subscription
    auto,     \* an enabled automation template generates the group
    file,     \* version of the configuration file
    vxlan,    \* hub device: [up, peers]
    dnat,     \* pinned maps and filters of the native datapath
    marker,   \* the DSCP marker: [attached, pinned, port, dscp]
    writer,   \* who holds CACHE_WRITER
    main,     \* the loop: its position and its memory
    probe,    \* the probe worker: its position and its memory
    stale,    \* history: since the last apply began, one failed or something was
              \* written from a reading that was outdated when it was used
    rounds, events

store == <<config, health>>
world == <<editor, online, auto, file>>
kernel == <<vxlan, dnat, marker>>
budget == <<rounds, events>>
vars == <<store, world, kernel, dirty, writer, main, probe, stale, budget>>

Target == {Order[i] : i \in 1..Len(Order)}
Position == 1..Len(Order)
Health == {"absent", "unknown", "ok", "nok"}

Config == [bound : BOOLEAN, probe : Probe \cup {NoProbe}, group : SUBSET Target]

ASSUME LoopAssumption == Retries \in Nat \ {0} /\ FirstConfig \subseteq Config

(* A group lists its backends in the order of their names. *)
Listed(S) == SelectSeq(Order, LAMBDA t : t \in S)

(* The native listener is left out of the datapath while its group is empty. *)
listeners_from_config(c) == IF c.bound THEN Listed(c.group) ELSE <<>>

(* Groups are probed while a listener refers to them and monitoring is on. *)
scheduled_targets(c) ==
    IF c.bound /\ c.probe # NoProbe THEN c.group ELSE {}

(* A record that does not exist, or whose probe has no verdict, counts as usable. *)
native_target_is_active(h, t) == h[t] # "nok"
Active(c, h) == {i \in 1..Len(listeners_from_config(c)) :
                    native_target_is_active(h, listeners_from_config(c)[i])}
ActiveWeight(c, h) == {listeners_from_config(c)[i] : i \in Active(c, h)}
Slots(c, h) == [i \in Position |-> IF i \in Active(c, h)
                               THEN listeners_from_config(c)[i] ELSE NoTarget]

(* reconcile_listener_state: monitored targets keep what was observed,     *)
(* unmonitored ones are usable, and records nobody refers to are dropped.  *)
rebuild_listener_state(c, h) ==
    [t \in Target |->
        CASE ~c.bound \/ t \notin c.group -> "absent"
          [] c.bound /\ t \in c.group /\ c.probe = NoProbe -> "ok"
          [] OTHER -> IF h[t] = "absent" THEN "unknown" ELSE h[t]]

NoDnat == [attached |-> FALSE, count |-> 0, weight |-> {}, dscp |-> 0,
           slot |-> [i \in Position |-> NoTarget], bucket |-> {}]
NoMarker == [attached |-> FALSE, pinned |-> FALSE, port |-> FALSE, dscp |-> 0]

(* The loop's memory when the process starts. *)
NoConfig == [bound |-> FALSE, probe |-> NoProbe, group |-> {}]
Booted == [pc |-> "start", boot |-> TRUE, work |-> NoConfig,
           loaded |-> 0, seen |-> 0, known |-> {}, pending |-> "none", full |-> FALSE,
           again |-> FALSE, cached |-> FALSE, owned |-> FALSE, current |-> FALSE]
Rested(def, failures) ==
    [pc |-> "idle", cfg |-> NoConfig, outcome |-> [t \in Target |-> "none"], def |-> def,
     failures |-> failures, observed |-> [t \in Target |-> "absent"]]
Resting == Rested([t \in Target |-> NoProbe], [t \in Target |-> 0])

Init ==
    /\ config \in FirstConfig
    /\ auto \in BOOLEAN
    /\ online = Target
    /\ auto => config.group = Target
    /\ editor = "idle" /\ dirty = FALSE /\ file = 1
    /\ health = [t \in Target |-> "absent"]
    /\ vxlan = [up |-> FALSE, peers |-> {}] /\ dnat = NoDnat /\ marker = NoMarker
    /\ writer = "free" /\ main = Booted /\ probe = Resting
    /\ stale = FALSE
    /\ rounds = 0 /\ events = 0

(* The lock both map writers take (redirect::begin_mutation). *)
MayWrite(who) == writer = who \/ writer = "free"

Goto(p) == main' = [main EXCEPT !.pc = p]
Event == events < MaxEvents /\ events' = events + 1

-----------------------------------------------------------------------------
(* The world around the loop. *)

(* An API worker commits listeners or groups; a generated group is edited  *)
(* by its template only.  The dirty flag follows in a step of its own.     *)
Commit ==
    /\ editor = "idle" /\ ~main.boot /\ Event
    /\ \/ \E b \in BOOLEAN \ {config.bound} : config' = [config EXCEPT !.bound = b]
       \/ \E p \in (Probe \cup {NoProbe}) \ {config.probe} : config' = [config EXCEPT !.probe = p]
       \/ /\ ~auto
          /\ \E t \in Target : config' = [config EXCEPT !.group =
                IF t \in config.group THEN config.group \ {t} ELSE config.group \cup {t}]
    /\ editor' = "committed"
    /\ UNCHANGED <<health, dirty, online, auto, file, kernel, writer, main, probe,
                   stale, rounds>>

mark_state_dirty ==
    /\ editor = "committed" /\ editor' = "idle" /\ dirty' = TRUE
    /\ UNCHANGED <<store, online, auto, file, kernel, writer, main, probe, stale, budget>>

EditFile ==
    /\ Event /\ file' = file + 1
    /\ UNCHANGED <<store, editor, online, auto, dirty, kernel, writer, main, probe,
                   stale, rounds>>

NodeChange ==
    /\ Event
    /\ \E t \in Target :
          online' = IF t \in online THEN online \ {t} ELSE online \cup {t}
    /\ UNCHANGED <<store, editor, auto, file, dirty, kernel, writer, main, probe,
                   stale, rounds>>

(* Somebody removes the hub device or the marker's filter. *)
KernelObjectLost ==
    /\ Event
    /\ \/ vxlan.up /\ vxlan' = [up |-> FALSE, peers |-> {}] /\ UNCHANGED marker
       \/ marker.attached /\ marker' = [marker EXCEPT !.attached = FALSE] /\ UNCHANGED vxlan
    /\ UNCHANGED <<store, world, dnat, dirty, writer, main, probe, stale, rounds>>

(* The process dies and is started again: the store, the filters and the   *)
(* pinned maps stay, flag, locks and memory do not.                        *)
Restarted ==
    /\ main' = Booted /\ probe' = Resting /\ editor' = "idle" /\ dirty' = FALSE
    /\ writer' = "free" /\ stale' = FALSE
Crash ==
    /\ Event /\ Restarted
    /\ UNCHANGED <<store, online, auto, file, kernel, rounds>>

(* A requested stop takes the marker and the datapath down first. *)
Stop ==
    /\ main.pc = "top" /\ writer = "free" /\ Event
    /\ marker' = NoMarker /\ dnat' = NoDnat /\ Restarted
    /\ UNCHANGED <<store, online, auto, file, vxlan, rounds>>

-----------------------------------------------------------------------------
(* The loop, from its top to the decision to apply. *)

(* run before the loop: a fresh configuration, and a node change pending.  *)
(* The file's modification time is read after the apply (Finish).          *)
Start ==
    /\ main.pc = "start"
    /\ main' = [main EXCEPT !.pc = "network", !.loaded = file, !.known = online, !.pending = "new"]
    /\ UNCHANGED <<store, world, dirty, kernel, writer, probe, stale, budget>>

(* merge_active_backend_subscriptions: a change arms the debounce, which   *)
(* has elapsed by the next iteration (a longer wait repeats idle ones).    *)
MergeSubscriptions ==
    /\ main.pc = "top"
    /\ main' = [main EXCEPT !.pc = IF main.seen = file THEN "take" ELSE "file",
                            !.known = online, !.again = FALSE,
                            !.pending = CASE online # main.known -> "new"
                                          [] online = main.known /\ main.pending = "new" -> "due"
                                          [] OTHER -> main.pending]
    /\ UNCHANGED <<store, world, dirty, kernel, writer, probe, stale, budget>>

(* A file that is missing or does not load is tried again later. *)
FileUnread == Event /\ Goto("take")

(* Addresses, device or MTU cannot be discovered: the iteration ends. *)
AutoIpsUnresolved == Event /\ Goto("top")

(* The configuration becomes the file's, with the paired gateway and the
   subscriptions merged again. *)
MergePeers ==
    main' = [main EXCEPT !.pc = "mtime", !.loaded = file, !.known = online] /\ UNCHANGED events

(* A changed file is loaded; its modification time is read after that. *)
ReloadFile ==
    /\ main.pc = "file"
    /\ FileUnread \/ AutoIpsUnresolved \/ MergePeers
    /\ UNCHANGED <<store, world, dirty, kernel, writer, probe, stale, rounds>>

RecordMtime ==
    /\ main.pc = "mtime"
    /\ main' = [main EXCEPT !.pc = "take", !.seen = file, !.full = TRUE]
    /\ UNCHANGED <<store, world, dirty, kernel, writer, probe, stale, budget>>

(* The drift check looks at the hub device and at the marker only; a       *)
(* marker nobody asks for is detached.                                     *)
(* Mutant: it looks at the hub device alone. *)
heal_sees_vxlan_only == ~vxlan.up
heal_reapplies == ~vxlan.up \/ (main.cached /\ ~marker.attached)
LostMarker == main.owned /\ ~marker.attached

(* The flag is consumed here, before anything is applied; without a reason *)
(* to apply, the drift check may find one.  Before an apply, an attachment *)
(* whose filter is gone is dropped, pins and all.                          *)
take_state_dirty ==
    /\ main.pc = "take" /\ dirty' = FALSE
    /\ LET due == main.pending = "due"
           full == main.full \/ dirty \/ due
           apply == full \/ heal_reapplies
       IN  /\ main' = [main EXCEPT !.pc = IF apply THEN "network" ELSE "top", !.full = FALSE,
                                   !.pending = IF due THEN "none" ELSE main.pending,
                                   !.owned = main.owned /\ ~(apply /\ LostMarker)]
           /\ marker' = CASE apply /\ LostMarker -> NoMarker
                          [] ~apply /\ ~main.cached /\ marker.attached -> NoMarker
                          [] OTHER -> marker
           /\ stale' = (stale /\ ~apply)
    /\ UNCHANGED <<store, world, vxlan, dnat, writer, probe, budget>>

-----------------------------------------------------------------------------
(* apply_inner, one action for each thing it reads or writes. *)

(* A failed apply is logged and the iteration goes on with the automations.*)
(* During startup it ends the process, which is started again: no other    *)
(* thread runs yet.                                                        *)
ApplyFails(current) ==
    /\ Event
    /\ stale' = TRUE
    /\ main' = IF main.boot THEN Booted
               ELSE [main EXCEPT !.pc = "automate", !.current = current, !.work = NoConfig]

(* The hub device and its peers, from the subscriptions of this moment;    *)
(* then the business configuration is read.                                *)
ApplyNetwork ==
    /\ main.pc = "network"
    /\ \/ /\ vxlan' = [up |-> TRUE, peers |-> online]
          /\ main' = [main EXCEPT !.pc = "project", !.work = config]
          /\ stale' = (stale \/ online # main.known) /\ UNCHANGED events
       \/ ApplyFails(main.current) /\ UNCHANGED vxlan
    /\ UNCHANGED <<store, world, dnat, marker, dirty, writer, probe, rounds>>

reconcile_listener_state ==
    /\ main.pc = "project"
    /\ health' = rebuild_listener_state(main.work, health)
    /\ Goto(CASE listeners_from_config(main.work) = <<>> -> "detach"
              [] listeners_from_config(main.work) # <<>> /\ main.current -> "listeners"
              [] OTHER -> "attach")
    /\ UNCHANGED <<config, world, kernel, dirty, writer, probe, stale, budget>>

(* native_dnat::cleanup, under the writer lock. *)
DetachDnat ==
    /\ main.pc = "detach" /\ MayWrite("main")
    /\ dnat' = NoDnat
    /\ main' = [main EXCEPT !.pc = "marker", !.current = FALSE]
    /\ UNCHANGED <<store, world, vxlan, marker, dirty, writer, probe, stale, budget>>

(* Each map is synchronised with the health read at that moment; a failed  *)
(* write makes apply attach the datapath anew.  The lock is held from the  *)
(* first map to the last.                                                  *)
Sync(p, next, d) ==
    /\ main.pc = p /\ MayWrite("main")
    /\ writer' = IF next = "marker" THEN "free" ELSE "main"
    /\ \/ dnat' = d /\ Goto(next) /\ UNCHANGED events
       \/ Event /\ Goto("attach") /\ UNCHANGED dnat

sync_listener_map ==
    /\ Sync("listeners", "targets",
            [dnat EXCEPT !.count = Len(listeners_from_config(main.work)), !.dscp = main.loaded,
                         !.weight = ActiveWeight(main.work, health)])
    /\ UNCHANGED <<store, world, vxlan, marker, dirty, probe, stale, rounds>>

sync_target_map ==
    /\ Sync("targets", "buckets", [dnat EXCEPT !.slot = Slots(main.work, health)])
    /\ UNCHANGED <<store, world, vxlan, marker, dirty, probe, stale, rounds>>

sync_consistent_hash_bucket_map ==
    /\ Sync("buckets", "marker", [dnat EXCEPT !.bucket = Active(main.work, health)])
    /\ UNCHANGED <<store, world, vxlan, marker, dirty, probe, stale, rounds>>

(* The new programs are verified before the old ones are removed.  When    *)
(* attaching fails after that, the datapath is gone.                       *)
attach_prepared ==
    /\ main.pc = "attach" /\ MayWrite("main") /\ writer' = "free"
    /\ \/ /\ dnat' = [attached |-> TRUE, count |-> Len(listeners_from_config(main.work)),
                      dscp |-> main.loaded, weight |-> ActiveWeight(main.work, health),
                      slot |-> Slots(main.work, health), bucket |-> Active(main.work, health)]
          /\ main' = [main EXCEPT !.pc = "marker", !.current = TRUE]
          /\ UNCHANGED <<stale, events>>
       \/ dnat' = NoDnat /\ ApplyFails(FALSE)
       \/ UNCHANGED dnat /\ ApplyFails(main.current)
    /\ UNCHANGED <<store, world, vxlan, marker, dirty, probe, rounds>>

(* The marker is detached without listener ports, refreshed in place while *)
(* its filter and maps are there, and attached anew otherwise or when the  *)
(* refresh fails.                                                          *)
Marked == [attached |-> TRUE, pinned |-> TRUE, port |-> TRUE, dscp |-> main.loaded]
MarkerUpdate ==
    IF ~main.work.bound THEN "clear"
    ELSE IF marker.attached /\ marker.pinned THEN "keep" ELSE "replace"

(* The update is recorded with the agent's state.  The loop keeps a new    *)
(* attachment and drops the one it replaces, whose link and pins carry the *)
(* same names.  After the first apply the file's time is read.             *)
Finish(update) ==
    /\ marker' = CASE update = "clear" \/ (update = "replace" /\ main.owned) -> NoMarker
                   [] OTHER -> Marked
    /\ main' = [main EXCEPT !.pc = IF main.boot THEN "top" ELSE "automate",
                  !.boot = FALSE, !.seen = IF main.boot THEN file ELSE main.seen,
                  !.work = NoConfig, !.cached = main.work.bound,
                  !.owned = CASE update = "clear" -> FALSE
                              [] update = "replace" -> TRUE
                              [] OTHER -> main.owned]

(* A failed attachment may have removed the old filter already; one that   *)
(* cannot be recorded is dropped at once.                                  *)
ApplyMarker ==
    /\ main.pc = "marker"
    /\ \/ Finish(MarkerUpdate) /\ UNCHANGED <<stale, events>>
       \/ MarkerUpdate = "keep" /\ Event /\ Finish("replace") /\ UNCHANGED stale
       \/ /\ ApplyFails(main.current)
          /\ marker' \in CASE MarkerUpdate = "clear" -> {NoMarker}
                           [] MarkerUpdate = "keep" -> {Marked}
                           [] OTHER -> {marker, NoMarker,
                                        [marker EXCEPT !.attached = FALSE, !.pinned = TRUE]}
    /\ UNCHANGED <<store, world, vxlan, dnat, dirty, writer, probe, rounds>>

(* Templates are reconciled after an apply unless a node change is being   *)
(* debounced; a changed group is committed, marked dirty and applied once  *)
(* more in the same iteration.                                             *)
reconcile_automations ==
    /\ main.pc = "automate"
    /\ LET skip == main.pending # "none" \/ main.again
       IN  \/ /\ skip \/ ~auto \/ config.group = online
              /\ Goto("top") /\ UNCHANGED <<config, dirty, marker, events>>
              /\ stale' = (stale \/ (auto /\ ~skip /\ online # main.known))
           \/ /\ ~skip /\ auto /\ config.group # online
              /\ config' = [config EXCEPT !.group = online] /\ dirty' = TRUE
              /\ marker' = IF LostMarker THEN NoMarker ELSE marker
              /\ main' = [main EXCEPT !.pc = "network", !.again = TRUE,
                                     !.owned = main.owned /\ ~LostMarker]
              /\ stale' = (stale \/ online # main.known) /\ UNCHANGED events
           \/ /\ ~skip /\ auto /\ config.group # online
              /\ Event /\ Goto("top") /\ stale' = TRUE /\ UNCHANGED <<config, dirty, marker>>
    /\ UNCHANGED <<health, world, vxlan, dnat, writer, probe, rounds>>

-----------------------------------------------------------------------------
(* The probe worker. *)

(* Whether a target answers its ping, connection, datagram or request in time *)
(* is up to the network.                                                      *)
Unanswered(due) == SUBSET due

(* One outcome for every due target. *)
probe_target(due, failing) ==
    [t \in Target |-> CASE t \in failing -> "fail"
                        [] t \in due \ failing -> "ok"
                        [] OTHER -> "none"]

(* probe_round up to the measurements: targets that are no longer scheduled*)
(* are forgotten, a changed definition forgets the failures counted so far,*)
(* and the due targets are measured.                                       *)
ProbeTargets ==
    /\ probe.pc = "idle" /\ ~main.boot /\ rounds < MaxRounds /\ rounds' = rounds + 1
    /\ LET due == scheduled_targets(config)
       IN  /\ due # {}
           /\ \E failing \in Unanswered(due) :
                probe' = [probe EXCEPT
                   !.pc = "reread", !.cfg = config,
                   !.outcome = probe_target(due, failing),
                   !.def = [t \in Target |-> IF t \in due THEN config.probe ELSE NoProbe],
                   !.failures = [t \in Target |->
                       IF probe.def[t] = config.probe /\ t \in due THEN probe.failures[t] ELSE 0]]
    /\ UNCHANGED <<store, world, dirty, kernel, writer, main, stale, events>>

(* Results of definitions that were edited or removed meanwhile are dropped. *)
(* Mutant: the configuration is read again, the results are all kept. *)
KeepsEveryOutcome(t) == TRUE
KeepsOutcome(t) == t \in scheduled_targets(config) /\ config.probe = probe.cfg.probe
RereadConfig ==
    /\ probe.pc = "reread"
    /\ probe' = [probe EXCEPT !.pc = "publish", !.cfg = config,
                    !.outcome = [t \in Target |-> IF KeepsOutcome(t) THEN probe.outcome[t] ELSE "none"]]
    /\ UNCHANGED <<store, world, dirty, kernel, writer, main, stale, budget>>

Counted == [t \in Target |-> CountedFailures(probe.failures[t], probe.outcome[t], Retries)]

(* apply_results: the verdicts go to records that exist, in one locked     *)
(* read-modify-write; only a change refreshes the maps.                    *)
apply_results ==
    /\ probe.pc = "publish"
    /\ LET next == [t \in Target |-> IF health[t] = "absent" THEN "absent"
                                   ELSE NextHealth(health[t], Counted[t], probe.outcome[t], Retries)]
       IN  \/ /\ health' = next /\ UNCHANGED events
              /\ probe' = IF next = health THEN Rested(probe.def, Counted)
                          ELSE [probe EXCEPT !.pc = "observe", !.failures = Counted,
                                             !.outcome = [t \in Target |-> "none"]]
              /\ stale' = (stale \/ (next # health /\ probe.cfg # config))
           \/ /\ Event /\ UNCHANGED <<health, stale>>
              /\ probe' = Rested(probe.def, Counted)
    /\ UNCHANGED <<config, world, dirty, kernel, writer, main, rounds>>

(* refresh_target_health reads the health before it waits for the lock. *)
ObserveHealth ==
    /\ probe.pc = "observe"
    /\ probe' = IF dnat.attached THEN [probe EXCEPT !.pc = "slots", !.observed = health]
                ELSE Rested(probe.def, probe.failures)
    /\ UNCHANGED <<store, world, dirty, kernel, writer, main, stale, budget>>

(* Slots and buckets use the health of this moment and the configuration   *)
(* read before the results were published; a failed write leaves the rest  *)
(* as it is, and so does a datapath that was detached meanwhile.           *)
RefreshSlots ==
    /\ probe.pc = "slots" /\ MayWrite("probe")
    /\ \/ /\ dnat.attached /\ writer' = "probe" /\ UNCHANGED events
          /\ dnat' = [dnat EXCEPT !.slot = Slots(probe.cfg, health),
                                  !.bucket = Active(probe.cfg, health)]
          /\ stale' = (stale \/ probe.cfg # config)
          /\ probe' = [probe EXCEPT !.pc = "weights"]
       \/ /\ ~dnat.attached /\ UNCHANGED <<writer, dnat, stale, events>>
          /\ probe' = Rested(probe.def, probe.failures)
       \/ /\ dnat.attached /\ Event /\ stale' = TRUE /\ UNCHANGED <<writer, dnat>>
          /\ probe' = Rested(probe.def, probe.failures)
    /\ UNCHANGED <<store, world, dirty, vxlan, marker, main, rounds>>

(* The weights follow from the health read before the lock; a listener     *)
(* that is not in the map is skipped.                                      *)
refresh_listener_weights ==
    /\ probe.pc = "weights" /\ writer' = "free"
    /\ probe' = Rested(probe.def, probe.failures)
    /\ dnat' = IF listeners_from_config(probe.cfg) = <<>> THEN dnat
               ELSE [dnat EXCEPT !.weight = ActiveWeight(probe.cfg, probe.observed)]
    /\ stale' = (stale \/ probe.cfg # config \/ probe.observed # health)
    /\ UNCHANGED <<store, world, dirty, vxlan, marker, main, budget>>

-----------------------------------------------------------------------------
MainStep ==
    \/ Start \/ MergeSubscriptions \/ ReloadFile \/ RecordMtime \/ take_state_dirty
    \/ ApplyNetwork
    \/ reconcile_listener_state \/ DetachDnat \/ sync_listener_map
    \/ sync_target_map \/ sync_consistent_hash_bucket_map
    \/ attach_prepared \/ ApplyMarker \/ reconcile_automations
ProbeStep ==
    \/ RereadConfig \/ apply_results \/ ObserveHealth \/ RefreshSlots
    \/ refresh_listener_weights

Next ==
    \/ Commit \/ mark_state_dirty \/ EditFile \/ NodeChange \/ KernelObjectLost
    \/ Crash \/ Stop \/ MainStep \/ ProbeTargets \/ ProbeStep

Spec == Init /\ [][Next]_vars

(* The threads of the process keep running. *)
Fairness == WF_vars(MainStep) /\ WF_vars(ProbeStep) /\ WF_vars(mark_state_dirty)
FairSpec == Spec /\ Fairness

-----------------------------------------------------------------------------
(* What the maps must hold for the committed configuration and the health on record. *)
DatapathMatches ==
    LET served == listeners_from_config(config) IN
    IF served = <<>> THEN dnat = NoDnat
    ELSE /\ dnat.attached /\ dnat.count = Len(served) /\ dnat.dscp = main.loaded
         /\ dnat.slot = Slots(config, health)
         /\ dnat.bucket = Active(config, health)
         /\ dnat.weight = ActiveWeight(config, health)
HealthMatches == health = rebuild_listener_state(config, health)
MarkerMatches ==
    marker = IF config.bound
             THEN [attached |-> TRUE, pinned |-> TRUE, port |-> TRUE, dscp |-> main.loaded]
             ELSE NoMarker
GroupMatches == auto => config.group = online
Programmed == DatapathMatches /\ HealthMatches /\ MarkerMatches /\ GroupMatches
              /\ vxlan = [up |-> TRUE, peers |-> online]

(* The range of every variable. *)
TypeOK ==
    /\ config \in Config /\ editor \in {"idle", "committed"} /\ dirty \in BOOLEAN
    /\ health \in [Target -> Health]
    /\ online \subseteq Target /\ auto \in BOOLEAN /\ file \in 1..(MaxEvents + 1)
    /\ vxlan \in [up : BOOLEAN, peers : SUBSET Target]
    /\ dnat \in [attached : BOOLEAN, count : 0..Len(Order), weight : SUBSET Target,
                 dscp : 0..(MaxEvents + 1), slot : [Position -> Target \cup {NoTarget}],
                 bucket : SUBSET Position]
    /\ marker \in [attached : BOOLEAN, pinned : BOOLEAN, port : BOOLEAN, dscp : 0..(MaxEvents + 1)]
    /\ writer \in {"free", "main", "probe"}
    /\ (writer = "probe") = (probe.pc = "weights")
    /\ main.pc \in {"targets", "buckets"} => writer = "main"
    /\ probe.failures \in [Target -> 0..Retries]

(* Nothing waits to be done: no flag, no pending change, and nothing the   *)
(* drift check would act on.                                               *)
Quiet ==
    /\ main.pc = "top" /\ main.pending = "none" /\ main.known = online /\ main.seen = file
    /\ editor = "idle" /\ ~dirty /\ probe.pc = "idle" /\ vxlan.up
    /\ main.cached = marker.attached

(* When the loop has nothing left to do, kernel and projection are those of *)
(* the committed configuration, unless an apply failed or a step used an    *)
(* outdated reading since (gateway.rs:317-404, native_dnat.rs:401-588 and   *)
(* 1019-1075, probe.rs:71-127 interleaved).                                 *)
QuietIsProgrammed == Quiet /\ ~stale => Programmed

(* A committed change, a node change and a lost kernel object reach the     *)
(* maps in the end, also over a crash between the commit and the dirty flag *)
(* (store.rs:18-35; performance notes: the restart converges) -- unless an  *)
(* apply failed or used an outdated reading after the last of them: the     *)
(* loop has taken the dirty flag by then and does not repeat the apply      *)
(* (stale, gateway.rs:317).                                                 *)
EventuallyProgrammed == <>[](stale \/ Programmed)
=============================================================================
