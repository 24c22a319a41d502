------------------------------ MODULE Redirect ------------------------------
(***************************************************************************)
(* The redirect fast path of a gateway: a worker observes the host network *)
(* and publishes short leases (edge-lb/src/linux/redirect), updates of the *)
(* target map revoke them, the kernel reports changes, and the classifiers *)
(* use a lease only for the target of the packet's own flow                *)
(* (edge-lb-ebpf/src/redirect.rs, return_redirect.rs).                     *)
(*                                                                         *)
(* The host is one value per thing the worker reads: the path to each      *)
(* target and, for each check, whether it passes.  A lease has a number of *)
(* ticks to live, counted from the start of the observation it rests on.   *)
(***************************************************************************)
EXTENDS Integers, FiniteSets

CONSTANTS
    Slot,        \* target keys (listener id, target id)
    Address,     \* target endpoints
    NoAddress,   \* an inactive slot
    Path,        \* output device with both link addresses
    Unconfirmed, \* a path without a confirmed neighbour, an unsupported device
    Unreachable, \* the route lookup itself fails
    Lease,       \* LEASE_NS in ticks
    MaxChanges,  \* bound on changes of the host and of the target map
    MaxFaults    \* bound on failing map writes and on ticks during observations

ASSUME RedirectAssumption ==
    /\ Lease \in Nat \ {0} /\ MaxChanges \in Nat /\ MaxFaults \in Nat
    /\ NoAddress \notin Address /\ {Unconfirmed, Unreachable} \intersect Path = {}

VARIABLES
    path,     \* the kernel's path per address
    blocked,  \* the checks that fail on this host
    unread,   \* the monitor: "closed", or "none", "some", "lost" unread notifications
    slots,    \* NATIVE_TARGETS: the address of each slot
    mutating, \* a business update holds the writer lock
    revision, \* a revision was issued since the worker's snapshot
    routes,   \* NATIVE_TARGET_ROUTES
    lease,    \* NATIVE_RETURN_LEASES: ticks to live
    flow,     \* a flow's cached slot and address (NATIVE_FLOWS)
    work,     \* the worker's observation
    since,    \* history: ticks since each fact last changed
    changes, faults

net == <<path, blocked, since>>
cache == <<routes, lease, revision>>
redirect_vars == <<net, unread, slots, mutating, cache, flow, work, changes, faults>>

(* The checks of admission.rs and return_admission.rs: ingress link, FIB, rules,
   sysctls and security modules are one, "policy". *)
Check == {"policy", "netfilter", "tc", "overlay", "return_tc"}
(* Changes the kernel tells nobody of: legacy tables, TCX programs. *)
Silent == {"netfilter", "tc"}
Fact == Address \union Check

NoRoute == [ttl |-> 0, target |-> NoAddress, path |-> Unconfirmed]
NoRoutes == [k \in Slot |-> NoRoute]
NoFlow == [slot |-> CHOOSE k \in Slot : TRUE, address |-> NoAddress]
NoWork == [pc |-> "idle", slots |-> [k \in Slot |-> NoAddress], plan |-> NoRoutes, ttl |-> 0]

(* The range of every variable. *)
RedirectTypeOK ==
    /\ path \in [Address -> Path \union {Unconfirmed, Unreachable}]
    /\ blocked \subseteq Check /\ since \in [Fact -> 0..Lease]
    /\ unread \in {"closed", "none", "some", "lost"}
    /\ slots \in [Slot -> Address \union {NoAddress}]
    /\ {mutating, revision} \subseteq BOOLEAN /\ lease \in 0..Lease
    /\ routes \in [Slot -> [ttl : 1..Lease, target : Address, path : Path] \union {NoRoute}]
    /\ work.pc \in {"idle", "policy", "paths", "tc", "return", "return_tc", "pending", "publish"}
    /\ work.ttl \in 0..Lease

RedirectInit ==
    /\ path \in [Address -> Path] /\ blocked = {}
    /\ unread = "closed" /\ mutating = FALSE /\ revision = FALSE
    /\ slots \in [Slot -> Address]
    /\ routes = NoRoutes /\ lease = 0
    /\ flow = NoFlow /\ work = NoWork
    /\ since = [f \in Fact |-> Lease] /\ changes = 0 /\ faults = 0

-----------------------------------------------------------------------------
(* Time and the kernel. *)

Less(n) == IF n > 0 THEN n - 1 ELSE 0
Aged(route) == IF route.ttl <= 1 THEN NoRoute ELSE [route EXCEPT !.ttl = @ - 1]

(* An expired entry stays in the map and is never used: it is dropped here. *)
Tick ==
    /\ work.pc # "idle" => faults < MaxFaults
    /\ faults' = IF work.pc # "idle" THEN faults + 1 ELSE faults
    /\ routes' = [k \in Slot |-> Aged(routes[k])]
    /\ lease' = Less(lease)
    /\ work' = [work EXCEPT !.ttl = Less(@)]
    /\ since' = [f \in Fact |-> IF since[f] = Lease THEN Lease ELSE since[f] + 1]
    /\ UNCHANGED <<path, blocked, unread, slots, mutating, revision, flow, changes>>

(* A notification may get lost, which the next poll reports as an error; a
   closed monitor hears nothing. *)
Notified == IF unread = "none" THEN {"some", "lost"} ELSE {unread}

KernelChange ==
    /\ changes < MaxChanges /\ changes' = changes + 1
    /\ \/ \E a \in Address, p \in Path \union {Unconfirmed, Unreachable} :
             /\ p # path[a]
             /\ path' = [path EXCEPT ![a] = p] /\ since' = [since EXCEPT ![a] = 0]
             /\ unread' \in Notified /\ UNCHANGED blocked
       \/ \E c \in Check :
             /\ blocked' \in {blocked \union {c}, blocked \ {c}} \ {blocked}
             /\ since' = [since EXCEPT ![c] = 0]
             /\ unread' \in Notified \union (IF c \in Silent THEN {unread} ELSE {})
             /\ UNCHANGED path
    /\ UNCHANGED <<slots, mutating, cache, flow, work, faults>>

-----------------------------------------------------------------------------
(* The writer lock: business updates and invalidation. *)

Cleared == routes' = NoRoutes /\ lease' = 0
Invalidated == Cleared /\ revision' = TRUE

(* clear_pinned attempts both maps, and either attempt may fail. *)
HalfCleared ==
    /\ faults < MaxFaults /\ faults' = faults + 1 /\ revision' = TRUE
    /\ \/ UNCHANGED routes /\ lease' \in {0, lease}
       \/ routes' = NoRoutes /\ UNCHANGED lease

(* Target map updates hold the lock, issue a revision and clear both maps;
   an update that cannot clear them is abandoned. *)
begin_mutation ==
    /\ ~mutating /\ changes < MaxChanges /\ changes' = changes + 1
    /\ \/ mutating' = TRUE /\ Invalidated /\ UNCHANGED faults
       \/ HalfCleared /\ UNCHANGED mutating
    /\ UNCHANGED <<net, unread, slots, flow, work>>

EndMutation ==
    /\ mutating /\ mutating' = FALSE
    /\ \E k \in Slot, a \in Address \union {NoAddress} : slots' = [slots EXCEPT ![k] = a]
    /\ UNCHANGED <<net, unread, cache, flow, work, changes, faults>>

-----------------------------------------------------------------------------
(* The classifiers. *)

(* Mutant: the target of the entry is not compared with the packet's. *)
validate_slot_only(route, address) == route.ttl > 0

(* An entry is used for its own target only, and not past its end. *)
validate(route, address) == route.ttl > 0 /\ route.target = address

(* A transmit that fails after the rewrite drops the packet; a packet the fast
   path cannot handle (options, fragments, offload, TTL, size) goes to the kernel. *)
Submitted(ok, via) ==
    {[act |-> "kernel", path |-> Unconfirmed]} \union
    (IF ok THEN {[act |-> "redirect", path |-> via], [act |-> "drop", path |-> Unconfirmed]} ELSE {})

(* A packet of the flow is rewritten to the cached address and looks its route
   up by slot: what may become of it. *)
forward == Submitted(validate(routes[flow.slot], flow.address), routes[flow.slot].path)

(* A reply: the kernel's own lookup gives the path, the lease the permission. *)
return_forward == Submitted(lease > 0, Unconfirmed)

(* The first packet of a flow caches the slot and its address. *)
FirstPacket(k) ==
    /\ flow = NoFlow /\ slots[k] # NoAddress
    /\ flow' = [slot |-> k, address |-> slots[k]]
    /\ UNCHANGED <<net, unread, slots, mutating, cache, work, changes, faults>>

-----------------------------------------------------------------------------
(* The worker. *)

(* A failed check or a failed write closes the monitor and withdraws everything;
   a withdrawal that fails leaves the rest to the lease. *)
Blocked(cost) ==
    /\ ~mutating
    /\ work' = NoWork /\ unread' = "closed"
    /\ \/ Invalidated /\ faults + cost <= MaxFaults /\ faults' = faults + cost
       \/ HalfCleared
    /\ UNCHANGED <<net, slots, mutating, flow, changes>>

(* The monitor is opened between two invalidations. *)
Open ==
    /\ work.pc = "idle" /\ unread = "closed" /\ ~mutating
    /\ \/ /\ unread' = "none" /\ Invalidated
          /\ UNCHANGED <<net, slots, mutating, flow, work, changes, faults>>
       \/ Blocked(1)

(* The context of the worker changes: the old one withdraws everything as it
   stops, the new one as it starts. *)
spawn ==
    /\ work.pc = "idle" /\ unread # "closed" /\ ~mutating /\ changes < MaxChanges
    /\ changes' = changes + 1 /\ unread' = "closed" /\ Invalidated
    /\ UNCHANGED <<net, slots, mutating, flow, work, faults>>

(* Any notification invalidates everything; a lost one closes the monitor too. *)
Changed ==
    /\ work.pc = "idle" /\ unread \in {"some", "lost"} /\ ~mutating
    /\ \/ /\ unread = "some" /\ unread' = "none" /\ Invalidated
          /\ UNCHANGED <<net, slots, mutating, flow, work, changes, faults>>
       \/ Blocked(IF unread = "lost" THEN 0 ELSE 1)

(* Mutant: the snapshot does not take the current revision. *)
snapshot_keeps_revision ==
    /\ work.pc = "idle" /\ unread = "none" /\ ~mutating
    /\ work' = [NoWork EXCEPT !.pc = "policy", !.slots = slots, !.ttl = Lease]
    /\ UNCHANGED <<net, unread, slots, mutating, cache, flow, changes, faults>>

(* Every 500 ms: the lease runs from here. *)
snapshot ==
    /\ work.pc = "idle" /\ unread = "none" /\ ~mutating
    /\ revision' = FALSE
    /\ work' = [NoWork EXCEPT !.pc = "policy", !.slots = slots, !.ttl = Lease]
    /\ UNCHANGED <<net, unread, slots, mutating, routes, lease, flow, changes, faults>>

(* A step of the observation: it goes on, or the worker gives it up. *)
Step(from, to, ok, plan) ==
    /\ work.pc = from
    /\ \/ /\ ok
          /\ work' = [work EXCEPT !.pc = to, !.plan = plan]
          /\ UNCHANGED <<net, unread, slots, mutating, cache, flow, changes, faults>>
       \/ ~ok /\ Blocked(0)

Passes(checks) == blocked \intersect checks = {}

(* Link of the ingress device and a FIB by destination alone. *)
check_ingress_and_route_context == Passes({"policy"})
(* Only the standard routing rules, in their places. *)
inspect_rules == Passes({"policy"})
(* No nft tables, legacy tables or XFRM policies. *)
observe_kernel_policy == Passes({"netfilter"})
(* Forwarding on, reverse path filter off, known security modules. *)
check_network_policy == inspect_rules /\ observe_kernel_policy /\ Passes({"policy"})

check_host ==
    Step("policy", "paths", check_ingress_and_route_context /\ check_network_policy, NoRoutes)

(* One target without a route fails the whole observation. *)
observe_target_routes ==
    \A k \in Slot : work.slots[k] # NoAddress => path[work.slots[k]] # Unreachable

(* Resolved targets with a confirmed neighbour get an entry. *)
plan_routes ==
    [k \in Slot |-> LET a == work.slots[k] IN
        IF a # NoAddress /\ path[a] \in Path
        THEN [ttl |-> work.ttl, target |-> a, path |-> path[a]]
        ELSE NoRoute]

ObservePaths == Step("paths", "tc", observe_target_routes, plan_routes)

(* Our two programs alone at the ingress, none at the outputs. *)
check_tc == Step("tc", "return", Passes({"tc"}), work.plan)

(* The policy again for the overlay device, its kind, the return FIB. *)
observe_return == Step("return", "return_tc", check_network_policy /\ Passes({"overlay"}), work.plan)

check_return_tc == Step("return_tc", "pending", Passes({"return_tc"}), work.plan)

(* A notification during the observation withdraws everything, and an
   observation older than its lease is an error. *)
pending ==
    /\ work.pc = "pending"
    /\ \/ /\ unread = "some" /\ ~mutating
          /\ work' = NoWork /\ unread' = "none" /\ Invalidated
          /\ UNCHANGED <<net, slots, mutating, flow, changes, faults>>
       \/ (unread = "lost" \/ (unread = "none" /\ work.ttl = 0)) /\ Blocked(0)
       \/ /\ unread = "none" /\ work.ttl > 0
          /\ work' = [work EXCEPT !.pc = "publish"]
          /\ UNCHANGED <<net, unread, slots, mutating, cache, flow, changes, faults>>

(* Mutant: a revision issued during the observation goes unnoticed. *)
token_ignored == TRUE

(* No revision was issued since the snapshot, and the maps are the same. *)
token_valid == ~revision

(* Mutant: a lease runs from its publication. *)
RenewedLease(entry) == [entry EXCEPT !.ttl = Lease]

(* What is left of a lease that started with the observation. *)
LeaseLeft(entry) == [entry EXCEPT !.ttl = work.ttl]

(* Under the lock: a stale token publishes nothing, an expired plan clears both
   maps, and so does a write that fails half way. *)
publish ==
    /\ work.pc = "publish" /\ ~mutating
    /\ \/ /\ ~token_valid
          /\ work' = NoWork
          /\ UNCHANGED <<net, unread, slots, mutating, cache, flow, changes, faults>>
       \/ /\ token_valid /\ work.ttl = 0
          /\ work' = NoWork /\ Invalidated
          /\ UNCHANGED <<net, unread, slots, mutating, flow, changes, faults>>
       \/ /\ token_valid /\ work.ttl > 0
          /\ work' = NoWork /\ revision' = TRUE /\ lease' = work.ttl
          /\ routes' = [k \in Slot |-> IF work.plan[k] = NoRoute THEN NoRoute
                                       ELSE LeaseLeft(work.plan[k])]
          /\ UNCHANGED <<net, unread, slots, mutating, flow, changes, faults>>
       \/ token_valid /\ work.ttl > 0 /\ Blocked(1)

Worker == \/ Open \/ Changed \/ snapshot \/ check_host \/ ObservePaths \/ check_tc
          \/ observe_return \/ check_return_tc \/ pending \/ publish

RedirectNext == \/ Tick \/ KernelChange \/ begin_mutation \/ EndMutation
        \/ \E k \in Slot : FirstPacket(k)
        \/ spawn
        \/ Open \/ Changed \/ snapshot \/ check_host \/ ObservePaths \/ check_tc
        \/ observe_return \/ check_return_tc \/ pending \/ publish

RedirectSpec == RedirectInit /\ [][RedirectNext]_redirect_vars
(* The worker is a thread that always runs, and an update ends. *)
RedirectFairSpec == RedirectSpec /\ WF_redirect_vars(Worker) /\ WF_redirect_vars(EndMutation)

-----------------------------------------------------------------------------
(* Properties. *)

(* A published entry is for the target the slot holds now: an update of the
   target map revokes what was published, and a plan made before it is refused. *)
CacheMatchesSlots == \A k \in Slot : routes[k] # NoRoute => routes[k].target = slots[k]

Fresh(f) == since[f] < Lease

(* Whatever is lost or fails (a notification, an invalidation, a silent change
   of the policy), an entry that contradicts the kernel outlives the change by
   less than one lease. *)
StaleOnlyWithinLease ==
    /\ \A k \in Slot : routes[k] # NoRoute =>
          /\ path[routes[k].target] = routes[k].path \/ Fresh(routes[k].target)
          /\ \A c \in blocked \ {"overlay", "return_tc"} : Fresh(c)
    /\ ([act |-> "redirect", path |-> Unconfirmed] \in return_forward) => \A c \in blocked : Fresh(c)

(* A redirected packet of a flow leaves by the path of the address it was
   rewritten to, even when the flow's slot now holds another target. *)
RedirectsToFlowTarget ==
    flow # NoFlow =>
        \A packet \in forward : packet.act = "redirect" =>
            packet.path = path[flow.address] \/ Fresh(flow.address)

(* On a host that stays admissible the fast path comes back: a target with a
   resolved path has an entry again and again. *)
EventuallyPublished ==
    \A k \in Slot :
        <>[](blocked = {} /\ \A a \in Address : path[a] \in Path) =>
            []<>(slots[k] = NoAddress \/ routes[k].target = slots[k])
=============================================================================
