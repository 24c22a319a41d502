---------------------------- MODULE GatewayProofs ----------------------------
(****************************************************************************)
(* Proofs about the two components that meet at the redirect cache's writer *)
(* lock: the cache itself (Redirect) and the reconcile loop with its probe  *)
(* worker, the writers of the maps behind the lock (GatewayLoop).  Each is  *)
(* proved for every value of its constants: of slots, addresses, paths and  *)
(* leases, of backends, probes, configurations at the first start, and of   *)
(* the bounds on changes, faults and rounds.                                *)
(****************************************************************************)
EXTENDS Redirect, GatewayLoop, TLAPS

-----------------------------------------------------------------------------
(* The redirect cache: the inductive invariant. *)

Label == {"idle", "policy", "paths", "tc", "return", "return_tc", "pending", "publish"}
Entry == [ttl : 0..Lease, target : Address, path : Path]

(* The worker's memory and the cached flow. *)
WorkType ==
    /\ work \in [pc : Label, slots : [Slot -> Address \union {NoAddress}],
                 plan : [Slot -> Entry \union {NoRoute}], ttl : 0..Lease]
    /\ flow = NoFlow \/ flow \in [slot : Slot, address : Address]

(* While an update holds the lock nothing is published, and whatever the worker
   observed before is refused. *)
Revoked == mutating => routes = NoRoutes /\ revision

(* With a valid token the worker's copy of the target map is current. *)
TokenCurrent == work.pc # "idle" /\ ~revision => work.slots = slots

(* A plan is for the targets in the worker's copy. *)
PlanForSlots == \A k \in Slot : work.plan[k] # NoRoute => work.plan[k].target = work.slots[k]

(* A fact that changed less than Lease - ttl ticks ago, or exactly then. *)
Seen(f, ttl) == since[f] + ttl <= Lease

(* The checks an observation has passed when it stands at a label. *)
Passed(label) ==
    CASE label \in {"paths", "tc"} -> {"policy", "netfilter"}
      [] label = "return" -> {"policy", "netfilter", "tc"}
      [] label = "return_tc" -> {"policy", "netfilter", "tc", "overlay"}
      [] label \in {"pending", "publish"} -> Check
      [] OTHER -> {}

(* What an observation found either still holds or changed after the observation
   began, which the rest of its lease accounts for. *)
ObservationFresh ==
    /\ \A k \in Slot : work.plan[k] # NoRoute =>
          path[work.plan[k].target] = work.plan[k].path \/ Seen(work.plan[k].target, work.ttl)
    /\ \A c \in blocked \intersect Passed(work.pc) : Seen(c, work.ttl)

(* The same for what is published. *)
RoutesFresh ==
    \A k \in Slot : routes[k] # NoRoute =>
        /\ path[routes[k].target] = routes[k].path \/ Seen(routes[k].target, routes[k].ttl)
        /\ \A c \in blocked \ {"overlay", "return_tc"} : Seen(c, routes[k].ttl)

LeaseFresh == lease > 0 => \A c \in blocked : Seen(c, lease)

IInv == /\ RedirectTypeOK /\ WorkType /\ Revoked /\ TokenCurrent /\ PlanForSlots
        /\ CacheMatchesSlots /\ ObservationFresh /\ RoutesFresh /\ LeaseFresh

-----------------------------------------------------------------------------
(* Lemmas. *)

(* The worker at rest is well typed and has observed nothing. *)
LEMMA AtRest ==
    /\ NoWork \in [pc : Label, slots : [Slot -> Address \union {NoAddress}],
                   plan : [Slot -> Entry \union {NoRoute}], ttl : 0..Lease]
    /\ NoWork.pc = "idle" /\ NoWork.ttl = 0
    /\ \A k \in Slot : NoWork.plan[k] = NoRoute
  BY RedirectAssumption DEF NoWork, NoRoutes, Label

(* An entry is not the empty one. *)
LEMMA EntryNotEmpty == \A e \in Entry : e # NoRoute
  BY RedirectAssumption DEF Entry, NoRoute

(* Time takes as much from a lease as it adds to the age of a fact. *)
LEMMA TickSeen ==
    ASSUME RedirectTypeOK, Tick, NEW f \in Fact, NEW t \in 0..Lease, Seen(f, t)
    PROVE  since'[f] + Less(t) <= Lease
  BY RedirectAssumption DEF RedirectTypeOK, Tick, Seen, Less

(* A step that publishes nothing and leaves host and target map alone keeps what
   is said of the published entries (clear_pinned may clear either map or none). *)
Withdraws ==
    /\ routes' \in {NoRoutes, routes} /\ lease' \in {0, lease}
    /\ UNCHANGED <<net, slots>>

LEMMA WithdrawKeeps ==
    ASSUME IInv, Withdraws
    PROVE  /\ routes' \in [Slot -> [ttl : 1..Lease, target : Address, path : Path] \union {NoRoute}]
           /\ lease' \in 0..Lease
           /\ CacheMatchesSlots' /\ RoutesFresh' /\ LeaseFresh'
  <1>1. lease' \in 0..Lease /\ LeaseFresh'
    BY RedirectAssumption DEF IInv, RedirectTypeOK, Withdraws, LeaseFresh, Seen, net
  <1>2. CASE routes' = routes
    BY <1>1, <1>2 DEF IInv, RedirectTypeOK, Withdraws, CacheMatchesSlots, RoutesFresh, Seen, net
  <1>3. CASE routes' = NoRoutes
    BY <1>1, <1>3 DEF IInv, RedirectTypeOK, Withdraws, CacheMatchesSlots, RoutesFresh, Seen, net, NoRoutes
  <1> QED BY <1>1, <1>2, <1>3 DEF Withdraws

(* The worker gives up what it observed. *)
LEMMA GiveUpKeeps ==
    ASSUME IInv, work' = NoWork, UNCHANGED <<net, slots, flow>>
    PROVE  WorkType' /\ TokenCurrent' /\ PlanForSlots' /\ ObservationFresh'
  <1>1. WorkType'
    BY AtRest DEF IInv, WorkType
  <1>2. TokenCurrent' /\ PlanForSlots'
    BY AtRest DEF TokenCurrent, PlanForSlots
  <1>3. Passed(work'.pc) = {}
    BY AtRest DEF Passed
  <1>4. ObservationFresh'
    BY <1>3, AtRest DEF ObservationFresh
  <1> QED BY <1>1, <1>2, <1>4

(* A step that leaves worker, target map and host alone keeps the observation,
   whether or not it issues a revision. *)
LEMMA ObservationKeeps ==
    ASSUME IInv, UNCHANGED <<work, net, slots, flow>>, revision' = revision \/ revision'
    PROVE  WorkType' /\ TokenCurrent' /\ PlanForSlots' /\ ObservationFresh'
  BY DEF IInv, WorkType, TokenCurrent, PlanForSlots, ObservationFresh, Seen, net

(* Invalidation and a failed one withdraw. *)
LEMMA InvalidatedWithdraws ==
    ASSUME Invalidated \/ HalfCleared, UNCHANGED <<net, slots>>
    PROVE  Withdraws /\ revision' = TRUE
  BY DEF Invalidated, HalfCleared, Cleared, Withdraws

(* The worker closes the monitor after a failure. *)
LEMMA BlockedKeeps ==
    ASSUME IInv, NEW cost, Blocked(cost)
    PROVE  IInv'
  <1>1. Withdraws /\ revision' = TRUE
    BY InvalidatedWithdraws DEF Blocked
  <1>2. WorkType' /\ TokenCurrent' /\ PlanForSlots' /\ ObservationFresh'
    BY GiveUpKeeps DEF Blocked
  <1>3. RedirectTypeOK'
    BY <1>1, <1>2, WithdrawKeeps DEF IInv, RedirectTypeOK, WorkType, Blocked, net, Label
  <1>4. Revoked'
    BY DEF Revoked, Blocked
  <1> QED BY <1>1, <1>2, <1>3, <1>4, WithdrawKeeps DEF IInv

-----------------------------------------------------------------------------
(* One lemma per action. *)

LEMMA TickKeeps ==
    ASSUME IInv, Tick
    PROVE  IInv'
  <1>1. work'.ttl = Less(work.ttl) /\ work'.ttl \in 0..Lease /\ work'.pc = work.pc
        /\ work'.slots = work.slots /\ work'.plan = work.plan
    BY RedirectAssumption DEF IInv, WorkType, Tick, Less
  <1>2. WorkType'
    BY <1>1, RedirectAssumption DEF IInv, WorkType, Tick, Less
  <1>3. since' \in [Fact -> 0..Lease] /\ lease' \in 0..Lease
    BY RedirectAssumption DEF IInv, RedirectTypeOK, Tick, Less
  <1>4. ASSUME NEW k \in Slot
        PROVE  \/ routes'[k] = NoRoute
               \/ /\ routes[k] # NoRoute
                  /\ routes'[k] \in [ttl : 1..Lease, target : Address, path : Path]
                  /\ routes'[k].target = routes[k].target /\ routes'[k].path = routes[k].path
                  /\ routes[k].ttl \in 0..Lease /\ routes'[k].ttl = Less(routes[k].ttl)
    <2>1. CASE routes[k] = NoRoute
      BY <2>1 DEF Tick, Aged, NoRoute
    <2>2. CASE routes[k] # NoRoute
      <3>1. routes[k] \in [ttl : 1..Lease, target : Address, path : Path]
        BY <2>2 DEF IInv, RedirectTypeOK
      <3>2. CASE routes[k].ttl <= 1
        BY <3>2 DEF Tick, Aged
      <3>3. CASE ~(routes[k].ttl <= 1)
        <4>1. routes'[k] = [routes[k] EXCEPT !.ttl = @ - 1]
          BY <3>3 DEF Tick, Aged
        <4> QED BY <4>1, <3>1, <3>3, <2>2, RedirectAssumption DEF Less
      <3> QED BY <3>2, <3>3
    <2> QED BY <2>1, <2>2
  <1>5. routes' \in [Slot -> [ttl : 1..Lease, target : Address, path : Path] \union {NoRoute}]
    BY <1>4 DEF Tick
  <1>6. RedirectTypeOK'
    BY <1>1, <1>3, <1>5 DEF IInv, RedirectTypeOK, Tick
  <1>7. Revoked'
    BY <1>4 DEF IInv, Revoked, Tick, NoRoutes, Aged, NoRoute
  <1>8. TokenCurrent' /\ PlanForSlots'
    BY <1>1 DEF IInv, TokenCurrent, PlanForSlots, Tick
  <1>9. CacheMatchesSlots'
    BY <1>4 DEF IInv, CacheMatchesSlots, Tick
  <1>10. ObservationFresh'
    <2>1. ASSUME NEW k \in Slot, work'.plan[k] # NoRoute
          PROVE  path'[work'.plan[k].target] = work'.plan[k].path
                 \/ Seen(work.plan[k].target, work.ttl)
      BY <1>1, <2>1 DEF IInv, ObservationFresh, Tick
    <2>2. ASSUME NEW k \in Slot, work'.plan[k] # NoRoute
          PROVE  work.plan[k].target \in Fact
      BY <1>1, <2>2 DEF IInv, WorkType, Entry, Fact
    <2>3. ASSUME NEW f \in Fact, Seen(f, work.ttl)
          PROVE  Seen(f, work.ttl)'
      BY <1>1, <2>3, TickSeen DEF IInv, WorkType, Seen
    <2>4. blocked' = blocked /\ blocked \subseteq Fact
      BY DEF IInv, RedirectTypeOK, Tick, Fact
    <2> QED BY <2>1, <2>2, <2>3, <2>4, <1>1 DEF IInv, ObservationFresh, Seen
  <1>11. RoutesFresh'
    <2>1. ASSUME NEW k \in Slot, routes'[k] # NoRoute, NEW f \in Fact, Seen(f, routes[k].ttl)
          PROVE  Seen(f, routes[k].ttl)'
      <3>1. routes'[k].ttl = Less(routes[k].ttl) /\ routes[k].ttl \in 0..Lease
        BY <1>4, <2>1
      <3> QED BY <3>1, <2>1, TickSeen DEF IInv, Seen
    <2>2. blocked' = blocked /\ blocked \subseteq Fact /\ path' = path
      BY DEF IInv, RedirectTypeOK, Tick, Fact
    <2>3. ASSUME NEW k \in Slot, routes'[k] # NoRoute
          PROVE  /\ path[routes'[k].target] = routes'[k].path \/ Seen(routes'[k].target, routes[k].ttl)
                 /\ \A c \in blocked \ {"overlay", "return_tc"} : Seen(c, routes[k].ttl)
                 /\ routes'[k].target \in Fact
      BY <1>4, <2>3 DEF IInv, RoutesFresh, Fact
    <2> QED BY <2>1, <2>2, <2>3 DEF RoutesFresh, Seen
  <1>12. LeaseFresh'
    <2>1. blocked' = blocked /\ blocked \subseteq Fact /\ lease' = Less(lease) /\ lease \in 0..Lease
      BY DEF IInv, RedirectTypeOK, Tick, Fact
    <2>2. lease' > 0 => lease > 0
      BY <2>1, RedirectAssumption DEF Less
    <2> QED BY <2>1, <2>2, TickSeen DEF IInv, LeaseFresh, Seen
  <1> QED BY <1>2, <1>6, <1>7, <1>8, <1>9, <1>10, <1>11, <1>12 DEF IInv

LEMMA KernelChangeKeeps ==
    ASSUME IInv, KernelChange
    PROVE  IInv'
  <1>1. PICK f \in Fact :
          /\ since' = [since EXCEPT ![f] = 0]
          /\ \A a \in Address : a # f => path'[a] = path[a]
          /\ \A c \in blocked' : c = f \/ c \in blocked
    BY DEF KernelChange, IInv, RedirectTypeOK, Fact
  <1>2. RedirectTypeOK'
    <2>1. since' \in [Fact -> 0..Lease]
      BY <1>1, RedirectAssumption DEF IInv, RedirectTypeOK
    <2>2. path' \in [Address -> Path \union {Unconfirmed, Unreachable}] /\ blocked' \subseteq Check
      BY DEF KernelChange, IInv, RedirectTypeOK
    <2>3. unread' \in {"closed", "none", "some", "lost"}
      BY DEF KernelChange, IInv, RedirectTypeOK, Notified
    <2> QED BY <2>1, <2>2, <2>3 DEF KernelChange, IInv, RedirectTypeOK, cache
  <1>3. ASSUME NEW g \in Fact, NEW t \in 0..Lease, g = f \/ Seen(g, t)
        PROVE  since'[g] + t <= Lease
    BY <1>1, <1>3, RedirectAssumption DEF IInv, RedirectTypeOK, Seen
  <1>4. UNCHANGED <<slots, mutating, routes, lease, revision, flow, work>>
    BY DEF KernelChange, cache
  <1>5. blocked' \subseteq Fact
    BY <1>2 DEF RedirectTypeOK, Fact
  <1>6. WorkType' /\ Revoked' /\ TokenCurrent' /\ PlanForSlots' /\ CacheMatchesSlots'
    BY <1>4 DEF IInv, WorkType, Revoked, TokenCurrent, PlanForSlots, CacheMatchesSlots
  <1>7. ObservationFresh'
    <2>1. work.ttl \in 0..Lease
      BY DEF IInv, WorkType
    <2>2. ASSUME NEW k \in Slot, work.plan[k] # NoRoute
          PROVE  path'[work.plan[k].target] = work.plan[k].path \/ Seen(work.plan[k].target, work.ttl)'
      <3>1. work.plan[k].target \in Address
        BY <2>2 DEF IInv, WorkType, Entry
      <3> QED BY <1>1, <1>3, <1>4, <2>1, <2>2, <3>1 DEF IInv, ObservationFresh, Seen, Fact
    <2>3. ASSUME NEW c \in blocked' \intersect Passed(work.pc)
          PROVE  Seen(c, work.ttl)'
      BY <1>1, <1>3, <1>4, <1>5, <2>1 DEF IInv, ObservationFresh, Seen
    <2> QED BY <2>2, <2>3, <1>4 DEF ObservationFresh
  <1>8. RoutesFresh'
    <2>1. ASSUME NEW k \in Slot, routes[k] # NoRoute
          PROVE  routes[k].target \in Address /\ routes[k].ttl \in 0..Lease
      BY <2>1 DEF IInv, RedirectTypeOK
    <2>2. ASSUME NEW k \in Slot, routes[k] # NoRoute
          PROVE  path'[routes[k].target] = routes[k].path \/ Seen(routes[k].target, routes[k].ttl)'
      BY <1>1, <1>3, <1>4, <2>1, <2>2 DEF IInv, RoutesFresh, Seen, Fact
    <2>3. ASSUME NEW k \in Slot, routes[k] # NoRoute, NEW c \in blocked' \ {"overlay", "return_tc"}
          PROVE  Seen(c, routes[k].ttl)'
      BY <1>1, <1>3, <1>4, <1>5, <2>1, <2>3 DEF IInv, RoutesFresh, Seen
    <2> QED BY <2>2, <2>3, <1>4 DEF RoutesFresh
  <1>9. LeaseFresh'
    BY <1>1, <1>3, <1>4, <1>5 DEF IInv, RedirectTypeOK, LeaseFresh, Seen
  <1> QED BY <1>2, <1>6, <1>7, <1>8, <1>9 DEF IInv

LEMMA BeginMutationKeeps ==
    ASSUME IInv, begin_mutation
    PROVE  IInv'
  <1>1. Withdraws /\ revision' = TRUE
    BY InvalidatedWithdraws DEF begin_mutation
  <1>2. WorkType' /\ TokenCurrent' /\ PlanForSlots' /\ ObservationFresh'
    BY <1>1, ObservationKeeps DEF begin_mutation
  <1>3. RedirectTypeOK'
    BY <1>1, WithdrawKeeps DEF IInv, RedirectTypeOK, begin_mutation, net
  <1>4. Revoked'
    BY <1>1 DEF IInv, Revoked, begin_mutation, Invalidated, Cleared
  <1> QED BY <1>1, <1>2, <1>3, <1>4, WithdrawKeeps DEF IInv

(* Nothing is published when the update writes the target map, and no token is
   valid. *)
LEMMA EndMutationKeeps ==
    ASSUME IInv, EndMutation
    PROVE  IInv'
  <1>1. routes = NoRoutes /\ revision = TRUE
    BY DEF IInv, RedirectTypeOK, Revoked, EndMutation
  <1>2. RedirectTypeOK'
    BY DEF IInv, RedirectTypeOK, EndMutation, net, cache
  <1>3. Revoked' /\ TokenCurrent'
    BY <1>1 DEF Revoked, TokenCurrent, EndMutation, cache
  <1>4. CacheMatchesSlots' /\ RoutesFresh'
    BY <1>1 DEF CacheMatchesSlots, RoutesFresh, NoRoutes, EndMutation, cache
  <1>5. WorkType' /\ PlanForSlots' /\ ObservationFresh' /\ LeaseFresh'
    BY DEF IInv, WorkType, PlanForSlots, ObservationFresh, LeaseFresh, Seen, EndMutation, net, cache
  <1> QED BY <1>2, <1>3, <1>4, <1>5 DEF IInv

LEMMA FirstPacketKeeps ==
    ASSUME IInv, NEW k \in Slot, FirstPacket(k)
    PROVE  IInv'
  <1>1. WorkType'
    BY DEF IInv, RedirectTypeOK, WorkType, FirstPacket
  <1> QED BY <1>1 DEF IInv, RedirectTypeOK, Revoked, TokenCurrent, PlanForSlots, CacheMatchesSlots,
            ObservationFresh, RoutesFresh, LeaseFresh, Seen, FirstPacket, net, cache

(* Opening the monitor, a notification, a new context: everything is withdrawn. *)
LEMMA WithdrawnKeeps ==
    ASSUME IInv, ~mutating, Invalidated, UNCHANGED <<net, slots, mutating, flow>>,
           work' \in {work, NoWork}, unread' \in {"none", "closed"}
    PROVE  IInv'
  <1>1. Withdraws /\ revision' = TRUE
    BY InvalidatedWithdraws
  <1>2. WorkType' /\ TokenCurrent' /\ PlanForSlots' /\ ObservationFresh'
    BY <1>1, GiveUpKeeps, ObservationKeeps
  <1>3. RedirectTypeOK'
    BY <1>1, <1>2, WithdrawKeeps DEF IInv, RedirectTypeOK, WorkType, net, Label
  <1>4. Revoked'
    BY DEF Revoked
  <1> QED BY <1>1, <1>2, <1>3, <1>4, WithdrawKeeps DEF IInv

(* The token is taken together with the target map. *)
LEMMA SnapshotKeeps ==
    ASSUME IInv, snapshot
    PROVE  IInv'
  <1>1. work' = [pc |-> "policy", slots |-> slots, plan |-> NoRoutes, ttl |-> Lease]
    BY DEF snapshot, NoWork
  <1>2. work' \in [pc : Label, slots : [Slot -> Address \union {NoAddress}],
                   plan : [Slot -> Entry \union {NoRoute}], ttl : 0..Lease]
    BY <1>1, RedirectAssumption DEF IInv, RedirectTypeOK, NoRoutes, Label
  <1>8. UNCHANGED <<slots, flow>>
    BY DEF snapshot
  <1>7. WorkType' /\ TokenCurrent' /\ PlanForSlots'
    BY <1>1, <1>2, <1>8 DEF IInv, WorkType, TokenCurrent, PlanForSlots, NoRoutes
  <1>3. Passed(work'.pc) = {}
    BY <1>1 DEF Passed
  <1>4. ObservationFresh'
    BY <1>1, <1>3 DEF ObservationFresh, NoRoutes
  <1>5. RedirectTypeOK' /\ Revoked'
    BY <1>1, <1>2 DEF IInv, RedirectTypeOK, Revoked, snapshot, net, WorkType, Label
  <1>6. CacheMatchesSlots' /\ RoutesFresh' /\ LeaseFresh'
    BY DEF IInv, CacheMatchesSlots, RoutesFresh, LeaseFresh, Seen, snapshot, net
  <1> QED BY <1>4, <1>5, <1>6, <1>7 DEF IInv

(* A step of the observation that goes on. *)
GoesOn(from, to, plan) ==
    /\ work.pc = from
    /\ work' = [work EXCEPT !.pc = to, !.plan = plan]
    /\ UNCHANGED <<net, unread, slots, mutating, cache, flow, changes, faults>>

(* A plan for the worker's targets that holds now or changed within its lease. *)
GoodPlan(plan) ==
    /\ plan \in [Slot -> Entry \union {NoRoute}]
    /\ \A k \in Slot : plan[k] # NoRoute =>
          /\ plan[k].target = work.slots[k]
          /\ path[plan[k].target] = plan[k].path \/ Seen(plan[k].target, work.ttl)

(* The checks that the step adds pass now. *)
AddsPassed(from, to) == \A c \in blocked \intersect Passed(to) : c \in Passed(from)

(* A step whose additions to plan and passed checks hold now keeps the invariant. *)
LEMMA StepKeeps ==
    ASSUME IInv, NEW from \in Label, NEW to \in Label, NEW plan, from # "idle",
           GoesOn(from, to, plan), GoodPlan(plan), AddsPassed(from, to)
    PROVE  IInv'
  <1>1. /\ work.pc = from /\ work' = [work EXCEPT !.pc = to, !.plan = plan]
        /\ UNCHANGED <<net, unread, slots, mutating, cache, flow, changes, faults>>
    BY DEF GoesOn
  <1>2. /\ work'.pc = to /\ work'.plan = plan /\ work'.slots = work.slots /\ work'.ttl = work.ttl
        /\ work' \in [pc : Label, slots : [Slot -> Address \union {NoAddress}],
                      plan : [Slot -> Entry \union {NoRoute}], ttl : 0..Lease]
    BY <1>1 DEF IInv, WorkType, GoodPlan
  <1>3. WorkType' /\ TokenCurrent' /\ PlanForSlots'
    BY <1>1, <1>2 DEF IInv, WorkType, TokenCurrent, PlanForSlots, GoodPlan, cache
  <1>4. ObservationFresh'
    BY <1>1, <1>2 DEF IInv, ObservationFresh, Seen, GoodPlan, AddsPassed, net
  <1>5. RedirectTypeOK'
    BY <1>1, <1>2 DEF IInv, RedirectTypeOK, net, cache, Label
  <1>6. Revoked' /\ CacheMatchesSlots' /\ RoutesFresh' /\ LeaseFresh'
    BY <1>1 DEF IInv, Revoked, CacheMatchesSlots, RoutesFresh, LeaseFresh, Seen, net, cache
  <1> QED BY <1>3, <1>4, <1>5, <1>6 DEF IInv

(* The same with the checks of the observation spelled out: it goes on or stops. *)
LEMMA ObservationStepKeeps ==
    ASSUME IInv, check_host \/ ObservePaths \/ check_tc \/ observe_return \/ check_return_tc
    PROVE  IInv'
  <1>1. GoodPlan(work.plan)
    BY DEF IInv, WorkType, PlanForSlots, ObservationFresh, GoodPlan
  <1>2. CASE check_host
    <2>1. CASE GoesOn("policy", "paths", NoRoutes) /\ Passes({"policy"}) /\ Passes({"netfilter"})
      <3>1. NoRoutes \in [Slot -> Entry \union {NoRoute}] /\ \A k \in Slot : NoRoutes[k] = NoRoute
        BY DEF NoRoutes
      <3>2. GoodPlan(NoRoutes)
        BY <3>1 DEF GoodPlan
      <3>3. AddsPassed("policy", "paths")
        BY <2>1 DEF AddsPassed, Passed, Passes
      <3> QED BY <2>1, <3>2, <3>3, StepKeeps DEF Label
    <2>2. CASE \E cost : Blocked(cost)
      BY <2>2, BlockedKeeps
    <2> QED BY <1>2, <2>1, <2>2 DEF check_host, Step, GoesOn, check_ingress_and_route_context,
              check_network_policy, inspect_rules, observe_kernel_policy
  <1>3. CASE ObservePaths
    <2>1. CASE GoesOn("paths", "tc", plan_routes)
      <3>1. ASSUME NEW k \in Slot
            PROVE  \/ plan_routes[k] = NoRoute
                   \/ /\ plan_routes[k] \in Entry /\ plan_routes[k].target = work.slots[k]
                      /\ path[plan_routes[k].target] = plan_routes[k].path
        BY DEF plan_routes, Entry, IInv, WorkType
      <3>2. GoodPlan(plan_routes)
        BY <3>1 DEF GoodPlan, plan_routes
      <3>3. AddsPassed("paths", "tc")
        BY DEF AddsPassed, Passed
      <3> QED BY <2>1, <3>2, <3>3, StepKeeps DEF Label
    <2>2. CASE \E cost : Blocked(cost)
      BY <2>2, BlockedKeeps
    <2> QED BY <1>3, <2>1, <2>2 DEF ObservePaths, Step, GoesOn
  <1>4. CASE check_tc
    <2>1. CASE GoesOn("tc", "return", work.plan) /\ Passes({"tc"})
      <3>1. AddsPassed("tc", "return")
        BY <2>1 DEF AddsPassed, Passed, Passes
      <3> QED BY <1>1, <2>1, <3>1, StepKeeps DEF Label
    <2>2. CASE \E cost : Blocked(cost)
      BY <2>2, BlockedKeeps
    <2> QED BY <1>4, <2>1, <2>2 DEF check_tc, Step, GoesOn
  <1>5. CASE observe_return
    <2>1. CASE GoesOn("return", "return_tc", work.plan) /\ Passes({"overlay"})
      <3>1. AddsPassed("return", "return_tc")
        BY <2>1 DEF AddsPassed, Passed, Passes
      <3> QED BY <1>1, <2>1, <3>1, StepKeeps DEF Label
    <2>2. CASE \E cost : Blocked(cost)
      BY <2>2, BlockedKeeps
    <2> QED BY <1>5, <2>1, <2>2 DEF observe_return, Step, GoesOn
  <1>6. CASE check_return_tc
    <2>1. CASE GoesOn("return_tc", "pending", work.plan) /\ Passes({"return_tc"})
      <3>1. AddsPassed("return_tc", "pending")
        BY <2>1 DEF AddsPassed, Passed, Passes, Check
      <3> QED BY <1>1, <2>1, <3>1, StepKeeps DEF Label
    <2>2. CASE \E cost : Blocked(cost)
      BY <2>2, BlockedKeeps
    <2> QED BY <1>6, <2>1, <2>2 DEF check_return_tc, Step, GoesOn
  <1> QED BY <1>2, <1>3, <1>4, <1>5, <1>6

LEMMA PendingKeeps ==
    ASSUME IInv, pending
    PROVE  IInv'
  <1>1. CASE /\ ~mutating /\ work' = NoWork /\ unread' = "none" /\ Invalidated
             /\ UNCHANGED <<net, slots, mutating, flow>>
    BY <1>1, WithdrawnKeeps
  <1>2. CASE \E cost : Blocked(cost)
    BY <1>2, BlockedKeeps
  <1>3. CASE /\ work.pc = "pending" /\ work' = [work EXCEPT !.pc = "publish"]
             /\ UNCHANGED <<net, unread, slots, mutating, cache, flow, changes, faults>>
    <2>1. work' = [work EXCEPT !.pc = "publish", !.plan = work.plan]
      BY <1>3 DEF IInv, WorkType
    <2>2. GoesOn("pending", "publish", work.plan)
      BY <1>3, <2>1 DEF GoesOn
    <2>3. AddsPassed("pending", "publish")
      BY DEF AddsPassed, Passed
    <2>4. GoodPlan(work.plan)
      BY DEF IInv, WorkType, PlanForSlots, ObservationFresh, GoodPlan
    <2> QED BY <2>2, <2>3, <2>4, StepKeeps DEF Label
  <1> QED BY <1>1, <1>2, <1>3 DEF pending

(* A plan is published with a valid token only, for what is left of its lease. *)
LEMMA PublishKeeps ==
    ASSUME IInv, publish
    PROVE  IInv'
  <1>1. CASE /\ work' = NoWork
             /\ UNCHANGED <<net, unread, slots, mutating, cache, flow, changes, faults>>
    <2>1. WorkType' /\ TokenCurrent' /\ PlanForSlots' /\ ObservationFresh'
      BY <1>1, GiveUpKeeps
    <2>2. RedirectTypeOK'
      BY <1>1, <2>1 DEF IInv, RedirectTypeOK, WorkType, net, cache, Label
    <2> QED BY <1>1, <2>1, <2>2 DEF IInv, Revoked, CacheMatchesSlots, RoutesFresh, LeaseFresh, Seen, net, cache
  <1>2. CASE /\ ~mutating /\ work' = NoWork /\ Invalidated
             /\ UNCHANGED <<net, unread, slots, mutating, flow>>
    <2>1. Withdraws /\ revision' = TRUE
      BY <1>2, InvalidatedWithdraws
    <2>2. WorkType' /\ TokenCurrent' /\ PlanForSlots' /\ ObservationFresh'
      BY <1>2, GiveUpKeeps
    <2>3. RedirectTypeOK' /\ Revoked'
      BY <1>2, <2>1, <2>2, WithdrawKeeps DEF IInv, RedirectTypeOK, WorkType, Revoked, net, Label
    <2> QED BY <2>1, <2>2, <2>3, WithdrawKeeps DEF IInv
  <1>3. CASE /\ work.pc = "publish" /\ ~mutating /\ token_valid /\ work.ttl > 0
             /\ work' = NoWork /\ revision' = TRUE /\ lease' = work.ttl
             /\ routes' = [k \in Slot |-> IF work.plan[k] = NoRoute THEN NoRoute
                                          ELSE LeaseLeft(work.plan[k])]
             /\ UNCHANGED <<net, unread, slots, mutating, flow, changes, faults>>
    <2>1. WorkType' /\ TokenCurrent' /\ PlanForSlots' /\ ObservationFresh'
      BY <1>3, GiveUpKeeps
    <2>2. work.slots = slots
      BY <1>3 DEF IInv, TokenCurrent, token_valid
    <2>3. ASSUME NEW k \in Slot
          PROVE  \/ routes'[k] = NoRoute
                 \/ /\ work.plan[k] # NoRoute
                    /\ routes'[k] \in [ttl : 1..Lease, target : Address, path : Path]
                    /\ routes'[k].ttl = work.ttl
                    /\ routes'[k].target = work.plan[k].target /\ routes'[k].path = work.plan[k].path
      <3>1. CASE work.plan[k] = NoRoute
        BY <1>3, <3>1
      <3>2. CASE work.plan[k] # NoRoute
        <4>1. work.plan[k] \in Entry /\ work.ttl \in 1..Lease
          BY <1>3, <3>2 DEF IInv, WorkType
        <4>2. routes'[k] = [work.plan[k] EXCEPT !.ttl = work.ttl]
          BY <1>3, <3>2 DEF LeaseLeft
        <4> QED BY <3>2, <4>1, <4>2 DEF Entry
      <3> QED BY <3>1, <3>2
    <2>4. /\ routes' \in [Slot -> [ttl : 1..Lease, target : Address, path : Path] \union {NoRoute}]
          /\ lease' \in 0..Lease
      BY <1>3, <2>3 DEF IInv, WorkType
    <2>5. RedirectTypeOK' /\ Revoked'
      BY <1>3, <2>1, <2>4 DEF IInv, RedirectTypeOK, Revoked, WorkType, net, Label
    <2>6. CacheMatchesSlots'
      BY <1>3, <2>2, <2>3 DEF IInv, PlanForSlots, CacheMatchesSlots
    <2>7. \A c \in blocked : Seen(c, work.ttl)
      <3>1. Passed("publish") = Check
        BY DEF Passed
      <3> QED BY <3>1, <1>3 DEF IInv, RedirectTypeOK, ObservationFresh
    <2>8. RoutesFresh' /\ LeaseFresh'
      BY <1>3, <2>3, <2>7 DEF IInv, ObservationFresh, RoutesFresh, LeaseFresh, Seen, net
    <2> QED BY <2>1, <2>5, <2>6, <2>8 DEF IInv
  <1>4. CASE \E cost : Blocked(cost)
    BY <1>4, BlockedKeeps
  <1> QED BY <1>1, <1>2, <1>3, <1>4 DEF publish

-----------------------------------------------------------------------------
(* Theorems. *)

LEMMA InitIInv == RedirectInit => IInv
  <1> SUFFICES ASSUME RedirectInit PROVE IInv
    OBVIOUS
  <1>1. RedirectTypeOK
    <2>1. work.pc = "idle" /\ work.ttl = 0
      BY AtRest DEF RedirectInit
    <2>2. path \in [Address -> Path \union {Unconfirmed, Unreachable}]
          /\ slots \in [Slot -> Address \union {NoAddress}]
      BY DEF RedirectInit
    <2>3. since \in [Fact -> 0..Lease] /\ lease \in 0..Lease
      BY RedirectAssumption DEF RedirectInit
    <2>4. routes \in [Slot -> [ttl : 1..Lease, target : Address, path : Path] \union {NoRoute}]
      BY DEF RedirectInit, NoRoutes
    <2> QED BY <2>1, <2>2, <2>3, <2>4, RedirectAssumption DEF RedirectInit, RedirectTypeOK
  <1>2. WorkType
    BY AtRest DEF RedirectInit, WorkType
  <1>3. Revoked /\ TokenCurrent /\ PlanForSlots
    BY AtRest DEF RedirectInit, Revoked, TokenCurrent, PlanForSlots
  <1>4. CacheMatchesSlots /\ RoutesFresh
    BY DEF RedirectInit, CacheMatchesSlots, RoutesFresh, NoRoutes
  <1>5. ObservationFresh /\ LeaseFresh
    BY AtRest DEF RedirectInit, ObservationFresh, LeaseFresh
  <1> QED BY <1>1, <1>2, <1>3, <1>4, <1>5 DEF IInv

LEMMA NextIInv == IInv /\ [RedirectNext]_redirect_vars => IInv'
  <1> SUFFICES ASSUME IInv, [RedirectNext]_redirect_vars PROVE IInv'
    OBVIOUS
  <1>1. CASE Open \/ spawn \/ Changed
    <2>1. CASE \E cost : Blocked(cost)
      BY <2>1, BlockedKeeps
    <2>2. CASE /\ ~mutating /\ Invalidated /\ UNCHANGED <<net, slots, mutating, flow, work>>
               /\ unread' \in {"none", "closed"}
      BY <2>2, WithdrawnKeeps
    <2> QED BY <1>1, <2>1, <2>2 DEF Open, spawn, Changed
  <1>2. CASE UNCHANGED redirect_vars
    BY <1>2 DEF IInv, RedirectTypeOK, WorkType, Revoked, TokenCurrent, PlanForSlots, CacheMatchesSlots,
            ObservationFresh, RoutesFresh, LeaseFresh, Seen, redirect_vars, net, cache
  <1> QED BY <1>1, <1>2, TickKeeps, KernelChangeKeeps, BeginMutationKeeps, EndMutationKeeps,
            FirstPacketKeeps, SnapshotKeeps, ObservationStepKeeps, PendingKeeps, PublishKeeps DEF RedirectNext

LEMMA Inductive == RedirectSpec => []IInv
  BY InitIInv, NextIInv, PTL DEF RedirectSpec

(* Every variable stays in its range. *)
THEOREM RedirectTypes == RedirectSpec => []RedirectTypeOK
  BY Inductive, PTL DEF IInv

(* What is published for a slot is for the target that the slot holds: updates
   revoke under the lock (begin_mutation), and a plan observed before an update is
   refused by its token (publish). *)
THEOREM RedirectCache == RedirectSpec => []CacheMatchesSlots
  BY Inductive, PTL DEF IInv

(* Whatever notification or invalidation is lost, an entry that contradicts the
   host is gone within one lease of the change. *)
THEOREM RedirectStaleness == RedirectSpec => []StaleOnlyWithinLease
  <1>1. IInv => StaleOnlyWithinLease
    <2> SUFFICES ASSUME IInv PROVE StaleOnlyWithinLease
      OBVIOUS
    <2>1. ASSUME NEW k \in Slot, routes[k] # NoRoute, NEW f \in Fact, Seen(f, routes[k].ttl)
          PROVE  Fresh(f)
      BY <2>1, RedirectAssumption DEF IInv, RedirectTypeOK, Seen, Fresh
    <2>2. ASSUME NEW k \in Slot, routes[k] # NoRoute
          PROVE  routes[k].target \in Fact /\ blocked \subseteq Fact
      BY <2>2 DEF IInv, RedirectTypeOK, Fact
    <2>3. ASSUME lease > 0, NEW c \in blocked
          PROVE  Fresh(c)
      BY <2>3, RedirectAssumption DEF IInv, RedirectTypeOK, LeaseFresh, Seen, Fresh, Fact
    <2>4. [act |-> "redirect", path |-> Unconfirmed] \in return_forward => lease > 0
      BY DEF return_forward, Submitted
    <2> QED BY <2>1, <2>2, <2>3, <2>4 DEF IInv, RoutesFresh, StaleOnlyWithinLease
  <1> QED BY <1>1, Inductive, PTL

(* A redirected packet leaves by the path of the address its flow was given, even
   when another target has the slot by now: the classifier compares the address. *)
THEOREM RedirectTarget == RedirectSpec => []RedirectsToFlowTarget
  <1>1. IInv => RedirectsToFlowTarget
    <2> SUFFICES ASSUME IInv, flow # NoFlow, NEW packet \in forward, packet.act = "redirect"
                 PROVE  packet.path = path[flow.address] \/ Fresh(flow.address)
      BY DEF RedirectsToFlowTarget
    <2>1. flow.slot \in Slot /\ flow.address \in Address
      BY DEF IInv, WorkType
    <2> DEFINE route == routes[flow.slot]
    <2>2. packet.path = route.path /\ route.ttl > 0 /\ route.target = flow.address
      BY DEF forward, Submitted, validate
    <2>3. route # NoRoute
      BY <2>1, <2>2, RedirectAssumption DEF NoRoute
    <2>4. path[flow.address] = route.path \/ Seen(flow.address, route.ttl)
      BY <2>1, <2>2, <2>3 DEF IInv, RoutesFresh
    <2>5. route.ttl \in 1..Lease /\ since[flow.address] \in 0..Lease
      BY <2>1, <2>3 DEF IInv, RedirectTypeOK, Fact
    <2> QED BY <2>2, <2>4, <2>5, RedirectAssumption DEF Seen, Fresh
  <1> QED BY <1>1, Inductive, PTL

-----------------------------------------------------------------------------
(* The reconcile loop: the inductive invariant. *)

(* The fields of the records, whatever they hold. *)
MainShape(m) ==
    m \in [pc : {m.pc}, boot : BOOLEAN, work : {m.work}, loaded : {m.loaded}, seen : {m.seen},
           known : {m.known}, pending : {m.pending}, full : BOOLEAN, again : BOOLEAN,
           cached : BOOLEAN, owned : BOOLEAN, current : BOOLEAN]
ProbeShape(p) ==
    p \in [pc : {p.pc}, cfg : {p.cfg}, outcome : {p.outcome}, def : {p.def},
           failures : {p.failures}, observed : {p.observed}]
DnatShape(d) ==
    d \in [attached : BOOLEAN, count : {d.count}, weight : {d.weight}, dscp : {d.dscp},
           slot : {d.slot}, bucket : {d.bucket}]
MarkerShape(k) ==
    k \in [attached : BOOLEAN, pinned : BOOLEAN, port : BOOLEAN, dscp : {k.dscp}]
ConfigShape(c) ==
    c \in [bound : BOOLEAN, probe : {c.probe}, group : {c.group}]
Shapes ==
    /\ ConfigShape(config) /\ ConfigShape(main.work)
    /\ MainShape(main) /\ ProbeShape(probe) /\ DnatShape(dnat) /\ MarkerShape(marker)
    /\ vxlan \in [up : BOOLEAN, peers : {vxlan.peers}]
    /\ dirty \in BOOLEAN /\ stale \in BOOLEAN /\ auto \in BOOLEAN

(* The store holds something the next apply has not been told about yet. *)
Unsynced == editor = "committed" \/ dirty

(* Where the loop is: in an apply that has projected the configuration, in one *)
(* that has written the maps, in none at all.                                  *)
Applying == {"detach", "listeners", "targets", "buckets", "attach"}
Applied == main.pc \in {"automate", "top", "file"} \/ (main.pc = "take" /\ ~main.full)
Mapped == main.pc = "marker" \/ Applied

(* What the position of a thread says about its memory, the lock and the maps. *)
Places ==
    /\ main.full => main.pc = "take"
    /\ main.again => main.pc \in Applying \cup {"network", "project", "marker", "automate", "top"}
    /\ main.boot => main.pc \in Applying \cup {"start", "network", "project", "marker"}
    /\ main.boot /\ main.pc # "start" => main.pending = "new"
    /\ main.pc = "start" => main.boot
    /\ main.current => dnat.attached
    /\ main.pc \in {"targets", "buckets"} => writer = "main"
    /\ probe.pc = "weights" => writer = "probe" /\ dnat.attached
    /\ main.pc = "detach" => listeners_from_config(main.work) = <<>>
    /\ main.pc \in Applying \ {"detach"} => listeners_from_config(main.work) # <<>>
    /\ main.pc \in {"listeners", "targets", "buckets"} => main.current

(* An apply works on what is committed, until the next commit. *)
WorkIsConfig ==
    main.pc \in Applying \cup {"project", "marker"} /\ ~Unsynced => main.work = config

HealthIsProjected ==
    ~stale /\ ~Unsynced /\ (main.pc \in Applying \/ Mapped) => HealthMatches

(* Results on their way to the store are those of targets the worker scheduled. *)
OutcomesAreScheduled ==
    probe.pc = "publish" =>
        \A t \in Target : probe.outcome[t] # "none" => t \in scheduled_targets(probe.cfg)

(* The maps, as far as the apply has come and the probe worker has not changed *)
(* the health without refreshing them yet.                                     *)
ListenerWritten ==
    ~stale /\ ~Unsynced /\ (main.pc \in {"targets", "buckets"} \/ Mapped)
        /\ listeners_from_config(config) # <<>>
    => /\ dnat.attached /\ dnat.count = Len(listeners_from_config(config))
       /\ dnat.dscp = main.loaded
       /\ probe.pc \notin {"observe", "slots", "weights"} => dnat.weight = ActiveWeight(config, health)
SlotsWritten ==
    ~stale /\ ~Unsynced /\ (main.pc = "buckets" \/ Mapped)
        /\ listeners_from_config(config) # <<>> /\ probe.pc \notin {"observe", "slots"}
    => dnat.slot = Slots(config, health)
BucketsWritten ==
    ~stale /\ ~Unsynced /\ Mapped
        /\ listeners_from_config(config) # <<>> /\ probe.pc \notin {"observe", "slots"}
    => dnat.bucket = Active(config, health)
NothingServed ==
    ~stale /\ ~Unsynced /\ Mapped /\ listeners_from_config(config) = <<>> => dnat = NoDnat
MapsWritten == ListenerWritten /\ SlotsWritten /\ BucketsWritten /\ NothingServed

MarkerWritten ==
    ~stale /\ ~Unsynced /\ Applied =>
        /\ main.cached = config.bound
        /\ config.bound /\ marker.attached => marker = Marked
        /\ ~config.bound => marker = NoMarker

(* Peers and generated group are those of the subscriptions the loop knows. *)
PeersWritten ==
    ~stale /\ vxlan.up /\ main.pc \notin {"start", "mtime", "network"} /\ ~main.full
        /\ main.pending = "none"
    => vxlan.peers = main.known
GroupWritten ==
    ~stale /\ main.pending = "none" /\ auto /\ main.pc \in {"top", "file", "take"} /\ ~main.full
    => config.group = main.known
GroupRewritten == ~stale /\ main.again /\ auto => config.group = main.known

LoopInv ==
    /\ Shapes /\ Places /\ WorkIsConfig /\ HealthIsProjected /\ OutcomesAreScheduled
    /\ MapsWritten /\ MarkerWritten /\ PeersWritten /\ GroupWritten /\ GroupRewritten

(* The records a thread starts from. *)
LEMMA NoConfigIsConfig == ConfigShape(NoConfig)
BY DEF NoConfig, ConfigShape

LEMMA BootedShape == MainShape(Booted) /\ Booted.work = NoConfig
BY DEF MainShape, Booted

LEMMA RestedShape ==
    ASSUME NEW d, NEW f
    PROVE  ProbeShape(Rested(d, f)) /\ Rested(d, f).pc = "idle"
BY DEF ProbeShape, Rested

LEMMA EmptyShapes ==
    /\ DnatShape(NoDnat) /\ ~NoDnat.attached
    /\ MarkerShape(NoMarker) /\ ~NoMarker.attached
BY DEF DnatShape, NoDnat, MarkerShape, NoMarker

(* The invariant holds at the first start: nothing has been applied yet. *)
LEMMA LoopInit == ASSUME LoopAssumption, Init PROVE LoopInv
<1> USE NoConfigIsConfig, BootedShape, RestedShape, EmptyShapes
<1>1. /\ Booted.pc = "start" /\ Booted.boot
      /\ ~Booted.full /\ ~Booted.again /\ ~Booted.current
  BY DEF Booted
<1>2. Shapes
  <2>1. ConfigShape(config)
    BY DEF Init, LoopAssumption, Config, ConfigShape
  <2> QED BY <2>1 DEF Init, Shapes, Resting
<1>3. main.pc = "start" /\ probe.pc = "idle" /\ ~main.full /\ ~main.again /\ main.boot /\ ~main.current
  BY <1>1 DEF Init, Resting
<1>4. Places
  BY <1>3 DEF Places, Applying
<1>5. WorkIsConfig /\ HealthIsProjected /\ OutcomesAreScheduled /\ MapsWritten /\ MarkerWritten
      /\ PeersWritten /\ GroupWritten /\ GroupRewritten
  BY <1>3 DEF WorkIsConfig, HealthIsProjected, OutcomesAreScheduled, MapsWritten, ListenerWritten,
     SlotsWritten, BucketsWritten, NothingServed, MarkerWritten, PeersWritten, GroupWritten,
     GroupRewritten, Applied, Mapped, Applying
<1> QED BY <1>2, <1>4, <1>5 DEF LoopInv

(* What is claimed of a quiet loop follows from the invariant. *)
LEMMA LoopQuiet == ASSUME LoopInv PROVE QuietIsProgrammed
<1> SUFFICES ASSUME Quiet, ~stale PROVE Programmed
  BY DEF QuietIsProgrammed
<1>1. main.pc = "top" /\ main.pending = "none" /\ main.known = online /\ probe.pc = "idle"
      /\ vxlan.up /\ main.cached = marker.attached /\ ~Unsynced /\ Applied /\ Mapped /\ ~main.full
  BY DEF Quiet, Unsynced, Applied, Mapped, LoopInv, Places
<1>2. DatapathMatches
  BY <1>1 DEF LoopInv, MapsWritten, ListenerWritten, SlotsWritten, BucketsWritten, NothingServed,
     DatapathMatches
<1>3. HealthMatches
  BY <1>1 DEF LoopInv, HealthIsProjected
<1>4. MarkerMatches
  <2>1. config.bound \in BOOLEAN
    BY DEF LoopInv, Shapes, ConfigShape
  <2> QED BY <1>1, <2>1 DEF LoopInv, MarkerWritten, MarkerMatches, Marked
<1>5. GroupMatches
  BY <1>1 DEF LoopInv, GroupWritten, GroupMatches
<1>6. vxlan = [up |-> TRUE, peers |-> online]
  BY <1>1 DEF LoopInv, PeersWritten, Shapes
<1> QED BY <1>2, <1>3, <1>4, <1>5, <1>6 DEF Programmed

-----------------------------------------------------------------------------
(* The steps of the world around the loop. *)

(* A commit leaves the store unsynchronised; a generated group stays as it is. *)
LEMMA CommitKeeps == ASSUME LoopInv, Commit PROVE LoopInv'
<1>1. ConfigShape(config) /\ ConfigShape(config') /\ (auto => config'.group = config.group)
  <2>1. ConfigShape(config)
    BY DEF LoopInv, Shapes
  <2>2. CASE \E b \in BOOLEAN \ {config.bound} : config' = [config EXCEPT !.bound = b]
    BY <2>1, <2>2 DEF ConfigShape
  <2>3. CASE \E p \in (Probe \cup {NoProbe}) \ {config.probe} : config' = [config EXCEPT !.probe = p]
    BY <2>1, <2>3 DEF ConfigShape
  <2>4. CASE ~auto /\ \E t \in Target : config' = [config EXCEPT !.group =
                IF t \in config.group THEN config.group \ {t} ELSE config.group \cup {t}]
    BY <2>1, <2>4 DEF ConfigShape
  <2> QED BY <2>1, <2>2, <2>3, <2>4 DEF Commit
<1>2. Unsynced'
  BY DEF Commit, Unsynced
<1>3. /\ main' = main /\ probe' = probe /\ dnat' = dnat /\ marker' = marker /\ vxlan' = vxlan
      /\ dirty' = dirty /\ stale' = stale /\ auto' = auto /\ writer' = writer
  BY DEF Commit, kernel
<1>4. Shapes'
  BY <1>1, <1>3 DEF LoopInv, Shapes
<1>5. Places' /\ OutcomesAreScheduled' /\ PeersWritten'
  BY <1>3 DEF LoopInv, Places, OutcomesAreScheduled, PeersWritten
<1>6. GroupWritten' /\ GroupRewritten'
  BY <1>1, <1>3 DEF LoopInv, GroupWritten, GroupRewritten
<1>7. WorkIsConfig' /\ HealthIsProjected' /\ MapsWritten' /\ MarkerWritten'
  BY <1>2 DEF WorkIsConfig, HealthIsProjected, MapsWritten, ListenerWritten, SlotsWritten,
     BucketsWritten, NothingServed, MarkerWritten
<1> QED BY <1>4, <1>5, <1>6, <1>7 DEF LoopInv

(* The flag leaves the store unsynchronised until the loop takes it. *)
LEMMA MarkDirtyKeeps == ASSUME LoopInv, mark_state_dirty PROVE LoopInv'
<1>1. Unsynced'
  BY DEF mark_state_dirty, Unsynced
<1>2. /\ main' = main /\ probe' = probe /\ dnat' = dnat /\ marker' = marker /\ vxlan' = vxlan
      /\ config' = config /\ dirty' \in BOOLEAN /\ stale' = stale /\ auto' = auto
      /\ writer' = writer
  BY DEF mark_state_dirty, kernel, store
<1>3. Shapes'
  BY <1>2 DEF LoopInv, Shapes
<1>4. Places' /\ OutcomesAreScheduled' /\ PeersWritten' /\ GroupWritten' /\ GroupRewritten'
  BY <1>2 DEF LoopInv, Places, OutcomesAreScheduled, PeersWritten, GroupWritten, GroupRewritten
<1>5. WorkIsConfig' /\ HealthIsProjected' /\ MapsWritten' /\ MarkerWritten'
  BY <1>1 DEF WorkIsConfig, HealthIsProjected, MapsWritten, ListenerWritten, SlotsWritten,
     BucketsWritten, NothingServed, MarkerWritten
<1> QED BY <1>3, <1>4, <1>5 DEF LoopInv

(* The invariant speaks of no file, no subscription and no count of its own. *)
LEMMA SameLoop ==
    ASSUME LoopInv,
           UNCHANGED <<config, health, editor, dirty, auto, vxlan, dnat, marker, writer, main,
                       probe, stale>>
    PROVE  LoopInv'
<1>1. Shapes'
  BY DEF LoopInv, Shapes
<1>2. Places' /\ OutcomesAreScheduled' /\ PeersWritten' /\ GroupWritten' /\ GroupRewritten'
  BY DEF LoopInv, Places, OutcomesAreScheduled, PeersWritten, GroupWritten, GroupRewritten
<1>3. Unsynced' = Unsynced /\ Applied' = Applied /\ Mapped' = Mapped /\ Marked' = Marked
      /\ HealthMatches' = HealthMatches
  BY DEF Unsynced, Applied, Mapped, Marked, HealthMatches
<1>4. WorkIsConfig' /\ HealthIsProjected' /\ MarkerWritten'
  BY <1>3 DEF LoopInv, WorkIsConfig, HealthIsProjected, MarkerWritten
<1>5. MapsWritten'
  BY <1>3 DEF LoopInv, MapsWritten, ListenerWritten, SlotsWritten, BucketsWritten, NothingServed
<1> QED BY <1>1, <1>2, <1>4, <1>5 DEF LoopInv

(* An edited file or a node that comes or goes is nothing the loop has seen yet. *)
LEMMA WorldKeeps == ASSUME LoopInv, EditFile \/ NodeChange PROVE LoopInv'
BY SameLoop DEF EditFile, NodeChange, store, kernel

(* A lost marker is not attached, and a lost device has no peers. *)
LEMMA LossKeeps == ASSUME LoopInv, KernelObjectLost PROVE LoopInv'
<1>1. /\ main' = main /\ probe' = probe /\ dnat' = dnat /\ config' = config /\ health' = health
      /\ dirty' = dirty /\ stale' = stale /\ auto' = auto /\ writer' = writer /\ editor' = editor
  BY DEF KernelObjectLost, store, world
<1>2. Shapes'
  <2>1. MarkerShape(marker) /\ vxlan \in [up : BOOLEAN, peers : {vxlan.peers}]
    BY DEF LoopInv, Shapes
  <2>2. vxlan' = vxlan \/ vxlan' = [up |-> FALSE, peers |-> {}]
    BY DEF KernelObjectLost
  <2>3. marker' = marker \/ marker' = [marker EXCEPT !.attached = FALSE]
    BY DEF KernelObjectLost
  <2>4. MarkerShape(marker')
    BY <2>1, <2>3 DEF MarkerShape
  <2>5. vxlan' \in [up : BOOLEAN, peers : {vxlan'.peers}]
    <3>1. CASE vxlan' = vxlan
      BY <2>1, <3>1
    <3>2. CASE vxlan' = [up |-> FALSE, peers |-> {}]
      BY <3>2
    <3> QED BY <2>2, <3>1, <3>2
  <2> QED BY <1>1, <2>4, <2>5 DEF LoopInv, Shapes
<1>3. Places' /\ OutcomesAreScheduled' /\ GroupWritten' /\ GroupRewritten'
  BY <1>1 DEF LoopInv, Places, OutcomesAreScheduled, GroupWritten, GroupRewritten
<1>4. PeersWritten'
  BY <1>1 DEF LoopInv, PeersWritten, KernelObjectLost
<1>5. /\ Unsynced' = Unsynced /\ Applied' = Applied /\ Mapped' = Mapped
      /\ HealthMatches' = HealthMatches
  BY <1>1 DEF Unsynced, Applied, Mapped, HealthMatches
<1>6. WorkIsConfig' /\ HealthIsProjected'
  BY <1>1, <1>5 DEF LoopInv, WorkIsConfig, HealthIsProjected
<1>7. MapsWritten'
  BY <1>1, <1>5 DEF LoopInv, MapsWritten, ListenerWritten, SlotsWritten, BucketsWritten, NothingServed
<1>8. MarkerWritten'
  <2>1. marker' = marker \/ (marker.attached /\ ~marker'.attached)
    BY DEF KernelObjectLost, LoopInv, Shapes, MarkerShape
  <2>2. Marked' = Marked
    BY <1>1 DEF Marked
  <2> QED BY <1>1, <1>5, <2>1, <2>2, EmptyShapes DEF LoopInv, MarkerWritten
<1> QED BY <1>2, <1>3, <1>4, <1>6, <1>7, <1>8 DEF LoopInv

(* A process that starts again knows nothing yet. *)
LEMMA RestartKeeps ==
    ASSUME LoopInv, Restarted, config' = config, auto' = auto, vxlan' = vxlan,
           \/ dnat' = dnat /\ marker' = marker
           \/ dnat' = NoDnat /\ marker' = NoMarker
    PROVE  LoopInv'
<1>1. main'.pc = "start" /\ ~main'.full /\ ~main'.again /\ main'.boot /\ ~main'.current
  BY DEF Restarted, Booted
<1>2. MainShape(main') /\ ConfigShape(main'.work) /\ ProbeShape(probe') /\ probe'.pc = "idle"
  BY BootedShape, NoConfigIsConfig, RestedShape DEF Restarted, Resting
<1>3. Shapes'
  BY <1>2, EmptyShapes DEF LoopInv, Shapes, Restarted
<1>4. Places'
  BY <1>1, <1>2 DEF Places, Applying
<1>5. WorkIsConfig' /\ HealthIsProjected' /\ OutcomesAreScheduled' /\ MapsWritten' /\ MarkerWritten'
      /\ PeersWritten' /\ GroupWritten' /\ GroupRewritten'
  BY <1>1, <1>2 DEF WorkIsConfig, HealthIsProjected, OutcomesAreScheduled, MapsWritten,
     ListenerWritten, SlotsWritten, BucketsWritten, NothingServed, MarkerWritten, PeersWritten,
     GroupWritten, GroupRewritten, Applied, Mapped, Applying
<1> QED BY <1>3, <1>4, <1>5 DEF LoopInv

(* Neither a crash nor a stop leaves a claim behind. *)
LEMMA StopKeeps == ASSUME LoopInv, Crash \/ Stop PROVE LoopInv'
BY RestartKeeps DEF Crash, Stop, store, kernel

-----------------------------------------------------------------------------
(* The steps of the loop. *)

(* A record with another position is the record of before otherwise. *)
LEMMA GotoIs ==
    ASSUME MainShape(main), NEW p, Goto(p)
    PROVE  /\ MainShape(main') /\ main'.pc = p
           /\ main'.boot = main.boot /\ main'.work = main.work /\ main'.loaded = main.loaded
           /\ main'.known = main.known /\ main'.pending = main.pending /\ main'.full = main.full
           /\ main'.again = main.again /\ main'.cached = main.cached
           /\ main'.current = main.current
BY DEF MainShape, Goto

(* The first apply begins with a node change pending. *)
LEMMA StartKeeps == ASSUME LoopInv, Start PROVE LoopInv'
<1>1. /\ probe' = probe /\ dnat' = dnat /\ marker' = marker /\ vxlan' = vxlan /\ config' = config
      /\ dirty' = dirty /\ stale' = stale /\ auto' = auto /\ writer' = writer
  BY DEF Start, store, world, kernel
<1>2. /\ MainShape(main') /\ main'.pc = "network" /\ main'.pending = "new"
      /\ main'.boot = main.boot /\ main'.work = main.work /\ main'.full = main.full
      /\ main'.again = main.again /\ main'.current = main.current
  BY DEF Start, MainShape, LoopInv, Shapes
<1>3. main.pc = "start" /\ ~main.full /\ ~main.again
  BY DEF Start, LoopInv, Places, Applying
<1>4. Shapes'
  BY <1>1, <1>2 DEF LoopInv, Shapes
<1>5. Places'
  BY <1>1, <1>2, <1>3 DEF LoopInv, Places, Applying
<1>6. OutcomesAreScheduled'
  BY <1>1 DEF LoopInv, OutcomesAreScheduled
<1>7. WorkIsConfig' /\ HealthIsProjected' /\ MapsWritten' /\ MarkerWritten'
      /\ PeersWritten' /\ GroupWritten' /\ GroupRewritten'
  BY <1>2, <1>3 DEF WorkIsConfig, HealthIsProjected, MapsWritten,
     ListenerWritten, SlotsWritten, BucketsWritten, NothingServed, MarkerWritten, PeersWritten,
     GroupWritten, GroupRewritten, Applied, Mapped, Applying
<1> QED BY <1>4, <1>5, <1>6, <1>7 DEF LoopInv

(* Between two applies the loop moves without touching what the last one wrote. *)
LEMMA WaitingKeeps ==
    ASSUME LoopInv,
           UNCHANGED <<config, health, editor, dirty, auto, vxlan, dnat, marker, writer, probe,
                       stale>>,
           MainShape(main'), main.pc \in {"top", "file", "take"}, ~main.full,
           main'.pc \in {"top", "file", "take"}, main'.full = main.full,
           main'.boot = main.boot, main'.work = main.work, main'.loaded = main.loaded,
           main'.cached = main.cached, main'.current = main.current,
           main'.pending = "none" => main'.known = main.known /\ main.pending = "none",
           ~main'.again \/ (main'.again = main.again /\ main'.pc = "top" /\ main'.known = main.known)
    PROVE  LoopInv'
<1>1. Applied /\ Mapped /\ Applied' /\ Mapped' /\ ~main.boot
  BY DEF Applied, Mapped, LoopInv, Places, Applying
<1>2. Shapes'
  BY DEF LoopInv, Shapes
<1>3. Places'
  BY <1>1 DEF LoopInv, Places, Applying
<1>4. Unsynced' = Unsynced /\ HealthMatches' = HealthMatches /\ Marked' = Marked
  BY DEF Unsynced, HealthMatches, Marked
<1>5. WorkIsConfig' /\ OutcomesAreScheduled'
  BY DEF LoopInv, WorkIsConfig, OutcomesAreScheduled, Applying
<1>6. HealthIsProjected' /\ MarkerWritten'
  BY <1>1, <1>4 DEF LoopInv, HealthIsProjected, MarkerWritten
<1>7. MapsWritten'
  BY <1>1, <1>4 DEF LoopInv, MapsWritten, ListenerWritten, SlotsWritten, BucketsWritten, NothingServed
<1>8. PeersWritten' /\ GroupWritten' /\ GroupRewritten'
  BY DEF LoopInv, PeersWritten, GroupWritten, GroupRewritten
<1> QED BY <1>2, <1>3, <1>5, <1>6, <1>7, <1>8 DEF LoopInv

(* Subscriptions that differ from the known ones arm the debounce. *)
LEMMA MergeKeeps == ASSUME LoopInv, MergeSubscriptions PROVE LoopInv'
<1> DEFINE next == CASE online # main.known -> "new"
                     [] online = main.known /\ main.pending = "new" -> "due"
                     [] OTHER -> main.pending
           there == IF main.seen = file THEN "take" ELSE "file"
<1>1. next = "none" => online = main.known /\ main.pending = "none"
  OBVIOUS
<1>2. there \in {"take", "file"}
  OBVIOUS
<1>3. main' = [main EXCEPT !.pc = there, !.known = online, !.again = FALSE, !.pending = next]
  BY DEF MergeSubscriptions
<1> HIDE DEF next, there
<1>4. /\ MainShape(main') /\ main'.pc = there /\ main'.known = online /\ ~main'.again
      /\ main'.pending = next /\ main'.full = main.full /\ main'.boot = main.boot
      /\ main'.work = main.work /\ main'.loaded = main.loaded /\ main'.cached = main.cached
      /\ main'.current = main.current
  BY <1>3 DEF MainShape, LoopInv, Shapes
<1>5. main.pc = "top" /\ ~main.full
  BY DEF MergeSubscriptions, LoopInv, Places
<1>6. UNCHANGED <<config, health, editor, dirty, auto, vxlan, dnat, marker, writer, probe, stale>>
  BY DEF MergeSubscriptions, store, world, kernel
<1> QED BY <1>1, <1>2, <1>4, <1>5, <1>6, WaitingKeeps

(* A loaded file is followed by a full apply; until then nothing is claimed. *)
LEMMA ReloadKeeps == ASSUME LoopInv, ReloadFile PROVE LoopInv'
<1>1. main.pc = "file" /\ ~main.full /\ ~main.again /\ ~main.boot
  BY DEF ReloadFile, LoopInv, Places, Applying
<1>2. UNCHANGED <<config, health, editor, dirty, auto, vxlan, dnat, marker, writer, probe, stale>>
  BY DEF ReloadFile, store, world, kernel
<1>3. MainShape(main)
  BY DEF LoopInv, Shapes
<1>4. CASE \E p \in {"take", "top"} : Goto(p)
  <2>1. PICK p \in {"take", "top"} : Goto(p)
    BY <1>4
  <2> QED BY <2>1, <1>1, <1>2, <1>3, GotoIs, WaitingKeeps
<1>5. CASE MergePeers
  <2>1. /\ MainShape(main') /\ main'.pc = "mtime" /\ main'.full = main.full
        /\ main'.again = main.again /\ main'.boot = main.boot /\ main'.work = main.work
        /\ main'.current = main.current /\ main'.pending = main.pending
    BY <1>3, <1>5 DEF MainShape, MergePeers
  <2>2. Shapes'
    BY <1>2, <2>1 DEF LoopInv, Shapes
  <2>3. Places' /\ OutcomesAreScheduled'
    BY <1>1, <1>2, <2>1 DEF LoopInv, Places, OutcomesAreScheduled, Applying
  <2>4. WorkIsConfig' /\ HealthIsProjected' /\ MapsWritten' /\ MarkerWritten'
        /\ PeersWritten' /\ GroupWritten' /\ GroupRewritten'
    BY <1>1, <2>1 DEF WorkIsConfig, HealthIsProjected, MapsWritten,
       ListenerWritten, SlotsWritten, BucketsWritten, NothingServed, MarkerWritten, PeersWritten,
       GroupWritten, GroupRewritten, Applied, Mapped, Applying
  <2> QED BY <2>2, <2>3, <2>4 DEF LoopInv
<1> QED BY <1>4, <1>5 DEF ReloadFile, FileUnread, AutoIpsUnresolved

(* The full apply is requested together with the modification time. *)
LEMMA MtimeKeeps == ASSUME LoopInv, RecordMtime PROVE LoopInv'
<1>1. main.pc = "mtime" /\ ~main.again /\ ~main.boot
  BY DEF RecordMtime, LoopInv, Places, Applying
<1>2. UNCHANGED <<config, health, editor, dirty, auto, vxlan, dnat, marker, writer, probe, stale>>
  BY DEF RecordMtime, store, world, kernel
<1>3. /\ MainShape(main') /\ main'.pc = "take" /\ main'.full
      /\ main'.again = main.again /\ main'.boot = main.boot /\ main'.work = main.work
      /\ main'.current = main.current /\ main'.pending = main.pending
  BY DEF MainShape, RecordMtime, LoopInv, Shapes
<1>4. Shapes'
  BY <1>2, <1>3 DEF LoopInv, Shapes
<1>5. Places' /\ OutcomesAreScheduled'
  BY <1>1, <1>2, <1>3 DEF LoopInv, Places, OutcomesAreScheduled, Applying
<1>6. WorkIsConfig' /\ HealthIsProjected' /\ MapsWritten' /\ MarkerWritten'
      /\ PeersWritten' /\ GroupWritten' /\ GroupRewritten'
  BY <1>1, <1>3 DEF WorkIsConfig, HealthIsProjected, MapsWritten,
     ListenerWritten, SlotsWritten, BucketsWritten, NothingServed, MarkerWritten, PeersWritten,
     GroupWritten, GroupRewritten, Applied, Mapped, Applying
<1> QED BY <1>4, <1>5, <1>6 DEF LoopInv

(* Without a reason to apply, no flag was set and the marker is as it was wanted. *)
LEMMA TakeKeeps == ASSUME LoopInv, take_state_dirty PROVE LoopInv'
<1> DEFINE due == main.pending = "due"
           full == main.full \/ dirty \/ due
           apply == full \/ heal_reapplies
<1>1. main.pc = "take" /\ ~main.again /\ ~main.boot
  BY DEF take_state_dirty, LoopInv, Places, Applying
<1>2. UNCHANGED <<config, health, editor, auto, vxlan, dnat, writer, probe>> /\ dirty' = FALSE
  BY DEF take_state_dirty, store, world
<1>3. /\ MainShape(main') /\ main'.pc = (IF apply THEN "network" ELSE "top") /\ ~main'.full
      /\ main'.again = main.again /\ main'.boot = main.boot /\ main'.work = main.work
      /\ main'.current = main.current /\ main'.loaded = main.loaded /\ main'.known = main.known
      /\ main'.cached = main.cached
      /\ main'.pending = (IF due THEN "none" ELSE main.pending)
  BY DEF MainShape, take_state_dirty, LoopInv, Shapes
<1>4. marker' = marker \/ marker' = NoMarker
  BY DEF take_state_dirty
<1>5. stale' = (stale /\ ~apply)
  BY DEF take_state_dirty
<1>6. Shapes'
  BY <1>2, <1>3, <1>4, <1>5, EmptyShapes DEF LoopInv, Shapes
<1>7. Places' /\ OutcomesAreScheduled'
  BY <1>1, <1>2, <1>3 DEF LoopInv, Places, OutcomesAreScheduled, Applying
<1>8. CASE apply
  <2>1. main'.pc = "network"
    BY <1>3, <1>8
  <2>2. WorkIsConfig' /\ HealthIsProjected' /\ MapsWritten' /\ MarkerWritten'
      /\ PeersWritten' /\ GroupWritten' /\ GroupRewritten'
    BY <1>1, <1>3, <2>1 DEF WorkIsConfig, HealthIsProjected, MapsWritten,
       ListenerWritten, SlotsWritten, BucketsWritten, NothingServed, MarkerWritten, PeersWritten,
       GroupWritten, GroupRewritten, Applied, Mapped, Applying
  <2> QED BY <1>6, <1>7, <2>2 DEF LoopInv
<1>9. CASE ~apply
  <2>1. main'.pc = "top" /\ main'.pending = main.pending /\ stale' = stale /\ ~main.full /\ ~dirty
    BY <1>3, <1>5, <1>9 DEF LoopInv, Shapes
  <2>2. Applied /\ Mapped /\ Applied' /\ Mapped' /\ Unsynced' = Unsynced /\ Marked' = Marked
        /\ HealthMatches' = HealthMatches
    BY <1>1, <1>2, <1>3, <2>1 DEF Applied, Mapped, Unsynced, Marked, HealthMatches
  <2>3. WorkIsConfig' /\ PeersWritten' /\ GroupWritten' /\ GroupRewritten'
    BY <1>1, <1>2, <1>3, <2>1 DEF LoopInv, WorkIsConfig, PeersWritten, GroupWritten,
       GroupRewritten, Applying
  <2>4. HealthIsProjected'
    BY <1>2, <2>1, <2>2 DEF LoopInv, HealthIsProjected
  <2>5. MapsWritten'
    BY <1>2, <1>3, <2>1, <2>2 DEF LoopInv, MapsWritten, ListenerWritten, SlotsWritten,
       BucketsWritten, NothingServed
  <2>6. MarkerWritten'
    <3>1. marker' = marker \/ (~main.cached /\ marker.attached /\ marker' = NoMarker)
      BY <1>9 DEF take_state_dirty
    <3> QED BY <1>2, <1>3, <2>1, <2>2, <3>1, EmptyShapes DEF LoopInv, MarkerWritten
  <2> QED BY <1>6, <1>7, <2>3, <2>4, <2>5, <2>6 DEF LoopInv
<1> QED BY <1>8, <1>9

(* A failed apply: the process starts again, or the loop goes on with stale set. *)
LEMMA FailureKeeps ==
    ASSUME LoopInv, NEW c \in BOOLEAN, ApplyFails(c), c => dnat'.attached,
           UNCHANGED <<config, auto, dirty, probe>>, DnatShape(dnat'), MarkerShape(marker'),
           vxlan' = vxlan, ~main.full,
           main.pc \in Applying \cup {"network", "marker"},
           probe.pc = "weights" => writer' = "probe" /\ dnat'.attached
    PROVE  LoopInv'
<1>1. MainShape(main)
  BY DEF LoopInv, Shapes
<1>2. /\ MainShape(main') /\ ConfigShape(main'.work) /\ ~main'.full
      /\ main'.pc \in {"start", "automate"} /\ (main'.pc = "start" => main'.boot)
      /\ (main'.boot => main'.pc = "start") /\ (main'.again => main'.pc = "automate")
      /\ (main'.current => c)
  <2>1. CASE main.boot
    BY <2>1, BootedShape, NoConfigIsConfig DEF ApplyFails, Booted
  <2>2. CASE ~main.boot
    <3>1. main' = [main EXCEPT !.pc = "automate", !.current = c, !.work = NoConfig]
      BY <2>2 DEF ApplyFails
    <3> QED BY <1>1, <2>2, <3>1, NoConfigIsConfig DEF MainShape
  <2> QED BY <2>1, <2>2
<1>3. stale' = TRUE
  BY DEF ApplyFails
<1>4. Shapes'
  BY <1>2, <1>3 DEF LoopInv, Shapes
<1>5. Places'
  BY <1>2 DEF Places, Applying
<1>6. WorkIsConfig' /\ OutcomesAreScheduled'
  BY <1>2 DEF LoopInv, WorkIsConfig, OutcomesAreScheduled, Applying
<1>7. HealthIsProjected' /\ MapsWritten' /\ MarkerWritten' /\ PeersWritten' /\ GroupWritten'
      /\ GroupRewritten'
  BY <1>3 DEF HealthIsProjected, MapsWritten, ListenerWritten, SlotsWritten, BucketsWritten,
     NothingServed, MarkerWritten, PeersWritten, GroupWritten, GroupRewritten
<1> QED BY <1>4, <1>5, <1>6, <1>7 DEF LoopInv

(* The peers are the known ones unless a subscription changed meanwhile. *)
LEMMA NetworkKeeps == ASSUME LoopInv, ApplyNetwork PROVE LoopInv'
<1>1. main.pc = "network" /\ ~main.full
  BY DEF ApplyNetwork, LoopInv, Places
<1>2. UNCHANGED <<config, health, editor, dirty, auto, dnat, marker, writer, probe>>
  BY DEF ApplyNetwork, store, world
<1>3. CASE /\ vxlan' = [up |-> TRUE, peers |-> online]
           /\ main' = [main EXCEPT !.pc = "project", !.work = config]
           /\ stale' = (stale \/ online # main.known) /\ UNCHANGED events
  <2>1. /\ MainShape(main') /\ main'.pc = "project" /\ main'.work = config
        /\ main'.full = main.full /\ main'.again = main.again /\ main'.boot = main.boot
        /\ main'.current = main.current /\ main'.known = main.known
        /\ main'.pending = main.pending
    BY <1>3 DEF LoopInv, Shapes, MainShape
  <2>2. stale' \in BOOLEAN /\ (~stale' => ~stale /\ online = main.known)
    BY <1>3 DEF LoopInv, Shapes
  <2>3. vxlan' \in [up : BOOLEAN, peers : {vxlan'.peers}] /\ vxlan'.peers = online
    BY <1>3
  <2>4. Shapes'
    BY <1>2, <2>1, <2>2, <2>3 DEF LoopInv, Shapes
  <2>5. Places' /\ OutcomesAreScheduled' /\ WorkIsConfig'
    BY <1>1, <1>2, <2>1 DEF LoopInv, Places, OutcomesAreScheduled, WorkIsConfig, Applying
  <2>6. PeersWritten' /\ GroupWritten' /\ GroupRewritten'
    BY <1>2, <2>1, <2>2, <2>3 DEF LoopInv, PeersWritten, GroupWritten, GroupRewritten
  <2>7. HealthIsProjected' /\ MapsWritten' /\ MarkerWritten'
    BY <2>1 DEF HealthIsProjected, MapsWritten, ListenerWritten, SlotsWritten, BucketsWritten,
       NothingServed, MarkerWritten, Applied, Mapped, Applying
  <2> QED BY <2>4, <2>5, <2>6, <2>7 DEF LoopInv
<1>4. CASE ApplyFails(main.current) /\ UNCHANGED vxlan
  <2>1. main.current \in BOOLEAN /\ DnatShape(dnat') /\ MarkerShape(marker')
    BY <1>2 DEF LoopInv, Shapes, MainShape
  <2>2. (main.current => dnat'.attached) /\ (probe.pc = "weights" => writer' = "probe" /\ dnat'.attached)
    BY <1>2 DEF LoopInv, Places
  <2> QED BY <1>1, <1>2, <1>4, <2>1, <2>2, FailureKeeps
<1> QED BY <1>3, <1>4 DEF ApplyNetwork

(* A projection is its own projection. *)
LEMMA RebuiltIsRebuilt ==
    ASSUME NEW c, NEW h
    PROVE  rebuild_listener_state(c, rebuild_listener_state(c, h))
             = rebuild_listener_state(c, h)
<1> DEFINE g == rebuild_listener_state(c, h)
<1>1. ASSUME NEW t \in Target
      PROVE  g[t] = CASE ~c.bound \/ t \notin c.group -> "absent"
                      [] c.bound /\ t \in c.group /\ c.probe = NoProbe -> "ok"
                      [] OTHER -> IF g[t] = "absent" THEN "unknown" ELSE g[t]
  <2>1. g[t] = CASE ~c.bound \/ t \notin c.group -> "absent"
                 [] c.bound /\ t \in c.group /\ c.probe = NoProbe -> "ok"
                 [] OTHER -> IF h[t] = "absent" THEN "unknown" ELSE h[t]
    BY DEF rebuild_listener_state
  <2> HIDE DEF g
  <2> QED BY <2>1
<1>2. g = [t \in Target |-> g[t]]
  BY DEF rebuild_listener_state
<1> HIDE DEF g
<1>3. rebuild_listener_state(c, g) = [t \in Target |-> g[t]]
  BY <1>1 DEF rebuild_listener_state
<1> QED BY <1>2, <1>3 DEF g

(* The projection matches the configuration read, and so the committed one. *)
LEMMA ProjectKeeps == ASSUME LoopInv, reconcile_listener_state PROVE LoopInv'
<1> DEFINE there == CASE listeners_from_config(main.work) = <<>> -> "detach"
                      [] listeners_from_config(main.work) # <<>> /\ main.current -> "listeners"
                      [] OTHER -> "attach"
<1>1. main.pc = "project" /\ ~main.full
  BY DEF reconcile_listener_state, LoopInv, Places
<1>2. UNCHANGED <<config, editor, dirty, auto, vxlan, dnat, marker, writer, probe, stale>>
  BY DEF reconcile_listener_state, world, kernel
<1>3. /\ there \in {"detach", "listeners", "attach"}
      /\ there = "detach" => listeners_from_config(main.work) = <<>>
      /\ there # "detach" => listeners_from_config(main.work) # <<>>
      /\ there = "listeners" => main.current
  OBVIOUS
<1>4. Goto(there) /\ MainShape(main)
  BY DEF reconcile_listener_state, LoopInv, Shapes
<1> HIDE DEF there
<1>5. /\ MainShape(main') /\ main'.pc = there
      /\ main'.boot = main.boot /\ main'.work = main.work /\ main'.loaded = main.loaded
      /\ main'.known = main.known /\ main'.pending = main.pending /\ main'.full = main.full
      /\ main'.again = main.again /\ main'.cached = main.cached /\ main'.current = main.current
  BY <1>4, GotoIs
<1>6. Shapes'
  BY <1>2, <1>5 DEF LoopInv, Shapes
<1>7. Places'
  BY <1>1, <1>2, <1>3, <1>5 DEF LoopInv, Places, Applying
<1>8. OutcomesAreScheduled' /\ PeersWritten' /\ GroupWritten' /\ GroupRewritten'
  BY <1>1, <1>2, <1>3, <1>5 DEF LoopInv, OutcomesAreScheduled, PeersWritten, GroupWritten,
     GroupRewritten
<1>9. WorkIsConfig'
  BY <1>1, <1>2, <1>5 DEF LoopInv, WorkIsConfig, Unsynced
<1>10. HealthIsProjected'
  <2> SUFFICES ASSUME ~stale, ~Unsynced' PROVE HealthMatches'
    BY <1>2 DEF HealthIsProjected
  <2>1. main.work = config
    BY <1>1, <1>2 DEF LoopInv, WorkIsConfig, Unsynced
  <2>2. health' = rebuild_listener_state(config, health)
    BY <2>1 DEF reconcile_listener_state
  <2> QED BY <1>2, <2>2, RebuiltIsRebuilt DEF HealthMatches
<1>11. MapsWritten' /\ MarkerWritten'
  BY <1>3, <1>5 DEF MapsWritten, ListenerWritten, SlotsWritten, BucketsWritten,
     NothingServed, MarkerWritten, Applied, Mapped
<1> QED BY <1>6, <1>7, <1>8, <1>9, <1>10, <1>11 DEF LoopInv

(* While the maps are written, all else is as it was. *)
LEMMA WritingKeeps ==
    ASSUME LoopInv,
           UNCHANGED <<config, health, editor, dirty, auto, vxlan, marker, probe, stale>>,
           main.pc \in Applying, main'.pc \in Applying \cup {"marker"}, MainShape(main'),
           main'.boot = main.boot, main'.work = main.work, main'.known = main.known,
           main'.pending = main.pending, main'.full = main.full, main'.again = main.again,
           DnatShape(dnat')
    PROVE  /\ Shapes' /\ WorkIsConfig' /\ HealthIsProjected' /\ OutcomesAreScheduled'
           /\ MarkerWritten' /\ PeersWritten' /\ GroupWritten' /\ GroupRewritten'
           /\ Unsynced' = Unsynced
<1>1. Shapes'
  BY DEF LoopInv, Shapes
<1>2. Unsynced' = Unsynced /\ HealthMatches' = HealthMatches
  BY DEF Unsynced, HealthMatches
<1>3. WorkIsConfig' /\ OutcomesAreScheduled'
  BY <1>2 DEF LoopInv, WorkIsConfig, OutcomesAreScheduled
<1>4. HealthIsProjected'
  BY <1>2 DEF LoopInv, HealthIsProjected
<1>5. MarkerWritten' /\ PeersWritten' /\ GroupWritten' /\ GroupRewritten'
  BY DEF LoopInv, MarkerWritten, Applied, PeersWritten, GroupWritten, GroupRewritten, Applying
<1> QED BY <1>1, <1>2, <1>3, <1>4, <1>5

(* Without a listener the maps are gone. *)
LEMMA DetachKeeps == ASSUME LoopInv, DetachDnat PROVE LoopInv'
<1>1. main.pc = "detach" /\ ~main.full /\ listeners_from_config(main.work) = <<>>
      /\ (writer = "main" \/ writer = "free")
  BY DEF DetachDnat, LoopInv, Places, MayWrite
<1>2. UNCHANGED <<config, health, editor, dirty, auto, vxlan, marker, probe, stale>>
      /\ writer' = writer /\ dnat' = NoDnat
  BY DEF DetachDnat, store, world
<1>3. /\ MainShape(main') /\ main'.pc = "marker" /\ ~main'.current
      /\ main'.boot = main.boot /\ main'.work = main.work /\ main'.known = main.known
      /\ main'.pending = main.pending /\ main'.full = main.full /\ main'.again = main.again
  BY DEF DetachDnat, MainShape, LoopInv, Shapes
<1>4. /\ Shapes' /\ WorkIsConfig' /\ HealthIsProjected' /\ OutcomesAreScheduled'
      /\ MarkerWritten' /\ PeersWritten' /\ GroupWritten' /\ GroupRewritten'
      /\ Unsynced' = Unsynced
  BY <1>1, <1>2, <1>3, EmptyShapes, WritingKeeps DEF Applying
<1>5. Places'
  BY <1>1, <1>2, <1>3 DEF LoopInv, Places, Applying
<1>6. ~Unsynced => listeners_from_config(config) = <<>>
  BY <1>1 DEF LoopInv, WorkIsConfig, Applying
<1>7. MapsWritten'
  BY <1>2, <1>4, <1>6 DEF MapsWritten, ListenerWritten, SlotsWritten, BucketsWritten, NothingServed
<1> QED BY <1>4, <1>5, <1>7 DEF LoopInv

(* What holds before a map is synchronised. *)
LEMMA SyncIs ==
    ASSUME LoopInv, NEW p \in {"listeners", "targets", "buckets"},
           NEW next \in {"targets", "buckets", "marker"}, NEW d, Sync(p, next, d), DnatShape(d),
           d.attached = dnat.attached, (next = "targets") = (p = "listeners"),
           UNCHANGED <<config, health, editor, dirty, auto, vxlan, marker, probe, stale>>
    PROVE  /\ Shapes' /\ WorkIsConfig' /\ HealthIsProjected' /\ OutcomesAreScheduled'
           /\ MarkerWritten' /\ PeersWritten' /\ GroupWritten' /\ GroupRewritten'
           /\ Unsynced' = Unsynced /\ Places'
           /\ dnat.attached /\ main'.loaded = main.loaded
           /\ ~Unsynced => main.work = config /\ listeners_from_config(config) # <<>>
           /\ \/ main'.pc = next /\ dnat' = d
              \/ main'.pc = "attach" /\ dnat' = dnat
<1>1. main.pc = p /\ ~main.full /\ listeners_from_config(main.work) # <<>> /\ main.current
      /\ (writer = "main" \/ writer = "free") /\ dnat.attached
  BY DEF Sync, LoopInv, Places, MayWrite, Applying
<1>2. (dnat' = d /\ Goto(next)) \/ (dnat' = dnat /\ Goto("attach"))
  BY DEF Sync
<1>3. /\ MainShape(main')
      /\ \/ main'.pc = next /\ dnat' = d
         \/ main'.pc = "attach" /\ dnat' = dnat
      /\ main'.boot = main.boot /\ main'.work = main.work /\ main'.loaded = main.loaded
      /\ main'.known = main.known /\ main'.pending = main.pending /\ main'.full = main.full
      /\ main'.again = main.again /\ main'.cached = main.cached /\ main'.current = main.current
  <2>1. MainShape(main)
    BY DEF LoopInv, Shapes
  <2>2. CASE dnat' = d /\ Goto(next)
    BY <2>1, <2>2, GotoIs
  <2>3. CASE dnat' = dnat /\ Goto("attach")
    BY <2>1, <2>3, GotoIs
  <2> QED BY <1>2, <2>2, <2>3
<1>4. DnatShape(dnat') /\ dnat'.attached = dnat.attached
  BY <1>2 DEF LoopInv, Shapes
<1>5. /\ Shapes' /\ WorkIsConfig' /\ HealthIsProjected' /\ OutcomesAreScheduled'
      /\ MarkerWritten' /\ PeersWritten' /\ GroupWritten' /\ GroupRewritten'
      /\ Unsynced' = Unsynced
  BY <1>1, <1>2, <1>3, <1>4, WritingKeeps DEF Applying
<1>6. writer' = IF next = "marker" THEN "free" ELSE "main"
  BY DEF Sync
<1>7. Places'
  BY <1>1, <1>2, <1>3, <1>4, <1>6 DEF LoopInv, Places, Applying
<1>8. ~Unsynced => main.work = config /\ listeners_from_config(config) # <<>>
  BY <1>1 DEF LoopInv, WorkIsConfig, Applying
<1> QED BY <1>1, <1>2, <1>3, <1>5, <1>7, <1>8

(* The listener map is the first of three. *)
LEMMA SyncListenersKeeps == ASSUME LoopInv, sync_listener_map PROVE LoopInv'
<1> DEFINE n == Len(listeners_from_config(main.work))
           w == ActiveWeight(main.work, health)
           d == [dnat EXCEPT !.count = n, !.dscp = main.loaded, !.weight = w]
<1>1. Sync("listeners", "targets", d)
  BY DEF sync_listener_map
<1>2. UNCHANGED <<config, health, editor, dirty, auto, vxlan, marker, probe, stale>>
  BY DEF sync_listener_map, store, world
<1> HIDE DEF n, w
<1>3. DnatShape(d) /\ d.attached = dnat.attached /\ d.count = n /\ d.dscp = main.loaded /\ d.weight = w
  BY DEF LoopInv, Shapes, DnatShape
<1> HIDE DEF d
<1>4. /\ Shapes' /\ WorkIsConfig' /\ HealthIsProjected' /\ OutcomesAreScheduled'
      /\ MarkerWritten' /\ PeersWritten' /\ GroupWritten' /\ GroupRewritten'
      /\ Unsynced' = Unsynced /\ Places'
      /\ dnat.attached /\ main'.loaded = main.loaded
      /\ ~Unsynced => main.work = config /\ listeners_from_config(config) # <<>>
      /\ \/ main'.pc = "targets" /\ dnat' = d
         \/ main'.pc = "attach" /\ dnat' = dnat
  BY <1>1, <1>2, <1>3, SyncIs
<1>5. CASE main'.pc = "targets" /\ dnat' = d
  <2>1. ListenerWritten'
    BY <1>2, <1>3, <1>4, <1>5 DEF ListenerWritten, n, w
  <2>2. SlotsWritten' /\ BucketsWritten' /\ NothingServed'
    BY <1>5 DEF SlotsWritten, BucketsWritten, NothingServed, Applied, Mapped
  <2> QED BY <1>4, <2>1, <2>2 DEF LoopInv, MapsWritten
<1>6. CASE main'.pc = "attach"
  <2>1. MapsWritten'
    BY <1>6 DEF MapsWritten, ListenerWritten, SlotsWritten, BucketsWritten, NothingServed, Applied, Mapped
  <2> QED BY <1>4, <2>1 DEF LoopInv
<1> QED BY <1>4, <1>5, <1>6

(* The target map follows. *)
LEMMA SyncTargetsKeeps == ASSUME LoopInv, sync_target_map PROVE LoopInv'
<1> DEFINE s == Slots(main.work, health)
           d == [dnat EXCEPT !.slot = s]
<1>1. Sync("targets", "buckets", d) /\ main.pc = "targets"
  BY DEF sync_target_map, Sync
<1>2. UNCHANGED <<config, health, editor, dirty, auto, vxlan, marker, probe, stale>>
  BY DEF sync_target_map, store, world
<1> HIDE DEF s
<1>3. /\ DnatShape(d) /\ d.attached = dnat.attached /\ d.count = dnat.count /\ d.dscp = dnat.dscp
      /\ d.weight = dnat.weight /\ d.slot = s
  BY DEF LoopInv, Shapes, DnatShape
<1> HIDE DEF d
<1>4. /\ Shapes' /\ WorkIsConfig' /\ HealthIsProjected' /\ OutcomesAreScheduled'
      /\ MarkerWritten' /\ PeersWritten' /\ GroupWritten' /\ GroupRewritten'
      /\ Unsynced' = Unsynced /\ Places'
      /\ dnat.attached /\ main'.loaded = main.loaded
      /\ ~Unsynced => main.work = config /\ listeners_from_config(config) # <<>>
      /\ \/ main'.pc = "buckets" /\ dnat' = d
         \/ main'.pc = "attach" /\ dnat' = dnat
  BY <1>1, <1>2, <1>3, SyncIs
<1>5. CASE main'.pc = "buckets" /\ dnat' = d
  <2>1. ListenerWritten'
    BY <1>1, <1>2, <1>3, <1>4, <1>5 DEF LoopInv, MapsWritten, ListenerWritten
  <2>2. SlotsWritten'
    BY <1>2, <1>3, <1>4, <1>5 DEF SlotsWritten, s
  <2>3. BucketsWritten' /\ NothingServed'
    BY <1>5 DEF BucketsWritten, NothingServed, Applied, Mapped
  <2> QED BY <1>4, <2>1, <2>2, <2>3 DEF LoopInv, MapsWritten
<1>6. CASE main'.pc = "attach"
  <2>1. MapsWritten'
    BY <1>6 DEF MapsWritten, ListenerWritten, SlotsWritten, BucketsWritten, NothingServed, Applied, Mapped
  <2> QED BY <1>4, <2>1 DEF LoopInv
<1> QED BY <1>4, <1>5, <1>6

(* With the buckets the maps are complete and the lock is released. *)
LEMMA SyncBucketsKeeps == ASSUME LoopInv, sync_consistent_hash_bucket_map PROVE LoopInv'
<1> DEFINE b == Active(main.work, health)
           d == [dnat EXCEPT !.bucket = b]
<1>1. Sync("buckets", "marker", d) /\ main.pc = "buckets"
  BY DEF sync_consistent_hash_bucket_map, Sync
<1>2. UNCHANGED <<config, health, editor, dirty, auto, vxlan, marker, probe, stale>>
  BY DEF sync_consistent_hash_bucket_map, store, world
<1> HIDE DEF b
<1>3. /\ DnatShape(d) /\ d.attached = dnat.attached /\ d.count = dnat.count /\ d.dscp = dnat.dscp
      /\ d.weight = dnat.weight /\ d.slot = dnat.slot /\ d.bucket = b
  BY DEF LoopInv, Shapes, DnatShape
<1> HIDE DEF d
<1>4. /\ Shapes' /\ WorkIsConfig' /\ HealthIsProjected' /\ OutcomesAreScheduled'
      /\ MarkerWritten' /\ PeersWritten' /\ GroupWritten' /\ GroupRewritten'
      /\ Unsynced' = Unsynced /\ Places'
      /\ dnat.attached /\ main'.loaded = main.loaded
      /\ ~Unsynced => main.work = config /\ listeners_from_config(config) # <<>>
      /\ \/ main'.pc = "marker" /\ dnat' = d
         \/ main'.pc = "attach" /\ dnat' = dnat
  BY <1>1, <1>2, <1>3, SyncIs
<1>5. CASE main'.pc = "marker" /\ dnat' = d
  <2>1. ListenerWritten' /\ SlotsWritten'
    BY <1>1, <1>2, <1>3, <1>4, <1>5 DEF LoopInv, MapsWritten, ListenerWritten, SlotsWritten
  <2>2. BucketsWritten' /\ NothingServed'
    BY <1>2, <1>3, <1>4, <1>5 DEF BucketsWritten, NothingServed, b
  <2> QED BY <1>4, <2>1, <2>2 DEF LoopInv, MapsWritten
<1>6. CASE main'.pc = "attach"
  <2>1. MapsWritten'
    BY <1>6 DEF MapsWritten, ListenerWritten, SlotsWritten, BucketsWritten, NothingServed, Applied, Mapped
  <2> QED BY <1>4, <2>1 DEF LoopInv
<1> QED BY <1>4, <1>5, <1>6

(* Attaching anew writes all maps at once, or fails. *)
LEMMA AttachKeeps == ASSUME LoopInv, attach_prepared PROVE LoopInv'
<1> DEFINE n == Len(listeners_from_config(main.work))
           w == ActiveWeight(main.work, health)
           s == Slots(main.work, health)
           b == Active(main.work, health)
           d == [attached |-> TRUE, count |-> n, dscp |-> main.loaded, weight |-> w,
                 slot |-> s, bucket |-> b]
<1>1. main.pc = "attach" /\ ~main.full /\ (writer = "main" \/ writer = "free") /\ writer' = "free"
      /\ probe.pc # "weights" /\ listeners_from_config(main.work) # <<>>
  BY DEF attach_prepared, LoopInv, Places, MayWrite, Applying
<1>2. UNCHANGED <<config, health, editor, dirty, auto, vxlan, marker, probe>>
  BY DEF attach_prepared, store, world
<1>3. CASE dnat' = d /\ main' = [main EXCEPT !.pc = "marker", !.current = TRUE] /\ UNCHANGED stale
  <2> HIDE DEF n, w, s, b
  <2>1. /\ MainShape(main') /\ main'.pc = "marker" /\ main'.loaded = main.loaded
        /\ main'.boot = main.boot /\ main'.work = main.work /\ main'.known = main.known
        /\ main'.pending = main.pending /\ main'.full = main.full /\ main'.again = main.again
    BY <1>3 DEF MainShape, LoopInv, Shapes
  <2>2. /\ DnatShape(dnat') /\ dnat'.attached /\ dnat'.count = n /\ dnat'.dscp = main.loaded
        /\ dnat'.weight = w /\ dnat'.slot = s /\ dnat'.bucket = b
    BY <1>3 DEF DnatShape
  <2> HIDE DEF d
  <2>3. /\ Shapes' /\ WorkIsConfig' /\ HealthIsProjected' /\ OutcomesAreScheduled'
        /\ MarkerWritten' /\ PeersWritten' /\ GroupWritten' /\ GroupRewritten'
        /\ Unsynced' = Unsynced
    BY <1>1, <1>2, <1>3, <2>1, <2>2, WritingKeeps DEF Applying
  <2>4. Places'
    BY <1>1, <1>2, <2>1, <2>2 DEF LoopInv, Places, Applying
  <2>5. ~Unsynced => main.work = config /\ listeners_from_config(config) # <<>>
    BY <1>1 DEF LoopInv, WorkIsConfig, Applying
  <2>6. MapsWritten'
    BY <1>2, <2>1, <2>2, <2>3, <2>5 DEF MapsWritten, ListenerWritten, SlotsWritten,
       BucketsWritten, NothingServed, n, w, s, b
  <2> QED BY <2>3, <2>4, <2>6 DEF LoopInv
<1>4. CASE dnat' = NoDnat /\ ApplyFails(FALSE)
  BY <1>1, <1>2, <1>4, FailureKeeps, EmptyShapes DEF LoopInv, Shapes, Applying
<1>5. CASE dnat' = dnat /\ ApplyFails(main.current)
  <2>1. main.current \in BOOLEAN /\ (main.current => dnat'.attached)
    BY <1>5 DEF LoopInv, Shapes, MainShape, Places
  <2> QED BY <1>1, <1>2, <1>5, <2>1, FailureKeeps DEF LoopInv, Shapes, Applying
<1> QED BY <1>3, <1>4, <1>5 DEF attach_prepared

(* The marker is what the configuration the apply read asks for, or is gone. *)
LEMMA FinishKeeps ==
    ASSUME LoopInv, NEW update \in {"clear", "keep", "replace"}, Finish(update),
           main.pc = "marker", (update = "clear") = (~main.work.bound),
           UNCHANGED <<config, health, editor, dirty, auto, vxlan, dnat, writer, probe, stale>>
    PROVE  LoopInv'
<1> DEFINE there == IF main.boot THEN "top" ELSE "automate"
           o == CASE update = "clear" -> FALSE
                  [] update = "replace" -> TRUE
                  [] OTHER -> main.owned
           k == main.work.bound
           e == IF main.boot THEN file ELSE main.seen
<1>1. main' = [main EXCEPT !.pc = there, !.boot = FALSE, !.seen = e, !.work = NoConfig,
                           !.cached = k, !.owned = o]
  BY DEF Finish
<1>2. o \in BOOLEAN /\ k \in BOOLEAN /\ there \in {"top", "automate"} /\ (there = "top" => main.boot)
  BY DEF LoopInv, Shapes, MainShape, ConfigShape
<1> HIDE DEF there, o, k, e
<1>3. /\ MainShape(main') /\ main'.pc = there /\ ~main'.boot /\ main'.work = NoConfig
      /\ main'.cached = k /\ main'.loaded = main.loaded /\ main'.known = main.known
      /\ main'.pending = main.pending /\ main'.full = main.full /\ main'.again = main.again
      /\ main'.current = main.current
  BY <1>1, <1>2 DEF MainShape, LoopInv, Shapes
<1>4. /\ marker' \in {NoMarker, Marked} /\ (~k => marker' = NoMarker)
  BY <1>2 DEF Finish, k
<1>5. ~main.full /\ (there = "top" => main.pending = "new")
  BY <1>2 DEF LoopInv, Places
<1>6. Shapes'
  <2>1. MarkerShape(Marked)
    BY DEF MarkerShape, Marked
  <2> QED BY <1>3, <1>4, <2>1, EmptyShapes, NoConfigIsConfig DEF LoopInv, Shapes
<1>7. Places'
  BY <1>2, <1>3, <1>5 DEF LoopInv, Places, Applying
<1>8. /\ Mapped /\ Mapped' /\ Unsynced' = Unsynced
      /\ HealthMatches' = HealthMatches /\ Marked' = Marked
  BY <1>2, <1>3 DEF Mapped, Applied, Unsynced, HealthMatches, Marked
<1>9. WorkIsConfig' /\ OutcomesAreScheduled' /\ HealthIsProjected'
  BY <1>2, <1>3, <1>8 DEF LoopInv, WorkIsConfig, OutcomesAreScheduled, HealthIsProjected, Applying
<1>10. MapsWritten'
  BY <1>3, <1>8 DEF LoopInv, MapsWritten, ListenerWritten, SlotsWritten, BucketsWritten, NothingServed
<1>11. MarkerWritten'
  <2>1. ~Unsynced => config.bound = k
    BY DEF LoopInv, WorkIsConfig, k
  <2> QED BY <1>2, <1>3, <1>4, <1>8, <2>1, EmptyShapes DEF MarkerWritten
<1>12. PeersWritten' /\ GroupWritten' /\ GroupRewritten'
  BY <1>2, <1>3, <1>5 DEF LoopInv, PeersWritten, GroupWritten, GroupRewritten
<1> QED BY <1>6, <1>7, <1>9, <1>10, <1>11, <1>12 DEF LoopInv

(* The marker is the last thing an apply writes. *)
LEMMA MarkerKeeps == ASSUME LoopInv, ApplyMarker PROVE LoopInv'
<1>1. main.pc = "marker" /\ ~main.full
  BY DEF ApplyMarker, LoopInv, Places
<1>2. UNCHANGED <<config, health, editor, dirty, auto, vxlan, dnat, writer, probe>>
  BY DEF ApplyMarker, store, world
<1>3. /\ MarkerUpdate \in {"clear", "keep", "replace"}
      /\ (MarkerUpdate = "clear") = (~main.work.bound)
  BY DEF MarkerUpdate
<1>4. CASE Finish(MarkerUpdate) /\ UNCHANGED stale
  BY <1>1, <1>2, <1>3, <1>4, FinishKeeps
<1>5. CASE MarkerUpdate = "keep" /\ Finish("replace") /\ UNCHANGED stale
  BY <1>1, <1>2, <1>3, <1>5, FinishKeeps
<1>6. CASE /\ ApplyFails(main.current)
           /\ marker' \in CASE MarkerUpdate = "clear" -> {NoMarker}
                            [] MarkerUpdate = "keep" -> {Marked}
                            [] OTHER -> {marker, NoMarker,
                                         [marker EXCEPT !.attached = FALSE, !.pinned = TRUE]}
  <2>1. marker' \in {NoMarker, Marked, marker, [marker EXCEPT !.attached = FALSE, !.pinned = TRUE]}
    BY <1>3, <1>6
  <2>2. MarkerShape(Marked) /\ MarkerShape([marker EXCEPT !.attached = FALSE, !.pinned = TRUE])
        /\ MarkerShape(marker)
    BY DEF MarkerShape, Marked, LoopInv, Shapes
  <2>3. MarkerShape(marker')
    BY <2>1, <2>2, EmptyShapes
  <2>4. main.current \in BOOLEAN /\ (main.current => dnat'.attached) /\ DnatShape(dnat')
        /\ (probe.pc = "weights" => writer' = "probe" /\ dnat'.attached)
    BY <1>2 DEF LoopInv, Shapes, MainShape, Places
  <2> QED BY <1>1, <1>2, <1>6, <2>3, <2>4, FailureKeeps
<1> QED BY <1>4, <1>5, <1>6 DEF ApplyMarker

(* A changed group is committed and applied once more. *)
LEMMA AutomateKeeps == ASSUME LoopInv, reconcile_automations PROVE LoopInv'
<1> DEFINE skip == main.pending # "none" \/ main.again
<1>1. main.pc = "automate" /\ ~main.full /\ ~main.boot /\ MainShape(main)
  BY DEF reconcile_automations, LoopInv, Places, Shapes, Applying
<1>2. UNCHANGED <<health, editor, auto, vxlan, dnat, writer, probe>>
  BY DEF reconcile_automations, world
<1>3. CASE Goto("top") /\ UNCHANGED <<config, dirty, marker>> /\ stale' \in BOOLEAN
           /\ (~stale' => ~stale)
           /\ (~stale' /\ ~skip /\ auto => config.group = main.known)
  <2>1. /\ MainShape(main') /\ main'.pc = "top"
        /\ main'.boot = main.boot /\ main'.work = main.work /\ main'.loaded = main.loaded
        /\ main'.known = main.known /\ main'.pending = main.pending /\ main'.full = main.full
        /\ main'.again = main.again /\ main'.cached = main.cached /\ main'.current = main.current
    BY <1>1, <1>3, GotoIs
  <2>2. Applied /\ Mapped /\ Applied' /\ Mapped' /\ Unsynced' = Unsynced /\ Marked' = Marked
        /\ HealthMatches' = HealthMatches
    BY <1>1, <1>2, <1>3, <2>1 DEF Applied, Mapped, Unsynced, Marked, HealthMatches
  <2>3. Shapes'
    BY <1>2, <1>3, <2>1 DEF LoopInv, Shapes
  <2>4. Places' /\ OutcomesAreScheduled' /\ WorkIsConfig'
    BY <1>1, <1>2, <2>1 DEF LoopInv, Places, OutcomesAreScheduled, WorkIsConfig, Applying
  <2>5. HealthIsProjected' /\ MarkerWritten'
    BY <1>2, <1>3, <2>1, <2>2 DEF LoopInv, HealthIsProjected, MarkerWritten
  <2>6. MapsWritten'
    BY <1>2, <1>3, <2>1, <2>2 DEF LoopInv, MapsWritten, ListenerWritten, SlotsWritten,
       BucketsWritten, NothingServed
  <2>7. PeersWritten' /\ GroupWritten' /\ GroupRewritten'
    BY <1>1, <1>2, <1>3, <2>1 DEF LoopInv, PeersWritten, GroupWritten, GroupRewritten
  <2> QED BY <2>3, <2>4, <2>5, <2>6, <2>7 DEF LoopInv
<1>4. CASE /\ config' = [config EXCEPT !.group = online] /\ dirty' = TRUE
           /\ marker' = IF LostMarker THEN NoMarker ELSE marker
           /\ main' = [main EXCEPT !.pc = "network", !.again = TRUE,
                                   !.owned = main.owned /\ ~LostMarker]
           /\ stale' = (stale \/ online # main.known)
  <2>1. /\ MainShape(main') /\ main'.pc = "network" /\ main'.again /\ main'.boot = main.boot
        /\ main'.work = main.work /\ main'.known = main.known /\ main'.full = main.full
        /\ main'.current = main.current /\ main'.pending = main.pending
    BY <1>1, <1>4 DEF MainShape
  <2>2. config'.group = online /\ ConfigShape(config')
    BY <1>4 DEF LoopInv, Shapes, ConfigShape
  <2>3. Unsynced' /\ stale' \in BOOLEAN /\ (~stale' => online = main.known)
    BY <1>4 DEF Unsynced, LoopInv, Shapes
  <2>4. Shapes'
    BY <1>2, <1>4, <2>1, <2>2, <2>3, EmptyShapes DEF LoopInv, Shapes
  <2>5. Places' /\ OutcomesAreScheduled'
    BY <1>1, <1>2, <2>1 DEF LoopInv, Places, OutcomesAreScheduled, Applying
  <2>6. WorkIsConfig' /\ HealthIsProjected' /\ MapsWritten' /\ MarkerWritten'
    BY <2>3 DEF WorkIsConfig, HealthIsProjected, MapsWritten, ListenerWritten, SlotsWritten,
       BucketsWritten, NothingServed, MarkerWritten
  <2>7. PeersWritten' /\ GroupWritten' /\ GroupRewritten'
    BY <2>1, <2>2, <2>3 DEF PeersWritten, GroupWritten, GroupRewritten
  <2> QED BY <2>4, <2>5, <2>6, <2>7 DEF LoopInv
<1>5. stale \in BOOLEAN
  BY DEF LoopInv, Shapes
<1> QED BY <1>3, <1>4, <1>5 DEF reconcile_automations

-----------------------------------------------------------------------------
(* The steps of the probe worker. *)

(* What the loop's parts say does not depend on the worker's memory. *)
LEMMA LoopUntouched ==
    ASSUME LoopInv, UNCHANGED <<config, editor, dirty, auto, vxlan, marker, main>>,
           stale' \in BOOLEAN, ~stale' => ~stale, ProbeShape(probe'), DnatShape(dnat')
    PROVE  /\ Shapes' /\ WorkIsConfig' /\ MarkerWritten' /\ PeersWritten' /\ GroupWritten'
           /\ GroupRewritten'
           /\ Unsynced' = Unsynced /\ Applied' = Applied /\ Mapped' = Mapped
<1>1. Shapes'
  BY DEF LoopInv, Shapes
<1>2. Unsynced' = Unsynced /\ Applied' = Applied /\ Mapped' = Mapped /\ Marked' = Marked
  BY DEF Unsynced, Applied, Mapped, Marked
<1>3. WorkIsConfig' /\ MarkerWritten' /\ PeersWritten' /\ GroupWritten' /\ GroupRewritten'
  BY <1>2 DEF LoopInv, WorkIsConfig, MarkerWritten, PeersWritten, GroupWritten, GroupRewritten
<1> QED BY <1>1, <1>2, <1>3

(* The worker moves between two positions without writing anything. *)
LEMMA WorkerMoves ==
    ASSUME LoopInv,
           UNCHANGED <<config, health, editor, dirty, auto, vxlan, dnat, marker, writer, main,
                       stale>>,
           ProbeShape(probe'), OutcomesAreScheduled', probe'.pc # "weights",
           \/ probe'.pc \in {"observe", "slots"}
           \/ probe.pc \notin {"observe", "slots", "weights"}
           \/ ~dnat.attached
    PROVE  LoopInv'
<1>1. /\ Shapes' /\ WorkIsConfig' /\ MarkerWritten' /\ PeersWritten' /\ GroupWritten'
      /\ GroupRewritten'
      /\ Unsynced' = Unsynced /\ Applied' = Applied /\ Mapped' = Mapped
  BY LoopUntouched DEF LoopInv, Shapes
<1>2. Places'
  BY DEF LoopInv, Places
<1>3. HealthIsProjected'
  BY <1>1 DEF LoopInv, HealthIsProjected, HealthMatches
<1>4. MapsWritten'
  BY <1>1 DEF LoopInv, MapsWritten, ListenerWritten, SlotsWritten, BucketsWritten, NothingServed
<1> QED BY <1>1, <1>2, <1>3, <1>4 DEF LoopInv

(* Measuring changes the worker's memory only. *)
LEMMA MeasureKeeps == ASSUME LoopInv, ProbeTargets PROVE LoopInv'
<1>1. PICK o, f, g : probe' = [probe EXCEPT !.pc = "reread", !.cfg = config, !.outcome = o,
                                            !.def = f, !.failures = g]
  BY DEF ProbeTargets
<1>2. ProbeShape(probe') /\ probe'.pc = "reread"
  BY <1>1 DEF LoopInv, Shapes, ProbeShape
<1>3. probe.pc = "idle"
      /\ UNCHANGED <<config, health, editor, dirty, auto, vxlan, dnat, marker, writer, main, stale>>
  BY DEF ProbeTargets, store, world, kernel
<1>4. OutcomesAreScheduled'
  BY <1>2 DEF OutcomesAreScheduled
<1> QED BY <1>2, <1>3, <1>4, WorkerMoves

(* Only results of targets that are still scheduled are kept. *)
LEMMA RereadKeeps == ASSUME LoopInv, RereadConfig PROVE LoopInv'
<1> DEFINE kept == [t \in Target |-> IF KeepsOutcome(t) THEN probe.outcome[t] ELSE "none"]
<1>1. probe' = [probe EXCEPT !.pc = "publish", !.cfg = config, !.outcome = kept]
  BY DEF RereadConfig
<1>2. \A t \in Target : kept[t] # "none" => t \in scheduled_targets(config)
  BY DEF KeepsOutcome
<1> HIDE DEF kept
<1>3. ProbeShape(probe') /\ probe'.pc = "publish" /\ probe'.cfg = config /\ probe'.outcome = kept
  BY <1>1 DEF LoopInv, Shapes, ProbeShape
<1>4. probe.pc = "reread"
      /\ UNCHANGED <<config, health, editor, dirty, auto, vxlan, dnat, marker, writer, main, stale>>
  BY DEF RereadConfig, store, world, kernel
<1>5. OutcomesAreScheduled'
  BY <1>2, <1>3 DEF OutcomesAreScheduled
<1> QED BY <1>3, <1>4, <1>5, WorkerMoves

(* Verdicts change records of scheduled targets only: a projection stays one. *)
LEMMA VerdictsAreProjected ==
    ASSUME NEW c, NEW h, NEW o, NEW f, NEW g, h = rebuild_listener_state(c, h),
           \A t \in Target : o[t] # "none" => t \in scheduled_targets(c),
           g = [t \in Target |-> IF h[t] = "absent" THEN "absent"
                                 ELSE NextHealth(h[t], f[t], o[t], Retries)]
    PROVE  g = rebuild_listener_state(c, g)
<1>1. ASSUME NEW t \in Target
      PROVE  g[t] = CASE ~c.bound \/ t \notin c.group -> "absent"
                      [] c.bound /\ t \in c.group /\ c.probe = NoProbe -> "ok"
                      [] OTHER -> IF g[t] = "absent" THEN "unknown" ELSE g[t]
  <2>1. h[t] = CASE ~c.bound \/ t \notin c.group -> "absent"
                 [] c.bound /\ t \in c.group /\ c.probe = NoProbe -> "ok"
                 [] OTHER -> IF h[t] = "absent" THEN "unknown" ELSE h[t]
    BY DEF rebuild_listener_state
  <2>2. g[t] = IF h[t] = "absent" THEN "absent" ELSE NextHealth(h[t], f[t], o[t], Retries)
    OBVIOUS
  <2>3. NextHealth(h[t], f[t], o[t], Retries) \in {"ok", "nok", h[t]}
        /\ (o[t] = "none" => NextHealth(h[t], f[t], o[t], Retries) = h[t])
    BY DEF NextHealth
  <2>4. CASE ~c.bound \/ t \notin c.group
    BY <2>1, <2>2, <2>4
  <2>5. CASE c.bound /\ t \in c.group /\ c.probe = NoProbe
    <3>1. o[t] = "none"
      BY <2>5 DEF scheduled_targets
    <3> QED BY <2>1, <2>2, <2>3, <2>5, <3>1
  <2>6. CASE c.bound /\ t \in c.group /\ c.probe # NoProbe
    BY <2>1, <2>2, <2>3, <2>6
  <2> QED BY <2>4, <2>5, <2>6
<1>2. g = [t \in Target |-> g[t]]
  OBVIOUS
<1>3. rebuild_listener_state(c, g) = [t \in Target |-> g[t]]
  BY <1>1 DEF rebuild_listener_state
<1> QED BY <1>2, <1>3

(* Published verdicts leave the maps to be refreshed. *)
LEMMA ResultsKeep == ASSUME LoopInv, apply_results PROVE LoopInv'
<1> DEFINE next == [t \in Target |-> IF health[t] = "absent" THEN "absent"
                                     ELSE NextHealth(health[t], Counted[t],
                                                          probe.outcome[t], Retries)]
<1>1. probe.pc = "publish"
      /\ UNCHANGED <<config, editor, dirty, auto, vxlan, dnat, marker, writer, main>>
  BY DEF apply_results, world, kernel
<1>2. CASE health' = health /\ stale' = stale /\ probe' = Rested(probe.def, Counted)
  <2>1. ProbeShape(probe') /\ probe'.pc = "idle"
    BY <1>2, RestedShape
  <2>2. OutcomesAreScheduled'
    BY <2>1 DEF OutcomesAreScheduled
  <2> QED BY <1>1, <1>2, <2>1, <2>2, WorkerMoves
<1>3. CASE /\ health' = next /\ next # health
           /\ probe' = [probe EXCEPT !.pc = "observe", !.failures = Counted,
                                     !.outcome = [t \in Target |-> "none"]]
           /\ stale' = (stale \/ probe.cfg # config)
  <2> DEFINE none == [t \in Target |-> "none"]
  <2> HIDE DEF none
  <2>1. ProbeShape(probe') /\ probe'.pc = "observe"
    <3>1. probe' = [probe EXCEPT !.pc = "observe", !.failures = Counted, !.outcome = none]
      BY <1>3 DEF none
    <3> QED BY <3>1 DEF LoopInv, Shapes, ProbeShape
  <2>2. stale' \in BOOLEAN /\ (~stale' => ~stale /\ probe.cfg = config) /\ DnatShape(dnat')
    BY <1>1, <1>3 DEF LoopInv, Shapes
  <2>3. /\ Shapes' /\ WorkIsConfig' /\ MarkerWritten' /\ PeersWritten' /\ GroupWritten'
        /\ GroupRewritten'
        /\ Unsynced' = Unsynced /\ Applied' = Applied /\ Mapped' = Mapped
    BY <1>1, <2>1, <2>2, LoopUntouched
  <2>4. Places' /\ OutcomesAreScheduled'
    BY <1>1, <2>1 DEF LoopInv, Places, OutcomesAreScheduled
  <2>5. HealthIsProjected'
    <3> SUFFICES ASSUME ~stale', ~Unsynced', main'.pc \in Applying \/ Mapped' PROVE HealthMatches'
      BY DEF HealthIsProjected
    <3>1. health = rebuild_listener_state(config, health)
      BY <1>1, <2>2, <2>3 DEF LoopInv, HealthIsProjected, HealthMatches
    <3>2. \A t \in Target : probe.outcome[t] # "none" => t \in scheduled_targets(config)
      BY <1>1, <2>2 DEF LoopInv, OutcomesAreScheduled
    <3>3. next = rebuild_listener_state(config, next)
      BY <3>1, <3>2, VerdictsAreProjected
    <3> QED BY <1>1, <1>3, <3>3 DEF HealthMatches
  <2>6. MapsWritten'
    BY <1>1, <2>1, <2>2, <2>3 DEF LoopInv, MapsWritten, ListenerWritten, SlotsWritten,
       BucketsWritten, NothingServed
  <2> QED BY <2>3, <2>4, <2>5, <2>6 DEF LoopInv
<1>4. stale \in BOOLEAN
  BY DEF LoopInv, Shapes
<1> QED BY <1>2, <1>3, <1>4 DEF apply_results

(* A datapath that is not attached needs no refresh. *)
LEMMA ObserveKeeps == ASSUME LoopInv, ObserveHealth PROVE LoopInv'
<1>1. probe.pc = "observe"
      /\ UNCHANGED <<config, health, editor, dirty, auto, vxlan, dnat, marker, writer, main, stale>>
  BY DEF ObserveHealth, store, world, kernel
<1>2. CASE dnat.attached
  <2>1. ProbeShape(probe') /\ probe'.pc = "slots"
    BY <1>2 DEF ObserveHealth, LoopInv, Shapes, ProbeShape
  <2> QED BY <1>1, <2>1, WorkerMoves DEF OutcomesAreScheduled
<1>3. CASE ~dnat.attached
  <2>1. ProbeShape(probe') /\ probe'.pc = "idle"
    BY <1>3, RestedShape DEF ObserveHealth
  <2> QED BY <1>1, <1>3, <2>1, WorkerMoves DEF OutcomesAreScheduled
<1> QED BY <1>2, <1>3

(* The lock keeps the refresh out of the loop's own pass over the maps. *)
LEMMA RefreshKeeps == ASSUME LoopInv, RefreshSlots PROVE LoopInv'
<1>1. probe.pc = "slots" /\ (writer = "probe" \/ writer = "free")
      /\ UNCHANGED <<config, health, editor, dirty, auto, vxlan, marker, main>>
  BY DEF RefreshSlots, store, world, MayWrite
<1>2. CASE /\ dnat.attached /\ writer' = "probe"
           /\ dnat' = [dnat EXCEPT !.slot = Slots(probe.cfg, health),
                                   !.bucket = Active(probe.cfg, health)]
           /\ stale' = (stale \/ probe.cfg # config)
           /\ probe' = [probe EXCEPT !.pc = "weights"]
  <2>1. ProbeShape(probe') /\ probe'.pc = "weights"
    BY <1>2 DEF LoopInv, Shapes, ProbeShape
  <2>2. stale' \in BOOLEAN /\ (~stale' => ~stale /\ probe.cfg = config)
    BY <1>2 DEF LoopInv, Shapes
  <2>3. /\ DnatShape(dnat') /\ dnat'.attached /\ dnat'.count = dnat.count /\ dnat'.dscp = dnat.dscp
        /\ dnat'.slot = Slots(probe.cfg, health) /\ dnat'.bucket = Active(probe.cfg, health)
    <3> DEFINE s == Slots(probe.cfg, health)
               b == Active(probe.cfg, health)
    <3>1. dnat' = [dnat EXCEPT !.slot = s, !.bucket = b]
      BY <1>2
    <3> HIDE DEF s, b
    <3>2. /\ DnatShape(dnat') /\ dnat'.attached = dnat.attached /\ dnat'.count = dnat.count
          /\ dnat'.dscp = dnat.dscp /\ dnat'.slot = s /\ dnat'.bucket = b
      BY <3>1 DEF LoopInv, Shapes, DnatShape
    <3> QED BY <1>2, <3>2 DEF s, b
  <2>4. /\ Shapes' /\ WorkIsConfig' /\ MarkerWritten' /\ PeersWritten' /\ GroupWritten'
        /\ GroupRewritten'
        /\ Unsynced' = Unsynced /\ Applied' = Applied /\ Mapped' = Mapped
    BY <1>1, <2>1, <2>2, <2>3, LoopUntouched
  <2>5. main.pc \notin {"targets", "buckets"}
    BY <1>1 DEF LoopInv, Places
  <2>6. Places' /\ OutcomesAreScheduled'
    BY <1>1, <1>2, <2>1, <2>3, <2>5 DEF LoopInv, Places, OutcomesAreScheduled
  <2>7. HealthIsProjected'
    BY <1>1, <2>2, <2>4 DEF LoopInv, HealthIsProjected, HealthMatches
  <2>8. MapsWritten'
    BY <1>1, <1>2, <2>1, <2>2, <2>3, <2>4, <2>5, EmptyShapes DEF LoopInv, MapsWritten,
       ListenerWritten, SlotsWritten, BucketsWritten, NothingServed
  <2> QED BY <2>4, <2>6, <2>7, <2>8 DEF LoopInv
<1>3. CASE /\ ~dnat.attached /\ UNCHANGED <<writer, dnat, stale>>
           /\ probe' = Rested(probe.def, probe.failures)
  <2>1. ProbeShape(probe') /\ probe'.pc = "idle"
    BY <1>3, RestedShape
  <2> QED BY <1>1, <1>3, <2>1, WorkerMoves DEF OutcomesAreScheduled
<1>4. CASE /\ stale' = TRUE /\ UNCHANGED <<writer, dnat>>
           /\ probe' = Rested(probe.def, probe.failures)
  <2>1. ProbeShape(probe') /\ probe'.pc = "idle"
    BY <1>4, RestedShape
  <2>2. Shapes' /\ WorkIsConfig'
    BY <1>1, <1>4, <2>1, LoopUntouched DEF LoopInv, Shapes
  <2>3. Places' /\ OutcomesAreScheduled'
    BY <1>1, <1>4, <2>1 DEF LoopInv, Places, OutcomesAreScheduled
  <2>4. HealthIsProjected' /\ MapsWritten' /\ MarkerWritten' /\ PeersWritten' /\ GroupWritten'
        /\ GroupRewritten'
    BY <1>4 DEF HealthIsProjected, MapsWritten, ListenerWritten, SlotsWritten, BucketsWritten,
       NothingServed, MarkerWritten, PeersWritten, GroupWritten, GroupRewritten
  <2> QED BY <2>2, <2>3, <2>4 DEF LoopInv
<1> QED BY <1>2, <1>3, <1>4 DEF RefreshSlots

(* The weights complete the refresh, when the health read for them is current. *)
LEMMA WeightsKeep == ASSUME LoopInv, refresh_listener_weights PROVE LoopInv'
<1> DEFINE w == ActiveWeight(probe.cfg, probe.observed)
<1>1. probe.pc = "weights" /\ writer' = "free" /\ main.pc \notin {"targets", "buckets"}
      /\ dnat.attached
      /\ UNCHANGED <<config, health, editor, dirty, auto, vxlan, marker, main>>
  BY DEF refresh_listener_weights, store, world, LoopInv, Places
<1>2. ProbeShape(probe') /\ probe'.pc = "idle"
  BY RestedShape DEF refresh_listener_weights
<1>3. stale' \in BOOLEAN /\ (~stale' => ~stale /\ probe.cfg = config /\ probe.observed = health)
  BY DEF refresh_listener_weights, LoopInv, Shapes
<1>4. dnat' = IF listeners_from_config(probe.cfg) = <<>> THEN dnat ELSE [dnat EXCEPT !.weight = w]
  BY DEF refresh_listener_weights
<1>5. w = ActiveWeight(probe.cfg, probe.observed)
  OBVIOUS
<1> HIDE DEF w
<1>6. /\ DnatShape(dnat') /\ dnat'.attached = dnat.attached /\ dnat'.count = dnat.count
      /\ dnat'.dscp = dnat.dscp /\ dnat'.slot = dnat.slot /\ dnat'.bucket = dnat.bucket
      /\ (listeners_from_config(probe.cfg) # <<>> => dnat'.weight = w)
  BY <1>4 DEF LoopInv, Shapes, DnatShape
<1>7. /\ Shapes' /\ WorkIsConfig' /\ MarkerWritten' /\ PeersWritten' /\ GroupWritten'
      /\ GroupRewritten'
      /\ Unsynced' = Unsynced /\ Applied' = Applied /\ Mapped' = Mapped
  BY <1>1, <1>2, <1>3, <1>6, LoopUntouched
<1>8. Places' /\ OutcomesAreScheduled'
  BY <1>1, <1>2, <1>6 DEF LoopInv, Places, OutcomesAreScheduled
<1>9. HealthIsProjected'
  BY <1>1, <1>3, <1>7 DEF LoopInv, HealthIsProjected, HealthMatches
<1>10. ListenerWritten' /\ SlotsWritten' /\ BucketsWritten'
  BY <1>1, <1>2, <1>3, <1>5, <1>6, <1>7 DEF LoopInv, MapsWritten, ListenerWritten, SlotsWritten,
     BucketsWritten
<1>11. NothingServed'
  BY <1>1, <1>3, <1>4, <1>7 DEF LoopInv, MapsWritten, NothingServed
<1> QED BY <1>7, <1>8, <1>9, <1>10, <1>11 DEF LoopInv, MapsWritten

-----------------------------------------------------------------------------
(* Every step keeps the invariant. *)
LEMMA LoopStep == ASSUME LoopInv, [Next]_vars PROVE LoopInv'
<1>1. CASE UNCHANGED vars
  BY <1>1, SameLoop DEF vars, store, world, kernel
<1>2. CASE \/ Commit \/ mark_state_dirty \/ EditFile \/ NodeChange
           \/ KernelObjectLost \/ Crash \/ Stop
  BY <1>2, CommitKeeps, MarkDirtyKeeps, WorldKeeps, LossKeeps, StopKeeps
<1>3. CASE MainStep
  BY <1>3, StartKeeps, MergeKeeps, ReloadKeeps, MtimeKeeps, TakeKeeps, NetworkKeeps, ProjectKeeps,
     DetachKeeps, SyncListenersKeeps, SyncTargetsKeeps, SyncBucketsKeeps, AttachKeeps, MarkerKeeps,
     AutomateKeeps DEF MainStep
<1>4. CASE ProbeTargets \/ ProbeStep
  BY <1>4, MeasureKeeps, RereadKeeps, ResultsKeep, ObserveKeeps, RefreshKeeps, WeightsKeep
     DEF ProbeStep
<1> QED BY <1>1, <1>2, <1>3, <1>4 DEF Next

(* When the loop has nothing left to do, the maps, the marker, the hub's peers, *)
(* the health records and the generated group are those of the committed        *)
(* configuration, unless an apply failed or a step used an outdated reading     *)
(* since: for every number of backends, commits, crashes and probe rounds.      *)
THEOREM LoopProgrammed == Spec => []QuietIsProgrammed
<1>1. Init => LoopInv
  BY LoopInit, LoopAssumption
<1>2. LoopInv /\ [Next]_vars => LoopInv'
  BY LoopStep
<1>3. LoopInv => QuietIsProgrammed
  BY LoopQuiet
<1> QED BY <1>1, <1>2, <1>3, PTL DEF Spec
=============================================================================
