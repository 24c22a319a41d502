-------------------------- MODULE BackendSyncProofs --------------------------
(* Proofs about BackendSync, for any number of gateways and backend nodes,   *)
(* any codepoints and stream ids and any number of faults.                   *)
EXTENDS BackendSync, FiniteSetTheorems, TLAPS

-----------------------------------------------------------------------------
(* The types of the values. *)

Overlay == 0..(Nodes + 1)
Snap == [dscp : Dscp \union {0}, overlay : Overlay]
Snaps == [Gateway -> Snap]
Work == [of : Snaps, conflict : BOOLEAN]
AnyAddrs == {{}} \union {Addrs(s) : s \in Snaps}
AnyMap == {NoMap} \union {Paths(s) : s \in Snaps}
HostState ==
    [dev : {"absent", "drifted", "down", "ours"}, addrs : AnyAddrs, peers : SUBSET Gateway, map : AnyMap]

RegistryType ==
    /\ dscp \in [Gateway -> Dscp]
    /\ nodes \in [Gateway -> [Node -> Overlay]] /\ inv \in [Gateway -> [Node -> Overlay]]
    /\ sub \in [Gateway -> [Node -> StreamId \union {0}]]
    /\ tasks \in [Gateway -> SUBSET StreamId]
WireType ==
    /\ stream \in [Gateway -> StreamId \union {0}] /\ sent \in Snaps
    /\ queue \in [Gateway -> Seq(Snap)] /\ lapsed \in [Gateway -> BOOLEAN]
JobType ==
    /\ job \in [Gateway -> {"down", "wait", "merged", "apply"}] /\ held \in Snaps
    /\ applied \in Work /\ work \in Work
HostType ==
    /\ host \in HostState /\ current \in BOOLEAN /\ foreign \in BOOLEAN /\ torn \in {"no", "failed", "drift"}
RestType == mode \in {"xds", "file"} /\ events \in 0..MaxEvents
Typed == RegistryType /\ WireType /\ JobType /\ HostType /\ RestType

-----------------------------------------------------------------------------
(* The inductive invariant. *)

(* A live stream has its task, and one thread at a time holds the apply lock. *)
HasTask == \A g \in Gateway : stream[g] \in tasks[g] \union {0}
OneApplies == \A g, k \in Gateway : job[g] = "apply" /\ job[k] = "apply" => g = k

(* Without discovery nothing arrives, and what is applied is the file. *)
FileWork == [of |-> FileHeld, conflict |-> FALSE]
FileAlone ==
    mode = "file" =>
       /\ \A g \in Gateway : stream[g] = 0 /\ queue[g] = <<>> /\ job[g] \in {"down", "wait"}
       /\ applied = IF job[1] = "wait" THEN FileWork ELSE NoWork

(* What may be applied: every gateway's path, each under its own codepoint. *)
Complete(s) == Combines(s) = Gateway /\ validate(Paths(s))

(* While a thread programs the host, the tunnel is the one of its work unless
   something else changed it. *)
Programming ==
    \A g \in Gateway : job[g] = "apply" =>
       /\ Complete(work.of) /\ torn # "no"
       /\ torn = "failed" => /\ host.dev = "ours" /\ host.addrs = Addrs(work.of)
                             /\ Gateway \subseteq host.peers
InstallInv == HasTask /\ OneApplies /\ FileAlone /\ Programming /\ AppliedIsInstalled
BInv == Typed /\ InstallInv /\ LiveIsRegistered

-----------------------------------------------------------------------------
(* Ranks in sets of numbers. *)

LEMMA Least ==
    ASSUME NEW T \in SUBSET Nat, T # {}
    PROVE  \E x \in T : \A y \in T : x <= y
  <1> DEFINE Upto(m) == {y \in T : y <= m}
             U == {Upto(m) : m \in T}
  <1>1. \A m \in T : Upto(m) \in FiniteSubsetsOf(Nat)
    <2> SUFFICES ASSUME NEW m \in T PROVE Upto(m) \in FiniteSubsetsOf(Nat)
      OBVIOUS
    <2>1. m \in Nat /\ Upto(m) \in SUBSET Nat /\ \A y \in Upto(m) : y <= m
      OBVIOUS
    <2>2. IsFiniteSet(Upto(m))
      BY <2>1, FS_BoundedSetOfNaturals
    <2> QED BY <2>1, <2>2 DEF FiniteSubsetsOf
  <1>2. IsWellFoundedOn(StrictSubsetOrdering(Nat), FiniteSubsetsOf(Nat))
    BY FS_StrictSubsetOrderingWellFounded
  <1>3. U \subseteq FiniteSubsetsOf(Nat) /\ U # {}
    BY <1>1
  <1>4. PICK u \in U : \A v \in U : ~(<<v, u>> \in StrictSubsetOrdering(Nat))
    BY <1>2, <1>3, WFMin
  <1>5. PICK x \in T : u = Upto(x)
    OBVIOUS
  <1>6. ASSUME NEW y \in T, y < x
        PROVE  FALSE
    <2>0. x \in Nat /\ y \in Nat
      OBVIOUS
    <2>1. Upto(y) \subseteq Upto(x) /\ x \in Upto(x) /\ x \notin Upto(y)
      <3>1. ASSUME NEW z \in T, z <= y PROVE z <= x
        <4>1. z \in Nat
          OBVIOUS
        <4> QED BY <1>6, <2>0, <3>1, <4>1
      <3>2. x <= x /\ ~(x <= y)
        BY <1>6, <2>0
      <3> QED BY <3>1, <3>2
    <2>2. <<Upto(y), Upto(x)>> \in StrictSubsetOrdering(Nat)
      BY <2>1, <1>1 DEF StrictSubsetOrdering, FiniteSubsetsOf
    <2> QED BY <1>4, <1>5, <2>2
  <1> QED BY <1>6

LEMMA Greatest ==
    ASSUME NEW S \in SUBSET Nat, S # {}, NEW top \in Nat, \A y \in S : y <= top
    PROVE  \E x \in S : \A y \in S : x >= y
  <1> DEFINE U == {u \in Nat : \A y \in S : y <= u}
  <1>1. U \in SUBSET Nat /\ U # {}
    OBVIOUS
  <1>2. PICK u \in U : \A v \in U : u <= v
    BY <1>1, Least
  <1>3. CASE u \in S
    BY <1>3
  <1>4. CASE u \notin S
    <2>1. \A y \in S : y \in Nat /\ y < u
      BY <1>4
    <2>2. u - 1 \in Nat
      <3>1. PICK y \in S : y \in Nat /\ y < u
        BY <2>1
      <3>2. u \in Nat
        OBVIOUS
      <3> QED BY <3>1, <3>2
    <2>3. u - 1 \in U
      BY <2>1, <2>2
    <2> QED BY <1>2, <2>3
  <1> QED BY <1>3, <1>4

(* A set with more than r elements has one with exactly r below it. *)
LEMMA Ranked ==
    ASSUME NEW F \in SUBSET Nat, IsFiniteSet(F), NEW top \in Nat, \A y \in F : y <= top,
           NEW r \in Nat, r < Cardinality(F)
    PROVE  \E i \in F : Cardinality({j \in F : j < i}) = r
  <1> DEFINE Below(i) == {j \in F : j < i}
             T == {i \in F : Cardinality(Below(i)) >= r}
  <1>1. ASSUME NEW i \in F
        PROVE  IsFiniteSet(Below(i)) /\ Cardinality(Below(i)) \in Nat
    <2>1. Below(i) \in SUBSET F
      OBVIOUS
    <2> QED BY <2>1, FS_Subset, FS_CardinalityType
  <1>2. ASSUME NEW S \in SUBSET F, S # {}
        PROVE  \E m \in S : \A y \in S : m >= y
    BY <1>2, Greatest
  <1>3. T # {}
    <2>1. F # {}
      BY FS_EmptySet
    <2>2. PICK m \in F : \A y \in F : m >= y
      BY <1>2, <2>1
    <2>3. Below(m) = F \ {m}
      <3>1. ASSUME NEW y \in F PROVE y < m <=> y # m
        <4>1. y \in Nat /\ m \in Nat /\ m >= y
          BY <2>2
        <4> QED BY <4>1
      <3> QED BY <3>1
    <2>4. Cardinality(F \ {m}) = Cardinality(F) - 1
      BY FS_RemoveElement
    <2>5. Cardinality(F) \in Nat
      BY FS_CardinalityType
    <2>6. Cardinality(Below(m)) >= r
      BY <2>3, <2>4, <2>5
    <2> QED BY <2>6
  <1>4. PICK i \in T : \A y \in T : i <= y
    <2>1. T \in SUBSET Nat
      OBVIOUS
    <2> QED BY <1>3, <2>1, Least
  <1>5. CASE Cardinality(Below(i)) = r
    BY <1>5
  <1>6. CASE Cardinality(Below(i)) # r
    <2>1. Cardinality(Below(i)) > r /\ Cardinality(Below(i)) \in Nat /\ i \in Nat
      BY <1>1, <1>6
    <2>2. Below(i) # {}
      BY <2>1, FS_EmptySet
    <2>3. PICK m \in Below(i) : \A y \in Below(i) : m >= y
      <3>1. Below(i) \in SUBSET F
        OBVIOUS
      <3> HIDE DEF Below
      <3> QED BY <1>2, <2>2, <3>1
    <2>4. m \in F /\ m \in Nat /\ m < i
      OBVIOUS
    <2>5. Below(m) = Below(i) \ {m}
      <3>1. ASSUME NEW y \in F PROVE y < m <=> y < i /\ y # m
        <4>1. y \in Nat
          OBVIOUS
        <4>2. y < i => m >= y
          BY <2>3
        <4> QED BY <2>1, <2>4, <4>1, <4>2
      <3> QED BY <3>1
    <2>6. Cardinality(Below(i) \ {m}) = Cardinality(Below(i)) - 1
      BY <1>1, FS_RemoveElement
    <2>7. Cardinality(Below(m)) >= r
      BY <2>1, <2>5, <2>6
    <2>8. m \in T
      BY <2>4, <2>7
    <2>9. i <= m
      BY <1>4, <2>8
    <2> QED BY <2>1, <2>4, <2>9
  <1> QED BY <1>5, <1>6

-----------------------------------------------------------------------------
(* assign_overlay_ips. *)

LEMMA Consts ==
    /\ Gateways \in Nat \ {0} /\ Nodes \in Nat \ {0} /\ 1 \in Gateway /\ 1 \in Node /\ Self = 1
    /\ Gateway \subseteq Dscp /\ 1 \in Dscp /\ 0 \notin Dscp /\ Dscp \subseteq Nat
    /\ 0 \notin StreamId /\ 1 \in StreamId /\ StreamId \subseteq Nat
    /\ 0 \in Overlay /\ 1 \in Overlay /\ Node \subseteq Nat
  BY BackendAssumption DEF Gateway, Node, Self, Overlay

LEMMA AssignIs ==
    ASSUME NEW base \in [Node -> Overlay]
    PROVE  LET a == assign_overlay_ips(base) IN
           /\ a \in [Node -> Overlay]
           /\ \A n \in Node : a[n] = 0 <=> base[n] = 0
           /\ \A n, k \in Node : a[n] > 1 /\ a[n] = a[k] => n = k
  <1> DEFINE a == assign_overlay_ips(base)
             keeps == {n \in Node : base[n] > 1 /\ \A k \in 1..(n - 1) : base[k] # base[n]}
             autos == {n \in Node : base[n] # 0} \ keeps
             taken == {base[n] : n \in keeps}
             free == 2..(2 * Nodes + 1) \ taken
             before(n) == {k \in autos : k < n}
             below(i) == {j \in free : j < i}
             nth(n) == CHOOSE i \in free : Cardinality(below(i)) = Cardinality(before(n))
  <1>0. a = [n \in Node |-> IF n \in autos THEN nth(n) ELSE base[n]]
    BY DEF assign_overlay_ips
  <1>1. /\ Nodes \in Nat \ {0} /\ IsFiniteSet(Node) /\ Cardinality(Node) = Nodes
        /\ keeps \subseteq Node /\ autos \subseteq Node /\ keeps \cap autos = {}
        /\ \A n \in Node : n \in Nat /\ base[n] \in Nat /\ base[n] <= Nodes + 1
    <2>1. Nodes \in Nat \ {0} /\ \A n \in Node : n \in Nat /\ base[n] \in Nat /\ base[n] <= Nodes + 1
      BY Consts DEF Overlay
    <2>2. IsFiniteSet(1..Nodes) /\ Cardinality(1..Nodes) = Nodes
      BY <2>1, FS_Interval
    <2> QED BY <2>1, <2>2 DEF Node
  <1>2. /\ IsFiniteSet(keeps) /\ Cardinality(keeps) \in Nat /\ IsFiniteSet(taken)
        /\ Cardinality(taken) \in Nat /\ Cardinality(taken) <= Cardinality(keeps)
    <2>1. IsFiniteSet(keeps) /\ Cardinality(keeps) \in Nat
      BY <1>1, FS_Subset, FS_CardinalityType
    <2> DEFINE f == [n \in keeps |-> base[n]]
    <2>2. f \in Surjection(keeps, taken)
      BY DEF Surjection
    <2> HIDE DEF f, keeps, taken
    <2>3. IsFiniteSet(taken) /\ Cardinality(taken) <= Cardinality(keeps)
      BY <2>1, <2>2, FS_Surjection
    <2> QED BY <2>1, <2>3, FS_CardinalityType
  <1>3. /\ free \in SUBSET Nat /\ IsFiniteSet(free) /\ Cardinality(free) \in Nat
        /\ Cardinality(free) >= 2 * Nodes - Cardinality(keeps) /\ \A y \in free : y <= 2 * Nodes + 1
    <2> DEFINE all == 2..(2 * Nodes + 1)
    <2>1. all \in SUBSET Nat /\ \A y \in all : y <= 2 * Nodes + 1
      BY <1>1
    <2>2. IsFiniteSet(all) /\ Cardinality(all) = 2 * Nodes
      <3> DEFINE b == 2 * Nodes + 1
      <3>1. b \in Int /\ ~(2 > b) /\ b - 2 + 1 = 2 * Nodes /\ 2 \in Int
        BY <1>1
      <3> HIDE DEF b
      <3>2. IsFiniteSet(2..b) /\ Cardinality(2..b) = IF 2 > b THEN 0 ELSE b - 2 + 1
        BY <3>1, FS_Interval
      <3> QED BY <3>1, <3>2 DEF b
    <2> HIDE DEF all, taken
    <2>3. IsFiniteSet(all \ taken) /\ Cardinality(all \ taken) = Cardinality(all) - Cardinality(all \cap taken)
      BY <2>2, FS_Difference
    <2>4. all \cap taken \subseteq taken
      OBVIOUS
    <2>5. Cardinality(all \cap taken) <= Cardinality(taken) /\ Cardinality(all \cap taken) \in Nat
      BY <1>2, <2>4, FS_Subset, FS_CardinalityType
    <2>6. Cardinality(all \ taken) \in Nat
      BY <2>3, FS_CardinalityType
    <2>7. Cardinality(all \ taken) >= 2 * Nodes - Cardinality(keeps)
      BY <1>1, <1>2, <2>2, <2>3, <2>5
    <2> QED BY <2>1, <2>3, <2>6, <2>7 DEF all
  <1>4. ASSUME NEW n \in autos
        PROVE  /\ IsFiniteSet(before(n)) /\ Cardinality(before(n)) \in Nat
               /\ Cardinality(keeps) + Cardinality(before(n)) + 1 <= Nodes
    <2>1. before(n) \subseteq autos /\ n \notin before(n) /\ n \in Node
      BY <1>1
    <2>2. IsFiniteSet(autos)
      BY <1>1, FS_Subset
    <2> HIDE DEF before, keeps, autos
    <2>3. IsFiniteSet(before(n)) /\ Cardinality(before(n)) \in Nat
      BY <2>1, <2>2, FS_Subset, FS_CardinalityType
    <2>4. IsFiniteSet(before(n) \union {n}) /\ Cardinality(before(n) \union {n}) = Cardinality(before(n)) + 1
      BY <2>1, <2>3, FS_AddElement
    <2>5. keeps \cap (before(n) \union {n}) = {} /\ keeps \union (before(n) \union {n}) \subseteq Node
      BY <1>1, <2>1
    <2>6. Cardinality(keeps \union (before(n) \union {n})) = Cardinality(keeps) + Cardinality(before(n)) + 1
      <3>1. Cardinality(keeps \cap (before(n) \union {n})) = 0
        BY <2>5, FS_EmptySet
      <3>2. Cardinality(keeps \union (before(n) \union {n})) =
              Cardinality(keeps) + Cardinality(before(n) \union {n}) - Cardinality(keeps \cap (before(n) \union {n}))
        BY <1>2, <2>4, FS_Union
      <3> QED BY <1>2, <2>3, <2>4, <3>1, <3>2
    <2>7. Cardinality(keeps \union (before(n) \union {n})) <= Nodes
      BY <1>1, <2>5, FS_Subset
    <2> QED BY <2>3, <2>6, <2>7
  <1>5. ASSUME NEW n \in autos
        PROVE  nth(n) \in free /\ Cardinality(below(nth(n))) = Cardinality(before(n))
    <2>0. /\ Nodes \in Nat /\ Cardinality(keeps) \in Nat /\ Cardinality(free) \in Nat
          /\ Cardinality(before(n)) \in Nat /\ Cardinality(keeps) + Cardinality(before(n)) + 1 <= Nodes
          /\ Cardinality(free) >= 2 * Nodes - Cardinality(keeps)
      BY <1>1, <1>2, <1>3, <1>4
    <2>2. 2 * Nodes + 1 \in Nat
      BY <1>1
    <2> HIDE DEF free, before, keeps
    <2>1. Cardinality(before(n)) \in Nat /\ Cardinality(before(n)) < Cardinality(free)
      BY <2>0
    <2>3. \E i \in free : Cardinality(below(i)) = Cardinality(before(n))
      BY <1>3, <2>1, <2>2, Ranked
    <2> QED BY <2>3
  <1>6. ASSUME NEW n \in autos
        PROVE  nth(n) \in Nat /\ nth(n) > 1 /\ nth(n) <= Nodes + 1 /\ nth(n) \notin taken
    <2> DEFINE i == nth(n)
    <2>1. i \in free /\ Cardinality(below(i)) = Cardinality(before(n))
      BY <1>5
    <2> HIDE DEF i, nth, taken
    <2>2. i \in Nat /\ i > 1 /\ i \notin taken /\ i <= 2 * Nodes + 1
      BY <1>1, <2>1
    <2> USE DEF taken
    <2>3. 2..(i - 1) \subseteq below(i) \union taken
      BY <1>1, <2>2
    <2>4. below(i) \in SUBSET free
      OBVIOUS
    <2> HIDE DEF below, taken, free, before, keeps
    <2>5. IsFiniteSet(below(i)) /\ Cardinality(below(i)) \in Nat
      BY <1>3, <2>4, FS_Subset, FS_CardinalityType
    <2>6. IsFiniteSet(below(i) \union taken) /\ Cardinality(below(i) \union taken) <= Cardinality(below(i)) + Cardinality(taken)
      <3>1. IsFiniteSet(below(i) \cap taken) /\ Cardinality(below(i) \cap taken) \in Nat
        BY <2>5, FS_Intersection, FS_CardinalityType
      <3>2. IsFiniteSet(below(i) \union taken) /\ Cardinality(below(i) \union taken) =
              Cardinality(below(i)) + Cardinality(taken) - Cardinality(below(i) \cap taken)
        BY <1>2, <2>5, FS_Union
      <3> QED BY <1>2, <2>5, <3>1, <3>2
    <2>7. Cardinality(2..(i - 1)) = i - 2
      <3>1. IF 2 > i - 1 THEN 0 = i - 2 ELSE i - 1 - 2 + 1 = i - 2
        BY <2>2
      <3>2. 2 \in Int /\ i - 1 \in Int
        BY <2>2
      <3>3. Cardinality(2..(i - 1)) = IF 2 > i - 1 THEN 0 ELSE i - 1 - 2 + 1
        BY <3>2, FS_Interval
      <3> QED BY <3>1, <3>3
    <2>8. Cardinality(2..(i - 1)) <= Cardinality(below(i) \union taken) /\ Cardinality(below(i) \union taken) \in Nat
      BY <2>3, <2>6, FS_Subset, FS_CardinalityType
    <2>9. i - 2 <= Cardinality(before(n)) + Cardinality(keeps)
      BY <1>2, <2>1, <2>2, <2>5, <2>6, <2>7, <2>8
    <2>10. i <= Nodes + 1
      BY <1>1, <1>2, <1>4, <2>2, <2>9
    <2> QED BY <2>2, <2>10 DEF i
  <1>7. ASSUME NEW n \in autos, NEW k \in autos, nth(n) = nth(k)
        PROVE  n = k
    <2>1. Cardinality(before(n)) = Cardinality(before(k))
      BY <1>5, <1>7
    <2>2. n \in Nat /\ k \in Nat
      BY <1>1
    <2>3. ASSUME NEW x \in autos, NEW y \in autos, x < y, Cardinality(before(x)) = Cardinality(before(y))
          PROVE  FALSE
      <3>0. x \in Nat /\ y \in Nat
        BY <1>1
      <3>1. before(x) \subseteq before(y) /\ x \in before(y) /\ x \notin before(x)
        <4>1. ASSUME NEW z \in autos, z < x PROVE z < y
          <5>1. z \in Nat
            BY <1>1
          <5> QED BY <2>3, <3>0, <4>1, <5>1
        <4>2. x < y /\ ~(x < x)
          BY <2>3, <3>0
        <4> HIDE DEF autos, keeps
        <4> QED BY <4>1, <4>2
      <3> HIDE DEF before
      <3>2. IsFiniteSet(before(y)) /\ before(x) \in SUBSET before(y)
        BY <1>4, <3>1
      <3> QED BY <2>3, <3>1, <3>2, FS_Subset
    <2> HIDE DEF before, nth
    <2>4. ~(n < k) /\ ~(k < n)
      BY <2>1, <2>3
    <2> QED BY <2>2, <2>4
  <1>8. \A n \in Node : a[n] = IF n \in autos THEN nth(n) ELSE base[n]
    BY <1>0
  <1>9. \A n \in Node : n \in autos \/ n \in keeps \/ base[n] = 0
    OBVIOUS
  <1>10. \A n \in keeps : base[n] \in taken /\ base[n] > 1
    OBVIOUS
  <1>11. ASSUME NEW n \in keeps, NEW k \in keeps, base[n] = base[k]
         PROVE  n = k
    <2>1. n \in Node /\ k \in Node /\ n \in Nat /\ k \in Nat /\ n >= 1 /\ k >= 1
      BY <1>1 DEF Node
    <2>2. ~(n < k) /\ ~(k < n)
      <3>1. n < k => n \in 1..(k - 1)
        BY <2>1
      <3>2. k < n => k \in 1..(n - 1)
        BY <2>1
      <3> QED BY <1>11, <3>1, <3>2
    <2> QED BY <2>1, <2>2
  <1>12. \A n \in autos : base[n] # 0
    OBVIOUS
  <1>13. DOMAIN a = Node /\ a = [n \in Node |-> a[n]]
    BY <1>0
  <1> HIDE DEF a, keeps, autos, taken, free, nth
  <1>14. \A n \in Node : a[n] \in Overlay
    BY <1>1, <1>6, <1>8 DEF Overlay
  <1>15. a \in [Node -> Overlay]
    BY <1>13, <1>14
  <1>16. \A n \in Node : a[n] = 0 <=> base[n] = 0
    BY <1>6, <1>8, <1>12
  <1>17. ASSUME NEW n \in Node, NEW k \in Node, a[n] > 1, a[n] = a[k]
         PROVE  n = k
    <2>0. n \in autos \/ n \in keeps
      BY <1>8, <1>9, <1>17
    <2>1. k \in autos \/ k \in keeps
      BY <1>8, <1>9, <1>17
    <2>2. CASE n \in autos /\ k \in autos
      BY <1>7, <1>8, <1>17, <2>2
    <2>3. CASE n \notin autos /\ k \notin autos
      BY <1>8, <1>11, <1>17, <2>0, <2>1, <2>3
    <2>4. CASE n \in autos /\ k \notin autos
      BY <1>6, <1>8, <1>10, <1>17, <2>1, <2>4
    <2>5. CASE n \notin autos /\ k \in autos
      BY <1>6, <1>8, <1>10, <1>17, <2>0, <2>5
    <2> QED BY <2>2, <2>3, <2>4, <2>5
  <1> QED BY <1>15, <1>16, <1>17 DEF a

-----------------------------------------------------------------------------
(* Snapshots and hosts. *)

LEMMA Values ==
    /\ NoSnapshot \in Snap /\ NoHeld \in Snaps /\ NoWork \in Work
    /\ FileHeld \in Snaps /\ FileWork \in Work
    /\ {} \in AnyAddrs /\ NoMap \in AnyMap /\ BareHost \in HostState
    /\ \A s \in Snaps : Addrs(s) \in AnyAddrs /\ Paths(s) \in AnyMap
  <1>1. NoSnapshot \in Snap
    BY Consts DEF NoSnapshot, Snap
  <1>2. NoHeld \in Snaps
    BY <1>1 DEF NoHeld, Snaps
  <1>3. NoWork \in Work
    BY <1>2 DEF NoWork, Work
  <1>4. [dscp |-> 1, overlay |-> 0] \in Snap
    BY Consts DEF Snap
  <1>5. FileHeld \in Snaps
    BY <1>1, <1>4 DEF FileHeld, Snaps
  <1>6. FileWork \in Work
    BY <1>5 DEF FileWork, Work
  <1>7. {} \in AnyAddrs /\ NoMap \in AnyMap
    BY DEF AnyAddrs, AnyMap
  <1>8. BareHost \in HostState
    BY <1>7 DEF BareHost, HostState
  <1>9. \A s \in Snaps : Addrs(s) \in AnyAddrs /\ Paths(s) \in AnyMap
    BY DEF AnyAddrs, AnyMap
  <1> QED BY <1>1, <1>2, <1>3, <1>5, <1>6, <1>7, <1>8, <1>9

(* The file names one gateway. *)
LEMMA FileIs == Combines(FileHeld) = {1} /\ validate(Paths(FileHeld))
  <1>1. Combines(FileHeld) = {1}
    BY Consts DEF Combines, FileHeld, NoSnapshot
  <1>2. Paths(FileHeld) = {<<1, FileHeld[1].dscp>>}
    BY <1>1 DEF Paths
  <1> QED BY <1>1, <1>2 DEF validate

(* What each operation on the host changes. *)
LEMMA HostOps ==
    ASSUME NEW h \in HostState
    PROVE  /\ h.dev \in {"absent", "drifted", "down", "ours"} /\ h.addrs \in AnyAddrs
           /\ h.peers \in SUBSET Gateway /\ h.map \in AnyMap
           /\ ensure_vxlan_without_addresses(h) \in HostState /\ delete_link(h) \in HostState
           /\ set_link(h) \in HostState /\ set_link(h).dev = "ours"
           /\ set_link(h).addrs = h.addrs /\ set_link(h).peers = h.peers
           /\ redirect_failures(h) \subseteq HostState
           /\ [h EXCEPT !.dev = "drifted"] \in HostState /\ [h EXCEPT !.peers = {}] \in HostState
  <1>1. /\ h.dev \in {"absent", "drifted", "down", "ours"} /\ h.addrs \in AnyAddrs
        /\ h.peers \in SUBSET Gateway /\ h.map \in AnyMap
    BY DEF HostState
  <1>2. ensure_vxlan_without_addresses(h) \in HostState /\ delete_link(h) \in HostState
    BY Values DEF ensure_vxlan_without_addresses, add_vxlan, delete_link, BareHost, HostState
  <1>3. /\ set_link(h) \in HostState /\ set_link(h).dev = "ours"
        /\ set_link(h).addrs = h.addrs /\ set_link(h).peers = h.peers
    BY DEF set_link, HostState
  <1>4. redirect_failures(h) \subseteq HostState
    BY Values DEF redirect_failures, HostState
  <1>5. [h EXCEPT !.dev = "drifted"] \in HostState /\ [h EXCEPT !.peers = {}] \in HostState
    BY DEF HostState
  <1> QED BY <1>1, <1>2, <1>3, <1>4, <1>5

LEMMA HostSets ==
    ASSUME NEW h \in HostState, NEW addrs \in AnyAddrs, NEW peers \in SUBSET Gateway, NEW paths \in AnyMap
    PROVE  /\ ensure_local_addrs(h, addrs) \in HostState
           /\ ensure_local_addrs(h, addrs).dev = h.dev /\ ensure_local_addrs(h, addrs).addrs = addrs
           /\ sync_vxlan_peers(h, peers) \in HostState /\ sync_vxlan_peers(h, peers).dev = h.dev
           /\ sync_vxlan_peers(h, peers).addrs = h.addrs
           /\ peers \subseteq sync_vxlan_peers(h, peers).peers
           /\ redirect_apply(h, paths) \in HostState /\ redirect_apply(h, paths).dev = h.dev
           /\ redirect_apply(h, paths).addrs = h.addrs /\ redirect_apply(h, paths).peers = h.peers
           /\ redirect_apply(h, paths).map = paths
  <1>1. /\ ensure_local_addrs(h, addrs) \in HostState
        /\ ensure_local_addrs(h, addrs).dev = h.dev /\ ensure_local_addrs(h, addrs).addrs = addrs
    BY DEF ensure_local_addrs, HostState
  <1>2. /\ sync_vxlan_peers(h, peers) \in HostState /\ sync_vxlan_peers(h, peers).dev = h.dev
        /\ sync_vxlan_peers(h, peers).addrs = h.addrs
        /\ peers \subseteq sync_vxlan_peers(h, peers).peers
    BY DEF sync_vxlan_peers, HostState
  <1>3. /\ redirect_apply(h, paths) \in HostState /\ redirect_apply(h, paths).dev = h.dev
        /\ redirect_apply(h, paths).addrs = h.addrs /\ redirect_apply(h, paths).peers = h.peers
        /\ redirect_apply(h, paths).map = paths
    BY DEF redirect_apply, HostState
  <1> QED BY <1>1, <1>2, <1>3

(* Every step of the tunnel's creation leaves a host, the last one the tunnel. *)
LEMMA TunnelIs ==
    ASSUME NEW h \in HostState, NEW addrs \in AnyAddrs, NEW peers \in SUBSET Gateway
    PROVE  LET hosts == ensure_vxlan_multipoint(h, addrs, peers) IN
           /\ ToSet(hosts) \subseteq HostState /\ ToSet(Front(hosts)) \subseteq HostState
           /\ Last(hosts) \in HostState /\ Last(hosts).dev = "ours" /\ Last(hosts).addrs = addrs
           /\ peers \subseteq Last(hosts).peers
  <1> DEFINE deleted == delete_link(h)
             created == ensure_vxlan_without_addresses(h)
             bare == ensure_local_addrs(created, {})
             addressed == ensure_local_addrs(created, addrs)
             linked == set_link(addressed)
             done == sync_vxlan_peers(linked, peers)
             hosts == ensure_vxlan_multipoint(h, addrs, peers)
  <1>1. hosts = <<h, deleted, created, bare, addressed, linked, done>>
    BY DEF ensure_vxlan_multipoint
  <1>2. deleted \in HostState /\ created \in HostState
    BY HostOps
  <1> HIDE DEF deleted, created
  <1>3. bare \in HostState
    BY <1>2, HostSets, Values
  <1>4. addressed \in HostState /\ addressed.addrs = addrs
    BY <1>2, HostSets, Values
  <1> HIDE DEF bare, addressed
  <1>5. linked \in HostState /\ linked.dev = "ours" /\ linked.addrs = addrs
    BY <1>4, HostOps
  <1> HIDE DEF linked
  <1>6. done \in HostState /\ done.dev = "ours" /\ done.addrs = addrs /\ peers \subseteq done.peers
    BY <1>5, HostSets, Values
  <1> HIDE DEF done, hosts
  <1>7. Len(hosts) = 7 /\ hosts[7] = done
    BY <1>1
  <1>7a. hosts \in Seq(HostState)
    BY <1>1, <1>2, <1>3, <1>4, <1>5, <1>6
  <1>8. ToSet(hosts) \subseteq HostState
    <2>1. \A i \in DOMAIN hosts : hosts[i] \in HostState
      BY <1>7a
    <2> QED BY <2>1 DEF ToSet
  <1>9. Last(hosts) = done
    BY <1>7 DEF Last
  <1>10. Front(hosts) \in Seq(HostState)
    <2>1. Front(hosts) = SubSeq(hosts, 1, 6)
      BY <1>7 DEF Front
    <2>2. ASSUME NEW i \in 1..6 PROVE hosts[i] \in HostState
      <3>1. i \in 1..Len(hosts)
        BY <1>7
      <3> QED BY <3>1, <1>7a
    <2>3. SubSeq(hosts, 1, 6) \in Seq(HostState)
      BY <2>2, <1>7a
    <2> QED BY <2>1, <2>3
  <1>11. ToSet(Front(hosts)) \subseteq HostState
    <2> DEFINE front == Front(hosts)
    <2> HIDE DEF front
    <2>1. front \in Seq(HostState)
      BY <1>10 DEF front
    <2>2. ToSet(front) \subseteq HostState
      <3>1. \A i \in DOMAIN front : front[i] \in HostState
        BY <2>1
      <3> QED BY <3>1 DEF ToSet
    <2> QED BY <2>2 DEF front
  <1> QED BY <1>6, <1>8, <1>9, <1>11 DEF hosts

-----------------------------------------------------------------------------
(* What a step leaves alone keeps its part of the invariant. *)

LEMMA Untouched ==
    ASSUME BInv
    PROVE  /\ UNCHANGED <<dscp, nodes, inv, sub, tasks>> => RegistryType'
           /\ UNCHANGED <<stream, sent, queue, lapsed>> => WireType'
           /\ UNCHANGED <<job, held, applied, work>> => JobType'
           /\ UNCHANGED <<host, current, foreign, torn>> => HostType'
           /\ UNCHANGED <<mode, events>> => RestType'
           /\ UNCHANGED mode /\ Event => RestType'
           /\ UNCHANGED <<stream, tasks>> => HasTask'
           /\ UNCHANGED job => OneApplies'
           /\ UNCHANGED <<mode, stream, queue, job, applied>> => FileAlone'
           /\ UNCHANGED <<job, work, torn, host>> => Programming'
           /\ UNCHANGED <<mode, applied, torn, host>> => AppliedIsInstalled'
           /\ UNCHANGED <<stream, lapsed, sub, nodes>> => LiveIsRegistered'
  <1>1. /\ RegistryType /\ WireType /\ JobType /\ HostType /\ RestType
        /\ HasTask /\ OneApplies /\ FileAlone /\ Programming /\ AppliedIsInstalled /\ LiveIsRegistered
    BY DEF BInv, Typed, InstallInv
  <1>2. UNCHANGED <<dscp, nodes, inv, sub, tasks>> => RegistryType'
    BY <1>1 DEF RegistryType
  <1>3. UNCHANGED <<stream, sent, queue, lapsed>> => WireType'
    BY <1>1 DEF WireType
  <1>4. UNCHANGED <<job, held, applied, work>> => JobType'
    BY <1>1 DEF JobType
  <1>5. UNCHANGED <<host, current, foreign, torn>> => HostType'
    BY <1>1 DEF HostType
  <1>6. UNCHANGED <<mode, events>> => RestType'
    BY <1>1 DEF RestType
  <1>7. UNCHANGED mode /\ Event => RestType'
    BY <1>1, BackendAssumption DEF RestType, Event
  <1>8. UNCHANGED <<stream, tasks>> => HasTask'
    BY <1>1 DEF HasTask
  <1>9. UNCHANGED job => OneApplies'
    BY <1>1 DEF OneApplies
  <1>10. UNCHANGED <<mode, stream, queue, job, applied>> => FileAlone'
    BY <1>1 DEF FileAlone
  <1>11. UNCHANGED <<job, work, torn, host>> => Programming'
    BY <1>1 DEF Programming
  <1>12. UNCHANGED <<mode, applied, torn, host>> => AppliedIsInstalled'
    BY <1>1 DEF AppliedIsInstalled
  <1>13. UNCHANGED <<stream, lapsed, sub, nodes>> => LiveIsRegistered'
    BY <1>1 DEF LiveIsRegistered
  <1> QED BY <1>2, <1>3, <1>4, <1>5, <1>6, <1>7, <1>8, <1>9, <1>10, <1>11, <1>12, <1>13

(* The invariant as a step finds it. *)
LEMMA Facts ==
    ASSUME BInv
    PROVE  /\ RegistryType /\ WireType /\ JobType /\ HostType /\ RestType
           /\ HasTask /\ OneApplies /\ FileAlone /\ Programming /\ AppliedIsInstalled /\ LiveIsRegistered
  BY DEF BInv, Typed, InstallInv

(* The end of a stream leaves the registry alone. *)
LEMMA ClosedKeeps ==
    ASSUME BInv, NEW g \in Gateway, Closed(g), UNCHANGED <<sub, nodes>>
    PROVE  WireType' /\ LiveIsRegistered' /\ (UNCHANGED tasks => HasTask')
  <1>1. WireType /\ HasTask /\ LiveIsRegistered
    BY Facts
  <1>2. WireType'
    BY <1>1, Values DEF WireType, Closed, Snaps
  <1>3. \A k \in Gateway : stream'[k] = IF k = g THEN 0 ELSE stream[k]
    BY <1>1 DEF Closed, WireType
  <1>4. \A k \in Gateway : lapsed'[k] = IF k = g THEN FALSE ELSE lapsed[k]
    BY <1>1 DEF Closed, WireType
  <1>5. LiveIsRegistered'
    BY <1>1, <1>3, <1>4 DEF LiveIsRegistered
  <1>6. UNCHANGED tasks => HasTask'
    BY <1>1, <1>3 DEF HasTask
  <1> QED BY <1>2, <1>5, <1>6

-----------------------------------------------------------------------------
(* The registry of a gateway. *)

(* Subscription and overlay of a node come and go together. *)
LEMMA RemovedKeeps ==
    ASSUME BInv, NEW g \in Gateway, NEW n \in Node, Removed(g, n), UNCHANGED <<dscp, inv>>,
           tasks' \in [Gateway -> SUBSET StreamId]
    PROVE  /\ RegistryType'
           /\ (UNCHANGED stream /\ lapsed' \in [Gateway -> BOOLEAN]
               /\ \A k \in Gateway : stream[k] # 0 /\ ~lapsed'[k] =>
                     ~lapsed[k] /\ ~(k = g /\ n = Self)) => LiveIsRegistered'
  <1>1. RegistryType /\ LiveIsRegistered
    BY Facts
  <1>2. RegistryType'
    BY <1>1, Consts DEF RegistryType, Removed
  <1>3. \A k \in Gateway, m \in Node : /\ sub'[k][m] = IF k = g /\ m = n THEN 0 ELSE sub[k][m]
                                       /\ nodes'[k][m] = IF k = g /\ m = n THEN 0 ELSE nodes[k][m]
    BY <1>1 DEF RegistryType, Removed
  <1>4. ASSUME UNCHANGED stream, 
               \A k \in Gateway : stream[k] # 0 /\ ~lapsed'[k] => ~lapsed[k] /\ ~(k = g /\ n = Self)
        PROVE  LiveIsRegistered'
    <2> SUFFICES ASSUME NEW k \in Gateway
                 PROVE  /\ stream'[k] # 0 /\ ~lapsed'[k] => sub'[k][Self] = stream'[k]
                        /\ \A m \in Node : sub'[k][m] # 0 <=> nodes'[k][m] # 0
                        /\ \A m, p \in Node : nodes'[k][m] > 1 /\ nodes'[k][m] = nodes'[k][p] => m = p
      BY DEF LiveIsRegistered
    <2>1. stream'[k] # 0 /\ ~lapsed'[k] => sub'[k][Self] = stream'[k]
      BY <1>1, <1>3, <1>4, Consts DEF LiveIsRegistered
    <2>2. \A m \in Node : sub'[k][m] # 0 <=> nodes'[k][m] # 0
      BY <1>1, <1>3 DEF LiveIsRegistered
    <2>3. \A m, p \in Node : nodes'[k][m] > 1 /\ nodes'[k][m] = nodes'[k][p] => m = p
      BY <1>1, <1>3 DEF LiveIsRegistered
    <2> QED BY <2>1, <2>2, <2>3
  <1> QED BY <1>2, <1>4

LEMMA UpsertKeeps ==
    ASSUME BInv, NEW g \in Gateway, NEW n \in Node, NEW s \in StreamId, upsert(g, n, s),
           UNCHANGED <<dscp, inv>>, tasks' \in [Gateway -> SUBSET StreamId],
           \A k \in Gateway : \/ stream'[k] = stream[k] /\ (k = g => n # Self) /\ (lapsed'[k] = lapsed[k])
                              \/ k = g /\ n = Self /\ stream'[k] = s
    PROVE  RegistryType' /\ LiveIsRegistered'
  <1>1. RegistryType /\ LiveIsRegistered
    BY Facts
  <1>2. RegistryType'
    BY <1>1, Consts DEF RegistryType, upsert
  <1>3. \A k \in Gateway, m \in Node :
           /\ sub'[k][m] = IF k = g /\ m = n THEN s ELSE sub[k][m]
           /\ nodes'[k][m] = IF k = g /\ m = n /\ nodes[k][m] = 0 THEN 1 ELSE nodes[k][m]
    BY <1>1 DEF RegistryType, upsert
  <1>4. s # 0
    BY Consts
  <1> SUFFICES ASSUME NEW k \in Gateway
               PROVE  /\ stream'[k] # 0 /\ ~lapsed'[k] => sub'[k][Self] = stream'[k]
                      /\ \A m \in Node : sub'[k][m] # 0 <=> nodes'[k][m] # 0
                      /\ \A m, p \in Node : nodes'[k][m] > 1 /\ nodes'[k][m] = nodes'[k][p] => m = p
    BY <1>2 DEF LiveIsRegistered
  <1>5. stream'[k] # 0 /\ ~lapsed'[k] => sub'[k][Self] = stream'[k]
    BY <1>1, <1>3, Consts DEF LiveIsRegistered
  <1>6. \A m \in Node : sub'[k][m] # 0 <=> nodes'[k][m] # 0
    BY <1>1, <1>3, <1>4 DEF LiveIsRegistered
  <1>7. \A m, p \in Node : nodes'[k][m] > 1 /\ nodes'[k][m] = nodes'[k][p] => m = p
    BY <1>1, <1>3 DEF LiveIsRegistered
  <1> QED BY <1>5, <1>6, <1>7

(* A merge keeps the registered nodes and gives each an overlay of its own. *)
LEMMA MergeIs ==
    ASSUME BInv, NEW g \in Gateway, NEW own \in [Node -> Overlay]
    PROVE  LET merged == merge_into(g, own) IN
           /\ merged \in [Node -> Overlay]
           /\ \A n \in Node : merged[n] = 0 <=> nodes[g][n] = 0
           /\ \A n, k \in Node : merged[n] > 1 /\ merged[n] = merged[k] => n = k
  <1> DEFINE base == merge_backend_inventory(g, own)
  <1>1. nodes \in [Gateway -> [Node -> Overlay]]
    BY Facts DEF RegistryType
  <1>2. /\ base \in [Node -> Overlay]
        /\ \A n \in Node : base[n] = 0 <=> nodes[g][n] = 0
    BY <1>1 DEF merge_backend_inventory
  <1> HIDE DEF base
  <1>3. /\ assign_overlay_ips(base) \in [Node -> Overlay]
        /\ \A n \in Node : assign_overlay_ips(base)[n] = 0 <=> base[n] = 0
        /\ \A n, k \in Node : assign_overlay_ips(base)[n] > 1
                              /\ assign_overlay_ips(base)[n] = assign_overlay_ips(base)[k] => n = k
    BY <1>2, AssignIs
  <1>4. merge_into(g, own) = assign_overlay_ips(base)
    BY DEF merge_into, base
  <1> QED BY <1>2, <1>3, <1>4

(* Writing a merge back keeps the registry consistent. *)
LEMMA MergedKeeps ==
    ASSUME BInv, NEW g \in Gateway, NEW own \in [Node -> Overlay],
           nodes' = [nodes EXCEPT ![g] = merge_into(g, own)], UNCHANGED <<sub, stream, lapsed>>
    PROVE  nodes' \in [Gateway -> [Node -> Overlay]] /\ LiveIsRegistered'
  <1> DEFINE merged == merge_into(g, own)
  <1>1. /\ merged \in [Node -> Overlay]
        /\ \A n \in Node : merged[n] = 0 <=> nodes[g][n] = 0
        /\ \A n, k \in Node : merged[n] > 1 /\ merged[n] = merged[k] => n = k
    BY MergeIs
  <1>2. nodes' = [nodes EXCEPT ![g] = merged]
    OBVIOUS
  <1> HIDE DEF merged
  <1>3. nodes \in [Gateway -> [Node -> Overlay]] /\ LiveIsRegistered
    BY Facts DEF RegistryType
  <1>4. nodes' \in [Gateway -> [Node -> Overlay]]
    BY <1>1, <1>2, <1>3
  <1>5. \A k \in Gateway : nodes'[k] = IF k = g THEN merged ELSE nodes[k]
    BY <1>2, <1>3
  <1>6. LiveIsRegistered'
    BY <1>1, <1>3, <1>5 DEF LiveIsRegistered
  <1> QED BY <1>4, <1>6

LEMMA PruneKeeps ==
    ASSUME BInv, NEW g \in Gateway, NEW n \in Node, prune_expired(g, n)
    PROVE  BInv'
  <1>1. RegistryType /\ WireType /\ LiveIsRegistered
    BY Facts
  <1>2. /\ WireType' /\ JobType' /\ HostType' /\ HasTask' /\ OneApplies' /\ FileAlone' /\ Programming'
        /\ AppliedIsInstalled'
    <2>1. /\ JobType' /\ HostType' /\ HasTask' /\ OneApplies' /\ FileAlone' /\ Programming'
          /\ AppliedIsInstalled'
      BY Untouched DEF prune_expired, backend
    <2>2. WireType'
      BY <1>1 DEF prune_expired, WireType
    <2> QED BY <2>1, <2>2
  <1>3. RestType'
    BY Untouched DEF prune_expired
  <1>4. RegistryType' /\ LiveIsRegistered'
    <2>1. tasks' \in [Gateway -> SUBSET StreamId] /\ lapsed' \in [Gateway -> BOOLEAN]
      BY <1>1, <1>2 DEF RegistryType, WireType, prune_expired
    <2>2. \A k \in Gateway : lapsed'[k] = IF k = g THEN lapsed[g] \/ (n = Self /\ sub[g][n] = stream[g]) ELSE lapsed[k]
      BY <1>1 DEF prune_expired, WireType
    <2>3. \A k \in Gateway : stream[k] # 0 /\ ~lapsed'[k] => ~lapsed[k] /\ ~(k = g /\ n = Self)
      BY <1>1, <2>2 DEF LiveIsRegistered
    <2>4. Removed(g, n) /\ UNCHANGED <<dscp, inv, stream>>
      BY DEF prune_expired
    <2> QED BY <2>1, <2>3, <2>4, RemovedKeeps
  <1> QED BY <1>2, <1>3, <1>4 DEF BInv, Typed, InstallInv

LEMMA OtherKeeps ==
    ASSUME BInv, NEW g \in Gateway, NEW n \in Node, OtherSubscribes(g, n)
    PROVE  BInv'
  <1>1. RegistryType /\ WireType
    BY Facts
  <1>2. /\ WireType' /\ JobType' /\ HostType' /\ RestType' /\ HasTask' /\ OneApplies' /\ FileAlone'
        /\ Programming' /\ AppliedIsInstalled'
    BY Untouched DEF OtherSubscribes, backend, wire
  <1>3. /\ n # Self /\ UNCHANGED <<dscp, inv, stream, lapsed, tasks>>
        /\ tasks' \in [Gateway -> SUBSET StreamId] /\ lapsed' \in [Gateway -> BOOLEAN]
    BY <1>1 DEF OtherSubscribes, wire, RegistryType, WireType
  <1>4. RegistryType' /\ LiveIsRegistered'
    <2>1. CASE upsert(g, n, 1)
      BY <1>3, <2>1, UpsertKeeps, Consts
    <2>2. CASE Removed(g, n)
      BY <1>3, <2>2, RemovedKeeps
    <2>3. CASE UNCHANGED <<sub, nodes>>
      BY <1>3, <2>3, Untouched
    <2> QED BY <2>1, <2>2, <2>3 DEF OtherSubscribes, remove
  <1> QED BY <1>2, <1>4 DEF BInv, Typed, InstallInv

LEMMA TickKeeps ==
    ASSUME BInv, NEW g \in Gateway, GatewayTick(g)
    PROVE  BInv'
  <1>1. /\ WireType' /\ JobType' /\ HostType' /\ RestType' /\ HasTask' /\ OneApplies' /\ FileAlone'
        /\ Programming' /\ AppliedIsInstalled'
    BY Untouched DEF GatewayTick, backend, wire
  <1>2. RegistryType
    BY Facts
  <1>3. inv[g] \in [Node -> Overlay]
    BY <1>2 DEF RegistryType
  <1>4. /\ nodes' = [nodes EXCEPT ![g] = merge_into(g, inv[g])]
        /\ inv' = [inv EXCEPT ![g] = merge_into(g, inv[g])]
        /\ UNCHANGED <<dscp, sub, tasks, stream, lapsed>>
    BY DEF GatewayTick, wire
  <1>5. nodes' \in [Gateway -> [Node -> Overlay]] /\ LiveIsRegistered'
    BY <1>3, <1>4, MergedKeeps
  <1>6. merge_into(g, inv[g]) \in [Node -> Overlay]
    BY <1>3, MergeIs
  <1>7. RegistryType'
    BY <1>2, <1>4, <1>5, <1>6 DEF RegistryType
  <1> QED BY <1>1, <1>5, <1>7 DEF BInv, Typed, InstallInv

-----------------------------------------------------------------------------
(* The subscriber threads. *)

Jobs == {"down", "wait", "merged", "apply"}

(* A thread that takes no lock leaves who programs the host as it is. *)
LEMMA JobMoves ==
    ASSUME BInv, NEW g \in Gateway, NEW j \in Jobs, job' = [job EXCEPT ![g] = j], j = "apply" => job[g] = "apply"
    PROVE  /\ job' \in [Gateway -> Jobs] /\ OneApplies'
           /\ (UNCHANGED <<work, torn, host>> => Programming')
           /\ mode = "xds" /\ UNCHANGED mode => FileAlone'
  <1>1. JobType /\ OneApplies /\ Programming
    BY Facts
  <1>2. job \in [Gateway -> Jobs]
    BY <1>1 DEF JobType, Jobs
  <1>3. job' \in [Gateway -> Jobs] /\ \A k \in Gateway : job'[k] = IF k = g THEN j ELSE job[k]
    BY <1>2
  <1>4. \A k \in Gateway : job'[k] = "apply" => job[k] = "apply"
    BY <1>3
  <1>5. OneApplies'
    BY <1>1, <1>4 DEF OneApplies
  <1>6. UNCHANGED <<work, torn, host>> => Programming'
    BY <1>1, <1>4 DEF Programming
  <1>7. mode = "xds" /\ UNCHANGED mode => FileAlone'
    BY DEF FileAlone
  <1> QED BY <1>3, <1>5, <1>6, <1>7

(* A live stream, and a thread with a snapshot, mean discovery. *)
LEMMA Discovers ==
    ASSUME BInv, NEW g \in Gateway, stream[g] # 0 \/ job[g] \in {"merged", "apply"} \/ queue[g] # <<>>
    PROVE  mode = "xds"
  <1>1. FileAlone /\ RestType
    BY Facts
  <1> QED BY <1>1 DEF FileAlone, RestType

LEMMA IdleIs ==
    ASSUME NEW g \in Gateway
    PROVE  Idle(g) \in Jobs /\ Idle(g) # "apply"
  BY DEF Idle, Jobs

LEMMA WatchKeeps ==
    ASSUME BInv, NEW g \in Gateway, watch(g)
    PROVE  BInv'
  <1>1. RegistryType /\ WireType /\ JobType /\ HasTask
    BY Facts
  <1>2. HostType' /\ RestType' /\ AppliedIsInstalled'
    BY Untouched DEF watch
  <1>3. /\ mode = "xds" /\ UNCHANGED <<mode, dscp, inv, held, applied, work, torn, host>>
        /\ job' = [job EXCEPT ![g] = "wait"]
    BY DEF watch
  <1>4. job' \in [Gateway -> Jobs] /\ OneApplies' /\ Programming' /\ FileAlone'
    BY <1>3, JobMoves DEF Jobs
  <1>5. JobType'
    BY <1>1, <1>3, <1>4 DEF JobType, Jobs
  <1>6. PICK s \in StreamId : /\ upsert(g, Self, s)
                              /\ tasks' = [tasks EXCEPT ![g] = @ \union {s}]
                              /\ stream' = [stream EXCEPT ![g] = s]
    BY DEF watch
  <1>7. WireType'
    <2>1. stream' \in [Gateway -> StreamId \union {0}]
      BY <1>1, <1>6 DEF WireType
    <2>2. sent' \in Snaps
      BY <1>1, Values DEF WireType, watch, Snaps
    <2>3. queue' \in [Gateway -> Seq(Snap)] /\ lapsed' \in [Gateway -> BOOLEAN]
      BY <1>1 DEF WireType, watch
    <2> QED BY <2>1, <2>2, <2>3 DEF WireType
  <1>8. tasks' \in [Gateway -> SUBSET StreamId]
    BY <1>1, <1>6 DEF RegistryType
  <1>9. \A k \in Gateway : /\ stream'[k] = IF k = g THEN s ELSE stream[k]
                           /\ tasks'[k] = IF k = g THEN tasks[g] \union {s} ELSE tasks[k]
                           /\ lapsed'[k] = IF k = g THEN FALSE ELSE lapsed[k]
    BY <1>1, <1>6 DEF RegistryType, WireType, watch
  <1>10. HasTask'
    BY <1>1, <1>9 DEF HasTask
  <1>11. RegistryType' /\ LiveIsRegistered'
    <2>1. \A k \in Gateway : \/ stream'[k] = stream[k] /\ (k = g => Self # Self) /\ (lapsed'[k] = lapsed[k])
                             \/ k = g /\ Self = Self /\ stream'[k] = s
      BY <1>9
    <2>2. Self \in Node /\ UNCHANGED <<dscp, inv>>
      BY <1>3, Consts
    <2> QED BY <1>6, <1>8, <2>1, <2>2, UpsertKeeps
  <1> QED BY <1>2, <1>4, <1>5, <1>7, <1>10, <1>11 DEF BInv, Typed, InstallInv

LEMMA SendKeeps ==
    ASSUME BInv, NEW g \in Gateway, Send(g)
    PROVE  BInv'
  <1>1. RegistryType /\ WireType
    BY Facts
  <1>2. /\ JobType' /\ HostType' /\ RestType' /\ HasTask' /\ OneApplies' /\ Programming'
        /\ AppliedIsInstalled'
    BY Untouched DEF Send, backend
  <1>3. mode = "xds" /\ FileAlone'
    <2>1. stream[g] # 0 /\ UNCHANGED mode
      BY DEF Send
    <2>2. mode = "xds"
      BY <2>1, Discovers
    <2> QED BY <2>1, <2>2 DEF FileAlone
  <1> DEFINE own == [n \in Node |-> 0]
             built == build_snapshot(g)
  <1>4. own \in [Node -> Overlay]
    BY Consts
  <1>5. built.nodes = merge_into(g, own) /\ built.response = [dscp |-> dscp[g], overlay |-> merge_into(g, own)[Self]]
    BY DEF build_snapshot, from_config_for_backend
  <1> HIDE DEF own, built
  <1>6. merge_into(g, own) \in [Node -> Overlay]
    BY <1>4, MergeIs
  <1>7. built.response \in Snap
    <2>1. dscp[g] \in Dscp /\ merge_into(g, own)[Self] \in Overlay
      BY <1>1, <1>6, Consts DEF RegistryType
    <2> QED BY <1>5, <2>1 DEF Snap
  <1>8. /\ nodes' = [nodes EXCEPT ![g] = built.nodes]
        /\ sent' = [sent EXCEPT ![g] = built.response]
        /\ queue' = [queue EXCEPT ![g] = IF built.response = sent[g] THEN @ ELSE Append(@, built.response)]
        /\ UNCHANGED <<dscp, inv, sub, tasks, stream, lapsed>>
    BY DEF Send, built
  <1>9. WireType'
    <2>1. sent' \in Snaps
      BY <1>1, <1>7, <1>8 DEF WireType, Snaps
    <2>2. queue[g] \in Seq(Snap) /\ Append(queue[g], built.response) \in Seq(Snap)
      BY <1>1, <1>7 DEF WireType
    <2>3. queue' \in [Gateway -> Seq(Snap)]
      BY <1>1, <1>8, <2>2 DEF WireType
    <2> QED BY <1>1, <1>8, <2>1, <2>3 DEF WireType
  <1>10. nodes' \in [Gateway -> [Node -> Overlay]] /\ LiveIsRegistered'
    BY <1>4, <1>5, <1>8, MergedKeeps
  <1>11. RegistryType'
    BY <1>1, <1>8, <1>10 DEF RegistryType
  <1> QED BY <1>2, <1>3, <1>9, <1>10, <1>11 DEF BInv, Typed, InstallInv

LEMMA EndsKeeps ==
    ASSUME BInv, NEW g \in Gateway, NEW s \in StreamId, StreamEnds(g, s)
    PROVE  BInv'
  <1>1. RegistryType /\ WireType /\ HasTask /\ LiveIsRegistered
    BY Facts
  <1>2. /\ WireType' /\ JobType' /\ HostType' /\ RestType' /\ OneApplies' /\ FileAlone' /\ Programming'
        /\ AppliedIsInstalled'
    BY Untouched DEF StreamEnds, backend
  <1>3. /\ s # stream[g] /\ tasks' = [tasks EXCEPT ![g] = @ \ {s}] /\ UNCHANGED <<dscp, inv, stream, lapsed>>
    BY DEF StreamEnds
  <1>4. tasks' \in [Gateway -> SUBSET StreamId]
    BY <1>1, <1>3 DEF RegistryType
  <1>5. HasTask'
    BY <1>1, <1>3 DEF HasTask, RegistryType
  <1>6. RegistryType' /\ LiveIsRegistered'
    <2>1. CASE sub[g][Self] = s
      <3>1. Removed(g, Self) /\ Self \in Node /\ lapsed' \in [Gateway -> BOOLEAN]
        BY <1>2, <2>1, Consts DEF StreamEnds, remove, WireType
      <3>2. \A k \in Gateway : stream[k] # 0 /\ ~lapsed'[k] => ~lapsed[k] /\ ~(k = g /\ Self = Self)
        BY <1>1, <1>3, <2>1 DEF LiveIsRegistered
      <3> QED BY <1>3, <1>4, <3>1, <3>2, RemovedKeeps
    <2>2. CASE sub[g][Self] # s
      <3>1. UNCHANGED <<sub, nodes>>
        BY <2>2 DEF StreamEnds, remove
      <3>2. LiveIsRegistered'
        BY <1>3, <3>1, Untouched
      <3> QED BY <1>1, <1>3, <1>4, <3>1, <3>2 DEF RegistryType
    <2> QED BY <2>1, <2>2
  <1> QED BY <1>2, <1>5, <1>6 DEF BInv, Typed, InstallInv

LEMMA MergeKeeps ==
    ASSUME BInv, NEW g \in Gateway, merge_snapshot(g)
    PROVE  BInv'
  <1>1. WireType /\ JobType
    BY Facts
  <1>2. RegistryType' /\ HostType' /\ RestType' /\ HasTask' /\ AppliedIsInstalled' /\ LiveIsRegistered'
    BY Untouched DEF merge_snapshot, gateway
  <1>3. /\ queue[g] # <<>> /\ held' = [held EXCEPT ![g] = Head(queue[g])]
        /\ queue' = [queue EXCEPT ![g] = Tail(@)] /\ job' = [job EXCEPT ![g] = "merged"]
        /\ UNCHANGED <<mode, stream, sent, lapsed, applied, work, torn, host>>
    BY DEF merge_snapshot
  <1>4. mode = "xds"
    BY <1>3, Discovers
  <1>5. job' \in [Gateway -> Jobs] /\ OneApplies' /\ Programming' /\ FileAlone'
    BY <1>3, <1>4, JobMoves DEF Jobs
  <1>6. queue[g] \in Seq(Snap)
    BY <1>1 DEF WireType
  <1>7. Head(queue[g]) \in Snap /\ Tail(queue[g]) \in Seq(Snap)
    BY <1>3, <1>6
  <1>8. WireType'
    BY <1>1, <1>3, <1>7 DEF WireType
  <1>9. held' \in Snaps
    BY <1>1, <1>3, <1>7 DEF JobType, Snaps
  <1>10. JobType'
    BY <1>1, <1>3, <1>5, <1>9 DEF JobType, Jobs
  <1> QED BY <1>2, <1>5, <1>8, <1>10 DEF BInv, Typed, InstallInv

LEMMA WaitsKeeps ==
    ASSUME BInv, NEW g \in Gateway, Waits(g) \/ SameVersion(g)
    PROVE  BInv'
  <1>1. JobType
    BY Facts
  <1>2. /\ job[g] = "merged" /\ job' = [job EXCEPT ![g] = Idle(g)]
        /\ UNCHANGED <<mode, dscp, nodes, inv, sub, tasks, stream, sent, queue, lapsed, held, applied,
                       work, host, current, torn, foreign, events>>
    BY DEF Waits, SameVersion, gateway, wire
  <1>3. RegistryType' /\ WireType' /\ HostType' /\ RestType' /\ HasTask' /\ AppliedIsInstalled' /\ LiveIsRegistered'
    BY <1>2, Untouched
  <1>4. mode = "xds"
    BY <1>2, Discovers
  <1>5. job' \in [Gateway -> Jobs] /\ OneApplies' /\ Programming' /\ FileAlone'
    BY <1>2, <1>4, IdleIs, JobMoves
  <1>6. JobType'
    BY <1>1, <1>2, <1>5 DEF JobType, Jobs
  <1> QED BY <1>3, <1>5, <1>6 DEF BInv, Typed, InstallInv

(* A rejection closes the stream and frees the thread. *)
LEMMA RejectedKeeps ==
    ASSUME BInv, NEW g \in Gateway, job[g] \in {"merged", "apply"}, Rejected(g),
           UNCHANGED <<mode, sub, nodes, tasks>>
    PROVE  /\ WireType' /\ LiveIsRegistered' /\ HasTask' /\ OneApplies' /\ FileAlone'
           /\ job' \in [Gateway -> Jobs] /\ job' = [job EXCEPT ![g] = "down"]
           /\ UNCHANGED <<work, torn, host>> => Programming'
  <1>1. Closed(g) /\ job' = [job EXCEPT ![g] = "down"]
    BY DEF Rejected
  <1>2. mode = "xds"
    BY Discovers
  <1>3. WireType' /\ LiveIsRegistered' /\ HasTask'
    BY <1>1, ClosedKeeps
  <1>4. job' \in [Gateway -> Jobs] /\ OneApplies' /\ FileAlone' /\ (UNCHANGED <<work, torn, host>> => Programming')
    BY <1>1, <1>2, JobMoves DEF Jobs
  <1> QED BY <1>1, <1>3, <1>4

LEMMA AmbiguousKeeps ==
    ASSUME BInv, NEW g \in Gateway, Ambiguous(g)
    PROVE  BInv'
  <1>1. JobType
    BY Facts
  <1>2. RegistryType' /\ HostType' /\ RestType' /\ AppliedIsInstalled'
    BY Untouched DEF Ambiguous, gateway
  <1>3. /\ job[g] = "merged" /\ Rejected(g)
        /\ UNCHANGED <<mode, sub, nodes, tasks, held, applied, work, torn, host>>
    BY DEF Ambiguous, gateway
  <1>4. /\ WireType' /\ LiveIsRegistered' /\ HasTask' /\ OneApplies' /\ FileAlone' /\ Programming'
        /\ job' \in [Gateway -> Jobs]
    BY <1>3, RejectedKeeps
  <1>5. JobType'
    BY <1>1, <1>3, <1>4 DEF JobType, Jobs
  <1> QED BY <1>2, <1>4, <1>5 DEF BInv, Typed, InstallInv

(* The tunnel is programmed for a complete combination, or a call fails in between. *)
LEMMA TunnelKeeps ==
    ASSUME BInv, NEW g \in Gateway, ApplyTunnel(g)
    PROVE  BInv'
  <1>1. RegistryType /\ WireType /\ JobType /\ HostType /\ AppliedIsInstalled /\ OneApplies
    BY Facts
  <1>2. /\ job[g] = "merged" /\ AllHeld /\ Unlocked /\ validate(Paths(held))
        /\ UNCHANGED <<mode, dscp, nodes, inv, sub, tasks, held, applied, current, foreign>>
    BY DEF ApplyTunnel, gateway
  <1>3. mode = "xds" /\ RegistryType'
    BY <1>2, Discovers, Untouched
  <1> DEFINE hosts == ensure_vxlan_multipoint(host, Addrs(held), Gateway)
  <1>4. /\ ToSet(Front(hosts)) \subseteq HostState
        /\ Last(hosts) \in HostState /\ Last(hosts).dev = "ours" /\ Last(hosts).addrs = Addrs(held)
        /\ Gateway \subseteq Last(hosts).peers
    <2>1. host \in HostState /\ Addrs(held) \in AnyAddrs /\ Gateway \in SUBSET Gateway
      BY <1>1, Values DEF HostType, JobType
    <2> QED BY <2>1, TunnelIs
  <1> HIDE DEF hosts
  <1>5. CASE /\ host' = Last(hosts) /\ job' = [job EXCEPT ![g] = "apply"] /\ torn' = "failed"
             /\ work' = [of |-> held, conflict |-> inspect_backend] /\ UNCHANGED <<wire, events>>
    <2>1. WireType' /\ RestType' /\ HasTask' /\ LiveIsRegistered'
      BY <1>2, <1>5, Untouched DEF wire
    <2>2. HostType'
      BY <1>1, <1>2, <1>4, <1>5 DEF HostType
    <2>3. job' \in [Gateway -> Jobs] /\ \A k \in Gateway : job'[k] = "apply" <=> k = g
      BY <1>1, <1>2, <1>5 DEF JobType, Jobs, Unlocked
    <2>4. work' \in Work /\ work'.of = held
      BY <1>1, <1>5 DEF JobType, HostType, Work, inspect_backend
    <2>5. JobType'
      BY <1>1, <1>2, <2>3, <2>4 DEF JobType, Jobs
    <2>6. OneApplies'
      BY <2>3 DEF OneApplies
    <2>7. FileAlone' /\ AppliedIsInstalled'
      BY <1>2, <1>3, <1>5 DEF FileAlone, AppliedIsInstalled
    <2>8. Complete(held)
      BY <1>2 DEF Complete, AllHeld, Combines
    <2>9. Programming'
      BY <1>4, <1>5, <2>4, <2>8 DEF Programming
    <2> QED BY <1>3, <2>1, <2>2, <2>5, <2>6, <2>7, <2>9 DEF BInv, Typed, InstallInv
  <1>6. CASE /\ Event /\ host' \in ToSet(Front(hosts)) /\ torn' = IF host' = host THEN torn ELSE "failed"
             /\ Rejected(g) /\ UNCHANGED work
    <2>1. RestType'
      BY <1>2, <1>6, Untouched
    <2>2. HostType'
      BY <1>1, <1>2, <1>4, <1>6 DEF HostType
    <2>3. /\ WireType' /\ LiveIsRegistered' /\ HasTask' /\ OneApplies' /\ FileAlone'
          /\ job' \in [Gateway -> Jobs] /\ job' = [job EXCEPT ![g] = "down"]
      BY <1>2, <1>6, RejectedKeeps
    <2>4. JobType'
      BY <1>1, <1>2, <1>6, <2>3 DEF JobType, Jobs
    <2>5. \A k \in Gateway : job'[k] # "apply"
      BY <1>1, <1>2, <2>3 DEF JobType, Unlocked
    <2>6. Programming'
      BY <2>5 DEF Programming
    <2>7. AppliedIsInstalled'
      <3>1. CASE host' = host
        BY <1>2, <1>6, <3>1, Untouched
      <3>2. CASE host' # host
        BY <1>6, <3>2 DEF AppliedIsInstalled
      <3> QED BY <3>1, <3>2
    <2> QED BY <1>3, <2>1, <2>2, <2>3, <2>4, <2>6, <2>7 DEF BInv, Typed, InstallInv
  <1> QED BY <1>5, <1>6 DEF ApplyTunnel, hosts

(* The commit finds the tunnel of its work, unless the host drifted meanwhile. *)
LEMMA RedirectKeeps ==
    ASSUME BInv, NEW g \in Gateway, ApplyRedirect(g)
    PROVE  BInv'
  <1>1. RegistryType /\ WireType /\ JobType /\ HostType /\ AppliedIsInstalled /\ OneApplies /\ Programming
    BY Facts
  <1>2. /\ job[g] = "apply" /\ work' = NoWork
        /\ UNCHANGED <<mode, dscp, nodes, inv, sub, tasks, held, foreign>>
    BY DEF ApplyRedirect
  <1>3. mode = "xds" /\ RegistryType'
    BY <1>2, Discovers, Untouched
  <1>4. /\ work \in Work /\ work.of \in Snaps /\ host \in HostState /\ Paths(work.of) \in AnyMap
    BY <1>1, Values DEF JobType, HostType, Work
  <1>5. /\ Complete(work.of) /\ torn # "no"
        /\ torn = "failed" => /\ host.dev = "ours" /\ host.addrs = Addrs(work.of) /\ Gateway \subseteq host.peers
    BY <1>1, <1>2 DEF Programming
  <1>6. CASE /\ host' = redirect_apply(host, Paths(work.of)) /\ current' = TRUE /\ applied' = work
             /\ torn' = IF torn = "drift" THEN torn ELSE "no"
             /\ job' = [job EXCEPT ![g] = Idle(g)] /\ UNCHANGED <<wire, events>>
    <2>1. WireType' /\ RestType' /\ HasTask' /\ LiveIsRegistered'
      BY <1>2, <1>6, Untouched DEF wire
    <2>2. /\ host' \in HostState /\ host'.dev = host.dev /\ host'.addrs = host.addrs
          /\ host'.peers = host.peers /\ host'.map = Paths(work.of)
      BY <1>4, <1>6, HostSets, Values
    <2>3. HostType'
      BY <1>1, <1>2, <1>6, <2>2 DEF HostType
    <2>4. job' \in [Gateway -> Jobs] /\ OneApplies' /\ FileAlone' /\ \A k \in Gateway : job'[k] # "apply"
      <3>1. job' \in [Gateway -> Jobs] /\ OneApplies' /\ FileAlone'
        BY <1>2, <1>3, <1>6, IdleIs, JobMoves
      <3>2. \A k \in Gateway : job'[k] = IF k = g THEN Idle(g) ELSE job[k]
        BY <1>1, <1>6 DEF JobType
      <3>3. \A k \in Gateway : job'[k] # "apply"
        BY <1>1, <1>2, <3>2, IdleIs DEF OneApplies
      <3> QED BY <3>1, <3>3
    <2>5. JobType'
      BY <1>1, <1>2, <1>4, <1>6, <2>4, Values DEF JobType, Jobs
    <2>6. Programming'
      BY <2>4 DEF Programming
    <2>7. AppliedIsInstalled'
      <3> SUFFICES ASSUME torn' = "no"
                   PROVE  /\ Combines(applied'.of) = Gateway /\ validate(Paths(applied'.of))
                          /\ Carries(host', Addrs(applied'.of), Combines(applied'.of), Paths(applied'.of))
        BY DEF AppliedIsInstalled
      <3>1. torn = "failed"
        BY <1>1, <1>5, <1>6 DEF HostType
      <3> QED BY <1>5, <1>6, <2>2, <3>1 DEF Complete, Carries
    <2> QED BY <1>3, <2>1, <2>3, <2>4, <2>5, <2>6, <2>7 DEF BInv, Typed, InstallInv
  <1>7. CASE /\ IF host.dev = "absent" THEN UNCHANGED events ELSE Event
             /\ host' \in redirect_failures(host) /\ current' = (current /\ host' = host)
             /\ Rejected(g) /\ UNCHANGED <<applied, torn, shown>>
    <2>1. RestType'
      BY <1>2, <1>7, Untouched
    <2>2. host' \in HostState
      BY <1>4, <1>7, HostOps
    <2>3. HostType'
      BY <1>1, <1>2, <1>7, <2>2 DEF HostType
    <2>4. /\ WireType' /\ LiveIsRegistered' /\ HasTask' /\ OneApplies' /\ FileAlone'
          /\ job' \in [Gateway -> Jobs] /\ job' = [job EXCEPT ![g] = "down"]
      BY <1>2, <1>7, RejectedKeeps
    <2>5. JobType'
      BY <1>1, <1>2, <1>7, <2>4, Values DEF JobType, Jobs
    <2>6. \A k \in Gateway : job'[k] # "apply"
      BY <1>1, <1>2, <2>4 DEF JobType, OneApplies
    <2>7. Programming' /\ AppliedIsInstalled'
      BY <1>5, <1>7, <2>6 DEF Programming, AppliedIsInstalled
    <2> QED BY <1>3, <2>1, <2>3, <2>4, <2>5, <2>7 DEF BInv, Typed, InstallInv
  <1> QED BY <1>6, <1>7 DEF ApplyRedirect

-----------------------------------------------------------------------------
(* Faults and changes. *)

LEMMA BreaksKeeps ==
    ASSUME BInv, NEW g \in Gateway, StreamBreaks(g)
    PROVE  BInv'
  <1>1. JobType
    BY Facts
  <1>2. /\ stream[g] # 0 /\ Event /\ Closed(g) /\ job' = [job EXCEPT ![g] = IF @ = "wait" THEN "down" ELSE @]
        /\ UNCHANGED <<mode, dscp, nodes, inv, sub, tasks, held, applied, work, host, current, torn, foreign>>
    BY DEF StreamBreaks, gateway
  <1>3. RegistryType' /\ HostType' /\ RestType' /\ AppliedIsInstalled'
    BY <1>2, Untouched
  <1>4. WireType' /\ LiveIsRegistered' /\ HasTask'
    BY <1>2, ClosedKeeps
  <1> DEFINE j == IF job[g] = "wait" THEN "down" ELSE job[g]
  <1>5. job' = [job EXCEPT ![g] = j] /\ j \in Jobs /\ (j = "apply" => job[g] = "apply") /\ mode = "xds"
    BY <1>1, <1>2, Discovers DEF JobType, Jobs
  <1> HIDE DEF j
  <1>6. job' \in [Gateway -> Jobs] /\ OneApplies' /\ Programming' /\ FileAlone'
    BY <1>2, <1>5, JobMoves
  <1>7. JobType'
    BY <1>1, <1>2, <1>6 DEF JobType, Jobs
  <1> QED BY <1>3, <1>4, <1>6, <1>7 DEF BInv, Typed, InstallInv

LEMMA GatewayRestartKeeps ==
    ASSUME BInv, NEW g \in Gateway, GatewayRestart(g)
    PROVE  BInv'
  <1>1. RegistryType /\ WireType /\ JobType /\ HasTask /\ LiveIsRegistered
    BY Facts
  <1>2. /\ mode = "xds" /\ Event /\ Closed(g)
        /\ job' = [job EXCEPT ![g] = IF @ = "wait" THEN "down" ELSE @]
        /\ nodes' = [nodes EXCEPT ![g] = [n \in Node |-> 0]]
        /\ inv' = [inv EXCEPT ![g] = [n \in Node |-> 0]]
        /\ sub' = [sub EXCEPT ![g] = [n \in Node |-> 0]]
        /\ tasks' = [tasks EXCEPT ![g] = {}]
        /\ UNCHANGED <<mode, dscp, held, applied, work, host, current, torn, foreign>>
    BY DEF GatewayRestart
  <1>3. HostType' /\ RestType' /\ AppliedIsInstalled'
    BY <1>2, Untouched
  <1>4. RegistryType'
    <2>1. [n \in Node |-> 0] \in [Node -> Overlay] /\ [n \in Node |-> 0] \in [Node -> StreamId \union {0}]
      BY Consts
    <2> QED BY <1>1, <1>2, <2>1 DEF RegistryType
  <1>5. WireType'
    BY <1>1, <1>2, Values DEF WireType, Closed, Snaps
  <1>6. \A k \in Gateway : /\ stream'[k] = IF k = g THEN 0 ELSE stream[k]
                           /\ lapsed'[k] = IF k = g THEN FALSE ELSE lapsed[k]
                           /\ tasks'[k] = IF k = g THEN {} ELSE tasks[k]
    BY <1>1, <1>2 DEF Closed, WireType, RegistryType
  <1>7. \A k \in Gateway : /\ sub'[k] = IF k = g THEN [n \in Node |-> 0] ELSE sub[k]
                           /\ nodes'[k] = IF k = g THEN [n \in Node |-> 0] ELSE nodes[k]
    BY <1>1, <1>2 DEF RegistryType
  <1>8. HasTask'
    BY <1>1, <1>6 DEF HasTask
  <1>9. LiveIsRegistered'
    <2> SUFFICES ASSUME NEW k \in Gateway
                 PROVE  /\ stream'[k] # 0 /\ ~lapsed'[k] => sub'[k][Self] = stream'[k]
                        /\ \A m \in Node : sub'[k][m] # 0 <=> nodes'[k][m] # 0
                        /\ \A m, p \in Node : nodes'[k][m] > 1 /\ nodes'[k][m] = nodes'[k][p] => m = p
      BY DEF LiveIsRegistered
    <2>1. CASE k = g
      <3>1. stream'[k] = 0 /\ \A m \in Node : sub'[k][m] = 0 /\ nodes'[k][m] = 0
        BY <1>6, <1>7, <2>1
      <3> QED BY <3>1
    <2>2. CASE k # g
      <3>1. stream'[k] = stream[k] /\ lapsed'[k] = lapsed[k]
        BY <1>6, <2>2
      <3>2. sub'[k] = sub[k] /\ nodes'[k] = nodes[k]
        BY <1>7, <2>2
      <3> QED BY <1>1, <3>1, <3>2 DEF LiveIsRegistered
    <2> QED BY <2>1, <2>2
  <1> DEFINE j == IF job[g] = "wait" THEN "down" ELSE job[g]
  <1>10. job' = [job EXCEPT ![g] = j] /\ j \in Jobs /\ (j = "apply" => job[g] = "apply")
    BY <1>1, <1>2 DEF JobType, Jobs
  <1> HIDE DEF j
  <1>11. job' \in [Gateway -> Jobs] /\ OneApplies' /\ Programming' /\ FileAlone'
    BY <1>2, <1>10, JobMoves
  <1>12. JobType'
    BY <1>1, <1>2, <1>11 DEF JobType, Jobs
  <1> QED BY <1>3, <1>4, <1>5, <1>8, <1>9, <1>11, <1>12 DEF BInv, Typed, InstallInv

LEMMA BackendRestartKeeps ==
    ASSUME BInv, BackendRestart
    PROVE  BInv'
  <1>1. /\ HostType /\ LiveIsRegistered
    BY Facts
  <1>2. RegistryType' /\ RestType'
    BY Untouched DEF BackendRestart, gateway
  <1>3. WireType'
    BY Values DEF BackendRestart, WireType
  <1>4. JobType'
    BY Values DEF BackendRestart, JobType
  <1>5. HostType'
    BY <1>1 DEF BackendRestart, HostType
  <1>6. HasTask' /\ OneApplies' /\ FileAlone' /\ Programming' /\ AppliedIsInstalled'
    BY Consts DEF BackendRestart, HasTask, OneApplies, FileAlone, Programming, AppliedIsInstalled
  <1>7. LiveIsRegistered'
    BY <1>1 DEF BackendRestart, gateway, LiveIsRegistered
  <1> QED BY <1>2, <1>3, <1>4, <1>5, <1>6, <1>7 DEF BInv, Typed, InstallInv

LEMMA DscpKeeps ==
    ASSUME BInv, NEW g \in Gateway, NEW d \in Dscp, DscpChanges(g, d)
    PROVE  BInv'
  <1>1. RegistryType
    BY Facts
  <1>2. /\ WireType' /\ JobType' /\ HostType' /\ RestType' /\ HasTask' /\ OneApplies' /\ FileAlone'
        /\ Programming' /\ AppliedIsInstalled' /\ LiveIsRegistered'
    BY Untouched DEF DscpChanges, wire, backend
  <1>3. RegistryType'
    BY <1>1 DEF DscpChanges, RegistryType
  <1> QED BY <1>2, <1>3 DEF BInv, Typed, InstallInv

LEMMA DriftsKeeps ==
    ASSUME BInv, HostDrifts
    PROVE  BInv'
  <1>1. HostType /\ Programming
    BY Facts
  <1>2. /\ RegistryType' /\ WireType' /\ JobType' /\ RestType' /\ HasTask' /\ OneApplies' /\ FileAlone'
        /\ LiveIsRegistered'
    BY Untouched DEF HostDrifts, gateway, wire
  <1>3. CASE /\ host' \in {BareHost, [host EXCEPT !.dev = "drifted"], [host EXCEPT !.peers = {}]}
             /\ torn' = "drift" /\ UNCHANGED foreign
    <2>1. host' \in HostState
      BY <1>1, <1>3, HostOps, Values DEF HostType
    <2>2. HostType'
      BY <1>1, <1>3, <2>1 DEF HostType, HostDrifts
    <2>3. Programming' /\ AppliedIsInstalled'
      BY <1>1, <1>3 DEF Programming, AppliedIsInstalled, HostDrifts
    <2> QED BY <1>2, <2>2, <2>3 DEF BInv, Typed, InstallInv
  <1>4. CASE foreign' = ~foreign /\ UNCHANGED <<host, torn>>
    <2>1. HostType'
      BY <1>1, <1>4 DEF HostType, HostDrifts
    <2>2. Programming' /\ AppliedIsInstalled'
      BY <1>4, Untouched DEF HostDrifts
    <2> QED BY <1>2, <2>1, <2>2 DEF BInv, Typed, InstallInv
  <1> QED BY <1>3, <1>4 DEF HostDrifts

-----------------------------------------------------------------------------
(* A backend without discovery. *)

LEMMA FileApplyKeeps ==
    ASSUME BInv, FileApply
    PROVE  BInv'
  <1>1. JobType /\ HostType /\ FileAlone /\ OneApplies
    BY Facts
  <1>2. /\ mode = "file" /\ job[1] = "down"
        /\ UNCHANGED <<mode, dscp, nodes, inv, sub, tasks, stream, sent, queue, lapsed, held, work, foreign>>
    BY DEF FileApply, gateway, wire
  <1>3. RegistryType' /\ WireType' /\ HasTask' /\ LiveIsRegistered'
    BY <1>2, Untouched
  <1>4. \A k \in Gateway : stream[k] = 0 /\ queue[k] = <<>> /\ job[k] \in {"down", "wait"}
    BY <1>1, <1>2 DEF FileAlone
  <1> DEFINE hosts == ensure_vxlan_multipoint(host, Addrs(FileHeld), {1})
             last == Last(hosts)
             done == redirect_apply(last, Paths(FileHeld))
  <1>5. /\ ToSet(hosts) \subseteq HostState /\ last \in HostState /\ last.dev = "ours"
        /\ last.addrs = Addrs(FileHeld) /\ {1} \subseteq last.peers
    <2>1. host \in HostState /\ Addrs(FileHeld) \in AnyAddrs /\ {1} \in SUBSET Gateway
      BY <1>1, Values, Consts DEF HostType
    <2> QED BY <2>1, TunnelIs
  <1>6. /\ (/\ host' = done /\ current' = TRUE /\ torn' = "no" /\ applied' = FileWork
            /\ job' = [job EXCEPT ![1] = "wait"] /\ UNCHANGED events)
           \/ (/\ Event /\ host' \in ToSet(hosts) \union redirect_failures(last)
               /\ UNCHANGED <<job, current, applied, torn>>)
    BY DEF FileApply, FileWork
  <1> HIDE DEF hosts, last
  <1>7. CASE /\ host' = done /\ current' = TRUE /\ torn' = "no" /\ applied' = FileWork
             /\ job' = [job EXCEPT ![1] = "wait"] /\ UNCHANGED events
    <2>1. /\ done \in HostState /\ done.dev = "ours" /\ done.addrs = Addrs(FileHeld)
          /\ {1} \subseteq done.peers /\ done.map = Paths(FileHeld)
      BY <1>5, HostSets, Values
    <2> HIDE DEF done
    <2>2. RestType' /\ HostType'
      BY <1>1, <1>2, <1>7, <2>1, Untouched DEF HostType
    <2>3. job' \in [Gateway -> Jobs] /\ \A k \in Gateway : job'[k] = IF k = 1 THEN "wait" ELSE job[k]
      BY <1>1, <1>7 DEF JobType, Jobs
    <2>4. JobType'
      BY <1>1, <1>2, <1>7, <2>3, Values DEF JobType, Jobs
    <2>5. \A k \in Gateway : job'[k] \in {"down", "wait"}
      BY <1>4, <2>3
    <2>6. OneApplies' /\ Programming'
      BY <2>5 DEF OneApplies, Programming
    <2>7. FileAlone'
      BY <1>2, <1>4, <1>7, <2>3, <2>5, Consts DEF FileAlone
    <2>8. AppliedIsInstalled'
      <3>1. applied'.of = FileHeld
        BY <1>7 DEF FileWork
      <3> QED BY <1>2, <1>7, <2>1, <3>1, FileIs DEF AppliedIsInstalled, Carries
    <2> QED BY <1>3, <2>2, <2>4, <2>6, <2>7, <2>8 DEF BInv, Typed, InstallInv
  <1>8. CASE /\ Event /\ host' \in ToSet(hosts) \union redirect_failures(last)
             /\ UNCHANGED <<job, current, applied, torn>>
    <2>1. host' \in HostState
      BY <1>5, <1>8, HostOps
    <2>2. RestType' /\ JobType' /\ OneApplies' /\ FileAlone'
      BY <1>2, <1>8, Untouched
    <2>3. HostType'
      BY <1>1, <1>2, <1>8, <2>1 DEF HostType
    <2>4. Programming'
      BY <1>4, <1>8 DEF Programming
    <2>5. applied' = NoWork
      BY <1>1, <1>2, <1>8 DEF FileAlone
    <2>6. AppliedIsInstalled'
      BY <2>5 DEF AppliedIsInstalled
    <2> QED BY <1>3, <2>2, <2>3, <2>4, <2>6 DEF BInv, Typed, InstallInv
  <1> QED BY <1>6, <1>7, <1>8

LEMMA HealKeeps ==
    ASSUME BInv, heal
    PROVE  BInv'
  <1>1. JobType /\ HostType /\ FileAlone
    BY Facts
  <1>2. /\ mode = "file" /\ job[1] = "wait" /\ host.dev # "absent"
        /\ UNCHANGED <<mode, dscp, nodes, inv, sub, tasks, stream, sent, queue, lapsed, job, held, applied,
                       work, foreign>>
    BY DEF heal, gateway, wire
  <1>3. RegistryType' /\ WireType' /\ JobType' /\ HasTask' /\ OneApplies' /\ FileAlone' /\ LiveIsRegistered'
    BY <1>2, Untouched
  <1>4. applied' = FileWork /\ \A k \in Gateway : job'[k] # "apply"
    BY <1>1, <1>2 DEF FileAlone
  <1>5. Programming'
    BY <1>4 DEF Programming
  <1> DEFINE up == IF host.dev = "down" THEN set_link(host) ELSE host
             addressed == ensure_local_addrs(up, Addrs(FileHeld))
             peered == sync_vxlan_peers(addressed, {1})
             done == redirect_apply(peered, Paths(FileHeld))
  <1>6. (/\ host' = done /\ current' = TRUE /\ UNCHANGED events
         /\ torn' = IF host.dev = "drifted" THEN "drift" ELSE "no")
        \/ (/\ Event /\ host' \in {up, addressed, peered} \union redirect_failures(peered)
            /\ current' = (current /\ host'.map = host.map)
            /\ torn' = IF torn = "drift" THEN "drift" ELSE "failed")
    BY DEF heal
  <1>7. up \in HostState /\ (host.dev # "drifted" => up.dev = "ours")
    BY <1>1, <1>2, HostOps DEF HostType
  <1> HIDE DEF up
  <1>8. addressed \in HostState /\ addressed.dev = up.dev /\ addressed.addrs = Addrs(FileHeld)
    BY <1>7, HostSets, Values
  <1> HIDE DEF addressed
  <1>9. peered \in HostState /\ peered.dev = up.dev /\ peered.addrs = Addrs(FileHeld) /\ {1} \subseteq peered.peers
    BY <1>8, HostSets, Values, Consts
  <1> HIDE DEF peered
  <1>10. /\ done \in HostState /\ done.dev = up.dev /\ done.addrs = Addrs(FileHeld) /\ {1} \subseteq done.peers
         /\ done.map = Paths(FileHeld)
    BY <1>9, HostSets, Values
  <1> HIDE DEF done
  <1>11. CASE /\ host' = done /\ current' = TRUE /\ UNCHANGED events
              /\ torn' = IF host.dev = "drifted" THEN "drift" ELSE "no"
    <2>1. RestType' /\ HostType'
      BY <1>1, <1>2, <1>10, <1>11, Untouched DEF HostType
    <2>2. AppliedIsInstalled'
      <3>1. applied'.of = FileHeld
        BY <1>4 DEF FileWork
      <3>2. torn' = "no" => done.dev = "ours"
        BY <1>7, <1>10, <1>11
      <3> QED BY <1>2, <1>10, <1>11, <3>1, <3>2, FileIs DEF AppliedIsInstalled, Carries
    <2> QED BY <1>3, <1>5, <2>1, <2>2 DEF BInv, Typed, InstallInv
  <1>12. CASE /\ Event /\ host' \in {up, addressed, peered} \union redirect_failures(peered)
              /\ current' = (current /\ host'.map = host.map)
              /\ torn' = IF torn = "drift" THEN "drift" ELSE "failed"
    <2>1. RestType'
      BY <1>2, <1>12, Untouched
    <2>2. host' \in HostState
      BY <1>7, <1>8, <1>9, <1>12, HostOps
    <2>3. HostType'
      BY <1>1, <1>2, <1>12, <2>2 DEF HostType
    <2>4. AppliedIsInstalled'
      BY <1>12 DEF AppliedIsInstalled
    <2> QED BY <1>3, <1>5, <2>1, <2>3, <2>4 DEF BInv, Typed, InstallInv
  <1> QED BY <1>6, <1>11, <1>12

-----------------------------------------------------------------------------
(* The theorems. *)

LEMMA InitHolds == Init => BInv
  <1> SUFFICES ASSUME Init PROVE BInv
    OBVIOUS
  <1>1. RegistryType
    BY Consts DEF Init, RegistryType
  <1>2. WireType /\ JobType /\ HostType
    <2>1. WireType
      BY Values DEF Init, WireType
    <2>2. JobType
      BY Values DEF Init, JobType
    <2>3. HostType
      BY Values DEF Init, HostType
    <2> QED BY <2>1, <2>2, <2>3
  <1>3. RestType
    BY BackendAssumption DEF Init, RestType
  <1>4. InstallInv
    BY Consts DEF Init, InstallInv, HasTask, OneApplies, FileAlone, Programming, AppliedIsInstalled
  <1>5. LiveIsRegistered
    BY Consts DEF Init, LiveIsRegistered
  <1> QED BY <1>1, <1>2, <1>3, <1>4, <1>5 DEF BInv, Typed

LEMMA StepKeeps == BInv /\ [Next]_vars => BInv'
  <1> SUFFICES ASSUME BInv, [Next]_vars PROVE BInv'
    OBVIOUS
  <1>1. ASSUME NEW g \in Gateway, Service(g) \/ Subscriber(g)
        PROVE  BInv'
    BY <1>1, WatchKeeps, SendKeeps, EndsKeeps, MergeKeeps, WaitsKeeps, AmbiguousKeeps, TunnelKeeps, RedirectKeeps
       DEF Service, Subscriber
  <1>2. ASSUME NEW g \in Gateway, StreamBreaks(g) \/ GatewayRestart(g) \/ GatewayTick(g)
        PROVE  BInv'
    BY <1>2, BreaksKeeps, GatewayRestartKeeps, TickKeeps
  <1>3. ASSUME NEW g \in Gateway, NEW n \in Node, prune_expired(g, n) \/ OtherSubscribes(g, n)
        PROVE  BInv'
    BY <1>3, PruneKeeps, OtherKeeps
  <1>4. ASSUME NEW g \in Gateway, NEW d \in Dscp, DscpChanges(g, d)
        PROVE  BInv'
    BY <1>4, DscpKeeps
  <1>5. CASE BackendRestart \/ HostDrifts \/ FileApply \/ heal
    BY <1>5, BackendRestartKeeps, DriftsKeeps, FileApplyKeeps, HealKeeps
  <1>6. CASE UNCHANGED vars
    <2>1. UNCHANGED <<mode, dscp, nodes, inv, sub, tasks, stream, sent, queue, lapsed, job, held, applied,
                      work, host, current, foreign, torn, events>>
      BY <1>6 DEF vars, gateway, wire, backend
    <2> QED BY <2>1, Untouched DEF BInv, Typed, InstallInv
  <1> QED BY <1>1, <1>2, <1>3, <1>4, <1>5, <1>6 DEF Next, Heartbeat

LEMMA Invariant == Spec => []BInv
  BY InitHolds, StepKeeps, PTL DEF Spec

(* The registries, the streams, the subscriber threads and the host of the backend
   (control/registry.rs, control/gateway.rs, control/backend.rs, linux/net.rs) keep
   their types, a live stream has its receiver task, and DATAPATH_APPLY_LOCK is held
   by one thread at most. *)
THEOREM BackendTypes == Spec => []TypeOK
  <1>1. BInv => TypeOK
    <2> SUFFICES ASSUME BInv PROVE TypeOK
      OBVIOUS
    <2>1. RegistryType /\ WireType /\ JobType /\ HostType /\ RestType /\ HasTask /\ OneApplies
      BY Facts
    <2>2. host.dev \in {"absent", "drifted", "down", "ours"}
      BY <2>1, HostOps DEF HostType
    <2>3. \A g, k \in Gateway : {job[g], job[k]} = {"apply"} => g = k
      BY <2>1 DEF OneApplies
    <2>4. {held, sent} \subseteq [Gateway -> [dscp : Dscp \union {0}, overlay : 0..(Nodes + 1)]]
      BY <2>1 DEF JobType, WireType, Snaps, Snap, Overlay
    <2>5. {nodes, inv} \subseteq [Gateway -> [Node -> 0..(Nodes + 1)]]
      BY <2>1 DEF RegistryType, Overlay
    <2> QED BY <2>1, <2>2, <2>3, <2>4, <2>5 DEF TypeOK, RegistryType, WireType, JobType, HostType, RestType, HasTask
  <1> QED BY <1>1, Invariant, PTL

(* Whatever streams, snapshots, restarts, failing netlink calls and host changes do,
   what last_applied says (control/backend.rs, apply_with) is on the host: the paths of
   every gateway under codepoints of their own, unless an apply failed half way or the
   host drifted since. *)
THEOREM BackendInstalled == Spec => []AppliedIsInstalled
  <1>1. BInv => AppliedIsInstalled
    BY Facts
  <1> QED BY <1>1, Invariant, PTL

(* However late the receiver of an older stream ends, the live stream stays the node's
   subscription until that expires, a node is subscribed exactly when it is registered,
   and assign_overlay_ips (config/normalize.rs) gives no address twice. *)
THEOREM BackendRegistered == Spec => []LiveIsRegistered
  <1>1. BInv => LiveIsRegistered
    BY Facts
  <1> QED BY <1>1, Invariant, PTL

=============================================================================
