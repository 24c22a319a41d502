--------------------------- MODULE DatapathProofs ---------------------------
(* Proofs about Datapath, for any connections, targets, weights, selectors   *)
(* and settings, and any number of packets, sweeps, changes and restarts.    *)
EXTENDS Datapath, FiniteSetTheorems, TLAPS

-----------------------------------------------------------------------------
(* The types of the values. *)

FlowValue == [target : Target, slot : Id, seen : Nat]
Record == [conn : Conn, target : Target, age : Nat]
FlowTables == [Key -> FlowValue \union {NoFlow}]
Counters == [Id -> Nat]

(* What userspace wrote: the address behind every slot in use is a target's. *)
MapType ==
    /\ config \in Configs /\ listener.count \in Nat
    /\ DOMAIN slots = Id /\ \A i \in Id : slots[i] = NoEntry \/ slots[i].address \in Target
    /\ buckets \in [Bucket -> Id \union {NoSlot}]
FlowType ==
    /\ now \in Nat /\ boot \in Nat \ {0} /\ boot <= now
    /\ cursor \in Nat /\ table \in FlowTables /\ loads \in Counters
    /\ late = NoLate \/ (late.id \in Id /\ late.load \in Nat)
    /\ sweep.on \in BOOLEAN /\ sweep.gone \subseteq Key /\ sweep.loads \in Counters
    /\ xsweep \subseteq Key /\ drift \in BOOLEAN
    /\ packet \in [Conn -> Nat] /\ ageless \subseteq Conn /\ told \subseteq Conn
FileType == file.saved \in Nat /\ file.pairs \subseteq Record
Typed == MapType /\ FlowType /\ FileType

-----------------------------------------------------------------------------
(* The inductive invariant. *)

(* A reverse key tells the target it is made of. *)
Backs == \A c \in Conn, t \in Target :
            table[Backward(c, t)] # NoFlow => table[Backward(c, t)].target = t

(* No entry, and no record of the snapshot, is younger than the last packet, but
   for the connections that were given a last-seen of 0 after it. *)
Aged == /\ \A c \in Conn : packet[c] <= now
        /\ \A k \in Key : table[k] # NoFlow =>
              /\ table[k].seen <= now
              /\ k[1] \in ageless \/ (table[k].seen # 0 /\ table[k].seen <= packet[k[1]])
Saved == /\ file.saved <= now
         /\ \A p \in file.pairs : /\ p.age <= file.saved
                                  /\ p.conn \in ageless \/ file.saved - p.age <= packet[p.conn]

(* A snapshot has one record per connection, and the table has its target, or a
   later packet, or what the peer told. *)
Restorable ==
    /\ \A p, q \in file.pairs : p.conn = q.conn => p = q
    /\ \A p \in file.pairs :
          LET v == table[Forward(p.conn)]
          IN  v = NoFlow \/ v.target = p.target \/ v.seen >= file.saved - p.age \/ p.conn \in told

(* An undisturbed sweep ends with the counters of what it leaves; a late write
   outside a sweep is known. *)
SweepCounts == sweep.on /\ ~drift => sweep.loads = LoadsOf(delete_flows(table, sweep.gone))
LateKnown == late # NoLate /\ ~sweep.on => drift

TimeInv == Aged /\ Saved
LoadInv == Backs /\ SweepCounts /\ LateKnown /\ LoadsSettle
DInv == Typed /\ TimeInv /\ Restorable /\ LoadInv

-----------------------------------------------------------------------------
(* Numbers and finite sets. *)

LEMMA Least ==
    ASSUME NEW T \in SUBSET Nat, T # {}
    PROVE  \E x \in T : \A y \in T : x <= y
  <1> DEFINE Upto(m) == {y \in T : y <= m}
             U == {Upto(m) : m \in T}
  <1>1. \A m \in T : Upto(m) \in FiniteSubsetsOf(Nat)
    <2> SUFFICES ASSUME NEW m \in T PROVE Upto(m) \in FiniteSubsetsOf(Nat)
      OBVIOUS
    <2>1. m \in Nat /\ Upto(m) \in SUBSET Nat /\ \A y \in Upto(m) : y <= m
      OBVIOUS
    <2>2. IsFiniteSet(Upto(m))
      BY <2>1, FS_BoundedSetOfNaturals
    <2> QED BY <2>1, <2>2 DEF FiniteSubsetsOf
  <1>2. IsWellFoundedOn(StrictSubsetOrdering(Nat), FiniteSubsetsOf(Nat))
    BY FS_StrictSubsetOrderingWellFounded
  <1>3. U \subseteq FiniteSubsetsOf(Nat) /\ U # {}
    BY <1>1
  <1>4. PICK u \in U : \A v \in U : ~(<<v, u>> \in StrictSubsetOrdering(Nat))
    BY <1>2, <1>3, WFMin
  <1>5. PICK x \in T : u = Upto(x)
    OBVIOUS
  <1>6. ASSUME NEW y \in T, y < x
        PROVE  FALSE
    <2>0. x \in Nat /\ y \in Nat
      OBVIOUS
    <2>1. Upto(y) \subseteq Upto(x) /\ x \in Upto(x) /\ x \notin Upto(y)
      <3>1. ASSUME NEW z \in T, z <= y PROVE z <= x
        <4>1. z \in Nat
          OBVIOUS
        <4> QED BY <1>6, <2>0, <3>1, <4>1
      <3>2. x <= x /\ ~(x <= y)
        BY <1>6, <2>0
      <3> QED BY <3>1, <3>2
    <2>2. <<Upto(y), Upto(x)>> \in StrictSubsetOrdering(Nat)
      BY <2>1, <1>1 DEF StrictSubsetOrdering, FiniteSubsetsOf
    <2> QED BY <1>4, <1>5, <2>2
  <1> QED BY <1>6

LEMMA MinIs ==
    ASSUME NEW T \in SUBSET Nat, T # {}
    PROVE  Min(T) \in T /\ \A y \in T : Min(T) <= y
  <1>1. \E x \in T : \A y \in T : x <= y
    BY Least
  <1> QED BY <1>1 DEF Min

LEMMA Pairwise ==
    ASSUME NEW a \in Nat, NEW b \in Nat
    PROVE  /\ Min({a, b}) \in {a, b} /\ Min({a, b}) <= a /\ Min({a, b}) <= b
           /\ Max({a, b}) \in {a, b} /\ Max({a, b}) >= a /\ Max({a, b}) >= b
  <1>1. \E x \in {a, b} : \A y \in {a, b} : x <= y
    OBVIOUS
  <1>2. \E x \in {a, b} : \A y \in {a, b} : x >= y
    OBVIOUS
  <1> QED BY <1>1, <1>2 DEF Min, Max

LEMMA ModIs ==
    ASSUME NEW a \in Nat, NEW b \in Nat \ {0}
    PROVE  a % b \in Nat /\ a % b < b
  OBVIOUS

(* A finite set with scores has a best element, the first of equals. *)
LEMMA BestIs ==
    ASSUME NEW S \in SUBSET Nat, IsFiniteSet(S), S # {}, NEW score \in [S -> Nat]
    PROVE  \E i \in S : \A j \in S : score[i] > score[j] \/ (score[i] = score[j] /\ i <= j)
  <1> DEFINE Over(j, i) == score[j] > score[i] \/ (score[j] = score[i] /\ j < i)
             Better(i) == {j \in S : Over(j, i)}
             U == {Better(i) : i \in S}
  <1>1. \A i \in S : Better(i) \in FiniteSubsetsOf(S)
    <2> SUFFICES ASSUME NEW i \in S PROVE Better(i) \in FiniteSubsetsOf(S)
      OBVIOUS
    <2>1. Better(i) \in SUBSET S
      OBVIOUS
    <2> HIDE DEF Better
    <2>2. IsFiniteSet(Better(i))
      BY <2>1, FS_Subset
    <2> QED BY <2>1, <2>2 DEF FiniteSubsetsOf
  <1>2. IsWellFoundedOn(StrictSubsetOrdering(S), FiniteSubsetsOf(S))
    BY FS_StrictSubsetOrderingWellFounded
  <1>3. U \subseteq FiniteSubsetsOf(S) /\ U # {}
    <2> HIDE DEF Better
    <2> QED BY <1>1
  <1>4. PICK u \in U : \A v \in U : ~(<<v, u>> \in StrictSubsetOrdering(S))
    BY <1>2, <1>3, WFMin
  <1>5. PICK i \in S : u = Better(i)
    OBVIOUS
  <1>6. ASSUME NEW j \in S, Over(j, i)
        PROVE  FALSE
    <2>1. Better(j) \subseteq Better(i)
      <3> SUFFICES ASSUME NEW k \in S, Over(k, j) PROVE Over(k, i)
        OBVIOUS
      <3>1. i \in Nat /\ j \in Nat /\ k \in Nat /\ score[i] \in Nat /\ score[j] \in Nat /\ score[k] \in Nat
        OBVIOUS
      <3> QED BY <1>6, <3>1
    <2>2. j \in Better(i) /\ j \notin Better(j)
      <3>1. j \in Nat /\ score[j] \in Nat
        OBVIOUS
      <3> QED BY <1>6, <3>1
    <2> HIDE DEF Better
    <2>3. <<Better(j), Better(i)>> \in StrictSubsetOrdering(S)
      BY <2>1, <2>2, <1>1 DEF StrictSubsetOrdering, FiniteSubsetsOf
    <2> QED BY <1>4, <1>5, <2>3
  <1>7. ASSUME NEW j \in S
        PROVE  score[i] > score[j] \/ (score[i] = score[j] /\ i <= j)
    <2>1. i \in Nat /\ j \in Nat /\ score[i] \in Nat /\ score[j] \in Nat
      OBVIOUS
    <2>2. ~Over(j, i)
      BY <1>6
    <2> QED BY <2>1, <2>2
  <1> QED BY <1>7

LEMMA Consts ==
    /\ NoSlot \in Nat \ {0} /\ Id = 0..(NoSlot - 1) /\ NoSlot \notin Id /\ Id \in SUBSET Nat
    /\ IsFiniteSet(Id) /\ 0 \in Id /\ Timeout \in Nat
    /\ Cardinality(Bucket) \in Nat \ {0} /\ Bucket = 0..Cardinality(Bucket) - 1
  <1>1. Cardinality(Target) \in Nat \ {0} /\ Cardinality(Bucket) \in Nat \ {0}
    BY DatapathAssumption, FS_CardinalityType, FS_EmptySet
  <1>2. NoSlot \in Nat \ {0} /\ Id = 0..(NoSlot - 1)
    BY <1>1 DEF NoSlot, Id
  <1>3. NoSlot \notin Id /\ Id \in SUBSET Nat /\ 0 \in Id
    BY <1>2
  <1>4. IsFiniteSet(Id)
    <2>1. \A y \in Id : y <= NoSlot
      BY <1>2
    <2> QED BY <1>2, <1>3, <2>1, FS_BoundedSetOfNaturals
  <1> QED BY <1>1, <1>2, <1>3, <1>4, DatapathAssumption

-----------------------------------------------------------------------------
(* Keys. *)

LEMMA KeyIs ==
    /\ \A c \in Conn : Forward(c) \in Key /\ Forward(c)[1] = c
    /\ \A c \in Conn, t \in Target : Backward(c, t) \in Key /\ Backward(c, t)[1] = c
    /\ \A c, d \in Conn : Forward(c) = Forward(d) => c = d
    /\ \A c, d \in Conn, t, u \in Target : Backward(c, t) = Backward(d, u) => c = d /\ t = u
    /\ \A c, d \in Conn, t \in Target : Forward(c) # Backward(d, t)
    /\ \A k \in Key : k[1] \in Conn /\ (k = Forward(k[1]) \/ \E t \in Target : k = Backward(k[1], t))
  <1>1. \A c \in Conn : Forward(c) \in Key /\ Forward(c)[1] = c
    BY DEF Forward, Key
  <1>2. \A c \in Conn, t \in Target : Backward(c, t) \in Key /\ Backward(c, t)[1] = c
    BY DEF Backward, Key
  <1>3. \A c, d \in Conn : Forward(c) = Forward(d) => c = d
    BY DEF Forward
  <1>4. \A c, d \in Conn, t, u \in Target : Backward(c, t) = Backward(d, u) => c = d /\ t = u
    BY DEF Backward
  <1>5. \A c, d \in Conn, t \in Target : Forward(c) # Backward(d, t)
    <2> SUFFICES ASSUME NEW c \in Conn, NEW d \in Conn, NEW t \in Target PROVE <<c>> # <<d, t>>
      BY DEF Forward, Backward
    <2>1. Len(<<c>>) = 1 /\ Len(<<d, t>>) = 2
      OBVIOUS
    <2> QED BY <2>1
  <1>6. \A k \in Key : k[1] \in Conn /\ (k = Forward(k[1]) \/ \E t \in Target : k = Backward(k[1], t))
    <2> SUFFICES ASSUME NEW k \in Key
                 PROVE  k[1] \in Conn /\ (k = Forward(k[1]) \/ \E t \in Target : k = Backward(k[1], t))
      OBVIOUS
    <2>1. CASE k \in {Forward(c) : c \in Conn}
      BY <1>1, <2>1
    <2>2. CASE k \in {Backward(c, t) : c \in Conn, t \in Target}
      BY <1>2, <2>2
    <2> QED BY <2>1, <2>2 DEF Key
  <1> QED BY <1>1, <1>2, <1>3, <1>4, <1>5, <1>6

LEMMA KeysFinite == IsFiniteSet(Key)
  <1> DEFINE F == {Forward(c) : c \in Conn}
             B == {Backward(c, t) : c \in Conn, t \in Target}
             f == [c \in Conn |-> Forward(c)]
             b == [p \in Conn \X Target |-> Backward(p[1], p[2])]
  <1>1. f \in Surjection(Conn, F)
    BY DEF Surjection
  <1>2. b \in Surjection(Conn \X Target, B)
    <2>1. \A p \in Conn \X Target : b[p] \in B
      BY DEF Backward
    <2>2. \A y \in B : \E p \in Conn \X Target : b[p] = y
      <3> SUFFICES ASSUME NEW c \in Conn, NEW t \in Target
                   PROVE  \E p \in Conn \X Target : b[p] = Backward(c, t)
        OBVIOUS
      <3>1. <<c, t>> \in Conn \X Target /\ b[<<c, t>>] = Backward(c, t)
        OBVIOUS
      <3> QED BY <3>1
    <2>3. b \in [Conn \X Target -> B]
      BY <2>1
    <2> HIDE DEF b, B
    <2> QED BY <2>2, <2>3 DEF Surjection
  <1>3. IsFiniteSet(Conn) /\ IsFiniteSet(Conn \X Target)
    BY DatapathAssumption, FS_Product
  <1>4. Key = F \union B
    BY DEF Key
  <1> HIDE DEF F, B, f, b
  <1>5. IsFiniteSet(F) /\ IsFiniteSet(B)
    BY <1>1, <1>2, <1>3, FS_Surjection
  <1>6. IsFiniteSet(F \union B)
    BY <1>5, FS_Union
  <1> QED BY <1>4, <1>6

-----------------------------------------------------------------------------
(* The maps and the selection. *)

LEMMA ConfigIs ==
    ASSUME NEW c \in Configs
    PROVE  /\ Len(c) \in Nat /\ Len(c) <= NoSlot /\ DOMAIN c = 1..Len(c)
           /\ \A i \in Id : i < Len(c) => i + 1 \in DOMAIN c /\ c[i + 1].address \in Target
  <1>1. PICK n \in 1..Cardinality(Target) : c \in [1..n -> [address : Target, weight : Weight]]
    BY DEF Configs
  <1>2. n \in Nat /\ n <= NoSlot
    BY <1>1, Consts DEF NoSlot
  <1>3. Len(c) = n /\ DOMAIN c = 1..n
    <2>1. c = [i \in 1..n |-> c[i]]
      BY <1>1
    <2> QED BY <1>2, <2>1
  <1>4. \A i \in Id : i < Len(c) => i + 1 \in 1..n
    BY <1>2, <1>3, Consts
  <1>5. \A j \in 1..n : c[j].address \in Target
    BY <1>1
  <1> QED BY <1>2, <1>3, <1>4, <1>5

(* The process starts with every target in the group. *)
LEMMA FirstConfig == (CHOOSE c \in Configs : Len(c) = Cardinality(Target)) \in Configs
  <1> DEFINE n == Cardinality(Target)
  <1>1. n \in Nat \ {0} /\ ExistsBijection(1..n, Target)
    BY DatapathAssumption, Consts, FS_CardinalityType DEF NoSlot
  <1>2. PICK f : f \in Bijection(1..n, Target)
    BY <1>1 DEF ExistsBijection
  <1>3. /\ f \in [1..n -> Target] /\ \A i, j \in 1..n : f[i] = f[j] => i = j
    BY <1>2 DEF Bijection, Injection, IsInjective
  <1>4. PICK w : w \in Weight
    BY DatapathAssumption
  <1> DEFINE c == [i \in 1..n |-> [address |-> f[i], weight |-> w]]
  <1> HIDE DEF n
  <1>5. c \in [1..n -> [address : Target, weight : Weight]]
    BY <1>3, <1>4
  <1>6. n \in 1..Cardinality(Target)
    BY <1>1 DEF n
  <1>7. \A i, j \in DOMAIN c : i # j => c[i].address # c[j].address
    BY <1>3
  <1>8. c \in UNION {[1..m -> [address : Target, weight : Weight]] : m \in 1..Cardinality(Target)}
    BY <1>5, <1>6
  <1>9. c \in Configs
    BY <1>7, <1>8 DEF Configs
  <1>10. Len(c) = n
    BY <1>1, <1>5
  <1> HIDE DEF c
  <1>11. \E x \in Configs : Len(x) = Cardinality(Target)
    BY <1>9, <1>10 DEF n
  <1> QED BY <1>11

LEMMA BucketIs ==
    ASSUME config \in Configs, NEW b \in Bucket, NEW ids \in SUBSET Id,
           \A i \in ids : config[i + 1].address \in Target
    PROVE  choose_consistent_hash_bucket_target(b, ids) \in Id \union {NoSlot}
  <1>1. CASE ids = {}
    BY <1>1 DEF choose_consistent_hash_bucket_target
  <1>2. CASE ids # {}
    <2> DEFINE score == [i \in ids |-> Score[<<b, config[i + 1].address>>]]
    <2>1. score \in [ids -> Nat]
      <3> SUFFICES ASSUME NEW i \in ids PROVE Score[<<b, config[i + 1].address>>] \in Nat
        OBVIOUS
      <3>1. <<b, config[i + 1].address>> \in Bucket \X Target
        OBVIOUS
      <3> QED BY <3>1, DatapathAssumption
    <2>2. ids \in SUBSET Nat /\ IsFiniteSet(ids)
      BY Consts, FS_Subset
    <2>3. \A i \in ids : score[i] = Score[<<b, config[i + 1].address>>]
      OBVIOUS
    <2> HIDE DEF score
    <2>4. \E i \in ids : \A j \in ids : score[i] > score[j] \/ (score[i] = score[j] /\ i <= j)
      BY <1>2, <2>1, <2>2, BestIs
    <2>5. \E i \in ids : \A j \in ids :
             \/ Score[<<b, config[i + 1].address>>] > Score[<<b, config[j + 1].address>>]
             \/ Score[<<b, config[i + 1].address>>] = Score[<<b, config[j + 1].address>>] /\ i <= j
      <3>1. PICK i \in ids : \A j \in ids : score[i] > score[j] \/ (score[i] = score[j] /\ i <= j)
        BY <2>4
      <3>2. ASSUME NEW j \in ids
            PROVE  \/ Score[<<b, config[i + 1].address>>] > Score[<<b, config[j + 1].address>>]
                   \/ Score[<<b, config[i + 1].address>>] = Score[<<b, config[j + 1].address>>] /\ i <= j
        BY <2>3, <3>1
      <3> QED BY <3>2, Zenon
    <2> QED BY <1>2, <2>5 DEF choose_consistent_hash_bucket_target
  <1> QED BY <1>1, <1>2

(* What userspace computes for the maps. *)
LEMMA MapsAre ==
    ASSUME config \in Configs
    PROVE  /\ Listener.count \in Nat
           /\ DOMAIN Targets = Id
           /\ \A i \in Id : Targets[i] = NoEntry \/ Targets[i].address \in Target
           /\ desired_consistent_hash_buckets \in [Bucket -> Id \union {NoSlot}]
  <1>1. Listener.count \in Nat
    BY ConfigIs DEF Listener
  <1>2. DOMAIN Targets = Id
    BY DEF Targets
  <1>3. ASSUME NEW i \in Id
        PROVE  Targets[i] = NoEntry \/ Targets[i].address \in Target
    <2>1. i < Len(config) => config[i + 1].address \in Target
      BY ConfigIs
    <2>2. CASE i < Len(config) /\ native_target_is_active(config[i + 1])
      <3>1. Targets[i].address = config[i + 1].address
        BY <2>2 DEF Targets
      <3> QED BY <2>1, <2>2, <3>1
    <2>3. CASE ~(i < Len(config) /\ native_target_is_active(config[i + 1]))
      BY <2>3 DEF Targets
    <2> QED BY <2>2, <2>3
  <1>4. desired_consistent_hash_buckets \in [Bucket -> Id \union {NoSlot}]
    <2> DEFINE ids == {i \in Id : i < Len(config) /\ native_target_is_active(config[i + 1])}
    <2>1. ids \in SUBSET Id /\ \A i \in ids : config[i + 1].address \in Target
      BY ConfigIs
    <2>2. desired_consistent_hash_buckets =
            [b \in Bucket |-> IF select = "consistent_hash"
                              THEN choose_consistent_hash_bucket_target(b, ids) ELSE NoSlot]
      BY DEF desired_consistent_hash_buckets
    <2> HIDE DEF ids
    <2>3. \A b \in Bucket : choose_consistent_hash_bucket_target(b, ids) \in Id \union {NoSlot}
      BY <2>1, BucketIs
    <2> QED BY <2>2, <2>3
  <1> QED BY <1>1, <1>2, <1>3, <1>4

(* Every selector selects a slot of the map, or none. *)
LEMMA SelectIs ==
    ASSUME MapType, NEW s, NEW hash \in Nat, NEW at \in Nat
    PROVE  select_target(s, hash, at) \in Id \union {NoSlot}
  <1> DEFINE count == Min({listener.count, NoSlot})
  <1>1. count \in Nat /\ count <= NoSlot
    BY Consts, Pairwise DEF MapType
  <1> HIDE DEF count
  <1>2. CASE count = 0 \/ listener.total = 0
    BY <1>2 DEF select_target, count
  <1>3. CASE ~(count = 0 \/ listener.total = 0)
    <2>0. count \in Nat \ {0} /\ \A i \in Nat : i < count => i \in Id
      BY <1>1, <1>3, Consts
    <2>1. \A i \in Nat : i % count \in Nat /\ i % count \in Id
      <3> SUFFICES ASSUME NEW i \in Nat PROVE i % count \in Nat /\ i % count \in Id
        OBVIOUS
      <3>1. i % count \in Nat /\ i % count < count
        BY <2>0, ModIs
      <3> QED BY <2>0, <3>1
    <2>2. first_usable_target(count) \in Id \union {NoSlot}
      <3> DEFINE usable == {i \in Id : i < count /\ target_slot_is_usable(i)}
      <3>1. usable \in SUBSET Nat /\ usable \subseteq Id
        BY Consts
      <3>2. first_usable_target(count) = IF usable = {} THEN NoSlot ELSE Min(usable)
        BY DEF first_usable_target
      <3> HIDE DEF usable
      <3>3. usable # {} => Min(usable) \in usable
        BY <3>1, MinIs
      <3> QED BY <3>1, <3>2, <3>3
    <2>3. select_weighted_hash(at, count) \in Id \union {NoSlot}
      <3> DEFINE hit == {i \in Id : i < count /\ at % listener.total >= WeightBelow(i)
                             /\ at % listener.total < WeightBelow(i) + Weigh(i)}
      <3>1. hit \in SUBSET Nat /\ hit \subseteq Id
        BY Consts
      <3>2. select_weighted_hash(at, count) = IF hit = {} THEN NoSlot ELSE Min(hit)
        BY DEF select_weighted_hash
      <3> HIDE DEF hit
      <3>3. hit # {} => Min(hit) \in hit
        BY <3>1, MinIs
      <3> QED BY <3>1, <3>2, <3>3
    <2>4. select_hash_slot(hash, count) \in Id \union {NoSlot}
      BY <2>1, <2>2 DEF select_hash_slot
    <2>5. select_persist_slot(hash, count) \in Id \union {NoSlot}
      <3>1. hash \div 2 \in Nat
        OBVIOUS
      <3>2. hash % count \in Id /\ (hash \div 2) % count \in Id
        BY <2>1, <3>1
      <3> QED BY <2>2, <3>2 DEF select_persist_slot
    <2>6. select_consistent_hash(hash, count) \in Id \union {NoSlot}
      <3>1. hash % Cardinality(Bucket) \in Bucket
        <4>1. hash % Cardinality(Bucket) \in Nat /\ hash % Cardinality(Bucket) < Cardinality(Bucket)
          BY Consts, ModIs
        <4> QED BY <4>1, Consts
      <3>2. buckets[hash % Cardinality(Bucket)] \in Id \union {NoSlot}
        BY <3>1 DEF MapType
      <3> QED BY <2>2, <3>2 DEF select_consistent_hash
    <2>7. select_least_connections(at, count) \in Id \union {NoSlot}
      <3> DEFINE At(o) == (at + o) % count
                 steps == {o \in 0..count - 1 : target_slot_is_usable(At(o))}
                 best == {o \in steps : \A p \in steps : loads[At(o)] <= loads[At(p)]}
      <3>1. best \in SUBSET Nat
        BY <2>0
      <3>2. select_least_connections(at, count) = IF best = {} THEN NoSlot ELSE (at + Min(best)) % count
        BY DEF select_least_connections
      <3> HIDE DEF best
      <3>3. best # {} => Min(best) \in Nat
        BY <3>1, MinIs
      <3>4. best # {} => at + Min(best) \in Nat
        BY <3>3
      <3> QED BY <2>1, <3>2, <3>4
    <2>8. select_round_robin(at, count) \in Id \union {NoSlot}
      <3> DEFINE steps == {o \in 0..count - 1 : target_slot_is_usable((at + o) % count)}
      <3>1. steps \in SUBSET Nat
        BY <2>0
      <3>2. select_round_robin(at, count) = IF steps = {} THEN NoSlot ELSE (at + Min(steps)) % count
        BY DEF select_round_robin
      <3> HIDE DEF steps
      <3>3. steps # {} => Min(steps) \in Nat
        BY <3>1, MinIs
      <3>4. steps # {} => at + Min(steps) \in Nat
        BY <3>3
      <3> QED BY <2>1, <3>2, <3>4
    <2> QED BY <1>3, <2>3, <2>4, <2>5, <2>6, <2>7, <2>8 DEF select_target, count
  <1> QED BY <1>2, <1>3

-----------------------------------------------------------------------------
(* Flow tables. *)

LEMMA ValueIs ==
    ASSUME NEW v \in FlowValue
    PROVE  v # NoFlow /\ v.target \in Target /\ v.slot \in Id /\ v.seen \in Nat
  <1>1. v.target \in Target /\ v.slot \in Id /\ v.seen \in Nat
    BY DEF FlowValue
  <1>2. NoFlow.target \notin Target
    BY DatapathAssumption DEF NoFlow
  <1> QED BY <1>1, <1>2

LEMMA EntryIs ==
    ASSUME NEW t \in FlowTables, NEW k \in Key, t[k] # NoFlow
    PROVE  /\ t[k] \in FlowValue /\ t[k].target \in Target /\ t[k].slot \in Id /\ t[k].seen \in Nat
           /\ k[1] \in Conn /\ PairOf(k, t[k]) = {Forward(k[1]), Backward(k[1], t[k].target)}
           /\ Forward(k[1]) \in Key /\ Backward(k[1], t[k].target) \in Key
  <1>1. t[k] \in FlowValue
    BY DEF FlowTables
  <1> QED BY <1>1, ValueIs, KeyIs DEF PairOf

LEMMA RefreshIs ==
    ASSUME NEW t \in FlowTables, NEW k \in Key, t[k] # NoFlow, NEW m \in Nat
    PROVE  /\ Refresh(t, k, m) \in FlowTables
           /\ \A x \in Key : IF x \in {Forward(k[1]), Backward(k[1], t[k].target)}
                             THEN /\ Refresh(t, k, m)[x] # NoFlow /\ Refresh(t, k, m)[x].target = t[k].target
                                  /\ Refresh(t, k, m)[x].slot = t[k].slot /\ Refresh(t, k, m)[x].seen = m
                             ELSE Refresh(t, k, m)[x] = t[x]
  <1> DEFINE value == [t[k] EXCEPT !.seen = m]
             pair == PairOf(k, t[k])
  <1>1. t[k] \in FlowValue /\ pair = {Forward(k[1]), Backward(k[1], t[k].target)}
    BY EntryIs
  <1>2. value \in FlowValue /\ value.target = t[k].target /\ value.slot = t[k].slot /\ value.seen = m
    BY <1>1 DEF FlowValue
  <1>3. Refresh(t, k, m) = [x \in Key |-> IF x \in pair THEN value ELSE t[x]]
    BY DEF Refresh
  <1> HIDE DEF value, pair
  <1>4. value # NoFlow
    BY <1>2, ValueIs
  <1>5. Refresh(t, k, m) \in FlowTables
    BY <1>2, <1>3 DEF FlowTables
  <1> QED BY <1>1, <1>2, <1>3, <1>4, <1>5

LEMMA RemoveIs ==
    ASSUME NEW t \in FlowTables, NEW k \in Key, t[k] # NoFlow
    PROVE  /\ RemovePair(t, k) \in FlowTables
           /\ \A x \in Key : RemovePair(t, k)[x] =
                IF x \in {Forward(k[1]), Backward(k[1], t[k].target)} THEN NoFlow ELSE t[x]
  <1> DEFINE pair == PairOf(k, t[k])
  <1>1. pair = {Forward(k[1]), Backward(k[1], t[k].target)}
    BY EntryIs
  <1>2. RemovePair(t, k) = [x \in Key |-> IF x \in pair THEN NoFlow ELSE t[x]]
    BY DEF RemovePair
  <1> HIDE DEF pair
  <1> QED BY <1>1, <1>2 DEF FlowTables

LEMMA NewIs ==
    ASSUME NEW t \in FlowTables, NEW c \in Conn, NEW v \in FlowValue
    PROVE  /\ NewPair(t, c, v) \in FlowTables
           /\ \A x \in Key : NewPair(t, c, v)[x] = IF x \in {Forward(c), Backward(c, v.target)} THEN v ELSE t[x]
  BY DEF NewPair, FlowTables

LEMMA DeleteIs ==
    ASSUME NEW t \in FlowTables, NEW keys
    PROVE  /\ delete_flows(t, keys) \in FlowTables
           /\ \A x \in Key : delete_flows(t, keys)[x] = IF x \in keys THEN NoFlow ELSE t[x]
  BY DEF delete_flows, FlowTables

-----------------------------------------------------------------------------
(* Counting flows. *)

BacksOf(t) == \A c \in Conn, u \in Target : t[Backward(c, u)] # NoFlow => t[Backward(c, u)].target = u
Whole(t) == t \in FlowTables /\ BacksOf(t) /\ Orphans(t) = {}
ForwardAt(t, i) == {c \in Conn : t[Forward(c)] # NoFlow /\ t[Forward(c)].slot = i}

(* In a whole table the reverse keys of a connection follow its forward key. *)
LEMMA WholeIs ==
    ASSUME NEW t, Whole(t), NEW c \in Conn
    PROVE  /\ t[Forward(c)] # NoFlow =>
                /\ t[Backward(c, t[Forward(c)].target)] # NoFlow
                /\ t[Backward(c, t[Forward(c)].target)].slot = t[Forward(c)].slot
           /\ \A u \in Target : t[Backward(c, u)] # NoFlow =>
                /\ t[Forward(c)] # NoFlow /\ t[Forward(c)].target = u
                /\ t[Backward(c, u)].target = u /\ t[Forward(c)].slot = t[Backward(c, u)].slot
  <1>1. t \in FlowTables /\ BacksOf(t) /\ Orphans(t) = {}
    BY DEF Whole
  <1>2. ASSUME NEW k \in Key, t[k] # NoFlow, NEW x \in PairOf(k, t[k])
        PROVE  t[x] # NoFlow /\ t[x].target = t[k].target /\ t[x].slot = t[k].slot
    BY <1>1, <1>2 DEF Orphans, Present
  <1>3. ASSUME t[Forward(c)] # NoFlow
        PROVE  /\ t[Backward(c, t[Forward(c)].target)] # NoFlow
               /\ t[Backward(c, t[Forward(c)].target)].slot = t[Forward(c)].slot
    <2>1. Forward(c) \in Key /\ Backward(c, t[Forward(c)].target) \in PairOf(Forward(c), t[Forward(c)])
      BY KeyIs DEF PairOf
    <2> QED BY <1>2, <1>3, <2>1
  <1>4. ASSUME NEW u \in Target, t[Backward(c, u)] # NoFlow
        PROVE  /\ t[Forward(c)] # NoFlow /\ t[Forward(c)].target = u
               /\ t[Backward(c, u)].target = u /\ t[Forward(c)].slot = t[Backward(c, u)].slot
    <2>1. Backward(c, u) \in Key /\ Forward(c) \in PairOf(Backward(c, u), t[Backward(c, u)])
      BY KeyIs DEF PairOf
    <2>2. t[Backward(c, u)].target = u
      BY <1>1, <1>4 DEF BacksOf
    <2> QED BY <1>2, <1>4, <2>1, <2>2
  <1> QED BY <1>3, <1>4

(* A table whose reverse keys follow the forward keys is whole. *)
LEMMA MakesWhole ==
    ASSUME NEW t \in FlowTables,
           \A c \in Conn :
             /\ t[Forward(c)] # NoFlow =>
                  /\ t[Backward(c, t[Forward(c)].target)] # NoFlow
                  /\ t[Backward(c, t[Forward(c)].target)].slot = t[Forward(c)].slot
             /\ \A u \in Target : t[Backward(c, u)] # NoFlow =>
                  /\ t[Forward(c)] # NoFlow /\ t[Forward(c)].target = u
                  /\ t[Backward(c, u)].target = u /\ t[Forward(c)].slot = t[Backward(c, u)].slot
    PROVE  Whole(t)
  <1>1. BacksOf(t)
    BY DEF BacksOf
  <1>2. ASSUME NEW k \in Key, t[k] # NoFlow, NEW x \in PairOf(k, t[k])
        PROVE  t[x] # NoFlow /\ t[x].target = t[k].target /\ t[x].slot = t[k].slot
    <2>1. k[1] \in Conn /\ (k = Forward(k[1]) \/ \E u \in Target : k = Backward(k[1], u))
      BY KeyIs
    <2>2. t[k].target \in Target /\ x \in {Forward(k[1]), Backward(k[1], t[k].target)}
      BY <1>2, EntryIs
    <2>3. CASE k = Forward(k[1])
      BY <1>2, <2>1, <2>2, <2>3
    <2>4. CASE \E u \in Target : k = Backward(k[1], u)
      BY <1>2, <2>1, <2>2, <2>4
    <2> QED BY <2>1, <2>3, <2>4
  <1>3. Orphans(t) = {}
    BY <1>2 DEF Orphans, Present
  <1> QED BY <1>1, <1>3 DEF Whole

(* The pairs with a slot are as many as the connections with it. *)
LEMMA CountIs ==
    ASSUME NEW t, Whole(t), NEW i \in Id
    PROVE  /\ IsFiniteSet(ForwardAt(t, i)) /\ Cardinality(ForwardAt(t, i)) \in Nat
           /\ Cardinality(PairsAt(t, i)) = Cardinality(ForwardAt(t, i))
  <1> DEFINE S == ForwardAt(t, i)
             T == PairsAt(t, i)
             f == [c \in S |-> PairOf(Forward(c), t[Forward(c)])]
  <1>1. S \in SUBSET Conn
    BY DEF ForwardAt
  <1>2. IsFiniteSet(S) /\ Cardinality(S) \in Nat
    <2> HIDE DEF S
    <2> QED BY <1>1, DatapathAssumption, FS_Subset, FS_CardinalityType
  <1>3. t \in FlowTables
    BY DEF Whole
  <1>4. ASSUME NEW c \in S
        PROVE  f[c] \in T
    <2>1. Forward(c) \in Key /\ t[Forward(c)] # NoFlow /\ t[Forward(c)].slot = i
      BY KeyIs DEF ForwardAt
    <2> QED BY <2>1 DEF PairsAt, Present
  <1>5. ASSUME NEW P \in T
        PROVE  \E c \in S : f[c] = P
    <2>1. PICK k \in Key : t[k] # NoFlow /\ t[k].slot = i /\ P = PairOf(k, t[k])
      BY DEF PairsAt, Present
    <2>2. k[1] \in Conn /\ (k = Forward(k[1]) \/ \E u \in Target : k = Backward(k[1], u))
      BY KeyIs
    <2>3. t[Forward(k[1])] # NoFlow /\ t[Forward(k[1])].slot = i /\ t[Forward(k[1])].target = t[k].target
      <3>1. CASE k = Forward(k[1])
        BY <2>1, <3>1
      <3>2. CASE \E u \in Target : k = Backward(k[1], u)
        BY <2>1, <2>2, <3>2, WholeIs
      <3> QED BY <2>2, <3>1, <3>2
    <2>4. Forward(k[1])[1] = k[1]
      BY <2>2, KeyIs
    <2>5. PairOf(Forward(k[1]), t[Forward(k[1])]) = P
      BY <2>1, <2>3, <2>4 DEF PairOf
    <2>6. k[1] \in S
      BY <2>2, <2>3 DEF ForwardAt
    <2> QED BY <2>5, <2>6
  <1>6. ASSUME NEW c \in S, NEW d \in S, f[c] = f[d]
        PROVE  c = d
    <2>1. c \in Conn /\ d \in Conn /\ t[Forward(d)] # NoFlow
      BY DEF ForwardAt
    <2>2. t[Forward(d)].target \in Target /\ Forward(c)[1] = c /\ Forward(d)[1] = d
      BY <1>3, <2>1, EntryIs, KeyIs
    <2>3. Forward(c) \in {Forward(d), Backward(d, t[Forward(d)].target)}
      BY <1>6, <2>2 DEF PairOf
    <2> QED BY <2>1, <2>2, <2>3, KeyIs
  <1>7. f \in Bijection(S, T)
    <2>1. f \in [S -> T]
      BY <1>4
    <2> HIDE DEF f, S, T
    <2> QED BY <1>5, <1>6, <2>1 DEF Bijection, Injection, Surjection, IsInjective
  <1>8. ExistsBijection(S, T)
    BY <1>7 DEF ExistsBijection
  <1> HIDE DEF S, T
  <1>9. Cardinality(T) = Cardinality(S)
    BY <1>2, <1>8, FS_Bijection
  <1> QED BY <1>2, <1>9 DEF S, T

LEMMA LoadIs ==
    ASSUME NEW t, Whole(t)
    PROVE  LoadsOf(t) \in Counters /\ \A i \in Id : LoadsOf(t)[i] = Cardinality(ForwardAt(t, i))
  <1>1. \A i \in Id : LoadsOf(t)[i] = Cardinality(PairsAt(t, i))
    BY DEF LoadsOf
  <1>2. \A i \in Id : LoadsOf(t)[i] = Cardinality(ForwardAt(t, i)) /\ LoadsOf(t)[i] \in Nat
    BY <1>1, CountIs
  <1>3. DOMAIN LoadsOf(t) = Id /\ LoadsOf(t) = [i \in Id |-> LoadsOf(t)[i]]
    BY DEF LoadsOf
  <1> HIDE DEF LoadsOf
  <1> QED BY <1>2, <1>3 DEF Counters

(* Counters are numbers, whatever the table. *)
LEMMA LoadType ==
    ASSUME NEW t \in FlowTables
    PROVE  LoadsOf(t) \in Counters
  <1> SUFFICES ASSUME NEW i \in Id PROVE Cardinality(PairsAt(t, i)) \in Nat
    BY DEF LoadsOf, Counters
  <1> DEFINE S == PairsAt(t, i)
  <1>1. S \in SUBSET SUBSET Key
    <2> SUFFICES ASSUME NEW k \in Key, t[k] # NoFlow PROVE PairOf(k, t[k]) \subseteq Key
      BY DEF PairsAt, Present
    <2> QED BY EntryIs
  <1>2. IsFiniteSet(SUBSET Key)
    BY KeysFinite, FS_SUBSET
  <1> HIDE DEF S
  <1>3. IsFiniteSet(S)
    BY <1>1, <1>2, FS_Subset
  <1>4. Cardinality(S) \in Nat
    BY <1>3, FS_CardinalityType
  <1> QED BY <1>4 DEF S

(* Two tables with the same keys, targets and ids have the same counters,
   whatever a sweep deletes. *)
Alike(t, u) == \A k \in Key : /\ t[k] = NoFlow <=> u[k] = NoFlow
                              /\ t[k] # NoFlow => t[k].target = u[k].target /\ t[k].slot = u[k].slot

LEMMA AlikeLoads ==
    ASSUME NEW t, NEW u, Alike(t, u)
    PROVE  LoadsOf(t) = LoadsOf(u)
  <1>1. ASSUME NEW i \in Id
        PROVE  PairsAt(t, i) = PairsAt(u, i)
    <2>1. ASSUME NEW k \in Key, t[k] # NoFlow \/ u[k] # NoFlow
          PROVE  t[k] # NoFlow /\ u[k] # NoFlow /\ t[k].slot = u[k].slot /\ PairOf(k, t[k]) = PairOf(k, u[k])
      BY <2>1 DEF Alike, PairOf
    <2>2. {x \in Present(t) : t[x].slot = i} = {x \in Present(u) : u[x].slot = i}
      BY <2>1 DEF Present
    <2>3. ASSUME NEW P
          PROVE  P \in PairsAt(t, i) <=> P \in PairsAt(u, i)
      BY <2>1 DEF PairsAt, Present
    <2> QED BY <2>3 DEF PairsAt
  <1> QED BY <1>1 DEF LoadsOf

LEMMA AlikeDelete ==
    ASSUME NEW t \in FlowTables, NEW u \in FlowTables, Alike(t, u), NEW keys
    PROVE  Alike(delete_flows(t, keys), delete_flows(u, keys))
  <1>1. /\ \A x \in Key : delete_flows(t, keys)[x] = IF x \in keys THEN NoFlow ELSE t[x]
        /\ \A x \in Key : delete_flows(u, keys)[x] = IF x \in keys THEN NoFlow ELSE u[x]
    BY DeleteIs
  <1> HIDE DEF delete_flows
  <1> QED BY <1>1 DEF Alike

(* A packet of a flow of a whole table changes its time only. *)
LEMMA RefreshAlike ==
    ASSUME NEW t, Whole(t), NEW k \in Key, t[k] # NoFlow, NEW m \in Nat
    PROVE  Alike(t, Refresh(t, k, m))
  <1> DEFINE u == Refresh(t, k, m)
  <1>0. t \in FlowTables /\ Orphans(t) = {}
    BY DEF Whole
  <1>1. \A x \in Key : IF x \in {Forward(k[1]), Backward(k[1], t[k].target)}
                       THEN /\ u[x] # NoFlow /\ u[x].target = t[k].target
                            /\ u[x].slot = t[k].slot /\ u[x].seen = m
                       ELSE u[x] = t[x]
    BY <1>0, RefreshIs
  <1>2. PairOf(k, t[k]) = {Forward(k[1]), Backward(k[1], t[k].target)}
    BY <1>0, EntryIs
  <1>3. \A x \in PairOf(k, t[k]) : t[x] # NoFlow /\ t[x].target = t[k].target /\ t[x].slot = t[k].slot
    BY <1>0 DEF Orphans, Present
  <1> HIDE DEF u
  <1>4. Alike(t, u)
    BY <1>1, <1>2, <1>3 DEF Alike
  <1> QED BY <1>4 DEF u

(* Counters whose connections lose or gain one. *)
LEMMA LoadsDown ==
    ASSUME NEW t, Whole(t), NEW u, Whole(u), NEW c \in Conn, t[Forward(c)] # NoFlow,
           u[Forward(c)] = NoFlow, \A d \in Conn \ {c} : u[Forward(d)] = t[Forward(d)]
    PROVE  LoadsOf(u) = [LoadsOf(t) EXCEPT ![t[Forward(c)].slot] = Adjusted(@, -1)]
  <1> DEFINE s == t[Forward(c)].slot
  <1>1. LoadsOf(t) \in Counters /\ LoadsOf(u) \in Counters
    BY LoadIs
  <1>2. ASSUME NEW i \in Id
        PROVE  LoadsOf(u)[i] = IF i = s THEN Adjusted(LoadsOf(t)[i], -1) ELSE LoadsOf(t)[i]
    <2> DEFINE S == ForwardAt(t, i)
               T == ForwardAt(u, i)
    <2>1. LoadsOf(t)[i] = Cardinality(S) /\ LoadsOf(u)[i] = Cardinality(T)
      BY LoadIs
    <2>2. IsFiniteSet(S) /\ Cardinality(S) \in Nat /\ IsFiniteSet(T) /\ Cardinality(T) \in Nat
      BY CountIs
    <2>3. T = S \ {c} /\ (c \in S <=> i = s)
      BY DEF ForwardAt
    <2> HIDE DEF S, T, s
    <2>4. Cardinality(S \ {c}) = IF c \in S THEN Cardinality(S) - 1 ELSE Cardinality(S)
      BY <2>2, FS_RemoveElement
    <2>5. Cardinality(T) = IF i = s THEN Cardinality(S) - 1 ELSE Cardinality(S)
      BY <2>3, <2>4
    <2>6. CASE i = s
      <3>1. Cardinality(S) + (-1) = Cardinality(T) /\ ~(Cardinality(S) + (-1) < 0)
        BY <2>2, <2>5, <2>6
      <3> QED BY <2>1, <2>6, <3>1 DEF Adjusted
    <2>7. CASE i # s
      BY <2>1, <2>5, <2>7
    <2> QED BY <2>6, <2>7
  <1> HIDE DEF LoadsOf, s
  <1>3. LoadsOf(u) = [LoadsOf(t) EXCEPT ![s] = Adjusted(@, -1)]
    BY <1>1, <1>2 DEF Counters
  <1> QED BY <1>3 DEF s

LEMMA LoadsUp ==
    ASSUME NEW t, Whole(t), NEW u, Whole(u), NEW c \in Conn, u[Forward(c)] # NoFlow,
           t[Forward(c)] = NoFlow, \A d \in Conn \ {c} : u[Forward(d)] = t[Forward(d)]
    PROVE  LoadsOf(u) = [LoadsOf(t) EXCEPT ![u[Forward(c)].slot] = Adjusted(@, 1)]
  <1> DEFINE s == u[Forward(c)].slot
  <1>1. LoadsOf(t) \in Counters /\ LoadsOf(u) \in Counters
    BY LoadIs
  <1>2. ASSUME NEW i \in Id
        PROVE  LoadsOf(u)[i] = IF i = s THEN Adjusted(LoadsOf(t)[i], 1) ELSE LoadsOf(t)[i]
    <2> DEFINE S == ForwardAt(t, i)
               T == ForwardAt(u, i)
    <2>1. LoadsOf(t)[i] = Cardinality(S) /\ LoadsOf(u)[i] = Cardinality(T)
      BY LoadIs
    <2>2. IsFiniteSet(S) /\ Cardinality(S) \in Nat /\ IsFiniteSet(T) /\ Cardinality(T) \in Nat
      BY CountIs
    <2>3. c \notin S /\ (i = s => T = S \union {c}) /\ (i # s => T = S)
      BY DEF ForwardAt
    <2> HIDE DEF S, T, s
    <2>4. Cardinality(S \union {c}) = Cardinality(S) + 1
      BY <2>2, <2>3, FS_AddElement
    <2>6. CASE i = s
      <3>1. Cardinality(S) + 1 = Cardinality(T) /\ ~(Cardinality(S) + 1 < 0)
        BY <2>2, <2>3, <2>4, <2>6
      <3> QED BY <2>1, <2>6, <3>1 DEF Adjusted
    <2>7. CASE i # s
      BY <2>1, <2>3, <2>7
    <2> QED BY <2>6, <2>7
  <1> HIDE DEF LoadsOf, s
  <1>3. LoadsOf(u) = [LoadsOf(t) EXCEPT ![s] = Adjusted(@, 1)]
    BY <1>1, <1>2 DEF Counters
  <1> QED BY <1>3 DEF s

(* An expired flow leaves a whole table whole, with one flow less. *)
LEMMA RemoveWhole ==
    ASSUME NEW t, Whole(t), NEW k \in Key, t[k] # NoFlow
    PROVE  /\ Whole(RemovePair(t, k))
           /\ RemovePair(t, k)[Forward(k[1])] = NoFlow
           /\ \A x \in Target : RemovePair(t, k)[Backward(k[1], x)] = NoFlow
           /\ LoadsOf(RemovePair(t, k)) = [LoadsOf(t) EXCEPT ![t[k].slot] = Adjusted(@, -1)]
  <1> DEFINE u == RemovePair(t, k)
             c == k[1]
  <1>0. t \in FlowTables
    BY DEF Whole
  <1>1. /\ c \in Conn /\ t[k].target \in Target
        /\ (k = Forward(c) \/ \E x \in Target : k = Backward(c, x))
    BY <1>0, EntryIs, KeyIs
  <1>2. u \in FlowTables /\ \A x \in Key : u[x] = IF x \in {Forward(c), Backward(c, t[k].target)} THEN NoFlow ELSE t[x]
    BY <1>0, RemoveIs
  <1>3. t[Forward(c)] # NoFlow /\ t[Forward(c)].target = t[k].target /\ t[Forward(c)].slot = t[k].slot
    <2>1. CASE k = Forward(c)
      BY <2>1
    <2>2. CASE \E x \in Target : k = Backward(c, x)
      BY <1>1, <2>2, WholeIs
    <2> QED BY <1>1, <2>1, <2>2
  <1> HIDE DEF u, c
  <1>4. u[Forward(c)] = NoFlow
    BY <1>1, <1>2, KeyIs
  <1>5. ASSUME NEW x \in Target
        PROVE  u[Backward(c, x)] = NoFlow
    <2>1. Backward(c, x) \in Key
      BY <1>1, KeyIs
    <2>2. CASE x = t[k].target
      BY <1>2, <2>1, <2>2
    <2>3. CASE x # t[k].target
      <3>1. t[Backward(c, x)] = NoFlow
        BY <1>1, <1>3, <2>3, WholeIs
      <3> QED BY <1>2, <2>1, <3>1
    <2> QED BY <2>2, <2>3
  <1>6. ASSUME NEW d \in Conn \ {c}
        PROVE  u[Forward(d)] = t[Forward(d)] /\ \A x \in Target : u[Backward(d, x)] = t[Backward(d, x)]
    BY <1>1, <1>2, KeyIs
  <1>7. Whole(u)
    <2> SUFFICES ASSUME NEW d \in Conn
                 PROVE  /\ u[Forward(d)] # NoFlow =>
                             /\ u[Backward(d, u[Forward(d)].target)] # NoFlow
                             /\ u[Backward(d, u[Forward(d)].target)].slot = u[Forward(d)].slot
                        /\ \A x \in Target : u[Backward(d, x)] # NoFlow =>
                             /\ u[Forward(d)] # NoFlow /\ u[Forward(d)].target = x
                             /\ u[Backward(d, x)].target = x /\ u[Forward(d)].slot = u[Backward(d, x)].slot
      BY <1>2, MakesWhole
    <2>1. CASE d = c
      BY <1>4, <1>5, <2>1
    <2>2. CASE d # c
      <3>1. u[Forward(d)] = t[Forward(d)] /\ \A x \in Target : u[Backward(d, x)] = t[Backward(d, x)]
        BY <1>6, <2>2
      <3>2. t[Forward(d)] # NoFlow => t[Forward(d)].target \in Target
        BY <1>0, KeyIs, EntryIs
      <3> QED BY <3>1, <3>2, WholeIs
    <2> QED BY <2>1, <2>2
  <1>8. LoadsOf(u) = [LoadsOf(t) EXCEPT ![t[k].slot] = Adjusted(@, -1)]
    BY <1>1, <1>3, <1>4, <1>6, <1>7, LoadsDown
  <1> QED BY <1>4, <1>5, <1>7, <1>8 DEF u, c

(* A new flow of a connection without one leaves a whole table whole. *)
LEMMA AddWhole ==
    ASSUME NEW t, Whole(t), NEW c \in Conn, NEW v \in FlowValue, t[Forward(c)] = NoFlow
    PROVE  /\ Whole(NewPair(t, c, v))
           /\ LoadsOf(NewPair(t, c, v)) = [LoadsOf(t) EXCEPT ![v.slot] = Adjusted(@, 1)]
  <1> DEFINE u == NewPair(t, c, v)
  <1>0. t \in FlowTables
    BY DEF Whole
  <1>1. v # NoFlow /\ v.target \in Target
    BY ValueIs
  <1>2. u \in FlowTables /\ \A x \in Key : u[x] = IF x \in {Forward(c), Backward(c, v.target)} THEN v ELSE t[x]
    BY <1>0, NewIs
  <1> HIDE DEF u
  <1>4. u[Forward(c)] = v /\ u[Backward(c, v.target)] = v
    BY <1>1, <1>2, KeyIs
  <1>5. ASSUME NEW x \in Target, x # v.target
        PROVE  u[Backward(c, x)] = NoFlow
    <2>1. Backward(c, x) \in Key /\ Backward(c, x) \notin {Forward(c), Backward(c, v.target)}
      BY <1>1, <1>5, KeyIs
    <2>2. t[Backward(c, x)] = NoFlow
      BY WholeIs
    <2> QED BY <1>2, <2>1, <2>2
  <1>6. ASSUME NEW d \in Conn \ {c}
        PROVE  u[Forward(d)] = t[Forward(d)] /\ \A x \in Target : u[Backward(d, x)] = t[Backward(d, x)]
    BY <1>1, <1>2, KeyIs
  <1>7. Whole(u)
    <2> SUFFICES ASSUME NEW d \in Conn
                 PROVE  /\ u[Forward(d)] # NoFlow =>
                             /\ u[Backward(d, u[Forward(d)].target)] # NoFlow
                             /\ u[Backward(d, u[Forward(d)].target)].slot = u[Forward(d)].slot
                        /\ \A x \in Target : u[Backward(d, x)] # NoFlow =>
                             /\ u[Forward(d)] # NoFlow /\ u[Forward(d)].target = x
                             /\ u[Backward(d, x)].target = x /\ u[Forward(d)].slot = u[Backward(d, x)].slot
      BY <1>2, MakesWhole
    <2>1. CASE d = c
      BY <1>1, <1>4, <1>5, <2>1
    <2>2. CASE d # c
      <3>1. u[Forward(d)] = t[Forward(d)] /\ \A x \in Target : u[Backward(d, x)] = t[Backward(d, x)]
        BY <1>6, <2>2
      <3>2. t[Forward(d)] # NoFlow => t[Forward(d)].target \in Target
        BY <1>0, KeyIs, EntryIs
      <3> QED BY <3>1, <3>2, WholeIs
    <2> QED BY <2>1, <2>2
  <1>8. LoadsOf(u) = [LoadsOf(t) EXCEPT ![u[Forward(c)].slot] = Adjusted(@, 1)]
    BY <1>1, <1>4, <1>6, <1>7, LoadsUp
  <1> QED BY <1>4, <1>7, <1>8 DEF u

LEMMA EmptyIs ==
    /\ EmptyTable \in FlowTables /\ \A k \in Key : EmptyTable[k] = NoFlow
    /\ LoadsOf(EmptyTable) = NoLoads
  <1>1. EmptyTable \in FlowTables /\ \A k \in Key : EmptyTable[k] = NoFlow
    BY DEF EmptyTable, FlowTables
  <1>2. \A i \in Id : PairsAt(EmptyTable, i) = {}
    BY <1>1 DEF PairsAt, Present
  <1>3. Cardinality({}) = 0
    BY FS_EmptySet
  <1> QED BY <1>1, <1>2, <1>3 DEF LoadsOf, NoLoads

-----------------------------------------------------------------------------
(* The snapshot. *)

(* A record of the snapshot is a flow of the table. *)
LEMMA AgelessIs ==
    ASSUME NEW t \in FlowTables
    PROVE  /\ Ageless(t) \subseteq Conn
           /\ \A k \in Key : t[k] # NoFlow /\ t[k].seen = 0 => k[1] \in Ageless(t)
  <1>1. \A k \in Present(t) : k[1] \in Conn
    BY EntryIs DEF Present
  <1> QED BY <1>1 DEF Ageless, Present

LEMMA AgeIs ==
    ASSUME Typed, Aged, NEW k \in Key, table[k] # NoFlow
    PROVE  /\ flow_age(table[k]) \in Nat /\ flow_age(table[k]) <= now
           /\ k[1] \in ageless \/ now - flow_age(table[k]) <= packet[k[1]]
  <1>1. table[k].seen \in Nat /\ now \in Nat /\ k[1] \in Conn
    BY EntryIs DEF Typed, FlowType
  <1>2. packet[k[1]] \in Nat
    BY <1>1 DEF Typed, FlowType
  <1>3. table[k].seen <= now /\ (k[1] \in ageless \/ (table[k].seen # 0 /\ table[k].seen <= packet[k[1]]))
    BY DEF Aged
  <1>4. CASE table[k].seen = 0
    <2>1. flow_age(table[k]) = 0
      BY <1>4 DEF flow_age
    <2> QED BY <1>1, <1>3, <1>4, <2>1
  <1>5. CASE table[k].seen # 0
    <2>1. flow_age(table[k]) = now - table[k].seen
      BY <1>5 DEF flow_age
    <2> QED BY <1>1, <1>2, <1>3, <2>1
  <1> QED BY <1>4, <1>5

LEMMA PairIs ==
    ASSUME Typed, Aged, NEW p \in pair_from_entries
    PROVE  /\ p \in Record /\ p.conn \in Conn /\ p.age <= now
           /\ p.conn \in ageless \/ now - p.age <= packet[p.conn]
           /\ table[Forward(p.conn)].target = p.target
           /\ p = [conn |-> p.conn, target |-> p.target,
                   age |-> Min({flow_age(table[Forward(p.conn)]), flow_age(table[Backward(p.conn, p.target)])})]
  <1>1. PICK c \in Conn, u \in Target :
            /\ {Forward(c), Backward(c, u)} \subseteq Present(table) /\ table[Forward(c)].target = u
            /\ p = [conn |-> c, target |-> u,
                    age |-> Min({flow_age(table[Forward(c)]), flow_age(table[Backward(c, u)])})]
    BY DEF pair_from_entries
  <1> DEFINE a == flow_age(table[Forward(c)])
             b == flow_age(table[Backward(c, u)])
  <1>2. /\ Forward(c) \in Key /\ Backward(c, u) \in Key
        /\ table[Forward(c)] # NoFlow /\ table[Backward(c, u)] # NoFlow
        /\ Forward(c)[1] = c /\ Backward(c, u)[1] = c
    BY <1>1, KeyIs DEF Present
  <1>3. /\ a \in Nat /\ a <= now /\ (c \in ageless \/ now - a <= packet[c])
        /\ b \in Nat /\ b <= now /\ (c \in ageless \/ now - b <= packet[c])
    BY <1>2, AgeIs
  <1>5. p.conn = c /\ p.target = u /\ p.age = Min({a, b}) /\ p = [conn |-> c, target |-> u, age |-> Min({a, b})]
    BY <1>1
  <1> HIDE DEF a, b
  <1>6. Min({a, b}) \in {a, b}
    BY <1>3, Pairwise
  <1>7. Min({a, b}) \in Nat /\ Min({a, b}) <= now /\ (c \in ageless \/ now - Min({a, b}) <= packet[c])
    BY <1>3, <1>6
  <1>8. p \in Record
    BY <1>5, <1>7 DEF Record
  <1> QED BY <1>1, <1>5, <1>7, <1>8 DEF a, b

LEMMA PairOnce ==
    ASSUME Typed, Aged, NEW p \in pair_from_entries, NEW q \in pair_from_entries, p.conn = q.conn
    PROVE  p = q
  <1>1. p.target = q.target
    BY PairIs
  <1> DEFINE A(r) == Min({flow_age(table[Forward(r.conn)]), flow_age(table[Backward(r.conn, r.target)])})
  <1>2. A(p) = A(q)
    BY <1>1
  <1>3. /\ p = [conn |-> p.conn, target |-> p.target, age |-> A(p)]
        /\ q = [conn |-> q.conn, target |-> q.target, age |-> A(q)]
    BY PairIs
  <1> HIDE DEF A
  <1> QED BY <1>1, <1>2, <1>3

(* What the invariant asks of a snapshot. *)
GoodFile(f) ==
    /\ f.saved \in Nat /\ f.pairs \subseteq Record /\ f.saved <= now
    /\ \A p \in f.pairs : p.age <= f.saved /\ (p.conn \in ageless \/ f.saved - p.age <= packet[p.conn])
    /\ \A p, q \in f.pairs : p.conn = q.conn => p = q
    /\ \A p \in f.pairs : LET v == table[Forward(p.conn)]
                          IN  v = NoFlow \/ v.target = p.target \/ v.seen >= f.saved - p.age \/ p.conn \in told

LEMMA SnapshotIs ==
    ASSUME Typed, TimeInv, Restorable, NEW pairs \in collect_snapshot_pairs
    PROVE  GoodFile(write_snapshot(pairs))
  <1>0. Aged /\ Saved /\ now \in Nat /\ FileType
    BY DEF TimeInv, Typed, FlowType
  <1>1. GoodFile(file)
    BY <1>0 DEF GoodFile, Saved, Restorable, FileType
  <1>2. pairs \subseteq pair_from_entries
    BY DEF collect_snapshot_pairs, kSubset
  <1> DEFINE f == encode_snapshot(pairs)
  <1>3. f.saved = now /\ f.pairs = pairs
    BY DEF encode_snapshot
  <1> HIDE DEF f
  <1>4. ASSUME NEW p \in f.pairs
        PROVE  /\ p \in Record /\ p.age <= now /\ (p.conn \in ageless \/ now - p.age <= packet[p.conn])
               /\ table[Forward(p.conn)].target = p.target
    BY <1>0, <1>2, <1>3, PairIs
  <1>5. ASSUME NEW p \in f.pairs, NEW q \in f.pairs, p.conn = q.conn
        PROVE  p = q
    BY <1>0, <1>2, <1>3, <1>5, PairOnce
  <1>6. GoodFile(f)
    BY <1>0, <1>3, <1>4, <1>5 DEF GoodFile
  <1> QED BY <1>1, <1>6 DEF write_snapshot, f

(* The last-seen of a restored record: the record's, or 0. *)
Back(p, n) == n \in {0, file.saved - p.age}

(* A restored entry is its record's, no younger than it was. *)
LEMMA RestoreIs ==
    ASSUME Typed, TimeInv, NEW k \in Key, restore_entries_from_snapshot[k] # NoFlow
    PROVE  \E p \in file.pairs :
             /\ k \in {Forward(p.conn), Backward(p.conn, p.target)} /\ p \in Record
             /\ restore_entries_from_snapshot[k] \in FlowValue
             /\ restore_entries_from_snapshot[k].target = p.target
             /\ Back(p, restore_entries_from_snapshot[k].seen)
  <1> DEFINE mine == {p \in file.pairs : k \in {Forward(p.conn), Backward(p.conn, p.target)}}
             p == CHOOSE p \in mine : TRUE
  <1>1. restore_entries_from_snapshot[k] = IF mine = {} THEN NoFlow ELSE remap_value(p)
    BY DEF restore_entries_from_snapshot
  <1>2. mine # {} /\ restore_entries_from_snapshot[k] = remap_value(p)
    BY <1>1
  <1>3. p \in file.pairs /\ k \in {Forward(p.conn), Backward(p.conn, p.target)}
    BY <1>2
  <1> HIDE DEF p, mine
  <1>4. p \in Record /\ p.target \in Target /\ p.age \in Nat /\ file.saved \in Nat /\ now \in Nat
    BY <1>3 DEF Typed, FileType, FlowType, Record
  <1>5. p.age <= file.saved
    BY <1>3 DEF TimeInv, Saved
  <1>6. now - restored_age(p) = file.saved - p.age /\ file.saved - p.age \in Nat
    BY <1>4, <1>5 DEF restored_age
  <1> DEFINE at == {i \in Id : i < Len(config) /\ config[i + 1].address = p.target}
             n == IF restored_age(p) >= Clock THEN 0 ELSE now - restored_age(p)
  <1>7. at \in SUBSET Nat /\ at \subseteq Id
    BY Consts
  <1>8. at # {} /\ remap_value(p) = [target |-> p.target, slot |-> Min(at), seen |-> n]
    BY <1>2 DEF remap_value
  <1>9. n \in Nat /\ Back(p, n)
    BY <1>6 DEF Back
  <1> HIDE DEF at, n
  <1>10. Min(at) \in Id
    BY <1>7, <1>8, MinIs
  <1>11. /\ remap_value(p) \in FlowValue /\ remap_value(p).target = p.target
         /\ remap_value(p).seen = n
    BY <1>4, <1>8, <1>9, <1>10 DEF FlowValue
  <1> QED BY <1>2, <1>3, <1>4, <1>9, <1>11

(* What the restore leaves in the table: nothing, what was there, or a fresher record. *)
Restored == delete_flows(upsert_flows(table, restore_entries_from_snapshot),
              Present(upsert_flows(table, restore_entries_from_snapshot)) \
                LiveKeys(upsert_flows(table, restore_entries_from_snapshot), now))

LEMMA RestoredIs ==
    ASSUME Typed, TimeInv
    PROVE  /\ Restored \in FlowTables
           /\ \A k \in Key : Restored[k] \in {NoFlow, table[k]} \/
                \E p \in file.pairs :
                   /\ k \in {Forward(p.conn), Backward(p.conn, p.target)} /\ p \in Record
                   /\ Restored[k].target = p.target /\ Back(p, Restored[k].seen)
                   /\ table[k] = NoFlow \/ table[k].seen < Restored[k].seen
  <1> DEFINE e == restore_entries_from_snapshot
             all == upsert_flows(table, e)
             gone == Present(all) \ LiveKeys(all, now)
  <1>0. table \in FlowTables
    BY DEF Typed, FlowType
  <1>1. \A k \in Key : e[k] # NoFlow =>
          \E p \in file.pairs :
             /\ k \in {Forward(p.conn), Backward(p.conn, p.target)} /\ p \in Record
             /\ e[k] \in FlowValue /\ e[k].target = p.target /\ Back(p, e[k].seen)
    BY RestoreIs
  <1> HIDE DEF e
  <1>2. all = [k \in Key |-> IF e[k] # NoFlow /\ (table[k] = NoFlow \/ e[k].seen > table[k].seen)
                             THEN e[k] ELSE table[k]]
    BY DEF upsert_flows, flow_apply_applies
  <1>3. Restored = delete_flows(all, gone)
    BY DEF Restored, e
  <1> HIDE DEF all, gone
  <1>4. all \in FlowTables
    BY <1>0, <1>1, <1>2 DEF FlowTables
  <1>5. Restored \in FlowTables /\ \A k \in Key : Restored[k] \in {NoFlow, all[k]}
    BY <1>3, <1>4, DeleteIs
  <1>6. ASSUME NEW k \in Key
        PROVE  all[k] = table[k] \/
                \E p \in file.pairs :
                   /\ k \in {Forward(p.conn), Backward(p.conn, p.target)} /\ p \in Record
                   /\ all[k].target = p.target /\ Back(p, all[k].seen)
                   /\ table[k] = NoFlow \/ table[k].seen < all[k].seen
    <2>1. CASE e[k] # NoFlow /\ (table[k] = NoFlow \/ e[k].seen > table[k].seen)
      <3>1. all[k] = e[k]
        BY <1>2, <2>1
      <3>2. PICK p \in file.pairs :
             /\ k \in {Forward(p.conn), Backward(p.conn, p.target)} /\ p \in Record
             /\ e[k] \in FlowValue /\ e[k].target = p.target /\ Back(p, e[k].seen)
        BY <1>1, <2>1
      <3>3. table[k] # NoFlow => table[k].seen \in Nat
        BY <1>0, EntryIs
      <3>4. e[k].seen \in Nat
        BY <3>2, ValueIs
      <3>5. table[k] = NoFlow \/ table[k].seen < e[k].seen
        BY <2>1, <3>3, <3>4
      <3> QED BY <3>1, <3>2, <3>5
    <2>2. CASE ~(e[k] # NoFlow /\ (table[k] = NoFlow \/ e[k].seen > table[k].seen))
      BY <1>2, <2>2
    <2> QED BY <2>1, <2>2
  <1> HIDE DEF Restored
  <1> QED BY <1>5, <1>6

-----------------------------------------------------------------------------
(* What the steps have in common. *)

(* A step of the running datapath drops keys, or writes them with a packet. *)
Moves == /\ table' \in FlowTables
         /\ \A k \in Key : \/ table'[k] \in {NoFlow, table[k]}
                           \/ table'[k] # NoFlow /\ table'[k].seen = now /\ packet'[k[1]] = now
Heard == /\ packet' \in [Conn -> Nat] /\ ageless' \subseteq Conn /\ told' \subseteq Conn
         /\ \A c \in Conn :
              \/ packet'[c] = packet[c] /\ (c \in ageless => c \in ageless') /\ (c \in told => c \in told')
              \/ /\ packet'[c] = now /\ table'[Forward(c)].seen = now
                 /\ c \in Ageless(table') => c \in ageless'

LEMMA TimeKept ==
    ASSUME Typed, TimeInv, Restorable, Moves, Heard, now' = now, file' = file
    PROVE  TimeInv' /\ Restorable'
  <1>0. /\ now \in Nat /\ now # 0 /\ table \in FlowTables /\ table' \in FlowTables /\ packet \in [Conn -> Nat]
        /\ file.saved \in Nat /\ file.pairs \subseteq Record /\ Aged /\ Saved
    BY DEF Typed, FlowType, FileType, TimeInv, Moves
  <1>1. ASSUME NEW c \in Conn
        PROVE  packet[c] \in Nat /\ packet'[c] \in Nat /\ packet[c] <= packet'[c] /\ packet'[c] <= now
    <2>1. packet[c] \in Nat /\ packet'[c] \in Nat /\ packet[c] <= now
      BY <1>0 DEF Heard, Aged
    <2> QED BY <1>0, <2>1 DEF Heard
  <1>2. ASSUME NEW k \in Key, table'[k] # NoFlow
        PROVE  /\ table'[k].seen <= now
               /\ k[1] \in ageless' \/ (table'[k].seen # 0 /\ table'[k].seen <= packet'[k[1]])
    <2>1. k[1] \in Conn /\ table'[k].seen \in Nat
      BY <1>0, <1>2, EntryIs
    <2>2. CASE table'[k] = table[k]
      <3>1. table[k].seen <= now /\ (k[1] \in ageless \/ (table[k].seen # 0 /\ table[k].seen <= packet[k[1]]))
        BY <1>0, <1>2, <2>2 DEF Aged
      <3>2. CASE packet'[k[1]] = packet[k[1]] /\ (k[1] \in ageless => k[1] \in ageless')
        BY <2>2, <3>1, <3>2
      <3>3. CASE packet'[k[1]] = now /\ (k[1] \in Ageless(table') => k[1] \in ageless')
        <4>1. table'[k].seen = 0 => k[1] \in ageless'
          BY <1>0, <1>2, <3>3, AgelessIs
        <4> QED BY <2>2, <3>1, <3>3, <4>1
      <3> QED BY <2>1, <3>2, <3>3 DEF Heard
    <2>3. CASE table'[k].seen = now /\ packet'[k[1]] = now
      BY <1>0, <2>3
    <2> QED BY <1>2, <2>2, <2>3 DEF Moves
  <1>3. Aged'
    BY <1>1, <1>2 DEF Aged
  <1>4. ASSUME NEW p \in file.pairs
        PROVE  /\ p.conn \in Conn /\ p.age \in Nat /\ p.age <= file.saved /\ file.saved - p.age <= now
               /\ p.conn \in ageless' \/ file.saved - p.age <= packet'[p.conn]
    <2>1. p.conn \in Conn /\ p.age \in Nat
      BY <1>0 DEF Record
    <2>2. /\ p.age <= file.saved /\ file.saved <= now
          /\ p.conn \in ageless \/ file.saved - p.age <= packet[p.conn]
      BY <1>0 DEF Saved
    <2>3. file.saved - p.age <= now
      BY <1>0, <2>1, <2>2
    <2> QED BY <2>1, <2>2, <2>3 DEF Heard
  <1>5. Saved'
    BY <1>0, <1>4 DEF Saved
  <1>6. ASSUME NEW p \in file.pairs
        PROVE  \/ table'[Forward(p.conn)] = NoFlow \/ table'[Forward(p.conn)].target = p.target
               \/ table'[Forward(p.conn)].seen >= file.saved - p.age \/ p.conn \in told'
    <2>1. p.conn \in Conn /\ p.age \in Nat /\ file.saved - p.age <= now
      BY <1>4
    <2>2. Forward(p.conn) \in Key
      BY <2>1, KeyIs
    <2>3. CASE table'[Forward(p.conn)].seen = now
      BY <1>0, <2>1, <2>3
    <2>4. CASE /\ table'[Forward(p.conn)] \in {NoFlow, table[Forward(p.conn)]}
               /\ p.conn \in told => p.conn \in told'
      BY <2>4 DEF Restorable
    <2> QED BY <2>1, <2>2, <2>3, <2>4 DEF Moves, Heard
  <1>7. Restorable'
    BY <1>6 DEF Restorable
  <1> QED BY <1>3, <1>5, <1>7 DEF TimeInv

LEMMA TableKept ==
    ASSUME Typed, UNCHANGED <<table, history>>
    PROVE  Moves /\ Heard
  BY DEF Typed, FlowType, Moves, Heard, history

LEMMA MapKept ==
    ASSUME MapType, UNCHANGED <<config, listener, slots, buckets>>
    PROVE  MapType'
  BY DEF MapType

LEMMA FlowKept ==
    ASSUME FlowType, UNCHANGED <<now, boot, flows, sweeps>>
    PROVE  FlowType'
  BY DEF FlowType, flows, sweeps, history

LEMMA LoadKept ==
    ASSUME LoadInv, UNCHANGED <<table, loads, late, sweep, drift>>
    PROVE  LoadInv'
  <1> USE DEF LoadInv
  <1>1. Backs'
    BY DEF Backs
  <1>2. SweepCounts' /\ LateKnown' /\ LoadsSettle'
    BY DEF SweepCounts, LateKnown, LoadsSettle
  <1> QED BY <1>1, <1>2

LEMMA BacksIs == Backs <=> BacksOf(table)
  BY DEF Backs, BacksOf

LEMMA RefreshBacks ==
    ASSUME NEW t \in FlowTables, BacksOf(t), NEW k \in Key, t[k] # NoFlow, NEW m \in Nat
    PROVE  BacksOf(Refresh(t, k, m))
  <1> DEFINE u == Refresh(t, k, m)
  <1>1. k[1] \in Conn /\ t[k].target \in Target
    BY EntryIs
  <1>2. \A x \in Key : IF x \in {Forward(k[1]), Backward(k[1], t[k].target)}
                       THEN u[x].target = t[k].target ELSE u[x] = t[x]
    BY RefreshIs
  <1> HIDE DEF u
  <1>3. ASSUME NEW c \in Conn, NEW x \in Target, u[Backward(c, x)] # NoFlow
        PROVE  u[Backward(c, x)].target = x
    <2>1. Backward(c, x) \in Key
      BY KeyIs
    <2>2. CASE Backward(c, x) \in {Forward(k[1]), Backward(k[1], t[k].target)}
      <3>1. x = t[k].target
        BY <1>1, <2>2, KeyIs
      <3> QED BY <1>2, <2>1, <2>2, <3>1
    <2>3. CASE Backward(c, x) \notin {Forward(k[1]), Backward(k[1], t[k].target)}
      BY <1>2, <1>3, <2>1, <2>3 DEF BacksOf
    <2> QED BY <2>2, <2>3
  <1>4. BacksOf(u)
    BY <1>3 DEF BacksOf
  <1> QED BY <1>4 DEF u

(* Dropping keys keeps what the reverse keys tell. *)
LEMMA DropBacks ==
    ASSUME NEW t, BacksOf(t), NEW u, \A x \in Key : u[x] \in {NoFlow, t[x]}
    PROVE  BacksOf(u)
  <1>1. \A c \in Conn, x \in Target : u[Backward(c, x)] \in {NoFlow, t[Backward(c, x)]}
    BY KeyIs
  <1> QED BY <1>1 DEF BacksOf

LEMMA NewBacks ==
    ASSUME NEW t \in FlowTables, BacksOf(t), NEW c \in Conn, NEW v \in FlowValue
    PROVE  BacksOf(NewPair(t, c, v))
  <1> DEFINE u == NewPair(t, c, v)
  <1>1. v.target \in Target
    BY ValueIs
  <1>2. \A x \in Key : u[x] = IF x \in {Forward(c), Backward(c, v.target)} THEN v ELSE t[x]
    BY NewIs
  <1> HIDE DEF u
  <1>3. ASSUME NEW d \in Conn, NEW x \in Target, u[Backward(d, x)] # NoFlow
        PROVE  u[Backward(d, x)].target = x
    <2>1. Backward(d, x) \in Key
      BY KeyIs
    <2>2. CASE Backward(d, x) \in {Forward(c), Backward(c, v.target)}
      <3>1. x = v.target
        BY <1>1, <2>2, KeyIs
      <3> QED BY <1>2, <2>1, <2>2, <3>1
    <2>3. CASE Backward(d, x) \notin {Forward(c), Backward(c, v.target)}
      BY <1>2, <1>3, <2>1, <2>3 DEF BacksOf
    <2> QED BY <2>2, <2>3
  <1>4. BacksOf(u)
    BY <1>3 DEF BacksOf
  <1> QED BY <1>4 DEF u

(* A refreshed flow changes no counter, during a sweep either. *)
LEMMA RefreshLoads ==
    ASSUME Typed, LoadInv, NEW k \in Key, table[k] # NoFlow, table' = Refresh(table, k, now),
           drift' = (drift \/ Orphans(table) # {}), UNCHANGED <<loads, late, sweep>>
    PROVE  LoadInv'
  <1>0. table \in FlowTables /\ now \in Nat /\ BacksOf(table) /\ drift \in BOOLEAN
    BY BacksIs DEF Typed, FlowType, LoadInv
  <1>1. table' \in FlowTables
    BY <1>0, RefreshIs
  <1>2. Backs'
    <2>1. BacksOf(Refresh(table, k, now))
      BY <1>0, RefreshBacks
    <2> QED BY <2>1 DEF BacksOf, Backs
  <1>3. CASE Orphans(table) # {}
    <2>1. drift'
      BY <1>3
    <2> QED BY <1>2, <2>1 DEF LoadInv, SweepCounts, LateKnown, LoadsSettle
  <1>4. CASE Orphans(table) = {}
    <2>1. Whole(table)
      BY <1>0, <1>4 DEF Whole
    <2>2. Alike(table, table')
      BY <1>0, <2>1, RefreshAlike
    <2>3. drift' = drift
      BY <1>0, <1>4
    <2>4. LoadsOf(table) = LoadsOf(table')
      BY <2>2, AlikeLoads
    <2>5. Alike(delete_flows(table, sweep.gone), delete_flows(table', sweep.gone))
      BY <1>0, <1>1, <2>2, AlikeDelete
    <2>6. LoadsOf(delete_flows(table, sweep.gone)) = LoadsOf(delete_flows(table', sweep.gone))
      BY <2>5, AlikeLoads
    <2>7. LoadsSettle'
      BY <2>3, <2>4 DEF LoadsSettle, LoadInv
    <2>8. SweepCounts'
      BY <2>3, <2>6 DEF SweepCounts, LoadInv
    <2>9. LateKnown'
      BY <2>3 DEF LateKnown, LoadInv
    <2> QED BY <1>2, <2>7, <2>8, <2>9 DEF LoadInv
  <1> QED BY <1>3, <1>4

-----------------------------------------------------------------------------
(* Each step keeps the invariant. *)

LEMMA InitHolds == Init => DInv
  <1> SUFFICES ASSUME Init PROVE DInv
    OBVIOUS
  <1>1. /\ now = 1 /\ boot = 1 /\ config \in Configs
        /\ listener = Listener /\ slots = Targets /\ buckets = desired_consistent_hash_buckets
        /\ cursor = 0 /\ table = EmptyTable /\ loads = NoLoads /\ late = NoLate
        /\ sweep = NoSweep /\ xsweep = {} /\ file = NoFile /\ packet = [c \in Conn |-> 0]
        /\ ageless = {} /\ told = {} /\ drift = FALSE
    BY FirstConfig DEF Init
  <1>2. MapType
    BY <1>1, MapsAre DEF MapType
  <1>3. FlowType
    <2>1. table \in FlowTables /\ loads \in Counters /\ packet \in [Conn -> Nat]
      BY <1>1, EmptyIs DEF NoLoads, Counters
    <2>2. sweep.on \in BOOLEAN /\ sweep.gone \subseteq Key /\ sweep.loads \in Counters
      BY <1>1 DEF NoSweep, NoLoads, Counters
    <2>3. now \in Nat /\ boot \in Nat \ {0} /\ boot <= now /\ cursor \in Nat
      BY <1>1
    <2>4. late = NoLate /\ xsweep \subseteq Key /\ drift \in BOOLEAN /\ ageless \subseteq Conn /\ told \subseteq Conn
      BY <1>1
    <2> QED BY <2>1, <2>2, <2>3, <2>4 DEF FlowType
  <1>4. FileType
    BY <1>1 DEF FileType, NoFile
  <1>5. Aged
    BY <1>1, EmptyIs DEF Aged
  <1>6. Saved /\ Restorable
    BY <1>1 DEF Saved, Restorable, NoFile
  <1>7. Backs
    BY <1>1, EmptyIs, KeyIs DEF Backs
  <1>8. SweepCounts /\ LateKnown /\ LoadsSettle
    BY <1>1, EmptyIs DEF SweepCounts, LateKnown, LoadsSettle, NoSweep
  <1> QED BY <1>2, <1>3, <1>4, <1>5, <1>6, <1>7, <1>8 DEF DInv, Typed, TimeInv, LoadInv

LEMMA StutterKeeps == ASSUME DInv, UNCHANGED vars PROVE DInv'
  <1> USE DEF DInv
  <1>0. /\ UNCHANGED <<now, boot, config, listener, slots, buckets, flows, sweeps, file>>
        /\ UNCHANGED <<table, history>> /\ UNCHANGED <<table, loads, late, sweep, drift>>
    BY DEF vars, maps, flows, sweeps
  <1>1. Typed'
    BY <1>0, MapKept, FlowKept DEF Typed, FileType
  <1>2. TimeInv' /\ Restorable'
    BY <1>0, TableKept, TimeKept
  <1>3. LoadInv'
    BY <1>0, LoadKept
  <1> QED BY <1>1, <1>2, <1>3

LEMMA TickKeeps == ASSUME DInv, Tick PROVE DInv'
  <1> USE DEF DInv
  <1>0. /\ now' = now + 1 /\ UNCHANGED <<config, listener, slots, buckets>> /\ UNCHANGED <<boot, flows, sweeps, file>>
        /\ UNCHANGED <<cursor, table, loads, late, history, drift>> /\ UNCHANGED <<sweep, xsweep>> /\ now \in Nat
    BY DEF Tick, maps, flows, sweeps, Typed, FlowType
  <1>1. Typed'
    <2>1. MapType'
      BY <1>0, MapKept DEF Typed
    <2>2. FlowType'
      BY <1>0 DEF FlowType, Typed, history
    <2> QED BY <1>0, <2>1, <2>2 DEF Typed, FileType
  <1>2. \A c \in Conn : packet[c] \in Nat /\ packet[c] <= now
    BY DEF Typed, FlowType, TimeInv, Aged
  <1>3. \A c \in Conn : packet[c] <= now + 1
    BY <1>0, <1>2
  <1>t. ASSUME NEW k \in Key, table[k] # NoFlow
        PROVE  table[k].seen <= now + 1
    <2>1. table[k].seen \in Nat /\ table[k].seen <= now
      BY <1>t, EntryIs DEF Typed, FlowType, TimeInv, Aged
    <2> QED BY <1>0, <2>1
  <1>4. Aged'
    BY <1>0, <1>3, <1>t DEF TimeInv, Aged, history
  <1>5. file.saved \in Nat /\ file.saved <= now
    BY DEF Typed, FileType, TimeInv, Saved
  <1>6. file.saved <= now + 1
    BY <1>0, <1>5
  <1>7. Saved'
    BY <1>0, <1>6 DEF TimeInv, Saved, history
  <1>8. Restorable'
    BY <1>0 DEF Restorable, history
  <1>9. LoadInv'
    BY <1>0, LoadKept
  <1> QED BY <1>1, <1>4, <1>7, <1>8, <1>9 DEF TimeInv

(* The steps that write maps only. *)
LEMMA MapStepKeeps ==
    ASSUME DInv, UNCHANGED <<now, boot, flows, sweeps, file>>, MapType'
    PROVE  DInv'
  <1> USE DEF DInv
  <1>0. UNCHANGED <<table, history>> /\ UNCHANGED <<table, loads, late, sweep, drift>>
    BY DEF flows, sweeps
  <1>1. Typed'
    BY FlowKept DEF Typed, FileType
  <1>2. TimeInv' /\ Restorable'
    BY <1>0, TableKept, TimeKept
  <1>3. LoadInv'
    BY <1>0, LoadKept
  <1> QED BY <1>1, <1>2, <1>3

LEMMA ChangeKeeps == ASSUME DInv, Change PROVE DInv'
  <1>1. MapType
    BY DEF DInv, Typed
  <1>2. config' \in Configs
    BY <1>1 DEF Change, MapType
  <1>3. MapType'
    BY <1>1, <1>2 DEF Change, MapType
  <1> QED BY <1>3, MapStepKeeps DEF Change

LEMMA SyncKeeps ==
    ASSUME DInv, sync_listener_map \/ sync_target_map \/ sync_consistent_hash_bucket_map
    PROVE  DInv'
  <1>1. MapType /\ config \in Configs
    BY DEF DInv, Typed, MapType
  <1>2. CASE sync_listener_map
    <2>1. MapType'
      BY <1>1, <1>2, MapsAre DEF sync_listener_map, MapType
    <2> QED BY <1>2, <2>1, MapStepKeeps DEF sync_listener_map
  <1>3. CASE sync_target_map
    <2>1. MapType'
      BY <1>1, <1>3, MapsAre DEF sync_target_map, MapType
    <2> QED BY <1>3, <2>1, MapStepKeeps DEF sync_target_map
  <1>4. CASE sync_consistent_hash_bucket_map
    <2>1. MapType'
      BY <1>1, <1>4, MapsAre DEF sync_consistent_hash_bucket_map, MapType
    <2> QED BY <1>4, <2>1, MapStepKeeps DEF sync_consistent_hash_bucket_map
  <1> QED BY <1>2, <1>3, <1>4

LEMMA AttachKeeps == ASSUME DInv, attach_prepared PROVE DInv'
  <1>1. MapType /\ config \in Configs
    BY DEF DInv, Typed, MapType
  <1>2. MapType'
    BY <1>1, MapsAre DEF attach_prepared, MapType
  <1> QED BY <1>2, MapStepKeeps DEF attach_prepared

LEMMA LateWriteKeeps == ASSUME DInv, LateWrite PROVE DInv'
  <1> USE DEF DInv
  <1>0. /\ UNCHANGED <<config, listener, slots, buckets>> /\ UNCHANGED <<table, history>>
        /\ UNCHANGED <<now, boot, cursor, sweep, xsweep, file, drift>>
        /\ late # NoLate /\ late' = NoLate /\ loads' = [loads EXCEPT ![late.id] = late.load]
    BY DEF LateWrite, maps, sweeps
  <1>1. Typed'
    <2>1. MapType'
      BY <1>0, MapKept DEF Typed
    <2>2. loads' \in Counters
      BY <1>0 DEF Typed, FlowType, Counters
    <2>3. FlowType'
      BY <1>0, <2>2 DEF FlowType, Typed, history
    <2> QED BY <1>0, <2>1, <2>3 DEF Typed, FileType
  <1>2. TimeInv' /\ Restorable'
    BY <1>0, TableKept, TimeKept
  <1>3. Backs'
    BY <1>0 DEF Backs, LoadInv
  <1>4. SweepCounts'
    BY <1>0 DEF SweepCounts, LoadInv
  <1>5. LateKnown' /\ LoadsSettle'
    BY <1>0 DEF LateKnown, LoadsSettle, LoadInv
  <1> QED BY <1>1, <1>2, <1>3, <1>4, <1>5 DEF LoadInv

LEMMA SweepKeeps == ASSUME DInv, sweep_flows_and_refresh_loads PROVE DInv'
  <1> USE DEF DInv
  <1> DEFINE gone == Present(table) \ LiveKeys(table, now)
             after == LoadsOf(delete_flows(table, gone))
  <1>0. /\ UNCHANGED <<config, listener, slots, buckets>> /\ UNCHANGED <<table, history>>
        /\ UNCHANGED <<now, boot, cursor, loads, late, xsweep, file>> /\ drift' = FALSE
        /\ sweep' = [on |-> TRUE, gone |-> gone, loads |-> after]
    BY DEF sweep_flows_and_refresh_loads, maps
  <1>1. gone \subseteq Key
    BY DEF Present
  <1>2. after \in Counters
    <2>1. table \in FlowTables
      BY DEF Typed, FlowType
    <2> QED BY <2>1, DeleteIs, LoadType
  <1>3. sweep'.on = TRUE /\ sweep'.gone = gone /\ sweep'.loads = after
    BY <1>0
  <1>4. after = LoadsOf(delete_flows(table', sweep'.gone))
    BY <1>0, <1>3
  <1> HIDE DEF gone, after
  <1>5. Typed'
    <2>1. MapType'
      BY <1>0, MapKept DEF Typed
    <2>3. FlowType'
      BY <1>0, <1>1, <1>2, <1>3 DEF FlowType, Typed, history
    <2> QED BY <1>0, <2>1, <2>3 DEF Typed, FileType
  <1>6. TimeInv' /\ Restorable'
    BY <1>0, TableKept, TimeKept
  <1>7. Backs'
    BY <1>0 DEF Backs, LoadInv
  <1>8. SweepCounts'
    BY <1>3, <1>4 DEF SweepCounts
  <1>9. LateKnown' /\ LoadsSettle'
    BY <1>3 DEF LateKnown, LoadsSettle
  <1> QED BY <1>5, <1>6, <1>7, <1>8, <1>9 DEF LoadInv

LEMMA FinishKeeps == ASSUME DInv, sweep_finish PROVE DInv'
  <1> USE DEF DInv
  <1>0. /\ UNCHANGED <<config, listener, slots, buckets>> /\ UNCHANGED <<now, boot, cursor, late, xsweep, file, history>>
        /\ sweep.on /\ table' = delete_flows(table, sweep.gone) /\ loads' = sweep.loads
        /\ drift' = (drift \/ late # NoLate) /\ sweep' = NoSweep
    BY DEF sweep_finish, maps, replace_active_flows
  <1>1. table \in FlowTables
    BY DEF Typed, FlowType
  <1>2. table' \in FlowTables /\ \A x \in Key : table'[x] \in {NoFlow, table[x]}
    <2>1. \A x \in Key : delete_flows(table, sweep.gone)[x] = IF x \in sweep.gone THEN NoFlow ELSE table[x]
      BY <1>1, DeleteIs
    <2> QED BY <1>0, <1>1, <2>1, DeleteIs
  <1>3. Typed'
    <2>1. MapType'
      BY <1>0, MapKept DEF Typed
    <2>2. sweep'.on = FALSE /\ sweep'.gone = {} /\ sweep'.loads \in Counters
      BY <1>0 DEF NoSweep, NoLoads, Counters
    <2>3. FlowType'
      BY <1>0, <1>2, <2>2 DEF FlowType, Typed, history
    <2> QED BY <1>0, <2>1, <2>3 DEF Typed, FileType
  <1>4. TimeInv' /\ Restorable'
    <2>1. Moves
      BY <1>2 DEF Moves
    <2>2. Heard
      BY <1>0 DEF Heard, Typed, FlowType, history
    <2> QED BY <1>0, <2>1, <2>2, TimeKept
  <1>5. Backs'
    <2>1. BacksOf(table) => BacksOf(table')
      BY <1>2, DropBacks
    <2> QED BY <2>1 DEF LoadInv, Backs, BacksOf
  <1>6. SweepCounts'
    BY <1>0 DEF SweepCounts, NoSweep
  <1>7. LateKnown'
    BY <1>0 DEF LateKnown
  <1>8. LoadsSettle'
    BY <1>0 DEF LoadsSettle, LoadInv, SweepCounts
  <1> QED BY <1>3, <1>4, <1>5, <1>6, <1>7, <1>8 DEF LoadInv

LEMMA HeardIs ==
    ASSUME Typed, NEW c \in Conn, Seen(c), table' \in FlowTables, table'[Forward(c)].seen = now
    PROVE  Heard /\ packet'[c] = now
  <1>1. /\ packet \in [Conn -> Nat] /\ now \in Nat /\ ageless \subseteq Conn /\ told \subseteq Conn
        /\ Ageless(table') \subseteq Conn
    BY AgelessIs DEF Typed, FlowType
  <1>2. packet' \in [Conn -> Nat] /\ packet'[c] = now /\ \A d \in Conn : d # c => packet'[d] = packet[d]
    BY <1>1 DEF Seen
  <1>3. ageless' = (ageless \ {c}) \union Ageless(table') /\ told' = told \ {c}
    BY DEF Seen
  <1> QED BY <1>1, <1>2, <1>3 DEF Heard

(* A packet of a live flow, in either direction. *)
LEMMA RefreshKeeps ==
    ASSUME DInv, NEW k \in Key, table[k] # NoFlow, table' = Refresh(table, k, now), Seen(k[1]),
           drift' = (drift \/ Orphans(table) # {}),
           UNCHANGED <<now, boot, config, listener, slots, buckets, cursor, loads, late, sweep, xsweep, file>>
    PROVE  DInv'
  <1> USE DEF DInv
  <1>0. table \in FlowTables /\ now \in Nat /\ k[1] \in Conn /\ table[k].target \in Target
    BY EntryIs DEF Typed, FlowType
  <1>2. table' \in FlowTables /\ table'[Forward(k[1])].seen = now
    BY <1>0, KeyIs, RefreshIs
  <1>1. Heard /\ packet'[k[1]] = now
    BY <1>0, <1>2, HeardIs
  <1>3. Moves
    <2> SUFFICES ASSUME NEW x \in Key
                 PROVE  \/ table'[x] \in {NoFlow, table[x]}
                        \/ table'[x] # NoFlow /\ table'[x].seen = now /\ packet'[x[1]] = now
      BY <1>2 DEF Moves
    <2>1. IF x \in {Forward(k[1]), Backward(k[1], table[k].target)}
          THEN table'[x] # NoFlow /\ table'[x].seen = now ELSE table'[x] = table[x]
      BY <1>0, RefreshIs
    <2>2. x \in {Forward(k[1]), Backward(k[1], table[k].target)} => x[1] = k[1]
      BY <1>0, KeyIs
    <2> QED BY <1>1, <2>1, <2>2
  <1>4. Typed'
    <2>1. MapType'
      BY MapKept DEF Typed
    <2>2. drift' \in BOOLEAN
      BY DEF Typed, FlowType
    <2>3. FlowType'
      BY <1>1, <1>2, <2>2 DEF FlowType, Typed, Heard
    <2> QED BY <2>1, <2>3 DEF Typed, FileType
  <1>5. TimeInv' /\ Restorable'
    BY <1>1, <1>3, TimeKept
  <1>6. LoadInv'
    BY RefreshLoads
  <1> QED BY <1>4, <1>5, <1>6

LEMMA HitKeeps == ASSUME DInv, NEW c \in Conn, IngressHit(c) PROVE DInv'
  <1>1. Forward(c) \in Key /\ Forward(c)[1] = c
    BY KeyIs
  <1>2. table[Forward(c)] # NoFlow
    BY DEF IngressHit, LiveKeys, Present
  <1> QED BY <1>1, <1>2, RefreshKeeps DEF IngressHit, maps, sweeps

LEMMA ReturnKeeps == ASSUME DInv, NEW c \in Conn, NEW t \in Target, Return(c, t) PROVE DInv'
  <1> DEFINE k == Backward(c, t)
  <1>0. k \in Key /\ k[1] = c /\ table[k] # NoFlow
    BY KeyIs DEF Return
  <1>1. UNCHANGED <<now, boot, config, listener, slots, buckets, cursor, late, sweep, xsweep, file>>
    BY DEF Return, maps, sweeps
  <1>2. CASE ~flow_expired(table[k], now)
    <2>1. /\ table' = Refresh(table, k, now) /\ Seen(c) /\ UNCHANGED loads
          /\ drift' = (drift \/ Orphans(table) # {})
      BY <1>2 DEF Return
    <2> HIDE DEF k
    <2> QED BY <1>0, <1>1, <2>1, RefreshKeeps
  <1>3. CASE flow_expired(table[k], now)
    <2>1. /\ table' = RemovePair(table, k)
          /\ loads' = [loads EXCEPT ![table[k].slot] = Adjusted(@, -1)]
          /\ drift' = (drift \/ sweep.on \/ late # NoLate \/ Orphans(table) # {})
          /\ UNCHANGED history
      BY <1>3 DEF Return
    <2> HIDE DEF k
    <2> USE DEF DInv
    <2>2. table \in FlowTables /\ table[k].slot \in Id /\ BacksOf(table)
      BY <1>0, EntryIs, BacksIs DEF Typed, FlowType, LoadInv
    <2>3. table' \in FlowTables /\ \A x \in Key : table'[x] \in {NoFlow, table[x]}
      <3>1. \A x \in Key : RemovePair(table, k)[x] =
              IF x \in {Forward(k[1]), Backward(k[1], table[k].target)} THEN NoFlow ELSE table[x]
        BY <1>0, <2>2, RemoveIs
      <3> QED BY <1>0, <2>1, <2>2, <3>1, RemoveIs
    <2>4. loads' \in Counters
      <3>1. loads \in Counters /\ loads[table[k].slot] \in Nat
        BY <2>2 DEF Typed, FlowType, Counters
      <3>2. Adjusted(loads[table[k].slot], -1) \in Nat
        BY <3>1 DEF Adjusted
      <3> QED BY <2>1, <3>1, <3>2 DEF Counters
    <2>5. Typed'
      <3>1. MapType'
        BY <1>1, MapKept DEF Typed
      <3>2. drift' \in BOOLEAN
        BY <2>1
      <3>3. FlowType'
        BY <1>1, <2>1, <2>3, <2>4, <3>2 DEF FlowType, Typed, history
      <3> QED BY <1>1, <3>1, <3>3 DEF Typed, FileType
    <2>6. TimeInv' /\ Restorable'
      <3>1. Moves
        BY <2>3 DEF Moves
      <3>2. Heard
        BY <2>1 DEF Heard, Typed, FlowType, history
      <3> QED BY <1>1, <3>1, <3>2, TimeKept
    <2>7. Backs'
      <3>1. BacksOf(table')
        BY <2>2, <2>3, DropBacks
      <3> QED BY <3>1 DEF Backs, BacksOf
    <2>8. CASE drift'
      BY <2>5, <2>6, <2>7, <2>8 DEF LoadInv, SweepCounts, LateKnown, LoadsSettle
    <2>9. CASE ~drift'
      <3>1. ~drift /\ ~sweep.on /\ late = NoLate /\ Orphans(table) = {}
        BY <2>1, <2>9
      <3>2. loads = LoadsOf(table) /\ Whole(table)
        BY <2>2, <3>1 DEF LoadInv, LoadsSettle, Whole
      <3>3. LoadsOf(table') = [LoadsOf(table) EXCEPT ![table[k].slot] = Adjusted(@, -1)]
        BY <1>0, <2>1, <3>2, RemoveWhole
      <3>4. loads' = LoadsOf(table')
        BY <2>1, <3>2, <3>3
      <3>5. LoadsSettle'
        BY <3>4 DEF LoadsSettle
      <3>6. SweepCounts' /\ LateKnown'
        BY <1>1, <3>1 DEF SweepCounts, LateKnown
      <3> QED BY <2>5, <2>6, <2>7, <3>5, <3>6 DEF LoadInv
    <2> QED BY <2>8, <2>9
  <1> QED BY <1>2, <1>3

(* The first packet of a flow: an expired one goes, a new one comes if a target is selected. *)
LEMMA NewKeeps == ASSUME DInv, NEW c \in Conn, IngressNew(c) PROVE DInv'
  <1> USE DEF DInv
  <1> DEFINE k == Forward(c)
             old == table[k]
             freed == IF old = NoFlow THEN loads ELSE [loads EXCEPT ![old.slot] = Adjusted(@, -1)]
             cleared == IF old = NoFlow THEN table ELSE RemovePair(table, k)
             i == select_target(select, HashOf[c], cursor)
             v == [target |-> slots[i].address, slot |-> i, seen |-> now]
             chosen == i # NoSlot /\ target_slot_is_usable(i)
  <1>0. /\ cursor' = IF UsesCursor(select) /\ listener.count > 0 /\ listener.total > 0
                     THEN (cursor + 1) % CursorSize ELSE cursor
        /\ IF chosen THEN table' = NewPair(cleared, c, v) /\ adjust_active_flows(freed, i, 1) /\ Seen(c)
           ELSE table' = cleared /\ loads' = freed /\ UNCHANGED <<late, history, events>>
        /\ drift' = (Unsettled \/ Orphans(table) # {})
    BY DEF IngressNew
  <1>1. UNCHANGED <<now, boot, config, listener, slots, buckets, sweep, xsweep, file>>
    BY DEF IngressNew, maps, sweeps
  <1>2. /\ table \in FlowTables /\ now \in Nat /\ loads \in Counters /\ cursor \in Nat /\ BacksOf(table)
        /\ k \in Key /\ k[1] = c
    BY BacksIs, KeyIs DEF Typed, FlowType, LoadInv
  <1>3. i \in Id \union {NoSlot}
    <2>1. HashOf[c] \in Nat /\ MapType
      BY DatapathAssumption DEF Typed
    <2> QED BY <1>2, <2>1, SelectIs
  <1>4. chosen => i \in Id /\ v \in FlowValue /\ v.slot = i /\ v.seen = now /\ v.target \in Target
    <2> SUFFICES ASSUME chosen PROVE i \in Id /\ v \in FlowValue /\ v.slot = i /\ v.seen = now /\ v.target \in Target
      OBVIOUS
    <2>1. i \in Id /\ slots[i] # NoEntry
      BY <1>3 DEF target_slot_is_usable
    <2>2. slots[i].address \in Target
      BY <2>1 DEF Typed, MapType
    <2> HIDE DEF i
    <2> QED BY <1>2, <2>1, <2>2 DEF FlowValue
  <1>5. /\ cleared \in FlowTables /\ \A x \in Key : cleared[x] \in {NoFlow, table[x]}
        /\ cleared[k] = NoFlow
    <2>1. CASE old = NoFlow
      BY <1>2, <2>1
    <2>2. CASE old # NoFlow
      <3>1. /\ RemovePair(table, k) \in FlowTables
            /\ \A x \in Key : RemovePair(table, k)[x] =
                 IF x \in {Forward(k[1]), Backward(k[1], table[k].target)} THEN NoFlow ELSE table[x]
        BY <1>2, <2>2, RemoveIs
      <3> QED BY <1>2, <2>2, <3>1
    <2> QED BY <2>1, <2>2
  <1>6. freed \in Counters
    <2>1. CASE old = NoFlow
      BY <1>2, <2>1
    <2>2. CASE old # NoFlow
      <3>1. old.slot \in Id
        BY <1>2, <2>2, EntryIs
      <3>2. loads[old.slot] \in Nat
        BY <1>2, <3>1 DEF Counters
      <3>3. Adjusted(loads[old.slot], -1) \in Nat
        BY <3>2 DEF Adjusted
      <3>4. [loads EXCEPT ![old.slot] = Adjusted(@, -1)] \in Counters
        BY <1>2, <3>1, <3>3 DEF Counters
      <3> QED BY <2>2, <3>4
    <2> QED BY <2>1, <2>2
  <1>7. cursor' \in Nat
    <2>1. (cursor + 1) % CursorSize \in Nat
      BY <1>2, DatapathAssumption, ModIs
    <2> QED BY <1>0, <1>2, <2>1
  <1>8. Whole(table) /\ loads = LoadsOf(table) => Whole(cleared) /\ freed = LoadsOf(cleared)
    <2> SUFFICES ASSUME Whole(table), loads = LoadsOf(table)
                 PROVE  Whole(cleared) /\ freed = LoadsOf(cleared)
      OBVIOUS
    <2>1. CASE old = NoFlow
      BY <2>1
    <2>2. CASE old # NoFlow
      <3>1. /\ Whole(RemovePair(table, k))
            /\ LoadsOf(RemovePair(table, k)) = [LoadsOf(table) EXCEPT ![table[k].slot] = Adjusted(@, -1)]
        BY <1>2, <2>2, RemoveWhole
      <3> QED BY <2>2, <3>1
    <2> QED BY <2>1, <2>2
  <1> HIDE DEF v, freed, cleared, i
  <1>9. /\ table' \in FlowTables /\ Moves /\ Heard /\ loads' \in Counters
        /\ late' = NoLate \/ (late'.id \in Id /\ late'.load \in Nat)
        /\ Backs'
        /\ ~drift' => late' = NoLate /\ loads' = LoadsOf(table')
    <2>0. late = NoLate \/ (late.id \in Id /\ late.load \in Nat)
      BY DEF Typed, FlowType
    <2>1. BacksOf(cleared)
      BY <1>2, <1>5, DropBacks
    <2>2. ~drift' => /\ ~drift /\ ~sweep.on /\ late = NoLate /\ late' = NoLate /\ Orphans(table) = {}
                     /\ Whole(table) /\ loads = LoadsOf(table)
      BY <1>0, <1>2 DEF Unsettled, Whole, LoadInv, LoadsSettle
    <2>3. CASE ~chosen
      <3>1. table' = cleared /\ loads' = freed /\ late' = late /\ UNCHANGED history
        BY <1>0, <2>3
      <3>2. Moves /\ Heard
        BY <1>5, <3>1 DEF Moves, Heard, Typed, FlowType, history
      <3>3. Backs'
        <4>1. BacksOf(table')
          BY <2>1, <3>1
        <4> QED BY <4>1 DEF Backs, BacksOf
      <3> QED BY <1>5, <1>6, <1>8, <2>0, <2>2, <3>1, <3>2, <3>3
    <2>4. CASE chosen
      <3>1. table' = NewPair(cleared, c, v) /\ adjust_active_flows(freed, i, 1) /\ Seen(c)
        BY <1>0, <2>4
      <3>2. i \in Id /\ v \in FlowValue /\ v.slot = i /\ v.seen = now /\ v.target \in Target /\ v # NoFlow
        BY <1>4, <2>4, ValueIs
      <3>3. /\ table' \in FlowTables
            /\ \A x \in Key : table'[x] = IF x \in {Forward(c), Backward(c, v.target)} THEN v ELSE cleared[x]
        BY <1>5, <3>1, <3>2, NewIs
      <3>4. Heard /\ packet'[c] = now
        BY <1>2, <3>1, <3>2, <3>3, HeardIs
      <3>5. Moves
        <4> SUFFICES ASSUME NEW x \in Key
                     PROVE  \/ table'[x] \in {NoFlow, table[x]}
                            \/ table'[x] # NoFlow /\ table'[x].seen = now /\ packet'[x[1]] = now
          BY <3>3 DEF Moves
        <4>1. x \in {Forward(c), Backward(c, v.target)} => x[1] = c
          BY <3>2, KeyIs
        <4> QED BY <1>5, <3>2, <3>3, <3>4, <4>1
      <3>6. Backs'
        <4>1. BacksOf(NewPair(cleared, c, v))
          BY <1>5, <2>1, <3>2, NewBacks
        <4>2. BacksOf(table')
          BY <3>1, <4>1
        <4> QED BY <4>2 DEF Backs, BacksOf
      <3>7. freed[i] \in Nat /\ Adjusted(freed[i], 1) \in Nat
        BY <1>6, <3>2 DEF Counters, Adjusted
      <3>8. loads' \in Counters /\ (late' = NoLate \/ (late'.id \in Id /\ late'.load \in Nat))
        <4>1. CASE loads' = [freed EXCEPT ![i] = Adjusted(@, 1)] /\ late' = late
          BY <1>6, <2>0, <3>2, <3>7, <4>1 DEF Counters
        <4>2. CASE loads' = freed /\ late' = [id |-> i, load |-> Adjusted(freed[i], 1)]
          BY <1>6, <3>2, <3>7, <4>2
        <4> QED BY <3>1, <4>1, <4>2 DEF adjust_active_flows
      <3>9. ~drift' => late' = NoLate /\ loads' = LoadsOf(table')
        <4> SUFFICES ASSUME ~drift' PROVE late' = NoLate /\ loads' = LoadsOf(table')
          OBVIOUS
        <4>1. Whole(cleared) /\ freed = LoadsOf(cleared) /\ late' = NoLate
          BY <1>8, <2>2
        <4>2. late' # [id |-> i, load |-> Adjusted(freed[i], 1)]
          BY <3>2, <4>1, Consts DEF NoLate
        <4>3. loads' = [freed EXCEPT ![i] = Adjusted(@, 1)]
          BY <3>1, <4>2 DEF adjust_active_flows
        <4>4. cleared[Forward(c)] = NoFlow
          BY <1>5
        <4>5. LoadsOf(NewPair(cleared, c, v)) = [LoadsOf(cleared) EXCEPT ![v.slot] = Adjusted(@, 1)]
          BY <3>2, <4>1, <4>4, AddWhole
        <4> QED BY <3>1, <3>2, <4>1, <4>3, <4>5
      <3> QED BY <3>3, <3>4, <3>5, <3>6, <3>8, <3>9
    <2> QED BY <2>3, <2>4
  <1>10. Typed'
    <2>1. MapType'
      BY <1>1, MapKept DEF Typed
    <2>2. drift' \in BOOLEAN
      BY <1>0 DEF Unsettled
    <2>3. FlowType'
      BY <1>1, <1>7, <1>9, <2>2 DEF FlowType, Typed, Heard
    <2> QED BY <1>1, <2>1, <2>3 DEF Typed, FileType
  <1>11. TimeInv' /\ Restorable'
    BY <1>1, <1>9, TimeKept
  <1>12. LoadInv'
    <2>1. CASE drift'
      BY <1>9, <2>1 DEF LoadInv, SweepCounts, LateKnown, LoadsSettle
    <2>2. CASE ~drift'
      <3>1. ~sweep'.on
        BY <1>0, <1>1, <2>2 DEF Unsettled
      <3> QED BY <1>9, <2>2, <3>1 DEF LoadInv, SweepCounts, LateKnown, LoadsSettle
    <2> QED BY <2>1, <2>2
  <1> QED BY <1>10, <1>11, <1>12

LEMMA FileKeeps ==
    ASSUME GoodFile(file'), UNCHANGED <<now, history, table>>
    PROVE  FileType' /\ Saved' /\ Restorable'
  BY DEF GoodFile, FileType, Saved, Restorable, history

LEMMA SaveKeeps == ASSUME DInv, Save PROVE DInv'
  <1> USE DEF DInv
  <1>0. UNCHANGED <<config, listener, slots, buckets>> /\ UNCHANGED <<now, boot, flows, sweeps>>
    BY DEF Save, maps
  <1>1. UNCHANGED <<table, loads, late, sweep, drift>> /\ UNCHANGED <<now, history, table>>
    BY <1>0 DEF flows, sweeps
  <1>2. GoodFile(file')
    <2>1. PICK pairs \in collect_snapshot_pairs : file' = write_snapshot(pairs)
      BY DEF Save
    <2>2. GoodFile(write_snapshot(pairs))
      BY SnapshotIs
    <2> QED BY <2>1, <2>2
  <1>3. FileType' /\ Saved' /\ Restorable'
    BY <1>1, <1>2, FileKeeps
  <1>4. Typed'
    BY <1>0, <1>3, MapKept, FlowKept DEF Typed
  <1>5. Aged'
    BY <1>1 DEF Aged, TimeInv, history
  <1>6. LoadInv'
    BY <1>1, LoadKept
  <1> QED BY <1>3, <1>4, <1>5, <1>6 DEF TimeInv

LEMMA GoneKeeps ==
    ASSUME DInv, MapsGone, GoodFile(file'), boot' \in {boot, now},
           UNCHANGED <<now, config, listener, slots, buckets, history>>
    PROVE  DInv'
  <1> USE DEF DInv
  <1>0. /\ table' = EmptyTable /\ loads' = NoLoads /\ late' = NoLate /\ sweep' = NoSweep /\ xsweep' = {}
        /\ cursor' = 0 /\ drift' = FALSE /\ UNCHANGED <<packet, ageless, told>>
    BY DEF MapsGone, history
  <1>2. ASSUME NEW p \in file'.pairs
        PROVE  table'[Forward(p.conn)] = NoFlow
    <2>1. p.conn \in Conn
      BY DEF GoodFile, Record
    <2> QED BY <1>0, <2>1, KeyIs, EmptyIs
  <1>3. FileType' /\ Saved' /\ Restorable'
    BY <1>0, <1>2 DEF GoodFile, FileType, Saved, Restorable
  <1>4. sweep'.on = FALSE /\ sweep'.gone = {} /\ sweep'.loads \in Counters /\ loads' \in Counters
    BY <1>0 DEF NoSweep, NoLoads, Counters
  <1>5. Typed'
    <2>1. MapType'
      BY MapKept DEF Typed
    <2>2. boot' \in Nat \ {0} /\ boot' <= now'
      BY DEF Typed, FlowType
    <2>3. FlowType'
      BY <1>0, <1>4, <2>2, EmptyIs DEF Typed, FlowType
    <2> QED BY <1>3, <2>1, <2>3 DEF Typed
  <1>6. Aged'
    BY <1>0, EmptyIs DEF TimeInv, Aged
  <1>7. LoadInv'
    <2>1. Backs'
      BY <1>0, EmptyIs, KeyIs DEF Backs
    <2>2. LoadsSettle'
      BY <1>0, EmptyIs DEF LoadsSettle
    <2> QED BY <1>0, <1>4, <2>1, <2>2 DEF LoadInv, SweepCounts, LateKnown
  <1> QED BY <1>3, <1>5, <1>6, <1>7 DEF TimeInv

LEMMA FileIs == ASSUME DInv PROVE GoodFile(file)
  BY DEF DInv, GoodFile, Typed, FileType, TimeInv, Saved, Restorable

LEMMA RestartKeeps == ASSUME DInv, Restart PROVE DInv'
  <1>1. GoodFile(file')
    <2>1. CASE file' = file
      BY <2>1, FileIs
    <2>2. CASE \E pairs \in collect_snapshot_pairs : file' = write_snapshot(pairs)
      <3>1. PICK pairs \in collect_snapshot_pairs : file' = write_snapshot(pairs)
        BY <2>2
      <3>2. GoodFile(write_snapshot(pairs))
        BY SnapshotIs DEF DInv
      <3> QED BY <3>1, <3>2
    <2> QED BY <2>1, <2>2 DEF Restart
  <1> QED BY <1>1, GoneKeeps DEF Restart

LEMMA ApplyKeeps == ASSUME DInv, apply PROVE DInv'
  <1>1. file' = file
    BY DEF apply
  <1>2. GoodFile(file')
    BY <1>1, FileIs
  <1> QED BY <1>2, GoneKeeps DEF apply

LEMMA RestoreKeeps == ASSUME DInv, restore_on_start PROVE DInv'
  <1> USE DEF DInv
  <1>0. /\ UNCHANGED <<config, listener, slots, buckets>> /\ UNCHANGED <<now, boot, cursor, late, sweep, xsweep, file, packet, told>>
        /\ table' = Restored /\ loads' = LoadsOf(Restored) /\ drift' = (sweep.on \/ late # NoLate)
        /\ ageless' = ageless \union Ageless(Restored)
    BY DEF restore_on_start, maps, sweeps, Restored, replace_active_flows
  <1>1. /\ table' \in FlowTables
        /\ \A k \in Key : table'[k] \in {NoFlow, table[k]} \/
             \E p \in file.pairs :
                /\ k \in {Forward(p.conn), Backward(p.conn, p.target)} /\ p \in Record
                /\ table'[k].target = p.target /\ Back(p, table'[k].seen)
    BY <1>0, RestoredIs
  <1>2. LoadsOf(Restored) \in Counters
    BY <1>0, <1>1, LoadType
  <1>a. ageless \subseteq ageless' /\ ageless' \subseteq Conn
    BY <1>0, <1>1, AgelessIs DEF Typed, FlowType
  <1>3. Typed'
    <2>1. MapType'
      BY <1>0, MapKept DEF Typed
    <2>2. drift' \in BOOLEAN
      BY <1>0
    <2>3. FlowType'
      BY <1>0, <1>1, <1>2, <1>a, <2>2 DEF FlowType, Typed
    <2> QED BY <1>0, <2>1, <2>3 DEF Typed, FileType
  <1>4. Aged'
    <2> SUFFICES ASSUME NEW k \in Key, table'[k] # NoFlow
                 PROVE  /\ table'[k].seen <= now
                        /\ k[1] \in ageless' \/ (table'[k].seen # 0 /\ table'[k].seen <= packet[k[1]])
      BY <1>0 DEF Aged, TimeInv
    <2>0. table'[k].seen = 0 => k[1] \in ageless'
      BY <1>0, <1>1, AgelessIs
    <2>1. CASE table'[k] = table[k]
      BY <1>a, <2>1 DEF Aged, TimeInv
    <2>2. CASE \E p \in file.pairs :
                /\ k \in {Forward(p.conn), Backward(p.conn, p.target)} /\ p \in Record
                /\ table'[k].target = p.target /\ Back(p, table'[k].seen)
      <3>1. PICK p \in file.pairs :
                /\ k \in {Forward(p.conn), Backward(p.conn, p.target)} /\ p \in Record
                /\ table'[k].target = p.target /\ Back(p, table'[k].seen)
        BY <2>2
      <3>2. p.conn \in Conn /\ p.target \in Target /\ p.age \in Nat /\ file.saved \in Nat /\ now \in Nat
        BY <3>1 DEF Record, Typed, FileType, FlowType
      <3>3. k[1] = p.conn
        BY <3>1, <3>2, KeyIs
      <3>4. /\ p.age <= file.saved /\ file.saved <= now
            /\ p.conn \in ageless \/ file.saved - p.age <= packet[p.conn]
        BY <3>1 DEF TimeInv, Saved
      <3>5. table'[k].seen \in {0, file.saved - p.age}
        BY <3>1 DEF Back
      <3>6. table'[k].seen <= now
        BY <3>2, <3>4, <3>5
      <3> QED BY <1>a, <2>0, <3>3, <3>4, <3>5, <3>6
    <2> QED BY <1>1, <2>1, <2>2
  <1>5. Saved'
    BY <1>0, <1>a DEF TimeInv, Saved
  <1>6. Restorable'
    <2> SUFFICES ASSUME NEW p \in file.pairs
                 PROVE  \/ table'[Forward(p.conn)] = NoFlow \/ table'[Forward(p.conn)].target = p.target
                        \/ table'[Forward(p.conn)].seen >= file.saved - p.age \/ p.conn \in told
      BY <1>0 DEF Restorable
    <2>0. p.conn \in Conn /\ Forward(p.conn) \in Key
      BY KeyIs DEF Typed, FileType, Record
    <2>1. CASE table'[Forward(p.conn)] \in {NoFlow, table[Forward(p.conn)]}
      BY <2>1 DEF Restorable
    <2>2. CASE \E q \in file.pairs :
                /\ Forward(p.conn) \in {Forward(q.conn), Backward(q.conn, q.target)} /\ q \in Record
                /\ table'[Forward(p.conn)].target = q.target
      <3>1. PICK q \in file.pairs :
                /\ Forward(p.conn) \in {Forward(q.conn), Backward(q.conn, q.target)} /\ q \in Record
                /\ table'[Forward(p.conn)].target = q.target
        BY <2>2
      <3>2. q.conn \in Conn /\ q.target \in Target
        BY <3>1 DEF Record
      <3>3. q.conn = p.conn
        BY <2>0, <3>1, <3>2, KeyIs
      <3>4. p = q
        BY <3>3 DEF Restorable
      <3> QED BY <3>1, <3>4
    <2> QED BY <1>1, <2>0, <2>1, <2>2
  <1>7. Backs'
    <2> SUFFICES ASSUME NEW c \in Conn, NEW u \in Target, table'[Backward(c, u)] # NoFlow
                 PROVE  table'[Backward(c, u)].target = u
      BY DEF Backs
    <2>0. Backward(c, u) \in Key
      BY KeyIs
    <2>1. CASE table'[Backward(c, u)] = table[Backward(c, u)]
      BY <2>1 DEF Backs, LoadInv
    <2>2. CASE \E p \in file.pairs :
                /\ Backward(c, u) \in {Forward(p.conn), Backward(p.conn, p.target)} /\ p \in Record
                /\ table'[Backward(c, u)].target = p.target
      <3>1. PICK p \in file.pairs :
                /\ Backward(c, u) \in {Forward(p.conn), Backward(p.conn, p.target)} /\ p \in Record
                /\ table'[Backward(c, u)].target = p.target
        BY <2>2
      <3>2. p.conn \in Conn /\ p.target \in Target
        BY <3>1 DEF Record
      <3>3. p.target = u
        BY <3>1, <3>2, KeyIs
      <3> QED BY <3>1, <3>3
    <2> QED BY <1>1, <2>0, <2>1, <2>2
  <1>8. LoadsSettle'
    BY <1>0 DEF LoadsSettle
  <1>9. SweepCounts' /\ LateKnown'
    BY <1>0 DEF SweepCounts, LateKnown
  <1> QED BY <1>3, <1>4, <1>5, <1>6, <1>7, <1>8, <1>9 DEF TimeInv, LoadInv

(* xSync's sweep, and the batches of the peer. *)
LEMMA XScanKeeps == ASSUME DInv, sweep_flows PROVE DInv'
  <1> USE DEF DInv
  <1>0. /\ UNCHANGED <<config, listener, slots, buckets>> /\ UNCHANGED <<now, boot, sweep, file>>
        /\ UNCHANGED <<cursor, table, loads, late, packet, ageless, told, drift>>
        /\ xsweep' = Present(table) \ LiveKeys(table, now)
    BY DEF sweep_flows, maps, flows, history
  <1>1. xsweep' \subseteq Key
    BY <1>0 DEF Present
  <1>2. Typed'
    <2>1. MapType'
      BY <1>0, MapKept DEF Typed
    <2>2. FlowType'
      BY <1>0, <1>1 DEF FlowType, Typed
    <2> QED BY <1>0, <2>1, <2>2 DEF Typed, FileType
  <1>3. TimeInv' /\ Restorable'
    BY <1>0, TableKept, TimeKept DEF history
  <1>4. LoadInv'
    BY <1>0, LoadKept
  <1> QED BY <1>2, <1>3, <1>4

(* A step that writes keys and no counter leaves the counters behind. *)
LEMMA BehindKeeps ==
    ASSUME Backs', drift' = TRUE
    PROVE  LoadInv'
  BY DEF LoadInv, SweepCounts, LateKnown, LoadsSettle

(* Keys go without a packet and without their counters. *)
LEMMA DropKeeps ==
    ASSUME DInv, NEW keys, table' = delete_flows(table, keys), drift' = TRUE \/ (drift' = drift /\ table' = table),
           xsweep' \in {xsweep, {}},
           UNCHANGED <<now, boot, config, listener, slots, buckets, cursor, loads, late, history, sweep, file>>
    PROVE  DInv'
  <1> USE DEF DInv
  <1>1. table \in FlowTables
    BY DEF Typed, FlowType
  <1>2. table' \in FlowTables /\ \A x \in Key : table'[x] \in {NoFlow, table[x]}
    <2>1. \A x \in Key : delete_flows(table, keys)[x] = IF x \in keys THEN NoFlow ELSE table[x]
      BY <1>1, DeleteIs
    <2> QED BY <1>1, <2>1, DeleteIs
  <1>3. Typed'
    <2>1. MapType'
      BY MapKept DEF Typed
    <2>2. drift' \in BOOLEAN /\ xsweep' \subseteq Key
      BY DEF Typed, FlowType
    <2>3. FlowType'
      BY <1>2, <2>2 DEF FlowType, Typed, history
    <2> QED BY <2>1, <2>3 DEF Typed, FileType
  <1>4. TimeInv' /\ Restorable'
    <2>1. Moves
      BY <1>2 DEF Moves
    <2>2. Heard
      BY DEF Heard, Typed, FlowType, history
    <2> QED BY <2>1, <2>2, TimeKept
  <1>5. Backs'
    <2>1. BacksOf(table) => BacksOf(table')
      BY <1>2, DropBacks
    <2> QED BY <2>1 DEF LoadInv, Backs, BacksOf
  <1>6. CASE drift' = TRUE
    BY <1>3, <1>4, <1>5, <1>6, BehindKeeps
  <1>7. CASE drift' = drift /\ table' = table
    <2>1. LoadInv'
      BY <1>7, LoadKept
    <2> QED BY <1>3, <1>4, <2>1
  <1> QED BY <1>6, <1>7

LEMMA XFinishKeeps == ASSUME DInv, sweep_flows_finish PROVE DInv'
  <1>1. drift \in BOOLEAN
    BY DEF DInv, Typed, FlowType
  <1>2. drift' = TRUE \/ (drift' = drift /\ table' = table)
    BY <1>1 DEF sweep_flows_finish
  <1> QED BY <1>2, DropKeeps DEF sweep_flows_finish, maps

LEMMA RemoteDeleteKeeps ==
    ASSUME DInv, NEW c \in Conn, NEW t \in Target, replicated_delete(c, t)
    PROVE  DInv'
  <1>1. PICK keys \in KeysOf(c, t) : table' = delete_flows(table, keys)
    BY DEF replicated_delete
  <1> QED BY <1>1, DropKeeps DEF replicated_delete, maps, sweeps

(* What the peer's entries leave in the table. *)
LEMMA ToldIs ==
    ASSUME NEW t \in FlowTables, NEW c \in Conn, NEW u \in Target, NEW keys \in KeysOf(c, u), NEW v \in FlowValue,
           v.target = u
    PROVE  LET w == upsert_flows(t, [k \in Key |-> IF k \in keys THEN v ELSE NoFlow])
           IN  /\ w \in FlowTables
               /\ \A k \in Key : w[k] = t[k] \/ (w[k] = v /\ k \in {Forward(c), Backward(c, u)} /\ k[1] = c)
  <1> DEFINE e == [k \in Key |-> IF k \in keys THEN v ELSE NoFlow]
             w == upsert_flows(t, e)
  <1>1. \A k \in Key : e[k] = IF k \in keys THEN v ELSE NoFlow
    OBVIOUS
  <1> HIDE DEF e
  <1>2. w = [k \in Key |-> IF e[k] # NoFlow /\ flow_apply_applies(t[k], e[k]) THEN e[k] ELSE t[k]]
    BY DEF upsert_flows
  <1> HIDE DEF w
  <1>3. \A k \in Key : w[k] = t[k] \/ (w[k] = v /\ k \in keys)
    BY <1>1, <1>2
  <1>4. \A k \in keys : k \in {Forward(c), Backward(c, u)} /\ k[1] = c
    BY KeyIs DEF KeysOf
  <1>5. w \in FlowTables
    <2>1. \A k \in Key : (IF e[k] # NoFlow /\ flow_apply_applies(t[k], e[k]) THEN e[k] ELSE t[k])
                            \in FlowValue \union {NoFlow}
      BY <1>1 DEF FlowTables
    <2> QED BY <1>2, <2>1 DEF FlowTables
  <1> QED BY <1>3, <1>4, <1>5 DEF w, e

LEMMA UpsertKeeps ==
    ASSUME DInv, NEW c \in Conn, NEW u \in Target, replicated_upsert(c, u)
    PROVE  DInv'
  <1> USE DEF DInv
  <1>0. /\ UNCHANGED <<config, listener, slots, buckets>>
        /\ UNCHANGED <<now, boot, cursor, loads, late, sweep, xsweep, file>>
        /\ told' = told \union {c} /\ ageless' = ageless \union Ageless(table') /\ drift' = TRUE
    BY DEF replicated_upsert, maps, sweeps
  <1>1. /\ now \in Nat /\ boot \in Nat \ {0} /\ table \in FlowTables /\ packet \in [Conn -> Nat] /\ Aged /\ Saved
        /\ file.saved \in Nat /\ file.pairs \subseteq Record /\ ageless \subseteq Conn /\ told \subseteq Conn
    BY DEF Typed, FlowType, FileType, TimeInv
  <1>2. PICK keys \in KeysOf(c, u), i \in Id, n \in {0} \union boot..now :
          /\ table' = upsert_flows(table, [k \in Key |->
                         IF k \in keys THEN [target |-> u, slot |-> i, seen |-> n] ELSE NoFlow])
          /\ packet' = [packet EXCEPT ![c] = Max({@, n})]
    BY DEF replicated_upsert
  <1> DEFINE v == [target |-> u, slot |-> i, seen |-> n]
  <1>3. n \in Nat /\ n <= now
    BY <1>1
  <1>4. v \in FlowValue /\ v.target = u /\ v.seen = n
    BY <1>3 DEF FlowValue
  <1>v. table' = upsert_flows(table, [k \in Key |-> IF k \in keys THEN v ELSE NoFlow])
    BY <1>2
  <1> HIDE DEF v
  <1>5. /\ table' \in FlowTables
        /\ \A k \in Key : table'[k] = table[k] \/ (table'[k] = v /\ k \in {Forward(c), Backward(c, u)} /\ k[1] = c)
    BY <1>1, <1>4, <1>v, ToldIs
  <1>6. packet[c] \in Nat /\ packet[c] <= now
    BY <1>1 DEF Aged
  <1>7. Max({packet[c], n}) \in Nat /\ Max({packet[c], n}) <= now /\ packet[c] <= Max({packet[c], n})
        /\ n <= Max({packet[c], n})
    <2>1. Max({packet[c], n}) \in {packet[c], n} /\ Max({packet[c], n}) >= packet[c] /\ Max({packet[c], n}) >= n
      BY <1>3, <1>6, Pairwise
    <2> QED BY <1>1, <1>3, <1>6, <2>1
  <1>8. /\ packet' \in [Conn -> Nat] /\ packet'[c] = Max({packet[c], n})
        /\ \A d \in Conn : d # c => packet'[d] = packet[d]
    BY <1>1, <1>2, <1>7
  <1>9. ASSUME NEW d \in Conn
        PROVE  packet[d] \in Nat /\ packet'[d] \in Nat /\ packet[d] <= packet'[d] /\ packet'[d] <= now
    <2>1. packet[d] \in Nat /\ packet[d] <= now
      BY <1>1 DEF Aged
    <2>2. CASE d = c
      BY <1>7, <1>8, <2>1, <2>2
    <2>3. CASE d # c
      BY <1>8, <2>1, <2>3
    <2> QED BY <2>2, <2>3
  <1>10. ageless \subseteq ageless' /\ ageless' \subseteq Conn /\ told \subseteq told' /\ told' \subseteq Conn /\ c \in told'
    BY <1>0, <1>1, <1>5, AgelessIs
  <1>11. Typed'
    <2>1. MapType'
      BY <1>0, MapKept DEF Typed
    <2>2. FlowType'
      BY <1>0, <1>5, <1>8, <1>10 DEF FlowType, Typed
    <2> QED BY <1>0, <2>1, <2>2 DEF Typed, FileType
  <1>12. Aged'
    <2>1. ASSUME NEW k \in Key, table'[k] # NoFlow
          PROVE  /\ table'[k].seen <= now
                 /\ k[1] \in ageless' \/ (table'[k].seen # 0 /\ table'[k].seen <= packet'[k[1]])
      <3>0. k[1] \in Conn /\ table'[k].seen \in Nat
        BY <1>5, <2>1, EntryIs
      <3>1. table'[k].seen = 0 => k[1] \in ageless'
        BY <1>0, <1>5, <2>1, AgelessIs
      <3>2. CASE table'[k] = table[k]
        <4>1. table[k].seen <= now /\ (k[1] \in ageless \/ (table[k].seen # 0 /\ table[k].seen <= packet[k[1]]))
          BY <1>1, <2>1, <3>2 DEF Aged
        <4>2. packet[k[1]] \in Nat /\ packet'[k[1]] \in Nat /\ packet[k[1]] <= packet'[k[1]]
          BY <1>9, <3>0
        <4> QED BY <1>10, <3>0, <3>2, <4>1, <4>2
      <3>3. CASE table'[k] = v /\ k[1] = c
        BY <1>3, <1>4, <1>7, <1>8, <3>1, <3>3
      <3> QED BY <1>5, <3>2, <3>3
    <2> QED BY <1>0, <1>9, <2>1 DEF Aged
  <1>13. Saved'
    <2>1. ASSUME NEW p \in file.pairs
          PROVE  p.age <= file.saved /\ (p.conn \in ageless' \/ file.saved - p.age <= packet'[p.conn])
      <3>1. p.conn \in Conn /\ p.age \in Nat
        BY <1>1 DEF Record
      <3>2. p.age <= file.saved /\ (p.conn \in ageless \/ file.saved - p.age <= packet[p.conn])
        BY <1>1 DEF Saved
      <3>3. packet[p.conn] \in Nat /\ packet'[p.conn] \in Nat /\ packet[p.conn] <= packet'[p.conn]
        BY <1>9, <3>1
      <3> QED BY <1>1, <1>10, <3>1, <3>2, <3>3
    <2> QED BY <1>0, <1>1, <2>1 DEF Saved
  <1>14. Restorable'
    <2>1. ASSUME NEW p \in file.pairs
          PROVE  \/ table'[Forward(p.conn)] = NoFlow \/ table'[Forward(p.conn)].target = p.target
                 \/ table'[Forward(p.conn)].seen >= file.saved - p.age \/ p.conn \in told'
      <3>1. p.conn \in Conn /\ Forward(p.conn) \in Key /\ Forward(p.conn)[1] = p.conn
        BY <1>1, KeyIs DEF Record
      <3>2. CASE p.conn = c
        BY <1>10, <3>2
      <3>3. CASE p.conn # c
        <4>1. table'[Forward(p.conn)] = table[Forward(p.conn)]
          BY <1>5, <3>1, <3>3
        <4> QED BY <1>10, <4>1 DEF Restorable
      <3> QED BY <3>2, <3>3
    <2> QED BY <1>0, <2>1 DEF Restorable
  <1>15. Backs'
    <2>1. ASSUME NEW d \in Conn, NEW x \in Target, table'[Backward(d, x)] # NoFlow
          PROVE  table'[Backward(d, x)].target = x
      <3>0. Backward(d, x) \in Key
        BY KeyIs
      <3>1. CASE table'[Backward(d, x)] = table[Backward(d, x)]
        BY <2>1, <3>1 DEF Backs, LoadInv
      <3>2. CASE table'[Backward(d, x)] = v /\ Backward(d, x) \in {Forward(c), Backward(c, u)}
        <4>1. x = u
          BY <3>2, KeyIs
        <4> QED BY <1>4, <3>2, <4>1
      <3> QED BY <1>5, <3>0, <3>1, <3>2
    <2> QED BY <2>1 DEF Backs
  <1> QED BY <1>0, <1>11, <1>12, <1>13, <1>14, <1>15, BehindKeeps DEF TimeInv

-----------------------------------------------------------------------------
LEMMA StepKeeps == ASSUME DInv, [Next]_vars PROVE DInv'
  <1>1. CASE Tick
    BY <1>1, TickKeeps
  <1>2. CASE LateWrite
    BY <1>2, LateWriteKeeps
  <1>3. CASE sweep_flows_and_refresh_loads
    BY <1>3, SweepKeeps
  <1>4. CASE sweep_finish
    BY <1>4, FinishKeeps
  <1>5. CASE \E c \in Conn : IngressHit(c) \/ IngressNew(c) \/ \E t \in Target : Return(c, t)
    BY <1>5, HitKeeps, NewKeeps, ReturnKeeps
  <1>6. CASE Change
    BY <1>6, ChangeKeeps
  <1>7. CASE sync_listener_map \/ sync_target_map \/ sync_consistent_hash_bucket_map
    BY <1>7, SyncKeeps
  <1>8. CASE Save
    BY <1>8, SaveKeeps
  <1>9. CASE Restart
    BY <1>9, RestartKeeps
  <1>10. CASE attach_prepared
    BY <1>10, AttachKeeps
  <1>11. CASE restore_on_start
    BY <1>11, RestoreKeeps
  <1>12. CASE UNCHANGED vars
    BY <1>12, StutterKeeps
  <1>13. CASE sweep_flows
    BY <1>13, XScanKeeps
  <1>14. CASE sweep_flows_finish
    BY <1>14, XFinishKeeps
  <1>15. CASE \E c \in Conn, t \in Target : replicated_upsert(c, t) \/ replicated_delete(c, t)
    BY <1>15, UpsertKeeps, RemoteDeleteKeeps
  <1>16. CASE apply
    BY <1>16, ApplyKeeps
  <1> QED BY <1>1, <1>2, <1>3, <1>4, <1>5, <1>6, <1>7, <1>8, <1>9, <1>10, <1>11, <1>12, <1>13, <1>14, <1>15, <1>16
          DEF Next

(* The invariant of the listener's maps, its flow table, its counters and its
   snapshot (edge-lb-ebpf/src/main.rs, linux/native_dnat.rs,
   provider/native/flow_persistence.rs). *)
THEOREM DatapathInv == Spec => []DInv
  <1>1. Init => DInv
    BY InitHolds
  <1>2. DInv /\ [Next]_vars => DInv'
    BY StepKeeps
  <1> QED BY <1>1, <1>2, PTL DEF Spec

(* No flow outlives the timeout after its last packet, here or told by the peer,
   unless it got a last-seen of 0: neither a sweep, nor a reboot, nor the restore
   of a snapshot, nor a replicated entry makes one younger than that packet. *)
THEOREM DatapathTimeout == Spec => []NoFlowOutlivesTimeout
  <1>1. DInv => NoFlowOutlivesTimeout
    <2> SUFFICES ASSUME DInv, NEW k \in LiveKeys(table, now), k[1] \notin ageless
                 PROVE  now - packet[k[1]] <= Timeout
      BY DEF NoFlowOutlivesTimeout
    <2>1. k \in Key /\ table[k] # NoFlow /\ (table[k].seen = 0 \/ ~(now - table[k].seen > Timeout))
      BY DEF LiveKeys, Present, flow_expired
    <2>2. now \in Nat /\ table \in FlowTables /\ packet \in [Conn -> Nat] /\ Aged
      BY DEF DInv, Typed, FlowType, TimeInv
    <2>3. table[k].seen \in Nat /\ k[1] \in Conn
      BY <2>1, <2>2, EntryIs
    <2>4. packet[k[1]] \in Nat /\ table[k].seen # 0 /\ table[k].seen <= packet[k[1]]
      BY <2>1, <2>2, <2>3 DEF Aged
    <2> QED BY <2>1, <2>2, <2>3, <2>4, Consts
  <1> QED BY <1>1, DatapathInv, PTL

(* The counters of active flows are the flows of the table unless something left
   them behind since the last refreshing sweep: adjust_active_flows, that sweep
   and the restore agree, and after the sweep they are exact again. *)
THEOREM DatapathLoads == Spec => []LoadsSettle
  <1>1. DInv => LoadsSettle
    BY DEF DInv, LoadInv
  <1> QED BY <1>1, DatapathInv, PTL

(* A live flow with whole pairs that the peer has not written since its last
   packet keeps its target in every step: packets, replies, sweeps, changes of the
   listener, restarts, restores, and batches for other connections. *)
THEOREM DatapathTargets == Spec => FlowKeepsTarget
  <1>1. DInv /\ [Next]_vars => [KeepsTarget]_vars
    <2> SUFFICES ASSUME DInv, Next PROVE KeepsTarget
      OBVIOUS
    <2> SUFFICES ASSUME NEW c \in Conn, Forward(c) \in LiveKeys(table, now),
                        Forward(c) \in LiveKeys(table', now'), c \notin told', \A x \in Orphans(table) : x[1] # c
                 PROVE  table'[Forward(c)].target = table[Forward(c)].target
      BY DEF KeepsTarget
    <2> DEFINE k == Forward(c)
    <2>0. /\ k \in Key /\ k[1] = c /\ table[k] # NoFlow /\ table'[k] # NoFlow
          /\ table \in FlowTables /\ now \in Nat /\ Typed /\ TimeInv /\ BacksOf(table)
      BY KeyIs, BacksIs DEF LiveKeys, Present, DInv, Typed, FlowType, LoadInv
    <2>1. CASE UNCHANGED table
      BY <2>1
    <2>2. CASE sweep_finish
      <3>1. table'[k] = IF k \in sweep.gone THEN NoFlow ELSE table[k]
        BY <2>0, <2>2, DeleteIs DEF sweep_finish
      <3> QED BY <2>0, <3>1
    <2>3. ASSUME NEW d \in Conn, IngressHit(d)
          PROVE  table'[k].target = table[k].target
      <3>1. Forward(d) \in Key /\ Forward(d)[1] = d /\ table[Forward(d)] # NoFlow
        BY <2>3, KeyIs DEF IngressHit, LiveKeys, Present
      <3>2. table' = Refresh(table, Forward(d), now) /\ table[Forward(d)].target \in Target
        BY <2>0, <2>3, <3>1, EntryIs DEF IngressHit
      <3>3. CASE c = d
        BY <2>0, <3>1, <3>2, <3>3, RefreshIs
      <3>4. CASE c # d
        <4>1. k \notin {Forward(d), Backward(d, table[Forward(d)].target)}
          BY <3>2, <3>4, KeyIs
        <4> QED BY <2>0, <3>1, <3>2, <4>1, RefreshIs
      <3> QED BY <3>3, <3>4
    <2>4. ASSUME NEW d \in Conn, IngressNew(d)
          PROVE  table'[k].target = table[k].target
      <3> DEFINE old == table[Forward(d)]
                 cleared == IF old = NoFlow THEN table ELSE RemovePair(table, Forward(d))
                 i == select_target(select, HashOf[d], cursor)
                 v == [target |-> slots[i].address, slot |-> i, seen |-> now]
      <3>1. c # d
        BY <2>4 DEF IngressNew
      <3>2. Forward(d) \in Key /\ Forward(d)[1] = d /\ k # Forward(d)
        BY <3>1, KeyIs
      <3>3. cleared[k] = table[k]
        <4>1. CASE old = NoFlow
          BY <4>1
        <4>2. CASE old # NoFlow
          <5>1. old.target \in Target
            BY <2>0, <3>2, <4>2, EntryIs
          <5>2. k \notin {Forward(d), Backward(d, old.target)}
            BY <3>2, <5>1, KeyIs
          <5> QED BY <2>0, <3>2, <4>2, <5>2, RemoveIs
        <4> QED BY <4>1, <4>2
      <3>4. CASE i # NoSlot /\ target_slot_is_usable(i)
        <4>1. table' = NewPair(cleared, d, v)
          BY <2>4, <3>4 DEF IngressNew
        <4>2. MapType /\ HashOf[d] \in Nat /\ cursor \in Nat
          BY <2>0, DatapathAssumption DEF Typed, FlowType
        <4>3. i \in Id
          BY <3>4, <4>2, SelectIs
        <4>4. slots[i].address \in Target
          BY <3>4, <4>2, <4>3 DEF MapType, target_slot_is_usable
        <4>5. v.target = slots[i].address
          OBVIOUS
        <4> HIDE DEF v, cleared, i
        <4>6. k \notin {Forward(d), Backward(d, v.target)}
          BY <3>2, <4>4, <4>5, KeyIs
        <4>7. table'[k] = cleared[k]
          BY <2>0, <4>1, <4>6 DEF NewPair
        <4> QED BY <3>3, <4>7
      <3>5. CASE ~(i # NoSlot /\ target_slot_is_usable(i))
        <4>1. table' = cleared
          BY <2>4, <3>5 DEF IngressNew
        <4> QED BY <3>3, <4>1
      <3> QED BY <3>4, <3>5
    <2>5. ASSUME NEW d \in Conn, NEW t \in Target, Return(d, t)
          PROVE  table'[k].target = table[k].target
      <3> DEFINE b == Backward(d, t)
      <3>1. b \in Key /\ b[1] = d /\ table[b] # NoFlow
        BY <2>5, KeyIs DEF Return
      <3>2. table[b].target \in Target
        BY <2>0, <3>1, EntryIs
      <3>3. CASE c # d
        <4>1. k \notin {Forward(d), Backward(d, table[b].target)}
          BY <3>2, <3>3, KeyIs
        <4>2. CASE table' = RemovePair(table, b)
          <5> HIDE DEF b
          <5> QED BY <2>0, <3>1, <4>1, <4>2, RemoveIs
        <4>3. CASE table' = Refresh(table, b, now)
          <5> HIDE DEF b
          <5> QED BY <2>0, <3>1, <4>1, <4>3, RefreshIs
        <4> QED BY <2>5, <4>2, <4>3 DEF Return
      <3>4. CASE c = d
        <4>1. b \notin Orphans(table) /\ b \in Present(table) /\ k \in PairOf(b, table[b])
          BY <2>0, <3>1, <3>4 DEF Present, PairOf
        <4>2. table[k].target = table[b].target
          BY <4>1 DEF Orphans
        <4>3. CASE table' = RemovePair(table, b)
          <5>1. table'[Forward(d)] = NoFlow
            <6> HIDE DEF b
            <6> QED BY <2>0, <3>1, <3>4, <4>3, RemoveIs
          <5> QED BY <2>0, <3>4, <5>1
        <4>4. CASE table' = Refresh(table, b, now)
          <5>1. table'[Forward(d)].target = table[b].target
            <6> HIDE DEF b
            <6> QED BY <2>0, <3>1, <3>4, <4>4, RefreshIs
          <5> QED BY <3>4, <4>2, <5>1
        <4> QED BY <2>5, <4>3, <4>4 DEF Return
      <3> QED BY <3>3, <3>4
    <2>6. CASE Restart \/ apply
      BY <2>0, <2>6, EmptyIs DEF Restart, apply, MapsGone
    <2>7. CASE restore_on_start
      <3>0. table' = Restored
        BY <2>7 DEF restore_on_start, Restored
      <3>1. CASE table'[k] = table[k]
        BY <3>1
      <3>2. CASE \E p \in file.pairs :
                   /\ k \in {Forward(p.conn), Backward(p.conn, p.target)} /\ p \in Record
                   /\ table'[k].target = p.target /\ Back(p, table'[k].seen)
                   /\ table[k] = NoFlow \/ table[k].seen < table'[k].seen
        <4>1. PICK p \in file.pairs :
                   /\ k \in {Forward(p.conn), Backward(p.conn, p.target)} /\ p \in Record
                   /\ table'[k].target = p.target /\ Back(p, table'[k].seen)
                   /\ table[k] = NoFlow \/ table[k].seen < table'[k].seen
          BY <3>2
        <4>2. p.conn \in Conn /\ p.target \in Target /\ p.age \in Nat /\ file.saved \in Nat
          BY <2>0, <4>1 DEF Record, Typed, FileType
        <4>3. p.conn = c
          BY <4>1, <4>2, KeyIs
        <4>4. table[k].seen \in Nat
          BY <2>0, EntryIs
        <4>5. ~(table[k].seen >= file.saved - p.age)
          BY <2>0, <4>1, <4>2, <4>4 DEF Back
        <4>6. table[k].target = p.target
          <5>1. told' = told
            BY <2>7 DEF restore_on_start
          <5> QED BY <2>0, <4>3, <4>5, <5>1 DEF DInv, Restorable
        <4> QED BY <4>1, <4>6
      <3> QED BY <2>0, <3>0, <3>1, <3>2, RestoredIs
    <2>8. ASSUME NEW d \in Conn, NEW t \in Target, replicated_upsert(d, t)
          PROVE  table'[k].target = table[k].target
      <3>1. c # d
        BY <2>8 DEF replicated_upsert
      <3>2. PICK keys \in KeysOf(d, t), i \in Id, n \in {0} \union boot..now :
              table' = upsert_flows(table, [x \in Key |->
                         IF x \in keys THEN [target |-> t, slot |-> i, seen |-> n] ELSE NoFlow])
        BY <2>8 DEF replicated_upsert
      <3>3. k \notin keys
        BY <2>0, <3>1, KeyIs DEF KeysOf
      <3> QED BY <2>0, <3>2, <3>3 DEF upsert_flows
    <2>9. ASSUME NEW keys, table' = delete_flows(table, keys)
          PROVE  table'[k].target = table[k].target
      <3>1. table'[k] = IF k \in keys THEN NoFlow ELSE table[k]
        BY <2>0, <2>9, DeleteIs
      <3> QED BY <2>0, <3>1
    <2>10. ASSUME NEW d \in Conn, NEW t \in Target, replicated_delete(d, t)
           PROVE  table'[k].target = table[k].target
      BY <2>9, <2>10 DEF replicated_delete
    <2>11. CASE sweep_flows_finish
      BY <2>9, <2>11 DEF sweep_flows_finish
    <2>12. UNCHANGED table \/ sweep_finish \/ sweep_flows_finish \/ Restart \/ apply \/ restore_on_start
           \/ (\E d \in Conn : IngressHit(d) \/ IngressNew(d) \/ \E t \in Target : Return(d, t))
           \/ \E d \in Conn, t \in Target : replicated_upsert(d, t) \/ replicated_delete(d, t)
      <3> USE DEF flows
      <3>1. Tick \/ LateWrite \/ sweep_flows_and_refresh_loads \/ sweep_flows \/ Change \/ Save => UNCHANGED table
        BY DEF Tick, LateWrite, sweep_flows_and_refresh_loads, sweep_flows, Change, Save
      <3>2. sync_listener_map \/ sync_target_map \/ sync_consistent_hash_bucket_map \/ attach_prepared
               => UNCHANGED table
        BY DEF sync_listener_map, sync_target_map, sync_consistent_hash_bucket_map, attach_prepared
      <3> QED BY <3>1, <3>2 DEF Next
    <2> QED BY <2>1, <2>2, <2>3, <2>4, <2>5, <2>6, <2>7, <2>8, <2>10, <2>11, <2>12
  <1> QED BY <1>1, DatapathInv, PTL DEF Spec, FlowKeepsTarget

-----------------------------------------------------------------------------
(* Remainders, and the sums of weights. *)

LEMMA Division ==
    ASSUME NEW a \in Nat, NEW b \in Nat \ {0}
    PROVE  a = b * (a \div b) + (a % b) /\ a % b \in Nat /\ a % b < b /\ a \div b \in Nat
  OBVIOUS

LEMMA Remainder ==
    ASSUME NEW q \in Nat, NEW b \in Nat \ {0}, NEW j \in Nat, j < b
    PROVE  (b * q + j) % b = j
  OBVIOUS

(* A rotation reaches every slot. *)
LEMMA Rotation ==
    ASSUME NEW a \in Nat, NEW b \in Nat \ {0}, NEW i \in Nat, i < b
    PROVE  \E o \in 0..b - 1 : (a + o) % b = i
  <1> DEFINE r == a % b
             q == a \div b
  <1>1. a = b * q + r /\ r \in Nat /\ r < b /\ q \in Nat
    BY Division
  <1> HIDE DEF r, q
  <1>2. b * q \in Nat /\ b * (q + 1) = b * q + b /\ q + 1 \in Nat
    BY <1>1
  <1>3. CASE i >= r
    <2>1. i - r \in 0..b - 1 /\ a + (i - r) = b * q + i
      BY <1>1, <1>2, <1>3
    <2>2. (b * q + i) % b = i
      BY <1>1, Remainder
    <2> QED BY <2>1, <2>2
  <1>4. CASE i < r
    <2>1. b + i - r \in 0..b - 1 /\ a + (b + i - r) = b * (q + 1) + i
      BY <1>1, <1>2, <1>4
    <2>2. (b * (q + 1) + i) % b = i
      BY <1>2, Remainder
    <2> QED BY <2>1, <2>2
  <1> QED BY <1>1, <1>3, <1>4

(* The cumulated weights exist for any number of targets: a smallest number
   without them could be reached from the one before it. *)
LEMMA SumsExist ==
    ASSUME NEW w \in [Id -> Nat]
    PROVE  \E f \in [0..NoSlot -> Nat] :
              \A n \in 0..NoSlot : f[n] = IF n = 0 THEN 0 ELSE f[n - 1] + w[n - 1]
  <1> DEFINE Sums(m) == \E f \in [0..m -> Nat] :
                           \A n \in 0..m : f[n] = IF n = 0 THEN 0 ELSE f[n - 1] + w[n - 1]
             T == {m \in 0..NoSlot : ~Sums(m)}
  <1>1. NoSlot \in Nat /\ Id = 0..NoSlot - 1
    BY Consts
  <1>2. Sums(0)
    <2> DEFINE f == [n \in 0..0 |-> 0]
    <2>1. f \in [0..0 -> Nat] /\ \A n \in 0..0 : f[n] = IF n = 0 THEN 0 ELSE f[n - 1] + w[n - 1]
      OBVIOUS
    <2> QED BY <2>1
  <1>3. ASSUME NEW m \in 0..NoSlot, m # 0, Sums(m - 1) PROVE Sums(m)
    <2>1. PICK f \in [0..m - 1 -> Nat] :
             \A n \in 0..m - 1 : f[n] = IF n = 0 THEN 0 ELSE f[n - 1] + w[n - 1]
      BY <1>3
    <2>2. m \in Nat /\ m - 1 \in 0..m - 1 /\ m - 1 \in Id
      BY <1>1, <1>3
    <2>3. f[m - 1] + w[m - 1] \in Nat
      BY <2>2
    <2> DEFINE g == [n \in 0..m |-> IF n = m THEN f[m - 1] + w[m - 1] ELSE f[n]]
    <2>4. \A n \in 0..m : n # m => n \in 0..m - 1
      BY <2>2
    <2>5. g \in [0..m -> Nat]
      BY <2>3, <2>4
    <2>6. ASSUME NEW n \in 0..m PROVE g[n] = IF n = 0 THEN 0 ELSE g[n - 1] + w[n - 1]
      <3>1. CASE n = m
        <4>1. g[m] = f[m - 1] + w[m - 1] /\ g[m - 1] = f[m - 1]
          BY <2>2
        <4> QED BY <1>3, <3>1, <4>1
      <3>2. CASE n # m
        <4>1. n \in 0..m - 1 /\ g[n] = f[n]
          BY <2>4, <3>2
        <4>2. n # 0 => n - 1 \in 0..m /\ n - 1 # m
          BY <2>2, <4>1
        <4>3. n # 0 => g[n - 1] = f[n - 1]
          BY <4>2
        <4> QED BY <2>1, <4>1, <4>3
      <3> QED BY <3>1, <3>2
    <2> HIDE DEF g
    <2> QED BY <2>5, <2>6
  <1> HIDE DEF Sums
  <1>4. ASSUME T # {} PROVE FALSE
    <2>1. T \in SUBSET Nat
      BY <1>1
    <2>2. PICK m \in T : \A y \in T : m <= y
      BY <1>4, <2>1, Least
    <2>3. m \in 0..NoSlot /\ ~Sums(m) /\ m # 0
      BY <1>2
    <2>4. m - 1 \in 0..NoSlot /\ ~(m <= m - 1)
      BY <1>1, <2>3
    <2>5. Sums(m - 1)
      BY <2>2, <2>4
    <2> QED BY <1>3, <2>3, <2>5
  <1>5. Sums(NoSlot)
    BY <1>1, <1>4
  <1> QED BY <1>5 DEF Sums

LEMMA CumulatedIs ==
    ASSUME NEW w \in [Id -> Nat]
    PROVE  /\ Cumulated(w)[0] = 0
           /\ \A n \in 0..NoSlot : Cumulated(w)[n] \in Nat
           /\ \A n \in Id : Cumulated(w)[n + 1] = Cumulated(w)[n] + w[n]
  <1> DEFINE Eq(f) == f = [n \in 0..NoSlot |-> IF n = 0 THEN 0 ELSE f[n - 1] + w[n - 1]]
             C == CHOOSE f : Eq(f)
             T == {n \in 0..NoSlot : C[n] \notin Nat}
  <1>0. NoSlot \in Nat /\ Id = 0..NoSlot - 1
    BY Consts
  <1>1. \E f : Eq(f)
    <2>1. PICK f \in [0..NoSlot -> Nat] :
             \A n \in 0..NoSlot : f[n] = IF n = 0 THEN 0 ELSE f[n - 1] + w[n - 1]
      BY SumsExist
    <2>2. Eq(f)
      BY <2>1
    <2> QED BY <2>2
  <1>2. Cumulated(w) = C
    BY DEF Cumulated
  <1>3. Eq(C)
    BY <1>1
  <1> HIDE DEF C
  <1>4. \A n \in 0..NoSlot : C[n] = IF n = 0 THEN 0 ELSE C[n - 1] + w[n - 1]
    BY <1>3
  <1> HIDE DEF Eq
  <1>5. C[0] = 0
    BY <1>0, <1>4
  <1>6. ASSUME T # {} PROVE FALSE
    <2>1. T \in SUBSET Nat
      BY <1>0
    <2>2. PICK m \in T : \A y \in T : m <= y
      BY <1>6, <2>1, Least
    <2>3. m \in 0..NoSlot /\ C[m] \notin Nat /\ m # 0
      BY <1>5
    <2>4. m - 1 \in 0..NoSlot /\ ~(m <= m - 1) /\ m - 1 \in Id
      BY <1>0, <2>3
    <2>5. C[m - 1] \in Nat /\ w[m - 1] \in Nat
      BY <2>2, <2>4
    <2>6. C[m] = C[m - 1] + w[m - 1]
      BY <1>4, <2>3
    <2> QED BY <2>3, <2>5, <2>6
  <1>7. ASSUME NEW n \in Id PROVE C[n + 1] = C[n] + w[n]
    <2>1. n + 1 \in 0..NoSlot /\ n + 1 # 0 /\ (n + 1) - 1 = n
      BY <1>0
    <2> QED BY <1>4, <2>1
  <1> QED BY <1>2, <1>5, <1>6, <1>7

(* Below the sum of the first m weights every number lies in one interval. *)
LEMMA Intervals ==
    ASSUME NEW w \in [Id -> Nat], NEW m \in 0..NoSlot, NEW x \in Nat, x < Cumulated(w)[m]
    PROVE  \E i \in Id : i < m /\ x >= Cumulated(w)[i] /\ x < Cumulated(w)[i] + w[i]
  <1> DEFINE C == Cumulated(w)
             T == {n \in 0..m : x < C[n]}
  <1>0. NoSlot \in Nat /\ Id = 0..NoSlot - 1 /\ m \in Nat /\ m <= NoSlot
    BY Consts
  <1>1. /\ C[0] = 0 /\ \A n \in 0..NoSlot : C[n] \in Nat
        /\ \A n \in Id : C[n + 1] = C[n] + w[n]
    BY CumulatedIs
  <1> HIDE DEF C
  <1>2. T \in SUBSET Nat /\ m \in T
    BY <1>0 DEF C
  <1>3. PICK n \in T : \A y \in T : n <= y
    BY <1>2, Least
  <1>4. n \in 0..m /\ x < C[n] /\ n # 0
    BY <1>1
  <1>5. n - 1 \in Id /\ n - 1 < m /\ n - 1 \in 0..m /\ ~(n <= n - 1) /\ (n - 1) + 1 = n
    BY <1>0, <1>4
  <1>6. n - 1 \in 0..NoSlot /\ ~(x < C[n - 1])
    BY <1>0, <1>3, <1>5
  <1>7. C[n - 1] \in Nat /\ C[n] = C[n - 1] + w[n - 1] /\ x >= C[n - 1]
    BY <1>1, <1>5, <1>6
  <1>8. x < C[n - 1] + w[n - 1]
    BY <1>4, <1>7
  <1> QED BY <1>5, <1>7, <1>8 DEF C

(* A sum with a positive weight is positive. *)
LEMMA Positive ==
    ASSUME NEW w \in [Id -> Nat], NEW m \in 0..NoSlot, NEW i \in Id, i < m, w[i] > 0
    PROVE  Cumulated(w)[m] \in Nat \ {0}
  <1> DEFINE C == Cumulated(w)
             T == {n \in 0..m : n > i /\ C[n] = 0}
  <1>0. NoSlot \in Nat /\ Id = 0..NoSlot - 1 /\ m \in Nat /\ m <= NoSlot /\ i \in Nat
    BY Consts
  <1>1. /\ C[0] = 0 /\ \A n \in 0..NoSlot : C[n] \in Nat
        /\ \A n \in Id : C[n + 1] = C[n] + w[n]
    BY CumulatedIs
  <1> HIDE DEF C
  <1>2. ASSUME C[m] = 0 PROVE FALSE
    <2>1. T \in SUBSET Nat /\ m \in T
      BY <1>0, <1>2
    <2>2. PICK n \in T : \A y \in T : n <= y
      BY <2>1, Least
    <2>3. n \in 0..m /\ n > i /\ C[n] = 0
      OBVIOUS
    <2>4. n - 1 \in Id /\ n - 1 \in 0..m /\ n - 1 \in 0..NoSlot /\ ~(n <= n - 1) /\ (n - 1) + 1 = n /\ n - 1 >= i
      BY <1>0, <2>3
    <2>5. C[n - 1] \in Nat /\ w[n - 1] \in Nat /\ C[n] = C[n - 1] + w[n - 1]
      BY <1>1, <2>4
    <2>6. CASE n - 1 = i
      <3>1. w[n - 1] > 0
        BY <2>6
      <3> QED BY <2>3, <2>5, <3>1
    <2>7. CASE n - 1 # i
      <3>1. n - 1 > i
        BY <1>0, <2>3, <2>4, <2>7
      <3>2. C[n - 1] # 0
        BY <2>2, <2>4, <3>1
      <3> QED BY <2>3, <2>5, <3>2
    <2> QED BY <2>6, <2>7
  <1>3. C[m] \in Nat
    BY <1>0, <1>1
  <1> QED BY <1>2, <1>3 DEF C

-----------------------------------------------------------------------------
(* The maps once they are written. *)

(* What an update that began after the last change has written so far. *)
Written ==
    current => /\ sync \in {"targets", "buckets", "idle"} => listener = Listener
               /\ sync \in {"buckets", "idle"} => slots = Targets

LEMMA SameMaps ==
    ASSUME UNCHANGED <<config, nok>>
    PROVE  Listener' = Listener /\ Targets' = Targets
  <1>1. ActiveWeight' = ActiveWeight
    BY DEF ActiveWeight, native_target_is_active
  <1>2. Targets' = Targets
    BY DEF Targets, native_target_is_active
  <1>3. WeightTotal' = WeightTotal
    BY <1>1 DEF WeightTotal
  <1> QED BY <1>2, <1>3 DEF Listener

LEMMA WrittenKept ==
    ASSUME Written, UNCHANGED <<config, nok, maps>>
    PROVE  Written'
  <1>1. UNCHANGED <<config, nok>> /\ UNCHANGED <<listener, slots, sync, current>>
    BY DEF maps
  <1>2. Listener' = Listener /\ Targets' = Targets
    BY <1>1, SameMaps
  <1> QED BY <1>1, <1>2 DEF Written

LEMMA WrittenStep == ASSUME Written, [Next]_vars PROVE Written'
  <1>1. CASE UNCHANGED <<config, nok, maps>>
    BY <1>1, WrittenKept
  <1>2. CASE Change
    BY <1>2 DEF Change, Written
  <1>3. CASE Restart \/ apply
    BY <1>3 DEF Restart, apply, MapsGone, Written
  <1>4. CASE sync_listener_map
    <2>1. Listener' = Listener
      BY <1>4, SameMaps DEF sync_listener_map
    <2> QED BY <1>4, <2>1 DEF sync_listener_map, Written
  <1>5. CASE sync_target_map
    <2>1. Listener' = Listener /\ Targets' = Targets
      BY <1>5, SameMaps DEF sync_target_map
    <2> QED BY <1>5, <2>1 DEF sync_target_map, Written
  <1>6. CASE sync_consistent_hash_bucket_map
    <2>1. Listener' = Listener /\ Targets' = Targets
      BY <1>6, SameMaps DEF sync_consistent_hash_bucket_map
    <2> QED BY <1>6, <2>1 DEF sync_consistent_hash_bucket_map, Written
  <1>7. CASE attach_prepared
    <2>1. Listener' = Listener /\ Targets' = Targets
      BY <1>7, SameMaps DEF attach_prepared
    <2> QED BY <1>7, <2>1 DEF attach_prepared, Written
  <1>8. CASE \/ Tick \/ LateWrite \/ sweep_flows_and_refresh_loads \/ sweep_finish
             \/ sweep_flows \/ sweep_flows_finish \/ Save \/ restore_on_start
    <2>1. UNCHANGED <<config, nok, maps>>
      BY <1>8 DEF Tick, LateWrite, sweep_flows_and_refresh_loads, sweep_finish, sweep_flows, sweep_flows_finish,
                  Save, restore_on_start
    <2> QED BY <1>1, <2>1
  <1>9. CASE \E c \in Conn : IngressHit(c) \/ IngressNew(c) \/ \E t \in Target : Return(c, t)
    <2>1. PICK c \in Conn : IngressHit(c) \/ IngressNew(c) \/ \E t \in Target : Return(c, t)
      BY <1>9
    <2>2. CASE IngressHit(c)
      BY <1>1, <2>2 DEF IngressHit
    <2>3. CASE IngressNew(c)
      <3>1. UNCHANGED <<config, nok, maps>>
        BY <2>3 DEF IngressNew
      <3> QED BY <1>1, <3>1
    <2>4. CASE \E t \in Target : Return(c, t)
      <3>1. PICK t \in Target : Return(c, t)
        BY <2>4
      <3>2. UNCHANGED <<config, nok, maps>>
        BY <3>1 DEF Return
      <3> QED BY <1>1, <3>2
    <2> QED BY <2>1, <2>2, <2>3, <2>4
  <1>10. CASE UNCHANGED vars
    BY <1>1, <1>10 DEF vars
  <1>11. CASE \E c \in Conn, t \in Target : replicated_upsert(c, t) \/ replicated_delete(c, t)
    <2>1. UNCHANGED <<config, nok, maps>>
      BY <1>11 DEF replicated_upsert, replicated_delete
    <2> QED BY <1>1, <2>1
  <1> QED BY <1>2, <1>3, <1>4, <1>5, <1>6, <1>7, <1>8, <1>9, <1>10, <1>11 DEF Next

LEMMA ConfigWeights ==
    ASSUME NEW c \in Configs, NEW j \in DOMAIN c
    PROVE  c[j].weight \in Weight
  <1>1. PICK n \in 1..Cardinality(Target) : c \in [1..n -> [address : Target, weight : Weight]]
    BY DEF Configs
  <1> QED BY <1>1

(* A slot of the written map is usable exactly when its target is active; its
   address is then the target's and its weight the configured one. *)
Served(i) == i < Len(config) /\ native_target_is_active(config[i + 1])

LEMMA SettledUsable ==
    ASSUME config \in Configs, slots = Targets, Weight \subseteq 1..WeightCap, NEW i \in Id
    PROVE  /\ target_slot_is_usable(i) <=> Served(i)
           /\ Served(i) => slots[i].address \notin nok
           /\ Weigh(i) = ActiveWeight[i] /\ ActiveWeight[i] \in Nat
           /\ Served(i) => ActiveWeight[i] > 0
  <1>1. CASE Served(i)
    <2>1. i + 1 \in DOMAIN config /\ config[i + 1].address \in Target /\ config[i + 1].weight \in Weight
      BY <1>1, ConfigIs, ConfigWeights DEF Served
    <2>2. WeightCap \in Nat /\ config[i + 1].weight \in Nat \ {0} /\ config[i + 1].weight <= WeightCap
      <3>1. WeightCap \in Nat
        BY DatapathAssumption
      <3>2. config[i + 1].weight \in 1..WeightCap
        BY <2>1
      <3> QED BY <3>1, <3>2
    <2>3. Min({config[i + 1].weight, WeightCap}) = config[i + 1].weight
      BY <2>2, Pairwise
    <2>4. slots[i] = [address |-> config[i + 1].address, weight |-> config[i + 1].weight]
      BY <1>1, <2>3 DEF Targets, Served
    <2>5. ActiveWeight[i] = config[i + 1].weight
      BY <1>1 DEF ActiveWeight, Served
    <2>6. slots[i].address \notin nok /\ slots[i].weight = config[i + 1].weight /\ slots[i] # NoEntry
      BY <1>1, <2>1, <2>2, <2>4 DEF Served, native_target_is_active, NoEntry
    <2>7. target_slot_is_usable(i)
      BY <2>2, <2>6 DEF target_slot_is_usable
    <2> QED BY <1>1, <2>2, <2>5, <2>6, <2>7 DEF Weigh
  <1>2. CASE ~Served(i)
    <2>1. slots[i] = NoEntry
      BY <1>2 DEF Targets, Served
    <2>2. ActiveWeight[i] = 0
      BY <1>2 DEF ActiveWeight, Served
    <2> QED BY <1>2, <2>1, <2>2 DEF target_slot_is_usable, Weigh
  <1> QED BY <1>1, <1>2

(* With the maps written and an active target, every selector finds one. *)
LEMMA SettledSelect ==
    ASSUME config \in Configs, slots = Targets, listener = Listener, loads \in Counters,
           buckets \in [Bucket -> Id \union {NoSlot}], Weight \subseteq 1..WeightCap,
           NEW i \in Id, Served(i), NEW s \in AllSelectors, NEW hash \in Nat, NEW at \in Nat
    PROVE  \E j \in Id : select_target(s, hash, at) = j /\ target_slot_is_usable(j)
  <1> DEFINE count == Len(config)
             Found(x) == \E j \in Id : x = j /\ target_slot_is_usable(j)
  <1>1. count \in Nat /\ count <= NoSlot /\ i < count
    BY ConfigIs DEF Served
  <1>2. Min({listener.count, NoSlot}) = count
    <2>1. listener.count = count
      BY DEF Listener
    <2> HIDE DEF count
    <2> QED BY <1>1, <2>1, Consts, Pairwise
  <1>3. listener.total = Cumulated(ActiveWeight)[count]
    BY DEF Listener, WeightTotal
  <1>4. target_slot_is_usable(i)
    BY SettledUsable
  <1>5. ActiveWeight \in [Id -> Nat] /\ [j \in Id |-> Weigh(j)] = ActiveWeight
    <2>1. \A j \in Id : Weigh(j) = ActiveWeight[j] /\ ActiveWeight[j] \in Nat
      BY SettledUsable
    <2>2. ActiveWeight = [j \in Id |-> ActiveWeight[j]]
      BY DEF ActiveWeight
    <2> QED BY <2>1, <2>2
  <1>6. ActiveWeight[i] > 0
    BY SettledUsable
  <1> HIDE DEF count
  <1>7. count \in 0..NoSlot /\ count \in Nat \ {0} /\ i \in Nat
    BY <1>1, Consts
  <1>8. listener.total \in Nat \ {0}
    BY <1>1, <1>3, <1>5, <1>6, <1>7, Positive
  <1>9. \A n \in Nat : n % count \in Id /\ n % count \in Nat
    <2> SUFFICES ASSUME NEW n \in Nat PROVE n % count \in Id /\ n % count \in Nat
      OBVIOUS
    <2>1. n % count \in Nat /\ n % count < count
      BY <1>7, ModIs
    <2> QED BY <1>1, <2>1, Consts
  <1>10. Found(first_usable_target(count))
    <2> DEFINE usable == {j \in Id : j < count /\ target_slot_is_usable(j)}
    <2>1. usable \in SUBSET Nat /\ usable # {}
      BY <1>1, <1>4, Consts
    <2>2. first_usable_target(count) = Min(usable)
      BY <2>1 DEF first_usable_target
    <2>3. Min(usable) \in usable
      <3> HIDE DEF usable
      <3> QED BY <2>1, MinIs
    <2> QED BY <2>2, <2>3
  <1>11. Found(select_weighted_hash(at, count))
    <2> DEFINE x == at % listener.total
               hit == {j \in Id : j < count /\ x >= WeightBelow(j) /\ x < WeightBelow(j) + Weigh(j)}
    <2>1. x \in Nat /\ x < listener.total
      BY <1>8, ModIs
    <2>2. \A j \in Id : WeightBelow(j) = Cumulated(ActiveWeight)[j] /\ Weigh(j) = ActiveWeight[j]
      BY <1>5, SettledUsable DEF WeightBelow
    <2> HIDE DEF x
    <2>3. \E j \in Id : j < count /\ x >= Cumulated(ActiveWeight)[j] /\ x < Cumulated(ActiveWeight)[j] + ActiveWeight[j]
      BY <1>3, <1>5, <1>7, <2>1, Intervals
    <2>4. hit \in SUBSET Nat /\ hit # {}
      BY <2>2, <2>3, Consts
    <2>5. select_weighted_hash(at, count) = Min(hit)
      BY <2>4 DEF select_weighted_hash, x
    <2>6. Min(hit) \in hit
      <3> HIDE DEF hit
      <3> QED BY <2>4, MinIs
    <2>7. ASSUME NEW j \in hit PROVE j \in Id /\ target_slot_is_usable(j)
      <3>1. j \in Id /\ x >= WeightBelow(j) /\ x < WeightBelow(j) + Weigh(j)
        OBVIOUS
      <3>2. j \in 0..NoSlot
        BY <3>1, Consts
      <3>3. WeightBelow(j) \in Nat
        BY <1>5, <2>2, <3>1, <3>2, CumulatedIs
      <3>4. Weigh(j) # 0
        BY <2>1, <3>1, <3>3
      <3> QED BY <3>1, <3>4 DEF Weigh
    <2> HIDE DEF hit
    <2> QED BY <2>5, <2>6, <2>7
  <1>12. Found(select_hash_slot(hash, count))
    BY <1>9, <1>10 DEF select_hash_slot
  <1>13. Found(select_persist_slot(hash, count))
    <2>1. hash \div 2 \in Nat
      OBVIOUS
    <2>2. hash % count \in Id /\ (hash \div 2) % count \in Id
      BY <1>9, <2>1
    <2> QED BY <1>10, <2>2 DEF select_persist_slot
  <1>14. Found(select_consistent_hash(hash, count))
    <2> DEFINE b == hash % Cardinality(Bucket)
    <2>1. b \in Bucket
      <3>1. b \in Nat /\ b < Cardinality(Bucket)
        BY Consts, ModIs
      <3> QED BY <3>1, Consts
    <2> HIDE DEF b
    <2>2. buckets[b] \in Id \/ buckets[b] = NoSlot
      BY <2>1
    <2>3. ~(NoSlot < count)
      BY <1>1, Consts
    <2>4. select_consistent_hash(hash, count) =
            IF buckets[b] < count /\ target_slot_is_usable(buckets[b]) THEN buckets[b]
            ELSE first_usable_target(count)
      BY DEF select_consistent_hash, b
    <2> QED BY <1>10, <2>2, <2>3, <2>4
  <1> DEFINE At(o) == (at + o) % count
             steps == {o \in 0..count - 1 : target_slot_is_usable(At(o))}
  <1>15. steps \in SUBSET Nat /\ steps # {}
    <2>1. PICK o \in 0..count - 1 : (at + o) % count = i
      BY <1>1, <1>7, Rotation
    <2>2. target_slot_is_usable(At(o))
      BY <1>4, <2>1
    <2>3. o \in steps
      BY <2>2
    <2>4. steps \in SUBSET Nat
      BY <1>7
    <2> QED BY <2>3, <2>4
  <1>16. \A o \in steps : At(o) \in Id /\ target_slot_is_usable(At(o))
    <2> SUFFICES ASSUME NEW o \in steps PROVE At(o) \in Id
      OBVIOUS
    <2>1. at + o \in Nat
      BY <1>15
    <2> QED BY <1>9, <2>1
  <1>17. Found(select_round_robin(at, count))
    <2>1. select_round_robin(at, count) = At(Min(steps))
      BY <1>15 DEF select_round_robin
    <2>2. Min(steps) \in steps
      <3> HIDE DEF steps
      <3> QED BY <1>15, MinIs
    <2> HIDE DEF steps, At
    <2> QED BY <1>16, <2>1, <2>2
  <1>18. Found(select_least_connections(at, count))
    <2> DEFINE best == {o \in steps : \A p \in steps : loads[At(o)] <= loads[At(p)]}
               L == {loads[At(o)] : o \in steps}
    <2>1. select_least_connections(at, count) = IF best = {} THEN NoSlot ELSE At(Min(best))
      BY DEF select_least_connections
    <2> HIDE DEF steps, At
    <2>2. L \in SUBSET Nat /\ L # {}
      BY <1>15, <1>16 DEF Counters
    <2>3. PICK l \in L : \A y \in L : l <= y
      <3> HIDE DEF L
      <3> QED BY <2>2, Least
    <2>4. PICK o \in steps : l = loads[At(o)]
      OBVIOUS
    <2>5. o \in best
      BY <2>3, <2>4
    <2>6. best \in SUBSET Nat /\ best # {} /\ best \subseteq steps
      BY <1>15, <2>5
    <2> HIDE DEF best
    <2>7. Min(best) \in steps
      BY <2>6, MinIs
    <2> QED BY <1>16, <2>1, <2>6, <2>7
  <1> HIDE DEF Found
  <1>19. Found(select_target(s, hash, at))
    <2>1. ~(count = 0 \/ listener.total = 0)
      BY <1>7, <1>8
    <2> QED BY <1>2, <1>11, <1>12, <1>13, <1>14, <1>17, <1>18, <2>1 DEF select_target, AllSelectors
  <1> QED BY <1>19 DEF Found

(* Once the three maps are written, every selector finds a healthy target for
   every hash and cursor whenever the listener has one: with weights within the
   documented range the cumulated weights of select_weighted_hash end exactly at
   the listener's weight_total, which counts them before the clamp. *)
THEOREM DatapathSettled ==
    Weight \subseteq 1..WeightCap => (Spec => []SettledSelects)
  <1> SUFFICES ASSUME Weight \subseteq 1..WeightCap PROVE Spec => []SettledSelects
    OBVIOUS
  <1>1. Init => Written
    BY DEF Init, Written
  <1>2. Written /\ [Next]_vars => Written'
    BY WrittenStep
  <1>3. DInv /\ Written => SettledSelects
    <2> SUFFICES ASSUME DInv, Written, sync = "idle", current,
                        NEW k \in DOMAIN config, config[k].address \notin nok,
                        NEW s \in AllSelectors, NEW n \in 0..2 * CursorSize - 1
                 PROVE  /\ select_target(s, n, n) # NoSlot
                        /\ slots[select_target(s, n, n)].address \notin nok
      BY DEF SettledSelects
    <2>1. listener = Listener /\ slots = Targets
      BY DEF Written
    <2>2. config \in Configs /\ loads \in Counters /\ buckets \in [Bucket -> Id \union {NoSlot}]
      BY DEF DInv, Typed, MapType, FlowType
    <2>3. n \in Nat
      BY DatapathAssumption
    <2>4. Len(config) \in Nat /\ Len(config) <= NoSlot /\ DOMAIN config = 1..Len(config)
      BY <2>2, ConfigIs
    <2>5. k - 1 \in Id /\ k - 1 < Len(config) /\ (k - 1) + 1 = k
      BY <2>4, Consts
    <2>6. Served(k - 1)
      BY <2>5 DEF Served, native_target_is_active
    <2>7. PICK j \in Id : select_target(s, n, n) = j /\ target_slot_is_usable(j)
      BY <2>1, <2>2, <2>3, <2>5, <2>6, SettledSelect
    <2>8. slots[j].address \notin nok
      BY <2>1, <2>2, <2>7, SettledUsable
    <2> QED BY <2>7, <2>8, Consts
  <1> QED BY <1>1, <1>2, <1>3, DatapathInv, PTL DEF Spec

=============================================================================
