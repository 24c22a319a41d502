--------------------------- MODULE FlowSyncProofs ---------------------------
(***************************************************************************)
(* Proofs about FlowSync, for any connections, targets, ring and batch     *)
(* sizes, timeout, and any number of packets, sweeps, sessions, failovers  *)
(* and restarts, and maps replaced or removed at any time.                 *)
(*                                                                         *)
(* Three facts carry the argument.  Nothing in a table, a ring or a        *)
(* session is younger than the clock, and nothing in a batch younger than  *)
(* its departure: an age is never negative, and an entry that the peer     *)
(* applies is at least as fresh as when it was sent, or has the last-seen  *)
(* 0 of an entry older than the host.  No other last-seen of a host is     *)
(* older than its clock, so that such an entry is never refused for an     *)
(* older one.  And what a full answer lets the sender believe was true at  *)
(* the peer when it was given and stays so until the entry expires or the  *)
(* peer loses it alive.                                                    *)
(***************************************************************************)
EXTENDS FlowSync, FiniteSetTheorems, SequenceTheorems, TLAPS

-----------------------------------------------------------------------------
(* Values, by the time they are not younger than. *)

ValueBy(n) == [target : Target, seen : 0..n]
TableBy(n) == [Key -> ValueBy(n) \union {NoFlow}]
EventBy(n) == [key : Key, op : {"delete", "upsert"}, value : ValueBy(n)]
OpBy(n) == {NoOp, Delete} \union [op : {"upsert"}, value : ValueBy(n)]
BatchBy(n) == [Key -> OpBy(n)]
LinkBy(n) == [pc : {"down", "top", "drained", "sent", "acked"}, gw : Gateway, replica : [Key -> -1..n],
              pending : BatchBy(n), batch : BatchBy(n), sent : 0..n, full : BOOLEAN,
              deaf : BOOLEAN, old : Seq(EventBy(n))]

Typed ==
    /\ now \in Nat /\ master \in Gateway /\ attached \subseteq Gateway
    /\ table \in [Gateway -> TableBy(now)]
    /\ ring \in [Gateway -> Seq(EventBy(now))]
    /\ sweep \in [Gateway -> SUBSET Key]
    /\ link \in LinkBy(now)

-----------------------------------------------------------------------------
(* The inductive invariant. *)

(* A batch under way is not younger than its departure; no other session has one. *)
Batched == /\ link.batch \in BatchBy(link.sent)
           /\ link.pc \notin {"sent", "acked"} => link.batch = NoBatch

Far == Peer(link.gw)
KeptAt(p, k, seen) == now - seen > Timeout \/ HeldAt(p, k, seen) \/ <<p, k>> \in lost

(* What a full answer covers, the peer holds. *)
Taken == link.pc = "acked" /\ link.full =>
            \A k \in Key : link.batch[k].op = "upsert" => KeptAt(Far, k, link.batch[k].value.seen)

(* What the index lists, the peer holds, also while a batch is under way that it
   has not applied, or not accepted for want of maps. *)
Backed == link.pc # "down" =>
            \A k \in Key : \/ link.replica[k] = Unknown
                           \/ KeptAt(Far, k, link.replica[k])
                           \/ link.pc = "acked" /\ link.full /\ link.batch[k] # NoOp

LinkInv == Batched /\ Taken /\ Backed
FInv == Typed /\ LinkInv

(* A host's last-seen times are not older than its clock, but for the zeros. *)
Booted == /\ boot \in [Gateway -> Nat]
          /\ \A g \in Gateway : /\ boot[g] <= now
                                /\ \A k \in Key : table[g][k].seen # 0 => table[g][k].seen >= boot[g]

FlowInv == FInv /\ Booted

-----------------------------------------------------------------------------
(* Gateways, keys and values. *)

LEMMA PeerIs == \A g \in Gateway : Peer(g) \in Gateway /\ Peer(g) # g
  <1> SUFFICES ASSUME NEW g \in Gateway PROVE Peer(g) \in Gateway /\ Peer(g) # g
    OBVIOUS
  <1>1. \E p \in Gateway : p # g
    BY FlowAssumption
  <1> QED BY <1>1 DEF Peer

LEMMA KeyIs ==
    /\ \A c \in Conn : Forward(c) \in Key /\ Forward(c)[1] = c
    /\ \A c \in Conn, t \in Target : Backward(c, t) \in Key /\ Backward(c, t)[1] = c
    /\ \A k \in Key : k[1] \in Conn
  <1>1. \A c \in Conn : Forward(c) \in Key /\ Forward(c)[1] = c
    BY DEF Forward, Key
  <1>2. \A c \in Conn, t \in Target : Backward(c, t) \in Key /\ Backward(c, t)[1] = c
    BY DEF Backward, Key
  <1>3. \A k \in Key : k[1] \in Conn
    BY <1>1, <1>2 DEF Key
  <1> QED BY <1>1, <1>2, <1>3

LEMMA ValueIs ==
    ASSUME NEW n \in Nat
    PROVE  /\ \A v \in ValueBy(n) : v # NoFlow /\ v.target \in Target /\ v.seen \in 0..n /\ v.seen \in Nat
           /\ NoFlow.seen = 0
           /\ \A t \in TableBy(n), k \in Key : t[k].seen \in 0..n /\ t[k].seen \in Nat
  <1>1. NoFlow.seen = 0 /\ NoFlow.target \notin Target
    BY FlowAssumption DEF NoFlow
  <1>2. ASSUME NEW v \in ValueBy(n)
        PROVE  v # NoFlow /\ v.target \in Target /\ v.seen \in 0..n /\ v.seen \in Nat
    <2>1. v.target \in Target /\ v.seen \in 0..n
      BY DEF ValueBy
    <2> QED BY <1>1, <2>1
  <1>3. ASSUME NEW t \in TableBy(n), NEW k \in Key
        PROVE  t[k].seen \in 0..n /\ t[k].seen \in Nat
    <2>1. t[k] \in ValueBy(n) \/ t[k] = NoFlow
      BY DEF TableBy
    <2> QED BY <1>1, <1>2, <2>1
  <1> QED BY <1>1, <1>2, <1>3

LEMMA Grows ==
    ASSUME NEW n \in Nat, NEW m \in Nat, n <= m
    PROVE  /\ ValueBy(n) \subseteq ValueBy(m) /\ TableBy(n) \subseteq TableBy(m)
           /\ EventBy(n) \subseteq EventBy(m) /\ OpBy(n) \subseteq OpBy(m)
           /\ BatchBy(n) \subseteq BatchBy(m) /\ LinkBy(n) \subseteq LinkBy(m)
  <1>0. 0..n \subseteq 0..m
    OBVIOUS
  <1>1. ValueBy(n) \subseteq ValueBy(m)
    BY <1>0 DEF ValueBy
  <1>2. TableBy(n) \subseteq TableBy(m)
    BY <1>1 DEF TableBy
  <1>3. EventBy(n) \subseteq EventBy(m)
    BY <1>1 DEF EventBy
  <1>4. OpBy(n) \subseteq OpBy(m)
    BY <1>1 DEF OpBy
  <1>5. BatchBy(n) \subseteq BatchBy(m)
    BY <1>4 DEF BatchBy
  <1>7. Seq(EventBy(n)) \subseteq Seq(EventBy(m)) /\ -1..n \subseteq -1..m
    <2> DEFINE E == EventBy(n)
               F == EventBy(m)
    <2>1. E \subseteq F
      BY <1>3
    <2> HIDE DEF E, F
    <2>2. Seq(E) \subseteq Seq(F)
      BY <2>1, SeqMonotonic
    <2> QED BY <2>2 DEF E, F
  <1>6. LinkBy(n) \subseteq LinkBy(m)
    BY <1>0, <1>5, <1>7 DEF LinkBy
  <1> QED BY <1>1, <1>2, <1>3, <1>4, <1>5, <1>6

LEMMA OpIs ==
    ASSUME NEW n \in Nat
    PROVE  /\ NoOp \in OpBy(n) /\ Delete \in OpBy(n) /\ NoOp.op = "none" /\ Delete.op = "delete"
           /\ NoBatch \in BatchBy(n) /\ \A k \in Key : NoBatch[k] = NoOp
           /\ \A v \in ValueBy(n) : Upsert(v) \in OpBy(n)
           /\ \A o \in OpBy(n) : /\ o.op = "upsert" => o.value \in ValueBy(n)
                                 /\ o.op \notin {"upsert", "delete"} => o = NoOp
  <1>1. NoOp \in OpBy(n) /\ Delete \in OpBy(n) /\ NoOp.op = "none" /\ Delete.op = "delete"
    BY DEF OpBy, NoOp, Delete
  <1>2. NoBatch \in BatchBy(n) /\ \A k \in Key : NoBatch[k] = NoOp
    BY <1>1 DEF NoBatch, BatchBy
  <1>3. \A v \in ValueBy(n) : Upsert(v) \in OpBy(n)
    BY DEF Upsert, OpBy
  <1>4. \A o \in OpBy(n) : /\ o.op = "upsert" => o.value \in ValueBy(n)
                           /\ o.op \notin {"upsert", "delete"} => o = NoOp
    BY <1>1 DEF OpBy
  <1> QED BY <1>1, <1>2, <1>3, <1>4

-----------------------------------------------------------------------------
(* What the steps do to a table. *)

(* A key is dropped, or it is not older than before. *)
StepsOn(t, u) == \A k \in Key : u[k] = NoFlow \/ u[k].seen >= t[k].seen

(* A key is dropped, kept or refreshed now. *)
Moves(t, u, n) == \A k \in Key : u[k] = NoFlow \/ u[k] = t[k] \/ (u[k] # NoFlow /\ u[k].seen = n)

LEMMA MovesAdvance ==
    ASSUME NEW n \in Nat, NEW t \in TableBy(n), NEW u, Moves(t, u, n)
    PROVE  StepsOn(t, u)
  <1> SUFFICES ASSUME NEW k \in Key PROVE u[k] = NoFlow \/ u[k].seen >= t[k].seen
    BY DEF StepsOn
  <1>1. t[k].seen \in 0..n
    BY ValueIs
  <1> QED BY <1>1 DEF Moves

LEMMA RefreshIs ==
    ASSUME NEW n \in Nat, NEW t \in TableBy(n), NEW k \in Key, t[k] # NoFlow
    PROVE  Refresh(t, k, n) \in TableBy(n) /\ Moves(t, Refresh(t, k, n), n)
  <1> DEFINE value == [t[k] EXCEPT !.seen = n]
             pair == PairOf(k, t[k])
             u == Refresh(t, k, n)
  <1>1. t[k] \in ValueBy(n)
    BY DEF TableBy
  <1>2. value \in ValueBy(n) /\ value.seen = n
    BY <1>1 DEF ValueBy
  <1>3. u = [x \in Key |-> IF x \in pair THEN value ELSE t[x]]
    BY DEF Refresh
  <1> HIDE DEF value, pair, u
  <1>4. u \in TableBy(n)
    BY <1>2, <1>3 DEF TableBy
  <1>5. ASSUME NEW x \in Key
        PROVE  u[x] = t[x] \/ (u[x] # NoFlow /\ u[x].seen = n)
    <2>1. value # NoFlow
      BY <1>2, ValueIs
    <2> QED BY <1>2, <1>3, <2>1
  <1> QED BY <1>4, <1>5 DEF u, Moves

LEMMA RemoveIs ==
    ASSUME NEW n \in Nat, NEW t \in TableBy(n), NEW k
    PROVE  /\ RemovePair(t, k) \in TableBy(n) /\ Moves(t, RemovePair(t, k), n)
           /\ \A x \in Key : RemovePair(t, k)[x] \in {NoFlow, t[x]}
  <1> DEFINE pair == PairOf(k, t[k])
             u == RemovePair(t, k)
  <1>1. u = [x \in Key |-> IF x \in pair THEN NoFlow ELSE t[x]]
    BY DEF RemovePair
  <1> HIDE DEF pair, u
  <1>2. u \in TableBy(n) /\ \A x \in Key : u[x] \in {NoFlow, t[x]}
    BY <1>1 DEF TableBy
  <1> QED BY <1>2 DEF u, Moves

LEMMA NewIs ==
    ASSUME NEW n \in Nat, NEW t \in TableBy(n), NEW u \in TableBy(n), \A x \in Key : u[x] \in {NoFlow, t[x]},
           NEW c \in Conn, NEW v \in ValueBy(n), v.seen = n
    PROVE  NewPair(u, c, v) \in TableBy(n) /\ Moves(t, NewPair(u, c, v), n)
  <1> DEFINE w == NewPair(u, c, v)
  <1>1. w = [x \in Key |-> IF x \in {Forward(c), Backward(c, v.target)} THEN v ELSE u[x]]
    BY DEF NewPair
  <1> HIDE DEF w
  <1>2. w \in TableBy(n)
    BY <1>1 DEF TableBy
  <1>3. v # NoFlow
    BY ValueIs
  <1>4. \A x \in Key : w[x] = NoFlow \/ w[x] = t[x] \/ (w[x] # NoFlow /\ w[x].seen = n)
    BY <1>1, <1>3
  <1> QED BY <1>2, <1>4 DEF w, Moves

LEMMA DeleteIs ==
    ASSUME NEW n \in Nat, NEW t \in TableBy(n), NEW keys
    PROVE  /\ delete_flows(t, keys) \in TableBy(n) /\ Moves(t, delete_flows(t, keys), n)
           /\ \A x \in Key : delete_flows(t, keys)[x] = IF x \in keys THEN NoFlow ELSE t[x]
  <1> DEFINE u == delete_flows(t, keys)
  <1>1. u = [x \in Key |-> IF x \in keys THEN NoFlow ELSE t[x]]
    BY DEF delete_flows
  <1> HIDE DEF u
  <1>3. u \in TableBy(n) /\ \A x \in Key : u[x] = IF x \in keys THEN NoFlow ELSE t[x]
    BY <1>1 DEF TableBy
  <1>4. Moves(t, u, n)
    BY <1>3 DEF Moves
  <1> QED BY <1>3, <1>4 DEF u

LEMMA EmptyIs == \A n \in Nat : EmptyTable \in TableBy(n)
  BY DEF EmptyTable, TableBy

(* A last-seen as the host g has it: 0, or not older than its clock. *)
LEMMA LocalIs ==
    ASSUME now \in Nat, Booted, NEW g \in Gateway, NEW s \in 0..now, NEW v \in ValueBy(s)
    PROVE  LET e == local_last_seen(flow_age(v, s), g)
           IN  /\ e \in 0..now
               /\ e # 0 => e >= boot[g] /\ e >= v.seen
               /\ e = 0 => v.seen <= boot[g]
  <1> DEFINE age == flow_age(v, s)
             e == local_last_seen(age, g)
  <1>1. v.seen \in 0..s /\ s \in Nat /\ boot[g] \in Nat /\ boot[g] <= now
    BY ValueIs DEF Booted
  <1>2. age \in 0..s /\ (v.seen # 0 => age = s - v.seen) /\ (v.seen = 0 => age = 0)
    BY <1>1 DEF flow_age
  <1> HIDE DEF age
  <1>3. e = IF age >= now - boot[g] + 1 THEN 0 ELSE now - age
    BY DEF local_last_seen, Clock
  <1> HIDE DEF e
  <1>4. CASE age >= now - boot[g] + 1
    <2>1. e = 0 /\ v.seen <= boot[g]
      BY <1>1, <1>2, <1>3, <1>4
    <2> QED BY <1>1, <2>1 DEF e, age
  <1>5. CASE ~(age >= now - boot[g] + 1)
    <2>1. e = now - age /\ e \in 0..now /\ e >= boot[g] /\ e >= v.seen
      BY <1>1, <1>2, <1>3, <1>5
    <2>2. e = 0 => v.seen <= boot[g]
      BY <1>1, <2>1
    <2> QED BY <2>1, <2>2 DEF e, age
  <1> QED BY <1>4, <1>5

(* A batch applied at time now: entries arrive at least as fresh as they left,
   or with the last-seen 0. *)
LEMMA ApplyIs ==
    ASSUME now \in Nat, Booted, NEW g \in Gateway, NEW s \in 0..now, NEW b \in BatchBy(s), table[g] \in TableBy(now)
    PROVE  /\ apply_proto_request(table[g], b, s, g) \in TableBy(now)
           /\ StepsOn(table[g], apply_proto_request(table[g], b, s, g))
           /\ \A k \in Key :
                 LET w == apply_proto_request(table[g], b, s, g)[k] IN
                 /\ b[k].op = "upsert" => w # NoFlow /\ (w.seen = 0 \/ w.seen >= b[k].value.seen)
                 /\ b[k].op \notin {"upsert", "delete"} => w = table[g][k]
                 /\ w.seen # 0 => w.seen >= boot[g]
  <1> DEFINE t == table[g]
             e == [k \in Key |-> IF b[k].op # "upsert" THEN NoFlow
                                 ELSE [b[k].value EXCEPT !.seen = local_last_seen(flow_age(b[k].value, s), g)]]
             u == upsert_flows(t, e)
             w == apply_proto_request(t, b, s, g)
  <1>0. s \in Nat /\ \A k \in Key : b[k] \in OpBy(s)
    BY DEF BatchBy
  <1>b. boot[g] \in Nat /\ \A k \in Key : t[k].seen # 0 => t[k].seen >= boot[g]
    BY DEF Booted
  <1>1. ASSUME NEW k \in Key, b[k].op = "upsert"
        PROVE  /\ e[k] \in ValueBy(now) /\ e[k] # NoFlow /\ b[k].value.seen \in Nat /\ e[k].seen \in Nat
               /\ e[k].seen # 0 => e[k].seen >= boot[g] /\ e[k].seen >= b[k].value.seen
               /\ e[k].seen = 0 => b[k].value.seen <= boot[g]
    <2> DEFINE v == b[k].value
               l == local_last_seen(flow_age(v, s), g)
    <2>1. v \in ValueBy(s)
      BY <1>0, <1>1, OpIs
    <2>2. v.seen \in Nat
      BY <1>0, <2>1, ValueIs
    <2>3. l \in 0..now /\ (l # 0 => l >= boot[g] /\ l >= v.seen) /\ (l = 0 => v.seen <= boot[g])
      BY <2>1, LocalIs
    <2>4. e[k] = [v EXCEPT !.seen = l]
      BY <1>1
    <2> HIDE DEF e, l, v
    <2>5. e[k] \in ValueBy(now) /\ e[k].seen = l
      <3>1. v \in [target : Target, seen : 0..s]
        BY <2>1 DEF ValueBy
      <3> QED BY <2>3, <2>4, <3>1 DEF ValueBy
    <2>6. e[k] # NoFlow /\ e[k].seen \in Nat
      BY <2>5, ValueIs
    <2> QED BY <2>2, <2>3, <2>5, <2>6 DEF v
  <1>2. ASSUME NEW k \in Key, b[k].op # "upsert"
        PROVE  e[k] = NoFlow
    BY <1>2
  <1>3. w = delete_flows(u, OpsOf(b, "delete"))
    BY DEF apply_proto_request
  <1> HIDE DEF e
  <1>4. u = [k \in Key |-> IF e[k] # NoFlow /\ (t[k] = NoFlow \/ e[k].seen > t[k].seen) THEN e[k] ELSE t[k]]
    BY DEF upsert_flows, flow_apply_applies
  <1>t. t \in TableBy(now)
    OBVIOUS
  <1> HIDE DEF t, u, w
  <1>5. u \in TableBy(now)
    <2> SUFFICES ASSUME NEW k \in Key PROVE u[k] \in ValueBy(now) \union {NoFlow}
      BY <1>4 DEF TableBy
    <2>1. t[k] \in ValueBy(now) \union {NoFlow}
      BY <1>t DEF TableBy
    <2>2. e[k] \in ValueBy(now) \union {NoFlow}
      BY <1>1, <1>2
    <2> QED BY <1>4, <2>1, <2>2
  <1>6. ASSUME NEW k \in Key
        PROVE  /\ u[k].seen >= t[k].seen
               /\ b[k].op = "upsert" => u[k] # NoFlow /\ (u[k].seen = 0 \/ u[k].seen >= b[k].value.seen)
               /\ b[k].op # "upsert" => u[k] = t[k]
               /\ u[k].seen # 0 => u[k].seen >= boot[g]
    <2>1. t[k].seen \in Nat /\ (t[k] = NoFlow => t[k].seen = 0) /\ (t[k].seen # 0 => t[k].seen >= boot[g])
      BY <1>t, <1>b, ValueIs
    <2>2. CASE b[k].op # "upsert"
      <3>1. u[k] = t[k]
        BY <1>2, <1>4, <2>2
      <3> QED BY <2>1, <2>2, <3>1
    <2>3. CASE b[k].op = "upsert"
      <3>1. /\ e[k] # NoFlow /\ b[k].value.seen \in Nat /\ e[k].seen \in Nat
            /\ e[k].seen # 0 => e[k].seen >= boot[g] /\ e[k].seen >= b[k].value.seen
            /\ e[k].seen = 0 => b[k].value.seen <= boot[g]
        BY <1>1, <2>3
      <3>2. CASE t[k] = NoFlow \/ e[k].seen > t[k].seen
        <4>1. u[k] = e[k]
          BY <1>4, <3>1, <3>2
        <4>2. e[k].seen >= t[k].seen
          BY <2>1, <3>1, <3>2
        <4> QED BY <2>3, <3>1, <4>1, <4>2
      <3>3. CASE ~(t[k] = NoFlow \/ e[k].seen > t[k].seen)
        <4>1. u[k] = t[k] /\ u[k] # NoFlow
          BY <1>4, <3>3
        <4>2. t[k].seen >= e[k].seen
          BY <2>1, <3>1, <3>3
        <4>3. t[k].seen = 0 \/ t[k].seen >= b[k].value.seen
          BY <1>b, <2>1, <3>1, <4>2
        <4> QED BY <2>1, <2>3, <4>1, <4>3
      <3> QED BY <3>2, <3>3
    <2> QED BY <2>2, <2>3
  <1>7. w \in TableBy(now) /\ \A k \in Key : w[k] = IF k \in OpsOf(b, "delete") THEN NoFlow ELSE u[k]
    BY <1>3, <1>5, DeleteIs
  <1>8. \A k \in Key : k \in OpsOf(b, "delete") <=> b[k].op = "delete"
    BY DEF OpsOf
  <1>9. StepsOn(t, w)
    BY <1>6, <1>7 DEF StepsOn
  <1>10. ASSUME NEW k \in Key
         PROVE  /\ b[k].op = "upsert" => w[k] # NoFlow /\ (w[k].seen = 0 \/ w[k].seen >= b[k].value.seen)
                /\ b[k].op \notin {"upsert", "delete"} => w[k] = t[k]
                /\ w[k].seen # 0 => w[k].seen >= boot[g]
    <2>1. NoFlow.seen = 0
      BY ValueIs
    <2> QED BY <1>6, <1>7, <1>8, <2>1
  <1> QED BY <1>7, <1>9, <1>10 DEF w, t

-----------------------------------------------------------------------------
(* The ring and what is pending. *)

LEMMA EmitIs ==
    ASSUME NEW n \in Nat, NEW events \in Seq(EventBy(n)), NEW a \in Key, NEW b \in Key,
           NEW op \in {"delete", "upsert"}, NEW v \in ValueBy(n)
    PROVE  emit_flow_event(events, <<a, b>>, op, v) \in Seq(EventBy(n))
  <1> DEFINE E == EventBy(n)
             new == [i \in 1..2 |-> [key |-> <<a, b>>[i], op |-> op, value |-> v]]
             all == events \o new
             m == Min({RingSize, Len(all)})
  <1>1. \A i \in 1..2 : new[i] \in E
    BY DEF EventBy
  <1>2. emit_flow_event(events, <<a, b>>, op, v) = SubSeq(all, 1, m)
    BY DEF emit_flow_event
  <1>3. new \in Seq(E)
    <2>1. new \in [1..2 -> E]
      BY <1>1
    <2> HIDE DEF new, E
    <2> QED BY <2>1, SeqDef
  <1> HIDE DEF new, E
  <1>4. all \in Seq(E) /\ Len(all) \in Nat /\ \A i \in 1..Len(all) : all[i] \in E
    <2>1. events \in Seq(E)
      BY DEF E
    <2>2. all \in Seq(E)
      BY <1>3, <2>1, ConcatProperties
    <2> HIDE DEF all
    <2> QED BY <2>2, LenProperties, ElementOfSeq
  <1> HIDE DEF all
  <1>5. m \in Nat /\ m <= Len(all)
    <2>1. RingSize \in Nat
      BY FlowAssumption
    <2>2. \E x \in {RingSize, Len(all)} : \A y \in {RingSize, Len(all)} : x <= y
      BY <1>4, <2>1
    <2> QED BY <1>4, <2>1, <2>2 DEF Min
  <1> HIDE DEF m
  <1>6. \A i \in 1..m : all[i] \in E
    BY <1>4, <1>5
  <1>7. SubSeq(all, 1, m) \in Seq(E)
    BY <1>5, <1>6, SubSeqProperties
  <1> QED BY <1>2, <1>7 DEF E

(* Of finitely many events one is the freshest, the last of equals. *)
LEMMA FreshestIs ==
    ASSUME NEW S \in SUBSET Nat, IsFiniteSet(S), S # {}, NEW seen \in [S -> Nat]
    PROVE  \E i \in S : \A j \in S : seen[i] > seen[j] \/ (seen[i] = seen[j] /\ i >= j)
  <1> DEFINE Over(j, i) == seen[j] > seen[i] \/ (seen[j] = seen[i] /\ j > i)
             Better(i) == {j \in S : Over(j, i)}
             U == {Better(i) : i \in S}
  <1>1. \A i \in S : Better(i) \in FiniteSubsetsOf(S)
    <2> SUFFICES ASSUME NEW i \in S PROVE Better(i) \in FiniteSubsetsOf(S)
      OBVIOUS
    <2>1. Better(i) \in SUBSET S
      OBVIOUS
    <2> HIDE DEF Better
    <2>2. IsFiniteSet(Better(i))
      BY <2>1, FS_Subset
    <2> QED BY <2>1, <2>2 DEF FiniteSubsetsOf
  <1>2. IsWellFoundedOn(StrictSubsetOrdering(S), FiniteSubsetsOf(S))
    BY FS_StrictSubsetOrderingWellFounded
  <1>3. U \subseteq FiniteSubsetsOf(S) /\ U # {}
    <2> HIDE DEF Better
    <2> QED BY <1>1
  <1>4. PICK u \in U : \A v \in U : ~(<<v, u>> \in StrictSubsetOrdering(S))
    BY <1>2, <1>3, WFMin
  <1>5. PICK i \in S : u = Better(i)
    OBVIOUS
  <1>6. ASSUME NEW j \in S, Over(j, i)
        PROVE  FALSE
    <2>1. Better(j) \subseteq Better(i)
      <3> SUFFICES ASSUME NEW k \in S, Over(k, j) PROVE Over(k, i)
        OBVIOUS
      <3>1. i \in Nat /\ j \in Nat /\ k \in Nat /\ seen[i] \in Nat /\ seen[j] \in Nat /\ seen[k] \in Nat
        OBVIOUS
      <3> QED BY <1>6, <3>1
    <2>2. j \in Better(i) /\ j \notin Better(j)
      <3>1. j \in Nat /\ seen[j] \in Nat
        OBVIOUS
      <3> QED BY <1>6, <3>1
    <2> HIDE DEF Better
    <2>3. <<Better(j), Better(i)>> \in StrictSubsetOrdering(S)
      BY <2>1, <2>2, <1>1 DEF StrictSubsetOrdering, FiniteSubsetsOf
    <2> QED BY <1>4, <1>5, <2>3
  <1>7. ASSUME NEW j \in S
        PROVE  seen[i] > seen[j] \/ (seen[i] = seen[j] /\ i >= j)
    <2>1. i \in Nat /\ j \in Nat /\ seen[i] \in Nat /\ seen[j] \in Nat
      OBVIOUS
    <2>2. ~Over(j, i)
      BY <1>6
    <2> QED BY <2>1, <2>2
  <1> QED BY <1>7

LEMMA UpsertIs ==
    ASSUME NEW n \in Nat, NEW o \in OpBy(n), NEW v \in ValueBy(n)
    PROVE  apply_upsert(o, v) \in OpBy(n)
  BY OpIs DEF apply_upsert

LEMMA MutationsAre ==
    ASSUME NEW n \in Nat, NEW pending \in BatchBy(n), NEW events \in Seq(EventBy(n))
    PROVE  apply_mutations(pending, events) \in BatchBy(n)
  <1>1. Len(events) \in Nat /\ DOMAIN events = 1..Len(events) /\ \A i \in 1..Len(events) : events[i] \in EventBy(n)
    BY LenProperties, ElementOfSeq
  <1>2. ASSUME NEW k \in Key
        PROVE  apply_mutations(pending, events)[k] \in OpBy(n)
    <2> DEFINE mine == {i \in DOMAIN events : events[i].key = k}
               deleted == Max({0} \union {i \in mine : events[i].op = "delete"})
               op == IF deleted = 0 THEN pending[k] ELSE Delete
               upserts == {i \in mine : i > deleted}
               freshest == CHOOSE i \in upserts : \A j \in upserts :
                              \/ events[i].value.seen > events[j].value.seen
                              \/ events[i].value.seen = events[j].value.seen /\ i >= j
    <2>1. apply_mutations(pending, events)[k] =
            IF upserts = {} THEN op ELSE apply_upsert(op, events[freshest].value)
      BY DEF apply_mutations
    <2>2. op \in OpBy(n)
      BY OpIs DEF BatchBy
    <2>3. upserts \in SUBSET (1..Len(events))
      BY <1>1
    <2> HIDE DEF op, upserts
    <2>4. CASE upserts = {}
      BY <2>1, <2>2, <2>4
    <2>5. CASE upserts # {}
      <3> DEFINE seen == [i \in upserts |-> events[i].value.seen]
      <3>1. seen \in [upserts -> Nat]
        <4> SUFFICES ASSUME NEW i \in upserts PROVE events[i].value.seen \in Nat
          OBVIOUS
        <4>1. events[i] \in EventBy(n)
          BY <1>1, <2>3
        <4>2. events[i].value \in ValueBy(n)
          BY <4>1 DEF EventBy
        <4> QED BY <4>2, ValueIs
      <3>2. upserts \in SUBSET Nat /\ IsFiniteSet(upserts)
        <4>1. IsFiniteSet(1..Len(events))
          BY <1>1, FS_Interval
        <4>2. IsFiniteSet(upserts)
          BY <2>3, <4>1, FS_Subset
        <4>3. upserts \in SUBSET Nat
          BY <1>1, <2>3
        <4> QED BY <4>2, <4>3
      <3>3. \A i \in upserts : seen[i] = events[i].value.seen
        OBVIOUS
      <3> HIDE DEF seen
      <3>4. \E i \in upserts : \A j \in upserts : seen[i] > seen[j] \/ (seen[i] = seen[j] /\ i >= j)
        BY <2>5, <3>1, <3>2, FreshestIs
      <3>5. \E i \in upserts : \A j \in upserts :
               \/ events[i].value.seen > events[j].value.seen
               \/ events[i].value.seen = events[j].value.seen /\ i >= j
        BY <3>3, <3>4
      <3>6. freshest \in upserts
        BY <3>5
      <3> HIDE DEF freshest
      <3>7. events[freshest] \in EventBy(n)
        BY <1>1, <2>3, <3>6
      <3>8. events[freshest].value \in ValueBy(n)
        BY <3>7 DEF EventBy
      <3>9. apply_upsert(op, events[freshest].value) \in OpBy(n)
        BY <2>2, <3>8, UpsertIs
      <3> QED BY <2>1, <2>5, <3>9
    <2> QED BY <2>4, <2>5
  <1>3. apply_mutations(pending, events) = [k \in Key |-> apply_mutations(pending, events)[k]]
    BY DEF apply_mutations
  <1> HIDE DEF apply_mutations
  <1> QED BY <1>2, <1>3 DEF BatchBy

LEMMA ReconcileIs ==
    ASSUME NEW n \in Nat, NEW replica, NEW current \in TableBy(n), NEW pending \in BatchBy(n)
    PROVE  reconcile(replica, current, pending) \in BatchBy(n)
  <1> SUFFICES ASSUME NEW k \in Key
               PROVE  (IF current[k] = NoFlow
                       THEN IF replica[k] # Unknown THEN Delete ELSE pending[k]
                       ELSE IF replica[k] = Unknown \/ current[k].seen > replica[k]
                            THEN apply_upsert(pending[k], current[k]) ELSE pending[k]) \in OpBy(n)
    BY DEF reconcile, BatchBy
  <1>1. pending[k] \in OpBy(n) /\ Delete \in OpBy(n) /\ (current[k] # NoFlow => current[k] \in ValueBy(n))
    BY OpIs DEF BatchBy, TableBy
  <1>2. current[k] # NoFlow => apply_upsert(pending[k], current[k]) \in OpBy(n)
    BY <1>1, UpsertIs
  <1> QED BY <1>1, <1>2

LEMMA RequeueIs ==
    ASSUME NEW n \in Nat, NEW pending \in BatchBy(n), NEW batch \in BatchBy(n)
    PROVE  requeue_batch(pending, batch) \in BatchBy(n)
  <1> SUFFICES ASSUME NEW k \in Key
               PROVE  (IF batch[k].op = "upsert" THEN apply_upsert(pending[k], batch[k].value)
                       ELSE IF batch[k].op = "delete" THEN Delete ELSE pending[k]) \in OpBy(n)
    BY DEF requeue_batch, BatchBy
  <1>1. pending[k] \in OpBy(n) /\ Delete \in OpBy(n) /\ (batch[k].op = "upsert" => batch[k].value \in ValueBy(n))
    BY OpIs DEF BatchBy
  <1>2. batch[k].op = "upsert" => apply_upsert(pending[k], batch[k].value) \in OpBy(n)
    BY <1>1, UpsertIs
  <1> QED BY <1>1, <1>2

LEMMA AcknowledgedIs ==
    ASSUME NEW n \in Nat, NEW replica \in [Key -> -1..n], NEW batch \in BatchBy(n)
    PROVE  Acknowledged(replica, batch) \in [Key -> -1..n]
  <1> SUFFICES ASSUME NEW k \in Key
               PROVE  (IF batch[k].op = "upsert" THEN batch[k].value.seen
                       ELSE IF batch[k].op = "delete" THEN Unknown ELSE replica[k]) \in -1..n
    BY DEF Acknowledged
  <1>1. batch[k].op = "upsert" => batch[k].value.seen \in 0..n
    BY OpIs, ValueIs DEF BatchBy
  <1>2. replica[k] \in -1..n /\ Unknown \in -1..n /\ 0..n \subseteq -1..n
    BY DEF Unknown
  <1> QED BY <1>1, <1>2

LEMMA OnlyIs ==
    ASSUME NEW n \in Nat, NEW pending \in BatchBy(n), NEW keys
    PROVE  Only(pending, keys) \in BatchBy(n)
  BY OpIs DEF Only, BatchBy

-----------------------------------------------------------------------------
(* What the peer holds. *)

(* What a gateway held it still holds, unless it had expired or was lost alive. *)
Fades(p) == /\ lost \subseteq lost'
            /\ \A k \in Key : \/ table'[p][k] = table[p][k]
                              \/ table'[p][k] # NoFlow /\ table'[p][k].seen = now
                              \/ k \notin LiveKeys(table[p], now)
                              \/ <<p, k>> \in lost'

LEMMA HeldKept ==
    ASSUME now \in Nat, NEW p \in Gateway, table[p] \in TableBy(now),
           Fades(p), now' = now, NEW k \in Key, NEW s \in -1..now, KeptAt(p, k, s)
    PROVE  now' - s > Timeout \/ (table'[p][k] # NoFlow /\ (table'[p][k].seen = 0 \/ table'[p][k].seen >= s))
              \/ <<p, k>> \in lost'
  <1> DEFINE a == table[p][k].seen
  <1>0. a \in Nat /\ Timeout \in Nat
    BY ValueIs, FlowAssumption
  <1>1. CASE now - s > Timeout
    BY <1>1
  <1>2. CASE <<p, k>> \in lost
    BY <1>2 DEF Fades
  <1>3. CASE HeldAt(p, k, s)
    <2>0. table[p][k] # NoFlow /\ (a = 0 \/ a >= s)
      BY <1>3 DEF HeldAt
    <2>1. CASE table'[p][k] = table[p][k]
      BY <2>0, <2>1
    <2>2. CASE table'[p][k] # NoFlow /\ table'[p][k].seen = now
      BY <2>2
    <2>3. CASE <<p, k>> \in lost'
      BY <2>3
    <2>4. CASE k \notin LiveKeys(table[p], now)
      <3>1. a # 0 /\ now - a > Timeout
        BY <2>0, <2>4 DEF LiveKeys, Present, flow_expired
      <3>2. now - s > Timeout
        BY <1>0, <2>0, <3>1
      <3> QED BY <3>2
    <2> QED BY <2>1, <2>2, <2>3, <2>4 DEF Fades
  <1> QED BY <1>1, <1>2, <1>3 DEF KeptAt

LEMMA LinkIs ==
    ASSUME Typed
    PROVE  /\ link.pc \in {"down", "top", "drained", "sent", "acked"} /\ link.gw \in Gateway
           /\ link.replica \in [Key -> -1..now] /\ link.pending \in BatchBy(now)
           /\ link.batch \in BatchBy(now) /\ link.sent \in 0..now /\ link.full \in BOOLEAN
           /\ link.old \in Seq(EventBy(now)) /\ link.deaf \in BOOLEAN
           /\ Far \in Gateway /\ Far # link.gw
           /\ \A g \in Gateway : table[g] \in TableBy(now)
  <1>1. /\ link.pc \in {"down", "top", "drained", "sent", "acked"} /\ link.gw \in Gateway
        /\ link.replica \in [Key -> -1..now] /\ link.pending \in BatchBy(now)
        /\ link.batch \in BatchBy(now) /\ link.sent \in 0..now /\ link.full \in BOOLEAN
        /\ link.old \in Seq(EventBy(now)) /\ link.deaf \in BOOLEAN
    BY DEF Typed, LinkBy
  <1> QED BY <1>1, PeerIs DEF Typed, Far

(* The steps that leave the session alone, but for the ring it reads. *)
SameSession == /\ link'.pc = link.pc /\ link'.gw = link.gw /\ link'.replica = link.replica
               /\ link'.batch = link.batch /\ link'.full = link.full /\ link'.sent = link.sent

LEMMA WorldKeeps ==
    ASSUME FInv, Typed', now' = now, SameSession, link.pc # "down" => Fades(Far)
    PROVE  FInv'
  <1>0. Typed /\ Batched /\ Taken /\ Backed /\ now \in Nat
    BY DEF FInv, LinkInv, Typed
  <1>s. /\ link'.pc = link.pc /\ link'.gw = link.gw /\ link'.replica = link.replica
        /\ link'.batch = link.batch /\ link'.full = link.full /\ link'.sent = link.sent
    BY DEF SameSession
  <1> DEFINE p == Far
  <1>1. p \in Gateway /\ Far' = p /\ table[p] \in TableBy(now)
    BY <1>0, <1>s, LinkIs DEF Far
  <1>2. link.pc # "down" => Fades(p)
    OBVIOUS
  <1>w. Taken /\ Backed
    BY <1>0
  <1> HIDE DEF p
  <1>3. ASSUME NEW k \in Key, NEW s \in -1..now, link.pc # "down", KeptAt(p, k, s)
        PROVE  now' - s > Timeout \/ (table'[p][k] # NoFlow /\ (table'[p][k].seen = 0 \/ table'[p][k].seen >= s))
                 \/ <<p, k>> \in lost'
    BY <1>0, <1>1, <1>2, <1>3, HeldKept
  <1>4. Batched'
    BY <1>0, <1>s DEF Batched
  <1>6. Taken'
    <2> SUFFICES ASSUME link.pc = "acked", link.full, NEW k \in Key, link.batch[k].op = "upsert"
                 PROVE  LET s == link.batch[k].value.seen IN
                        \/ now' - s > Timeout
                        \/ table'[p][k] # NoFlow /\ (table'[p][k].seen = 0 \/ table'[p][k].seen >= s)
                        \/ <<p, k>> \in lost'
      BY <1>1, <1>s DEF Taken, KeptAt, HeldAt
    <2> DEFINE s == link.batch[k].value.seen
    <2>1. KeptAt(p, k, s)
      BY <1>w DEF Taken, p
    <2>2. s \in -1..now
      <3>1. link.batch[k] \in OpBy(now)
        BY <1>0, LinkIs DEF BatchBy
      <3>2. s \in 0..now
        BY <1>0, <3>1, OpIs, ValueIs
      <3> QED BY <1>0, <3>2
    <2> HIDE DEF s
    <2>3. \/ now' - s > Timeout
          \/ table'[p][k] # NoFlow /\ (table'[p][k].seen = 0 \/ table'[p][k].seen >= s)
          \/ <<p, k>> \in lost'
      BY <1>3, <2>1, <2>2
    <2> QED BY <2>3 DEF s
  <1>7. Backed'
    <2> SUFFICES ASSUME link.pc # "down", NEW k \in Key, link.replica[k] # Unknown,
                        ~(link.pc = "acked" /\ link.full /\ link.batch[k] # NoOp)
                 PROVE  LET s == link.replica[k] IN
                        \/ now' - s > Timeout
                        \/ table'[p][k] # NoFlow /\ (table'[p][k].seen = 0 \/ table'[p][k].seen >= s)
                        \/ <<p, k>> \in lost'
      BY <1>1, <1>s DEF Backed, KeptAt, HeldAt
    <2> DEFINE s == link.replica[k]
    <2>1. KeptAt(p, k, s)
      BY <1>w DEF Backed, p
    <2>2. s \in -1..now
      BY <1>0, LinkIs
    <2> HIDE DEF s
    <2>3. \/ now' - s > Timeout
          \/ table'[p][k] # NoFlow /\ (table'[p][k].seen = 0 \/ table'[p][k].seen >= s)
          \/ <<p, k>> \in lost'
      BY <1>3, <2>1, <2>2
    <2> QED BY <2>3 DEF s
  <1> QED BY <1>4, <1>6, <1>7 DEF FInv, LinkInv

-----------------------------------------------------------------------------
(* Each step keeps the invariant. *)

LEMMA DownIs ==
    ASSUME NEW n \in Nat, NEW replica \in [Key -> -1..n]
    PROVE  /\ [Down EXCEPT !.replica = replica] \in LinkBy(n)
           /\ [Down EXCEPT !.replica = replica].pc = "down" /\ [Down EXCEPT !.replica = replica].batch = NoBatch
           /\ Down \in LinkBy(n) /\ Down.pc = "down" /\ Down.batch = NoBatch
           /\ NoReplica \in [Key -> -1..n] /\ Down.gw \in Gateway
  <1>1. (CHOOSE g \in Gateway : TRUE) \in Gateway
    BY FlowAssumption
  <1>2. NoBatch \in BatchBy(n)
    BY OpIs
  <1>3. NoReplica \in [Key -> -1..n]
    BY DEF NoReplica, Unknown
  <1> DEFINE g == CHOOSE x \in Gateway : TRUE
  <1>4. Down = [pc |-> "down", gw |-> g, replica |-> NoReplica,
                pending |-> NoBatch, batch |-> NoBatch, sent |-> 0, full |-> FALSE,
                deaf |-> FALSE, old |-> << >>]
    BY DEF Down
  <1>5. g \in Gateway
    BY <1>1
  <1> HIDE DEF g
  <1>6. 0 \in 0..n /\ FALSE \in BOOLEAN /\ << >> \in Seq(EventBy(n))
    BY EmptySeq
  <1>7. Down \in LinkBy(n)
    BY <1>2, <1>3, <1>4, <1>5, <1>6 DEF LinkBy
  <1>8. Down.pc = "down" /\ Down.batch = NoBatch /\ Down.gw = g
    BY <1>4
  <1>9. [Down EXCEPT !.replica = replica] \in LinkBy(n)
    BY <1>7 DEF LinkBy
  <1>10. [Down EXCEPT !.replica = replica].pc = "down" /\ [Down EXCEPT !.replica = replica].batch = NoBatch
    BY <1>4
  <1> QED BY <1>3, <1>5, <1>7, <1>8, <1>9, <1>10

LEMMA InitHolds == Init => FlowInv
  <1> SUFFICES ASSUME Init PROVE FlowInv
    OBVIOUS
  <1>7. Booted
    <2>1. \A k \in Key : EmptyTable[k].seen = 0
      BY DEF EmptyTable, NoFlow
    <2>2. now = 1 /\ boot = [g \in Gateway |-> 0] /\ table = [g \in Gateway |-> EmptyTable]
      BY DEF Init
    <2> QED BY <2>1, <2>2 DEF Booted
  <1>1. /\ now = 1 /\ master = Down.gw /\ attached = Gateway /\ table = [g \in Gateway |-> EmptyTable]
        /\ ring = [g \in Gateway |-> << >>] /\ sweep = [g \in Gateway |-> {}] /\ link = Down
    BY DEF Init
  <1>2. Down \in LinkBy(now) /\ Down.pc = "down" /\ Down.batch = NoBatch /\ Down.gw \in Gateway
    <2>1. NoReplica \in [Key -> -1..1]
      BY DEF NoReplica, Unknown
    <2> QED BY <1>1, <2>1, DownIs
  <1> HIDE DEF Down
  <1>3. ring \in [Gateway -> Seq(EventBy(now))]
    BY <1>1, EmptySeq
  <1>4. Typed
    BY <1>1, <1>2, <1>3, EmptyIs DEF Typed
  <1>5. link.sent \in Nat
    BY <1>4, LinkIs DEF Typed
  <1>6. Batched
    BY <1>1, <1>2, <1>5, OpIs DEF Batched
  <1> QED BY <1>1, <1>2, <1>4, <1>6, <1>7 DEF FlowInv, FInv, LinkInv, Taken, Backed

(* The end of a session. *)
LEMMA EndKeeps ==
    ASSUME Typed', link'.pc = "down", link'.batch = NoBatch
    PROVE  FInv'
  <1>1. link'.sent \in Nat
    BY DEF Typed, LinkBy
  <1>2. Batched'
    BY <1>1, OpIs DEF Batched
  <1> QED BY <1>2 DEF FInv, LinkInv, Taken, Backed

LEMMA TickKeeps == ASSUME FInv, Tick PROVE FInv'
  <1>0. Typed /\ Batched /\ Taken /\ Backed /\ now \in Nat
    BY DEF FInv, LinkInv, Typed
  <1>1. now' = now + 1 /\ UNCHANGED <<master, attached, table, ring, sweep, link, lost>>
    BY DEF Tick
  <1>2. now' \in Nat /\ now <= now'
    BY <1>0, <1>1
  <1>3. Typed'
    <2>1. TableBy(now) \subseteq TableBy(now') /\ EventBy(now) \subseteq EventBy(now') /\ LinkBy(now) \subseteq LinkBy(now')
      BY <1>0, <1>2, Grows
    <2>2. table' \in [Gateway -> TableBy(now')]
      BY <1>0, <1>1, <2>1 DEF Typed
    <2>3. ring' \in [Gateway -> Seq(EventBy(now'))]
      <3> SUFFICES ASSUME NEW g \in Gateway PROVE ring[g] \in Seq(EventBy(now'))
        BY <1>0, <1>1 DEF Typed
      <3> DEFINE E == EventBy(now)
                 F == EventBy(now')
      <3>1. ring[g] \in Seq(E) /\ E \subseteq F
        BY <1>0, <2>1 DEF Typed
      <3> HIDE DEF E, F
      <3>2. ring[g] \in Seq(F)
        BY <3>1, SeqMonotonic
      <3> QED BY <3>2 DEF F
    <2>4. link' \in LinkBy(now')
      BY <1>0, <1>1, <2>1 DEF Typed
    <2> QED BY <1>0, <1>1, <1>2, <2>2, <2>3, <2>4 DEF Typed
  <1>4. ASSUME NEW p, NEW k, NEW s \in -1..now, KeptAt(p, k, s)
        PROVE  now' - s > Timeout \/ HeldAt(p, k, s) \/ <<p, k>> \in lost
    <2>1. now - s > Timeout => now' - s > Timeout
      BY <1>0, <1>1, FlowAssumption
    <2> QED BY <1>4, <2>1 DEF KeptAt
  <1>5. Batched'
    BY <1>0, <1>1 DEF Batched
  <1>6. Taken'
    <2> SUFFICES ASSUME link.pc = "acked", link.full, NEW k \in Key, link.batch[k].op = "upsert"
                 PROVE  \/ now' - link.batch[k].value.seen > Timeout
                        \/ HeldAt(Far, k, link.batch[k].value.seen) \/ <<Far, k>> \in lost
      BY <1>0, <1>1 DEF Taken, Far, KeptAt, HeldAt
    <2>1. KeptAt(Far, k, link.batch[k].value.seen)
      BY <1>0 DEF Taken
    <2>2. link.batch[k] \in OpBy(now)
      BY <1>0, LinkIs DEF BatchBy
    <2>3. link.batch[k].value.seen \in 0..now
      BY <1>0, <2>2, OpIs, ValueIs
    <2>4. link.batch[k].value.seen \in -1..now
      BY <1>0, <2>3
    <2> QED BY <1>4, <2>1, <2>4
  <1>7. Backed'
    <2> SUFFICES ASSUME link.pc # "down", NEW k \in Key, link.replica[k] # Unknown,
                        ~(link.pc = "acked" /\ link.full /\ link.batch[k] # NoOp)
                 PROVE  \/ now' - link.replica[k] > Timeout
                        \/ HeldAt(Far, k, link.replica[k]) \/ <<Far, k>> \in lost
      BY <1>1 DEF Backed, Far, KeptAt, HeldAt
    <2>1. KeptAt(Far, k, link.replica[k])
      BY <1>0 DEF Backed
    <2>2. link.replica[k] \in -1..now
      BY <1>0, LinkIs
    <2> QED BY <1>4, <2>1, <2>2
  <1> QED BY <1>3, <1>5, <1>6, <1>7 DEF FInv, LinkInv

(* A step of one table that records what it loses alive. *)
LEMMA FadesIs ==
    ASSUME Typed, NEW g \in Gateway, NEW u \in TableBy(now), Moves(table[g], u, now),
           table' = [table EXCEPT ![g] = u], lost' = lost \union Lost(g, u), link.pc # "down"
    PROVE  Fades(Far)
  <1> DEFINE p == Far
  <1>0. table \in [Gateway -> TableBy(now)] /\ now \in Nat /\ p \in Gateway /\ p # link.gw
    BY LinkIs DEF Typed
  <1> SUFFICES Fades(p)
    OBVIOUS
  <1> HIDE DEF p
  <1>1. CASE p # g
    <2>1. table'[p] = table[p]
      BY <1>0, <1>1
    <2> QED BY <2>1 DEF Fades
  <1>2. CASE p = g
    <2>1. table'[p] = u
      BY <1>0, <1>2
    <2>2. ASSUME NEW k \in Key
          PROVE  \/ u[k] = table[g][k] \/ (u[k] # NoFlow /\ u[k].seen = now)
                 \/ k \notin LiveKeys(table[g], now) \/ <<g, k>> \in lost'
      <3>1. CASE u[k] = NoFlow
        BY <1>0, <1>2, <3>1 DEF Lost
      <3> QED BY <3>1 DEF Moves
    <2> QED BY <1>2, <2>1, <2>2 DEF Fades
  <1> QED BY <1>1, <1>2

LEMMA SessionIs == ASSUME UNCHANGED link PROVE SameSession
  BY DEF SameSession

LEMMA PacketKeeps ==
    ASSUME FInv, NEW g \in Gateway, NEW u \in TableBy(now), Moves(table[g], u, now),
           NEW r \in Seq(EventBy(now)), Packet(g, u, r)
    PROVE  FInv'
  <1>0. Typed /\ Far \in Gateway
    BY LinkIs DEF FInv
  <1>1. Typed'
    BY <1>0 DEF Typed, Packet
  <1>2. link.pc # "down" => Fades(Far)
    BY <1>0, FadesIs DEF Packet
  <1> QED BY <1>1, <1>2, WorldKeeps, SessionIs DEF Packet

(* Every packet is a step of the MASTER's table. *)
PacketStep == \E u \in TableBy(now), r \in Seq(EventBy(now)) : Moves(table[master], u, now) /\ Packet(master, u, r)

LEMMA HitIs == ASSUME Typed, NEW c \in Conn, IngressHit(c) PROVE PacketStep
  <1> DEFINE u == Refresh(table[master], Forward(c), now)
  <1>1. /\ now \in Nat /\ table[master] \in TableBy(now) /\ ring[master] \in Seq(EventBy(now))
        /\ Forward(c) \in Key
    BY KeyIs DEF Typed
  <1>2. table[master][Forward(c)] # NoFlow /\ Packet(master, u, ring[master])
    BY DEF IngressHit, LiveKeys, Present
  <1>3. u \in TableBy(now) /\ Moves(table[master], u, now)
    BY <1>1, <1>2, RefreshIs
  <1> HIDE DEF u
  <1> QED BY <1>1, <1>2, <1>3 DEF PacketStep

LEMMA NewFlowIs == ASSUME Typed, NEW c \in Conn, NEW t \in Target, IngressNew(c, t) PROVE PacketStep
  <1> DEFINE k == Forward(c)
             old == table[master][k]
             cleared == IF old # NoFlow THEN RemovePair(table[master], k) ELSE table[master]
             gone == IF old # NoFlow
                     THEN emit_flow_event(ring[master], <<k, Backward(c, old.target)>>, "delete", old)
                     ELSE ring[master]
             value == [target |-> t, seen |-> now]
             u == NewPair(cleared, c, value)
             r == emit_flow_event(gone, <<k, Backward(c, t)>>, "upsert", value)
  <1>1. /\ now \in Nat /\ table[master] \in TableBy(now) /\ ring[master] \in Seq(EventBy(now))
        /\ k \in Key /\ Backward(c, t) \in Key
    BY KeyIs DEF Typed
  <1>2. Packet(master, u, r)
    BY DEF IngressNew
  <1>3. value \in ValueBy(now) /\ value.seen = now
    BY <1>1 DEF ValueBy
  <1>4. cleared \in TableBy(now) /\ \A x \in Key : cleared[x] \in {NoFlow, table[master][x]}
    <2>1. CASE old # NoFlow
      BY <1>1, <2>1, RemoveIs
    <2>2. CASE old = NoFlow
      BY <1>1, <2>2
    <2> QED BY <2>1, <2>2
  <1>5. gone \in Seq(EventBy(now))
    <2>1. CASE old # NoFlow
      <3>1. old \in ValueBy(now)
        BY <1>1, <2>1 DEF TableBy
      <3>2. Backward(c, old.target) \in Key
        BY <1>1, <3>1, ValueIs, KeyIs
      <3> HIDE DEF old, k
      <3>3. emit_flow_event(ring[master], <<k, Backward(c, old.target)>>, "delete", old) \in Seq(EventBy(now))
        BY <1>1, <3>1, <3>2, EmitIs
      <3> QED BY <2>1, <3>3
    <2>2. CASE old = NoFlow
      BY <1>1, <2>2
    <2> QED BY <2>1, <2>2
  <1> HIDE DEF cleared, gone, value, k
  <1>6. u \in TableBy(now) /\ Moves(table[master], u, now)
    BY <1>1, <1>3, <1>4, NewIs
  <1>7. r \in Seq(EventBy(now))
    BY <1>1, <1>3, <1>5, EmitIs
  <1> HIDE DEF u, r
  <1> QED BY <1>2, <1>6, <1>7 DEF PacketStep

LEMMA ReturnIs == ASSUME Typed, NEW c \in Conn, NEW t \in Target, Return(c, t) PROVE PacketStep
  <1> DEFINE k == Backward(c, t)
             old == table[master][k]
  <1>1. /\ now \in Nat /\ table[master] \in TableBy(now) /\ ring[master] \in Seq(EventBy(now))
        /\ k \in Key /\ Forward(c) \in Key /\ old # NoFlow
    BY KeyIs DEF Typed, Return
  <1>2. CASE flow_expired(old, now)
    <2> DEFINE u == RemovePair(table[master], k)
               r == emit_flow_event(ring[master], <<k, Forward(c)>>, "delete", old)
    <2>1. Packet(master, u, r)
      BY <1>2 DEF Return
    <2>2. old \in ValueBy(now)
      BY <1>1 DEF TableBy
    <2> HIDE DEF k
    <2>3. u \in TableBy(now) /\ Moves(table[master], u, now)
      BY <1>1, RemoveIs
    <2> HIDE DEF old
    <2>4. r \in Seq(EventBy(now))
      BY <1>1, <2>2, EmitIs
    <2> HIDE DEF u, r
    <2> QED BY <2>1, <2>3, <2>4 DEF PacketStep
  <1>3. CASE ~flow_expired(old, now)
    <2> DEFINE u == Refresh(table[master], k, now)
    <2>1. Packet(master, u, ring[master])
      BY <1>3 DEF Return
    <2> HIDE DEF k
    <2>2. u \in TableBy(now) /\ Moves(table[master], u, now)
      BY <1>1, RefreshIs
    <2> HIDE DEF u
    <2> QED BY <1>1, <2>1, <2>2 DEF PacketStep
  <1> QED BY <1>2, <1>3

LEMMA PacketStepKeeps == ASSUME FInv, PacketStep PROVE FInv'
  <1>1. PICK u \in TableBy(now), r \in Seq(EventBy(now)) : Moves(table[master], u, now) /\ Packet(master, u, r)
    BY DEF PacketStep
  <1>2. master \in Gateway
    BY DEF FInv, Typed
  <1> QED BY <1>1, <1>2, PacketKeeps

LEMMA UnchangedFades ==
    ASSUME UNCHANGED <<table, lost>>
    PROVE  Fades(Far)
  BY DEF Fades

LEMMA ScanKeeps == ASSUME FInv, NEW g \in Gateway, sweep_scan(g) PROVE FInv'
  <1>0. Typed
    BY DEF FInv
  <1>1. Typed'
    <2>1. Present(table[g]) \ LiveKeys(table[g], now) \subseteq Key
      BY DEF Present
    <2>2. sweep' \in [Gateway -> SUBSET Key]
      BY <1>0, <2>1 DEF Typed, sweep_scan
    <2> QED BY <1>0, <2>2 DEF Typed, sweep_scan
  <1>2. UNCHANGED <<table, lost>> /\ UNCHANGED <<now, link>> /\ attached' = attached
    BY DEF sweep_scan
  <1>3. Fades(Far)
    BY <1>2, UnchangedFades
  <1> QED BY <1>1, <1>2, <1>3, WorldKeeps, SessionIs

(* The second half of a sweep. *)
LEMMA SweptIs ==
    ASSUME Typed, NEW g \in Gateway, sweep_remove(g)
    PROVE  \E u \in TableBy(now) : Moves(table[g], u, now) /\ table' = [table EXCEPT ![g] = u]
                                   /\ lost' = lost \union Lost(g, u)
  <1> DEFINE u == delete_flows(table[g], sweep[g])
  <1>1. now \in Nat /\ table \in [Gateway -> TableBy(now)]
    BY DEF Typed
  <1>2. u \in TableBy(now) /\ Moves(table[g], u, now)
    BY <1>1, DeleteIs
  <1>3. table' = [table EXCEPT ![g] = u] /\ lost' = lost \union Lost(g, u)
    BY <1>1 DEF sweep_remove
  <1> HIDE DEF u
  <1> QED BY <1>2, <1>3

LEMMA RemoveKeeps == ASSUME FInv, NEW g \in Gateway, sweep_remove(g) PROVE FInv'
  <1>0. Typed /\ Far \in Gateway
    BY LinkIs DEF FInv
  <1>1. PICK u \in TableBy(now) : Moves(table[g], u, now) /\ table' = [table EXCEPT ![g] = u]
                                  /\ lost' = lost \union Lost(g, u)
    BY <1>0, SweptIs
  <1>2. UNCHANGED <<now, master, attached, ring, link>> /\ sweep' = [sweep EXCEPT ![g] = {}]
    BY DEF sweep_remove
  <1>3. Typed'
    BY <1>0, <1>1, <1>2 DEF Typed
  <1>4. link.pc # "down" => Fades(Far)
    BY <1>0, <1>1, FadesIs
  <1> QED BY <1>2, <1>3, <1>4, WorldKeeps, SessionIs

LEMMA FailoverKeeps == ASSUME FInv, Failover PROVE FInv'
  <1>0. Typed
    BY DEF FInv
  <1>1. UNCHANGED <<table, lost>> /\ UNCHANGED <<now, link>> /\ UNCHANGED <<ring, sweep, attached>> /\ master' = Peer(master)
    BY DEF Failover
  <1>2. Typed'
    BY <1>0, <1>1, PeerIs DEF Typed
  <1>3. Fades(Far)
    BY <1>1, UnchangedFades
  <1> QED BY <1>1, <1>2, <1>3, WorldKeeps, SessionIs

LEMMA AttachKeeps == ASSUME FInv, NEW g \in Gateway, attach_prepared(g) PROVE FInv'
  <1>0. Typed
    BY DEF FInv
  <1>1. /\ UNCHANGED <<table, lost>> /\ UNCHANGED <<now, link>> /\ UNCHANGED <<ring, sweep, master>>
        /\ attached' = attached \union {g}
    BY DEF attach_prepared
  <1>2. Typed'
    BY <1>0, <1>1 DEF Typed
  <1>3. Fades(Far)
    BY <1>1, UnchangedFades
  <1> QED BY <1>1, <1>2, <1>3, WorldKeeps, SessionIs

LEMMA StutterKeeps == ASSUME FInv, UNCHANGED vars PROVE FInv'
  <1>0. Typed
    BY DEF FInv
  <1>1. /\ UNCHANGED <<table, lost>> /\ UNCHANGED <<now, link>> /\ UNCHANGED <<ring, sweep, master, attached>>
    BY DEF vars
  <1>2. Typed'
    BY <1>0, <1>1 DEF Typed
  <1>3. Fades(Far)
    BY <1>1, UnchangedFades
  <1> QED BY <1>1, <1>2, <1>3, WorldKeeps, SessionIs

(* The maps go: every key is dropped. *)
LEMMA MapsGoneIs ==
    ASSUME Typed, NEW g \in Gateway, MapsGone(g)
    PROVE  /\ EmptyTable \in TableBy(now) /\ Moves(table[g], EmptyTable, now)
           /\ table' = [table EXCEPT ![g] = EmptyTable] /\ lost' = lost \union Lost(g, EmptyTable)
           /\ table' \in [Gateway -> TableBy(now)] /\ sweep' \in [Gateway -> SUBSET Key]
           /\ ring' \in [Gateway -> Seq(EventBy(now))]
  <1>1. EmptyTable \in TableBy(now) /\ << >> \in Seq(EventBy(now))
    BY EmptySeq, EmptyIs DEF Typed
  <1>2. Moves(table[g], EmptyTable, now)
    BY DEF EmptyTable, Moves
  <1>3. /\ table' = [table EXCEPT ![g] = EmptyTable] /\ lost' = lost \union Lost(g, EmptyTable)
        /\ ring' = [ring EXCEPT ![g] = << >>] /\ sweep' = [sweep EXCEPT ![g] = {}]
    BY DEF MapsGone
  <1>4. sweep' \in [Gateway -> SUBSET Key]
    BY <1>3 DEF Typed
  <1>5. ring' \in [Gateway -> Seq(EventBy(now))]
    BY <1>1, <1>3 DEF Typed
  <1> HIDE DEF EmptyTable
  <1>6. table' \in [Gateway -> TableBy(now)]
    BY <1>1, <1>3 DEF Typed
  <1> QED BY <1>1, <1>2, <1>3, <1>4, <1>5, <1>6

LEMMA ReaderIs ==
    ASSUME Typed, NEW g \in Gateway, link' = ReaderLeft(g)
    PROVE  link' \in LinkBy(now) /\ SameSession
  <1>1. link \in LinkBy(now) /\ ring[g] \in Seq(EventBy(now))
    BY DEF Typed
  <1> DEFINE l == [link EXCEPT !.deaf = TRUE, !.old = ring[g]]
  <1>2. CASE link' = link
    BY <1>1, <1>2 DEF SameSession
  <1>3. CASE link' = l
    <2>1. /\ l \in LinkBy(now) /\ l.pc = link.pc /\ l.gw = link.gw /\ l.replica = link.replica
          /\ l.batch = link.batch /\ l.full = link.full /\ l.sent = link.sent
      BY <1>1 DEF LinkBy
    <2> QED BY <1>3, <2>1 DEF SameSession
  <1> QED BY <1>2, <1>3 DEF ReaderLeft

LEMMA MapsKeep == ASSUME FInv, NEW g \in Gateway, cleanup(g) \/ apply(g) PROVE FInv'
  <1>0. Typed
    BY DEF FInv
  <1>1. MapsGone(g) /\ link' = ReaderLeft(g) /\ now' = now /\ master' = master /\ attached' \subseteq attached
    BY DEF cleanup, apply
  <1>2. link' \in LinkBy(now) /\ SameSession
    BY <1>0, <1>1, ReaderIs
  <1>3. Typed'
    BY <1>0, <1>1, <1>2, MapsGoneIs DEF Typed
  <1>4. link.pc # "down" => Fades(Far)
    BY <1>0, <1>1, MapsGoneIs, FadesIs
  <1> QED BY <1>1, <1>2, <1>3, <1>4, WorldKeeps

LEMMA FaultKeeps ==
    ASSUME FInv, LinkBreaks \/ \E g \in Gateway : Restart(g) \/ Stop(g)
    PROVE  FInv'
  <1>0. Typed /\ now \in Nat
    BY DEF FInv, Typed
  <1>1. link.replica \in [Key -> -1..now]
    BY <1>0, LinkIs
  <1>2. link' \in LinkBy(now) /\ link'.pc = "down" /\ link'.batch = NoBatch
    BY <1>0, <1>1, DownIs DEF LinkBreaks, Restart, Stop
  <1>3. Typed'
    <2>1. CASE LinkBreaks
      BY <1>0, <1>2, <2>1 DEF Typed, LinkBreaks
    <2>2. ASSUME NEW g \in Gateway, Restart(g)
          PROVE  Typed'
      BY <1>0, <1>2, <2>2 DEF Typed, Restart
    <2>3. ASSUME NEW g \in Gateway, Stop(g)
          PROVE  Typed'
      <3>1. MapsGone(g) /\ now' = now /\ master' = master /\ attached' \subseteq attached
        BY <2>3 DEF Stop
      <3> QED BY <1>0, <1>2, <3>1, MapsGoneIs DEF Typed
    <2> QED BY <2>1, <2>2, <2>3
  <1> QED BY <1>2, <1>3, EndKeeps

-----------------------------------------------------------------------------
(* The session. *)

LEMMA ConnectKeeps == ASSUME FInv, Connect PROVE FInv'
  <1>0. Typed /\ now \in Nat /\ master \in Gateway
    BY DEF FInv, Typed
  <1>1. NoReplica \in [Key -> -1..now] /\ Down \in LinkBy(now) /\ Down.batch = NoBatch
    <2>1. NoReplica \in [Key -> -1..now]
      BY <1>0 DEF NoReplica, Unknown
    <2> QED BY <1>0, <2>1, DownIs
  <1> DEFINE none == master \notin attached
  <1>2. link' = [Down EXCEPT !.pc = "top", !.gw = master, !.replica = NoReplica, !.deaf = none]
    BY DEF Connect, replica_cleared
  <1>7. none \in BOOLEAN
    OBVIOUS
  <1> HIDE DEF Down, none
  <1>3. link' \in LinkBy(now) /\ link'.pc = "top" /\ link'.batch = NoBatch /\ link'.replica = NoReplica
    BY <1>0, <1>1, <1>2, <1>7 DEF LinkBy
  <1>4. Typed'
    BY <1>0, <1>3 DEF Typed, Connect
  <1>5. Batched'
    <2>1. link'.sent \in Nat
      BY <1>4 DEF Typed, LinkBy
    <2> QED BY <1>3, <2>1, OpIs DEF Batched
  <1>6. \A k \in Key : link'.replica[k] = Unknown
    BY <1>3 DEF NoReplica
  <1> QED BY <1>3, <1>4, <1>5, <1>6 DEF FInv, LinkInv, Taken, Backed

(* The steps between two batches. *)
LEMMA SessionKeeps ==
    ASSUME FInv, Typed', Batched', link.pc \in {"top", "drained"}, link'.pc \in {"top", "drained", "sent"},
           link'.gw = link.gw, link'.replica = link.replica, UNCHANGED <<now, lost>>,
           table'[Far] = table[Far]
    PROVE  FInv'
  <1>0. Typed /\ Batched /\ Backed /\ now \in Nat
    BY DEF FInv, LinkInv, Typed
  <1> DEFINE p == Far
  <1>1. Far' = p
    BY DEF Far
  <1>2. Taken'
    BY DEF Taken
  <1>3. table'[p] = table[p] /\ UNCHANGED <<now, lost>>
    OBVIOUS
  <1>4. Backed
    BY <1>0
  <1>5. Backed'
    <2> SUFFICES ASSUME NEW k \in Key, link.replica[k] # Unknown
                 PROVE  KeptAt(Far, k, link.replica[k])'
      BY DEF Backed
    <2>1. KeptAt(p, k, link.replica[k])
      BY <1>4 DEF Backed, p
    <2>2. link'.replica = link.replica
      OBVIOUS
    <2> HIDE DEF p
    <2> QED BY <1>1, <1>3, <2>1, <2>2 DEF KeptAt, HeldAt
  <1> QED BY <1>2, <1>5 DEF FInv, LinkInv

LEMMA FlushedIs ==
    ASSUME Typed, link.batch = NoBatch, NEW pending \in BatchBy(now), NEW l \in Flushed(pending)
    PROVE  /\ l \in LinkBy(now) /\ l.pc \in {"top", "sent"} /\ l.gw = link.gw /\ l.replica = link.replica
           /\ l.batch \in BatchBy(l.sent) /\ (l.pc # "sent" => l.batch = NoBatch)
  <1>0. now \in Nat /\ link \in LinkBy(now) /\ link.sent \in Nat
    BY DEF Typed, LinkBy
  <1>1. CASE pending = NoBatch
    <2>1. l = [link EXCEPT !.pc = "top", !.pending = NoBatch]
      BY <1>1 DEF Flushed
    <2>2. NoBatch \in BatchBy(now) /\ NoBatch \in BatchBy(link.sent)
      BY <1>0, OpIs
    <2>3. l \in LinkBy(now)
      BY <1>0, <2>1, <2>2 DEF LinkBy
    <2>4. /\ l.pc = "top" /\ l.gw = link.gw /\ l.replica = link.replica
          /\ l.batch = NoBatch /\ l.sent = link.sent
      BY <1>0, <2>1 DEF LinkBy
    <2> QED BY <2>2, <2>3, <2>4
  <1>2. CASE pending # NoBatch
    <2>1. PICK keys \in take_limited_batch(pending) :
             l = [link EXCEPT !.pc = "sent", !.batch = Only(pending, keys),
                              !.pending = Only(pending, Key \ keys), !.sent = now]
      BY <1>2 DEF Flushed
    <2> DEFINE b == Only(pending, keys)
               r == Only(pending, Key \ keys)
    <2>2. b \in BatchBy(now) /\ r \in BatchBy(now)
      BY <1>0, OnlyIs
    <2>3. l = [link EXCEPT !.pc = "sent", !.batch = b, !.pending = r, !.sent = now]
      BY <2>1
    <2>4. now \in 0..now
      BY <1>0
    <2> HIDE DEF b, r
    <2>5. l \in LinkBy(now)
      BY <1>0, <2>2, <2>3, <2>4 DEF LinkBy
    <2>6. l.pc = "sent" /\ l.gw = link.gw /\ l.replica = link.replica /\ l.batch = b /\ l.sent = now
      BY <1>0, <2>3 DEF LinkBy
    <2> QED BY <2>2, <2>5, <2>6
  <1> QED BY <1>1, <1>2

LEMMA FlushedKeeps ==
    ASSUME FInv, link.pc \in {"top", "drained"}, NEW pending \in BatchBy(now), link' \in Flushed(pending),
           UNCHANGED <<now, master, attached, ring, sweep, lost>>, table' \in [Gateway -> TableBy(now)],
           table'[Far] = table[Far]
    PROVE  FInv'
  <1>0. Typed /\ link.batch = NoBatch
    BY DEF FInv, LinkInv, Batched
  <1>1. /\ link' \in LinkBy(now) /\ link'.pc \in {"top", "sent"} /\ link'.gw = link.gw /\ link'.replica = link.replica
        /\ link'.batch \in BatchBy(link'.sent) /\ (link'.pc # "sent" => link'.batch = NoBatch)
    BY <1>0, FlushedIs
  <1>2. Typed'
    BY <1>0, <1>1 DEF Typed
  <1>3. Batched'
    BY <1>1 DEF Batched
  <1> QED BY <1>1, <1>2, <1>3, SessionKeeps

LEMMA DrainKeeps == ASSUME FInv, Drain PROVE FInv'
  <1>0. Typed /\ now \in Nat /\ link \in LinkBy(now) /\ link.batch = NoBatch /\ link.pc = "top"
    BY DEF FInv, LinkInv, Batched, Typed, Drain
  <1>1. UNCHANGED <<now, master, attached, table, sweep, lost>>
    BY DEF Drain
  <1>2. CASE link.gw # master
    <2>1. link' = [Down EXCEPT !.replica = link.replica] /\ ring' = ring
      BY <1>2 DEF Drain
    <2>2. link.replica \in [Key -> -1..now]
      BY <1>0, LinkIs
    <2>3. link' \in LinkBy(now) /\ link'.pc = "down" /\ link'.batch = NoBatch
      BY <1>0, <2>1, <2>2, DownIs
    <2>4. Typed'
      BY <1>0, <1>1, <2>1, <2>3 DEF Typed
    <2> QED BY <2>3, <2>4, EndKeeps
  <1>3. CASE link.gw = master
    <2> DEFINE seq == IF link.deaf THEN link.old ELSE ring[link.gw]
               q == apply_mutations(link.pending, seq)
    <2>1. /\ link' = [link EXCEPT !.pc = "drained", !.old = << >>, !.pending = q]
          /\ ring' = ring \/ ring' = [ring EXCEPT ![link.gw] = << >>]
      BY <1>0, <1>3 DEF Drain, LinkBy
    <2>2. link.pending \in BatchBy(now) /\ seq \in Seq(EventBy(now)) /\ << >> \in Seq(EventBy(now))
      <3>1. ring[link.gw] \in Seq(EventBy(now)) /\ link.old \in Seq(EventBy(now))
        BY <1>0, LinkIs DEF Typed
      <3> QED BY <1>0, <3>1, LinkIs, EmptySeq
    <2> HIDE DEF seq
    <2>3. q \in BatchBy(now)
      BY <1>0, <2>2, MutationsAre
    <2> HIDE DEF q
    <2>4. link' \in LinkBy(now)
      BY <1>0, <2>1, <2>2, <2>3 DEF LinkBy
    <2>5. /\ link'.pc = "drained" /\ link'.gw = link.gw /\ link'.replica = link.replica
          /\ link'.batch = NoBatch /\ link'.sent = link.sent
      BY <1>0, <2>1 DEF LinkBy
    <2>6. ring' \in [Gateway -> Seq(EventBy(now))]
      BY <1>0, <2>1, <2>2 DEF Typed
    <2>7. Typed'
      BY <1>0, <1>1, <2>4, <2>6 DEF Typed
    <2>8. Batched'
      BY <1>0, <2>5 DEF FInv, LinkInv, Batched
    <2> QED BY <1>0, <1>1, <2>5, <2>7, <2>8, SessionKeeps
  <1> QED BY <1>2, <1>3

LEMMA ReconcileKeeps == ASSUME FInv, Reconcile PROVE FInv'
  <1> DEFINE g == link.gw
             swept == delete_flows(table[g], Present(table[g]) \ LiveKeys(table[g], now))
  <1>0. Typed /\ now \in Nat /\ link.pc = "drained" /\ g \in Gateway /\ Far \in Gateway /\ Far # g
    BY LinkIs DEF FInv, Typed, Reconcile
  <1>1. /\ table' = [table EXCEPT ![g] = swept]
        /\ link' \in Flushed(reconcile(link.replica, swept, link.pending))
        /\ UNCHANGED <<now, master, attached, ring, sweep, lost>>
    BY DEF Reconcile
  <1>2. swept \in TableBy(now)
    BY <1>0, LinkIs, DeleteIs
  <1> HIDE DEF g, swept
  <1>3. reconcile(link.replica, swept, link.pending) \in BatchBy(now)
    BY <1>0, <1>2, LinkIs, ReconcileIs
  <1>4. table' \in [Gateway -> TableBy(now)] /\ table'[Far] = table[Far]
    BY <1>0, <1>1, <1>2 DEF Typed
  <1> QED BY <1>0, <1>1, <1>3, <1>4, FlushedKeeps

LEMMA FlushKeeps == ASSUME FInv, Flush PROVE FInv'
  <1>0. Typed /\ link.pending \in BatchBy(now) /\ table \in [Gateway -> TableBy(now)]
    BY LinkIs DEF FInv, Typed
  <1> QED BY <1>0, FlushedKeeps DEF Flush

LEMMA PauseKeeps == ASSUME FInv, Pause PROVE FInv'
  <1>0. Typed /\ link \in LinkBy(now) /\ link.batch = NoBatch
    BY DEF FInv, LinkInv, Batched, Typed, Pause
  <1>1. link' = [link EXCEPT !.pc = "top"] /\ UNCHANGED <<now, master, attached, table, ring, sweep, lost>>
    BY DEF Pause
  <1>2. /\ link' \in LinkBy(now) /\ link'.pc = "top" /\ link'.gw = link.gw /\ link'.replica = link.replica
        /\ link'.batch = NoBatch /\ link'.sent = link.sent
    BY <1>0, <1>1 DEF LinkBy
  <1>3. Typed'
    BY <1>0, <1>1, <1>2 DEF Typed
  <1>4. Batched'
    BY <1>0, <1>2 DEF FInv, LinkInv, Batched
  <1>5. link.pc = "drained"
    BY DEF Pause
  <1> QED BY <1>1, <1>2, <1>3, <1>4, <1>5, SessionKeeps

LEMMA ReplicateKeeps == ASSUME FInv, Booted, Replicate PROVE FInv'
  <1> DEFINE p == Far
             b == link.batch
             s == link.sent
             u == apply_proto_request(table[p], b, s, p)
  <1>0. Typed /\ Batched /\ Backed /\ now \in Nat /\ link \in LinkBy(now)
    BY DEF FInv, LinkInv, Typed
  <1>1. link.pc = "sent" /\ UNCHANGED <<now, master, attached, ring, sweep>>
    BY DEF Replicate
  <1>2. /\ p \in Gateway /\ table[p] \in TableBy(now) /\ s \in 0..now /\ b \in BatchBy(s)
        /\ table \in [Gateway -> TableBy(now)] /\ link.replica \in [Key -> -1..now]
    BY <1>0, LinkIs DEF Batched, Typed
  <1>3. CASE p = master
    <2>1. link' = [Down EXCEPT !.replica = link.replica] /\ UNCHANGED <<table, lost>>
      BY <1>3 DEF Replicate, Far
    <2>2. link' \in LinkBy(now) /\ link'.pc = "down" /\ link'.batch = NoBatch
      BY <1>0, <1>2, <2>1, DownIs
    <2>3. Typed'
      BY <1>0, <1>1, <2>1, <2>2 DEF Typed
    <2> QED BY <2>2, <2>3, EndKeeps
  <1>4. CASE p # master
    <2> DEFINE full == p \in attached
    <2>1. link' = [link EXCEPT !.pc = "acked", !.full = full]
      BY <1>4 DEF Replicate, Far
    <2>2. full \in BOOLEAN
      OBVIOUS
    <2>3. full => table' = [table EXCEPT ![p] = u] /\ lost' = lost \ {<<p, k>> : k \in OpsOf(b, "upsert")}
      BY <1>2, <1>4 DEF Replicate, Far
    <2>4. ~full => UNCHANGED <<table, lost>>
      BY <1>4 DEF Replicate, Far
    <2>5. p \in attached <=> full
      OBVIOUS
    <2> HIDE DEF full
    <2>6. link' \in LinkBy(now)
      BY <1>0, <2>1, <2>2 DEF LinkBy
    <2>7. /\ link'.pc = "acked" /\ link'.full = full /\ link'.gw = link.gw /\ link'.replica = link.replica
          /\ link'.batch = b /\ link'.sent = s
      BY <1>0, <2>1 DEF LinkBy
    <2>8. Far' = p /\ Peer(link.gw)' = p /\ Peer(link.gw) = p
      BY <2>7 DEF Far
    <2>9. Batched'
      BY <1>2, <2>7 DEF Batched
    <2>10. CASE full
      <3>1. /\ u \in TableBy(now)
            /\ \A k \in Key : /\ b[k].op = "upsert" => u[k] # NoFlow /\ (u[k].seen = 0 \/ u[k].seen >= b[k].value.seen)
                              /\ b[k].op \notin {"upsert", "delete"} => u[k] = table[p][k]
        BY <1>0, <1>2, ApplyIs
      <3>2. table' = [table EXCEPT ![p] = u] /\ lost' = lost \ {<<p, k>> : k \in OpsOf(b, "upsert")}
        BY <2>3, <2>10
      <3>b. b = link.batch /\ \A k \in Key : \/ link.replica[k] = Unknown \/ KeptAt(p, k, link.replica[k])
        BY <1>0, <1>1 DEF Backed
      <3> HIDE DEF u, p, b, s
      <3>3. table' \in [Gateway -> TableBy(now)] /\ table'[p] = u
        BY <1>2, <3>1, <3>2
      <3>4. Typed'
        BY <1>0, <1>1, <2>6, <3>3 DEF Typed
      <3>5. Taken'
        <4>1. ASSUME NEW k \in Key, b[k].op = "upsert"
              PROVE  table'[p][k] # NoFlow /\ (table'[p][k].seen = 0 \/ table'[p][k].seen >= b[k].value.seen)
          BY <3>1, <3>3, <4>1
        <4> QED BY <2>7, <2>8, <4>1 DEF Taken, KeptAt, HeldAt
      <3>6. Backed'
        <4> SUFFICES ASSUME NEW k \in Key, link.replica[k] # Unknown, b[k] = NoOp
                     PROVE  \/ now - link.replica[k] > Timeout
                            \/ u[k] # NoFlow /\ (u[k].seen = 0 \/ u[k].seen >= link.replica[k])
                            \/ <<p, k>> \in lost'
          BY <1>1, <2>7, <2>8, <2>10, <3>3 DEF Backed, KeptAt, HeldAt
        <4>1. b[k].op = "none"
          BY DEF NoOp
        <4>2. u[k] = table[p][k]
          BY <3>1, <4>1
        <4>3. k \notin OpsOf(b, "upsert")
          BY <4>1 DEF OpsOf
        <4>4. <<p, k>> \in lost => <<p, k>> \in lost'
          BY <3>2, <4>3
        <4> QED BY <3>b, <4>2, <4>4 DEF KeptAt, HeldAt
      <3> QED BY <2>9, <3>4, <3>5, <3>6 DEF FInv, LinkInv
    <2>11. CASE ~full
      <3>1. Typed'
        BY <1>0, <1>1, <2>4, <2>6, <2>11 DEF Typed
      <3>2. \A k \in Key : link.replica[k] = Unknown \/ KeptAt(p, k, link.replica[k])
        BY <1>0, <1>1 DEF Backed
      <3>3. UNCHANGED <<now, table, lost>>
        BY <1>1, <2>4, <2>11
      <3> HIDE DEF p
      <3>4. Taken' /\ Backed'
        BY <2>7, <2>8, <2>11, <3>2, <3>3 DEF Taken, Backed, KeptAt, HeldAt
      <3> QED BY <2>9, <3>1, <3>4 DEF FInv, LinkInv
    <2> QED BY <2>10, <2>11
  <1> QED BY <1>3, <1>4

LEMMA AckKeeps == ASSUME FInv, Ack PROVE FInv'
  <1> DEFINE b == link.batch
             r == IF link.full THEN Acknowledged(link.replica, b) ELSE link.replica
             q == IF link.full THEN link.pending ELSE requeue_batch(link.pending, b)
  <1>0. Typed /\ Batched /\ Taken /\ Backed /\ now \in Nat /\ link \in LinkBy(now)
    BY DEF FInv, LinkInv, Typed
  <1>1. link.pc = "acked" /\ UNCHANGED <<now, master, attached, table, ring, sweep, lost>>
    BY DEF Ack
  <1>2. link' = [link EXCEPT !.pc = "top", !.batch = NoBatch, !.sent = 0, !.full = FALSE, !.replica = r, !.pending = q]
    BY <1>0 DEF Ack, flow_ack_covers_sent, LinkBy
  <1>3. b \in BatchBy(now) /\ link.pending \in BatchBy(now) /\ link.replica \in [Key -> -1..now] /\ link.full \in BOOLEAN
    BY <1>0, LinkIs
  <1>4. r \in [Key -> -1..now]
    BY <1>0, <1>3, AcknowledgedIs
  <1>5. q \in BatchBy(now)
    BY <1>0, <1>3, RequeueIs
  <1>6. link.full => r = Acknowledged(link.replica, b)
    OBVIOUS
  <1>7. ~link.full => r = link.replica
    OBVIOUS
  <1> HIDE DEF r, q
  <1>8. NoBatch \in BatchBy(now) /\ NoBatch \in BatchBy(0) /\ 0 \in 0..now
    BY <1>0, OpIs
  <1>9. link' \in LinkBy(now)
    BY <1>0, <1>2, <1>4, <1>5, <1>8 DEF LinkBy
  <1>10. link'.pc = "top" /\ link'.gw = link.gw /\ link'.replica = r /\ link'.batch = NoBatch /\ link'.sent = 0
    BY <1>0, <1>2 DEF LinkBy
  <1>11. Typed'
    BY <1>0, <1>1, <1>9 DEF Typed
  <1>12. Batched' /\ Taken'
    BY <1>8, <1>10 DEF Batched, Taken
  <1>13. Far' = Far
    BY <1>10 DEF Far
  <1>14. ASSUME NEW k \in Key, r[k] # Unknown
         PROVE  KeptAt(Far, k, r[k])
    <2>1. CASE link.full
      <3>1. r[k] = IF b[k].op = "upsert" THEN b[k].value.seen ELSE IF b[k].op = "delete" THEN Unknown ELSE link.replica[k]
        BY <1>6, <2>1 DEF Acknowledged
      <3>2. CASE b[k].op = "upsert"
        BY <1>0, <1>1, <2>1, <3>1, <3>2 DEF Taken
      <3>3. CASE b[k].op # "upsert"
        <4>1. b[k].op \notin {"upsert", "delete"} /\ r[k] = link.replica[k]
          BY <1>14, <3>1, <3>3
        <4>2. b[k] \in OpBy(now)
          BY <1>3 DEF BatchBy
        <4>3. b[k] = NoOp
          BY <1>0, <4>1, <4>2, OpIs
        <4> QED BY <1>0, <1>1, <1>14, <4>1, <4>3 DEF Backed
      <3> QED BY <3>2, <3>3
    <2>2. CASE ~link.full
      <3>1. r[k] = link.replica[k]
        BY <1>7, <2>2
      <3> QED BY <1>0, <1>1, <1>14, <2>2, <3>1 DEF Backed
    <2> QED BY <2>1, <2>2
  <1>15. Backed'
    <2> DEFINE p == Far
    <2>1. Far' = p /\ \A k \in Key : r[k] # Unknown => KeptAt(p, k, r[k])
      BY <1>13, <1>14
    <2> HIDE DEF p
    <2> QED BY <1>1, <1>10, <2>1 DEF Backed, KeptAt, HeldAt
  <1> QED BY <1>11, <1>12, <1>15 DEF FInv, LinkInv

-----------------------------------------------------------------------------
(* The theorems. *)

LEMMA StepKeeps == FlowInv /\ [Next]_vars => FInv'
  <1> SUFFICES ASSUME FInv, Booted, [Next]_vars PROVE FInv'
    BY DEF FlowInv
  <1>0. Typed
    BY DEF FInv
  <1>1. CASE Tick
    BY <1>1, TickKeeps
  <1>2. CASE \E c \in Conn : IngressHit(c)
    BY <1>0, <1>2, HitIs, PacketStepKeeps
  <1>3. CASE \E c \in Conn, t \in Target : IngressNew(c, t)
    BY <1>0, <1>3, NewFlowIs, PacketStepKeeps
  <1>4. CASE \E c \in Conn, t \in Target : Return(c, t)
    BY <1>0, <1>4, ReturnIs, PacketStepKeeps
  <1>5. CASE \E g \in Gateway : sweep_scan(g)
    BY <1>5, ScanKeeps
  <1>6. CASE \E g \in Gateway : sweep_remove(g)
    BY <1>6, RemoveKeeps
  <1>7. CASE Connect
    BY <1>7, ConnectKeeps
  <1>8. CASE Drain
    BY <1>8, DrainKeeps
  <1>9. CASE Reconcile
    BY <1>9, ReconcileKeeps
  <1>10. CASE Flush
    BY <1>10, FlushKeeps
  <1>11. CASE Pause
    BY <1>11, PauseKeeps
  <1>12. CASE Replicate
    BY <1>12, ReplicateKeeps
  <1>13. CASE Ack
    BY <1>13, AckKeeps
  <1>14. CASE LinkBreaks \/ \E g \in Gateway : Restart(g) \/ Stop(g)
    BY <1>14, FaultKeeps
  <1>15. CASE Failover
    BY <1>15, FailoverKeeps
  <1>16. CASE \E g \in Gateway : attach_prepared(g)
    BY <1>16, AttachKeeps
  <1>18. CASE \E g \in Gateway : cleanup(g) \/ apply(g)
    BY <1>18, MapsKeep
  <1>17. CASE UNCHANGED vars
    BY <1>17, StutterKeeps
  <1> QED BY <1>1, <1>2, <1>3, <1>4, <1>5, <1>6, <1>7, <1>8, <1>9, <1>10, <1>11, <1>12,
             <1>13, <1>14, <1>15, <1>16, <1>17, <1>18 DEF Next

(* A table step in which one table changes. *)
LEMMA OneMoves ==
    ASSUME Typed, NEW h \in Gateway, NEW u, Moves(table[h], u, now), table' = [table EXCEPT ![h] = u],
           NEW g \in Gateway
    PROVE  Moves(table[g], table'[g], now)
  <1>1. table \in [Gateway -> TableBy(now)]
    BY DEF Typed
  <1>2. CASE g = h
    BY <1>1, <1>2
  <1>3. CASE g # h
    <2>1. table'[g] = table[g]
      BY <1>1, <1>3
    <2> QED BY <2>1 DEF Moves
  <1> QED BY <1>2, <1>3

(* A replicated batch aside, a table drops, keeps or refreshes its keys. *)
LEMMA TableMoves ==
    ASSUME FInv, Next, NEW g \in Gateway
    PROVE  \/ Moves(table[g], table'[g], now)
           \/ /\ Replicate /\ g = Far
              /\ table' = [table EXCEPT ![g] = apply_proto_request(table[g], link.batch, link.sent, g)]
  <1>0. Typed /\ now \in Nat /\ table \in [Gateway -> TableBy(now)] /\ master \in Gateway
    BY DEF FInv, Typed
  <1>1. CASE UNCHANGED table
    BY <1>1 DEF Moves
  <1>2. CASE PacketStep
    <2>1. PICK u \in TableBy(now), r \in Seq(EventBy(now)) : Moves(table[master], u, now) /\ Packet(master, u, r)
      BY <1>2 DEF PacketStep
    <2> QED BY <1>0, <2>1, OneMoves DEF Packet
  <1>3. ASSUME NEW h \in Gateway, sweep_remove(h)
        PROVE  Moves(table[g], table'[g], now)
    BY <1>0, <1>3, SweptIs, OneMoves
  <1>4. CASE Reconcile
    <2> DEFINE h == link.gw
               u == delete_flows(table[h], Present(table[h]) \ LiveKeys(table[h], now))
    <2>1. h \in Gateway /\ table[h] \in TableBy(now) /\ table' = [table EXCEPT ![h] = u]
      BY <1>0, <1>4, LinkIs DEF Reconcile
    <2>2. Moves(table[h], u, now)
      BY <1>0, <2>1, DeleteIs
    <2> HIDE DEF h, u
    <2> QED BY <1>0, <2>1, <2>2, OneMoves
  <1>5. CASE Replicate /\ table' # table
    <2> DEFINE h == Far
               u == apply_proto_request(table[h], link.batch, link.sent, h)
    <2>1. h \in Gateway /\ table' = [table EXCEPT ![h] = u]
      BY <1>0, <1>5, LinkIs DEF Replicate, Far
    <2>2. CASE g = h
      BY <1>5, <2>1, <2>2
    <2>3. CASE g # h
      <3> HIDE DEF u, h
      <3>1. table'[g] = table[g]
        BY <1>0, <2>1, <2>3
      <3> QED BY <3>1 DEF Moves
    <2> QED BY <2>2, <2>3
  <1>6. ASSUME NEW h \in Gateway, MapsGone(h)
        PROVE  Moves(table[g], table'[g], now)
    BY <1>0, <1>6, MapsGoneIs, OneMoves
  <1>7. (\E c \in Conn : IngressHit(c)) \/ (\E c \in Conn, t \in Target : IngressNew(c, t) \/ Return(c, t)) => PacketStep
    BY <1>0, HitIs, NewFlowIs, ReturnIs
  <1>8. \/ UNCHANGED table \/ PacketStep \/ (\E h \in Gateway : sweep_remove(h)) \/ Reconcile
        \/ (Replicate /\ table' # table) \/ (\E h \in Gateway : MapsGone(h))
    BY <1>7 DEF Next, Tick, sweep_scan, Connect, Drain, Flush, Pause, Ack, LinkBreaks, Failover, Restart,
                Stop, cleanup, apply, attach_prepared
  <1> QED BY <1>1, <1>2, <1>3, <1>4, <1>5, <1>6, <1>8

(* What a batch writes. *)
LEMMA AppliedIs ==
    ASSUME FInv, Booted, NEW g \in Gateway, g = Far
    PROVE  /\ StepsOn(table[g], apply_proto_request(table[g], link.batch, link.sent, g))
           /\ \A k \in Key : LET w == apply_proto_request(table[g], link.batch, link.sent, g)[k]
                             IN  w.seen # 0 => w.seen >= boot[g]
  <1>1. /\ now \in Nat /\ table[g] \in TableBy(now) /\ link.sent \in 0..now
        /\ link.batch \in BatchBy(link.sent)
    BY LinkIs DEF FInv, LinkInv, Batched, Typed
  <1> QED BY <1>1, ApplyIs

LEMMA BootedKept == FlowInv /\ [Next]_vars => Booted'
  <1> SUFFICES ASSUME FInv, Booted, [Next]_vars PROVE Booted'
    BY DEF FlowInv
  <1>1. CASE UNCHANGED vars
    BY <1>1 DEF vars, Booted
  <1>2. CASE Next
    <2>0. /\ now \in Nat /\ table \in [Gateway -> TableBy(now)]
          /\ boot \in [Gateway -> Nat] /\ \A g \in Gateway : boot[g] <= now
      BY DEF FInv, Typed, Booted
    <2>a. now' = now \/ now' = now + 1
      BY <1>2, Zenon DEF Next, Tick, IngressHit, IngressNew, Return, Packet, sweep_scan, sweep_remove, Connect, Drain,
          Reconcile, Flush, Pause, Replicate, Ack, LinkBreaks, Failover, Restart, Stop, cleanup, apply, attach_prepared, MapsGone
    <2>1. now' \in Nat /\ now <= now'
      BY <2>0, <2>a
    <2>2. ASSUME NEW h \in Gateway, Stop(h)
          PROVE  Booted'
      <3>1. /\ boot' = boot \/ boot' = [boot EXCEPT ![h] = now]
            /\ table' = [table EXCEPT ![h] = EmptyTable] /\ now' = now
        BY <2>2 DEF Stop, MapsGone
      <3>2. \A k \in Key : EmptyTable[k].seen = 0
        BY DEF EmptyTable, NoFlow
      <3>3. boot' \in [Gateway -> Nat] /\ \A g \in Gateway : boot'[g] <= now'
        BY <2>0, <3>1
      <3>4. ASSUME NEW g \in Gateway, NEW k \in Key, table'[g][k].seen # 0
            PROVE  table'[g][k].seen >= boot'[g]
        <4>1. CASE g = h
          BY <2>0, <3>1, <3>2, <3>4, <4>1
        <4>2. CASE g # h
          <5>1. table'[g] = table[g] /\ boot'[g] = boot[g]
            BY <2>0, <3>1, <4>2
          <5> QED BY <3>4, <5>1 DEF Booted
        <4> QED BY <4>1, <4>2
      <3> QED BY <3>3, <3>4 DEF Booted
    <2>3. CASE boot' = boot
      <3> SUFFICES ASSUME NEW g \in Gateway, NEW k \in Key, table'[g][k].seen # 0
                   PROVE  table'[g][k].seen >= boot[g]
        BY <2>0, <2>1, <2>3 DEF Booted
      <3>1. boot[g] \in Nat /\ boot[g] <= now /\ (table[g][k].seen # 0 => table[g][k].seen >= boot[g])
        BY <2>0 DEF Booted
      <3>2. CASE Moves(table[g], table'[g], now)
        <4>1. NoFlow.seen = 0
          BY DEF NoFlow
        <4> QED BY <2>0, <3>1, <3>2, <4>1 DEF Moves
      <3>3. CASE ~Moves(table[g], table'[g], now)
        <4> DEFINE u == apply_proto_request(table[g], link.batch, link.sent, g)
        <4>1. g = Far /\ table' = [table EXCEPT ![g] = u]
          BY <1>2, <3>3, TableMoves
        <4>2. \A x \in Key : u[x].seen # 0 => u[x].seen >= boot[g]
          BY <4>1, AppliedIs
        <4> HIDE DEF u
        <4>3. table'[g] = u
          BY <2>0, <4>1
        <4> QED BY <4>2, <4>3
      <3> QED BY <3>2, <3>3
    <2>4. boot' = boot \/ \E h \in Gateway : Stop(h)
      BY <1>2 DEF Next, Tick, IngressHit, IngressNew, Return, Packet, sweep_scan, sweep_remove, Connect, Drain,
          Reconcile, Flush, Pause, Replicate, Ack, LinkBreaks, Failover, Restart, cleanup, apply, attach_prepared
    <2> QED BY <2>2, <2>3, <2>4
  <1> QED BY <1>1, <1>2

(* Nothing in the tables, the rings or the session is younger than the clock,
   nothing but a zero older than the clock of its host, a batch under way is not
   younger than its departure, and what a full answer covers is at the peer
   (xsync.rs, the worker loop and the apply handler). *)
THEOREM FlowSyncInv == Spec => []FlowInv
  <1>1. FlowInv /\ [Next]_vars => FlowInv'
    BY StepKeeps, BootedKept DEF FlowInv
  <1> QED BY <1>1, InitHolds, PTL DEF Spec

(* What the sender's index says the peer holds, the peer holds at least as
   fresh: through full and empty answers, broken streams, restarts, shutdowns,
   reboots and any number of failovers within or between sessions.  What the
   peer lost alive, with its maps replaced or removed under the session, in a
   sweep or with its other half, is exempt, and nothing else. *)
THEOREM FlowsAcked == Spec => []AckedIsHeld
  <1>1. FlowInv => AckedIsHeld
    <2> SUFFICES ASSUME Batched, Backed, link.pc # "down", NEW k \in Key, link.replica[k] # Unknown, link.batch[k] = NoOp
                 PROVE  now - link.replica[k] > Timeout \/ HeldAt(Far, k, link.replica[k]) \/ <<Far, k>> \in lost
      BY DEF FlowInv, FInv, LinkInv, AckedIsHeld, Far
    <2> QED BY DEF Backed, KeptAt
  <1> QED BY <1>1, FlowSyncInv, PTL

LEMMA TableAdvances ==
    ASSUME FInv, Booted, Next, NEW g \in Gateway
    PROVE  StepsOn(table[g], table'[g])
  <1>0. now \in Nat /\ table \in [Gateway -> TableBy(now)] /\ table[g] \in TableBy(now)
    BY DEF FInv, Typed
  <1>1. CASE Moves(table[g], table'[g], now)
    BY <1>0, <1>1, MovesAdvance
  <1>2. CASE ~Moves(table[g], table'[g], now)
    <2> DEFINE u == apply_proto_request(table[g], link.batch, link.sent, g)
    <2>1. g = Far /\ table' = [table EXCEPT ![g] = u]
      BY <1>2, TableMoves
    <2>2. StepsOn(table[g], u)
      BY <2>1, AppliedIs
    <2> HIDE DEF u
    <2>3. table'[g] = u
      BY <1>0, <2>1
    <2> QED BY <2>2, <2>3
  <1> QED BY <1>1, <1>2

(* No packet, sweep, reconcile, replicated batch or restart makes a flow older
   than its table knew it: a batch carries ages, an entry applied late is
   written with the age it had when it was sent, and one whose age reaches back
   before the host's clock is written only where there is none. *)
THEOREM FlowsAdvance == Spec => NeverRegresses
  <1>1. FlowInv /\ [Next]_vars =>
            [\A g \in Gateway, k \in Key : table'[g][k] # NoFlow => table'[g][k].seen >= table[g][k].seen]_vars
    <2> SUFFICES ASSUME FInv, Booted, Next, NEW g \in Gateway, NEW k \in Key, table'[g][k] # NoFlow
                 PROVE  table'[g][k].seen >= table[g][k].seen
      BY DEF FlowInv
    <2>1. StepsOn(table[g], table'[g])
      BY TableAdvances
    <2> QED BY <2>1 DEF StepsOn
  <1> QED BY <1>1, FlowSyncInv, PTL DEF Spec, NeverRegresses

=============================================================================
