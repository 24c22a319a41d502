----------------------------- MODULE FlowTable -----------------------------
(***************************************************************************)
(* The native flow table: what a packet, a replicated batch and a sweep do *)
(* to it (edge-lb-ebpf/src/main.rs, edge-lb/src/linux/native_dnat.rs).     *)
(*                                                                         *)
(* A connection c (client endpoint, VIP, protocol) has a forward key <<c>> *)
(* and, once a target t is selected, a reverse key <<c, t>> (Backward):    *)
(* the target's and the client's endpoints.  Both keys hold the same       *)
(* value: the cached target and the time of the last packet.               *)
(***************************************************************************)
EXTENDS Integers, FiniteSets, FiniteSetsExt

CONSTANTS
    Conn,       \* client connections
    Target,     \* the targets a listener may select
    NoTarget,   \* fills the value of an absent key
    Timeout     \* idle timeout of the listener, in ticks

Forward(c) == <<c>>
Backward(c, t) == <<c, t>>
Key == {Forward(c) : c \in Conn} \union {Backward(c, t) : c \in Conn, t \in Target}
NoFlow == [target |-> NoTarget, seen |-> 0]
Value == [target : Target, seen : Nat]
EmptyTable == [k \in Key |-> NoFlow]

Present(table) == {k \in Key : table[k] # NoFlow}
(* A last-seen of 0 never expires, here and in the programs. *)
flow_expired(value, now) == value.seen # 0 /\ now - value.seen > Timeout
LiveKeys(table, now) == {k \in Present(table) : ~flow_expired(table[k], now)}

(* The two keys of a flow, from either of them. *)
PairOf(k, value) == {Forward(k[1]), Backward(k[1], value.target)}

(* A packet of a known flow keeps the cached target and refreshes both keys. *)
Refresh(table, k, now) ==
    LET pair == PairOf(k, table[k])
        value == [table[k] EXCEPT !.seen = now]
    IN  [x \in Key |-> IF x \in pair THEN value ELSE table[x]]

(* An expired flow is removed under both keys. *)
RemovePair(table, k) ==
    [x \in Key |-> IF x \in PairOf(k, table[k]) THEN NoFlow ELSE table[x]]

(* A new flow is inserted under both keys. *)
NewPair(table, c, value) ==
    [x \in Key |-> IF x \in {Forward(c), Backward(c, value.target)} THEN value ELSE table[x]]

(* Mutant: a replicated entry replaces whatever is there. *)
flow_apply_always(local, replica) == TRUE

(* A replicated or restored entry is written when it is new or strictly fresher. *)
flow_apply_applies(local, replica) ==
    local = NoFlow \/ replica.seen > local.seen

(* Entries: a table whose absent keys carry nothing. *)
upsert_flows(table, entries) ==
    [k \in Key |-> IF entries[k] # NoFlow /\ flow_apply_applies(table[k], entries[k])
                   THEN entries[k] ELSE table[k]]

delete_flows(table, keys) ==
    [k \in Key |-> IF k \in keys THEN NoFlow ELSE table[k]]
=============================================================================
