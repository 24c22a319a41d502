---------------------------- MODULE MCHaFailover ----------------------------
(* Instances of HaFailover for TLC: the gateways a (preferred) and b.      *)
EXTENDS HaFailover, TLC

CONSTANTS a, b

MCPeer == (a :> b) @@ (b :> a)

NoSkew == [n \in Node |-> 0]

(* The clock of the preferred gateway is ahead.                            *)
PreferredAhead == [n \in Node |-> IF n = a THEN 2 ELSE 0]

(* Outages or failing changes of the VIP, not both in one behaviour.       *)
OneKind ==
    { [switches |-> 0, outages |-> MaxOutages, viperrors |-> 0],
      [switches |-> 0, outages |-> 0, viperrors |-> MaxVipErrors] }

(* Switchovers or outages, not both in one behaviour.                      *)
SwitchOrOutage ==
    { [switches |-> MaxSwitches, outages |-> 0, viperrors |-> 0],
      [switches |-> 0, outages |-> MaxOutages, viperrors |-> 0] }

(* The instance without losses is one of those the proof is about.         *)
ASSUME GentleAssumption == MaxLosses = 0 => Gentle
=============================================================================
