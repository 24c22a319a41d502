--------------------------- MODULE MCGatewayLoop ---------------------------
(* Small instances of GatewayLoop for TLC. *)
EXTENDS GatewayLoop
CONSTANTS t1, t2
TwoBackends == <<t1, t2>>
Monitored == {[bound |-> TRUE, probe |-> p, group |-> Target] : p \in Probe}
=============================================================================
