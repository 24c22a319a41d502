---------------------------- MODULE MCPeerWrites ----------------------------
EXTENDS PeerWrites, TLC
CONSTANTS a, b
(* One MASTER, two, and none; the two gateways are alike. *)
MCRoles == {a :> a @@ b :> a, a :> a @@ b :> b, a :> b @@ b :> a}
MCPeer == a :> b @@ b :> a
=============================================================================
