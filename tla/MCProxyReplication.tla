------------------------- MODULE MCProxyReplication -------------------------
(* Instances of ProxyReplication for TLC: the gateways a and b.            *)
EXTENDS ProxyReplication, TLC

CONSTANTS a, b, g, x

MCPeer == (a :> b) @@ (b :> a)

MCFile(groups) ==
    [ target_groups |-> [h \in Group |-> IF h \in groups THEN x ELSE NoTargets],
      listeners     |-> [l \in Listener |-> NoGroup],
      vip_ips       |-> [l \in Listener |-> {}] ]

MCSameFile == [n \in Node |-> MCFile({})]

Symmetry == Permutations(Node) \cup Permutations(Token)

(* The file of a configures nothing, the file of b one target group.       *)
MCFileConfig == (a :> MCFile({})) @@ (b :> MCFile({g}))
=============================================================================
