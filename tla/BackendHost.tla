---------------------------- MODULE BackendHost ----------------------------
(***************************************************************************)
(* The kernel state of a backend: the return VXLAN device with its local   *)
(* addresses and its flood peers (edge-lb/src/linux/net.rs), and the       *)
(* return contract of the redirect programs (linux/backend_redirect.rs).   *)
(* An operation that makes several netlink calls is a sequence of hosts;   *)
(* a failing call leaves the host at one of them.                          *)
(***************************************************************************)
EXTENDS Integers, Sequences, SequencesExt

NoMap == {<<"none">>}

(* Nothing of edge-lb is on the host. *)
BareHost == [dev |-> "absent", addrs |-> {}, peers |-> {}, map |-> NoMap]

(* The device is missing, or has another vni, port or remote. *)
drifted(h) == h.dev \in {"absent", "drifted"}

(* A new device has no addresses and no peers, and a contract with the old
   one's ifindex is void. *)
add_vxlan(h) == [h EXCEPT !.dev = "down", !.addrs = {}, !.peers = {}, !.map = NoMap]

(* A device of another tunnel is deleted before the new one is added. *)
delete_link(h) == IF h.dev = "drifted" THEN BareHost ELSE h

ensure_vxlan_without_addresses(h) == IF drifted(h) THEN add_vxlan(h) ELSE h

(* Every address is removed and the wanted ones are added: an address with its
   prefix never parses as a plain address, so none is recognised as kept. *)
ensure_local_addrs(h, addrs) == [h EXCEPT !.addrs = addrs]

set_link(h) == [h EXCEPT !.dev = "ours"]

(* Peers are only appended. *)
sync_vxlan_peers(h, peers) == [h EXCEPT !.peers = @ \union peers]

(* The hosts ensure_vxlan_multipoint goes through. *)
ensure_vxlan_multipoint(h, addrs, peers) ==
    LET created == ensure_vxlan_without_addresses(h)
        bare == ensure_local_addrs(created, {})
        addressed == ensure_local_addrs(created, addrs)
        linked == set_link(addressed)
    IN <<h, delete_link(h), created, bare, addressed, linked, sync_vxlan_peers(linked, peers)>>

(* An attachment of this process with the same contract is kept, else the old one
   is dropped and a new object attached: the DSCP of every path selects its gateway. *)
redirect_apply(h, paths) == [h EXCEPT !.map = paths]

(* Preparing the new object fails and the old attachment stays, or a neighbour
   does not resolve, a map or a filter is refused, once the old one was dropped. *)
redirect_failures(h) == {h, [h EXCEPT !.map = NoMap]}

(* Every DSCP names one gateway (return_contract.rs). *)
validate(paths) == \A p, q \in paths : p[2] = q[2] => p = q

(* What a successful apply leaves. *)
Carries(h, addrs, peers, paths) ==
    /\ h.dev = "ours" /\ h.addrs = addrs /\ peers \subseteq h.peers
    /\ h.map = paths
=============================================================================
