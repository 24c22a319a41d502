----------------------------- MODULE ProxyConfig -----------------------------
(***************************************************************************)
(* The business configuration of a gateway (listeners and target groups),  *)
(* the edits the management API applies to it, and the projection that is  *)
(* replicated to the HA peer.                                              *)
(*                                                                         *)
(* A target group is its name and its target list; a listener is its name, *)
(* the target group it forwards to and the VIP addresses configured on it. *)
(* Ports, protocols, selectors and probes are left out: no rule kept here  *)
(* reads them.                                                             *)
(***************************************************************************)
CONSTANTS
    Group,      \* target-group names
    Targets,    \* target lists
    Listener,   \* listener names
    Vip,        \* addresses a listener may carry in vip_ips
    NoTargets,  \* "this target-group name is not configured"
    NoGroup     \* "this listener name is not configured"

ASSUME NoGroupAssumption == NoGroup \notin Group /\ NoTargets \notin Targets

TargetGroups == [Group -> Targets \cup {NoTargets}]
Listeners == [Listener -> Group \cup {NoGroup}]
VipIps == [Listener -> SUBSET Vip]

ProxyConfigs == [target_groups : TargetGroups, listeners : Listeners, vip_ips : VipIps]

(* The operations the API hands to mutate.  An import names the groups or  *)
(* listeners it contains; the others are absent from it.  An update names  *)
(* the listener it replaces and may give it another name.                  *)
TargetGroupPut == [kind : {"target_group_put"}, group : Group, targets : Targets]
TargetGroupDelete == [kind : {"target_group_delete"}, group : Group]
TargetGroupImport == [kind : {"target_group_import"}, groups : TargetGroups]
ListenerCreate == [kind : {"listener_create"}, listener : Listener, group : Group, vips : SUBSET Vip]
ListenerUpdate ==
    [kind : {"listener_update"}, name : Listener, listener : Listener, group : Group, vips : SUBSET Vip]
ListenerDelete == [kind : {"listener_delete"}, listener : Listener]
ListenerImport == [kind : {"listener_import"}, listeners : Listeners, vips : VipIps]

ProxyConfigOperation ==
    TargetGroupPut \cup TargetGroupDelete \cup TargetGroupImport
      \cup ListenerCreate \cup ListenerUpdate \cup ListenerDelete \cup ListenerImport

configured(c, l) == c.listeners[l] # NoGroup
exists(c, g) == c.target_groups[g] # NoTargets

(* Every configured listener forwards to a configured target group.        *)
valid(c) == \A l \in Listener : configured(c, l) => exists(c, c.listeners[l])

rejected_group(c, o) ==
    CASE o.kind = "target_group_put"    -> FALSE
      [] o.kind = "target_group_import" -> FALSE
      [] o.kind = "target_group_delete" ->
            (\E l \in Listener : c.listeners[l] = o.group) \/ ~exists(c, o.group)

rejected_listener(c, o) ==
    CASE o.kind = "listener_create" -> configured(c, o.listener) \/ ~exists(c, o.group)
      [] o.kind = "listener_update" ->
            \/ ~configured(c, o.name)
            \/ ~exists(c, o.group)
            \/ o.listener # o.name /\ configured(c, o.listener)
      [] o.kind = "listener_delete" -> ~configured(c, o.listener)
      [] o.kind = "listener_import" ->
            \E l \in Listener : o.listeners[l] # NoGroup /\ ~exists(c, o.listeners[l])

OfGroup(o) == o.kind \in {"target_group_put", "target_group_delete", "target_group_import"}

(* Mutant: deleting a target group does not look for its listeners.        *)
rejected_unreferenced(c, o) ==
    IF OfGroup(o) THEN o.kind = "target_group_delete" /\ ~exists(c, o.group)
                  ELSE rejected_listener(c, o)

(* Reasons the edit closure returns a Rejection (400, 404 or 409).         *)
rejected(c, o) == IF OfGroup(o) THEN rejected_group(c, o) ELSE rejected_listener(c, o)

(* The configuration the edit closure leaves behind when it accepts.       *)
edit_group(c, o) ==
    [c EXCEPT !.target_groups =
        CASE o.kind = "target_group_put"    -> [@ EXCEPT ![o.group] = o.targets]
          [] o.kind = "target_group_delete" -> [@ EXCEPT ![o.group] = NoTargets]
          [] o.kind = "target_group_import" ->
                [g \in Group |-> IF o.groups[g] = NoTargets THEN @[g] ELSE o.groups[g]]]

edit_listener(c, o) ==
    CASE o.kind = "listener_create" -> [c EXCEPT !.listeners[o.listener] = o.group,
                                                 !.vip_ips[o.listener] = o.vips]
      [] o.kind = "listener_update" ->
            [c EXCEPT !.listeners = [[@ EXCEPT ![o.name] = NoGroup] EXCEPT ![o.listener] = o.group],
                      !.vip_ips = [[@ EXCEPT ![o.name] = {}] EXCEPT ![o.listener] = o.vips]]
      [] o.kind = "listener_delete" -> [c EXCEPT !.listeners[o.listener] = NoGroup,
                                                 !.vip_ips[o.listener] = {}]
      [] o.kind = "listener_import" ->
            LET kept(l) == o.listeners[l] = NoGroup
            IN  [c EXCEPT !.listeners = [l \in Listener |-> IF kept(l) THEN @[l] ELSE o.listeners[l]],
                          !.vip_ips   = [l \in Listener |-> IF kept(l) THEN @[l] ELSE o.vips[l]]]

edit(c, o) == IF OfGroup(o) THEN edit_group(c, o) ELSE edit_listener(c, o)

(* What is replicated: the listeners without their local VIP addresses.    *)
shared(c) == [c EXCEPT !.vip_ips = [l \in Listener |-> {}]]

(* SHA-256 over the serialized configuration.  Collisions are left out, so *)
(* a digest stands for exactly the content that was hashed.                *)
content_hash(c) == [sha256 |-> c]
==============================================================================
