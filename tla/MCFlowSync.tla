----------------------------- MODULE MCFlowSync -----------------------------
(* Small instances of FlowSync for TLC. *)
EXTENDS FlowSync
=============================================================================
