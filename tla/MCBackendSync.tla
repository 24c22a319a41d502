--------------------------- MODULE MCBackendSync ---------------------------
(* Small instances of BackendSync for TLC. *)
EXTENDS BackendSync
=============================================================================
