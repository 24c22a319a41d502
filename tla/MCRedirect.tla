----------------------------- MODULE MCRedirect -----------------------------
(* Small instances of Redirect for TLC. *)
EXTENDS Redirect
=============================================================================
