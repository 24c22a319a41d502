---------------------------- MODULE ProbeVerdict ----------------------------
(***************************************************************************)
(* How one probe outcome changes a target (provider/native/probe.rs,       *)
(* apply_results): the count of consecutive failures, and the health on    *)
(* record.  An outcome is "ok", "fail", or "none" when nothing was         *)
(* measured or the measurement was dropped.                                *)
(***************************************************************************)
EXTENDS Naturals

(* The count saturates; beyond the configured retries it makes no difference. *)
CountedFailures(failures, outcome, retries) ==
    CASE outcome = "ok" -> 0
      [] outcome = "fail" /\ failures < retries -> failures + 1
      [] OTHER -> failures

(* A success is published at once, a failure from the configured count on. *)
NextHealth(health, failures, outcome, retries) ==
    CASE outcome = "ok" -> "ok"
      [] outcome = "fail" /\ failures >= retries -> "nok"
      [] OTHER -> health
=============================================================================
