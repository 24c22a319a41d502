----------------------------- MODULE MCDatapath -----------------------------
(* Small instances of Datapath for TLC. *)
EXTENDS Datapath, TLC
CONSTANTS c1, t1, t2

Hashes == c1 :> 3
Scores == [x \in (0..1) \X Target |-> IF (x[1] = 0) = (x[2] = t1) THEN 7 ELSE 3]
=============================================================================
