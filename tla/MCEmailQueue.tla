---------------------------- MODULE MCEmailQueue ----------------------------
(* Instances of EmailQueue for TLC. *)
EXTENDS EmailQueue

CONSTANTS m1, m2, w1, w2
=============================================================================
