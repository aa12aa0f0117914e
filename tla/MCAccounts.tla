----------------------------- MODULE MCAccounts -----------------------------
(* One owner and three requests for TLC. *)
EXTENDS Accounts, TLC

CONSTANTS u1, q1, q2, q3, n1, n2, e1, e2

MCNameOf == u1 :> n1
MCEmailOf == u1 :> e1
MCSymmetry == Permutations(Requests)
=============================================================================
