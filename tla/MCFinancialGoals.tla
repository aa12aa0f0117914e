--------------------------- MODULE MCFinancialGoals ---------------------------
(* Instances of FinancialGoals for TLC. *)
EXTENDS FinancialGoals, TLC

CONSTANTS q1, q2

RequestSymmetry == Permutations(Requests)
=============================================================================
