------------------------------- MODULE MCBudgets -------------------------------
(* One budget, two requests; a year of two months. *)
EXTENDS Budgets, TLC

CONSTANTS q1, q2, b1

MCLength == [monthly |-> 2, yearly |-> 4]
MCSymmetry == Permutations(Requests)
=============================================================================
