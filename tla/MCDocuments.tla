------------------------------ MODULE MCDocuments ------------------------------
(* Two users, a stored document and three requests. *)
EXTENDS Documents, TLC

CONSTANTS u1, u2, q1, q2, q3, d1, a

MCSymmetry == Permutations(Requests) \cup Permutations(Users)
=============================================================================
