-------------------------- MODULE MCFilterPresets --------------------------
(* Instances of FilterPresets for TLC. *)
EXTENDS FilterPresets, TLC

IdentifierSymmetry == Permutations(Presets) \cup Permutations(Requests)
=============================================================================
