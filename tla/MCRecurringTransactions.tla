----------------------- MODULE MCRecurringTransactions ----------------------
(* Instances of RecurringTransactions for TLC. *)
EXTENDS RecurringTransactions, TLC

MCFrequencies == {"daily"}
MCIntervals == {1}
MCDates == {1}
MCLiveDates == {1, 4}
RequestSymmetry == Permutations(Requests)
=============================================================================
