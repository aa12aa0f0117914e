-------------------------- MODULE MCRecurrenceDates --------------------------
(* Instances of RecurrenceDates for TLC. *)
EXTENDS RecurrenceDates

\* 1 January 2000; in the afternoon: 30 and 31 January, 28 and 29 February, 31 March,
\* 31 August and 31 December 2000; 31 January 2001; 29 January 2003.
MCStartDates == {0} \cup {2 * day + 1 : day \in {29, 30, 58, 59, 90, 243, 365, 396, 1124}}
MCIntervals == {1, 2, 5}

\* Seven years, two of them leap years.
MCLastDate == 2 * 2557
=============================================================================
