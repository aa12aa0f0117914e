--------------------------- MODULE RecurrenceDates ---------------------------
(***************************************************************************)
(* The run dates of one recurring transaction that nobody edits.  Each is  *)
(* computed from the one before (the loop of generateTransactions, and     *)
(* skipNext), so a day that one month lacks is lost for all later ones.    *)
(*                                                                         *)
(* `civil` follows the same dates in years, months and days, one day or    *)
(* one month at a time: the reference for the closed forms of              *)
(* RecurrenceCalendar, which everything else uses.                         *)
(***************************************************************************)
EXTENDS RecurrenceCalendar

CONSTANTS
    StartDates,     \* start dates of the series
    Intervals,
    LastDate         \* bound: the last date from which a next run is computed

ASSUME DatesAssumption ==
    StartDates \subseteq Nat /\ Intervals \subseteq Nat \ {0} /\ LastDate \in Nat

VARIABLES
    frequency, interval, startDate,
    date,       \* the current run
    civil,      \* its year, month (0 .. 11) and day (1 .. 31)
    runs        \* how many came before it

dates == <<frequency, interval, startDate, date, civil, runs>>

-----------------------------------------------------------------------------
DaysIn(y, k) ==
    CASE k = 1                -> IF IsLeap(y) THEN 29 ELSE 28
      [] k \in {3, 5, 8, 10}  -> 30
      [] OTHER                -> 31

NextDay(c) ==
    CASE c.day < DaysIn(c.year, c.month) -> [c EXCEPT !.day = c.day + 1]
      [] c.month < 11 /\ c.day >= DaysIn(c.year, c.month) ->
             [year |-> c.year, month |-> c.month + 1, day |-> 1]
      [] OTHER -> [year |-> c.year + 1, month |-> 0, day |-> 1]

CivilDays(c, n) ==
    LET after[i \in 0 .. n] == IF i = 0 THEN c ELSE NextDay(after[i - 1])
    IN  after[n]

\* The same day n months on; only a month of fewer than 31 days lacks it, never December.
CivilMonths(c, n) ==
    LET m == c.month + n
        y == c.year + (m \div 12)
        k == m % 12
    IN  IF c.day <= DaysIn(y, k)
        THEN [year |-> y, month |-> k, day |-> c.day]
        ELSE [year |-> y, month |-> k + 1, day |-> c.day - DaysIn(y, k)]

CivilNext(f, i, c) ==
    CASE f \in {"daily", "custom"} -> CivilDays(c, i)
      [] f = "weekly"              -> CivilDays(c, 7 * i)
      [] f = "monthly"             -> CivilMonths(c, i)
      [] f = "yearly"              -> CivilMonths(c, 12 * i)

CivilOf(d) ==
    LET m == MonthOf(DayOf(d))
    IN  [year |-> m \div 12, month |-> m % 12, day |-> DayOf(d) - MonthStart(m) + 1]

-----------------------------------------------------------------------------
DatesInit ==
    /\ frequency \in Frequencies
    /\ interval \in Intervals
    /\ startDate \in StartDates
    /\ date = startDate
    /\ civil = CivilOf(startDate)
    /\ runs = 0

NextRun ==
    /\ date <= LastDate
    /\ date' = CalculateNextRunDate(frequency, interval, date)
    /\ civil' = CivilNext(frequency, interval, civil)
    /\ runs' = runs + 1
    /\ UNCHANGED <<frequency, interval, startDate>>

DatesSpec == DatesInit /\ [][NextRun]_dates

-----------------------------------------------------------------------------
\* The half-day arithmetic is the Gregorian calendar with JavaScript's overflow: setDate
\* counts days, setMonth and setFullYear keep the day of the month and run over into the
\* next month when it is too short, and none of them touches the time of the day.
CalendarIsCivil == CivilOf(date) = civil /\ TimeOf(date) = TimeOf(startDate)

MonthsOf(f) == CASE f = "monthly" -> 1 [] f = "yearly" -> 12

\* However long a monthly or yearly series runs, overflow delays it by one month at most:
\* its n-th run falls in the n-th month (or year) of the schedule or the month after, since
\* the first overflow leaves it on one of the first days of a month.
OneMonthLateAtMost ==
    frequency \in {"monthly", "yearly"} =>
        LET planned == MonthOf(DayOf(startDate)) + runs * interval * MonthsOf(frequency)
        IN  MonthOf(DayOf(date)) \in {planned, planned + 1}
=============================================================================
