------------------------- MODULE RecurrenceCalendar -------------------------
(***************************************************************************)
(* The date arithmetic of recurring transactions (calculateNextRunDate of  *)
(* finance-recurring-transactions.service.ts), with the overflow rule of   *)
(* JavaScript's Date.setMonth and Date.setFullYear: a day of the month     *)
(* that the target month lacks runs over into the month after it.          *)
(*                                                                         *)
(* A date is a natural number of half days since 1 January 2000, 00:00:    *)
(* the even ones are midnights, the odd ones stand for every later time of *)
(* the same day.  Midnight is what the cron job compares with.             *)
(***************************************************************************)
EXTENDS Integers

SlotsPerDay == 2

DayOf(date) == date \div SlotsPerDay
TimeOf(date) == date % SlotsPerDay
Midnight(date) == date - TimeOf(date)
EndOfDay(date) == Midnight(date) + SlotsPerDay - 1

Frequencies == {"daily", "weekly", "monthly", "yearly", "custom"}

-----------------------------------------------------------------------------
(* The Gregorian calendar from 2000 on.  A year is its offset from 2000, a *)
(* month its offset from January 2000.                                     *)

IsLeap(y) == y % 4 = 0 /\ (y % 100 # 0 \/ y % 400 = 0)

YearStart(y) ==
    365 * y + (y + 3) \div 4 - (y + 99) \div 100 + (y + 399) \div 400

\* Days of a common year before each of its months.
DaysBefore(k) ==
    CASE k = 0 -> 0    [] k = 1 -> 31   [] k = 2 -> 59   [] k = 3 -> 90
      [] k = 4 -> 120  [] k = 5 -> 151  [] k = 6 -> 181  [] k = 7 -> 212
      [] k = 8 -> 243  [] k = 9 -> 273  [] k = 10 -> 304 [] k = 11 -> 334

MonthStart(m) ==
    LET y == m \div 12
        k == m % 12
    IN  YearStart(y) + DaysBefore(k) + (IF IsLeap(y) /\ k >= 2 THEN 1 ELSE 0)

\* No month is shorter than 28 days, so month number day \div 28 is past `day`.
MonthOf(day) ==
    CHOOSE m \in 0 .. (day \div 28) : MonthStart(m) <= day /\ day < MonthStart(m + 1)

\* Date.setMonth(getMonth() + n): keep the day of the month, overflow included.
AddMonths(day, n) ==
    LET m == MonthOf(day)
    IN  MonthStart(m + n) + (day - MonthStart(m))

-----------------------------------------------------------------------------
\* Mutant: a year is 365 days and a month 30.
NextRunDateByDays(frequency, interval, from) ==
    LET days == CASE frequency \in {"daily", "custom"} -> 1
                  [] frequency = "weekly"              -> 7
                  [] frequency = "monthly"             -> 30
                  [] frequency = "yearly"              -> 365
    IN  from + SlotsPerDay * days * interval

CalculateNextRunDate(frequency, interval, from) ==
    LET days(n) == from + SlotsPerDay * n
        months(n) == SlotsPerDay * AddMonths(DayOf(from), n) + TimeOf(from)
    IN  CASE frequency \in {"daily", "custom"} -> days(interval)
          [] frequency = "weekly"              -> days(7 * interval)
          [] frequency = "monthly"             -> months(interval)
          [] frequency = "yearly"              -> months(12 * interval)
=============================================================================
