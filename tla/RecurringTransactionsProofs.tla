--------------------- MODULE RecurringTransactionsProofs ---------------------
(***************************************************************************)
(* What holds of recurring transactions for every set of series, cron      *)
(* processes and requests, every schedule and every bound, and before it   *)
(* of their dates: calculateNextRunDate always moves forward, so that the  *)
(* loop of generateTransactions cannot meet the same date twice, and it is *)
(* the civil calendar.                                                     *)
(***************************************************************************)
EXTENDS RecurringTransactions, RecurrenceDates, NaturalsInduction, WellFoundedInduction, TLAPS

-----------------------------------------------------------------------------
(* The calendar                                                            *)

LEMMA YearStartType == \A y \in Nat : YearStart(y) \in Nat /\ YearStart(y) >= 365 * y
  BY DEF YearStart

\* A year has 365 or 366 days, the latter when IsLeap says so.
LEMMA YearLength ==
  \A y \in Nat : YearStart(y + 1) - YearStart(y) = IF IsLeap(y) THEN 366 ELSE 365
  BY SMTT(60) DEF YearStart, IsLeap

LEMMA YearStartMonotone ==
  \A y, z \in Nat : y < z => YearStart(y) + 365 <= YearStart(z)
  BY DEF YearStart

\* The months before month k of a year take at least 28 days each, and less than a year.
LEMMA DaysBeforeBounds ==
  \A k \in 0 .. 11 : DaysBefore(k) \in 0 .. 334 /\ DaysBefore(k) >= 28 * k
<1>1. TAKE k \in 0 .. 11
<1>2. k \in {0, 1, 2, 3, 4, 5, 6, 7, 8, 9, 10, 11}
  OBVIOUS
<1>3. QED
  BY <1>2 DEF DaysBefore

LEMMA DaysBeforeMonotone ==
  \A k, l \in 0 .. 11 : k < l => DaysBefore(k) < DaysBefore(l)
<1>1. TAKE k, l \in 0 .. 11
<1>2. /\ k \in {0, 1, 2, 3, 4, 5, 6, 7, 8, 9, 10, 11}
      /\ l \in {0, 1, 2, 3, 4, 5, 6, 7, 8, 9, 10, 11}
  OBVIOUS
<1>3. QED
  BY <1>2 DEF DaysBefore

\* A month number is a year and a month of that year.
LEMMA MonthNumber ==
  \A m \in Nat : /\ m \div 12 \in Nat
                 /\ m % 12 \in 0 .. 11
                 /\ m = 12 * (m \div 12) + (m % 12)
  OBVIOUS

LEMMA MonthStartType == \A m \in Nat : MonthStart(m) \in Nat /\ MonthStart(m) >= 28 * m
<1>1. TAKE m \in Nat
<1> DEFINE y == m \div 12  k == m % 12
<1>2. y \in Nat /\ k \in 0 .. 11 /\ m = 12 * y + k
  BY MonthNumber
<1>3. YearStart(y) \in Nat /\ YearStart(y) >= 365 * y
  BY <1>2, YearStartType
<1>4. DaysBefore(k) \in Nat /\ DaysBefore(k) >= 28 * k
  BY <1>2, DaysBeforeBounds
<1>5. MonthStart(m) \in {YearStart(y) + DaysBefore(k), YearStart(y) + DaysBefore(k) + 1}
  BY <1>3, <1>4 DEF MonthStart
<1> HIDE DEF y, k
<1>6. QED
  BY <1>2, <1>3, <1>4, <1>5

\* Later months start later.
LEMMA MonthStartMonotone ==
  \A m, n \in Nat : m < n => MonthStart(m) < MonthStart(n)
<1>1. SUFFICES ASSUME NEW m \in Nat, NEW n \in Nat, m < n
               PROVE  MonthStart(m) < MonthStart(n)
  OBVIOUS
<1> DEFINE y == m \div 12  k == m % 12  z == n \div 12  l == n % 12
           leap(a, b) == IF IsLeap(a) /\ b >= 2 THEN 1 ELSE 0
<1>2. /\ y \in Nat /\ z \in Nat /\ k \in 0 .. 11 /\ l \in 0 .. 11
      /\ m = 12 * y + k /\ n = 12 * z + l
  BY MonthNumber
<1>3. /\ YearStart(y) \in Nat /\ YearStart(z) \in Nat
      /\ y < z => YearStart(y) + 365 <= YearStart(z)
  BY <1>2, YearStartType, YearStartMonotone
<1>4. /\ DaysBefore(k) \in 0 .. 334 /\ DaysBefore(l) \in 0 .. 334
      /\ k < l => DaysBefore(k) < DaysBefore(l)
  BY <1>2, DaysBeforeBounds, DaysBeforeMonotone
<1>5. /\ MonthStart(m) = YearStart(y) + DaysBefore(k) + leap(y, k)
      /\ MonthStart(n) = YearStart(z) + DaysBefore(l) + leap(z, l)
  BY DEF MonthStart
<1>6. /\ leap(y, k) \in 0 .. 1 /\ leap(z, l) \in 0 .. 1
      /\ y = z /\ k < l => leap(y, k) <= leap(z, l)
  BY <1>2
<1>7. y < z \/ (y = z /\ k < l)
  <2> HIDE DEF y, k, z, l
  <2>1. QED
    BY <1>1, <1>2
<1>8. CASE y < z
  <2>1. \A a, b \in Nat, c, d \in 0 .. 334, e, f \in 0 .. 1 :
          a + 365 <= b => a + c + e < b + d + f
    OBVIOUS
  <2> HIDE DEF y, k, z, l, leap
  <2>2. QED
    BY ONLY <2>1, <1>3, <1>4, <1>5, <1>6, <1>8
<1>9. CASE y = z /\ k < l
  <2>1. \A a \in Nat, c, d \in 0 .. 334, e, f \in 0 .. 1 :
          c < d /\ e <= f => a + c + e < a + d + f
    OBVIOUS
  <2> HIDE DEF y, k, z, l, leap
  <2>2. QED
    BY ONLY <2>1, <1>3, <1>4, <1>5, <1>6, <1>9
<1>10. QED
  BY <1>7, <1>8, <1>9

\* Every day from January 2000 on lies in a month, and MonthOf finds it.
LEMMA MonthOfIsMonth ==
  ASSUME NEW day \in Nat
  PROVE  /\ MonthOf(day) \in Nat
         /\ MonthStart(MonthOf(day)) <= day
         /\ day < MonthStart(MonthOf(day) + 1)
<1> DEFINE Later == {m \in Nat : day < MonthStart(m + 1)}
<1>1. day \in Later
  BY MonthStartType
<1>2. PICK m \in Later : \A x \in Later : ~(<<x, m>> \in OpToRel(<, Nat))
  BY <1>1, NatLessThanWellFounded, WFMin
<1>3. ASSUME NEW x \in Later  PROVE  ~(x < m)
  BY <1>2 DEF OpToRel
<1>4. m \in Nat /\ day < MonthStart(m + 1)
  OBVIOUS
<1>5. MonthStart(m) <= day
  <2>1. CASE m = 0
    BY <2>1 DEF MonthStart, YearStart, DaysBefore, IsLeap
  <2>2. CASE m # 0
    <3>1. m - 1 \in Nat /\ m - 1 < m /\ (m - 1) + 1 = m
      BY <1>4, <2>2
    <3>2. ~(day < MonthStart((m - 1) + 1))
      BY <1>3, <3>1
    <3> HIDE DEF Later
    <3>3. QED
      BY <1>4, <3>1, <3>2, MonthStartType
  <2>3. QED
    BY <2>1, <2>2
<1>6. m \in 0 .. (day \div 28)
  BY ONLY <1>4, <1>5, MonthStartType, day \in Nat
<1> HIDE DEF Later
<1>7. MonthOf(day) \in 0 .. (day \div 28) /\ MonthStart(MonthOf(day)) <= day
        /\ day < MonthStart(MonthOf(day) + 1)
  BY ONLY <1>4, <1>5, <1>6 DEF MonthOf
<1>8. QED
  BY <1>7

\* A month is added by moving to a later month start: overflow only moves further on.
LEMMA AddMonthsLater ==
  ASSUME NEW day \in Nat, NEW n \in Nat \ {0}
  PROVE  AddMonths(day, n) \in Nat /\ AddMonths(day, n) > day
<1> DEFINE m == MonthOf(day)
<1>1. m \in Nat /\ MonthStart(m) <= day
  BY MonthOfIsMonth
<1>2. m + n \in Nat /\ m < m + n
  BY <1>1
<1>3. MonthStart(m) \in Nat /\ MonthStart(m + n) \in Nat /\ MonthStart(m) < MonthStart(m + n)
  BY <1>1, <1>2, MonthStartType, MonthStartMonotone
<1>4. AddMonths(day, n) = MonthStart(m + n) + (day - MonthStart(m))
  BY DEF AddMonths
<1> HIDE DEF m
<1>5. QED
  BY <1>1, <1>3, <1>4

LEMMA DayOfType ==
  ASSUME NEW from \in Nat
  PROVE  DayOf(from) \in Nat /\ TimeOf(from) \in 0 .. 1
         /\ from = SlotsPerDay * DayOf(from) + TimeOf(from)
  BY DEF DayOf, TimeOf, SlotsPerDay

\* calculateNextRunDate: whatever the frequency and the interval, the next run is later.
THEOREM NextRunDateLater ==
  ASSUME NEW f \in Frequencies, NEW i \in Nat \ {0}, NEW from \in Nat
  PROVE  /\ CalculateNextRunDate(f, i, from) \in Nat
         /\ CalculateNextRunDate(f, i, from) > from
<1> DEFINE next == CalculateNextRunDate(f, i, from)
<1>1. CASE f \in {"daily", "custom", "weekly"}
  BY <1>1 DEF CalculateNextRunDate, SlotsPerDay
<1>2. ASSUME NEW n \in Nat \ {0}
      PROVE  LET later == SlotsPerDay * AddMonths(DayOf(from), n) + TimeOf(from)
             IN  later \in Nat /\ later > from
  <2>1. AddMonths(DayOf(from), n) \in Nat /\ AddMonths(DayOf(from), n) > DayOf(from)
    BY DayOfType, AddMonthsLater
  <2>2. /\ DayOf(from) \in Nat /\ TimeOf(from) \in 0 .. 1
        /\ from = SlotsPerDay * DayOf(from) + TimeOf(from)
    BY DayOfType
  <2>3. QED
    BY <2>1, <2>2 DEF SlotsPerDay
<1>3. CASE f = "monthly"
  BY <1>2, <1>3 DEF CalculateNextRunDate
<1>4. CASE f = "yearly"
  <2>1. 12 * i \in Nat \ {0}
    OBVIOUS
  <2>2. QED
    BY <1>2, <1>4, <2>1 DEF CalculateNextRunDate
<1>5. QED
  BY <1>1, <1>3, <1>4 DEF Frequencies

-----------------------------------------------------------------------------
(* Months and the civil calendar                                           *)

\* Every month has at least 28 days and at most 31; December has 31, and so has January.
LEMMA DaysInBounds ==
  ASSUME NEW y \in Nat, NEW k \in 0 .. 11
  PROVE  DaysIn(y, k) \in Nat /\ DaysIn(y, k) \in 28 .. 31 /\ (k \in {0, 11} => DaysIn(y, k) = 31)
<1>1. k \in {0, 1, 2, 3, 4, 5, 6, 7, 8, 9, 10, 11}
  OBVIOUS
<1>2. QED
  BY <1>1 DEF DaysIn

\* The table of months agrees with the lengths of the months.
LEMMA DaysBeforeNext ==
  ASSUME NEW y \in Nat, NEW k \in 0 .. 10
  PROVE  DaysBefore(k + 1) + (IF IsLeap(y) /\ k + 1 >= 2 THEN 1 ELSE 0)
            = DaysBefore(k) + (IF IsLeap(y) /\ k >= 2 THEN 1 ELSE 0) + DaysIn(y, k)
<1>1. k \in {0, 1, 2, 3, 4, 5, 6, 7, 8, 9, 10}
  OBVIOUS
<1>2. QED
  BY <1>1 DEF DaysIn, DaysBefore

\* Month starts of a year and a month of that year.
LEMMA MonthStartOf ==
  ASSUME NEW y \in Nat, NEW k \in 0 .. 11
  PROVE  /\ 12 * y + k \in Nat
         /\ (12 * y + k) \div 12 = y /\ (12 * y + k) % 12 = k
         /\ MonthStart(12 * y + k) = YearStart(y) + DaysBefore(k) + (IF IsLeap(y) /\ k >= 2 THEN 1 ELSE 0)
<1>1. (12 * y + k) \div 12 = y /\ (12 * y + k) % 12 = k /\ 12 * y + k \in Nat
  OBVIOUS
<1>2. QED
  BY <1>1 DEF MonthStart

LEMMA MonthLength ==
  ASSUME NEW y \in Nat, NEW k \in 0 .. 11
  PROVE  MonthStart(12 * y + k + 1) = MonthStart(12 * y + k) + DaysIn(y, k)
<1>1. YearStart(y) \in Nat /\ YearStart(y + 1) \in Nat /\ DaysBefore(k) \in Nat /\ DaysIn(y, k) \in Nat
  <2>1. YearStart(y) \in Nat /\ YearStart(y + 1) \in Nat
    BY YearStartType
  <2>2. DaysBefore(k) \in 0 .. 334
    BY DaysBeforeBounds
  <2>3. DaysIn(y, k) \in Nat
    BY DaysInBounds
  <2> QED
    BY <2>1, <2>2, <2>3
<1>2. CASE k < 11
  <2>1. k \in 0 .. 10 /\ k + 1 \in 0 .. 11 /\ 12 * y + k + 1 = 12 * y + (k + 1)
    BY <1>2
  <2>2. DaysBefore(k + 1) \in Nat
    BY <2>1, DaysBeforeBounds
  <2>3. MonthStart(12 * y + (k + 1)) = YearStart(y) + DaysBefore(k + 1)
                                       + (IF IsLeap(y) /\ k + 1 >= 2 THEN 1 ELSE 0)
    BY <2>1, MonthStartOf
  <2>4. MonthStart(12 * y + k) = YearStart(y) + DaysBefore(k) + (IF IsLeap(y) /\ k >= 2 THEN 1 ELSE 0)
    BY MonthStartOf
  <2>5. DaysBefore(k + 1) + (IF IsLeap(y) /\ k + 1 >= 2 THEN 1 ELSE 0)
            = DaysBefore(k) + (IF IsLeap(y) /\ k >= 2 THEN 1 ELSE 0) + DaysIn(y, k)
    BY <2>1, DaysBeforeNext
  <2> QED
    BY <1>1, <2>1, <2>2, <2>3, <2>4, <2>5
<1>3. CASE k = 11
  <2>1. 12 * y + k + 1 = 12 * (y + 1) + 0 /\ y + 1 \in Nat /\ 0 \in 0 .. 11
    BY <1>3
  <2>2. MonthStart(12 * (y + 1) + 0) = YearStart(y + 1) + DaysBefore(0) + 0
    <3>1. MonthStart(12 * (y + 1) + 0) = YearStart(y + 1) + DaysBefore(0)
                                         + (IF IsLeap(y + 1) /\ 0 >= 2 THEN 1 ELSE 0)
      BY <2>1, MonthStartOf
    <3> QED
      BY <3>1
  <2>3. MonthStart(12 * y + k) = YearStart(y) + 334 + (IF IsLeap(y) THEN 1 ELSE 0)
    <3>1. MonthStart(12 * y + k) = YearStart(y) + DaysBefore(k) + (IF IsLeap(y) /\ k >= 2 THEN 1 ELSE 0)
      BY MonthStartOf
    <3> QED
      BY <1>3, <3>1 DEF DaysBefore
  <2>4. DaysBefore(0) = 0 /\ DaysIn(y, k) = 31
    BY <1>3, DaysInBounds DEF DaysBefore
  <2>5. YearStart(y + 1) = YearStart(y) + IF IsLeap(y) THEN 366 ELSE 365
    BY <1>1, YearLength
  <2> QED
    BY <1>1, <2>1, <2>2, <2>3, <2>4, <2>5
<1> QED
  BY <1>2, <1>3

\* MonthOf finds the month that a day lies in.
LEMMA MonthOfUnique ==
  ASSUME NEW day \in Nat, NEW m \in Nat, MonthStart(m) <= day, day < MonthStart(m + 1)
  PROVE  MonthOf(day) = m
<1> DEFINE n == MonthOf(day)
<1>1. n \in Nat /\ MonthStart(n) <= day /\ day < MonthStart(n + 1)
  BY MonthOfIsMonth
<1> HIDE DEF n
<1>2. /\ MonthStart(m) \in Nat /\ MonthStart(n) \in Nat
      /\ MonthStart(m + 1) \in Nat /\ MonthStart(n + 1) \in Nat
  BY <1>1, MonthStartType
<1>3. ~(n < m)
  <2>1. n < m => n + 1 = m \/ n + 1 < m
    BY <1>1
  <2>2. n + 1 < m => MonthStart(n + 1) < MonthStart(m)
    BY <1>1, MonthStartMonotone
  <2> QED
    BY <1>1, <1>2, <2>1, <2>2
<1>4. ~(m < n)
  <2>1. m < n => m + 1 = n \/ m + 1 < n
    BY <1>1
  <2>2. m + 1 < n => MonthStart(m + 1) < MonthStart(n)
    BY <1>1, MonthStartMonotone
  <2> QED
    BY <1>1, <1>2, <2>1, <2>2
<1> QED
  BY <1>1, <1>3, <1>4 DEF n

\* Every date is a day of a month of a year, and only that one.
LEMMA CivilIs ==
  ASSUME NEW from \in Nat
  PROVE  LET c == CivilOf(from)
             m == MonthOf(DayOf(from))
         IN  /\ c = [year |-> c.year, month |-> c.month, day |-> c.day]
             /\ c.year \in Nat /\ c.month \in 0 .. 11 /\ c.day \in 1 .. DaysIn(c.year, c.month)
             /\ m = 12 * c.year + c.month
             /\ DayOf(from) = MonthStart(m) + c.day - 1
<1> DEFINE c == CivilOf(from)
           m == MonthOf(DayOf(from))
<1>1. DayOf(from) \in Nat
  BY DayOfType
<1>2. m \in Nat /\ MonthStart(m) <= DayOf(from) /\ DayOf(from) < MonthStart(m + 1)
  BY <1>1, MonthOfIsMonth
<1>3. c = [year |-> m \div 12, month |-> m % 12, day |-> DayOf(from) - MonthStart(m) + 1]
  BY DEF CivilOf
<1> HIDE DEF c, m
<1>4. c.year = m \div 12 /\ c.month = m % 12 /\ c.day = DayOf(from) - MonthStart(m) + 1
  BY <1>3
<1>5. c.year \in Nat /\ c.month \in 0 .. 11 /\ m = 12 * c.year + c.month
  BY <1>2, <1>4, MonthNumber
<1>6. MonthStart(m) \in Nat /\ DaysIn(c.year, c.month) \in Nat
  BY <1>2, <1>5, MonthStartType, DaysInBounds
<1>7. MonthStart(m + 1) = MonthStart(m) + DaysIn(c.year, c.month)
  BY <1>5, MonthLength
<1>8. c.day \in 1 .. DaysIn(c.year, c.month) /\ DayOf(from) = MonthStart(m) + c.day - 1
  BY <1>1, <1>2, <1>4, <1>6, <1>7
<1>9. c = [year |-> c.year, month |-> c.month, day |-> c.day]
  BY <1>3, <1>4
<1> QED
  BY <1>5, <1>8, <1>9 DEF c, m

LEMMA CivilUnique ==
  ASSUME NEW y \in Nat, NEW k \in 0 .. 11, NEW d \in 1 .. DaysIn(y, k), NEW from \in Nat,
         DayOf(from) = MonthStart(12 * y + k) + d - 1
  PROVE  /\ CivilOf(from) = [year |-> y, month |-> k, day |-> d]
         /\ MonthOf(DayOf(from)) = 12 * y + k
<1>1. 12 * y + k \in Nat /\ (12 * y + k) \div 12 = y /\ (12 * y + k) % 12 = k
  BY MonthStartOf
<1>2. MonthStart(12 * y + k) \in Nat /\ DaysIn(y, k) \in Nat
  BY <1>1, MonthStartType, DaysInBounds
<1>3. MonthStart(12 * y + k + 1) = MonthStart(12 * y + k) + DaysIn(y, k)
  BY MonthLength
<1>4. DayOf(from) \in Nat
  BY DayOfType
<1>5. MonthStart(12 * y + k) <= DayOf(from) /\ DayOf(from) < MonthStart(12 * y + k + 1)
  BY <1>2, <1>3, <1>4
<1>6. MonthOf(DayOf(from)) = 12 * y + k
  BY <1>1, <1>4, <1>5, MonthOfUnique
<1>7. DayOf(from) - MonthStart(12 * y + k) + 1 = d
  BY <1>2, <1>4
<1> QED
  BY <1>1, <1>6, <1>7 DEF CivilOf

-----------------------------------------------------------------------------
(* Days                                                                    *)

\* The day after is two half days on.
LEMMA NextDayIs ==
  ASSUME NEW from \in Nat
  PROVE  CivilOf(from + 2) = NextDay(CivilOf(from))
<1> DEFINE c == CivilOf(from)
           m == MonthOf(DayOf(from))
<1>1. /\ c = [year |-> c.year, month |-> c.month, day |-> c.day]
      /\ c.year \in Nat /\ c.month \in 0 .. 11 /\ c.day \in 1 .. DaysIn(c.year, c.month)
      /\ m = 12 * c.year + c.month /\ DayOf(from) = MonthStart(m) + c.day - 1
  BY CivilIs
<1>2. from + 2 \in Nat /\ DayOf(from + 2) = DayOf(from) + 1
  BY DEF DayOf, SlotsPerDay
<1>3. NextDay(CivilOf(from)) = NextDay(c)
  OBVIOUS
<1> HIDE DEF c, m
<1>4. /\ DaysIn(c.year, c.month) \in Nat
      /\ MonthStart(12 * c.year + c.month) \in Nat
      /\ MonthStart(12 * c.year + c.month + 1) = MonthStart(12 * c.year + c.month) + DaysIn(c.year, c.month)
  BY <1>1, DaysInBounds, MonthLength, MonthStartOf, MonthStartType
<1>5. CASE c.day < DaysIn(c.year, c.month)
  <2>1. c.day + 1 \in 1 .. DaysIn(c.year, c.month)
    BY <1>1, <1>4, <1>5
  <2>2. DayOf(from + 2) = MonthStart(12 * c.year + c.month) + (c.day + 1) - 1
    BY <1>1, <1>2, <1>4
  <2>3. CivilOf(from + 2) = [year |-> c.year, month |-> c.month, day |-> c.day + 1]
    BY <1>1, <1>2, <2>1, <2>2, CivilUnique
  <2>4. NextDay(c) = [c EXCEPT !.day = c.day + 1]
    <3>1. ~(c.day >= DaysIn(c.year, c.month))
      BY <1>1, <1>4, <1>5
    <3> QED
      BY <1>5, <3>1 DEF NextDay
  <2>5. [c EXCEPT !.day = c.day + 1] = [year |-> c.year, month |-> c.month, day |-> c.day + 1]
    BY <1>1
  <2> QED
    BY <1>3, <2>3, <2>4, <2>5
<1>6. CASE c.day >= DaysIn(c.year, c.month)
  <2>1. c.day = DaysIn(c.year, c.month)
    BY <1>1, <1>4, <1>6
  <2>2. DayOf(from + 2) = MonthStart(12 * c.year + c.month + 1)
    BY <1>1, <1>2, <1>4, <2>1
  <2>3. CASE c.month < 11
    <3>1. c.month + 1 \in 0 .. 11 /\ 12 * c.year + c.month + 1 = 12 * c.year + (c.month + 1)
      BY <1>1, <2>3
    <3>2. 1 \in 1 .. DaysIn(c.year, c.month + 1) /\ MonthStart(12 * c.year + (c.month + 1)) \in Nat
      <4>1. DaysIn(c.year, c.month + 1) \in 28 .. 31
        BY <1>1, <3>1, DaysInBounds
      <4>2. MonthStart(12 * c.year + (c.month + 1)) \in Nat
        BY <1>1, <3>1, MonthStartOf, MonthStartType
      <4> QED
        BY <4>1, <4>2
    <3>3. DayOf(from + 2) = MonthStart(12 * c.year + (c.month + 1)) + 1 - 1
      BY <2>2, <3>1, <3>2
    <3>4. CivilOf(from + 2) = [year |-> c.year, month |-> c.month + 1, day |-> 1]
      BY <1>1, <1>2, <3>1, <3>2, <3>3, CivilUnique
    <3>5. NextDay(c) = [year |-> c.year, month |-> c.month + 1, day |-> 1]
      BY <1>1, <1>4, <1>6, <2>3 DEF NextDay
    <3> QED
      BY <1>3, <3>4, <3>5
  <2>4. CASE c.month = 11
    <3>1. c.year + 1 \in Nat /\ 0 \in 0 .. 11 /\ 12 * c.year + c.month + 1 = 12 * (c.year + 1) + 0
      BY <1>1, <2>4
    <3>2. 1 \in 1 .. DaysIn(c.year + 1, 0) /\ MonthStart(12 * (c.year + 1) + 0) \in Nat
      <4>1. DaysIn(c.year + 1, 0) \in 28 .. 31
        BY <3>1, DaysInBounds
      <4>2. MonthStart(12 * (c.year + 1) + 0) \in Nat
        BY <3>1, MonthStartOf, MonthStartType
      <4> QED
        BY <4>1, <4>2
    <3>3. DayOf(from + 2) = MonthStart(12 * (c.year + 1) + 0) + 1 - 1
      BY <2>2, <3>1, <3>2
    <3>4. CivilOf(from + 2) = [year |-> c.year + 1, month |-> 0, day |-> 1]
      BY <1>2, <3>1, <3>2, <3>3, CivilUnique
    <3>5. NextDay(c) = [year |-> c.year + 1, month |-> 0, day |-> 1]
      BY <1>1, <1>4, <1>6, <2>4 DEF NextDay
    <3> QED
      BY <1>3, <3>4, <3>5
  <2> QED
    BY <1>1, <2>3, <2>4
<1> QED
  BY <1>1, <1>4, <1>5, <1>6

\* Counting days one at a time: setDate adds them all at once.
LEMMA CivilDaysIs ==
  ASSUME NEW from \in Nat, NEW n \in Nat
  PROVE  CivilDays(CivilOf(from), n) = CivilOf(from + 2 * n)
<1> DEFINE c == CivilOf(from)
           Step(f) == [i \in 0 .. n |-> IF i = 0 THEN c ELSE NextDay(f[i - 1])]
           days == [i \in 0 .. n |-> CivilOf(from + 2 * i)]
           after == CHOOSE f : f = Step(f)
<1>1. CivilDays(CivilOf(from), n) = after[n]
  BY DEF CivilDays
<1>2. days = Step(days)
  <2>1. ASSUME NEW i \in 0 .. n
        PROVE  CivilOf(from + 2 * i) = IF i = 0 THEN c ELSE NextDay(days[i - 1])
    <3>1. CASE i = 0
      BY <3>1
    <3>2. CASE i # 0
      <4>1. i - 1 \in 0 .. n /\ from + 2 * (i - 1) \in Nat /\ (from + 2 * (i - 1)) + 2 = from + 2 * i
        BY <3>2
      <4>2. CivilOf((from + 2 * (i - 1)) + 2) = NextDay(CivilOf(from + 2 * (i - 1)))
        BY <4>1, NextDayIs
      <4> QED
        BY <3>2, <4>1, <4>2
    <3> QED
      BY <3>1, <3>2
  <2> QED
    BY <2>1
<1> HIDE DEF days
<1>3. after = Step(after)
  BY <1>2
<1> HIDE DEF after
<1>4. \A i \in 0 .. n : after[i] = IF i = 0 THEN c ELSE NextDay(after[i - 1])
  BY <1>3
<1>5. \A i \in 0 .. n : days[i] = IF i = 0 THEN c ELSE NextDay(days[i - 1])
  BY <1>2
<1> DEFINE Wrong == {i \in Nat : i \in 0 .. n /\ after[i] # days[i]}
<1>6. Wrong = {}
  <2> SUFFICES ASSUME Wrong # {}
               PROVE  FALSE
    OBVIOUS
  <2>1. PICK i \in Wrong : \A x \in Wrong : ~(<<x, i>> \in OpToRel(<, Nat))
    BY NatLessThanWellFounded, WFMin
  <2>2. ASSUME NEW x \in Wrong  PROVE  ~(x < i)
    BY <2>1 DEF OpToRel
  <2>3. i \in 0 .. n /\ after[i] # days[i]
    OBVIOUS
  <2>4. CASE i = 0
    BY <1>4, <1>5, <2>3, <2>4
  <2>5. CASE i # 0
    <3>1. i - 1 \in 0 .. n /\ i - 1 \in Nat /\ i - 1 < i
      BY <2>3, <2>5
    <3>2. after[i - 1] = days[i - 1]
      BY <2>2, <3>1
    <3> QED
      BY <1>4, <1>5, <2>3, <2>5, <3>1, <3>2
  <2> QED
    BY <2>4, <2>5
<1>7. after[n] = days[n] /\ n \in 0 .. n
  BY <1>6
<1> QED
  BY <1>1, <1>7 DEF days

-----------------------------------------------------------------------------
(* Months                                                                  *)

\* Adding months keeps the day of the month, or runs over into the month after.
LEMMA CivilMonthsIs ==
  ASSUME NEW from \in Nat, NEW n \in Nat, NEW next \in Nat,
         DayOf(next) = AddMonths(DayOf(from), n)
  PROVE  /\ CivilOf(next) = CivilMonths(CivilOf(from), n)
         /\ LET m == MonthOf(DayOf(from)) + n
                offset == DayOf(from) - MonthStart(MonthOf(DayOf(from)))
            IN  \/ /\ MonthOf(DayOf(next)) = m /\ DayOf(next) - MonthStart(m) = offset
                \/ /\ MonthOf(DayOf(next)) = m + 1 /\ offset >= 28
                   /\ DayOf(next) - MonthStart(m + 1) \in 0 .. 2
<1> DEFINE c == CivilOf(from)
           start == MonthOf(DayOf(from))
           y == c.year + ((c.month + n) \div 12)
           k == (c.month + n) % 12
<1>1. /\ c.year \in Nat /\ c.month \in 0 .. 11 /\ c.day \in 1 .. DaysIn(c.year, c.month)
      /\ start = 12 * c.year + c.month /\ DayOf(from) = MonthStart(start) + c.day - 1
  BY CivilIs
<1>2. CivilMonths(CivilOf(from), n)
         = IF c.day <= DaysIn(y, k)
           THEN [year |-> y, month |-> k, day |-> c.day]
           ELSE [year |-> y, month |-> k + 1, day |-> c.day - DaysIn(y, k)]
  BY DEF CivilMonths
<1>3. AddMonths(DayOf(from), n) = MonthStart(start + n) + (DayOf(from) - MonthStart(start))
  BY DEF AddMonths
<1> HIDE DEF c, start
<1>4. c.month + n \in Nat
  BY <1>1
<1> DEFINE years == (c.month + n) \div 12
<1>5. y \in Nat /\ k \in 0 .. 11 /\ start + n = 12 * y + k
  <2>1. years \in Nat /\ k \in 0 .. 11 /\ c.month + n = 12 * years + k
    BY <1>4, MonthNumber
  <2>2. y = c.year + years
    OBVIOUS
  <2> HIDE DEF y, k, years
  <2> QED
    BY <1>1, <2>1, <2>2
<1> HIDE DEF y, k, years
<1>6. start \in Nat /\ start + n \in Nat /\ start + n + 1 = 12 * y + k + 1
  BY <1>1, <1>5
<1>7. MonthStart(start) \in Nat /\ MonthStart(start + n) \in Nat
  BY <1>6, MonthStartType
<1>8. DaysIn(y, k) \in 28 .. 31 /\ (k = 11 => DaysIn(y, k) = 31)
  BY <1>5, DaysInBounds
<1>9. DaysIn(c.year, c.month) \in 28 .. 31
  BY <1>1, DaysInBounds
<1>10. c.day \in 1 .. 31
  <2>1. \A a \in 28 .. 31 : \A d \in 1 .. a : d \in 1 .. 31
    OBVIOUS
  <2>2. c.day \in 1 .. DaysIn(c.year, c.month)
    BY <1>1
  <2> QED
    BY <1>9, <2>1, <2>2
<1>11. DayOf(next) = MonthStart(12 * y + k) + c.day - 1 /\ DayOf(from) - MonthStart(start) = c.day - 1
  BY <1>1, <1>3, <1>5, <1>7, <1>10
<1>12. CASE c.day <= DaysIn(y, k)
  <2>1. c.day \in 1 .. DaysIn(y, k)
    BY <1>8, <1>10, <1>12
  <2>2. /\ CivilOf(next) = [year |-> y, month |-> k, day |-> c.day]
        /\ MonthOf(DayOf(next)) = 12 * y + k
    BY <1>5, <1>11, <2>1, CivilUnique
  <2>3. DayOf(next) - MonthStart(start + n) = c.day - 1
    BY <1>5, <1>7, <1>10, <1>11
  <2> QED
    BY <1>2, <1>5, <1>11, <1>12, <2>2, <2>3 DEF start
<1>13. CASE ~(c.day <= DaysIn(y, k))
  <2>1. k + 1 \in 0 .. 11 /\ c.day - DaysIn(y, k) \in 1 .. 3 /\ c.day >= 29
    BY <1>5, <1>8, <1>10, <1>13
  <2>2. DaysIn(y, k + 1) \in 28 .. 31
    BY <1>5, <2>1, DaysInBounds
  <2>3. c.day - DaysIn(y, k) \in 1 .. DaysIn(y, k + 1)
    BY <2>1, <2>2
  <2>4. MonthStart(12 * y + k + 1) = MonthStart(12 * y + k) + DaysIn(y, k)
    BY <1>5, MonthLength
  <2>5. 12 * y + k + 1 = 12 * y + (k + 1)
    BY <1>5
  <2>6. DayOf(next) = MonthStart(12 * y + (k + 1)) + (c.day - DaysIn(y, k)) - 1
    BY <1>5, <1>7, <1>8, <1>10, <1>11, <2>4, <2>5
  <2>7. /\ CivilOf(next) = [year |-> y, month |-> k + 1, day |-> c.day - DaysIn(y, k)]
        /\ MonthOf(DayOf(next)) = 12 * y + (k + 1)
    BY <1>5, <2>1, <2>3, <2>6, CivilUnique
  <2>8. /\ DayOf(next) - MonthStart(start + n + 1) = c.day - DaysIn(y, k) - 1
        /\ DayOf(from) - MonthStart(start) >= 28
    BY <1>5, <1>6, <1>7, <1>8, <1>10, <1>11, <2>1, <2>4
  <2>9. DayOf(next) - MonthStart(start + n + 1) \in 0 .. 2
    BY <1>8, <1>10, <2>1, <2>8
  <2>10. MonthOf(DayOf(next)) = start + n + 1
    BY <1>6, <2>5, <2>7
  <2> QED
    BY <1>2, <1>13, <2>7, <2>8, <2>9, <2>10 DEF start
<1> QED
  BY <1>12, <1>13

-----------------------------------------------------------------------------
(* A series of dates                                                       *)

DatesTyped ==
  /\ frequency \in Frequencies /\ interval \in Nat \ {0}
  /\ startDate \in Nat /\ date \in Nat /\ runs \in Nat

\* The time of day is kept, and a date a month late is one of the first three days.
DatesInv ==
  /\ DatesTyped /\ CalendarIsCivil
  /\ frequency \in {"monthly", "yearly"} =>
        LET planned == MonthOf(DayOf(startDate)) + runs * interval * MonthsOf(frequency)
            m == MonthOf(DayOf(date))
        IN  m = planned \/ (m = planned + 1 /\ DayOf(date) - MonthStart(m) \in 0 .. 2)

\* One run further, in civil terms.
LEMMA NextIsCivil ==
  ASSUME NEW f \in Frequencies, NEW i \in Nat \ {0}, NEW from \in Nat
  PROVE  LET next == CalculateNextRunDate(f, i, from)
         IN  CivilOf(next) = CivilNext(f, i, CivilOf(from)) /\ TimeOf(next) = TimeOf(from)
<1> DEFINE next == CalculateNextRunDate(f, i, from)
<1>1. next \in Nat
  BY NextRunDateLater
<1>2. ASSUME NEW n \in Nat, next = from + SlotsPerDay * n
      PROVE  CivilOf(next) = CivilDays(CivilOf(from), n) /\ TimeOf(next) = TimeOf(from)
  <2>1. next = from + 2 * n
    BY <1>2 DEF SlotsPerDay
  <2>2. (from + 2 * n) % 2 = from % 2
    OBVIOUS
  <2> QED
    BY <2>1, <2>2, CivilDaysIs DEF TimeOf, SlotsPerDay
<1>3. ASSUME NEW n \in Nat \ {0}, next = SlotsPerDay * AddMonths(DayOf(from), n) + TimeOf(from)
      PROVE  CivilOf(next) = CivilMonths(CivilOf(from), n) /\ TimeOf(next) = TimeOf(from)
  <2>1. DayOf(from) \in Nat /\ TimeOf(from) \in 0 .. 1 /\ AddMonths(DayOf(from), n) \in Nat
    BY DayOfType, AddMonthsLater
  <2>2. DayOf(next) = AddMonths(DayOf(from), n) /\ TimeOf(next) = TimeOf(from)
    <3>1. \A a \in Nat, t \in 0 .. 1 : (2 * a + t) \div 2 = a /\ (2 * a + t) % 2 = t
      OBVIOUS
    <3>2. next = 2 * AddMonths(DayOf(from), n) + TimeOf(from)
      BY <1>3 DEF SlotsPerDay
    <3>3. next \div 2 = AddMonths(DayOf(from), n) /\ next % 2 = TimeOf(from)
      BY <2>1, <3>1, <3>2
    <3> QED
      BY <3>3 DEF DayOf, TimeOf, SlotsPerDay
  <2> QED
    BY <1>1, <2>2, CivilMonthsIs
<1>4. CASE f \in {"daily", "custom"}
  <2>1. next = from + SlotsPerDay * i
    BY <1>4 DEF CalculateNextRunDate
  <2>2. CivilNext(f, i, CivilOf(from)) = CivilDays(CivilOf(from), i)
    BY <1>4 DEF CivilNext
  <2> QED
    BY <1>2, <2>1, <2>2
<1>5. CASE f = "weekly"
  <2>1. next = from + SlotsPerDay * (7 * i) /\ 7 * i \in Nat
    BY <1>5 DEF CalculateNextRunDate
  <2>2. CivilNext(f, i, CivilOf(from)) = CivilDays(CivilOf(from), 7 * i)
    BY <1>5 DEF CivilNext
  <2> QED
    BY <1>2, <2>1, <2>2
<1>6. CASE f = "monthly"
  <2>1. next = SlotsPerDay * AddMonths(DayOf(from), i) + TimeOf(from)
    BY <1>6 DEF CalculateNextRunDate
  <2>2. CivilNext(f, i, CivilOf(from)) = CivilMonths(CivilOf(from), i)
    BY <1>6 DEF CivilNext
  <2> QED
    BY <1>3, <2>1, <2>2
<1>7. CASE f = "yearly"
  <2>1. next = SlotsPerDay * AddMonths(DayOf(from), 12 * i) + TimeOf(from) /\ 12 * i \in Nat \ {0}
    BY <1>7 DEF CalculateNextRunDate
  <2>2. CivilNext(f, i, CivilOf(from)) = CivilMonths(CivilOf(from), 12 * i)
    BY <1>7 DEF CivilNext
  <2> QED
    BY <1>3, <2>1, <2>2
<1> QED
  BY <1>4, <1>5, <1>6, <1>7 DEF Frequencies

\* A month or n months later, a date that is late is not later, and on one of the first days.
LEMMA NextIsLate ==
  ASSUME NEW n \in Nat \ {0}, NEW from \in Nat, NEW next \in Nat, NEW planned \in Nat,
         next = SlotsPerDay * AddMonths(DayOf(from), n) + TimeOf(from),
         \/ MonthOf(DayOf(from)) = planned
         \/ /\ MonthOf(DayOf(from)) = planned + 1
            /\ DayOf(from) - MonthStart(MonthOf(DayOf(from))) \in 0 .. 2
  PROVE  \/ MonthOf(DayOf(next)) = planned + n
         \/ /\ MonthOf(DayOf(next)) = planned + n + 1
            /\ DayOf(next) - MonthStart(MonthOf(DayOf(next))) \in 0 .. 2
<1> DEFINE m == MonthOf(DayOf(from))
           offset == DayOf(from) - MonthStart(m)
           late == MonthOf(DayOf(next))
<1>1. DayOf(next) = AddMonths(DayOf(from), n)
  <2>1. DayOf(from) \in Nat /\ TimeOf(from) \in 0 .. 1 /\ AddMonths(DayOf(from), n) \in Nat
    BY DayOfType, AddMonthsLater
  <2>2. \A a \in Nat, t \in 0 .. 1 : (2 * a + t) \div 2 = a
    OBVIOUS
  <2> QED
    BY <2>1, <2>2 DEF DayOf, SlotsPerDay
<1>2. \/ late = m + n /\ DayOf(next) - MonthStart(m + n) = offset
      \/ late = m + n + 1 /\ offset >= 28 /\ DayOf(next) - MonthStart(m + n + 1) \in 0 .. 2
  BY <1>1, CivilMonthsIs
<1>3. m = planned \/ (m = planned + 1 /\ offset \in 0 .. 2)
  OBVIOUS
<1> HIDE DEF m, offset, late
<1>4. \/ late = planned + n
      \/ late = planned + n + 1 /\ DayOf(next) - MonthStart(late) \in 0 .. 2
  <2>1. CASE m = planned
    BY <1>2, <2>1
  <2>2. CASE m = planned + 1 /\ offset \in 0 .. 2
    <3>1. ~(offset >= 28)
      BY <2>2
    <3>2. planned + 1 + n = planned + n + 1
      OBVIOUS
    <3> QED
      BY <1>2, <2>2, <3>1, <3>2
  <2> QED
    BY <1>3, <2>1, <2>2
<1> QED
  BY <1>4 DEF late

LEMMA DatesStart == DatesInit => DatesInv
<1> SUFFICES ASSUME DatesInit
             PROVE  DatesInv
  OBVIOUS
<1>1. DatesTyped
  BY DatesAssumption DEF DatesInit, DatesTyped
<1>2. CalendarIsCivil
  BY DEF DatesInit, CalendarIsCivil
<1>3. MonthOf(DayOf(startDate)) \in Nat
  BY <1>1, DayOfType, MonthOfIsMonth DEF DatesTyped
<1>4. frequency \in {"monthly", "yearly"} => runs * interval * MonthsOf(frequency) = 0
  BY <1>1 DEF DatesInit, DatesTyped, MonthsOf
<1> QED
  BY <1>1, <1>2, <1>3, <1>4 DEF DatesInit, DatesInv

LEMMA DatesStep == DatesInv /\ [NextRun]_dates => DatesInv'
<1> SUFFICES ASSUME DatesInv, [NextRun]_dates
             PROVE  DatesInv'
  OBVIOUS
<1>1. CASE UNCHANGED dates
  BY <1>1 DEF dates, DatesInv, DatesTyped, CalendarIsCivil
<1>2. CASE NextRun
  <2>1. /\ frequency \in Frequencies /\ interval \in Nat \ {0}
        /\ startDate \in Nat /\ date \in Nat /\ runs \in Nat
    BY DEF DatesInv, DatesTyped
  <2>2. /\ date' = CalculateNextRunDate(frequency, interval, date)
        /\ civil' = CivilNext(frequency, interval, civil)
        /\ runs' = runs + 1
        /\ frequency' = frequency /\ interval' = interval /\ startDate' = startDate
    BY <1>2 DEF NextRun
  <2>3. date' \in Nat
    BY <2>1, <2>2, NextRunDateLater
  <2>4. DatesTyped'
    BY <2>1, <2>2, <2>3 DEF DatesTyped
  <2>5. CalendarIsCivil'
    BY <2>1, <2>2, NextIsCivil DEF DatesInv, CalendarIsCivil
  <2>6. ASSUME NEW n \in Nat \ {0}, n = interval * MonthsOf(frequency),
               frequency \in {"monthly", "yearly"},
               date' = SlotsPerDay * AddMonths(DayOf(date), n) + TimeOf(date)
        PROVE  LET planned == MonthOf(DayOf(startDate)) + (runs + 1) * interval * MonthsOf(frequency)
                   m == MonthOf(DayOf(date'))
               IN  m = planned \/ (m = planned + 1 /\ DayOf(date') - MonthStart(m) \in 0 .. 2)
    <3> DEFINE before == runs * interval * MonthsOf(frequency)
               planned == MonthOf(DayOf(startDate)) + before
    <3>1. MonthsOf(frequency) \in {1, 12}
      BY <2>6 DEF MonthsOf
    <3>2. before \in Nat /\ (runs + 1) * interval * MonthsOf(frequency) = before + n
      BY <2>1, <2>6, <3>1
    <3>3. MonthOf(DayOf(startDate)) \in Nat
      BY <2>1, DayOfType, MonthOfIsMonth
    <3>4. \/ MonthOf(DayOf(date)) = planned
          \/ /\ MonthOf(DayOf(date)) = planned + 1
             /\ DayOf(date) - MonthStart(MonthOf(DayOf(date))) \in 0 .. 2
      BY <2>6 DEF DatesInv
    <3> HIDE DEF before
    <3>5. planned \in Nat
      BY <3>2, <3>3
    <3>6. MonthOf(DayOf(startDate)) + (runs + 1) * interval * MonthsOf(frequency) = planned + n
      BY <3>2, <3>3
    <3> HIDE DEF planned
    <3>7. \/ MonthOf(DayOf(date')) = planned + n
          \/ /\ MonthOf(DayOf(date')) = planned + n + 1
             /\ DayOf(date') - MonthStart(MonthOf(DayOf(date'))) \in 0 .. 2
      <4>1. PICK p \in Nat, next \in Nat : p = planned /\ next = date'
        BY <2>3, <3>5
      <4>2. \/ MonthOf(DayOf(date)) = p
            \/ /\ MonthOf(DayOf(date)) = p + 1
               /\ DayOf(date) - MonthStart(MonthOf(DayOf(date))) \in 0 .. 2
        BY <3>4, <4>1
      <4>3. next = SlotsPerDay * AddMonths(DayOf(date), n) + TimeOf(date)
        BY <2>6, <4>1
      <4>4. \/ MonthOf(DayOf(next)) = p + n
            \/ /\ MonthOf(DayOf(next)) = p + n + 1
               /\ DayOf(next) - MonthStart(MonthOf(DayOf(next))) \in 0 .. 2
        BY <2>1, <4>2, <4>3, NextIsLate
      <4> QED
        BY <4>1, <4>4
    <3> QED
      BY <3>6, <3>7
  <2>7. CASE frequency = "monthly"
    <3>1. date' = SlotsPerDay * AddMonths(DayOf(date), interval) + TimeOf(date)
      BY <2>2, <2>7 DEF CalculateNextRunDate
    <3>2. interval = interval * MonthsOf(frequency)
      BY <2>1, <2>7 DEF MonthsOf
    <3> QED
      BY <2>1, <2>2, <2>4, <2>5, <2>6, <2>7, <3>1, <3>2 DEF DatesInv
  <2>8. CASE frequency = "yearly"
    <3>1. date' = SlotsPerDay * AddMonths(DayOf(date), 12 * interval) + TimeOf(date)
      BY <2>2, <2>8 DEF CalculateNextRunDate
    <3>2. 12 * interval = interval * MonthsOf(frequency) /\ 12 * interval \in Nat \ {0}
      BY <2>1, <2>8 DEF MonthsOf
    <3> QED
      BY <2>1, <2>2, <2>4, <2>5, <2>6, <2>8, <3>1, <3>2 DEF DatesInv
  <2>9. CASE frequency \notin {"monthly", "yearly"}
    BY <2>2, <2>4, <2>5, <2>9 DEF DatesInv
  <2> QED
    BY <2>7, <2>8, <2>9
<1> QED
  BY <1>1, <1>2

\* calculateNextRunDate is the Gregorian calendar with JavaScript's overflow, for every
\* date, and keeps the time of day.
THEOREM DatesAreCivil == DatesSpec => []CalendarIsCivil
<1>1. DatesInv => CalendarIsCivil
  BY DEF DatesInv
<1> QED
  BY <1>1, DatesStart, DatesStep, PTL DEF DatesSpec

\* However long a series runs, overflow delays it by one month at most (calculateNextRunDate).
THEOREM LateByOneMonth == DatesSpec => []OneMonthLateAtMost
<1>1. DatesInv => OneMonthLateAtMost
  BY DEF DatesInv, OneMonthLateAtMost
<1> QED
  BY <1>1, DatesStart, DatesStep, PTL DEF DatesSpec

-----------------------------------------------------------------------------
(* Documents and jobs keep their types                                     *)

LEMMA BlankTypes == BlankDoc \in Doc /\ Idle \in Job
<1>1. BlankDoc \in Doc
  BY DEF Doc, BlankDoc, NewDoc, Frequencies
<1>2. QED
  BY <1>1, ActorsAssumption DEF Job, Idle, Ops, SavingOps

LEMMA NewDocType ==
  ASSUME NEW f \in Frequencies, NEW i \in Nat \ {0}, NEW start \in Nat,
         NEW end \in Nat \cup {Never}, NEW next \in Nat, NEW active \in BOOLEAN
  PROVE  NewDoc(f, i, start, end, next, active) \in Doc
  BY DEF Doc, NewDoc

\* What Document.save writes is a document, and it keeps what the handler left alone.
LEMMA SaveModifiedType ==
  ASSUME NEW current \in Doc, NEW loaded \in Doc, NEW mine \in Doc
  PROVE  SaveModified(current, loaded, mine) \in Doc
  BY DEF SaveModified, Doc

LEMMA AdvanceLater ==
  ASSUME NEW d \in Doc, NEW from \in Nat
  PROVE  Advance(d, from) \in Nat /\ Advance(d, from) > from
  BY NextRunDateLater DEF Advance, Doc

LEMMA GeneratedType ==
  ASSUME NEW d \in Doc, NEW run \in Nat, NEW next
  PROVE  Generated(d, run, next) \in Doc
<1> DEFINE active == d.isActive /\ ~PastEnd(d, next)
<1>1. active \in BOOLEAN
  OBVIOUS
<1>2. d.runCount + 1 \in Nat
  BY DEF Doc
<1> HIDE DEF active
<1>3. [d EXCEPT !.lastRunDate = run, !.runCount = d.runCount + 1, !.isActive = active] \in Doc
  BY <1>1, <1>2 DEF Doc
<1>4. QED
  BY <1>3 DEF Generated, active

LEMMA NewJobType ==
  ASSUME NEW op \in Ops, NEW s \in Series, docs \in [Series -> Doc], NEW mine \in Doc
  PROVE  NewJob(op, s, mine) \in Job
  BY BlankTypes DEF NewJob, Job

LEMMA GenerateJobType ==
  ASSUME NEW s \in Series, docs \in [Series -> Doc], NEW until \in Nat
  PROVE  GenerateJob(s, until) \in Job
<1>1. docs[s] \in Doc /\ docs[s].nextRunDate \in Nat
  BY DEF Doc
<1>2. NewJob("generate", s, docs[s]) \in Job
  BY <1>1, NewJobType DEF Ops
<1>3. QED
  BY <1>1, <1>2 DEF GenerateJob, Job

LEMMA MidnightType == ASSUME NEW from \in Nat  PROVE Midnight(from) \in Nat
  BY DEF Midnight, TimeOf, SlotsPerDay

\* Starting and ending a job, and tracing why a series may repeat a date.
LEMMA StartType ==
  ASSUME TypeOK, NEW a \in Actors, NEW j \in Job, Start(a, j)
  PROVE  /\ job' \in [Actors -> Job]
         /\ causes' \in [Series -> SUBSET {"overlap", "unsavedRun", "rewind"}]
  BY DEF Start, TypeOK, Job

LEMMA FinishType ==
  ASSUME TypeOK, NEW a \in Actors, Finish(a)
  PROVE  job' \in [Actors -> Job]
  BY BlankTypes DEF Finish, TypeOK

LEMMA AbandonType ==
  ASSUME TypeOK, NEW a \in Actors, Abandon(a)
  PROVE  causes' \in [Series -> SUBSET {"overlap", "unsavedRun", "rewind"}]
  BY DEF Abandon, TypeOK, Job

LEMMA JobFields ==
  ASSUME TypeOK, NEW a \in Actors
  PROVE  /\ job[a] \in Job
         /\ job[a].op \in Ops /\ job[a].series \in Series
         /\ job[a].loaded \in Doc /\ job[a].mine \in Doc
         /\ job[a].cursor \in Nat /\ job[a].until \in Nat /\ job[a].inserted \in BOOLEAN
  BY DEF TypeOK, Job

LEMMA ServeType ==
  ASSUME TypeOK, NEW r \in Requests, NEW op \in Ops, NEW s \in Series, NEW mine \in Doc,
         Serve(r, op, s, mine)
  PROVE  TypeOK'
<1>1. NewJob(op, s, mine) \in Job
  BY NewJobType DEF TypeOK
<1>2. /\ job' \in [Actors -> Job]
      /\ causes' \in [Series -> SUBSET {"overlap", "unsavedRun", "rewind"}]
  BY <1>1, StartType DEF Serve, Actors
<1>3. requestsLeft' \in Nat
  BY DEF Serve, SpendRequest, TypeOK
<1>4. QED
  BY <1>2, <1>3 DEF Serve, dbVars, cronVars, ledgerVars, TypeOK

-----------------------------------------------------------------------------
(* Type correctness                                                        *)

LEMMA TypeInit == Init => TypeOK
  BY BlankTypes, BoundsAssumption DEF Init, TypeOK

LEMMA UserStepType == ASSUME TypeOK, UserStep  PROVE TypeOK'
<1>1. ASSUME NEW s \in Series, Create(s)  PROVE TypeOK'
  <2>1. PICK f \in UserFrequencies, i \in UserIntervals, active \in BOOLEAN,
             start \in UserDates, end \in UserDates \cup {Never} :
                docs' = [docs EXCEPT ![s] = NewDoc(f, i, start, end, start, active)]
    BY <1>1 DEF Create
  <2>2. NewDoc(f, i, start, end, start, active) \in Doc
    BY NewDocType, ScheduleAssumption
  <2>3. docs' \in [Series -> Doc]
    BY <2>1, <2>2 DEF TypeOK
  <2>4. requestsLeft' \in Nat
    BY <1>1 DEF Create, SpendRequest, TypeOK
  <2>5. QED
    BY <1>1, <2>3, <2>4 DEF Create, cronVars, ledgerVars, TypeOK
<1>2. ASSUME BulkDelete  PROVE TypeOK'
  <2>1. PICK ids \in SUBSET Series :
          /\ requestsLeft' = requestsLeft - 1 /\ requestsLeft > 0
          /\ docs' = [s \in Series |-> IF s \in ids /\ Visible(s)
                                       THEN [docs[s] EXCEPT !.deletedAt = TRUE] ELSE docs[s]]
    BY <1>2 DEF BulkDelete, SpendRequest
  <2>2. \A d \in Doc : [d EXCEPT !.deletedAt = TRUE] \in Doc
    BY DEF Doc
  <2>3. docs' \in [Series -> Doc] /\ requestsLeft' \in Nat
    BY <2>1, <2>2 DEF TypeOK
  <2>4. QED
    BY <1>2, <2>3 DEF BulkDelete, cronVars, ledgerVars, TypeOK
<1>3. ASSUME NEW r \in Requests, NEW s \in Series,
             Pause(r, s) \/ Resume(r, s) \/ SkipNext(r, s) \/ Remove(r, s) \/ Update(r, s)
               \/ EditFuture(r, s)
      PROVE  TypeOK'
  <2> DEFINE d == docs[s]
  <2>0. d \in Doc
    BY DEF TypeOK
  <2> HIDE DEF d
  <2>1. \A active \in BOOLEAN : [d EXCEPT !.isActive = active] \in Doc
    BY <2>0 DEF Doc
  <2>2. [d EXCEPT !.deletedAt = TRUE] \in Doc
    BY <2>0 DEF Doc
  <2>3. [d EXCEPT !.nextRunDate = Advance(d, d.nextRunDate)] \in Doc
    <3>1. d.nextRunDate \in Nat
      BY <2>0 DEF Doc
    <3>2. Advance(d, d.nextRunDate) \in Nat
      BY <2>0, <3>1, AdvanceLater
    <3>3. QED
      BY <2>0, <3>2 DEF Doc
  <2>4. [d EXCEPT !.endDate = d.nextRunDate, !.isActive = FALSE] \in Doc
    BY <2>0 DEF Doc
  <2>5. CASE Update(r, s)
    <3>1. PICK f \in UserFrequencies \cup {d.frequency}, i \in UserIntervals \cup {d.interval},
               start \in UserDates \cup {d.startDate},
               end \in UserDates \cup {Never, d.endDate},
               active \in BOOLEAN, reschedule \in BOOLEAN :
            Serve(r, "update", s,
               [d EXCEPT !.frequency = f, !.interval = i, !.startDate = start,
                         !.endDate = end, !.isActive = active,
                         !.nextRunDate = IF reschedule THEN CalculateNextRunDate(f, i, start)
                                         ELSE d.nextRunDate])
      BY <2>5 DEF Update, d
    <3>2. /\ f \in Frequencies /\ i \in Nat \ {0} /\ start \in Nat
          /\ end \in Nat \cup {Never} /\ d.nextRunDate \in Nat
      BY <2>0, ScheduleAssumption DEF Doc
    <3>3. CalculateNextRunDate(f, i, start) \in Nat
      BY <3>2, NextRunDateLater
    <3>4. \A next \in Nat : [d EXCEPT !.frequency = f, !.interval = i, !.startDate = start,
                                      !.endDate = end, !.isActive = active,
                                      !.nextRunDate = next] \in Doc
      BY <2>0, <3>2 DEF Doc
    <3>5. QED
      BY <3>1, <3>2, <3>3, <3>4, ServeType DEF Ops, SavingOps
  <2>6. QED
    BY <1>3, <2>0, <2>1, <2>2, <2>3, <2>4, <2>5, ServeType
      DEF Pause, Resume, SkipNext, Remove, EditFuture, Ops, SavingOps, d
<1>4. ASSUME NEW r \in Requests, NEW s \in Series, ManualGenerate(r, s)  PROVE TypeOK'
  <2>1. PICK until \in {now} \cup UserDates : Start(r, GenerateJob(s, until))
    BY <1>4 DEF ManualGenerate
  <2>2. GenerateJob(s, until) \in Job
    BY GenerateJobType, ScheduleAssumption DEF TypeOK
  <2>3. /\ job' \in [Actors -> Job]
        /\ causes' \in [Series -> SUBSET {"overlap", "unsavedRun", "rewind"}]
    BY <2>1, <2>2, StartType DEF Actors
  <2>4. requestsLeft' \in Nat
    BY <1>4 DEF ManualGenerate, SpendRequest, TypeOK
  <2>5. QED
    BY <1>4, <2>3, <2>4 DEF ManualGenerate, dbVars, cronVars, ledgerVars, TypeOK
<1>5. QED
  BY <1>1, <1>2, <1>3, <1>4 DEF UserStep

LEMMA AnswerType == ASSUME TypeOK, NEW r \in Requests, Answer(r)  PROVE TypeOK'
<1>1. r \in Actors
  BY DEF Actors
<1>2. ASSUME Save(r)  PROVE TypeOK'
  <2>1. docs' \in [Series -> Doc]
    BY <1>1, <1>2, JobFields, SaveModifiedType DEF Save, TypeOK
  <2>2. job' \in [Actors -> Job]
    BY <1>1, <1>2, FinishType DEF Save
  <2>3. causes' \in [Series -> SUBSET {"overlap", "unsavedRun", "rewind"}]
    BY <1>1, <1>2, JobFields DEF Save, TypeOK
  <2>4. QED
    BY <1>2, <2>1, <2>2, <2>3 DEF Save, cronVars, ledgerVars, TypeOK
<1>3. ASSUME EndCurrent(r)  PROVE TypeOK'
  <2>1. docs' \in [Series -> Doc]
    BY <1>1, <1>3, JobFields, SaveModifiedType DEF EndCurrent, TypeOK
  <2>2. job' \in [Actors -> Job]
    BY <1>1, <1>3 DEF EndCurrent, TypeOK, Job, Ops
  <2>3. QED
    BY <1>3, <2>1, <2>2 DEF EndCurrent, cronVars, ledgerVars, TypeOK
<1>4. ASSUME CreateSuccessor(r)  PROVE TypeOK'
  <2> DEFINE d == job[r].mine
  <2>1. /\ d.frequency \in Frequencies /\ d.interval \in Nat \ {0} /\ d.nextRunDate \in Nat
    BY <1>1, JobFields DEF Doc
  <2>2. PICK s \in Series \ stored,
             f \in UserFrequencies \cup {d.frequency}, i \in UserIntervals \cup {d.interval},
             end \in UserDates \cup {Never}, active \in BOOLEAN :
                /\ stored' = stored \cup {s}
                /\ docs' = [docs EXCEPT ![s] = Successor(d, f, i, end, active)]
    BY <1>4 DEF CreateSuccessor
  <2> HIDE DEF d
  <2>3. f \in Frequencies /\ i \in Nat \ {0} /\ end \in Nat \cup {Never}
    BY <2>1, ScheduleAssumption
  <2>4. CalculateNextRunDate(f, i, d.nextRunDate) \in Nat
    BY <2>1, <2>3, NextRunDateLater
  <2>5. Successor(d, f, i, end, active) \in Doc
    BY <2>1, <2>3, <2>4, NewDocType DEF Successor
  <2>6. docs' \in [Series -> Doc] /\ stored' \subseteq Series
    BY <2>2, <2>5 DEF TypeOK
  <2>7. job' \in [Actors -> Job]
    BY <1>1, <1>4, FinishType DEF CreateSuccessor
  <2>8. QED
    BY <1>4, <2>6, <2>7 DEF CreateSuccessor, cronVars, ledgerVars, TypeOK
<1>5. QED
  BY <1>2, <1>3, <1>4 DEF Answer

LEMMA GenerateType == ASSUME TypeOK, NEW a \in Actors, Generate(a)  PROVE TypeOK'
<1> DEFINE j == job[a]
           next == Advance(j.mine, j.cursor)
<1>1. /\ j \in Job /\ j.mine \in Doc /\ j.loaded \in Doc /\ j.cursor \in Nat
      /\ j.series \in Series
  BY JobFields
<1>2. next \in Nat
  BY <1>1, AdvanceLater
<1>3. ASSUME SkipBeforeStart(a)  PROVE TypeOK'
  <2>1. [j EXCEPT !.cursor = next] \in Job
    BY <1>1, <1>2 DEF Job
  <2>2. job' = [job EXCEPT ![a] = [j EXCEPT !.cursor = next]]
    BY <1>3 DEF SkipBeforeStart
  <2>3. job' \in [Actors -> Job]
    BY <2>1, <2>2 DEF TypeOK
  <2>4. QED
    BY <1>3, <2>3 DEF SkipBeforeStart, dbVars, cronVars, ledgerVars, TypeOK
<1>4. ASSUME InsertTransaction(a)  PROVE TypeOK'
  <2>1. Generated(j.mine, j.cursor, next) \in Doc
    BY <1>1, GeneratedType
  <2>2. [j EXCEPT !.inserted = TRUE, !.cursor = next,
                  !.mine = Generated(j.mine, j.cursor, next)] \in Job
    BY <1>1, <1>2, <2>1 DEF Job
  <2>3. job' \in [Actors -> Job]
    BY <1>4, <2>2 DEF InsertTransaction, TypeOK
  <2>4. /\ posted' \in [Series -> SUBSET Nat] /\ reposted' \in [Series -> SUBSET Nat]
        /\ made' \in [Series -> Nat]
    BY <1>1, <1>4 DEF InsertTransaction, TypeOK
  <2>5. QED
    BY <1>4, <2>3, <2>4 DEF InsertTransaction, dbVars, cronVars, TypeOK
<1>5. ASSUME SaveGenerated(a)  PROVE TypeOK'
  <2>1. [j.mine EXCEPT !.nextRunDate = j.cursor] \in Doc
    BY <1>1 DEF Doc
  <2>2. docs' \in [Series -> Doc]
    BY <1>1, <1>5, <2>1, SaveModifiedType DEF SaveGenerated, TypeOK
  <2>3. job' \in [Actors -> Job]
    BY <1>5, FinishType DEF SaveGenerated
  <2>4. QED
    BY <1>5, <2>2, <2>3 DEF SaveGenerated, cronVars, ledgerVars, TypeOK
<1>6. QED
  BY <1>3, <1>4, <1>5 DEF Generate

LEMMA CronType ==
  ASSUME TypeOK, NEW c \in Crons, CronFires(c) \/ CronTakes(c) \/ Crash(c)
  PROVE  TypeOK'
<1>1. c \in Actors
  BY DEF Actors
<1>2. CASE CronFires(c)
  BY <1>2 DEF CronFires, dbVars, ledgerVars, TypeOK
<1>3. CASE CronTakes(c)
  <2>1. PICK s \in due[c] :
          /\ due' = [due EXCEPT ![c] = @ \ {s}]
          /\ Start(c, GenerateJob(s, Midnight(now))) \/ UNCHANGED <<job, causes>>
    BY <1>3 DEF CronTakes
  <2>2. s \in Series /\ due' \in [Crons -> SUBSET Series]
    BY <2>1 DEF TypeOK
  <2>3. GenerateJob(s, Midnight(now)) \in Job
    BY <2>2, GenerateJobType, MidnightType DEF TypeOK
  <2>4. /\ job' \in [Actors -> Job]
        /\ causes' \in [Series -> SUBSET {"overlap", "unsavedRun", "rewind"}]
    BY <1>1, <2>1, <2>3, StartType DEF TypeOK
  <2>5. QED
    BY <1>3, <2>2, <2>4 DEF CronTakes, dbVars, ledgerVars, TypeOK
<1>4. CASE Crash(c)
  <2>1. job' \in [Actors -> Job]
    BY <1>1, <1>4, FinishType DEF Crash
  <2>2. causes' \in [Series -> SUBSET {"overlap", "unsavedRun", "rewind"}]
    BY <1>1, <1>4, AbandonType DEF Crash
  <2>3. failuresLeft' \in Nat
    BY <1>4 DEF Crash, SpendFailure, TypeOK
  <2>4. QED
    BY <1>4, <2>1, <2>2, <2>3 DEF Crash, dbVars, ledgerVars, TypeOK
<1>5. QED
  BY <1>2, <1>3, <1>4

LEMMA FailType == ASSUME TypeOK, NEW a \in Actors, Fail(a)  PROVE TypeOK'
<1>1. job' \in [Actors -> Job]
  BY FinishType DEF Fail
<1>2. causes' \in [Series -> SUBSET {"overlap", "unsavedRun", "rewind"}]
  BY AbandonType DEF Fail
<1>3. failuresLeft' \in Nat
  BY DEF Fail, SpendFailure, TypeOK
<1>4. QED
  BY <1>1, <1>2, <1>3 DEF Fail, dbVars, cronVars, ledgerVars, TypeOK

LEMMA TypeNext == TypeOK /\ [Next]_vars => TypeOK'
<1> SUFFICES ASSUME TypeOK, [Next]_vars  PROVE TypeOK'
  OBVIOUS
<1>1. CASE UNCHANGED vars
  BY <1>1 DEF vars, TypeOK
<1>2. CASE Tick
  <2>1. now' \in Nat
    BY <1>2 DEF Tick, TypeOK
  <2>2. armed' \in [Crons -> BOOLEAN]
    BY <1>2 DEF Tick
  <2>3. QED
    BY <1>2, <2>1, <2>2 DEF Tick, dbVars, ledgerVars, TypeOK
<1>3. QED
  BY <1>1, <1>2, UserStepType, AnswerType, GenerateType, CronType, FailType DEF Next

\* Every field of every document, job and history variable stays in its range; above all,
\* nextRunDate stays a date after any sequence of requests, runs and failures.
THEOREM Typing == Spec => []TypeOK
<1>1. QED
  BY TypeInit, TypeNext, PTL DEF Spec

-----------------------------------------------------------------------------
(* The inductive invariant                                                 *)

\* A handler works on a series of the database; only a generation writes lastRunDate and
\* runCount, and editFuture does not write nextRunDate.
JobInv(j, known) ==
    /\ j.op # "idle" => j.series \in known
    /\ j.op # "generate" => /\ j.mine.lastRunDate = j.loaded.lastRunDate
                            /\ j.mine.runCount = j.loaded.runCount
                            /\ ~j.inserted
    /\ j.op \in {"endCurrent", "createSuccessor"} =>
           j.mine.nextRunDate = j.loaded.nextRunDate

JobsInv == \A a \in Actors : JobInv(job[a], stored)

\* The ledger fields of a document.
SameLedger(d, e) ==
    /\ d.nextRunDate = e.nextRunDate
    /\ d.lastRunDate = e.lastRunDate
    /\ d.runCount = e.runCount

\* Nothing has been made from a series that does not exist yet.
Unstored(s) == s \notin stored => posted[s] = {} /\ made[s] = 0

\* A series that nothing has disturbed has at most one handler that moves its next run
\* date, and what that handler read is still what the database holds.
OneMover(s) == \A a, b \in MoversOf(s) : a = b
FreshMover(s) == \A a \in MoversOf(s) : SameLedger(job[a].loaded, docs[s])

\* `count` runs, the last of them on `last`, account for all that has been made from s.
Accounts(s, last, count) ==
    /\ \A d \in posted[s] : d <= last
    /\ count = made[s]

\* They do so in the copy of the generation under way, and in the database when no
\* generation has made anything yet.
LedgerInJob(s) ==
    \A a \in MoversOf(s) : job[a].op = "generate" =>
        /\ Accounts(s, job[a].mine.lastRunDate, job[a].mine.runCount)
        /\ job[a].mine.lastRunDate < job[a].cursor
LedgerInDocs(s) ==
    /\ docs[s].lastRunDate < docs[s].nextRunDate
    /\ (\A a \in MoversOf(s) : ~job[a].inserted) =>
          Accounts(s, docs[s].lastRunDate, docs[s].runCount)

Undisturbed(s) ==
    /\ reposted[s] = {}
    /\ OneMover(s) /\ FreshMover(s)
    /\ LedgerInJob(s) /\ LedgerInDocs(s)

SeriesInv(s) == Unstored(s) /\ (causes[s] = {} => Undisturbed(s))

IInv == TypeOK /\ JobsInv /\ \A s \in Series : SeriesInv(s)

-----------------------------------------------------------------------------
(* The steps, as one series sees them                                      *)

\* A step is calm for s when it leaves what has been made from s and its ledger fields
\* alone, and no handler starts moving its next run date or stops half-way.
Calm(s) ==
    /\ posted'[s] = posted[s] /\ reposted'[s] = reposted[s] /\ made'[s] = made[s]
    /\ SameLedger(docs'[s], docs[s])
    /\ causes[s] \subseteq causes'[s]
    /\ stored \subseteq stored'
    /\ \A a \in MoversOf(s)' : a \in MoversOf(s) /\ job'[a] = job[a]
    /\ causes'[s] = {} => \A a \in MoversOf(s) \ MoversOf(s)' : ~job[a].inserted

LEMMA CalmStep ==
  ASSUME NEW s \in Series, SeriesInv(s), Calm(s)
  PROVE  SeriesInv(s)'
<1>1. Unstored(s)'
  BY DEF Unstored, SeriesInv, Calm
<1>2. ASSUME causes'[s] = {}  PROVE Undisturbed(s)'
  <2>1. Undisturbed(s)
    BY <1>2 DEF SeriesInv, Calm
  <2>2. (reposted[s] = {})' /\ OneMover(s)'
    BY <2>1 DEF Undisturbed, OneMover, Calm
  <2>3. FreshMover(s)'
    BY <2>1 DEF Undisturbed, FreshMover, SameLedger, Calm
  <2>4. LedgerInJob(s)'
    BY <2>1 DEF Undisturbed, LedgerInJob, Accounts, Calm
  <2>5. LedgerInDocs(s)'
    <3>1. docs'[s].lastRunDate < docs'[s].nextRunDate
      BY <2>1 DEF Undisturbed, LedgerInDocs, SameLedger, Calm
    <3>2. ASSUME \A a \in MoversOf(s)' : ~job'[a].inserted
          PROVE  Accounts(s, docs[s].lastRunDate, docs[s].runCount)
      <4>1. \A a \in MoversOf(s) : ~job[a].inserted
        BY <1>2, <3>2 DEF Calm
      <4>2. QED
        BY <2>1, <4>1 DEF Undisturbed, LedgerInDocs
    <3>3. QED
      BY <3>1, <3>2 DEF LedgerInDocs, Accounts, SameLedger, Calm
  <2>6. QED
    BY <2>2, <2>3, <2>4, <2>5 DEF Undisturbed
<1>3. QED
  BY <1>1, <1>2 DEF SeriesInv

\* Changing the job of one actor.
LEMMA OneJob ==
  ASSUME TypeOK, NEW a \in Actors, NEW j, job' = [job EXCEPT ![a] = j]
  PROVE  /\ job'[a] = j
         /\ \A b \in Actors : b # a => job'[b] = job[b]
         /\ JobsInv /\ stored \subseteq stored' /\ JobInv(j, stored') => JobsInv'
         /\ \A s \in Series : \A b \in Actors : b # a => (b \in MoversOf(s)' <=> b \in MoversOf(s))
         /\ \A s \in Series : a \in MoversOf(s)' <=> j.series = s /\ MovesNextRun(j)
<1>1. /\ job'[a] = j
      /\ \A b \in Actors : b # a => job'[b] = job[b]
  BY DEF TypeOK
<1>2. ASSUME JobsInv, stored \subseteq stored', JobInv(j, stored')  PROVE JobsInv'
  BY <1>1, <1>2 DEF JobsInv, JobInv
<1>3. \A s \in Series : \A b \in Actors : b # a => (b \in MoversOf(s)' <=> b \in MoversOf(s))
  BY <1>1 DEF MoversOf, MovesNextRun
<1>4. \A s \in Series : a \in MoversOf(s)' <=> j.series = s /\ MovesNextRun(j)
  BY <1>1 DEF MoversOf, MovesNextRun
<1>5. QED
  BY <1>1, <1>2, <1>3, <1>4

LEMMA IdleInv == JobInv(Idle, stored') /\ ~MovesNextRun(Idle) /\ Idle.op = "idle"
  BY DEF JobInv, Idle, BlankDoc, NewDoc, MovesNextRun

LEMMA SaveModifiedFields ==
  ASSUME NEW current, NEW loaded, NEW mine
  PROVE  LET saved == SaveModified(current, loaded, mine)
             set(f) == IF mine[f] # loaded[f] THEN mine[f] ELSE current[f]
         IN  /\ saved.nextRunDate = set("nextRunDate")
             /\ saved.lastRunDate = set("lastRunDate")
             /\ saved.runCount = set("runCount")
  BY DEF SaveModified

-----------------------------------------------------------------------------
(* A handler loads its document                                            *)

\* What a handler has in hand when it has loaded its document.
Loaded(j) ==
    /\ j \in Job /\ j.op # "idle" /\ ~j.inserted
    /\ j.series \in stored /\ JobInv(j, stored)
    /\ j.loaded = docs[j.series]
    /\ j.op = "generate" => /\ j.mine = docs[j.series]
                            /\ j.cursor = docs[j.series].nextRunDate

LEMMA StartInv ==
  ASSUME IInv, NEW a \in Actors, NEW j, Loaded(j), Start(a, j),
         UNCHANGED <<stored, docs, posted, reposted, made>>
  PROVE  JobsInv' /\ \A s \in Series : SeriesInv(s)'
<1>1. job' = [job EXCEPT ![a] = j] /\ job[a].op = "idle"
  BY DEF Start
<1>2. JobsInv'
  BY <1>1, OneJob DEF IInv, Loaded, JobInv
<1>3. \A s \in Series : a \notin MoversOf(s)
  BY <1>1 DEF MoversOf, MovesNextRun
<1>4. \A s \in Series : causes[s] \subseteq causes'[s]
  BY DEF Start, IInv, TypeOK
<1>5. ASSUME NEW s \in Series, ~(j.series = s /\ MovesNextRun(j))  PROVE SeriesInv(s)'
  <2>1. a \notin MoversOf(s)'
    BY <1>1, <1>5, OneJob DEF IInv
  <2>2. \A b \in MoversOf(s)' : b \in Actors /\ b # a
    BY <2>1 DEF MoversOf
  <2>3. \A b \in MoversOf(s)' : b \in MoversOf(s) /\ job'[b] = job[b]
    BY <1>1, <2>2, OneJob DEF IInv
  <2>4. \A b \in MoversOf(s) : b \in MoversOf(s)'
    BY <1>1, <1>3, OneJob DEF IInv, MoversOf
  <2>5. Calm(s)
    BY <1>4, <2>3, <2>4 DEF Calm, SameLedger
  <2>6. QED
    BY <2>5, CalmStep DEF IInv
<1>6. ASSUME NEW s \in Series, j.series = s, MovesNextRun(j)  PROVE SeriesInv(s)'
  <2>1. Unstored(s)'
    BY DEF IInv, SeriesInv, Unstored
  <2>2. ASSUME causes'[s] = {}  PROVE Undisturbed(s)'
    <3>1. MoversOf(s) = {} /\ causes[s] = {}
      BY <1>6, <2>2 DEF Start, IInv, TypeOK
    <3>2. Undisturbed(s)
      BY <3>1 DEF IInv, SeriesInv
    <3>3. \A b \in MoversOf(s)' : b = a /\ job'[b] = j
      BY <1>1, <3>1, OneJob DEF IInv, MoversOf
    <3>4. reposted'[s] = {} /\ OneMover(s)'
      BY <3>2, <3>3 DEF OneMover, Undisturbed
    <3>5. FreshMover(s)'
      BY <1>6, <3>3 DEF FreshMover, SameLedger, Loaded
    <3>6. Accounts(s, docs[s].lastRunDate, docs[s].runCount)
            /\ docs[s].lastRunDate < docs[s].nextRunDate
      BY <3>1, <3>2 DEF Undisturbed, LedgerInDocs
    <3>7. LedgerInJob(s)' /\ LedgerInDocs(s)'
      BY <1>6, <3>3, <3>6 DEF LedgerInJob, LedgerInDocs, Accounts, Loaded
    <3>8. QED
      BY <3>4, <3>5, <3>7 DEF Undisturbed
  <2>3. QED
    BY <2>1, <2>2 DEF SeriesInv
<1>7. QED
  BY <1>2, <1>5, <1>6

LEMMA ServeInv ==
  ASSUME IInv, NEW r \in Requests, NEW op \in Ops \ {"idle", "generate"},
         NEW s \in Series, NEW mine \in Doc, Serve(r, op, s, mine),
         mine.lastRunDate = docs[s].lastRunDate, mine.runCount = docs[s].runCount,
         op \in {"endCurrent", "createSuccessor"} => mine.nextRunDate = docs[s].nextRunDate
  PROVE  JobsInv' /\ \A t \in Series : SeriesInv(t)'
<1> DEFINE j == NewJob(op, s, mine)
<1>1. j \in Job
  BY NewJobType DEF IInv, TypeOK
<1>2. /\ j.op = op /\ j.series = s /\ j.loaded = docs[s] /\ j.mine = mine
      /\ j.inserted = FALSE
  BY DEF NewJob, Idle
<1>3. s \in stored
  BY DEF Serve, Visible
<1> HIDE DEF j
<1>4. Loaded(j)
  BY <1>1, <1>2, <1>3 DEF Loaded, JobInv
<1>5. Start(r, j) /\ UNCHANGED <<stored, docs, posted, reposted, made>>
  BY DEF Serve, dbVars, ledgerVars, j
<1>6. QED
  BY <1>4, <1>5, StartInv DEF Actors

LEMMA GenerateJobLoaded ==
  ASSUME IInv, NEW s \in stored, NEW until \in Nat
  PROVE  Loaded(GenerateJob(s, until))
<1>1. s \in Series /\ docs[s] \in Doc
  BY DEF IInv, TypeOK
<1>2. GenerateJob(s, until) \in Job
  BY <1>1, GenerateJobType DEF IInv, TypeOK
<1> DEFINE j == GenerateJob(s, until)
<1>3. /\ j.op = "generate" /\ j.series = s /\ j.loaded = docs[s] /\ j.mine = docs[s]
      /\ j.inserted = FALSE /\ j.cursor = docs[s].nextRunDate
  BY DEF GenerateJob, NewJob, Idle
<1> HIDE DEF j
<1>4. QED
  BY <1>2, <1>3 DEF Loaded, JobInv, j

-----------------------------------------------------------------------------
(* A handler ends                                                          *)

\* An actor whose handler ends, or goes on, and changes nothing in the ledger of s.
LEMMA QuietChange ==
  ASSUME IInv, NEW s \in Series, NEW a \in Actors, NEW j, job' = [job EXCEPT ![a] = j],
         ~MovesNextRun(j) \/ j.series # s,
         causes'[s] = {} => a \notin MoversOf(s) \/ ~job[a].inserted,
         SameLedger(docs'[s], docs[s]), causes[s] \subseteq causes'[s], stored \subseteq stored',
         UNCHANGED <<posted, reposted, made>>
  PROVE  SeriesInv(s)'
<1>1. \A b \in MoversOf(s)' : b \in MoversOf(s) /\ job'[b] = job[b]
  BY OneJob DEF IInv, MoversOf
<1>2. \A b \in MoversOf(s) \ MoversOf(s)' : b = a
  BY OneJob DEF IInv, MoversOf
<1>3. Calm(s)
  BY <1>1, <1>2 DEF Calm
<1>4. QED
  BY <1>3, CalmStep DEF IInv

LEMMA LastMoverEnds ==
  ASSUME TypeOK, NEW s \in Series, NEW a \in Actors, MoversOf(s) \subseteq {a},
         job' = [job EXCEPT ![a] = Idle]
  PROVE  MoversOf(s)' = {}
<1>1. a \notin MoversOf(s)'
  BY OneJob, IdleInv
<1>2. \A b \in Actors : b # a => b \notin MoversOf(s)'
  BY OneJob
<1>3. MoversOf(s)' \subseteq Actors
  BY DEF MoversOf
<1>4. QED
  BY <1>1, <1>2, <1>3

LEMMA OnlyMoverGoesOn ==
  ASSUME TypeOK, NEW s \in Series, NEW a \in Actors, MoversOf(s) = {a},
         NEW k, job' = [job EXCEPT ![a] = k], k.series = s, MovesNextRun(k)
  PROVE  MoversOf(s)' = {a} /\ job'[a] = k
<1>1. a \in MoversOf(s)' /\ job'[a] = k
  BY OneJob
<1>2. \A b \in Actors : b # a => b \notin MoversOf(s)'
  BY OneJob
<1>3. MoversOf(s)' \subseteq Actors
  BY DEF MoversOf
<1>4. QED
  BY <1>1, <1>2, <1>3

LEMMA SameLedgerRefl == \A d : SameLedger(d, d)
  BY DEF SameLedger

LEMMA SaveInv ==
  ASSUME IInv, NEW r \in Requests, Save(r)
  PROVE  JobsInv' /\ \A s \in Series : SeriesInv(s)'
<1> DEFINE j == job[r]
           saved == SaveModified(docs[j.series], j.loaded, j.mine)
<1>1. /\ r \in Actors /\ j \in Job /\ j.series \in Series
      /\ j.mine \in Doc /\ j.loaded \in Doc /\ docs[j.series] \in Doc
      /\ j.op # "generate" /\ j.op # "idle"
  BY JobFields DEF Actors, IInv, TypeOK, Save, SavingOps
<1>2. JobInv(j, stored)
  BY <1>1 DEF IInv, JobsInv
<1>3. job' = [job EXCEPT ![r] = Idle]
  BY DEF Save, Finish
<1>4. JobsInv'
  BY <1>1, <1>3, OneJob, IdleInv DEF IInv, Save
<1>5. \A s \in Series : s # j.series => docs'[s] = docs[s]
  BY <1>1 DEF Save, IInv, TypeOK
<1>6. docs'[j.series] = saved
  BY <1>1 DEF Save, IInv, TypeOK
<1>7. \A s \in Series : causes[s] \subseteq causes'[s]
  BY <1>1 DEF Save, IInv, TypeOK
<1>8. /\ saved.lastRunDate = docs[j.series].lastRunDate
      /\ saved.runCount = docs[j.series].runCount
      /\ saved.nextRunDate = IF j.mine.nextRunDate # j.loaded.nextRunDate
                             THEN j.mine.nextRunDate ELSE docs[j.series].nextRunDate
  BY <1>1, <1>2, SaveModifiedFields DEF JobInv
<1> HIDE DEF saved
<1>9. ASSUME NEW s \in Series, s # j.series \/ ~MovesNextRun(j)  PROVE SeriesInv(s)'
  <2>1. SameLedger(docs'[s], docs[s])
    BY <1>1, <1>5, <1>6, <1>8, <1>9 DEF SameLedger, MovesNextRun
  <2>2. ~MovesNextRun(Idle) /\ ~j.inserted
    BY <1>1, <1>2, IdleInv DEF JobInv
  <2>3. stored \subseteq stored' /\ UNCHANGED <<posted, reposted, made>>
    BY DEF Save, ledgerVars
  <2>4. QED
    BY <1>1, <1>3, <1>7, <2>1, <2>2, <2>3, QuietChange
<1>10. ASSUME NEW s \in Series, s = j.series, MovesNextRun(j)  PROVE SeriesInv(s)'
  <2>1. Unstored(s)'
    BY DEF Save, ledgerVars, IInv, SeriesInv, Unstored
  <2>2. ASSUME causes'[s] = {}  PROVE Undisturbed(s)'
    <3>1. causes[s] = {} /\ ~(j.mine.nextRunDate <= j.loaded.lastRunDate)
      BY <1>1, <1>10, <2>2 DEF Save, IInv, TypeOK
    <3>2. Undisturbed(s)
      BY <3>1 DEF IInv, SeriesInv
    <3>3. r \in MoversOf(s)
      BY <1>1, <1>10 DEF MoversOf
    <3>4. MoversOf(s) = {r} /\ ~j.inserted
      BY <1>1, <1>2, <3>2, <3>3 DEF Undisturbed, OneMover, JobInv
    <3>5. MoversOf(s)' = {}
      BY <1>1, <1>3, <3>4, LastMoverEnds DEF IInv
    <3>6. j.loaded.lastRunDate = docs[s].lastRunDate
      BY <3>2, <3>3 DEF Undisturbed, FreshMover, SameLedger
    <3>7. Accounts(s, docs[s].lastRunDate, docs[s].runCount)
      BY <3>2, <3>4 DEF Undisturbed, LedgerInDocs
    <3>8. docs[s].lastRunDate < saved.nextRunDate
      <4>1. saved.nextRunDate = j.mine.nextRunDate
        BY <1>1, <1>8, <1>10 DEF MovesNextRun
      <4>2. j.mine.nextRunDate \in Int /\ j.loaded.lastRunDate \in Int
        BY <1>1 DEF Doc, Never
      <4>3. QED
        BY <3>1, <3>6, <4>1, <4>2
    <3>9. reposted'[s] = {} /\ OneMover(s)' /\ FreshMover(s)' /\ LedgerInJob(s)'
      BY <3>2, <3>5 DEF Undisturbed, OneMover, FreshMover, LedgerInJob, Save, ledgerVars
    <3>10. LedgerInDocs(s)'
      BY <1>6, <1>8, <1>10, <3>7, <3>8 DEF LedgerInDocs, Accounts, Save, ledgerVars
    <3>11. QED
      BY <3>9, <3>10 DEF Undisturbed
  <2>3. QED
    BY <2>1, <2>2 DEF SeriesInv
<1>11. QED
  BY <1>4, <1>9, <1>10

LEMMA EndCurrentInv ==
  ASSUME IInv, NEW r \in Requests, EndCurrent(r)
  PROVE  JobsInv' /\ \A s \in Series : SeriesInv(s)'
<1> DEFINE j == job[r]
           saved == SaveModified(docs[j.series], j.loaded, j.mine)
           k == [j EXCEPT !.op = "createSuccessor"]
<1>1. /\ r \in Actors /\ j \in Job /\ j.series \in Series /\ j.op = "endCurrent"
  BY JobFields DEF Actors, IInv, EndCurrent
<1>2. JobInv(j, stored)
  BY <1>1 DEF IInv, JobsInv
<1>3. job' = [job EXCEPT ![r] = k]
  BY DEF EndCurrent
<1>4. /\ k.op = "createSuccessor" /\ k.series = j.series /\ k.loaded = j.loaded
      /\ k.mine = j.mine /\ k.inserted = j.inserted
  BY <1>1 DEF Job
<1> HIDE DEF k
<1>5. JobsInv'
  <2>1. stored' = stored
    BY DEF EndCurrent
  <2>2. JobInv(k, stored')
    BY <1>1, <1>2, <1>4, <2>1 DEF JobInv
  <2>3. TypeOK /\ JobsInv
    BY DEF IInv
  <2> QED
    BY <1>1, <1>3, <2>1, <2>2, <2>3, OneJob
<1>6. \A s \in Series : SameLedger(docs'[s], docs[s])
  <2>1. SameLedger(saved, docs[j.series])
    BY <1>1, <1>2, SaveModifiedFields DEF JobInv, SameLedger
  <2>2. docs' = [docs EXCEPT ![j.series] = saved]
    BY DEF EndCurrent
  <2> HIDE DEF saved
  <2>3. QED
    BY <1>1, <2>1, <2>2, SameLedgerRefl DEF IInv, TypeOK
<1>7. ~MovesNextRun(k) /\ ~j.inserted
  BY <1>1, <1>2, <1>4 DEF MovesNextRun, JobInv
<1>8. UNCHANGED <<stored, posted, reposted, made, causes>>
  BY DEF EndCurrent, ledgerVars
<1>9. \A s \in Series : SeriesInv(s)'
  BY <1>1, <1>3, <1>6, <1>7, <1>8, QuietChange
<1>10. QED
  BY <1>5, <1>9

\* A new document, on which no handler can be at work.
LEMMA NewSeriesInv ==
  ASSUME IInv, NEW s \in Series \ stored,
         \A a \in Actors : job[a].op = "idle" \/ job[a].series # s,
         \A a \in Actors : job'[a] = job[a] \/ job'[a] = Idle,
         docs'[s].lastRunDate < docs'[s].nextRunDate, docs'[s].runCount = 0,
         UNCHANGED <<posted, reposted, made, causes>>
  PROVE  SeriesInv(s)'
<1>1. posted[s] = {} /\ made[s] = 0
  BY DEF IInv, SeriesInv, Unstored
<1>2. MoversOf(s) = {} /\ MoversOf(s)' = {}
  BY IdleInv DEF MoversOf, MovesNextRun
<1>3. Unstored(s)'
  BY <1>1 DEF Unstored
<1>4. ASSUME causes[s] = {}  PROVE Undisturbed(s)'
  <2>1. reposted[s] = {}
    BY <1>4 DEF IInv, SeriesInv, Undisturbed
  <2>2. QED
    BY <1>1, <1>2, <2>1
      DEF Undisturbed, OneMover, FreshMover, LedgerInJob, LedgerInDocs, Accounts
<1>5. QED
  BY <1>3, <1>4 DEF SeriesInv

LEMMA CreateSuccessorInv ==
  ASSUME IInv, NEW r \in Requests, CreateSuccessor(r)
  PROVE  JobsInv' /\ \A s \in Series : SeriesInv(s)'
<1> DEFINE d == job[r].mine
<1>1. /\ r \in Actors /\ d \in Doc /\ job[r].op = "createSuccessor"
      /\ d.frequency \in Frequencies /\ d.interval \in Nat \ {0} /\ d.nextRunDate \in Nat
  BY JobFields DEF Actors, IInv, CreateSuccessor, Doc
<1>2. PICK new \in Series \ stored,
           f \in UserFrequencies \cup {d.frequency}, i \in UserIntervals \cup {d.interval},
           end \in UserDates \cup {Never}, active \in BOOLEAN :
              /\ stored' = stored \cup {new}
              /\ docs' = [docs EXCEPT ![new] = Successor(d, f, i, end, active)]
  BY DEF CreateSuccessor
<1>3. job' = [job EXCEPT ![r] = Idle] /\ UNCHANGED <<posted, reposted, made, causes>>
  BY DEF CreateSuccessor, Finish, ledgerVars
<1>4. JobInv(job[r], stored)
  BY <1>1 DEF IInv, JobsInv
<1>5. ~MovesNextRun(job[r]) /\ ~job[r].inserted
  BY <1>1, <1>4 DEF JobInv, MovesNextRun
<1>6. JobsInv'
  BY <1>1, <1>2, <1>3, IdleInv, OneJob DEF IInv
<1>7. ASSUME NEW s \in Series, s # new  PROVE SeriesInv(s)'
  <2>1. SameLedger(docs'[s], docs[s])
    BY <1>2, <1>7, SameLedgerRefl DEF IInv, TypeOK
  <2>2. QED
    BY <1>1, <1>2, <1>3, <1>5, <2>1, IdleInv, QuietChange
<1>8. SeriesInv(new)'
  <2>1. f \in Frequencies /\ i \in Nat \ {0}
    BY <1>1, <1>2, ScheduleAssumption
  <2>2. CalculateNextRunDate(f, i, d.nextRunDate) \in Nat
    BY <1>1, <2>1, NextRunDateLater
  <2>3. docs'[new] = Successor(d, f, i, end, active)
    BY <1>2 DEF IInv, TypeOK
  <2>4. /\ docs'[new].lastRunDate = -1 /\ docs'[new].runCount = 0
        /\ docs'[new].nextRunDate = CalculateNextRunDate(f, i, d.nextRunDate)
    BY <2>3 DEF Successor, NewDoc, Never
  <2>5. \A a \in Actors : job[a].op = "idle" \/ job[a].series # new
    BY <1>2 DEF IInv, JobsInv, JobInv
  <2>6. \A a \in Actors : job'[a] = job[a] \/ job'[a] = Idle
    BY <1>1, <1>3 DEF IInv, TypeOK
  <2>7. QED
    BY <1>2, <1>3, <2>2, <2>4, <2>5, <2>6, NewSeriesInv
<1>9. QED
  BY <1>6, <1>7, <1>8

LEMMA CreateInv ==
  ASSUME IInv, NEW new \in Series, Create(new)
  PROVE  JobsInv' /\ \A s \in Series : SeriesInv(s)'
<1>1. PICK f \in UserFrequencies, i \in UserIntervals, active \in BOOLEAN,
           start \in UserDates, end \in UserDates \cup {Never} :
              docs' = [docs EXCEPT ![new] = NewDoc(f, i, start, end, start, active)]
  BY DEF Create
<1>2. /\ new \notin stored /\ stored' = stored \cup {new}
      /\ UNCHANGED <<job, posted, reposted, made, causes>>
  BY DEF Create, ledgerVars
<1>3. JobsInv'
  BY <1>2 DEF IInv, JobsInv, JobInv
<1>4. ASSUME NEW s \in Series, s # new  PROVE SeriesInv(s)'
  <2>1. SameLedger(docs'[s], docs[s])
    BY <1>1, <1>4, SameLedgerRefl DEF IInv, TypeOK
  <2>2. MoversOf(s)' = MoversOf(s)
    BY <1>2 DEF MoversOf, MovesNextRun
  <2>3. Calm(s)
    BY <1>2, <2>1, <2>2 DEF Calm
  <2>4. QED
    BY <2>3, CalmStep DEF IInv
<1>5. SeriesInv(new)'
  <2>1. docs'[new] = NewDoc(f, i, start, end, start, active)
    BY <1>1 DEF IInv, TypeOK
  <2>2. /\ docs'[new].lastRunDate = -1 /\ docs'[new].runCount = 0
        /\ docs'[new].nextRunDate = start /\ start \in Nat
    BY <2>1, ScheduleAssumption DEF NewDoc, Never
  <2>3. \A a \in Actors : job[a].op = "idle" \/ job[a].series # new
    BY <1>2 DEF IInv, JobsInv, JobInv
  <2>4. QED
    BY <1>2, <2>2, <2>3, NewSeriesInv
<1>6. QED
  BY <1>3, <1>4, <1>5

\* Steps that leave the jobs and the ledgers alone.
LEMMA StillInv ==
  ASSUME IInv, UNCHANGED <<stored, job, posted, reposted, made, causes>>,
         \A s \in Series : SameLedger(docs'[s], docs[s])
  PROVE  JobsInv' /\ \A s \in Series : SeriesInv(s)'
<1>1. JobsInv'
  BY DEF IInv, JobsInv, JobInv
<1>2. ASSUME NEW s \in Series  PROVE SeriesInv(s)'
  <2>1. MoversOf(s)' = MoversOf(s)
    BY DEF MoversOf, MovesNextRun
  <2>2. Calm(s)
    BY <2>1 DEF Calm
  <2>3. QED
    BY <2>2, CalmStep DEF IInv
<1>3. QED
  BY <1>1, <1>2

LEMMA UserStepInv ==
  ASSUME IInv, UserStep
  PROVE  JobsInv' /\ \A s \in Series : SeriesInv(s)'
<1>1. CASE BulkDelete
  <2>1. PICK ids \in SUBSET Series :
          docs' = [s \in Series |-> IF s \in ids /\ Visible(s)
                                    THEN [docs[s] EXCEPT !.deletedAt = TRUE] ELSE docs[s]]
    BY <1>1 DEF BulkDelete
  <2>2. \A d \in Doc : SameLedger([d EXCEPT !.deletedAt = TRUE], d)
    BY DEF SameLedger, Doc
  <2>3. \A s \in Series : SameLedger(docs'[s], docs[s])
    BY <2>1, <2>2, SameLedgerRefl DEF IInv, TypeOK
  <2>4. QED
    BY <1>1, <2>3, StillInv DEF BulkDelete, ledgerVars
<1>2. ASSUME NEW r \in Requests, NEW s \in Series, ManualGenerate(r, s)
      PROVE  JobsInv' /\ \A t \in Series : SeriesInv(t)'
  <2>1. PICK until \in {now} \cup UserDates : Start(r, GenerateJob(s, until))
    BY <1>2 DEF ManualGenerate
  <2>2. until \in Nat /\ s \in stored
    BY <1>2, ScheduleAssumption DEF ManualGenerate, Visible, IInv, TypeOK
  <2>3. QED
    BY <1>2, <2>1, <2>2, GenerateJobLoaded, StartInv
      DEF ManualGenerate, Actors, dbVars, ledgerVars
<1>3. ASSUME NEW r \in Requests, NEW s \in Series,
             Pause(r, s) \/ Resume(r, s) \/ SkipNext(r, s) \/ Remove(r, s) \/ Update(r, s)
               \/ EditFuture(r, s)
      PROVE  JobsInv' /\ \A t \in Series : SeriesInv(t)'
  <2> DEFINE d == docs[s]
             Same(m) == m \in Doc /\ m.lastRunDate = d.lastRunDate /\ m.runCount = d.runCount
  <2>1. d \in Doc
    BY DEF IInv, TypeOK
  <2>2. ASSUME NEW op \in SavingOps, NEW mine, Same(mine), Serve(r, op, s, mine)
        PROVE  JobsInv' /\ \A t \in Series : SeriesInv(t)'
    BY <2>2, ServeInv DEF Ops, SavingOps
  <2>3. ASSUME NEW op \in {"endCurrent", "createSuccessor"}, NEW mine, Same(mine),
               mine.nextRunDate = d.nextRunDate, Serve(r, op, s, mine)
        PROVE  JobsInv' /\ \A t \in Series : SeriesInv(t)'
    BY <2>3, ServeInv DEF Ops
  <2> HIDE DEF d
  <2>4. \A active \in BOOLEAN : Same([d EXCEPT !.isActive = active])
    BY <2>1 DEF Doc
  <2>5. Same([d EXCEPT !.deletedAt = TRUE])
    BY <2>1 DEF Doc
  <2>6. \A next \in Nat : Same([d EXCEPT !.nextRunDate = next])
    BY <2>1 DEF Doc
  <2>7. Advance(d, d.nextRunDate) \in Nat
    BY <2>1, AdvanceLater DEF Doc
  <2>8. LET ended == [d EXCEPT !.endDate = d.nextRunDate, !.isActive = FALSE]
        IN  Same(ended) /\ ended.nextRunDate = d.nextRunDate
    BY <2>1 DEF Doc
  <2>9. Same(d)
    BY <2>1
  <2>10. CASE Update(r, s)
    <3>1. PICK f \in UserFrequencies \cup {d.frequency}, i \in UserIntervals \cup {d.interval},
               start \in UserDates \cup {d.startDate},
               end \in UserDates \cup {Never, d.endDate},
               active \in BOOLEAN, reschedule \in BOOLEAN :
            Serve(r, "update", s,
               [d EXCEPT !.frequency = f, !.interval = i, !.startDate = start,
                         !.endDate = end, !.isActive = active,
                         !.nextRunDate = IF reschedule THEN CalculateNextRunDate(f, i, start)
                                         ELSE d.nextRunDate])
      BY <2>10 DEF Update, d
    <3>2. /\ f \in Frequencies /\ i \in Nat \ {0} /\ start \in Nat
          /\ end \in Nat \cup {Never} /\ d.nextRunDate \in Nat
      BY <2>1, ScheduleAssumption DEF Doc
    <3>3. CalculateNextRunDate(f, i, start) \in Nat
      BY <3>2, NextRunDateLater
    <3>4. \A next \in Nat : Same([d EXCEPT !.frequency = f, !.interval = i,
                                           !.startDate = start, !.endDate = end,
                                           !.isActive = active, !.nextRunDate = next])
      BY <2>1, <3>2 DEF Doc
    <3>5. QED
      BY <2>2, <3>1, <3>2, <3>3, <3>4 DEF SavingOps
  <2>11. CASE Pause(r, s) \/ Resume(r, s) \/ Remove(r, s)
    BY <2>2, <2>4, <2>5, <2>11 DEF Pause, Resume, Remove, SavingOps, d
  <2>12. CASE SkipNext(r, s)
    BY <2>2, <2>6, <2>7, <2>12 DEF SkipNext, SavingOps, d
  <2>13. CASE EditFuture(r, s)
    BY <2>3, <2>8, <2>9, <2>13 DEF EditFuture, d
  <2>14. QED
    BY <1>3, <2>10, <2>11, <2>12, <2>13
<1>4. QED
  BY <1>1, <1>2, <1>3, CreateInv DEF UserStep

-----------------------------------------------------------------------------
(* The loop of generateTransactions                                        *)

LEMMA GenerateInv ==
  ASSUME IInv, NEW a \in Actors, Generate(a)
  PROVE  JobsInv' /\ \A s \in Series : SeriesInv(s)'
<1> DEFINE j == job[a]
           next == Advance(j.mine, j.cursor)
<1>0. PICK t \in Series : j.series = t
  BY JobFields DEF IInv
<1>1. /\ j \in Job /\ j.mine \in Doc /\ j.loaded \in Doc /\ j.cursor \in Nat
      /\ j.series = t /\ j.op = "generate"
  BY <1>0, JobFields DEF IInv, Generate, SkipBeforeStart, InsertTransaction, SaveGenerated
<1>2. next \in Nat /\ next > j.cursor
  BY <1>1, AdvanceLater
<1>3. JobInv(j, stored) /\ a \in MoversOf(t)
  BY <1>1 DEF IInv, JobsInv, MoversOf, MovesNextRun
<1>4. /\ t \in stored /\ Unstored(t)
      /\ causes[t] = {} => /\ Undisturbed(t) /\ MoversOf(t) = {a}
                           /\ j.mine.lastRunDate < j.cursor
                           /\ Accounts(t, j.mine.lastRunDate, j.mine.runCount)
                           /\ SameLedger(j.loaded, docs[t])
  BY <1>1, <1>3 DEF JobInv, IInv, SeriesInv, Undisturbed, OneMover, LedgerInJob, FreshMover
<1>5. j.mine.lastRunDate \in Int /\ j.mine.runCount \in Nat
  BY <1>1 DEF Doc, Never
<1> HIDE DEF next
<1>6. ASSUME SkipBeforeStart(a)  PROVE JobsInv' /\ \A s \in Series : SeriesInv(s)'
  <2> DEFINE k == [j EXCEPT !.cursor = next]
  <2>1. job' = [job EXCEPT ![a] = k]
    BY <1>6 DEF SkipBeforeStart, next
  <2>2. /\ k.op = "generate" /\ k.series = t /\ k.mine = j.mine /\ k.loaded = j.loaded
        /\ k.cursor = next /\ k.inserted = j.inserted
    BY <1>1 DEF Job
  <2> HIDE DEF k
  <2>3. UNCHANGED <<stored, docs, posted, reposted, made, causes>>
    BY <1>6 DEF SkipBeforeStart, dbVars, ledgerVars
  <2>4. JobsInv'
    BY <1>4, <2>1, <2>2, <2>3, OneJob DEF IInv, JobInv
  <2>5. ASSUME NEW s \in Series, s # t  PROVE SeriesInv(s)'
    <3>1. a \notin MoversOf(s)
      BY <1>1, <2>5 DEF MoversOf
    <3>2. QED
      BY <1>1, <2>1, <2>2, <2>3, <2>5, <3>1, SameLedgerRefl, QuietChange
  <2>6. SeriesInv(t)'
    <3>1. ASSUME causes[t] = {}  PROVE Undisturbed(t)'
      <4>1. MoversOf(t)' = {a} /\ job'[a] = k
        BY <1>1, <1>4, <2>1, <2>2, <3>1, OnlyMoverGoesOn DEF IInv, MovesNextRun
      <4>2. k.mine.lastRunDate < k.cursor
        BY <1>1, <1>2, <1>4, <1>5, <2>2, <3>1
      <4>3. LedgerInJob(t)'
        BY <1>4, <2>2, <2>3, <3>1, <4>1, <4>2 DEF LedgerInJob, Accounts
      <4>4. LedgerInDocs(t)'
        BY <1>4, <2>2, <2>3, <3>1, <4>1 DEF LedgerInDocs, Accounts, Undisturbed
      <4>5. QED
        BY <1>4, <2>2, <2>3, <3>1, <4>1, <4>3, <4>4
          DEF Undisturbed, OneMover, FreshMover, SameLedger
    <3>2. QED
      BY <1>4, <2>3, <3>1 DEF SeriesInv, Unstored
  <2>7. QED
    BY <2>4, <2>5, <2>6
<1>7. ASSUME InsertTransaction(a)  PROVE JobsInv' /\ \A s \in Series : SeriesInv(s)'
  <2> DEFINE m == Generated(j.mine, j.cursor, next)
             k == [j EXCEPT !.inserted = TRUE, !.cursor = next, !.mine = m]
  <2>1. job' = [job EXCEPT ![a] = k]
    BY <1>7 DEF InsertTransaction, next
  <2>2. /\ k.op = "generate" /\ k.series = t /\ k.mine = m /\ k.loaded = j.loaded
        /\ k.cursor = next /\ k.inserted = TRUE
    BY <1>1 DEF Job
  <2>3. m.lastRunDate = j.cursor /\ m.runCount = j.mine.runCount + 1
    BY <1>1 DEF Generated, Doc
  <2> HIDE DEF k, m
  <2>4. /\ UNCHANGED <<stored, docs, causes>>
        /\ posted' = [posted EXCEPT ![t] = posted[t] \cup {j.cursor}]
        /\ reposted' = [reposted EXCEPT ![t] = reposted[t] \cup ({j.cursor} \cap posted[t])]
        /\ made' = [made EXCEPT ![t] = made[t] + 1]
    BY <1>1, <1>7 DEF InsertTransaction, dbVars
  <2>5. /\ posted'[t] = posted[t] \cup {j.cursor}
        /\ reposted'[t] = reposted[t] \cup ({j.cursor} \cap posted[t])
        /\ made'[t] = made[t] + 1
        /\ \A s \in Series : s # t => /\ posted'[s] = posted[s] /\ reposted'[s] = reposted[s]
                                      /\ made'[s] = made[s]
    BY <1>1, <2>4 DEF IInv, TypeOK
  <2>6. JobsInv'
    BY <1>4, <2>1, <2>2, <2>4, OneJob DEF IInv, JobInv
  <2>7. ASSUME NEW s \in Series, s # t  PROVE SeriesInv(s)'
    <3>1. a \notin MoversOf(s) /\ a \notin MoversOf(s)'
      BY <1>1, <2>1, <2>2, <2>7, OneJob DEF IInv, MoversOf
    <3>2. MoversOf(s)' = MoversOf(s) /\ \A b \in MoversOf(s) : job'[b] = job[b]
      BY <2>1, <3>1, OneJob DEF IInv, MoversOf
    <3>3. Calm(s)
      BY <2>4, <2>5, <2>7, <3>2, SameLedgerRefl DEF Calm
    <3>4. QED
      BY <3>3, CalmStep DEF IInv
  <2>8. SeriesInv(t)'
    <3>1. ASSUME causes[t] = {}  PROVE Undisturbed(t)'
      <4>1. MoversOf(t)' = {a} /\ job'[a] = k
        BY <1>1, <1>4, <2>1, <2>2, <3>1, OnlyMoverGoesOn DEF IInv, MovesNextRun
      <4>2. \A d \in posted[t] : d \in Nat /\ d < j.cursor
        BY <1>1, <1>4, <1>5, <3>1 DEF Accounts, IInv, TypeOK
      <4>3. reposted'[t] = {}
        BY <1>1, <1>4, <2>5, <3>1, <4>2 DEF Undisturbed
      <4>4. /\ \A d \in posted'[t] : d <= j.cursor
            /\ made'[t] = j.mine.runCount + 1
        BY <1>1, <1>4, <2>5, <3>1, <4>2 DEF Accounts
      <4>5. LedgerInJob(t)'
        BY <1>2, <2>2, <2>3, <4>1, <4>4 DEF LedgerInJob, Accounts
      <4>6. LedgerInDocs(t)'
        BY <1>4, <2>2, <2>4, <3>1, <4>1 DEF LedgerInDocs, Undisturbed
      <4>7. QED
        BY <1>4, <2>2, <2>4, <3>1, <4>1, <4>3, <4>5, <4>6
          DEF Undisturbed, OneMover, FreshMover, SameLedger
    <3>2. QED
      BY <1>4, <2>4, <3>1 DEF SeriesInv, Unstored
  <2>9. QED
    BY <2>6, <2>7, <2>8
<1>8. ASSUME SaveGenerated(a)  PROVE JobsInv' /\ \A s \in Series : SeriesInv(s)'
  <2> DEFINE m == [j.mine EXCEPT !.nextRunDate = j.cursor]
             saved == SaveModified(docs[t], j.loaded, m)
  <2>1. job' = [job EXCEPT ![a] = Idle]
    BY <1>8 DEF SaveGenerated, Finish
  <2>2. docs' = [docs EXCEPT ![t] = saved] /\ UNCHANGED <<stored, posted, reposted, made, causes>>
    BY <1>1, <1>8 DEF SaveGenerated, ledgerVars
  <2>3. /\ m.nextRunDate = j.cursor /\ m.lastRunDate = j.mine.lastRunDate
        /\ m.runCount = j.mine.runCount
    BY <1>1 DEF Doc
  <2>4. causes[t] = {} => /\ saved.nextRunDate = j.cursor
                          /\ saved.lastRunDate = j.mine.lastRunDate
                          /\ saved.runCount = j.mine.runCount
    <3> HIDE DEF m
    <3>1. /\ saved.nextRunDate = IF m.nextRunDate # j.loaded.nextRunDate
                                 THEN m.nextRunDate ELSE docs[t].nextRunDate
          /\ saved.lastRunDate = IF m.lastRunDate # j.loaded.lastRunDate
                                 THEN m.lastRunDate ELSE docs[t].lastRunDate
          /\ saved.runCount = IF m.runCount # j.loaded.runCount
                              THEN m.runCount ELSE docs[t].runCount
      BY SaveModifiedFields
    <3> HIDE DEF saved
    <3>2. QED
      BY <1>4, <2>3, <3>1 DEF SameLedger
  <2> HIDE DEF m, saved
  <2>5. JobsInv'
    BY <2>1, <2>2, IdleInv, OneJob DEF IInv
  <2>6. ASSUME NEW s \in Series, s # t  PROVE SeriesInv(s)'
    <3>1. a \notin MoversOf(s) /\ SameLedger(docs'[s], docs[s])
      BY <1>1, <2>2, <2>6, SameLedgerRefl DEF MoversOf, IInv, TypeOK
    <3>2. QED
      BY <2>1, <2>2, <3>1, IdleInv, QuietChange
  <2>7. SeriesInv(t)'
    <3>1. ASSUME causes[t] = {}  PROVE Undisturbed(t)'
      <4>1. MoversOf(t)' = {}
        BY <1>1, <1>4, <2>1, <3>1, LastMoverEnds DEF IInv
      <4>2. docs'[t] = saved
        BY <1>1, <2>2 DEF IInv, TypeOK
      <4>3. LedgerInDocs(t)'
        BY <1>4, <2>2, <2>4, <3>1, <4>2 DEF LedgerInDocs, Accounts
      <4>4. QED
        BY <1>4, <2>2, <3>1, <4>1, <4>3
          DEF Undisturbed, OneMover, FreshMover, LedgerInJob
    <3>2. QED
      BY <1>4, <2>2, <3>1 DEF SeriesInv, Unstored
  <2>8. QED
    BY <2>5, <2>6, <2>7
<1>9. QED
  BY <1>6, <1>7, <1>8 DEF Generate

-----------------------------------------------------------------------------
(* Cron, failures, time                                                    *)

LEMMA CronInv ==
  ASSUME IInv, NEW c \in Crons, CronFires(c) \/ CronTakes(c)
  PROVE  JobsInv' /\ \A s \in Series : SeriesInv(s)'
<1>1. CASE CronFires(c)
  BY <1>1, StillInv, SameLedgerRefl DEF CronFires, dbVars, ledgerVars
<1>2. CASE CronTakes(c)
  <2>1. PICK s \in due[c] :
          IF Visible(s) /\ docs[s].isActive
          THEN Start(c, GenerateJob(s, Midnight(now)))
          ELSE UNCHANGED <<job, causes>>
    BY <1>2 DEF CronTakes
  <2>2. UNCHANGED <<stored, docs, posted, reposted, made>>
    BY <1>2 DEF CronTakes, dbVars, ledgerVars
  <2>3. CASE UNCHANGED <<job, causes>>
    BY <2>2, <2>3, StillInv, SameLedgerRefl
  <2>4. CASE Visible(s) /\ docs[s].isActive
    <3>1. s \in stored /\ Midnight(now) \in Nat
      BY <2>4, MidnightType DEF Visible, IInv, TypeOK
    <3>2. QED
      BY <2>1, <2>2, <2>4, <3>1, GenerateJobLoaded, StartInv DEF Actors
  <2>5. QED
    BY <2>1, <2>3, <2>4
<1>3. QED
  BY <1>1, <1>2

LEMMA AbandonInv ==
  ASSUME IInv, NEW a \in Actors, Finish(a), Abandon(a),
         UNCHANGED <<stored, docs, posted, reposted, made>>
  PROVE  JobsInv' /\ \A s \in Series : SeriesInv(s)'
<1>1. job' = [job EXCEPT ![a] = Idle]
  BY DEF Finish
<1>2. JobsInv'
  BY <1>1, IdleInv, OneJob DEF IInv
<1>3. ASSUME NEW s \in Series  PROVE SeriesInv(s)'
  <2>1. job[a].series \in Series
    BY JobFields DEF IInv
  <2>2. causes[s] \subseteq causes'[s]
    BY <2>1 DEF Abandon, IInv, TypeOK
  <2>3. causes'[s] = {} => a \notin MoversOf(s) \/ ~job[a].inserted
    BY <2>1 DEF Abandon, IInv, TypeOK, MoversOf
  <2>4. QED
    BY <1>1, <2>2, <2>3, IdleInv, SameLedgerRefl, QuietChange
<1>4. QED
  BY <1>2, <1>3

LEMMA InvInit == Init => IInv
<1>1. SUFFICES ASSUME Init  PROVE IInv
  OBVIOUS
<1>2. JobsInv /\ \A s \in Series : MoversOf(s) = {}
  BY <1>1 DEF Init, JobsInv, JobInv, Idle, BlankDoc, NewDoc, MoversOf, MovesNextRun
<1>3. BlankDoc.lastRunDate = -1 /\ BlankDoc.nextRunDate = 0 /\ BlankDoc.runCount = 0
  BY DEF BlankDoc, NewDoc, Never
<1>4. ASSUME NEW s \in Series  PROVE SeriesInv(s)
  <2>1. docs[s] = BlankDoc /\ posted[s] = {} /\ made[s] = 0 /\ reposted[s] = {}
    BY <1>1 DEF Init
  <2>2. QED
    BY <1>2, <1>3, <2>1 DEF SeriesInv, Unstored, Undisturbed, OneMover, FreshMover,
                            LedgerInJob, LedgerInDocs, Accounts
<1>5. QED
  BY <1>1, <1>2, <1>4, TypeInit DEF IInv

LEMMA InvNext == IInv /\ [Next]_vars => IInv'
<1> SUFFICES ASSUME IInv, [Next]_vars  PROVE IInv'
  OBVIOUS
<1>1. TypeOK'
  BY TypeNext DEF IInv
<1>2. JobsInv' /\ \A s \in Series : SeriesInv(s)'
  <2>1. CASE UNCHANGED vars
    BY <2>1, StillInv, SameLedgerRefl DEF vars
  <2>2. CASE Tick
    BY <2>2, StillInv, SameLedgerRefl DEF Tick, dbVars, ledgerVars
  <2>3. ASSUME NEW r \in Requests, Answer(r)
        PROVE  JobsInv' /\ \A s \in Series : SeriesInv(s)'
    BY <2>3, SaveInv, EndCurrentInv, CreateSuccessorInv DEF Answer
  <2>4. ASSUME NEW a \in Actors, Fail(a)
        PROVE  JobsInv' /\ \A s \in Series : SeriesInv(s)'
    BY <2>4, AbandonInv DEF Fail, dbVars, ledgerVars
  <2>5. ASSUME NEW c \in Crons, Crash(c)
        PROVE  JobsInv' /\ \A s \in Series : SeriesInv(s)'
    BY <2>5, AbandonInv DEF Crash, dbVars, ledgerVars, Actors
  <2>6. QED
    BY <2>1, <2>2, <2>3, <2>4, <2>5, UserStepInv, GenerateInv, CronInv DEF Next
<1>3. QED
  BY <1>1, <1>2 DEF IInv

\* No date gets two transactions unless handlers overlapped, a run died between its
\* transactions and its save, or an update put the next run date back.
THEOREM NoDateTwice == Spec => []AtMostOnce
<1>1. IInv => AtMostOnce
  BY DEF IInv, SeriesInv, Undisturbed, AtMostOnce
<1>2. QED
  BY <1>1, InvInit, InvNext, PTL DEF Spec

\* Barring the same three causes, lastRunDate, nextRunDate and runCount of a document that
\* no generation is working on agree with the transactions made from it.
THEOREM LedgerAgrees == Spec => []LedgerMatches
<1>1. IInv => LedgerMatches
  BY DEF IInv, SeriesInv, Undisturbed, LedgerInDocs, Accounts, LedgerMatches
<1>2. QED
  BY <1>1, InvInit, InvNext, PTL DEF Spec

-----------------------------------------------------------------------------
(* A stop is final                                                         *)

\* A handler has read a document that was not deleted, and only resume and update hold
\* one that is more active than what they read.
Restrained(j) ==
    /\ ~j.loaded.deletedAt
    /\ j.mine.isActive => j.loaded.isActive \/ j.op \in {"resume", "update"}

RestrainedJobs == \A a \in Actors : Restrained(job[a])

\* What StoppedStaysStopped says of one step.
NoneRevived ==
    \A s \in stored :
        /\ ~docs[s].isActive /\ docs'[s].isActive =>
               \E r \in Requests : /\ job[r].op \in {"resume", "update"}
                                   /\ job[r].series = s
                                   /\ ~job[r].loaded.isActive
        /\ docs[s].deletedAt => docs'[s].deletedAt

LEMMA IdleRestrained == Restrained(Idle)
  BY DEF Restrained, Idle, BlankDoc, NewDoc

LEMMA DocFields == \A d \in Doc : d.isActive \in BOOLEAN /\ d.deletedAt \in BOOLEAN
  BY DEF Doc

\* One actor's job is replaced by a restrained one.
LEMMA OneRestrained ==
  ASSUME TypeOK, RestrainedJobs, NEW a \in Actors, NEW j, Restrained(j),
         job' = [job EXCEPT ![a] = j]
  PROVE  RestrainedJobs'
  BY DEF RestrainedJobs, TypeOK

\* A save by a restrained handler: only resume and update activate, nothing undeletes.
LEMMA SaveRevivesNone ==
  ASSUME TypeOK, NEW a \in Actors, NEW mine \in Doc, ~job[a].loaded.deletedAt,
         mine.isActive => \/ job[a].loaded.isActive
                          \/ a \in Requests /\ job[a].op \in {"resume", "update"},
         docs' = [docs EXCEPT ![job[a].series] =
                     SaveModified(docs[job[a].series], job[a].loaded, mine)]
  PROVE  NoneRevived
<1> DEFINE t == job[a].series
           saved == SaveModified(docs[t], job[a].loaded, mine)
<1>1. t \in Series /\ docs[t] \in Doc /\ job[a].loaded \in Doc
  BY JobFields DEF TypeOK
<1>2. /\ docs[t].deletedAt => saved.deletedAt
      /\ ~docs[t].isActive /\ saved.isActive =>
             ~job[a].loaded.isActive /\ mine.isActive
  BY <1>1, DocFields DEF SaveModified
<1>3. \A s \in stored : docs'[s] = IF s = t THEN saved ELSE docs[s]
  BY <1>1 DEF TypeOK
<1> HIDE DEF saved
<1>4. QED
  BY <1>2, <1>3 DEF NoneRevived

\* A request that starts is restrained, and writes nothing yet.
LEMMA ServeRestrained ==
  ASSUME TypeOK, RestrainedJobs, NEW r \in Requests, NEW op, NEW s \in Series, NEW mine,
         Serve(r, op, s, mine),
         mine.isActive => docs[s].isActive \/ op \in {"resume", "update"}
  PROVE  RestrainedJobs' /\ NoneRevived
<1> DEFINE j == NewJob(op, s, mine)
<1>1. j.op = op /\ j.loaded = docs[s] /\ j.mine = mine
  BY DEF NewJob, Idle
<1>2. job' = [job EXCEPT ![r] = j] /\ ~docs[s].deletedAt /\ UNCHANGED docs
  BY DEF Serve, Start, Visible, dbVars
<1> HIDE DEF j
<1>3. Restrained(j)
  BY <1>1, <1>2 DEF Restrained
<1>4. RestrainedJobs'
  BY <1>2, <1>3, OneRestrained DEF Actors
<1>5. QED
  BY <1>2, <1>4 DEF NoneRevived

LEMMA GenerateRestrained ==
  ASSUME NEW s, NEW until, ~docs[s].deletedAt
  PROVE  Restrained(GenerateJob(s, until))
  BY DEF Restrained, GenerateJob, NewJob, Idle

LEMMA UserStepRestrained ==
  ASSUME TypeOK, RestrainedJobs, UserStep  PROVE RestrainedJobs' /\ NoneRevived
<1>1. ASSUME NEW s \in Series, Create(s)  PROVE RestrainedJobs' /\ NoneRevived
  <2>1. \A t \in stored : docs'[t] = docs[t]
    BY <1>1 DEF Create, TypeOK
  <2>2. QED
    BY <1>1, <2>1 DEF Create, RestrainedJobs, NoneRevived
<1>2. ASSUME BulkDelete  PROVE RestrainedJobs' /\ NoneRevived
  <2>1. \A t \in stored : /\ docs'[t].isActive => docs[t].isActive
                          /\ docs[t].deletedAt => docs'[t].deletedAt
    <3>1. PICK ids \in SUBSET Series :
            docs' = [s \in Series |-> IF s \in ids /\ Visible(s)
                                     THEN [docs[s] EXCEPT !.deletedAt = TRUE] ELSE docs[s]]
      BY <1>2 DEF BulkDelete
    <3>2. \A d \in Doc : /\ [d EXCEPT !.deletedAt = TRUE].isActive = d.isActive
                         /\ [d EXCEPT !.deletedAt = TRUE].deletedAt = TRUE
      BY DEF Doc
    <3>3. \A t \in stored : t \in Series /\ docs[t] \in Doc
      BY DEF TypeOK
    <3>4. QED
      BY <3>1, <3>2, <3>3
  <2>2. UNCHANGED job
    BY <1>2 DEF BulkDelete
  <2>3. RestrainedJobs'
    BY <2>2 DEF RestrainedJobs
  <2>4. NoneRevived
    BY <2>1 DEF NoneRevived
  <2>5. QED
    BY <2>3, <2>4
<1>3. ASSUME NEW r \in Requests, NEW s \in Series,
             Pause(r, s) \/ Resume(r, s) \/ SkipNext(r, s) \/ Remove(r, s) \/ Update(r, s)
               \/ EditFuture(r, s)
      PROVE  RestrainedJobs' /\ NoneRevived
  <2> DEFINE d == docs[s]
  <2>1. d \in Doc
    BY DEF TypeOK
  <2> HIDE DEF d
  <2>2. /\ [d EXCEPT !.isActive = FALSE].isActive = FALSE
        /\ \A next : [d EXCEPT !.nextRunDate = next].isActive = d.isActive
        /\ [d EXCEPT !.deletedAt = TRUE].isActive = d.isActive
        /\ [d EXCEPT !.endDate = d.nextRunDate, !.isActive = FALSE].isActive = FALSE
    BY <2>1 DEF Doc
  <2>3. CASE Update(r, s)
    <3>1. PICK mine : Serve(r, "update", s, mine)
      BY <2>3 DEF Update
    <3>2. QED
      BY <3>1, ServeRestrained
  <2>4. QED
    BY <1>3, <2>2, <2>3, ServeRestrained DEF Pause, Resume, SkipNext, Remove, EditFuture, d
<1>4. ASSUME NEW r \in Requests, NEW s \in Series, ManualGenerate(r, s)
      PROVE  RestrainedJobs' /\ NoneRevived
  <2>1. PICK until : Start(r, GenerateJob(s, until))
    BY <1>4 DEF ManualGenerate
  <2>2. job' = [job EXCEPT ![r] = GenerateJob(s, until)] /\ ~docs[s].deletedAt
        /\ UNCHANGED docs
    BY <1>4, <2>1 DEF Start, ManualGenerate, Visible, dbVars
  <2>3. QED
    BY <2>2, GenerateRestrained, OneRestrained DEF Actors, NoneRevived
<1>5. QED
  BY <1>1, <1>2, <1>3, <1>4 DEF UserStep

LEMMA AnswerRestrained ==
  ASSUME TypeOK, RestrainedJobs, NEW r \in Requests, Answer(r)
  PROVE  RestrainedJobs' /\ NoneRevived
<1>1. r \in Actors /\ Restrained(job[r]) /\ job[r] \in Job /\ job[r].mine \in Doc
  BY JobFields DEF Actors, RestrainedJobs
<1>2. CASE Save(r)
  BY <1>1, <1>2, IdleRestrained, OneRestrained, SaveRevivesNone DEF Save, Finish, Restrained
<1>3. CASE EndCurrent(r)
  <2>1. Restrained([job[r] EXCEPT !.op = "createSuccessor"])
    BY <1>1, <1>3 DEF EndCurrent, Restrained, Job
  <2>2. job' = [job EXCEPT ![r] = [job[r] EXCEPT !.op = "createSuccessor"]]
    BY <1>3 DEF EndCurrent
  <2>3. RestrainedJobs'
    BY <1>1, <2>1, <2>2, OneRestrained
  <2>4. QED
    BY <1>1, <1>3, <2>3, SaveRevivesNone DEF EndCurrent, Restrained
<1>4. CASE CreateSuccessor(r)
  <2>1. PICK s \in Series \ stored : \E d : docs' = [docs EXCEPT ![s] = d]
    BY <1>4 DEF CreateSuccessor
  <2>2. \A t \in stored : docs'[t] = docs[t]
    BY <2>1 DEF TypeOK
  <2>3. RestrainedJobs'
    BY <1>1, <1>4, IdleRestrained, OneRestrained DEF CreateSuccessor, Finish
  <2>4. QED
    BY <2>2, <2>3 DEF NoneRevived
<1>5. QED
  BY <1>2, <1>3, <1>4 DEF Answer

LEMMA GenerateStepRestrained ==
  ASSUME TypeOK, RestrainedJobs, NEW a \in Actors, Generate(a)
  PROVE  RestrainedJobs' /\ NoneRevived
<1> DEFINE j == job[a]
           next == Advance(j.mine, j.cursor)
<1>1. /\ Restrained(j) /\ j \in Job /\ j.mine \in Doc /\ j.op = "generate"
  BY JobFields DEF RestrainedJobs, Generate, SkipBeforeStart, InsertTransaction, SaveGenerated
<1>2. CASE SkipBeforeStart(a)
  <2>1. Restrained([j EXCEPT !.cursor = next])
    BY <1>1 DEF Restrained, Job
  <2>2. job' = [job EXCEPT ![a] = [j EXCEPT !.cursor = next]] /\ UNCHANGED docs
    BY <1>2 DEF SkipBeforeStart, dbVars
  <2>3. QED
    BY <2>1, <2>2, OneRestrained DEF NoneRevived
<1>3. CASE InsertTransaction(a)
  <2> DEFINE mine == Generated(j.mine, j.cursor, next)
  <2>1. mine.isActive => j.mine.isActive
    BY <1>1 DEF Generated, Doc
  <2> HIDE DEF mine
  <2>2. Restrained([j EXCEPT !.inserted = TRUE, !.cursor = next, !.mine = mine])
    BY <1>1, <2>1 DEF Restrained, Job
  <2>3. job' = [job EXCEPT ![a] = [j EXCEPT !.inserted = TRUE, !.cursor = next,
                                            !.mine = mine]]
        /\ UNCHANGED docs
    BY <1>3 DEF InsertTransaction, dbVars, mine
  <2>4. QED
    BY <2>2, <2>3, OneRestrained DEF NoneRevived
<1>4. CASE SaveGenerated(a)
  <2> DEFINE mine == [j.mine EXCEPT !.nextRunDate = j.cursor]
  <2>1. mine \in Doc /\ (mine.isActive => j.mine.isActive)
    BY <1>1 DEF Doc, Job
  <2>2. RestrainedJobs'
    BY <1>4, IdleRestrained, OneRestrained DEF SaveGenerated, Finish
  <2>3. docs' = [docs EXCEPT ![j.series] = SaveModified(docs[j.series], j.loaded, mine)]
    BY <1>4 DEF SaveGenerated
  <2> HIDE DEF mine
  <2>4. QED
    BY <1>1, <2>1, <2>2, <2>3, SaveRevivesNone DEF Restrained
<1>5. QED
  BY <1>2, <1>3, <1>4 DEF Generate

LEMMA OtherRestrained ==
  ASSUME TypeOK, RestrainedJobs,
         \/ Tick \/ UNCHANGED vars
         \/ \E a \in Actors : Fail(a)
         \/ \E c \in Crons : CronFires(c) \/ CronTakes(c) \/ Crash(c)
  PROVE  RestrainedJobs' /\ NoneRevived
<1>1. UNCHANGED docs
  BY DEF Tick, vars, Fail, CronFires, CronTakes, Crash, dbVars
<1>2. NoneRevived
  BY <1>1 DEF NoneRevived
<1>3. CASE UNCHANGED job
  BY <1>2, <1>3 DEF RestrainedJobs
<1>4. ASSUME NEW a \in Actors, Finish(a)  PROVE RestrainedJobs'
  BY <1>4, IdleRestrained, OneRestrained DEF Finish
<1>5. ASSUME NEW c \in Crons, CronTakes(c), job' # job  PROVE RestrainedJobs'
  <2>1. PICK s : Visible(s) /\ Start(c, GenerateJob(s, Midnight(now)))
    BY <1>5 DEF CronTakes
  <2>2. job' = [job EXCEPT ![c] = GenerateJob(s, Midnight(now))] /\ ~docs[s].deletedAt
    BY <2>1 DEF Start, Visible
  <2>3. QED
    BY <2>2, GenerateRestrained, OneRestrained DEF Actors
<1>6. QED
  BY <1>2, <1>3, <1>4, <1>5 DEF Tick, vars, Fail, CronFires, Crash, Actors

LEMMA RestrainedNext ==
  ASSUME TypeOK, RestrainedJobs, [Next]_vars  PROVE RestrainedJobs' /\ NoneRevived
  BY UserStepRestrained, AnswerRestrained, GenerateStepRestrained, OtherRestrained DEF Next

\* For every set of series, processes and requests: no save of a handler that loaded a
\* series before it was paused, ended or deleted brings it back.
THEOREM StopIsFinal == Spec => StoppedStaysStopped
<1>1. Init => RestrainedJobs
  BY IdleRestrained DEF Init, RestrainedJobs
<1>2. TypeOK /\ RestrainedJobs /\ [Next]_vars => RestrainedJobs' /\ [NoneRevived]_vars
  BY RestrainedNext
<1>3. QED
  BY <1>1, <1>2, Typing, PTL DEF Spec, StoppedStaysStopped, NoneRevived
=============================================================================
