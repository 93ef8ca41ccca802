------------------------------ MODULE Calendar ------------------------------
(***************************************************************************)
(* ntg_gmtime (utils/ntg_times.c) and a calendar to compare it with.  A    *)
(* time is a day since January 1, 1970 and a second of that day: `n /      *)
(* 86400' and `n % 86400' in the code.                                     *)
(***************************************************************************)
EXTENDS Integers, FiniteSets, FiniteSetsExt

DaySeconds == 86400

At(day, second) == [day |-> day, second |-> second]

Clock(t) == [hour |-> t.second \div 3600, min |-> (t.second % 3600) \div 60, sec |-> t.second % 60]
-----------------------------------------------------------------------------
(* ntg_gmtime: Gauss' formula.  Years begin in March.                      *)
-----------------------------------------------------------------------------
\* Days since March 1, 1 BC.
MarchDays(day) == day - (31 + 28) + 719527

\* Some first days of March go to the year before with + 1: with + 2, the last days of
\* February may go to the year behind.
GaussYear(days) == ((days + 2) * 400) \div (365 * 400 + 100 - 4 + 1)

DaysBeforeYear(y) == 365 * y + y \div 4 - y \div 100 + y \div 400

\* Mutant: centuries are not looked at.
LeapEveryFourth(y) == y % 4 = 0

Leap(y) == y % 4 = 0 /\ (y % 100 # 0 \/ y % 400 = 0)

\* yday < 0: the day belongs to the year before.
MarchYear(days) ==
  LET y    == GaussYear(days)
      yday == days - DaysBeforeYear(y)
  IN IF yday >= 0 THEN [year |-> y, yday |-> yday]
     ELSE [year |-> y - 1, yday |-> 365 + (IF Leap(y) THEN 1 ELSE 0) + yday]

Gmtime(t) ==
  LET m    == MarchYear(MarchDays(t.day))
      mon  == ((m.yday + 31) * 10) \div 306
      mday == m.yday - ((367 * mon) \div 12 - 30) + 1
      late == m.yday >= 306
  IN [year |-> IF late THEN m.year + 1 ELSE m.year, mon |-> IF late THEN mon - 10 ELSE mon + 2,
      mday |-> mday, wday |-> (4 + t.day) % 7, clock |-> Clock(t)]
-----------------------------------------------------------------------------
(* The calendar, counted in years and months.                              *)
-----------------------------------------------------------------------------
IsLeapYear(y) == (4 * (y \div 4) = y /\ 100 * (y \div 100) # y) \/ 400 * (y \div 400) = y

YearDays(y) == IF IsLeapYear(y) THEN 366 ELSE 365

MonthDays(y, m) == CASE m = 2 -> YearDays(y) - 337 [] m \in {4, 6, 9, 11} -> 30 [] OTHER -> 31

\* Days from 1970 to the beginning of year y: one by one.
YearStart(y) == LET start[k \in 1970 .. y] == IF k = 1970 THEN 0 ELSE start[k - 1] + YearDays(k - 1) IN start[y]

\* Days of year y before month m.
DaysBeforeMonth(y, m) == LET before[k \in 1 .. m] == IF k = 1 THEN 0 ELSE before[k - 1] + MonthDays(y, k - 1) IN before[m]

\* The last year, and in it the last month, that began on the day or before.
Civil(t) ==
  LET guess == 1970 + t.day \div 366
      year  == IF YearStart(guess + 1) <= t.day THEN guess + 1 ELSE guess
      yday  == t.day - YearStart(year)
      mon   == Max({m \in 1 .. 12 : DaysBeforeMonth(year, m) <= yday})
  IN [year |-> year, mon |-> mon, mday |-> yday - DaysBeforeMonth(year, mon) + 1,
      wday |-> (t.day - 3) % 7, clock |-> Clock(t)]

\* The time in a zone that is `minutes' ahead.
Shift(t, minutes) ==
  LET s == t.second + 60 * minutes
  IN At(t.day + s \div DaySeconds, s % DaySeconds)
=============================================================================
