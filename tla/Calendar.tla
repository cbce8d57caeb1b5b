------------------------------ MODULE Calendar ------------------------------
(***************************************************************************)
(* The date arithmetic behind token deadlines (local_print.rs:             *)
(* days_since_epoch, expires_unix), and the calendar it has to agree with. *)
(* A date is a triple <<year, month, day>>.                                *)
(***************************************************************************)
EXTENDS Integers

\* Mutant of DaysSinceEpoch: every month counts 30 days.
DaysShortMonths(date) ==
  LET y == IF date[2] <= 2 THEN date[1] - 1 ELSE date[1]
      m == IF date[2] <= 2 THEN date[2] + 12 ELSE date[2]
      yoe == y % 400
  IN (y \div 400) * 146097 + yoe * 365 + yoe \div 4 - yoe \div 100
       + 30 * (m - 3) + date[3] - 1 - 719468

\* days_since_epoch, for the dates its range check lets through.
DaysSinceEpoch(date) ==
  LET y == IF date[2] <= 2 THEN date[1] - 1 ELSE date[1]
      m == IF date[2] <= 2 THEN date[2] + 12 ELSE date[2]
      era == y \div 400
      yoe == y - era * 400
      doy == (153 * (m - 3) + 2) \div 5 + date[3] - 1
      doe == yoe * 365 + yoe \div 4 - yoe \div 100 + doy
  IN era * 146097 + doe - 719468

InRange(date) == date[1] \in 1970..2100 /\ date[2] \in 1..12 /\ date[3] \in 1..31

----------------------------------------------------------------------------
(* The calendar the host writes its deadlines by *)

LeapYear(y) == y % 4 = 0 /\ (y % 100 # 0 \/ y % 400 = 0)

MonthLength(y, m) ==
  IF m = 2 THEN IF LeapYear(y) THEN 29 ELSE 28
  ELSE IF m \in {4, 6, 9, 11} THEN 30
  ELSE 31

\* A day of the calendar, not before the epoch.
ValidDate(date) ==
  /\ date \in Nat \X (1..12) \X (1..31)
  /\ date[1] >= 1970 /\ date[3] <= MonthLength(date[1], date[2])

\* The leap years before y.
LeapsBefore(y) == (y - 1) \div 4 - (y - 1) \div 100 + (y - 1) \div 400

\* The days of a common year before each month.
DaysBefore == <<0, 31, 59, 90, 120, 151, 181, 212, 243, 273, 304, 334>>

\* The system clock's day on a date: the days since the first of January 1970,
\* counted by years and months.
DayNumber(date) ==
  365 * (date[1] - 1970) + LeapsBefore(date[1]) - LeapsBefore(1970)
    + DaysBefore[date[2]] + (IF date[2] > 2 /\ LeapYear(date[1]) THEN 1 ELSE 0)
    + date[3] - 1

NextDate(date) ==
  IF date[3] < MonthLength(date[1], date[2]) THEN <<date[1], date[2], date[3] + 1>>
  ELSE IF date[2] < 12 THEN <<date[1], date[2] + 1, 1>>
  ELSE <<date[1] + 1, 1, 1>>

\* The date k days later.
DateAfter(date, k) ==
  LET f[i \in 0..k] == IF i = 0 THEN date ELSE NextDate(f[i - 1])
  IN f[k]
============================================================================
