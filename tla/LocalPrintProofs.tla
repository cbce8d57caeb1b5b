-------------------------- MODULE LocalPrintProofs --------------------------
(***************************************************************************)
(* Proofs about Calendar and LocalPrint.  The calendar part is an          *)
(* induction over days: the step from a date to the next one is            *)
(* arithmetic, and the natural numbers being well founded, a set of them   *)
(* that holds 0 and is closed under successor holds them all.              *)
(***************************************************************************)
EXTENDS LocalPrint, WellFoundedInduction, TLAPS

\* Induction, for a set of numbers.
LEMMA NatSetInduction ==
  ASSUME NEW S \in SUBSET Nat, 0 \in S, \A n \in S : n + 1 \in S
  PROVE  S = Nat
<1> DEFINE T == Nat \ S
           R == OpToRel(<, Nat)
<1> SUFFICES ASSUME T # {} PROVE FALSE
  OBVIOUS
<1>1. IsWellFoundedOn(R, Nat)
  BY NatLessThanWellFounded, Zenon
<1>2. PICK x \in T : \A y \in T : ~(<<y, x>> \in R)
  <2>1. T \subseteq Nat
    OBVIOUS
  <2> HIDE DEF T, R
  <2> QED BY <1>1, <2>1, WFMin
<1>3. \A y \in T : ~(y < x)
  BY <1>2 DEF OpToRel
<1> QED BY <1>3

----------------------------------------------------------------------------
(* The dates after a date *)

\* The function in the body of DateAfter.
Dates(d, k, f) == f = [i \in 0..k |-> IF i = 0 THEN d ELSE NextDate(f[i - 1])]

LEMMA DatesGrow ==
  ASSUME NEW d, NEW k \in Nat, NEW f, Dates(d, k, f)
  PROVE  \E g : Dates(d, k + 1, g)
<1> DEFINE g == [i \in 0..(k + 1) |-> IF i <= k THEN f[i] ELSE NextDate(f[k])]
<1>1. \A i \in 0..k : g[i] = f[i]
  OBVIOUS
<1>2. \A i \in 0..k : f[i] = IF i = 0 THEN d ELSE NextDate(f[i - 1])
  BY DEF Dates
<1>3. \A i \in 0..(k + 1) : g[i] = IF i = 0 THEN d ELSE NextDate(g[i - 1])
  <2> TAKE i \in 0..(k + 1)
  <2>1. CASE i <= k
    BY <2>1, <1>1, <1>2
  <2>2. CASE i = k + 1
    BY <2>2, <1>1
  <2> QED BY <2>1, <2>2
<1>4. Dates(d, k + 1, g)
  BY <1>3 DEF Dates
<1> QED BY <1>4

LEMMA DatesExist ==
  ASSUME NEW d, NEW k \in Nat
  PROVE  \E f : Dates(d, k, f)
<1> DEFINE S == {n \in Nat : \E f : Dates(d, n, f)}
<1>1. 0 \in S
  <2>1. Dates(d, 0, [i \in 0..0 |-> d])
    BY DEF Dates
  <2> QED BY <2>1
<1>2. \A n \in S : n + 1 \in S
  BY DatesGrow
<1>3. S = Nat
  <2> HIDE DEF S
  <2>1. S \in SUBSET Nat
    BY DEF S
  <2> QED BY <1>1, <1>2, <2>1, NatSetInduction
<1> QED BY <1>3

LEMMA DatesAgree ==
  ASSUME NEW d, NEW k \in Nat, NEW f, Dates(d, k, f), NEW g, Dates(d, k + 1, g)
  PROVE  f[k] = g[k]
<1> DEFINE S == {n \in Nat : n <= k => f[n] = g[n]}
<1>1. 0 \in S
  BY DEF Dates
<1>2. \A n \in S : n + 1 \in S
  <2> TAKE n \in S
  <2> SUFFICES ASSUME n + 1 <= k PROVE f[n + 1] = g[n + 1]
    OBVIOUS
  <2>1. f[n + 1] = NextDate(f[(n + 1) - 1]) /\ g[n + 1] = NextDate(g[(n + 1) - 1])
    BY DEF Dates
  <2>2. (n + 1) - 1 = n /\ f[n] = g[n]
    OBVIOUS
  <2> QED BY <2>1, <2>2
<1>3. S = Nat
  <2> HIDE DEF S
  <2>1. S \in SUBSET Nat
    BY DEF S
  <2> QED BY <1>1, <1>2, <2>1, NatSetInduction
<1> QED BY <1>3

LEMMA DateAfterDates ==
  ASSUME NEW d, NEW k \in Nat
  PROVE  \E f : Dates(d, k, f) /\ DateAfter(d, k) = f[k]
<1> DEFINE F == CHOOSE f : Dates(d, k, f)
<1>1. DateAfter(d, k) = F[k]
  BY DEF DateAfter, Dates
<1>2. Dates(d, k, F)
  BY DatesExist
<1> QED BY <1>1, <1>2

\* What the recursion of DateAfter says: no day later is the date itself, and
\* one day more is the next date.
LEMMA DateAfterRecursion ==
  ASSUME NEW d
  PROVE  /\ DateAfter(d, 0) = d
         /\ \A k \in Nat : DateAfter(d, k + 1) = NextDate(DateAfter(d, k))
<1>1. DateAfter(d, 0) = d
  <2>1. PICK f : Dates(d, 0, f) /\ DateAfter(d, 0) = f[0]
    BY DateAfterDates
  <2> QED BY <2>1 DEF Dates
<1>2. ASSUME NEW k \in Nat PROVE DateAfter(d, k + 1) = NextDate(DateAfter(d, k))
  <2>1. PICK f : Dates(d, k, f) /\ DateAfter(d, k) = f[k]
    BY DateAfterDates
  <2>2. PICK g : Dates(d, k + 1, g) /\ DateAfter(d, k + 1) = g[k + 1]
    BY DateAfterDates
  <2>3. f[k] = g[k]
    BY <2>1, <2>2, DatesAgree
  <2>4. g[k + 1] = NextDate(g[(k + 1) - 1]) /\ (k + 1) - 1 = k
    BY <2>2 DEF Dates
  <2> QED BY <2>1, <2>2, <2>3, <2>4
<1> QED BY <1>1, <1>2

\* Days add up.
LEMMA DateAfterAdds ==
  ASSUME NEW d, NEW i \in Nat, NEW k \in Nat
  PROVE  DateAfter(DateAfter(d, i), k) = DateAfter(d, i + k)
<1> DEFINE S == {n \in Nat : DateAfter(DateAfter(d, i), n) = DateAfter(d, i + n)}
<1>1. 0 \in S
  <2>1. i + 0 = i
    OBVIOUS
  <2> QED BY <2>1, DateAfterRecursion
<1>2. \A n \in S : n + 1 \in S
  <2> TAKE n \in S
  <2>1. DateAfter(DateAfter(d, i), n + 1) = NextDate(DateAfter(DateAfter(d, i), n))
    BY DateAfterRecursion
  <2>2. DateAfter(d, (i + n) + 1) = NextDate(DateAfter(d, i + n))
    <3>1. i + n \in Nat
      OBVIOUS
    <3> QED BY <3>1, DateAfterRecursion
  <2>3. (i + n) + 1 = i + (n + 1)
    OBVIOUS
  <2> QED BY <2>1, <2>2, <2>3
<1>3. S = Nat
  <2> HIDE DEF S
  <2>1. S \in SUBSET Nat
    BY DEF S
  <2> QED BY <1>1, <1>2, <2>1, NatSetInduction
<1> QED BY <1>3

----------------------------------------------------------------------------
(* days_since_epoch counts the days of the calendar *)

\* The last day of February, in which the code's year ends.
LEMMA FebruaryEnds ==
  \A y \in Nat : y >= 1970 =>
    DaysSinceEpoch(<<y, 3, 1>>) = DaysSinceEpoch(<<y, 2, MonthLength(y, 2)>>) + 1
<1> SUFFICES ASSUME NEW y \in Nat, y >= 1970
             PROVE  DaysSinceEpoch(<<y, 3, 1>>) = DaysSinceEpoch(<<y, 2, MonthLength(y, 2)>>) + 1
  OBVIOUS
<1> DEFINE k == MonthLength(y, 2)
<1>0. k \in 28..29
  BY DEF MonthLength
<1> HIDE DEF k
<1> SUFFICES DaysSinceEpoch(<<y, 3, 1>>) = DaysSinceEpoch(<<y, 2, k>>) + 1
  BY DEF k
<1>1. PICK e \in Nat, z \in 0..399 : y = 400 * e + z
  <2>1. y = 400 * (y \div 400) + (y % 400) /\ y \div 400 \in Nat /\ y % 400 \in 0..399
    OBVIOUS
  <2> QED BY <2>1
<1>2. e > 0
  BY <1>1
<1>3. CASE z > 0
  <2>1. (y - 1) \div 400 = e /\ y \div 400 = e
    BY <1>1, <1>3
  <2>2. PICK c \in 0..3, w \in 0..99 : z = 100 * c + w
    <3>1. z = 100 * (z \div 100) + (z % 100) /\ z \div 100 \in 0..3 /\ z % 100 \in 0..99
      OBVIOUS
    <3> QED BY <3>1
  <2>3. PICK q \in 0..24, r \in 0..3 : w = 4 * q + r
    <3>1. w = 4 * (w \div 4) + (w % 4) /\ w \div 4 \in 0..24 /\ w % 4 \in 0..3
      OBVIOUS
    <3> QED BY <3>1
  <2>4. z \div 100 = c /\ z \div 4 = 25 * c + q
    BY <2>2, <2>3
  <2>5. y % 4 = r /\ y % 100 = w /\ y % 400 = z
    BY <1>1, <2>2, <2>3
  <2>6. (z - 1) \div 4 = IF r = 0 THEN 25 * c + q - 1 ELSE 25 * c + q
    BY <2>2, <2>3, <1>3
  <2>7. (z - 1) \div 100 = IF w = 0 THEN c - 1 ELSE c
    BY <2>2, <1>3
  <2>8. k = IF r = 0 /\ w # 0 THEN 29 ELSE 28
    BY <2>5, <1>3 DEF MonthLength, LeapYear, k
  <2>9. DaysSinceEpoch(<<y, 3, 1>>)
          = e * 146097 + z * 365 + z \div 4 - z \div 100 + (153 * (3 - 3) + 2) \div 5 + 1 - 1 - 719468
    BY <1>1, <2>1 DEF DaysSinceEpoch
  <2>10. DaysSinceEpoch(<<y, 2, k>>)
           = e * 146097 + (z - 1) * 365 + (z - 1) \div 4 - (z - 1) \div 100
               + (153 * (14 - 3) + 2) \div 5 + k - 1 - 719468
    BY <1>0, <1>1, <2>1 DEF DaysSinceEpoch
  <2>11. (153 * (3 - 3) + 2) \div 5 = 0 /\ (153 * (14 - 3) + 2) \div 5 = 337
    OBVIOUS
  <2> QED BY <2>2, <2>3, <2>4, <2>6, <2>7, <2>8, <2>9, <2>10, <2>11
<1>4. CASE z = 0
  <2>1. y - 1 = 400 * (e - 1) + 399 /\ (y - 1) \div 400 = e - 1 /\ y \div 400 = e
    BY <1>1, <1>2, <1>4
  <2>2. y % 400 = 0 /\ y % 4 = 0
    BY <1>1, <1>4
  <2>3. k = 29
    BY <2>2 DEF MonthLength, LeapYear, k
  <2> QED BY <2>1, <2>3, <1>1, <1>4 DEF DaysSinceEpoch
<1> QED BY <1>3, <1>4

\* The next date is a date, and the code's count of it is one more.
LEMMA NextDateCounts ==
  ASSUME NEW d, ValidDate(d)
  PROVE  ValidDate(NextDate(d)) /\ DaysSinceEpoch(NextDate(d)) = DaysSinceEpoch(d) + 1
<1>1. PICK y \in Nat, m \in 1..12, k \in 1..31 : d = <<y, m, k>>
  BY DEF ValidDate
<1>2. y >= 1970 /\ k <= MonthLength(y, m)
  BY <1>1 DEF ValidDate
<1>3. \A z \in Nat, n \in 1..12 : MonthLength(z, n) \in 28..31
  BY DEF MonthLength
<1>4. CASE k < MonthLength(y, m)
  <2>1. NextDate(d) = <<y, m, k + 1>> /\ k + 1 \in 1..31
    BY <1>1, <1>3, <1>4 DEF NextDate
  <2>2. ValidDate(NextDate(d))
    BY <1>2, <1>3, <1>4, <2>1 DEF ValidDate
  <2>3. DaysSinceEpoch(<<y, m, k + 1>>) = DaysSinceEpoch(<<y, m, k>>) + 1
    BY DEF DaysSinceEpoch
  <2> QED BY <1>1, <2>1, <2>2, <2>3
<1>5. CASE k = MonthLength(y, m) /\ m < 12
  <2>1. NextDate(d) = <<y, m + 1, 1>> /\ m + 1 \in 1..12 /\ 1 <= MonthLength(y, m + 1)
    BY <1>1, <1>3, <1>5 DEF NextDate
  <2>2. ValidDate(NextDate(d))
    BY <1>2, <2>1 DEF ValidDate
  <2>3. CASE m = 2
    <3>1. NextDate(d) = <<y, 3, 1>> /\ d = <<y, 2, k>> /\ k = MonthLength(y, 2)
      BY <1>1, <1>5, <2>1, <2>3
    <3>2. DaysSinceEpoch(<<y, 3, 1>>) = DaysSinceEpoch(<<y, 2, MonthLength(y, 2)>>) + 1
      BY <1>2, FebruaryEnds
    <3> QED BY <2>2, <3>1, <3>2
  <2>4. CASE m # 2
    <3>1. DaysSinceEpoch(<<y, m + 1, 1>>) = DaysSinceEpoch(<<y, m, k>>) + 1
      BY <1>5, <2>4, SMTT(60) DEF DaysSinceEpoch, MonthLength
    <3> QED BY <1>1, <2>1, <2>2, <3>1
  <2> QED BY <2>3, <2>4
<1>6. CASE k = MonthLength(y, m) /\ m = 12
  <2>1. NextDate(d) = <<y + 1, 1, 1>> /\ 1 <= MonthLength(y + 1, 1) /\ k = 31 /\ d = <<y, 12, 31>>
    BY <1>1, <1>3, <1>6 DEF NextDate, MonthLength
  <2>2. ValidDate(NextDate(d))
    BY <1>2, <2>1 DEF ValidDate
  <2>3. DaysSinceEpoch(<<y + 1, 1, 1>>) = DaysSinceEpoch(<<y, 12, 31>>) + 1
    BY SMTT(60) DEF DaysSinceEpoch
  <2> QED BY <2>1, <2>2, <2>3
<1>7. m < 12 \/ m = 12
  OBVIOUS
<1> QED BY <1>2, <1>3, <1>4, <1>5, <1>6, <1>7

\* So it counts any number of days.
LEMMA DateAfterCounts ==
  ASSUME NEW d, ValidDate(d), NEW k \in Nat
  PROVE  /\ ValidDate(DateAfter(d, k))
         /\ DaysSinceEpoch(DateAfter(d, k)) = DaysSinceEpoch(d) + k
<1> DEFINE S == {n \in Nat : /\ ValidDate(DateAfter(d, n))
                             /\ DaysSinceEpoch(DateAfter(d, n)) = DaysSinceEpoch(d) + n}
<1>1. DaysSinceEpoch(d) \in Int
  <2>1. PICK y \in Nat, m \in 1..12, c \in 1..31 : d = <<y, m, c>>
    BY DEF ValidDate
  <2> QED BY <2>1 DEF DaysSinceEpoch
<1>2. 0 \in S
  BY <1>1, DateAfterRecursion
<1>3. \A n \in S : n + 1 \in S
  <2> TAKE n \in S
  <2>1. DateAfter(d, n + 1) = NextDate(DateAfter(d, n))
    BY DateAfterRecursion
  <2>2. /\ ValidDate(NextDate(DateAfter(d, n)))
        /\ DaysSinceEpoch(NextDate(DateAfter(d, n))) = DaysSinceEpoch(DateAfter(d, n)) + 1
    BY NextDateCounts
  <2>3. DaysSinceEpoch(DateAfter(d, n)) = DaysSinceEpoch(d) + n
    OBVIOUS
  <2>4. (DaysSinceEpoch(d) + n) + 1 = DaysSinceEpoch(d) + (n + 1)
    BY <1>1
  <2> QED BY <2>1, <2>2, <2>3, <2>4
<1>4. S = Nat
  <2> HIDE DEF S
  <2>1. S \in SUBSET Nat
    BY DEF S
  <2> QED BY <1>2, <1>3, <2>1, NatSetInduction
<1> QED BY <1>4

\* days_since_epoch is right: n days after the first of January 1970, whatever
\* months, leap years and centuries lie between, it counts n.
THEOREM DaysCountTheCalendar ==
  \A n \in Nat : DaysSinceEpoch(DateAfter(<<1970, 1, 1>>, n)) = n
<1>1. ValidDate(<<1970, 1, 1>>)
  BY DEF ValidDate, MonthLength
<1>2. DaysSinceEpoch(<<1970, 1, 1>>) = 0
  BY DEF DaysSinceEpoch
<1> QED BY <1>1, <1>2, DateAfterCounts

\* The clock's day is the code's count of the date.
LEMMA DayNumberAgrees ==
  ASSUME NEW d, ValidDate(d)
  PROVE  DaysSinceEpoch(d) = DayNumber(d)
<1>1. PICK y \in Nat, m \in 1..12, k \in 1..31 : d = <<y, m, k>>
  BY DEF ValidDate
<1>2. y >= 1970
  BY <1>1 DEF ValidDate
<1>3. PICK e \in Nat, z \in 0..399 : y - 1 = 400 * e + z
  <2>1. /\ y - 1 = 400 * ((y - 1) \div 400) + ((y - 1) % 400)
        /\ (y - 1) \div 400 \in Nat /\ (y - 1) % 400 \in 0..399
    BY <1>2
  <2> QED BY <2>1
<1>4. PICK c \in 0..3, w \in 0..99 : z = 100 * c + w
  <2>1. z = 100 * (z \div 100) + (z % 100) /\ z \div 100 \in 0..3 /\ z % 100 \in 0..99
    OBVIOUS
  <2> QED BY <2>1
<1>5. PICK q \in 0..24, r \in 0..3 : w = 4 * q + r
  <2>1. w = 4 * (w \div 4) + (w % 4) /\ w \div 4 \in 0..24 /\ w % 4 \in 0..3
    OBVIOUS
  <2> QED BY <2>1
<1>6. LeapsBefore(y) = 97 * e + 24 * c + q /\ LeapsBefore(1970) = 477
  BY <1>3, <1>4, <1>5 DEF LeapsBefore
<1>7. LeapYear(y) <=> (r = 3 /\ (w # 99 \/ c = 3))
  <2>1. y = 400 * e + 100 * c + 4 * q + r + 1
    BY <1>3, <1>4, <1>5
  <2>2. y % 4 = IF r = 3 THEN 0 ELSE r + 1
    BY <2>1
  <2>3. y % 100 = IF w = 99 THEN 0 ELSE w + 1
    BY <1>3, <1>4
  <2>4. y % 400 = IF z = 399 THEN 0 ELSE z + 1
    BY <1>3
  <2> QED BY <2>2, <2>3, <2>4, <1>4, <1>5 DEF LeapYear
<1>8. DayNumber(d) = 365 * (y - 1970) + (97 * e + 24 * c + q) - 477 + DaysBefore[m]
                       + (IF m > 2 /\ LeapYear(y) THEN 1 ELSE 0) + k - 1
  BY <1>1, <1>6 DEF DayNumber
<1>9. CASE m <= 2
  <2>1. /\ (y - 1) \div 400 = e /\ (y - 1) - e * 400 = z
        /\ z \div 4 = 25 * c + q /\ z \div 100 = c
    BY <1>3, <1>4, <1>5
  <2>2. DaysSinceEpoch(d) = e * 146097 + z * 365 + (25 * c + q) - c
                              + (153 * ((m + 12) - 3) + 2) \div 5 + k - 1 - 719468
    BY <1>1, <1>9, <2>1 DEF DaysSinceEpoch
  <2>3. (153 * ((m + 12) - 3) + 2) \div 5 = 306 + DaysBefore[m] /\ DaysBefore[m] \in Nat
    BY <1>9 DEF DaysBefore
  <2>4. (IF m > 2 /\ LeapYear(y) THEN 1 ELSE 0) = 0
    BY <1>9
  <2> QED BY <1>3, <1>4, <1>5, <1>8, <2>2, <2>3, <2>4
<1>10. CASE m > 2
  <2>1. (153 * (m - 3) + 2) \div 5 = DaysBefore[m] - 59 /\ DaysBefore[m] \in Nat
    BY <1>10 DEF DaysBefore
  <2>2. DaysSinceEpoch(d) = (y \div 400) * 146097 + (y - (y \div 400) * 400) * 365
          + (y - (y \div 400) * 400) \div 4 - (y - (y \div 400) * 400) \div 100
          + (DaysBefore[m] - 59) + k - 1 - 719468
    BY <1>1, <1>10, <2>1 DEF DaysSinceEpoch
  <2>3. CASE z = 399
    <3>1. y \div 400 = e + 1 /\ y - (e + 1) * 400 = 0 /\ c = 3 /\ w = 99 /\ q = 24 /\ r = 3
      BY <1>3, <1>4, <1>5, <2>3
    <3>2. LeapYear(y)
      BY <1>7, <3>1
    <3> QED BY <1>3, <1>8, <1>10, <2>1, <2>2, <2>3, <3>1, <3>2
  <2>4. CASE z < 399
    <3>1. y \div 400 = e /\ y - e * 400 = z + 1
      BY <1>3, <2>4
    <3>2. (z + 1) \div 4 = IF r = 3 THEN 25 * c + q + 1 ELSE 25 * c + q
      BY <1>4, <1>5
    <3>3. (z + 1) \div 100 = IF w = 99 THEN c + 1 ELSE c
      BY <1>4
    <3>4. (z + 1) \div 4 - (z + 1) \div 100 = 24 * c + q + IF LeapYear(y) THEN 1 ELSE 0
      <4>1. CASE LeapYear(y)
        BY <1>4, <1>5, <1>7, <2>4, <3>2, <3>3, <4>1
      <4>2. CASE ~LeapYear(y)
        BY <1>4, <1>5, <1>7, <2>4, <3>2, <3>3, <4>2
      <4> QED BY <4>1, <4>2
    <3>5. DaysSinceEpoch(d) = e * 146097 + (z + 1) * 365 + ((z + 1) \div 4 - (z + 1) \div 100)
                                + (DaysBefore[m] - 59) + k - 1 - 719468
      BY <2>2, <2>1, <3>1, <3>2, <3>3
    <3> QED BY <1>3, <1>8, <1>10, <2>1, <3>1, <3>4, <3>5
  <2> QED BY <2>3, <2>4
<1> QED BY <1>9, <1>10

\* A date whose count is not beyond 2100 passes the code's range check.
LEMMA CountedInRange ==
  ASSUME NEW d, ValidDate(d), DaysSinceEpoch(d) <= DayNumber(<<2100, 12, 31>>)
  PROVE  InRange(d)
<1>1. PICK y \in Nat, m \in 1..12, k \in 1..31 : d = <<y, m, k>>
  BY DEF ValidDate
<1>2. y >= 1970
  BY <1>1 DEF ValidDate
<1>3. DayNumber(<<2100, 12, 31>>) = 47846
  <2>1. LeapsBefore(2100) = 509 /\ LeapsBefore(1970) = 477
    BY DEF LeapsBefore
  <2>2. DaysBefore[12] = 334 /\ ~LeapYear(2100)
    BY DEF DaysBefore, LeapYear
  <2> QED BY <2>1, <2>2 DEF DayNumber
<1>4. y <= 2100
  <2> SUFFICES ASSUME y > 2100 PROVE FALSE
    OBVIOUS
  <2>1. DaysSinceEpoch(d) \in Int /\ DaysSinceEpoch(d) > 47846
    BY <1>1 DEF DaysSinceEpoch
  <2> QED BY <1>3, <2>1
<1> QED BY <1>1, <1>2, <1>4 DEF InRange

----------------------------------------------------------------------------
(* What the actions need to know of the constants and of one job *)

LEMMA Sizes ==
  /\ Ports \in Nat /\ Ports >= 1 /\ ShareDays \in Nat /\ ShareDays >= 1
  /\ MaxTokens \in Nat /\ MaxChanges \in Nat /\ MaxDays \in Nat /\ NONE \notin Cert
  /\ 1 \in 1..Ports
BY PrintAssumption DEF PrintAssumption

LEMMA NextPortTyped ==
  ASSUME NEW r \in JobState, NEW first \in {"list", "challenge"}
  PROVE  /\ NextPort(r, first) \in JobState
         /\ \/ /\ r.port < Ports /\ NextPort(r, first).at = first
               /\ NextPort(r, first).port = r.port + 1
            \/ /\ r.port = Ports /\ NextPort(r, first).at = "failed"
               /\ NextPort(r, first).port = r.port
         /\ NextPort(r, first).fp = r.fp /\ NextPort(r, first).pin = r.pin
         /\ NextPort(r, first).tok = r.tok /\ NextPort(r, first).told = r.told
         /\ NextPort(r, first).clean = r.clean /\ NextPort(r, first).lost = r.lost
         /\ NextPort(r, first).due = r.due
<1>1. Ports \in Nat /\ r.port \in 1..Ports
  BY Sizes DEF JobState
<1>2. CASE r.port < Ports
  <2>1. NextPort(r, first) = [r EXCEPT !.port = @ + 1, !.at = first] /\ r.port + 1 \in 1..Ports
    BY <1>1, <1>2 DEF NextPort
  <2> QED BY <1>2, <2>1 DEF JobState
<1>3. CASE ~(r.port < Ports)
  <2>1. NextPort(r, first) = [r EXCEPT !.at = "failed"] /\ r.port = Ports
    BY <1>1, <1>3 DEF NextPort
  <2> QED BY <2>1 DEF JobState
<1> QED BY <1>2, <1>3

LEMMA DisturbedTyped ==
  ASSUME TypeOK, NEW J, Disturbed(J)
  PROVE  /\ job' \in [Job -> JobState]
         /\ \A j \in Job :
              /\ job'[j].at = job[j].at /\ job'[j].port = job[j].port
              /\ job'[j].fp = job[j].fp /\ job'[j].pin = job[j].pin
              /\ job'[j].tok = job[j].tok /\ job'[j].told = job[j].told
              /\ job'[j].lost = job[j].lost /\ job'[j].due = job[j].due
              /\ job'[j].clean => job[j].clean /\ j \notin J
<1>1. job \in [Job -> JobState]
  BY DEF TypeOK
<1>2. ASSUME NEW j \in Job
      PROVE  /\ job'[j] \in JobState
             /\ job'[j].at = job[j].at /\ job'[j].port = job[j].port
             /\ job'[j].fp = job[j].fp /\ job'[j].pin = job[j].pin
             /\ job'[j].tok = job[j].tok /\ job'[j].told = job[j].told
             /\ job'[j].lost = job[j].lost /\ job'[j].due = job[j].due
             /\ job'[j].clean => job[j].clean /\ j \notin J
  <2>1. CASE j \in J
    <3>1. job'[j] = [job[j] EXCEPT !.clean = FALSE]
      BY <2>1 DEF Disturbed
    <3> QED BY <1>1, <3>1 DEF JobState
  <2>2. CASE j \notin J
    <3>1. job'[j] = job[j]
      BY <2>2 DEF Disturbed
    <3> QED BY <1>1, <2>2, <3>1
  <2> QED BY <2>1, <2>2
<1>3. job' \in [Job -> JobState]
  BY <1>2 DEF Disturbed
<1> QED BY <1>2, <1>3

\* A deadline the agent writes down is a date the model has a name for.
LEMMA DeadlineNamed ==
  ASSUME TypeOK
  PROVE  /\ DateAfter(Today, ShareDays) = DateAfter(start, day + ShareDays)
         /\ day + ShareDays \in 0..(MaxDays + ShareDays) /\ day + ShareDays > day
         /\ DateAfter(Today, ShareDays)
              \in {DateAfter(s, k) : s \in Start, k \in 0..(MaxDays + ShareDays)}
<1>1. day \in Nat /\ day <= MaxDays /\ start \in Start
  BY Sizes DEF TypeOK
<1>2. day + ShareDays \in 0..(MaxDays + ShareDays) /\ day + ShareDays > day
  BY <1>1, Sizes
<1>3. DateAfter(Today, ShareDays) = DateAfter(start, day + ShareDays)
  BY <1>1, Sizes, DateAfterAdds DEF Today
<1> QED BY <1>1, <1>2, <1>3

\* The token a successful request brings.
Fresh(j) == [id |-> Len(issued) + 1, pin |-> job[j].pin, expires |-> DateAfter(Today, ShareDays)]

LEMMA FreshTyped ==
  ASSUME TypeOK, NEW j \in Job, job[j].pin \in Cert, Len(issued) < MaxTokens
  PROVE  Fresh(j) \in Token /\ Fresh(j) # NONE
<1>1. Len(issued) + 1 \in 1..MaxTokens
  <2>1. Len(issued) \in Nat
    BY DEF TypeOK
  <2> QED BY <2>1, Sizes
<1>2. Fresh(j) \in Token
  BY <1>1, DeadlineNamed DEF Fresh, Token
<1> QED BY <1>2, TokenAssumption DEF TokenAssumption

\* What a new token does to the agents' list.
LEMMA IssueAppends ==
  ASSUME TypeOK, NEW c \in Cert, Issue(c)
  PROVE  /\ issued' \in Seq([cert : Cert, until : 0..(MaxDays + ShareDays)])
         /\ Len(issued) \in Nat /\ Len(issued') = Len(issued) + 1 /\ Len(issued') <= MaxTokens
         /\ DOMAIN issued \subseteq DOMAIN issued'
         /\ \A i \in DOMAIN issued : issued'[i] = issued[i]
         /\ Len(issued) + 1 \in DOMAIN issued' /\ Len(issued) + 1 \notin DOMAIN issued
         /\ issued'[Len(issued) + 1].cert = c
         /\ issued'[Len(issued) + 1].until = day + ShareDays
<1> DEFINE E == [cert : Cert, until : 0..(MaxDays + ShareDays)]
           e == [cert |-> c, until |-> day + ShareDays]
<1>1. issued \in Seq(E) /\ e \in E
  BY DeadlineNamed DEF TypeOK
<1>2. issued' = Append(issued, e) /\ Len(issued) < MaxTokens
  BY DEF Issue
<1>3. e.cert = c /\ e.until = day + ShareDays
  OBVIOUS
<1> HIDE DEF E, e
<1>4. /\ issued' \in Seq(E) /\ Len(issued) \in Nat /\ Len(issued') = Len(issued) + 1
      /\ \A i \in 1..Len(issued) : issued'[i] = issued[i]
      /\ issued'[Len(issued) + 1] = e
      /\ DOMAIN issued = 1..Len(issued) /\ DOMAIN issued' = 1..(Len(issued) + 1)
  BY <1>1, <1>2
<1>5. Len(issued') <= MaxTokens
  BY <1>2, <1>4, Sizes
<1> QED BY <1>3, <1>4, <1>5 DEF E

\* RequestShare either goes on to the next port or brings a token.
ShareGoesOn(j) ==
  /\ \E clean \in BOOLEAN :
       /\ job' = [job EXCEPT ![j] = NextPort([job[j] EXCEPT !.clean = @ /\ clean], "list")]
       /\ clean => serving[job[j].port] # NONE /\ serving[job[j].port] # job[j].pin
  /\ UNCHANGED <<stored, saved>>
  /\ UNCHANGED issued \/ \E c \in Cert : Issue(c)

ShareBrings(j) ==
  /\ job[j].pin \in Cert /\ serving[job[j].port] = job[j].pin /\ Issue(job[j].pin)
  /\ stored' = Fresh(j) /\ (saved' = Fresh(j) \/ saved' = saved)
  /\ job' = [i \in Job |->
       IF i = j THEN [job[j] EXCEPT !.at = "challenge", !.port = 1, !.tok = Fresh(j)]
       ELSE IF stored # NONE /\ stored.pin # job[j].pin /\ job[i].at \in {"list", "share"}
         THEN [job[i] EXCEPT !.clean = FALSE]
       ELSE job[i]]

LEMMA ShareCases ==
  ASSUME TypeOK, NEW j \in Job, RequestShare(j)
  PROVE  /\ job[j].at = "share"
         /\ UNCHANGED <<day, start, serving, revoked, changes, printed>>
         /\ ShareGoesOn(j) \/ ShareBrings(j)
<1> DEFINE r == job[j]
           c == serving[job[j].port]
<1>1. r \in JobState /\ r.port \in 1..Ports /\ serving \in [1..Ports -> Cert \cup {NONE}]
  BY DEF TypeOK, JobState
<1>2. c \in Cert \cup {NONE}
  BY <1>1
<1>3. r.at = "share" /\ UNCHANGED <<day, start, serving, revoked, changes, printed>>
  BY DEF RequestShare
<1>4. \/ /\ job' = [job EXCEPT ![j] = NextPort([r EXCEPT !.clean = @ /\ FALSE], "list")]
         /\ UNCHANGED <<issued, stored, saved>>
      \/ /\ c # NONE /\ c # r.pin
         /\ job' = [job EXCEPT ![j] = NextPort([r EXCEPT !.clean = @ /\ TRUE], "list")]
         /\ Issue(c) /\ UNCHANGED <<stored, saved>>
      \/ /\ c # NONE
         /\ job' = [job EXCEPT ![j] = NextPort([r EXCEPT !.clean = @ /\ FALSE], "list")]
         /\ Issue(c) /\ UNCHANGED <<stored, saved>>
      \/ /\ c # NONE /\ c = r.pin /\ Issue(c)
         /\ stored' = Fresh(j) /\ (saved' = Fresh(j) \/ saved' = saved)
         /\ job' = [i \in Job |->
              IF i = j THEN [r EXCEPT !.at = "challenge", !.port = 1, !.tok = Fresh(j)]
              ELSE IF stored # NONE /\ stored.pin # r.pin /\ job[i].at \in {"list", "share"}
                THEN [job[i] EXCEPT !.clean = FALSE]
              ELSE job[i]]
  BY Zenon DEF RequestShare, PinHolds, Fresh
<1> HIDE DEF c
<1>5. CASE /\ job' = [job EXCEPT ![j] = NextPort([r EXCEPT !.clean = @ /\ FALSE], "list")]
           /\ UNCHANGED <<issued, stored, saved>>
  BY <1>3, <1>5 DEF ShareGoesOn
<1>6. CASE /\ c # NONE /\ c # r.pin
           /\ job' = [job EXCEPT ![j] = NextPort([r EXCEPT !.clean = @ /\ TRUE], "list")]
           /\ Issue(c) /\ UNCHANGED <<stored, saved>>
  BY <1>2, <1>3, <1>6 DEF ShareGoesOn, c
<1>7. CASE /\ c # NONE
           /\ job' = [job EXCEPT ![j] = NextPort([r EXCEPT !.clean = @ /\ FALSE], "list")]
           /\ Issue(c) /\ UNCHANGED <<stored, saved>>
  BY <1>2, <1>3, <1>7 DEF ShareGoesOn, c
<1>8. CASE /\ c # NONE /\ c = r.pin /\ Issue(c)
           /\ stored' = Fresh(j) /\ (saved' = Fresh(j) \/ saved' = saved)
           /\ job' = [i \in Job |->
                IF i = j THEN [r EXCEPT !.at = "challenge", !.port = 1, !.tok = Fresh(j)]
                ELSE IF stored # NONE /\ stored.pin # r.pin /\ job[i].at \in {"list", "share"}
                  THEN [job[i] EXCEPT !.clean = FALSE]
                ELSE job[i]]
  <2>1. r.pin \in Cert /\ serving[job[j].port] = job[j].pin /\ Issue(job[j].pin)
    BY <1>2, <1>8 DEF c
  <2> QED BY <1>3, <1>8, <2>1 DEF ShareBrings
<1> QED BY <1>4, <1>5, <1>6, <1>7, <1>8

----------------------------------------------------------------------------
(* What one step does to its own job *)

\* The loop of a job went on to the next port, or ended.
Onward(r, nr, first) ==
  /\ nr \in JobState
  /\ \/ r.port < Ports /\ nr.at = first /\ nr.port = r.port + 1
     \/ r.port = Ports /\ nr.at = "failed" /\ nr.port = r.port
  /\ nr.tok = r.tok /\ nr.told = r.told /\ nr.due = r.due
  /\ nr.clean => r.clean

\* The job is elsewhere in its code, with the same token and the same history.
Moved(r, nr) ==
  /\ nr \in JobState
  /\ nr.port = r.port /\ nr.told = r.told /\ nr.due = r.due /\ nr.lost = r.lost
  /\ nr.tok = r.tok /\ (nr.clean => r.clean)

LEMMA OnwardStep ==
  ASSUME NEW r \in JobState, NEW s \in JobState, NEW first \in {"list", "challenge"},
         s.port = r.port, s.tok = r.tok, s.told = r.told, s.due = r.due, s.clean => r.clean
  PROVE  /\ Onward(r, NextPort(s, first), first)
         /\ NextPort(s, first).lost = s.lost /\ NextPort(s, first).clean = s.clean
BY NextPortTyped DEF Onward

LEMMA ListCases ==
  ASSUME TypeOK, NEW j \in Job, ListPrinters(j)
  PROVE  /\ job[j].at = "list" /\ UNCHANGED <<day, start, agents, stored, saved, printed>>
         /\ \E nr : /\ job' = [job EXCEPT ![j] = nr]
                    /\ nr.lost = job[j].lost
                    /\ \/ /\ Moved(job[j], nr) /\ nr.at = "share"
                          /\ serving[job[j].port] \in Cert
                          /\ nr.pin = IF stored = NONE THEN serving[job[j].port] ELSE stored.pin
                       \/ /\ Onward(job[j], nr, "list")
                          /\ nr.clean => serving[job[j].port] = NONE
<1> DEFINE r == job[j]
           c == serving[job[j].port]
           pin == IF stored = NONE THEN c ELSE stored.pin
           unsure == [r EXCEPT !.clean = FALSE]
<1>1. r \in JobState /\ r.port \in 1..Ports /\ serving \in [1..Ports -> Cert \cup {NONE}]
  BY DEF TypeOK, JobState
<1>2. c \in Cert \cup {NONE} /\ pin \in Cert \cup {NONE}
  BY <1>1 DEF TypeOK, Token
<1>3. job \in [Job -> JobState]
  BY DEF TypeOK
<1>4. r.at = "list" /\ UNCHANGED <<day, start, agents, stored, saved, printed>>
  BY DEF ListPrinters
<1>5. \/ c # NONE /\ job' = [job EXCEPT ![j].at = "share", ![j].fp = c, ![j].pin = pin]
      \/ c = NONE /\ job' = [job EXCEPT ![j] = NextPort(r, "list")]
      \/ c # NONE /\ job' = [job EXCEPT ![j] = NextPort([r EXCEPT !.clean = FALSE], "list")]
  BY DEF ListPrinters
<1>6. CASE c # NONE /\ job' = [job EXCEPT ![j].at = "share", ![j].fp = c, ![j].pin = pin]
  <2> DEFINE nr == [r EXCEPT !.at = "share", !.fp = c, !.pin = pin]
  <2> HIDE DEF c, pin
  <2>1. job' = [job EXCEPT ![j] = nr]
    BY <1>3, <1>6
  <2>2. Moved(r, nr) /\ nr.at = "share" /\ nr.lost = r.lost /\ nr.pin = pin
    BY <1>1, <1>2 DEF Moved, JobState
  <2>3. c \in Cert
    BY <1>2, <1>6
  <2> HIDE DEF nr
  <2> QED BY <1>4, <2>1, <2>2, <2>3 DEF c, pin
<1>7. CASE c = NONE /\ job' = [job EXCEPT ![j] = NextPort(r, "list")]
  <2>1. Onward(r, NextPort(r, "list"), "list") /\ NextPort(r, "list").lost = r.lost
    BY <1>1, OnwardStep
  <2> QED BY <1>4, <1>7, <2>1
<1>8. CASE c # NONE /\ job' = [job EXCEPT ![j] = NextPort([r EXCEPT !.clean = FALSE], "list")]
  <2>1. /\ unsure \in JobState /\ unsure.port = r.port /\ unsure.tok = r.tok
        /\ unsure.told = r.told /\ unsure.due = r.due /\ unsure.lost = r.lost /\ unsure.clean = FALSE
    BY <1>1 DEF JobState
  <2> HIDE DEF unsure
  <2>2. /\ Onward(r, NextPort(unsure, "list"), "list")
        /\ NextPort(unsure, "list").lost = r.lost /\ NextPort(unsure, "list").clean = FALSE
    BY <1>1, <2>1, OnwardStep
  <2>3. job' = [job EXCEPT ![j] = NextPort(unsure, "list")]
    BY <1>8 DEF unsure
  <2> QED BY <1>4, <2>2, <2>3
<1> QED BY <1>5, <1>6, <1>7, <1>8

\* No token on this port; cleanly so only if another installation answered.
NoShare(j, nr) ==
  /\ Onward(job[j], nr, "list") /\ nr.lost = job[j].lost
  /\ nr.clean => serving[job[j].port] # NONE /\ serving[job[j].port] # job[j].pin

LEMMA GoesOnCase ==
  ASSUME TypeOK, NEW j \in Job, ShareGoesOn(j)
  PROVE  \E nr : job' = [job EXCEPT ![j] = nr] /\ NoShare(j, nr)
<1> DEFINE r == job[j]
<1>1. r \in JobState
  BY DEF TypeOK
<1>2. PICK clean \in BOOLEAN :
        /\ job' = [job EXCEPT ![j] = NextPort([r EXCEPT !.clean = @ /\ clean], "list")]
        /\ clean => serving[job[j].port] # NONE /\ serving[job[j].port] # job[j].pin
  BY DEF ShareGoesOn
<1> DEFINE s == [r EXCEPT !.clean = @ /\ clean]
<1>3. /\ s \in JobState /\ s.port = r.port /\ s.tok = r.tok
      /\ s.told = r.told /\ s.due = r.due /\ s.lost = r.lost
  BY <1>1 DEF JobState
<1>4. s.clean = (r.clean /\ clean)
  BY <1>1 DEF JobState
<1>5. job' = [job EXCEPT ![j] = NextPort(s, "list")]
  BY <1>2
<1> HIDE DEF s
<1>6. /\ Onward(r, NextPort(s, "list"), "list")
      /\ NextPort(s, "list").lost = r.lost /\ NextPort(s, "list").clean = s.clean
  <2>1. s.clean => r.clean
    BY <1>4
  <2> QED BY <1>1, <1>3, <2>1, OnwardStep
<1> QED BY <1>2, <1>4, <1>5, <1>6 DEF NoShare

LEMMA ChallengeCases ==
  ASSUME TypeOK, NEW j \in Job, Challenge(j)
  PROVE  /\ job[j].at = "challenge" /\ UNCHANGED <<day, start, agents, stored, saved, printed>>
         /\ \E nr : /\ job' = [job EXCEPT ![j] = nr]
                    /\ nr.lost = job[j].lost
                    /\ \/ Moved(job[j], nr) /\ nr.at = "post"
                       \/ /\ Onward(job[j], nr, "challenge")
                          /\ nr.clean => serving[job[j].port] = NONE
<1> DEFINE r == job[j]
           c == serving[job[j].port]
           unsure == [r EXCEPT !.clean = FALSE]
<1>1. r \in JobState /\ job \in [Job -> JobState]
  BY DEF TypeOK
<1>2. r.at = "challenge" /\ UNCHANGED <<day, start, agents, stored, saved, printed>>
  BY DEF Challenge
<1>3. \/ job' = [job EXCEPT ![j].at = "post"]
      \/ c = NONE /\ job' = [job EXCEPT ![j] = NextPort(r, "challenge")]
      \/ job' = [job EXCEPT ![j] = NextPort([r EXCEPT !.clean = FALSE], "challenge")]
  BY DEF Challenge
<1>4. CASE job' = [job EXCEPT ![j].at = "post"]
  <2> DEFINE nr == [r EXCEPT !.at = "post"]
  <2>1. job' = [job EXCEPT ![j] = nr]
    BY <1>1, <1>4
  <2>2. Moved(r, nr) /\ nr.at = "post" /\ nr.lost = r.lost
    BY <1>1 DEF Moved, JobState
  <2> HIDE DEF nr
  <2> QED BY <1>2, <2>1, <2>2
<1>5. CASE c = NONE /\ job' = [job EXCEPT ![j] = NextPort(r, "challenge")]
  <2>1. Onward(r, NextPort(r, "challenge"), "challenge") /\ NextPort(r, "challenge").lost = r.lost
    BY <1>1, OnwardStep
  <2> QED BY <1>2, <1>5, <2>1
<1>6. CASE job' = [job EXCEPT ![j] = NextPort([r EXCEPT !.clean = FALSE], "challenge")]
  <2>1. /\ unsure \in JobState /\ unsure.port = r.port /\ unsure.tok = r.tok
        /\ unsure.told = r.told /\ unsure.due = r.due /\ unsure.lost = r.lost /\ unsure.clean = FALSE
    BY <1>1 DEF JobState
  <2>2. job' = [job EXCEPT ![j] = NextPort(unsure, "challenge")]
    BY <1>6
  <2> HIDE DEF unsure
  <2>3. /\ Onward(r, NextPort(unsure, "challenge"), "challenge")
        /\ NextPort(unsure, "challenge").lost = r.lost /\ NextPort(unsure, "challenge").clean = FALSE
    BY <1>1, <2>1, OnwardStep
  <2> QED BY <1>2, <2>2, <2>3
<1> QED BY <1>3, <1>4, <1>5, <1>6

\* The file went out on the port of job j and came out of the printer.
Comes(j) == /\ serving[job[j].port] # NONE
            /\ GoodAt(job[j].tok.id, serving[job[j].port])

\* Nothing came out; the job goes on or fails, and not cleanly.
PostFails(j, nr) ==
  /\ printed' = printed /\ ~nr.clean /\ nr.lost = job[j].lost
  /\ Onward(job[j], nr, "challenge") \/ (Moved(job[j], nr) /\ nr.at = "failed")

\* The agent had the file; its answer is heard or lost.
PostReaches(j, nr) ==
  /\ printed' = [printed EXCEPT ![j] = IF Comes(j) THEN @ + 1 ELSE @]
  /\ \/ /\ serving[job[j].port] # job[j].tok.pin
        /\ Onward(job[j], nr, "challenge") /\ nr.lost = job[j].lost
     \/ /\ serving[job[j].port] = job[j].tok.pin /\ Moved(job[j], nr)
        /\ nr.at = IF Comes(j) THEN "printed" ELSE "failed"
     \/ Onward(job[j], nr, "challenge") /\ nr.lost /\ ~nr.clean

LEMMA PostCases ==
  ASSUME TypeOK, NEW j \in Job, Post(j)
  PROVE  /\ job[j].at = "post" /\ UNCHANGED <<day, start, agents, stored, saved>>
         /\ \E nr : /\ job' = [job EXCEPT ![j] = nr]
                    /\ PostFails(j, nr) \/ PostReaches(j, nr)
<1> DEFINE r == job[j]
           c == serving[job[j].port]
           unsure == [r EXCEPT !.clean = FALSE]
           unheard == [r EXCEPT !.clean = FALSE, !.lost = TRUE]
<1>1. r \in JobState /\ job \in [Job -> JobState]
  BY DEF TypeOK
<1>2. r.at = "post" /\ UNCHANGED <<day, start, agents, stored, saved>>
  BY DEF Post
<1>3. /\ unsure \in JobState /\ unsure.port = r.port /\ unsure.tok = r.tok
      /\ unsure.told = r.told /\ unsure.due = r.due /\ unsure.lost = r.lost /\ unsure.clean = FALSE
  BY <1>1 DEF JobState
<1>4. /\ unheard \in JobState /\ unheard.port = r.port /\ unheard.tok = r.tok
      /\ unheard.told = r.told /\ unheard.due = r.due /\ unheard.lost = TRUE /\ unheard.clean = FALSE
  BY <1>1 DEF JobState
<1>5. \/ job' = [job EXCEPT ![j] = NextPort(unsure, "challenge")] /\ printed' = printed
      \/ /\ printed' = [printed EXCEPT ![j] = IF Comes(j) THEN @ + 1 ELSE @]
         /\ job' = [job EXCEPT ![j] = AfterAnswer(r, c, Comes(j))]
      \/ /\ printed' = [printed EXCEPT ![j] = IF Comes(j) THEN @ + 1 ELSE @]
         /\ job' = [job EXCEPT ![j] = NextPort(unheard, "challenge")]
      \/ job' = [job EXCEPT ![j] = AfterAnswer(unsure, c, FALSE)] /\ printed' = printed
  BY Zenon DEF Post, Comes
<1> HIDE DEF unsure, unheard
<1>6. /\ Onward(r, NextPort(unsure, "challenge"), "challenge")
      /\ NextPort(unsure, "challenge").lost = r.lost /\ ~NextPort(unsure, "challenge").clean
  BY <1>1, <1>3, OnwardStep
<1>7. /\ Onward(r, NextPort(unheard, "challenge"), "challenge")
      /\ NextPort(unheard, "challenge").lost /\ ~NextPort(unheard, "challenge").clean
  BY <1>1, <1>4, OnwardStep
<1>8. CASE job' = [job EXCEPT ![j] = NextPort(unsure, "challenge")] /\ printed' = printed
  BY <1>2, <1>6, <1>8 DEF PostFails
<1>9. CASE /\ printed' = [printed EXCEPT ![j] = IF Comes(j) THEN @ + 1 ELSE @]
           /\ job' = [job EXCEPT ![j] = AfterAnswer(r, c, Comes(j))]
  <2>1. CASE c # r.tok.pin
    <3>1. AfterAnswer(r, c, Comes(j)) = NextPort(r, "challenge")
      BY <2>1 DEF AfterAnswer, PinHolds
    <3>2. Onward(r, NextPort(r, "challenge"), "challenge") /\ NextPort(r, "challenge").lost = r.lost
      BY <1>1, OnwardStep
    <3>3. PostReaches(j, NextPort(r, "challenge"))
      BY <1>9, <2>1, <3>2 DEF PostReaches
    <3>4. job' = [job EXCEPT ![j] = NextPort(r, "challenge")]
      BY <1>9, <3>1
    <3> QED BY <1>2, <3>3, <3>4
  <2>2. CASE c = r.tok.pin
    <3> DEFINE nr == [r EXCEPT !.at = IF Comes(j) THEN "printed" ELSE "failed"]
    <3>1. AfterAnswer(r, c, Comes(j)) = nr
      BY <2>2 DEF AfterAnswer, PinHolds
    <3>2. Moved(r, nr) /\ nr.at = IF Comes(j) THEN "printed" ELSE "failed"
      BY <1>1 DEF Moved, JobState
    <3> HIDE DEF nr
    <3>3. PostReaches(j, nr)
      BY <1>9, <2>2, <3>2 DEF PostReaches
    <3>4. job' = [job EXCEPT ![j] = nr]
      BY <1>9, <3>1
    <3> QED BY <1>2, <3>3, <3>4
  <2> QED BY <2>1, <2>2
<1>10. CASE /\ printed' = [printed EXCEPT ![j] = IF Comes(j) THEN @ + 1 ELSE @]
            /\ job' = [job EXCEPT ![j] = NextPort(unheard, "challenge")]
  <2>1. PostReaches(j, NextPort(unheard, "challenge"))
    BY <1>7, <1>10 DEF PostReaches
  <2> QED BY <1>2, <1>10, <2>1
<1>11. CASE job' = [job EXCEPT ![j] = AfterAnswer(unsure, c, FALSE)] /\ printed' = printed
  <2>1. CASE c # r.tok.pin
    <3>1. AfterAnswer(unsure, c, FALSE) = NextPort(unsure, "challenge")
      BY <1>3, <2>1 DEF AfterAnswer, PinHolds
    <3> QED BY <1>2, <1>6, <1>11, <3>1 DEF PostFails
  <2>2. CASE c = r.tok.pin
    <3> DEFINE nr == [unsure EXCEPT !.at = "failed"]
    <3>1. AfterAnswer(unsure, c, FALSE) = nr
      BY <1>3, <2>2 DEF AfterAnswer, PinHolds
    <3>2. Moved(r, nr) /\ nr.at = "failed" /\ nr.lost = r.lost /\ ~nr.clean
      BY <1>1, <1>3 DEF Moved, JobState
    <3> HIDE DEF nr
    <3>3. PostFails(j, nr)
      BY <1>11, <3>2 DEF PostFails
    <3>4. job' = [job EXCEPT ![j] = nr]
      BY <1>11, <3>1
    <3> QED BY <1>2, <3>3, <3>4
  <2> QED BY <2>1, <2>2
<1> QED BY <1>5, <1>8, <1>9, <1>10, <1>11

\* The steps before the loops and after them.
LEMMA EdgeCases ==
  ASSUME TypeOK, NEW j \in Job, Forward(j) \/ Refuse(j)
  PROVE  /\ job[j].at \in {"new", "asked"}
         /\ UNCHANGED <<day, start, agents, stored, saved, printed>>
         /\ \E nr : /\ job' = [job EXCEPT ![j] = nr]
                    /\ Moved(job[j], nr) /\ nr.at \in {"asked", "refused"}
<1> DEFINE r == job[j]
           nr(at) == [r EXCEPT !.at = at]
<1>1. r \in JobState /\ job \in [Job -> JobState]
  BY DEF TypeOK
<1>2. r.at \in {"new", "asked"} /\ UNCHANGED <<day, start, agents, stored, saved, printed>>
  BY DEF Forward, Refuse
<1>3. PICK at \in {"asked", "refused"} : job' = [job EXCEPT ![j].at = at]
  BY DEF Forward, Refuse
<1>4. job' = [job EXCEPT ![j] = nr(at)]
  BY <1>1, <1>3
<1>5. Moved(r, nr(at)) /\ nr(at).at \in {"asked", "refused"}
  BY <1>1, <1>3 DEF Moved, JobState
<1> HIDE DEF nr
<1> QED BY <1>2, <1>4, <1>5

LEMMA EnsureCases ==
  ASSUME TypeOK, NEW j \in Job, EnsurePaired(j)
  PROVE  /\ job[j].at = "asked" /\ UNCHANGED <<day, start, agents, stored, saved, printed>>
         /\ \E nr \in JobState :
              /\ job' = [job EXCEPT ![j] = nr]
              /\ nr.port = job[j].port /\ nr.told = job[j].told /\ nr.lost = job[j].lost
              /\ nr.clean <=> Working
              /\ nr.due <=> (stored = NONE \/ day >= issued[stored.id].until)
              /\ \/ stored # NONE /\ ~IsExpired(stored) /\ nr.at = "challenge" /\ nr.tok = stored
                 \/ (stored = NONE \/ IsExpired(stored)) /\ nr.at = "list" /\ nr.tok = NONE
<1> DEFINE r == job[j]
           kept == stored # NONE /\ ~IsExpired(stored)
           due == stored = NONE \/ day >= issued[stored.id].until
           nr == [r EXCEPT !.at = IF kept THEN "challenge" ELSE "list",
                           !.tok = IF kept THEN stored ELSE NONE,
                           !.clean = Working, !.due = due]
<1>1. r \in JobState /\ job \in [Job -> JobState] /\ stored \in Token \cup {NONE}
  BY DEF TypeOK
<1>2. r.at = "asked" /\ UNCHANGED <<day, start, agents, stored, saved, printed>>
  BY DEF EnsurePaired
<1>3. job' = [job EXCEPT ![j] = nr]
  BY DEF EnsurePaired
<1>4. Working \in BOOLEAN /\ due \in BOOLEAN
  BY DEF Working, GoodAt
<1> HIDE DEF kept, due
<1>5. /\ nr \in JobState /\ nr.port = r.port /\ nr.told = r.told /\ nr.lost = r.lost
      /\ nr.at = (IF kept THEN "challenge" ELSE "list") /\ nr.tok = IF kept THEN stored ELSE NONE
  BY <1>1, <1>4 DEF JobState
<1>6. nr.clean = Working /\ nr.due = due
  BY <1>1 DEF JobState
<1> HIDE DEF nr
<1> QED BY <1>2, <1>3, <1>5, <1>6 DEF kept, due

LEMMA AnswerCase ==
  ASSUME TypeOK, NEW j \in Job, Answer(j)
  PROVE  /\ job[j].at = "printed" /\ UNCHANGED <<day, start, agents, stored, saved, printed>>
         /\ \E nr \in JobState :
              /\ job' = [job EXCEPT ![j] = nr]
              /\ nr.at = "printed" /\ nr.port = job[j].port /\ nr.tok = job[j].tok
              /\ nr.lost = job[j].lost /\ nr.clean = job[j].clean /\ nr.due = job[j].due
<1> DEFINE r == job[j]
           nr(told) == [r EXCEPT !.told = told]
<1>1. r \in JobState /\ job \in [Job -> JobState]
  BY DEF TypeOK
<1>2. r.at = "printed" /\ UNCHANGED <<day, start, agents, stored, saved, printed>>
  BY DEF Answer
<1>3. PICK told \in {"ok", "error"} : job' = [job EXCEPT ![j].told = told]
  BY DEF Answer
<1>4. job' = [job EXCEPT ![j] = nr(told)]
  BY <1>1, <1>3
<1>5. /\ nr(told) \in JobState /\ nr(told).at = "printed" /\ nr(told).port = r.port
      /\ nr(told).tok = r.tok /\ nr(told).lost = r.lost /\ nr(told).clean = r.clean
      /\ nr(told).due = r.due
  BY <1>1, <1>2, <1>3 DEF JobState
<1> HIDE DEF nr
<1> QED BY <1>2, <1>4, <1>5

\* A step of job j leaves the other jobs alone.
LEMMA OneJob ==
  ASSUME TypeOK, NEW j \in Job, NEW nr \in JobState, job' = [job EXCEPT ![j] = nr]
  PROVE  /\ job' \in [Job -> JobState] /\ job'[j] = nr
         /\ \A i \in Job \ {j} : job'[i] = job[i]
BY DEF TypeOK

\* A job that pairs leaves the others alone too, but for their observation.
LEMMA BringsJobs ==
  ASSUME TypeOK, NEW j \in Job, ShareBrings(j)
  PROVE  /\ job' \in [Job -> JobState] /\ Fresh(j) \in Token /\ Fresh(j) # NONE
         /\ job'[j].at = "challenge" /\ job'[j].port = 1 /\ job'[j].tok = Fresh(j)
         /\ job'[j].told = job[j].told /\ job'[j].clean = job[j].clean
         /\ job'[j].lost = job[j].lost /\ job'[j].due = job[j].due
         /\ \A i \in Job \ {j} :
              /\ job'[i].at = job[i].at /\ job'[i].port = job[i].port
              /\ job'[i].pin = job[i].pin /\ job'[i].tok = job[i].tok
              /\ job'[i].told = job[i].told /\ job'[i].lost = job[i].lost
              /\ job'[i].due = job[i].due
              /\ job'[i].clean =>
                   /\ job[i].clean
                   /\ job[i].at \in {"list", "share"} => stored = NONE \/ stored.pin = job[j].pin
<1>1. job \in [Job -> JobState] /\ Fresh(j) \in Token /\ Fresh(j) # NONE
  <2>1. Len(issued) < MaxTokens /\ job[j].pin \in Cert
    BY DEF ShareBrings, Issue
  <2> QED BY <2>1, FreshTyped DEF TypeOK
<1> DEFINE tok == Fresh(j)
<1> HIDE DEF tok
<1>2. job' = [i \in Job |->
       IF i = j THEN [job[j] EXCEPT !.at = "challenge", !.port = 1, !.tok = tok]
       ELSE IF stored # NONE /\ stored.pin # job[j].pin /\ job[i].at \in {"list", "share"}
         THEN [job[i] EXCEPT !.clean = FALSE]
       ELSE job[i]]
  BY DEF ShareBrings, tok
<1>3. /\ job'[j] \in JobState /\ job'[j].at = "challenge" /\ job'[j].port = 1 /\ job'[j].tok = tok
      /\ job'[j].told = job[j].told /\ job'[j].clean = job[j].clean
      /\ job'[j].lost = job[j].lost /\ job'[j].due = job[j].due
  <2>1. job'[j] = [job[j] EXCEPT !.at = "challenge", !.port = 1, !.tok = tok]
    BY <1>2
  <2>2. tok \in Token
    BY <1>1 DEF tok
  <2>3. 1 \in 1..Ports /\ job[j] \in JobState
    BY <1>1, Sizes
  <2>4. job'[j] \in JobState
    BY <2>1, <2>2, <2>3 DEF JobState
  <2>5. /\ job'[j].at = "challenge" /\ job'[j].port = 1 /\ job'[j].tok = tok
        /\ job'[j].told = job[j].told /\ job'[j].lost = job[j].lost
    BY <2>1, <2>3 DEF JobState
  <2>6. job'[j].clean = job[j].clean /\ job'[j].due = job[j].due
    BY <2>1, <2>3 DEF JobState
  <2> QED BY <2>4, <2>5, <2>6
<1>4. ASSUME NEW i \in Job \ {j}
      PROVE  /\ job'[i] \in JobState
             /\ job'[i].at = job[i].at /\ job'[i].port = job[i].port
             /\ job'[i].pin = job[i].pin /\ job'[i].tok = job[i].tok
             /\ job'[i].told = job[i].told /\ job'[i].lost = job[i].lost
             /\ job'[i].due = job[i].due
             /\ job'[i].clean =>
                  /\ job[i].clean
                  /\ job[i].at \in {"list", "share"} => stored = NONE \/ stored.pin = job[j].pin
  <2>1. CASE stored # NONE /\ stored.pin # job[j].pin /\ job[i].at \in {"list", "share"}
    <3>1. job'[i] = [job[i] EXCEPT !.clean = FALSE]
      BY <1>2, <2>1
    <3>2. job[i] \in JobState
      BY <1>1
    <3>3. job'[i] \in JobState
      BY <3>1, <3>2 DEF JobState
    <3>4. /\ job'[i].at = job[i].at /\ job'[i].port = job[i].port
          /\ job'[i].pin = job[i].pin /\ job'[i].tok = job[i].tok
          /\ job'[i].told = job[i].told
      BY <3>1, <3>2 DEF JobState
    <3>5. job'[i].lost = job[i].lost /\ job'[i].due = job[i].due
      BY <3>1, <3>2 DEF JobState
    <3>6. job'[i].clean = FALSE
      BY <3>1, <3>2 DEF JobState
    <3> QED BY <3>3, <3>4, <3>5, <3>6
  <2>2. CASE ~(stored # NONE /\ stored.pin # job[j].pin /\ job[i].at \in {"list", "share"})
    <3>1. job'[i] = job[i]
      BY <1>2, <2>2
    <3> QED BY <1>1, <2>2, <3>1
  <2> QED BY <2>1, <2>2
<1>5. job' \in [Job -> JobState]
  BY <1>2, <1>3, <1>4
<1> QED BY <1>1, <1>3, <1>4, <1>5 DEF tok

\* Restart drops what runs.
LEMMA RestartJobs ==
  ASSUME TypeOK, Restart
  PROVE  /\ job' \in [Job -> JobState]
         /\ \A j \in Job :
              /\ job'[j].tok = job[j].tok /\ job'[j].told = job[j].told
              /\ job'[j].lost = job[j].lost
              /\ \/ job[j].at \in {"list", "share", "challenge", "post"} /\ job'[j].at = "dropped"
                 \/ /\ job[j].at \notin {"list", "share", "challenge", "post"}
                    /\ job'[j] = job[j]
<1>1. job \in [Job -> JobState]
  BY DEF TypeOK
<1>2. ASSUME NEW j \in Job
      PROVE  /\ job'[j] \in JobState
             /\ job'[j].tok = job[j].tok /\ job'[j].told = job[j].told
             /\ job'[j].lost = job[j].lost
             /\ \/ job[j].at \in {"list", "share", "challenge", "post"} /\ job'[j].at = "dropped"
                \/ /\ job[j].at \notin {"list", "share", "challenge", "post"}
                   /\ job'[j] = job[j]
  <2>1. CASE j \in Running
    <3>1. job'[j] = [job[j] EXCEPT !.at = "dropped"]
      BY <2>1 DEF Restart
    <3> QED BY <1>1, <2>1, <3>1 DEF JobState, Running
  <2>2. CASE j \notin Running
    <3>1. job'[j] = job[j]
      BY <2>2 DEF Restart
    <3> QED BY <1>1, <2>2, <3>1 DEF Running
  <2> QED BY <2>1, <2>2
<1>3. job' \in [Job -> JobState]
  BY <1>2 DEF Restart
<1> QED BY <1>2, <1>3

----------------------------------------------------------------------------
(* The inductive invariant *)

\* A token names its installation, and its deadline, read back as a date, is the
\* day on which the agent stops honouring it.
TokenFits(t, iss, s) ==
  t # NONE =>
    /\ t.id \in DOMAIN iss /\ iss[t.id].cert = t.pin
    /\ InRange(t.expires)
    /\ DaysSinceEpoch(t.expires) = DayNumber(s) + iss[t.id].until

TokensInv ==
  /\ TokenFits(stored, issued, start) /\ TokenFits(saved, issued, start)
  /\ \A j \in Job : TokenFits(job[j].tok, issued, start)

\* What came out of the printers, by where the job is.
SheetsFit(r, n) ==
  /\ n \in 0..Ports
  /\ r.at \in {"new", "asked", "list", "share"} => n = 0
  /\ r.at \in {"challenge", "post"} => n < r.port
  /\ ~r.lost => n = IF r.at = "printed" THEN 1 ELSE 0
  /\ r.at = "printed" => n > 0
  /\ r.told = "ok" => r.at = "printed"

SheetsInv == \A j \in Job : SheetsFit(job[j], printed[j])

\* As long as nothing outside went wrong, the port that will serve the job is
\* still ahead of it.
Ahead(r, srv, pin) == \E p \in 1..Ports : p >= r.port /\ srv[p] = pin

CauseFits(r, srv, st, iss, rev, d) ==
  /\ r.at \in {"new", "asked"} => r.port = 1
  /\ r.at \in {"list", "share"} => r.due
  /\ r.at = "failed" => ~r.clean
  /\ r.clean /\ r.at = "list" =>
       IF st = NONE
         THEN /\ \A q \in 1..Ports : q < r.port => srv[q] = NONE
              /\ \E p \in 1..Ports : srv[p] # NONE
         ELSE Ahead(r, srv, st.pin)
  /\ r.clean /\ r.at = "share" =>
       \/ srv[r.port] = r.pin
       \/ st # NONE /\ r.pin = st.pin /\ Ahead(r, srv, r.pin)
  /\ r.clean /\ r.at \in {"challenge", "post"} =>
       /\ d < iss[r.tok.id].until /\ r.tok.id \notin rev
       /\ Ahead(r, srv, r.tok.pin)

CauseInv == \A j \in Job : CauseFits(job[j], serving, stored, issued, revoked, day)

PrintInv == TypeOK /\ TokensInv /\ SheetsInv /\ CauseInv

\* A step of one job that touches nothing but its record keeps the types.
LEMMA TypeOneJob ==
  ASSUME TypeOK, NEW j \in Job, NEW nr \in JobState, job' = [job EXCEPT ![j] = nr],
         nr.at \in {"challenge", "post", "printed"} => nr.tok # NONE,
         UNCHANGED <<day, start, serving, revoked, changes, stored, saved>>,
         UNCHANGED issued \/ \E c \in Cert : Issue(c),
         printed' \in [Job -> 0..Ports]
  PROVE  TypeOK'
<1>1. job' \in [Job -> JobState] /\ job'[j] = nr /\ \A i \in Job \ {j} : job'[i] = job[i]
  BY OneJob
<1>2. \A i \in Job : job'[i].at \in {"challenge", "post", "printed"} => job'[i].tok # NONE
  BY <1>1 DEF TypeOK
<1>3. /\ issued' \in Seq([cert : Cert, until : 0..(MaxDays + ShareDays)])
      /\ Len(issued') <= MaxTokens /\ revoked' \subseteq DOMAIN issued'
  <2>1. CASE UNCHANGED issued
    BY <2>1 DEF TypeOK
  <2>2. CASE \E c \in Cert : Issue(c)
    BY <2>2, IssueAppends DEF TypeOK
  <2> QED BY <2>1, <2>2
<1> QED BY <1>1, <1>2, <1>3 DEF TypeOK

LEMMA TypeStep ==
  ASSUME TypeOK, SheetsInv, [Next]_vars
  PROVE  TypeOK'
<1> USE DEF agents
<1>0. printed \in [Job -> 0..Ports] /\ job \in [Job -> JobState]
  BY DEF TypeOK
<1>1. ASSUME NEW j \in Job, Forward(j) \/ Refuse(j) PROVE TypeOK'
  <2>1. PICK nr : /\ job' = [job EXCEPT ![j] = nr]
                  /\ Moved(job[j], nr) /\ nr.at \in {"asked", "refused"}
    BY <1>1, EdgeCases
  <2>2. UNCHANGED <<day, start, agents, stored, saved, printed>> /\ nr \in JobState
    BY <1>1, <2>1, EdgeCases DEF Moved
  <2> QED BY <1>0, <2>1, <2>2, TypeOneJob
<1>2. ASSUME NEW j \in Job, EnsurePaired(j) PROVE TypeOK'
  <2>1. PICK nr \in JobState :
          /\ job' = [job EXCEPT ![j] = nr]
          /\ \/ stored # NONE /\ nr.at = "challenge" /\ nr.tok = stored
             \/ nr.at = "list"
    BY <1>2, EnsureCases
  <2>2. UNCHANGED <<day, start, agents, stored, saved, printed>>
    BY <1>2, EnsureCases
  <2> QED BY <1>0, <2>1, <2>2, TypeOneJob
<1>3. ASSUME NEW j \in Job, ListPrinters(j) PROVE TypeOK'
  <2>1. PICK nr : /\ job' = [job EXCEPT ![j] = nr]
                  /\ \/ Moved(job[j], nr) /\ nr.at = "share"
                     \/ Onward(job[j], nr, "list")
    BY <1>3, ListCases
  <2>2. UNCHANGED <<day, start, agents, stored, saved, printed>>
    BY <1>3, ListCases
  <2>3. nr \in JobState /\ nr.at \in {"share", "list", "failed"}
    BY <2>1 DEF Moved, Onward
  <2> QED BY <1>0, <2>1, <2>2, <2>3, TypeOneJob
<1>4. ASSUME NEW j \in Job, RequestShare(j) PROVE TypeOK'
  <2>1. UNCHANGED <<day, start, serving, revoked, changes, printed>>
    BY <1>4, ShareCases
  <2>2. CASE ShareGoesOn(j)
    <3>1. PICK nr : job' = [job EXCEPT ![j] = nr] /\ NoShare(j, nr)
      BY <2>2, GoesOnCase
    <3>2. nr \in JobState /\ nr.at \in {"list", "failed"}
      BY <3>1 DEF NoShare, Onward
    <3>3. UNCHANGED <<stored, saved>> /\ (UNCHANGED issued \/ \E c \in Cert : Issue(c))
      BY <2>2 DEF ShareGoesOn
    <3> QED BY <1>0, <2>1, <3>1, <3>2, <3>3, TypeOneJob
  <2>3. CASE ShareBrings(j)
    <3>1. /\ job' \in [Job -> JobState] /\ Fresh(j) \in Token /\ Fresh(j) # NONE
          /\ job'[j].tok = Fresh(j)
          /\ \A i \in Job \ {j} : job'[i].at = job[i].at /\ job'[i].tok = job[i].tok
      BY <2>3, BringsJobs
    <3>2. \A i \in Job : job'[i].at \in {"challenge", "post", "printed"} => job'[i].tok # NONE
      BY <3>1 DEF TypeOK
    <3>3. /\ issued' \in Seq([cert : Cert, until : 0..(MaxDays + ShareDays)])
          /\ Len(issued') <= MaxTokens /\ DOMAIN issued \subseteq DOMAIN issued'
      BY <2>3, IssueAppends DEF ShareBrings
    <3>4. stored' \in Token \cup {NONE} /\ saved' \in Token \cup {NONE}
      BY <2>3, <3>1 DEF ShareBrings, TypeOK
    <3> QED BY <2>1, <3>1, <3>2, <3>3, <3>4 DEF TypeOK
  <2> QED BY <1>4, <2>2, <2>3, ShareCases
<1>5. ASSUME NEW j \in Job, Challenge(j) PROVE TypeOK'
  <2>1. PICK nr : /\ job' = [job EXCEPT ![j] = nr]
                  /\ Moved(job[j], nr) \/ Onward(job[j], nr, "challenge")
    BY <1>5, ChallengeCases
  <2>2. job[j].at = "challenge" /\ UNCHANGED <<day, start, agents, stored, saved, printed>>
    BY <1>5, ChallengeCases
  <2>3. nr \in JobState /\ nr.tok = job[j].tok /\ nr.tok # NONE
    BY <2>1, <2>2 DEF Moved, Onward, TypeOK
  <2> QED BY <1>0, <2>1, <2>2, <2>3, TypeOneJob
<1>6. ASSUME NEW j \in Job, Post(j) PROVE TypeOK'
  <2>1. PICK nr : job' = [job EXCEPT ![j] = nr] /\ (PostFails(j, nr) \/ PostReaches(j, nr))
    BY <1>6, PostCases
  <2>2. job[j].at = "post" /\ UNCHANGED <<day, start, agents, stored, saved>>
    BY <1>6, PostCases
  <2>3. nr \in JobState /\ nr.tok = job[j].tok /\ nr.tok # NONE
    BY <2>1, <2>2 DEF PostFails, PostReaches, Moved, Onward, TypeOK
  <2>4. printed[j] + 1 \in 0..Ports
    <3>1. job[j].port \in 1..Ports /\ printed[j] < job[j].port /\ printed[j] \in 0..Ports
      BY <1>0, <2>2 DEF SheetsInv, SheetsFit, JobState
    <3> QED BY <3>1, Sizes
  <2>5. printed' \in [Job -> 0..Ports]
    <3>1. \/ printed' = printed
          \/ printed' = [printed EXCEPT ![j] = printed[j] + 1]
      BY <1>0, <2>1 DEF PostFails, PostReaches
    <3> QED BY <1>0, <2>4, <3>1
  <2> QED BY <2>1, <2>2, <2>3, <2>5, TypeOneJob
<1>7. ASSUME NEW j \in Job, Answer(j) PROVE TypeOK'
  <2>1. PICK nr \in JobState : job' = [job EXCEPT ![j] = nr] /\ nr.tok = job[j].tok
    BY <1>7, AnswerCase
  <2>2. job[j].at = "printed" /\ UNCHANGED <<day, start, agents, stored, saved, printed>>
    BY <1>7, AnswerCase
  <2>3. nr.tok # NONE
    BY <2>1, <2>2 DEF TypeOK
  <2> QED BY <1>0, <2>1, <2>2, <2>3, TypeOneJob
<1>8. ASSUME NEW p \in 1..Ports, NEW c \in Cert \cup {NONE}, AgentChange(p, c) PROVE TypeOK'
  <2>1. /\ job' \in [Job -> JobState]
        /\ \A j \in Job : job'[j].at = job[j].at /\ job'[j].tok = job[j].tok
    BY <1>8, DisturbedTyped DEF AgentChange
  <2>2. changes' \in 0..MaxChanges
    BY <1>8, Sizes DEF AgentChange, TypeOK
  <2>3. serving' \in [1..Ports -> Cert \cup {NONE}]
    BY <1>8 DEF AgentChange, TypeOK
  <2>4. UNCHANGED <<day, start, issued, revoked, stored, saved, printed>>
    BY <1>8 DEF AgentChange
  <2> QED BY <2>1, <2>2, <2>3, <2>4 DEF TypeOK
<1>9. ASSUME NEW id \in DOMAIN issued, Revoke(id) PROVE TypeOK'
  <2>1. /\ job' \in [Job -> JobState]
        /\ \A j \in Job : job'[j].at = job[j].at /\ job'[j].tok = job[j].tok
    BY <1>9, DisturbedTyped DEF Revoke
  <2>2. changes' \in 0..MaxChanges
    BY <1>9, Sizes DEF Revoke, TypeOK
  <2>3. revoked' \subseteq DOMAIN issued
    BY <1>9 DEF Revoke, TypeOK
  <2>4. UNCHANGED <<day, start, serving, issued, stored, saved, printed>>
    BY <1>9 DEF Revoke
  <2> QED BY <2>1, <2>2, <2>3, <2>4 DEF TypeOK
<1>10. CASE NextDay
  <2>1. /\ job' \in [Job -> JobState]
        /\ \A j \in Job : job'[j].at = job[j].at /\ job'[j].tok = job[j].tok
    BY <1>10, DisturbedTyped DEF NextDay
  <2>2. day' \in 0..MaxDays
    BY <1>10, Sizes DEF NextDay, TypeOK
  <2>3. UNCHANGED <<start, agents, stored, saved, printed>>
    BY <1>10 DEF NextDay
  <2> QED BY <2>1, <2>2, <2>3 DEF TypeOK
<1>11. CASE Restart
  <2>1. /\ job' \in [Job -> JobState]
        /\ \A j \in Job : /\ job'[j].tok = job[j].tok
                          /\ job'[j].at = job[j].at \/ job'[j].at = "dropped"
    BY <1>11, RestartJobs
  <2>2. stored' = saved /\ UNCHANGED <<day, start, agents, saved, printed>>
    BY <1>11 DEF Restart
  <2> QED BY <2>1, <2>2 DEF TypeOK
<1>12. CASE UNCHANGED vars
  BY <1>12 DEF vars, TypeOK
<1> QED BY <1>1, <1>2, <1>3, <1>4, <1>5, <1>6, <1>7, <1>8, <1>9, <1>10, <1>11, <1>12 DEF Next

----------------------------------------------------------------------------
(* Tokens *)

\* A token goes on fitting when the agents hand out another one.
LEMMA TokenStillFits ==
  ASSUME TypeOK, NEW t, TokenFits(t, issued, start),
         UNCHANGED issued \/ \E c \in Cert : Issue(c)
  PROVE  TokenFits(t, issued', start)
<1>1. CASE UNCHANGED issued
  BY <1>1
<1>2. CASE \E c \in Cert : Issue(c)
  <2>1. DOMAIN issued \subseteq DOMAIN issued' /\ \A i \in DOMAIN issued : issued'[i] = issued[i]
    BY <1>2, IssueAppends
  <2> QED BY <2>1 DEF TokenFits
<1> QED BY <1>1, <1>2

\* A new token fits: its date is ShareDays after today's, and the code counts
\* the days in between.
LEMMA FreshFits ==
  ASSUME TypeOK, NEW j \in Job, job[j].pin \in Cert, Issue(job[j].pin)
  PROVE  TokenFits(Fresh(j), issued', start)
<1>1. start \in Start /\ day \in Nat /\ day + ShareDays \in Nat
  BY Sizes DEF TypeOK
<1>2. ValidDate(start) /\ DayNumber(start) + MaxDays + ShareDays <= DayNumber(<<2100, 12, 31>>)
  BY <1>1, PrintAssumption DEF PrintAssumption
<1> DEFINE e == DateAfter(start, day + ShareDays)
<1>3. DaysSinceEpoch(start) = DayNumber(start) /\ DayNumber(start) \in Int
  <2>1. DaysSinceEpoch(start) = DayNumber(start)
    BY <1>2, DayNumberAgrees
  <2>2. PICK y \in Nat, m \in 1..12, c \in 1..31 : start = <<y, m, c>>
    BY <1>2 DEF ValidDate
  <2>3. DaysSinceEpoch(start) \in Int
    BY <2>2 DEF DaysSinceEpoch
  <2> QED BY <2>1, <2>3
<1>4. ValidDate(e) /\ DaysSinceEpoch(e) = DayNumber(start) + (day + ShareDays)
  BY <1>1, <1>2, <1>3, DateAfterCounts
<1> HIDE DEF e
<1>5. DaysSinceEpoch(e) <= DayNumber(<<2100, 12, 31>>)
  <2>1. DayNumber(<<2100, 12, 31>>) \in Int
    BY DEF DayNumber, LeapsBefore, DaysBefore
  <2>2. day <= MaxDays
    BY Sizes DEF TypeOK
  <2> QED BY <1>1, <1>2, <1>3, <1>4, <2>1, <2>2, Sizes
<1>6. InRange(e)
  BY <1>4, <1>5, CountedInRange
<1>7. Fresh(j).id = Len(issued) + 1 /\ Fresh(j).pin = job[j].pin /\ Fresh(j).expires = e
  BY DeadlineNamed DEF Fresh, e
<1>8. /\ Len(issued) + 1 \in DOMAIN issued'
      /\ issued'[Len(issued) + 1].cert = job[j].pin
      /\ issued'[Len(issued) + 1].until = day + ShareDays
  BY IssueAppends
<1> QED BY <1>4, <1>6, <1>7, <1>8 DEF TokenFits

LEMMA TokensOneJob ==
  ASSUME TypeOK, TokensInv, NEW j \in Job, NEW nr \in JobState, job' = [job EXCEPT ![j] = nr],
         nr.tok \in {job[j].tok, stored, NONE}, UNCHANGED <<start, stored, saved>>,
         UNCHANGED issued \/ \E c \in Cert : Issue(c)
  PROVE  TokensInv'
<1>1. job'[j] = nr /\ \A i \in Job \ {j} : job'[i] = job[i]
  BY OneJob
<1>2. TokenFits(NONE, issued, start)
  BY DEF TokenFits
<1>3. \A i \in Job : TokenFits(job'[i].tok, issued, start)
  <2> TAKE i \in Job
  <2>1. CASE i = j
    <3>1. job'[i].tok \in {job[j].tok, stored, NONE}
      BY <1>1, <2>1
    <3>2. /\ TokenFits(job[j].tok, issued, start) /\ TokenFits(stored, issued, start)
      BY DEF TokensInv
    <3> QED BY <1>2, <3>1, <3>2
  <2>2. CASE i # j
    BY <1>1, <2>2 DEF TokensInv
  <2> QED BY <2>1, <2>2
<1>4. \A i \in Job : TokenFits(job'[i].tok, issued', start)
  BY <1>3, TokenStillFits
<1>5. TokenFits(stored, issued', start) /\ TokenFits(saved, issued', start)
  BY TokenStillFits DEF TokensInv
<1> QED BY <1>4, <1>5 DEF TokensInv

LEMMA TokensStep ==
  ASSUME TypeOK, TokensInv, [Next]_vars
  PROVE  TokensInv'
<1> USE DEF agents
<1>1. ASSUME NEW j \in Job, Forward(j) \/ Refuse(j) PROVE TokensInv'
  <2>1. PICK nr : /\ job' = [job EXCEPT ![j] = nr]
                  /\ Moved(job[j], nr) /\ nr.at \in {"asked", "refused"}
    BY <1>1, EdgeCases
  <2>2. UNCHANGED <<start, issued, stored, saved>> /\ nr \in JobState /\ nr.tok = job[j].tok
    BY <1>1, <2>1, EdgeCases DEF Moved
  <2> QED BY <2>1, <2>2, TokensOneJob
<1>2. ASSUME NEW j \in Job, EnsurePaired(j) PROVE TokensInv'
  <2>1. PICK nr \in JobState : job' = [job EXCEPT ![j] = nr] /\ nr.tok \in {stored, NONE}
    BY <1>2, EnsureCases
  <2>2. UNCHANGED <<start, issued, stored, saved>>
    BY <1>2, EnsureCases
  <2> QED BY <2>1, <2>2, TokensOneJob
<1>3. ASSUME NEW j \in Job, ListPrinters(j) PROVE TokensInv'
  <2>1. PICK nr : /\ job' = [job EXCEPT ![j] = nr]
                  /\ \/ Moved(job[j], nr) /\ nr.at = "share"
                     \/ Onward(job[j], nr, "list")
    BY <1>3, ListCases
  <2>2. UNCHANGED <<start, issued, stored, saved>>
    BY <1>3, ListCases
  <2>3. nr \in JobState /\ nr.tok = job[j].tok
    BY <2>1 DEF Moved, Onward
  <2> QED BY <2>1, <2>2, <2>3, TokensOneJob
<1>4. ASSUME NEW j \in Job, RequestShare(j) PROVE TokensInv'
  <2>1. start' = start
    BY <1>4, ShareCases
  <2>2. CASE ShareGoesOn(j)
    <3>1. PICK nr : job' = [job EXCEPT ![j] = nr] /\ NoShare(j, nr)
      BY <2>2, GoesOnCase
    <3>2. nr \in JobState /\ nr.tok = job[j].tok
      BY <3>1 DEF NoShare, Onward
    <3>3. UNCHANGED <<stored, saved>> /\ (UNCHANGED issued \/ \E c \in Cert : Issue(c))
      BY <2>2 DEF ShareGoesOn
    <3> QED BY <2>1, <3>1, <3>2, <3>3, TokensOneJob
  <2>3. CASE ShareBrings(j)
    <3>1. job[j].pin \in Cert /\ Issue(job[j].pin)
      BY <2>3 DEF ShareBrings
    <3>2. TokenFits(Fresh(j), issued', start)
      BY <3>1, FreshFits
    <3>3. \A t : TokenFits(t, issued, start) => TokenFits(t, issued', start)
      BY <3>1, TokenStillFits
    <3>4. job'[j].tok = Fresh(j) /\ \A i \in Job \ {j} : job'[i].tok = job[i].tok
      BY <2>3, BringsJobs
    <3>5. \A i \in Job : TokenFits(job'[i].tok, issued', start)
      BY <3>2, <3>3, <3>4 DEF TokensInv
    <3>6. TokenFits(stored', issued', start)
      BY <2>3, <3>2 DEF ShareBrings
    <3>7. TokenFits(saved', issued', start)
      <4>1. CASE saved' = Fresh(j)
        BY <3>2, <4>1
      <4>2. CASE saved' = saved
        BY <3>3, <4>2 DEF TokensInv
      <4> QED BY <2>3, <4>1, <4>2 DEF ShareBrings
    <3> QED BY <2>1, <3>5, <3>6, <3>7 DEF TokensInv
  <2> QED BY <1>4, <2>2, <2>3, ShareCases
<1>5. ASSUME NEW j \in Job, Challenge(j) PROVE TokensInv'
  <2>1. PICK nr : /\ job' = [job EXCEPT ![j] = nr]
                  /\ Moved(job[j], nr) \/ Onward(job[j], nr, "challenge")
    BY <1>5, ChallengeCases
  <2>2. UNCHANGED <<start, issued, stored, saved>>
    BY <1>5, ChallengeCases
  <2>3. nr \in JobState /\ nr.tok = job[j].tok
    BY <2>1 DEF Moved, Onward
  <2> QED BY <2>1, <2>2, <2>3, TokensOneJob
<1>6. ASSUME NEW j \in Job, Post(j) PROVE TokensInv'
  <2>1. PICK nr : job' = [job EXCEPT ![j] = nr] /\ (PostFails(j, nr) \/ PostReaches(j, nr))
    BY <1>6, PostCases
  <2>2. UNCHANGED <<start, issued, stored, saved>>
    BY <1>6, PostCases
  <2>3. nr \in JobState /\ nr.tok = job[j].tok
    BY <2>1 DEF PostFails, PostReaches, Moved, Onward
  <2> QED BY <2>1, <2>2, <2>3, TokensOneJob
<1>7. ASSUME NEW j \in Job, Answer(j) PROVE TokensInv'
  <2>1. PICK nr \in JobState : job' = [job EXCEPT ![j] = nr] /\ nr.tok = job[j].tok
    BY <1>7, AnswerCase
  <2>2. UNCHANGED <<start, issued, stored, saved>>
    BY <1>7, AnswerCase
  <2> QED BY <2>1, <2>2, TokensOneJob
<1>8. ASSUME UNCHANGED <<start, issued, stored, saved>>, NEW J, Disturbed(J) PROVE TokensInv'
  <2>1. \A j \in Job : job'[j].tok = job[j].tok
    BY <1>8, DisturbedTyped
  <2> QED BY <1>8, <2>1 DEF TokensInv
<1>9. ASSUME NEW p \in 1..Ports, NEW c \in Cert \cup {NONE}, AgentChange(p, c) PROVE TokensInv'
  BY <1>8, <1>9 DEF AgentChange
<1>10. ASSUME NEW id \in DOMAIN issued, Revoke(id) PROVE TokensInv'
  BY <1>8, <1>10 DEF Revoke
<1>11. CASE NextDay
  BY <1>8, <1>11 DEF NextDay
<1>12. CASE Restart
  <2>1. \A j \in Job : job'[j].tok = job[j].tok
    BY <1>12, RestartJobs
  <2>2. stored' = saved /\ UNCHANGED <<start, issued, saved>>
    BY <1>12 DEF Restart
  <2> QED BY <2>1, <2>2 DEF TokensInv
<1>13. CASE UNCHANGED vars
  BY <1>13 DEF vars, TokensInv
<1> QED BY <1>1, <1>2, <1>3, <1>4, <1>5, <1>6, <1>7, <1>9, <1>10, <1>11, <1>12, <1>13 DEF Next

----------------------------------------------------------------------------
(* Sheets *)

LEMMA SheetsOneJob ==
  ASSUME TypeOK, SheetsInv, NEW j \in Job, NEW nr \in JobState, job' = [job EXCEPT ![j] = nr],
         NEW n, printed' = [printed EXCEPT ![j] = n], SheetsFit(nr, n)
  PROVE  SheetsInv'
<1>1. job'[j] = nr /\ \A i \in Job \ {j} : job'[i] = job[i]
  BY OneJob
<1>2. printed'[j] = n /\ \A i \in Job \ {j} : printed'[i] = printed[i]
  BY DEF TypeOK
<1>3. \A i \in Job : SheetsFit(job'[i], printed'[i])
  BY <1>1, <1>2 DEF SheetsInv
<1> QED BY <1>3 DEF SheetsInv

LEMMA SheetsStep ==
  ASSUME TypeOK, TokensInv, SheetsInv, [Next]_vars
  PROVE  SheetsInv'
<1>0. /\ printed \in [Job -> 0..Ports]
      /\ \A j \in Job : /\ job[j] \in JobState /\ SheetsFit(job[j], printed[j])
                        /\ printed = [printed EXCEPT ![j] = printed[j]]
                        /\ job[j].port \in 1..Ports /\ printed[j] \in 0..Ports
  BY DEF TypeOK, SheetsInv, JobState
<1>1. ASSUME NEW j \in Job, Forward(j) \/ Refuse(j) PROVE SheetsInv'
  <2>1. PICK nr : /\ job' = [job EXCEPT ![j] = nr]
                  /\ Moved(job[j], nr) /\ nr.at \in {"asked", "refused"}
    BY <1>1, EdgeCases
  <2>2. job[j].at \in {"new", "asked"} /\ printed' = printed
    BY <1>1, EdgeCases
  <2>3. SheetsFit(nr, printed[j])
    BY <1>0, <2>1, <2>2 DEF SheetsFit, Moved
  <2> QED BY <1>0, <2>1, <2>2, <2>3, SheetsOneJob DEF Moved
<1>2. ASSUME NEW j \in Job, EnsurePaired(j) PROVE SheetsInv'
  <2>1. PICK nr \in JobState :
          /\ job' = [job EXCEPT ![j] = nr]
          /\ nr.port = job[j].port /\ nr.told = job[j].told /\ nr.lost = job[j].lost
          /\ nr.at \in {"challenge", "list"}
    BY <1>2, EnsureCases
  <2>2. job[j].at = "asked" /\ printed' = printed
    BY <1>2, EnsureCases
  <2>3. SheetsFit(nr, printed[j])
    BY <1>0, <2>1, <2>2 DEF SheetsFit
  <2> QED BY <1>0, <2>1, <2>2, <2>3, SheetsOneJob
<1>3. ASSUME NEW j \in Job, ListPrinters(j) PROVE SheetsInv'
  <2>1. PICK nr : /\ job' = [job EXCEPT ![j] = nr] /\ nr.lost = job[j].lost
                  /\ \/ Moved(job[j], nr) /\ nr.at = "share"
                     \/ Onward(job[j], nr, "list")
    BY <1>3, ListCases
  <2>2. job[j].at = "list" /\ printed' = printed
    BY <1>3, ListCases
  <2>3. nr \in JobState /\ nr.told = job[j].told /\ nr.at \in {"share", "list", "failed"}
    BY <2>1 DEF Moved, Onward
  <2>4. SheetsFit(nr, printed[j])
    BY <1>0, <2>1, <2>2, <2>3 DEF SheetsFit
  <2> QED BY <1>0, <2>1, <2>2, <2>3, <2>4, SheetsOneJob
<1>4. ASSUME NEW j \in Job, RequestShare(j) PROVE SheetsInv'
  <2>1. job[j].at = "share" /\ printed' = printed
    BY <1>4, ShareCases
  <2>2. CASE ShareGoesOn(j)
    <3>1. PICK nr : job' = [job EXCEPT ![j] = nr] /\ NoShare(j, nr)
      BY <2>2, GoesOnCase
    <3>2. /\ nr \in JobState /\ nr.at \in {"list", "failed"}
          /\ nr.lost = job[j].lost /\ nr.told = job[j].told
      BY <3>1 DEF NoShare, Onward
    <3>3. SheetsFit(nr, printed[j])
      BY <1>0, <2>1, <3>2 DEF SheetsFit
    <3> QED BY <1>0, <2>1, <3>1, <3>2, <3>3, SheetsOneJob
  <2>3. CASE ShareBrings(j)
    <3>1. /\ job'[j].at = "challenge" /\ job'[j].port = 1
          /\ job'[j].told = job[j].told /\ job'[j].lost = job[j].lost
          /\ \A i \in Job \ {j} :
               /\ job'[i].at = job[i].at /\ job'[i].port = job[i].port
               /\ job'[i].told = job[i].told /\ job'[i].lost = job[i].lost
      BY <2>3, BringsJobs
    <3>2. SheetsFit(job'[j], printed[j])
      BY <1>0, <2>1, <3>1 DEF SheetsFit
    <3>3. \A i \in Job \ {j} : SheetsFit(job'[i], printed[i])
      BY <1>0, <3>1 DEF SheetsFit
    <3>4. \A i \in Job : SheetsFit(job'[i], printed'[i])
      BY <2>1, <3>2, <3>3
    <3> QED BY <3>4 DEF SheetsInv
  <2> QED BY <1>4, <2>2, <2>3, ShareCases
<1>5. ASSUME NEW j \in Job, Challenge(j) PROVE SheetsInv'
  <2>1. PICK nr : /\ job' = [job EXCEPT ![j] = nr] /\ nr.lost = job[j].lost
                  /\ \/ Moved(job[j], nr) /\ nr.at = "post"
                     \/ Onward(job[j], nr, "challenge")
    BY <1>5, ChallengeCases
  <2>2. job[j].at = "challenge" /\ printed' = printed
    BY <1>5, ChallengeCases
  <2>3. SheetsFit(nr, printed[j])
    BY <1>0, <2>1, <2>2, Sizes DEF SheetsFit, Moved, Onward
  <2> QED BY <1>0, <2>1, <2>2, <2>3, SheetsOneJob DEF Moved, Onward
<1>6. ASSUME NEW j \in Job, Post(j) PROVE SheetsInv'
  <2>1. PICK nr : job' = [job EXCEPT ![j] = nr] /\ (PostFails(j, nr) \/ PostReaches(j, nr))
    BY <1>6, PostCases
  <2>2. job[j].at = "post"
    BY <1>6, PostCases
  <2>3. nr \in JobState
    BY <2>1 DEF PostFails, PostReaches, Moved, Onward
  <2>4. /\ printed[j] < job[j].port /\ (~job[j].lost => printed[j] = 0) /\ job[j].told # "ok"
        /\ printed[j] \in Nat /\ job[j].port \in 1..Ports /\ Ports \in Nat
    BY <1>0, <2>2, Sizes DEF SheetsFit
  <2>5. CASE PostFails(j, nr)
    <3>1. SheetsFit(nr, printed[j])
      BY <1>0, <2>4, <2>5 DEF SheetsFit, PostFails, Moved, Onward
    <3>2. printed' = printed
      BY <2>5 DEF PostFails
    <3> QED BY <1>0, <2>1, <2>3, <3>1, <3>2, SheetsOneJob
  <2>6. CASE PostReaches(j, nr)
    <3> DEFINE n == IF Comes(j) THEN printed[j] + 1 ELSE printed[j]
    <3>1. printed' = [printed EXCEPT ![j] = n]
      BY <2>6 DEF PostReaches
    <3>2. n \in Nat /\ n <= printed[j] + 1 /\ printed[j] <= n
      BY <2>4
    <3>3. CASE /\ serving[job[j].port] # job[j].tok.pin
               /\ Onward(job[j], nr, "challenge") /\ nr.lost = job[j].lost
      <4>1. ~Comes(j)
        <5>1. job[j].tok # NONE
          BY <2>2 DEF TypeOK
        <5>2. issued[job[j].tok.id].cert = job[j].tok.pin
          BY <5>1 DEF TokensInv, TokenFits
        <5> QED BY <3>3, <5>2 DEF Comes, GoodAt
      <4>2. n = printed[j]
        BY <4>1
      <4> HIDE DEF n
      <4>3. SheetsFit(nr, n)
        BY <2>4, <3>3, <4>2 DEF SheetsFit, Onward
      <4> QED BY <2>1, <2>3, <3>1, <4>3, SheetsOneJob
    <3>4. CASE /\ serving[job[j].port] = job[j].tok.pin /\ Moved(job[j], nr)
               /\ nr.at = IF Comes(j) THEN "printed" ELSE "failed"
      <4>1. SheetsFit(nr, n)
        <5>1. CASE Comes(j)
          BY <2>4, <3>4, <5>1 DEF SheetsFit, Moved
        <5>2. CASE ~Comes(j)
          BY <2>4, <3>4, <5>2 DEF SheetsFit, Moved
        <5> QED BY <5>1, <5>2
      <4> HIDE DEF n
      <4> QED BY <2>1, <2>3, <3>1, <4>1, SheetsOneJob
    <3>5. CASE Onward(job[j], nr, "challenge") /\ nr.lost /\ ~nr.clean
      <4> HIDE DEF n
      <4>1. SheetsFit(nr, n)
        BY <2>4, <3>2, <3>5 DEF SheetsFit, Onward
      <4> QED BY <2>1, <2>3, <3>1, <4>1, SheetsOneJob
    <3> QED BY <2>6, <3>3, <3>4, <3>5 DEF PostReaches
  <2> QED BY <2>1, <2>5, <2>6
<1>7. ASSUME NEW j \in Job, Answer(j) PROVE SheetsInv'
  <2>1. PICK nr \in JobState : /\ job' = [job EXCEPT ![j] = nr] /\ nr.at = "printed"
                               /\ nr.port = job[j].port /\ nr.lost = job[j].lost
    BY <1>7, AnswerCase
  <2>2. job[j].at = "printed" /\ printed' = printed
    BY <1>7, AnswerCase
  <2>3. SheetsFit(nr, printed[j])
    BY <1>0, <2>1, <2>2 DEF SheetsFit
  <2> QED BY <1>0, <2>1, <2>2, <2>3, SheetsOneJob
<1>8. ASSUME printed' = printed, NEW J, Disturbed(J) PROVE SheetsInv'
  <2>1. \A j \in Job : /\ job'[j].at = job[j].at /\ job'[j].port = job[j].port
                       /\ job'[j].told = job[j].told /\ job'[j].lost = job[j].lost
    BY <1>8, DisturbedTyped
  <2>2. \A j \in Job : SheetsFit(job'[j], printed'[j])
    BY <1>0, <1>8, <2>1 DEF SheetsFit
  <2> QED BY <2>2 DEF SheetsInv
<1>9. ASSUME NEW p \in 1..Ports, NEW c \in Cert \cup {NONE}, AgentChange(p, c) PROVE SheetsInv'
  BY <1>8, <1>9 DEF AgentChange
<1>10. ASSUME NEW id \in DOMAIN issued, Revoke(id) PROVE SheetsInv'
  BY <1>8, <1>10 DEF Revoke
<1>11. CASE NextDay
  BY <1>8, <1>11 DEF NextDay
<1>12. CASE Restart
  <2>1. \A j \in Job :
          /\ job'[j].told = job[j].told /\ job'[j].lost = job[j].lost
          /\ \/ job[j].at \in {"list", "share", "challenge", "post"} /\ job'[j].at = "dropped"
             \/ job'[j] = job[j]
    BY <1>12, RestartJobs
  <2>2. printed' = printed
    BY <1>12 DEF Restart
  <2>3. ASSUME NEW j \in Job PROVE SheetsFit(job'[j], printed'[j])
    <3>1. CASE job'[j] = job[j]
      BY <1>0, <2>2, <3>1
    <3>2. CASE job[j].at \in {"list", "share", "challenge", "post"} /\ job'[j].at = "dropped"
      BY <1>0, <2>1, <2>2, <3>2 DEF SheetsFit
    <3> QED BY <2>1, <3>1, <3>2
  <2> QED BY <2>3 DEF SheetsInv
<1>13. CASE UNCHANGED vars
  BY <1>13 DEF vars, SheetsInv
<1> QED BY <1>1, <1>2, <1>3, <1>4, <1>5, <1>6, <1>7, <1>9, <1>10, <1>11, <1>12, <1>13 DEF Next

----------------------------------------------------------------------------
(* Causes *)

LEMMA CauseStillFits ==
  ASSUME TypeOK, TokensInv, CauseInv, NEW i \in Job,
         UNCHANGED issued \/ \E c \in Cert : Issue(c)
  PROVE  CauseFits(job[i], serving, stored, issued', revoked, day)
<1>1. CauseFits(job[i], serving, stored, issued, revoked, day)
  BY DEF CauseInv
<1>2. job[i].at \in {"challenge", "post"} => issued'[job[i].tok.id] = issued[job[i].tok.id]
  <2>1. CASE UNCHANGED issued
    BY <2>1
  <2>2. CASE \E c \in Cert : Issue(c)
    <3>1. \A k \in DOMAIN issued : issued'[k] = issued[k]
      BY <2>2, IssueAppends
    <3>2. job[i].at \in {"challenge", "post"} => job[i].tok.id \in DOMAIN issued
      BY DEF TypeOK, TokensInv, TokenFits
    <3> QED BY <3>1, <3>2
  <2> QED BY <2>1, <2>2
<1> QED BY <1>1, <1>2 DEF CauseFits

LEMMA CauseOneJob ==
  ASSUME TypeOK, TokensInv, CauseInv,
         NEW j \in Job, NEW nr \in JobState, job' = [job EXCEPT ![j] = nr],
         UNCHANGED <<day, serving, stored, revoked>>,
         UNCHANGED issued \/ \E c \in Cert : Issue(c),
         CauseFits(nr, serving, stored, issued', revoked, day)
  PROVE  CauseInv'
<1>1. job'[j] = nr /\ \A i \in Job \ {j} : job'[i] = job[i]
  BY OneJob
<1>2. \A i \in Job : CauseFits(job[i], serving, stored, issued', revoked, day)
  BY CauseStillFits
<1>3. \A i \in Job : CauseFits(job'[i], serving, stored, issued', revoked, day)
  BY <1>1, <1>2
<1> QED BY <1>3 DEF CauseInv

LEMMA UntilTyped ==
  ASSUME TypeOK, NEW i \in DOMAIN issued
  PROVE  issued[i].until \in Nat /\ day \in Nat
<1> DEFINE E == [cert : Cert, until : 0..(MaxDays + ShareDays)]
<1>1. issued \in Seq(E) /\ day \in Nat
  BY Sizes DEF TypeOK
<1> HIDE DEF E
<1>2. issued[i] \in E
  BY <1>1
<1> QED BY <1>1, <1>2, Sizes DEF E

\* A token in date by the code's reckoning is one the agent still honours, and
\* the other way round.
LEMMA ExpiryAgrees ==
  ASSUME TypeOK, TokensInv, stored # NONE
  PROVE  IsExpired(stored) <=> day >= issued[stored.id].until
<1>1. /\ InRange(stored.expires) /\ stored.id \in DOMAIN issued
      /\ DaysSinceEpoch(stored.expires) = DayNumber(start) + issued[stored.id].until
  BY DEF TokensInv, TokenFits
<1>2. issued[stored.id].until \in Nat /\ day \in Nat
  BY <1>1, UntilTyped
<1>3. DayNumber(start) \in Int
  <2>1. ValidDate(start)
    BY PrintAssumption DEF PrintAssumption, TypeOK
  <2>2. PICK y \in Nat, m \in 1..12, c \in 1..31 : start = <<y, m, c>>
    BY <2>1 DEF ValidDate
  <2>3. DaysSinceEpoch(start) \in Int
    BY <2>2 DEF DaysSinceEpoch
  <2> QED BY <2>1, <2>3, DayNumberAgrees
<1>4. IsExpired(stored) <=> DaysSinceEpoch(stored.expires) <= DayNumber(start) + day
  BY <1>1 DEF IsExpired, Now
<1> QED BY <1>1, <1>2, <1>3, <1>4

\* The first step of a job: whatever it decides, a port that serves it is ahead.
LEMMA EnsureFits ==
  ASSUME TypeOK, TokensInv, CauseInv, NEW j \in Job, EnsurePaired(j)
  PROVE  CauseInv'
<1>1. PICK nr \in JobState :
        /\ job' = [job EXCEPT ![j] = nr]
        /\ nr.port = job[j].port
        /\ nr.clean <=> Working
        /\ nr.due <=> (stored = NONE \/ day >= issued[stored.id].until)
        /\ \/ stored # NONE /\ ~IsExpired(stored) /\ nr.at = "challenge" /\ nr.tok = stored
           \/ (stored = NONE \/ IsExpired(stored)) /\ nr.at = "list" /\ nr.tok = NONE
  BY EnsureCases
<1>2. job[j].at = "asked" /\ UNCHANGED <<day, start, agents, stored, saved, printed>>
  BY EnsureCases
<1>3. nr.port = 1
  BY <1>1, <1>2 DEF CauseInv, CauseFits
<1>4. CASE stored # NONE /\ ~IsExpired(stored) /\ nr.at = "challenge" /\ nr.tok = stored
  <2>1. day < issued[stored.id].until
    <3>1. stored.id \in DOMAIN issued
      BY <1>4 DEF TokensInv, TokenFits
    <3>2. issued[stored.id].until \in Nat /\ day \in Nat
      BY <3>1, UntilTyped
    <3> QED BY <1>4, <3>2, ExpiryAgrees
  <2>2. nr.clean => /\ \E p \in 1..Ports : serving[p] = stored.pin
                    /\ stored.id \notin revoked
    BY <1>1, <1>4, <2>1 DEF Working, GoodAt
  <2>3. CauseFits(nr, serving, stored, issued, revoked, day)
    BY <1>3, <1>4, <2>1, <2>2 DEF CauseFits, Ahead
  <2> QED BY <1>1, <1>2, <2>3, CauseOneJob DEF agents
<1>5. CASE (stored = NONE \/ IsExpired(stored)) /\ nr.at = "list" /\ nr.tok = NONE
  <2>1. nr.due
    BY <1>1, <1>5, ExpiryAgrees
  <2>2. nr.clean => IF stored = NONE THEN \E p \in 1..Ports : serving[p] # NONE
                    ELSE \E p \in 1..Ports : serving[p] = stored.pin
    BY <1>1 DEF Working
  <2>3. CauseFits(nr, serving, stored, issued, revoked, day)
    BY <1>3, <1>5, <2>1, <2>2, Sizes DEF CauseFits, Ahead
  <2> QED BY <1>1, <1>2, <2>3, CauseOneJob DEF agents
<1> QED BY <1>1, <1>4, <1>5

\* A port on which nothing listens, or another installation, is not the one ahead.
LEMMA AheadStays ==
  ASSUME NEW r \in JobState, NEW nr \in JobState, NEW srv, NEW pin,
         Ahead(r, srv, pin), srv[r.port] # pin
  PROVE  /\ r.port < Ports
         /\ nr.port = r.port + 1 => Ahead(nr, srv, pin)
<1>1. PICK p \in 1..Ports : p >= r.port /\ srv[p] = pin
  BY DEF Ahead
<1>2. r.port \in 1..Ports /\ Ports \in Nat
  BY Sizes DEF JobState
<1>3. p # r.port
  BY <1>1
<1>4. p > r.port
  BY <1>1, <1>2, <1>3
<1>5. r.port < Ports
  BY <1>1, <1>2, <1>4
<1>6. nr.port = r.port + 1 => p >= nr.port
  BY <1>2, <1>4
<1> QED BY <1>1, <1>5, <1>6 DEF Ahead

LEMMA ListFits ==
  ASSUME TypeOK, TokensInv, CauseInv, NEW j \in Job, ListPrinters(j)
  PROVE  CauseInv'
<1> DEFINE r == job[j]
           c == serving[job[j].port]
<1>1. PICK nr : /\ job' = [job EXCEPT ![j] = nr]
                /\ nr.lost = job[j].lost
                /\ \/ /\ Moved(job[j], nr) /\ nr.at = "share"
                      /\ serving[job[j].port] \in Cert
                      /\ nr.pin = IF stored = NONE THEN serving[job[j].port] ELSE stored.pin
                   \/ /\ Onward(job[j], nr, "list")
                      /\ nr.clean => serving[job[j].port] = NONE
  BY ListCases
<1>2. r.at = "list" /\ UNCHANGED <<day, start, agents, stored, saved, printed>>
  BY ListCases
<1>3. r \in JobState /\ r.port \in 1..Ports /\ Ports \in Nat
  BY Sizes DEF TypeOK, JobState
<1>4. /\ r.due
      /\ r.clean => IF stored = NONE
                      THEN /\ \A q \in 1..Ports : q < r.port => serving[q] = NONE
                           /\ \E p \in 1..Ports : serving[p] # NONE
                      ELSE Ahead(r, serving, stored.pin)
  BY <1>2 DEF CauseInv, CauseFits
<1>5. CASE /\ Moved(r, nr) /\ nr.at = "share" /\ c \in Cert
           /\ nr.pin = IF stored = NONE THEN c ELSE stored.pin
  <2>1. nr \in JobState /\ nr.port = r.port /\ nr.due = r.due /\ (nr.clean => r.clean)
    BY <1>5 DEF Moved
  <2>2. nr.clean => \/ serving[nr.port] = nr.pin
                    \/ stored # NONE /\ nr.pin = stored.pin /\ Ahead(nr, serving, nr.pin)
    <3>1. CASE stored = NONE
      BY <1>5, <2>1, <3>1
    <3>2. CASE stored # NONE
      BY <1>4, <1>5, <2>1, <3>2 DEF Ahead
    <3> QED BY <3>1, <3>2
  <2>3. CauseFits(nr, serving, stored, issued, revoked, day)
    BY <1>4, <1>5, <2>1, <2>2 DEF CauseFits
  <2> QED BY <1>1, <1>2, <2>1, <2>3, CauseOneJob DEF agents
<1>6. CASE Onward(r, nr, "list") /\ (nr.clean => c = NONE)
  <2>1. /\ nr \in JobState /\ nr.due = r.due /\ (nr.clean => r.clean)
        /\ \/ r.port < Ports /\ nr.at = "list" /\ nr.port = r.port + 1
           \/ r.port = Ports /\ nr.at = "failed" /\ nr.port = r.port
    BY <1>6 DEF Onward
  <2>2. ASSUME nr.clean
        PROVE  /\ nr.at = "list"
               /\ IF stored = NONE
                    THEN /\ \A q \in 1..Ports : q < nr.port => serving[q] = NONE
                         /\ \E p \in 1..Ports : serving[p] # NONE
                    ELSE Ahead(nr, serving, stored.pin)
    <3>0. c = NONE /\ r.clean
      BY <1>6, <2>1, <2>2
    <3>1. CASE stored = NONE
      <4>1. /\ \A q \in 1..Ports : q < r.port => serving[q] = NONE
            /\ \E p \in 1..Ports : serving[p] # NONE
        BY <1>4, <3>0, <3>1
      <4>2. \A q \in 1..Ports : q <= r.port => serving[q] = NONE
        BY <1>3, <3>0, <4>1
      <4>3. r.port # Ports
        BY <1>3, <4>1, <4>2
      <4> QED BY <1>3, <2>1, <3>1, <4>1, <4>2, <4>3
    <3>2. CASE stored # NONE
      <4>1. Ahead(r, serving, stored.pin) /\ stored.pin \in Cert
        BY <1>4, <3>0, <3>2 DEF TypeOK, Token
      <4>2. c # stored.pin
        BY <3>0, <4>1, Sizes
      <4>3. r.port < Ports /\ (nr.port = r.port + 1 => Ahead(nr, serving, stored.pin))
        BY <1>3, <2>1, <4>1, <4>2, AheadStays
      <4> QED BY <1>3, <2>1, <3>2, <4>3
    <3> QED BY <3>1, <3>2
  <2>3. CauseFits(nr, serving, stored, issued, revoked, day)
    BY <1>4, <2>1, <2>2 DEF CauseFits
  <2> QED BY <1>1, <1>2, <2>1, <2>3, CauseOneJob DEF agents
<1> QED BY <1>1, <1>5, <1>6

LEMMA ShareFits ==
  ASSUME TypeOK, TokensInv, CauseInv, NEW j \in Job, RequestShare(j)
  PROVE  CauseInv'
<1> DEFINE r == job[j]
           c == serving[job[j].port]
<1>1. r.at = "share" /\ UNCHANGED <<day, start, serving, revoked, changes, printed>>
  BY ShareCases
<1>2. r \in JobState /\ r.port \in 1..Ports /\ Ports \in Nat
  BY Sizes DEF TypeOK, JobState
<1>3. /\ r.due
      /\ r.clean => \/ c = r.pin
                    \/ stored # NONE /\ r.pin = stored.pin /\ Ahead(r, serving, r.pin)
  BY <1>1 DEF CauseInv, CauseFits
<1>4. CASE ShareGoesOn(j)
  <2>1. PICK nr : job' = [job EXCEPT ![j] = nr] /\ NoShare(j, nr)
    BY <1>4, GoesOnCase
  <2>2. /\ nr \in JobState /\ nr.due = r.due /\ (nr.clean => r.clean)
        /\ \/ r.port < Ports /\ nr.at = "list" /\ nr.port = r.port + 1
           \/ r.port = Ports /\ nr.at = "failed" /\ nr.port = r.port
        /\ nr.clean => c # NONE /\ c # r.pin
    BY <2>1 DEF NoShare, Onward
  <2>3. ASSUME nr.clean
        PROVE  nr.at = "list" /\ stored # NONE /\ Ahead(nr, serving, stored.pin)
    <3>1. stored # NONE /\ r.pin = stored.pin /\ Ahead(r, serving, r.pin) /\ c # r.pin
      BY <1>3, <2>2, <2>3
    <3>2. r.port < Ports /\ (nr.port = r.port + 1 => Ahead(nr, serving, r.pin))
      BY <1>2, <2>2, <3>1, AheadStays
    <3> QED BY <1>2, <2>2, <3>1, <3>2
  <2>4. CauseFits(nr, serving, stored, issued', revoked, day)
    BY <1>3, <2>2, <2>3 DEF CauseFits
  <2>5. UNCHANGED stored /\ (UNCHANGED issued \/ \E d \in Cert : Issue(d))
    BY <1>4 DEF ShareGoesOn
  <2> QED BY <1>1, <2>1, <2>2, <2>4, <2>5, CauseOneJob
<1>5. CASE ShareBrings(j)
  <2> DEFINE n == Len(issued) + 1
  <2>1. r.pin \in Cert /\ c = r.pin /\ Issue(r.pin) /\ stored' = Fresh(j) /\ Fresh(j) # NONE
    BY <1>5, BringsJobs DEF ShareBrings
  <2>2. Fresh(j).id = n /\ Fresh(j).pin = r.pin
    BY DEF Fresh
  <2>3. issued'[n].until = day + ShareDays /\ n \notin DOMAIN issued
    BY <2>1, IssueAppends
  <2>4. n \notin revoked /\ day < day + ShareDays
    BY <2>3, Sizes DEF TypeOK
  <2>5. CauseFits(job'[j], serving, stored', issued', revoked, day)
    <3>1. job'[j].at = "challenge" /\ job'[j].port = 1 /\ job'[j].tok = Fresh(j)
      BY <1>5, BringsJobs
    <3>2. Ahead(job'[j], serving, r.pin)
      BY <1>2, <2>1, <3>1 DEF Ahead
    <3> QED BY <2>2, <2>3, <2>4, <3>1, <3>2 DEF CauseFits
  <2>6. ASSUME NEW i \in Job \ {j}
        PROVE  CauseFits(job'[i], serving, stored', issued', revoked, day)
    <3> DEFINE s == job[i]
               ns == job'[i]
    <3>1. /\ ns.at = s.at /\ ns.port = s.port /\ ns.pin = s.pin /\ ns.tok = s.tok /\ ns.due = s.due
          /\ ns.clean => /\ s.clean
                         /\ s.at \in {"list", "share"} => stored = NONE \/ stored.pin = r.pin
      BY <1>5, BringsJobs
    <3>2. CauseFits(s, serving, stored, issued', revoked, day)
      BY <2>1, CauseStillFits
    <3>3. ns.clean /\ ns.at = "list" => Ahead(ns, serving, r.pin)
      <4> SUFFICES ASSUME ns.clean, ns.at = "list" PROVE Ahead(ns, serving, r.pin)
        OBVIOUS
      <4>1. CASE stored = NONE
        <5>1. \A q \in 1..Ports : q < s.port => serving[q] = NONE
          BY <3>1, <3>2, <4>1 DEF CauseFits
        <5>2. serving[r.port] # NONE
          BY <2>1, Sizes
        <5>3. s.port \in 1..Ports
          BY DEF TypeOK, JobState
        <5>4. r.port >= s.port
          BY <1>2, <5>1, <5>2, <5>3
        <5> QED BY <1>2, <2>1, <3>1, <5>4 DEF Ahead
      <4>2. CASE stored # NONE
        <5>1. Ahead(s, serving, stored.pin) /\ stored.pin = r.pin
          BY <3>1, <3>2, <4>2 DEF CauseFits
        <5> QED BY <3>1, <5>1 DEF Ahead
      <4> QED BY <4>1, <4>2
    <3>4. ns.clean /\ ns.at = "share" =>
            serving[ns.port] = ns.pin \/ (ns.pin = r.pin /\ Ahead(ns, serving, ns.pin))
      BY <3>1, <3>2 DEF CauseFits, Ahead
    <3>5. ns.clean /\ ns.at \in {"challenge", "post"} =>
            /\ day < issued'[ns.tok.id].until /\ ns.tok.id \notin revoked
            /\ Ahead(ns, serving, ns.tok.pin)
      BY <3>1, <3>2 DEF CauseFits, Ahead
    <3>6. /\ ns.at \in {"new", "asked"} => ns.port = 1
          /\ ns.at \in {"list", "share"} => ns.due
          /\ ns.at = "failed" => ~ns.clean
      BY <3>1, <3>2 DEF CauseFits
    <3>7. stored' # NONE /\ stored'.pin = r.pin
      BY <2>1, <2>2
    <3> HIDE DEF s, ns
    <3>8. CauseFits(ns, serving, stored', issued', revoked, day)
      BY <3>3, <3>4, <3>5, <3>6, <3>7 DEF CauseFits
    <3> QED BY <3>8 DEF ns
  <2>7. \A i \in Job : CauseFits(job'[i], serving', stored', issued', revoked', day')
    BY <1>1, <2>5, <2>6
  <2> QED BY <2>7 DEF CauseInv
<1> QED BY <1>4, <1>5, ShareCases

\* The two steps of submit_job, for the port that is ahead.
LEMMA SubmitFits ==
  ASSUME TypeOK, TokensInv, CauseInv, NEW j \in Job, Challenge(j) \/ Post(j)
  PROVE  CauseInv'
<1> DEFINE r == job[j]
           c == serving[job[j].port]
<1>1. /\ r.at \in {"challenge", "post"} /\ UNCHANGED <<day, start, agents, stored, saved>>
  BY ChallengeCases, PostCases
<1>2. r \in JobState /\ r.port \in 1..Ports /\ Ports \in Nat /\ r.tok # NONE
  BY <1>1, Sizes DEF TypeOK, JobState
<1>3. r.tok.pin \in Cert /\ issued[r.tok.id].cert = r.tok.pin
  <2>1. r.tok \in Token
    BY <1>2 DEF JobState
  <2> QED BY <1>2, <2>1 DEF Token, TokensInv, TokenFits
<1>4. r.clean => /\ day < issued[r.tok.id].until /\ r.tok.id \notin revoked
                 /\ Ahead(r, serving, r.tok.pin)
  BY <1>1 DEF CauseInv, CauseFits
<1>5. ASSUME NEW nr, job' = [job EXCEPT ![j] = nr], Onward(r, nr, "challenge"),
             nr.clean => c # r.tok.pin
      PROVE  CauseInv'
  <2>1. /\ nr \in JobState /\ nr.tok = r.tok /\ (nr.clean => r.clean)
        /\ \/ r.port < Ports /\ nr.at = "challenge" /\ nr.port = r.port + 1
           \/ r.port = Ports /\ nr.at = "failed" /\ nr.port = r.port
    BY <1>5 DEF Onward
  <2>2. nr.clean => nr.at = "challenge" /\ Ahead(nr, serving, r.tok.pin)
    <3> SUFFICES ASSUME nr.clean PROVE nr.at = "challenge" /\ Ahead(nr, serving, r.tok.pin)
      OBVIOUS
    <3>1. Ahead(r, serving, r.tok.pin) /\ c # r.tok.pin
      BY <1>4, <1>5, <2>1
    <3>2. r.port < Ports /\ (nr.port = r.port + 1 => Ahead(nr, serving, r.tok.pin))
      BY <1>2, <2>1, <3>1, AheadStays
    <3> QED BY <1>2, <2>1, <3>2
  <2>3. CauseFits(nr, serving, stored, issued, revoked, day)
    BY <1>4, <2>1, <2>2 DEF CauseFits
  <2> QED BY <1>1, <1>5, <2>1, <2>3, CauseOneJob DEF agents
<1>6. ASSUME NEW nr, job' = [job EXCEPT ![j] = nr], Moved(r, nr),
             nr.at \in {"post", "printed", "failed"}, nr.at = "failed" => ~nr.clean
      PROVE  CauseInv'
  <2>1. nr \in JobState /\ nr.tok = r.tok /\ (nr.clean => r.clean) /\ nr.port = r.port
    BY <1>6 DEF Moved
  <2>2. CauseFits(nr, serving, stored, issued, revoked, day)
    BY <1>4, <1>6, <2>1 DEF CauseFits, Ahead
  <2> QED BY <1>1, <1>6, <2>1, <2>2, CauseOneJob DEF agents
<1>7. CASE Challenge(j)
  <2>1. PICK nr : /\ job' = [job EXCEPT ![j] = nr]
                  /\ nr.lost = job[j].lost
                  /\ \/ Moved(job[j], nr) /\ nr.at = "post"
                     \/ /\ Onward(job[j], nr, "challenge")
                        /\ nr.clean => serving[job[j].port] = NONE
    BY <1>7, ChallengeCases
  <2>2. CASE Moved(r, nr) /\ nr.at = "post"
    <3>1. nr.at \in {"post", "printed", "failed"} /\ (nr.at = "failed" => ~nr.clean)
      BY <2>2
    <3> QED BY <1>6, <2>1, <2>2, <3>1
  <2>3. CASE Onward(r, nr, "challenge") /\ (nr.clean => c = NONE)
    <3>1. nr.clean => c # r.tok.pin
      BY <1>3, <2>3, Sizes
    <3> QED BY <1>5, <2>1, <2>3, <3>1
  <2> QED BY <2>1, <2>2, <2>3
<1>8. CASE Post(j)
  <2>1. PICK nr : job' = [job EXCEPT ![j] = nr] /\ (PostFails(j, nr) \/ PostReaches(j, nr))
    BY <1>8, PostCases
  <2>2. CASE PostFails(j, nr)
    BY <1>5, <1>6, <2>1, <2>2 DEF PostFails
  <2>3. CASE PostReaches(j, nr)
    <3>1. CASE c # r.tok.pin /\ Onward(r, nr, "challenge")
      BY <1>5, <2>1, <3>1
    <3>2. CASE c = r.tok.pin /\ Moved(r, nr) /\ nr.at = IF Comes(j) THEN "printed" ELSE "failed"
      <4>1. nr.at = "failed" => ~nr.clean
        <5>1. r.clean => Comes(j)
          BY <1>3, <1>4, <3>2, Sizes DEF Comes, GoodAt
        <5>2. nr.clean => r.clean
          BY <3>2 DEF Moved
        <5> QED BY <3>2, <5>1, <5>2
      <4>2. nr.at \in {"post", "printed", "failed"}
        BY <3>2
      <4> QED BY <1>6, <2>1, <3>2, <4>1, <4>2
    <3>3. CASE Onward(r, nr, "challenge") /\ ~nr.clean
      BY <1>5, <2>1, <3>3
    <3> QED BY <2>3, <3>1, <3>2, <3>3 DEF PostReaches
  <2> QED BY <2>1, <2>2, <2>3
<1> QED BY <1>7, <1>8

LEMMA CauseStep ==
  ASSUME TypeOK, TokensInv, CauseInv, [Next]_vars
  PROVE  CauseInv'
<1> USE DEF agents
<1>0. \A j \in Job : CauseFits(job[j], serving, stored, issued, revoked, day)
  BY DEF CauseInv
<1>1. ASSUME NEW j \in Job, Forward(j) \/ Refuse(j) PROVE CauseInv'
  <2>1. PICK nr : /\ job' = [job EXCEPT ![j] = nr]
                  /\ Moved(job[j], nr) /\ nr.at \in {"asked", "refused"}
    BY <1>1, EdgeCases
  <2>2. job[j].at \in {"new", "asked"} /\ UNCHANGED <<day, start, agents, stored, saved, printed>>
    BY <1>1, EdgeCases
  <2>3. nr \in JobState /\ nr.port = job[j].port
    BY <2>1 DEF Moved
  <2>4. CauseFits(nr, serving, stored, issued, revoked, day)
    BY <1>0, <2>1, <2>2, <2>3 DEF CauseFits
  <2> QED BY <2>1, <2>2, <2>3, <2>4, CauseOneJob
<1>2. ASSUME NEW j \in Job, Answer(j) PROVE CauseInv'
  <2>1. PICK nr \in JobState : job' = [job EXCEPT ![j] = nr] /\ nr.at = "printed"
    BY <1>2, AnswerCase
  <2>2. UNCHANGED <<day, start, agents, stored, saved, printed>>
    BY <1>2, AnswerCase
  <2>3. CauseFits(nr, serving, stored, issued, revoked, day)
    BY <2>1 DEF CauseFits
  <2> QED BY <2>1, <2>2, <2>3, CauseOneJob
<1>3. ASSUME Disturbed(Running), NEW j \in Job
      PROVE  CauseFits(job'[j], serving', stored', issued', revoked', day')
  <2>1. /\ job'[j].at = job[j].at /\ job'[j].port = job[j].port /\ job'[j].due = job[j].due
        /\ job'[j].clean => job[j].clean /\ j \notin Running
    BY <1>3, DisturbedTyped
  <2>2. job'[j].clean => job'[j].at \notin {"list", "share", "challenge", "post"}
    BY <2>1 DEF Running
  <2> QED BY <1>0, <2>1, <2>2 DEF CauseFits
<1>4. ASSUME NEW p \in 1..Ports, NEW c \in Cert \cup {NONE}, AgentChange(p, c) PROVE CauseInv'
  BY <1>3, <1>4 DEF AgentChange, CauseInv
<1>5. ASSUME NEW id \in DOMAIN issued, Revoke(id) PROVE CauseInv'
  BY <1>3, <1>5 DEF Revoke, CauseInv
<1>6. CASE NextDay
  <2> DEFINE J == {j \in Running : job[j].tok # NONE /\ issued[job[j].tok.id].until <= day'}
  <2>1. Disturbed(J) /\ day' = day + 1 /\ UNCHANGED <<start, agents, stored, saved, printed>>
    BY <1>6 DEF NextDay
  <2>2. ASSUME NEW j \in Job
        PROVE  CauseFits(job'[j], serving, stored, issued, revoked, day')
    <3> DEFINE r == job[j]
               nr == job'[j]
    <3>1. /\ nr.at = r.at /\ nr.port = r.port /\ nr.pin = r.pin /\ nr.tok = r.tok /\ nr.due = r.due
          /\ nr.clean => r.clean /\ j \notin J
      <4> HIDE DEF J
      <4> QED BY <2>1, DisturbedTyped
    <3>2. nr.clean /\ nr.at \in {"challenge", "post"} => day' < issued[nr.tok.id].until
      <4> SUFFICES ASSUME nr.clean, nr.at \in {"challenge", "post"}
                   PROVE  day' < issued[nr.tok.id].until
        OBVIOUS
      <4>1. r.tok # NONE /\ j \in Running
        BY <3>1 DEF Running, TypeOK
      <4>2. ~(issued[r.tok.id].until <= day')
        BY <3>1, <4>1
      <4>3. r.tok.id \in DOMAIN issued
        BY <4>1 DEF TokensInv, TokenFits
      <4>4. issued[r.tok.id].until \in Nat /\ day' \in Nat
        BY <2>1, <4>3, UntilTyped
      <4> QED BY <3>1, <4>2, <4>4
    <3>3. CauseFits(r, serving, stored, issued, revoked, day)
      BY <1>0
    <3> HIDE DEF r, nr
    <3>4. CauseFits(nr, serving, stored, issued, revoked, day')
      BY <3>1, <3>2, <3>3 DEF CauseFits, Ahead
    <3> QED BY <3>4 DEF nr
  <2> QED BY <2>1, <2>2 DEF CauseInv
<1>7. CASE Restart
  <2>1. ASSUME NEW j \in Job
        PROVE  CauseFits(job'[j], serving, stored', issued, revoked, day)
    <3>1. \/ job'[j].at = "dropped"
          \/ job'[j] = job[j] /\ job[j].at \notin {"list", "share", "challenge", "post"}
      BY <1>7, RestartJobs
    <3> QED BY <1>0, <3>1 DEF CauseFits
  <2> QED BY <1>7, <2>1 DEF Restart, CauseInv
<1>8. CASE UNCHANGED vars
  BY <1>8 DEF vars, CauseInv
<1> QED BY <1>1, <1>2, <1>4, <1>5, <1>6, <1>7, <1>8,
           EnsureFits, ListFits, ShareFits, SubmitFits DEF Next

----------------------------------------------------------------------------
(* The theorems *)

LEMMA PrintInit == Init => PrintInv
<1> SUFFICES ASSUME Init PROVE PrintInv
  OBVIOUS
<1>1. \A j \in Job : /\ job[j] = NewJob /\ printed[j] = 0
  BY DEF Init
<1>2. NewJob \in JobState /\ NewJob.at = "new" /\ NewJob.tok = NONE /\ NewJob.told = NONE
      /\ NewJob.port = 1 /\ NewJob.lost = FALSE
  BY Sizes DEF NewJob, JobState
<1>3. TypeOK
  <2>1. /\ day \in 0..MaxDays /\ changes \in 0..MaxChanges /\ printed \in [Job -> 0..Ports]
        /\ start \in Start /\ serving \in [1..Ports -> Cert \cup {NONE}]
    BY Sizes DEF Init
  <2>2. /\ issued \in Seq([cert : Cert, until : 0..(MaxDays + ShareDays)])
        /\ Len(issued) <= MaxTokens /\ revoked \subseteq DOMAIN issued
        /\ stored \in Token \cup {NONE} /\ saved \in Token \cup {NONE}
    BY Sizes DEF Init
  <2>3. job \in [Job -> JobState]
    BY <1>2 DEF Init
  <2> QED BY <1>1, <1>2, <2>1, <2>2, <2>3 DEF TypeOK
<1>4. TokensInv
  BY <1>1, <1>2 DEF Init, TokensInv, TokenFits
<1>5. SheetsInv
  <2>1. NONE # "ok"
    BY PrintAssumption DEF PrintAssumption
  <2>2. SheetsFit(NewJob, 0)
    BY <1>2, <2>1, Sizes DEF SheetsFit
  <2> QED BY <1>1, <2>2 DEF SheetsInv
<1>6. CauseInv
  BY <1>1, <1>2 DEF CauseInv, CauseFits
<1> QED BY <1>3, <1>4, <1>5, <1>6 DEF PrintInv

LEMMA PrintInvariant == Spec => []PrintInv
<1>1. PrintInv /\ [Next]_vars => PrintInv'
  BY TypeStep, TokensStep, SheetsStep, CauseStep DEF PrintInv
<1> QED BY PrintInit, <1>1, PTL DEF Spec

\* The state of the print jobs keeps its types; in particular a job leaves no
\* more sheets than there are ports (ensure_paired, submit_job).
THEOREM PrintTypeCorrect == Spec => []TypeOK
<1>1. PrintInv => TypeOK
  BY DEF PrintInv
<1> QED BY PrintInvariant, <1>1, PTL

\* However many jobs pair at the same time, in memory and on disk is a token of
\* the installation that is pinned with it (request_share_on_port, check_pin).
THEOREM TokensOfPinnedAgents == Spec => []TokenOfPinnedAgent
<1>1. PrintInv => TokenOfPinnedAgent
  BY DEF PrintInv, TokensInv, TokenFits, TokenOfPinnedAgent
<1> QED BY PrintInvariant, <1>1, PTL

\* A job whose answers all arrive comes out once or not at all, as it is
\* reported, and "printed" is never reported of a job that is not on paper
\* (submit_job's loop over the ports).
THEOREM JobsComeOutOnce == Spec => []PrintedOnce
<1>1. PrintInv => PrintedOnce
  BY DEF PrintInv, SheetsInv, SheetsFit, PrintedOnce
<1> QED BY PrintInvariant, <1>1, PTL

\* No failure is of DocLink's making: a job that saw nothing go wrong outside
\* finds the installation of its token on a port still ahead of it.
THEOREM FailuresHaveACause == Spec => []FailureHasACause
<1>1. PrintInv => FailureHasACause
  BY DEF PrintInv, CauseInv, CauseFits, FailureHasACause
<1> QED BY PrintInvariant, <1>1, PTL

\* The agent's dialog comes only when the stored token is over or there is none,
\* on whatever date: days_since_epoch agrees with the calendar.
THEOREM PairingsAreDue == Spec => PairsOnlyWhenDue
<1>1. PrintInv /\ [Next]_vars =>
        [issued' # issued => \E j \in Job : job[j].at = "share" /\ job[j].due]_vars
  <2> SUFFICES ASSUME PrintInv, Next, issued' # issued
               PROVE  \E j \in Job : job[j].at = "share" /\ job[j].due
    OBVIOUS
  <2>1. TypeOK /\ CauseInv
    BY DEF PrintInv
  <2>2. PICK j \in Job : RequestShare(j)
    BY DEF Next, Forward, Refuse, EnsurePaired, ListPrinters, Challenge, Post, Answer,
           AgentChange, Revoke, NextDay, Restart, agents
  <2>3. job[j].at = "share"
    BY <2>2 DEF RequestShare
  <2>4. job[j].due
    BY <2>1, <2>3 DEF CauseInv, CauseFits
  <2> QED BY <2>3, <2>4
<1> QED BY PrintInvariant, <1>1, PTL DEF Spec, PairsOnlyWhenDue
=============================================================================
