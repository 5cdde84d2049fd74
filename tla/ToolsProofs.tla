------------------------------ MODULE ToolsProofs ------------------------------
(***************************************************************************)
(* Proofs about MCTools.  First about the calendar itself: what its loops  *)
(* add up to, and that the dates and weekdays they give are those of the   *)
(* Julian day number.  Then about CTime and CTimeSpan, whose inductive     *)
(* invariant is TimeInv, and about the fields and texts that show them,    *)
(* whose invariant is FieldsInv.  Then about CFileEx, the names of paths,  *)
(* the tree and its listings, whose invariant is FilesInv; and about       *)
(* CIPFinder, the text of a record and its tabs, the index and the scan,   *)
(* whose invariant is FinderInv.                                           *)
(***************************************************************************)
EXTENDS MCTools, Calendar, FiniteSetTheorems, WellFoundedInduction, SequenceTheorems, TLAPS

(* The order of the natural numbers, by which a set of them has a least.   *)
LessThan == {ss \in Nat \X Nat : ss[1] < ss[2]}

(* That order has no endless descent.                                      *)
LEMMA LessWellFounded == IsWellFoundedOn(LessThan, Nat)
BY NatLessThanWellFounded DEF OpToRel, LessThan

(* A set of natural numbers that is not empty has a least member: the form
   in which the proofs below argue by induction.                           *)
LEMMA Least ==
    ASSUME NEW T, T \subseteq Nat, T # {}
    PROVE  \E n \in T : \A k \in T : n <= k
<1>1. PICK x \in T : \A y \in T : ~(<<y, x>> \in LessThan)
  BY LessWellFounded, WFMin, Zenon
<1>2. \A y \in T : ~(y < x)
  <2> SUFFICES ASSUME NEW y \in T, y < x PROVE <<y, x>> \in LessThan
    BY <1>1
  <2> QED
    BY DEF LessThan
<1> QED
  BY <1>2

(* The leap years counted: every fourth, but for the hundredth, and with the
   four hundredth.                                                         *)
LeapsBefore(y) == (y - 1) \div 4 - (y - 1) \div 100 + (y - 1) \div 400

(* The quotients a calendar counts leap years by go up by one at their
   multiples.                                                              *)
LEMMA Steps ==
    ASSUME NEW y \in Nat, y > 0
    PROVE  /\ y \div 4 = (y - 1) \div 4 + (IF y % 4 = 0 THEN 1 ELSE 0)
           /\ y \div 100 = (y - 1) \div 100 + (IF y % 100 = 0 THEN 1 ELSE 0)
           /\ y \div 400 = (y - 1) \div 400 + (IF y % 400 = 0 THEN 1 ELSE 0)
           /\ y % 400 = 0 => y % 100 = 0
           /\ y % 100 = 0 => y % 4 = 0
<1>1. y \div 4 = (y - 1) \div 4 + (IF y % 4 = 0 THEN 1 ELSE 0)
  OBVIOUS
<1>2. y \div 100 = (y - 1) \div 100 + (IF y % 100 = 0 THEN 1 ELSE 0)
  OBVIOUS
<1>3. y \div 400 = (y - 1) \div 400 + (IF y % 400 = 0 THEN 1 ELSE 0)
  OBVIOUS
<1>4. y % 400 = 0 => y % 100 = 0
  OBVIOUS
<1>5. y % 100 = 0 => y % 4 = 0
  OBVIOUS
<1> QED
  BY <1>1, <1>2, <1>3, <1>4, <1>5

(* The leap years before a year, and whether it is one, give those before
   the next.                                                               *)
LEMMA LeapStep ==
    ASSUME NEW y \in Nat, y > 0
    PROVE  LeapsBefore(y + 1) = LeapsBefore(y) + (IF Leap(y) THEN 1 ELSE 0)
  BY Steps DEF LeapsBefore, Leap

(* What the loop over the years adds up to.                                *)
YearsCounted == [y \in 1900..2101 |-> 365 * (y - 1900) + LeapsBefore(y) - 460]

(* So the days counted before a year and the days of the year give those
   before the next.                                                        *)
LEMMA YearStep ==
    ASSUME NEW y \in 1901..2101
    PROVE  YearsCounted[y] = YearsCounted[y - 1] + DaysOfYear(y - 1)
<1>1. y - 1 \in Nat /\ y - 1 > 0 /\ y - 1 \in 1900..2101 /\ y \in 1900..2101 /\ (y - 1) + 1 = y
  OBVIOUS
<1>2. LeapsBefore(y) = LeapsBefore(y - 1) + (IF Leap(y - 1) THEN 1 ELSE 0)
  BY <1>1, LeapStep
<1>3. LeapsBefore(y - 1) \in Int
  BY <1>1 DEF LeapsBefore
<1>4. YearsCounted[y] = 365 * (y - 1900) + LeapsBefore(y) - 460
      /\ YearsCounted[y - 1] = 365 * ((y - 1) - 1900) + LeapsBefore(y - 1) - 460
  BY <1>1 DEF YearsCounted
<1> QED
  BY <1>2, <1>3, <1>4 DEF DaysOfYear

(* 1900-1-1 has no year counted before it.                                 *)
LEMMA NoYearBefore == YearsCounted[1900] = 0
<1>1. LeapsBefore(1900) = 460
  BY DEF LeapsBefore
<1> QED
  BY <1>1 DEF YearsCounted

(* The loop over the years (Time.cpp:588-597) adds up to the closed form.  *)
LEMMA YearsAre == DaysBeforeYear = YearsCounted
<1>1. YearsCounted = [y \in 1900..2101 |->
           IF y = 1900 THEN 0 ELSE YearsCounted[y - 1] + DaysOfYear(y - 1)]
  <2>1. ASSUME NEW y \in 1900..2101
        PROVE  YearsCounted[y] = IF y = 1900 THEN 0 ELSE YearsCounted[y - 1] + DaysOfYear(y - 1)
    <3>1. CASE y = 1900
      BY <3>1, NoYearBefore
    <3>2. CASE y # 1900
      BY <3>2, YearStep
    <3> QED
      BY <3>1, <3>2
  <2> QED
    BY <2>1 DEF YearsCounted
<1>2. YearsAdded = [y \in 1900..2101 |-> IF y = 1900 THEN 0 ELSE YearsAdded[y - 1] + DaysOfYear(y - 1)]
  <2> DEFINE Step(f) == [y \in FirstYear..(LastYear + 1) |->
                             IF y = FirstYear THEN 0 ELSE f[y - 1] + DaysOfYear(y - 1)]
  <2>1. YearsAdded = CHOOSE f : f = Step(f)
    BY Zenon DEF YearsAdded
  <2>2. YearsCounted = Step(YearsCounted)
    BY <1>1 DEF FirstYear, LastYear
  <2>3. \A f : Step(f) = [y \in 1900..2101 |-> IF y = 1900 THEN 0 ELSE f[y - 1] + DaysOfYear(y - 1)]
    BY DEF FirstYear, LastYear
  <2> HIDE DEF Step
  <2>4. YearsAdded = Step(YearsAdded)
    BY <2>1, <2>2, Zenon
  <2> QED
    BY <2>3, <2>4
<1>3. \A y \in 1900..2101 : YearsAdded[y] = YearsCounted[y]
  <2> DEFINE T == {k \in Nat : 1900 + k \in 1900..2101 /\ YearsAdded[1900 + k] # YearsCounted[1900 + k]}
  <2>0. ASSUME NEW y \in 1900..2101, YearsAdded[y] # YearsCounted[y]
        PROVE  y - 1900 \in T
    <3>1. y - 1900 \in Nat /\ 1900 + (y - 1900) = y
      OBVIOUS
    <3> QED
      BY <2>0, <3>1
  <2>1. T \subseteq Nat
    OBVIOUS
  <2> HIDE DEF T
  <2> SUFFICES ASSUME T # {} PROVE FALSE
    BY <2>0
  <2>1a. PICK k \in T : \A l \in T : k <= l
    BY <2>1, Least
  <2>2. k \in Nat /\ 1900 + k \in 1900..2101 /\ YearsAdded[1900 + k] # YearsCounted[1900 + k]
    BY <2>1a DEF T
  <2>3. k # 0
    BY <1>2, <2>2, NoYearBefore
  <2>4. k - 1 \in Nat /\ 1900 + (k - 1) \in 1900..2101
        /\ 1900 + (k - 1) = (1900 + k) - 1 /\ 1900 + k \in 1901..2101
    BY <2>2, <2>3
  <2>5. YearsAdded[1900 + (k - 1)] = YearsCounted[1900 + (k - 1)]
    <3>1. k - 1 \notin T
      BY <2>1a, <2>2
    <3> QED
      BY <2>4, <3>1 DEF T
  <2>6. YearsAdded[1900 + k] = YearsAdded[(1900 + k) - 1] + DaysOfYear((1900 + k) - 1)
    BY <1>2, <2>4
  <2> QED
    BY <2>2, <2>4, <2>5, <2>6, YearStep
<1> QED
  BY <1>3 DEF DaysBeforeYear, YearsCounted, FirstYear, LastYear
-----------------------------------------------------------------------------
(* What the loop over the months adds up to.                               *)
MonthsCounted(leap) ==
    IF leap THEN <<0, 31, 60, 91, 121, 152, 182, 213, 244, 274, 305, 335>>
    ELSE <<0, 31, 59, 90, 120, 151, 181, 212, 243, 273, 304, 334>>

(* The months, one by one.                                                 *)
LEMMA TwelveMonths == \A n \in 1..12 : n = 1 \/ n = 2 \/ n = 3 \/ n = 4 \/ n = 5 \/ n = 6 \/ n = 7
                                  \/ n = 8 \/ n = 9 \/ n = 10 \/ n = 11 \/ n = 12
  OBVIOUS

(* The loop over the months (Time.cpp:599-616) adds up to the table.       *)
LEMMA MonthsAre ==
    ASSUME NEW leap \in BOOLEAN
    PROVE  \A n \in 1..12 : DaysBeforeMonth[leap][n] = MonthsCounted(leap)[n]
<1> DEFINE Step(f) == [n \in 1..12 |-> IF n = 1 THEN 0 ELSE f[n - 1] + anMonthDay(leap)[n - 1]]
           table == [n \in 1..12 |-> MonthsCounted(leap)[n]]
           added == CHOOSE f : f = Step(f)
<1>1. DaysBeforeMonth[leap] = [n \in 1..12 |-> added[n]]
  BY Zenon DEF DaysBeforeMonth
<1>2. table = Step(table)
  <2>1. ASSUME NEW n \in 1..12
        PROVE  table[n] = IF n = 1 THEN 0 ELSE table[n - 1] + anMonthDay(leap)[n - 1]
    <3>1. CASE n = 1
      BY <3>1 DEF MonthsCounted
    <3>2. CASE n # 1
      <4>1. n - 1 \in 1..12
        BY <3>2
      <4>2. MonthsCounted(leap)[n] = MonthsCounted(leap)[n - 1] + anMonthDay(leap)[n - 1]
        BY <3>2, TwelveMonths DEF MonthsCounted, anMonthDay
      <4> QED
        BY <3>2, <4>1, <4>2
    <3> QED
      BY <3>1, <3>2
  <2> QED
    BY <2>1
<1>3. \A f : Step(f) = [n \in 1..12 |-> IF n = 1 THEN 0 ELSE f[n - 1] + anMonthDay(leap)[n - 1]]
  OBVIOUS
<1> HIDE DEF Step
<1>4. added = Step(added)
  BY <1>2, Zenon
<1> HIDE DEF added
<1>5. \A n \in 1..12 : added[n] = IF n = 1 THEN 0 ELSE added[n - 1] + anMonthDay(leap)[n - 1]
  BY <1>3, <1>4
<1>6. \A n \in 1..12 : added[n] = MonthsCounted(leap)[n]
  <2>1. added[1] = MonthsCounted(leap)[1]
    BY <1>5 DEF MonthsCounted
  <2>2. ASSUME NEW n \in 2..12, added[n - 1] = MonthsCounted(leap)[n - 1]
        PROVE  added[n] = MonthsCounted(leap)[n]
    <3>1. added[n] = added[n - 1] + anMonthDay(leap)[n - 1]
      BY <1>5
    <3>2. MonthsCounted(leap)[n] = MonthsCounted(leap)[n - 1] + anMonthDay(leap)[n - 1]
      <4>1. n \in 1..12 /\ n # 1
        OBVIOUS
      <4> QED
        BY <4>1, TwelveMonths DEF MonthsCounted, anMonthDay
    <3> QED
      BY <2>2, <3>1, <3>2
  <2>3. added[2] = MonthsCounted(leap)[2]
    BY <2>1, <2>2
  <2>4. added[3] = MonthsCounted(leap)[3]
    BY <2>3, <2>2
  <2>5. added[4] = MonthsCounted(leap)[4]
    BY <2>4, <2>2
  <2>6. added[5] = MonthsCounted(leap)[5]
    BY <2>5, <2>2
  <2>7. added[6] = MonthsCounted(leap)[6]
    BY <2>6, <2>2
  <2>8. added[7] = MonthsCounted(leap)[7]
    BY <2>7, <2>2
  <2>9. added[8] = MonthsCounted(leap)[8]
    BY <2>8, <2>2
  <2>10. added[9] = MonthsCounted(leap)[9]
    BY <2>9, <2>2
  <2>11. added[10] = MonthsCounted(leap)[10]
    BY <2>10, <2>2
  <2>12. added[11] = MonthsCounted(leap)[11]
    BY <2>11, <2>2
  <2>13. added[12] = MonthsCounted(leap)[12]
    BY <2>12, <2>2, SMTT(20)
  <2> QED
    BY <2>1, <2>3, <2>4, <2>5, <2>6, <2>7, <2>8, <2>9, <2>10, <2>11, <2>12, <2>13, TwelveMonths
<1> QED
  BY <1>1, <1>6
-----------------------------------------------------------------------------
(* What is counted before a year, and how it grows from year to year.      *)
LEMMA YearsRange ==
    /\ \A y \in 1900..2101 : DaysBeforeYear[y] = 365 * (y - 1900) + LeapsBefore(y) - 460
    /\ \A y \in 1900..2101 : DaysBeforeYear[y] \in Nat
    /\ \A y \in 1900..2100 : DaysBeforeYear[y + 1] = DaysBeforeYear[y] + DaysOfYear(y)
    /\ DaysBeforeYear[1900] = 0 /\ DaysBeforeYear[2101] = 73414
<1>1. \A y \in 1900..2101 : DaysBeforeYear[y] = 365 * (y - 1900) + LeapsBefore(y) - 460
  BY YearsAre DEF YearsCounted
<1>2. \A y \in 1900..2101 : LeapsBefore(y) \in Nat /\ LeapsBefore(y) >= 460
  BY DEF LeapsBefore
<1>3. \A y \in 1900..2101 : DaysBeforeYear[y] \in Nat
  BY <1>1, <1>2
<1>4. \A y \in 1900..2100 : DaysBeforeYear[y + 1] = DaysBeforeYear[y] + DaysOfYear(y)
  <2> TAKE y \in 1900..2100
  <2>1. y + 1 \in 1901..2101 /\ (y + 1) - 1 = y
    OBVIOUS
  <2> QED
    BY <2>1, YearStep, YearsAre
<1>5. LeapsBefore(2101) = 509 + 0 * 1
  BY DEF LeapsBefore
<1>6. DaysBeforeYear[2101] = 73414
  BY <1>1, <1>5
<1> QED
  BY <1>1, <1>3, <1>4, <1>6, NoYearBefore, YearsAre

(* Sets and bounds the leaves below do not look into.                      *)
Years == FirstYear..(LastYear + 1)
LastDay == 73414
Months == 1..12
Hours == 0..23
Sixty == 0..59

(* So the days before a year are a number.                                 *)
LEMMA YearsNat == \A y \in Years : y \in Nat /\ y > 0 /\ DaysBeforeYear[y] \in Nat
BY YearsRange DEF Years, FirstYear, LastYear

(* A year begins when the one before it ends.                              *)
LEMMA NextYear ==
    ASSUME NEW y \in Years, y <= LastYear
    PROVE  /\ y + 1 \in Years
           /\ DaysBeforeYear[y + 1] = DaysBeforeYear[y] + DaysOfYear(y)
           /\ DaysOfYear(y) \in Nat
<1>1. y \in 1900..2100 /\ y + 1 \in Years
  BY DEF Years, FirstYear, LastYear
<1>2. DaysBeforeYear[y + 1] = DaysBeforeYear[y] + DaysOfYear(y)
  BY <1>1, YearsRange
<1>3. DaysOfYear(y) \in Nat
  BY DEF DaysOfYear
<1> QED
  BY <1>1, <1>2, <1>3

(* The first year and the last.                                            *)
LEMMA Ends ==
    /\ FirstYear \in Years /\ FirstYear <= LastYear /\ LastYear \in Nat
    /\ DaysBeforeYear[FirstYear] = 0 /\ DaysBeforeYear[LastYear + 1] = LastDay
BY YearsRange DEF Years, FirstYear, LastYear, LastDay

(* A day is in the year, in the month, at which the loops of _GetDate stop.*)
InYear(days, y) ==
    /\ DaysBeforeYear[y] < days
    /\ y < LastYear => days <= DaysBeforeYear[y + 1]
InMonth(day, leap, n) ==
    /\ DaysBeforeMonth[leap][n] < day
    /\ n < 12 => day <= DaysBeforeMonth[leap][n + 1]

(* The loop over the years stops at one of them.                           *)
LEMMA SomeYear ==
    ASSUME NEW days \in Nat, days > 0
    PROVE  \E y \in FirstYear..LastYear : InYear(days, y)
<1>0. FirstYear..LastYear \subseteq Years /\ \A y \in FirstYear..LastYear : y <= LastYear
  BY DEF Years, FirstYear, LastYear
<1> DEFINE T == {k \in Nat : k \in FirstYear..LastYear /\ days <= DaysBeforeYear[k + 1]}
<1>1. CASE T = {}
  <2>1. LastYear \in FirstYear..LastYear /\ LastYear \in Nat
    BY DEF FirstYear, LastYear
  <2>2. ~(days <= DaysBeforeYear[LastYear + 1])
    BY <1>1, <2>1
  <2>3. DaysBeforeYear[LastYear + 1] = DaysBeforeYear[LastYear] + DaysOfYear(LastYear)
        /\ DaysOfYear(LastYear) \in Nat /\ DaysBeforeYear[LastYear] \in Nat
        /\ DaysBeforeYear[LastYear + 1] \in Nat
    <3>1. LastYear \in Years /\ LastYear <= LastYear
      BY <1>0, <2>1
    <3> QED
      BY <3>1, NextYear, YearsNat
  <2>4. DaysBeforeYear[LastYear] < days /\ ~(LastYear < LastYear)
    <3> DEFINE a == DaysBeforeYear[LastYear] b == DaysBeforeYear[LastYear + 1] c == DaysOfYear(LastYear)
    <3>1. ~(days <= b) /\ b = a + c /\ a \in Nat /\ b \in Nat /\ c \in Nat
      BY <2>2, <2>3
    <3> HIDE DEF a, b, c
    <3>2. a < days
      BY <3>1
    <3> QED
      BY <2>1, <3>2 DEF a
  <2> QED
    BY <2>1, <2>4 DEF InYear
<1>2. CASE T # {}
  <2>1. T \subseteq Nat
    OBVIOUS
  <2> HIDE DEF T
  <2>2. PICK k \in T : \A l \in T : k <= l
    BY <1>2, <2>1, Least
  <2>3. k \in Nat /\ k \in FirstYear..LastYear /\ days <= DaysBeforeYear[k + 1]
    BY <2>2 DEF T
  <2>4. DaysBeforeYear[k] < days
    <3>1. CASE k = FirstYear
      BY <3>1, Ends
    <3>2. CASE k # FirstYear
      <4>1. k - 1 \in Nat /\ k - 1 \in FirstYear..LastYear /\ ~(k <= k - 1) /\ (k - 1) + 1 = k
        BY <2>3, <3>2 DEF FirstYear, LastYear
      <4>2. k - 1 \notin T
        BY <2>2, <4>1
      <4>3. ~(days <= DaysBeforeYear[k])
        BY <4>1, <4>2, Zenon DEF T
      <4>4. DaysBeforeYear[k] \in Nat
        BY <1>0, <2>3, YearsNat
      <4> QED
        BY <4>3, <4>4
    <3> QED
      BY <3>1, <3>2
  <2> QED
    BY <2>3, <2>4 DEF InYear
<1> QED
  BY <1>1, <1>2

(* And that over the months at a month.                                    *)
LEMMA SomeMonth ==
    ASSUME NEW day \in Nat, day > 0, NEW leap \in BOOLEAN
    PROVE  \E n \in 1..12 : InMonth(day, leap, n)
<1>1. \A n \in 1..12 : DaysBeforeMonth[leap][n] = MonthsCounted(leap)[n]
  BY MonthsAre
<1> DEFINE m(n) == DaysBeforeMonth[leap][n]
<1>2. CASE leap = TRUE
  <2>0. MonthsCounted(leap) = <<0, 31, 60, 91, 121, 152, 182, 213, 244, 274, 305, 335>>
    BY <1>2 DEF MonthsCounted
  <2>1. m(1) = 0 /\ m(2) = 31 /\ m(3) = 60 /\ m(4) = 91 /\ m(5) = 121 /\ m(6) = 152 /\ m(7) = 182
        /\ m(8) = 213 /\ m(9) = 244 /\ m(10) = 274 /\ m(11) = 305 /\ m(12) = 335
    BY <1>1, <2>0
  <2> HIDE DEF m
  <2>2. \E n \in 1..12 : m(n) < day /\ (n < 12 => day <= m(n + 1))
    BY <2>1
  <2> QED
    BY <2>2 DEF InMonth, m
<1>3. CASE leap = FALSE
  <2>1. m(1) = 0 /\ m(2) = 31 /\ m(3) = 59 /\ m(4) = 90 /\ m(5) = 120 /\ m(6) = 151 /\ m(7) = 181
        /\ m(8) = 212 /\ m(9) = 243 /\ m(10) = 273 /\ m(11) = 304 /\ m(12) = 334
    BY <1>1, <1>3 DEF MonthsCounted
  <2> HIDE DEF m
  <2>2. \E n \in 1..12 : m(n) < day /\ (n < 12 => day <= m(n + 1))
    BY <2>1
  <2> QED
    BY <2>2 DEF InMonth, m
<1> QED
  BY <1>2, <1>3

(* The date _GetDate gives: the day it counts, in a year and a month.      *)
IsDate(x, y, n, k) ==
    /\ y <= LastYear /\ k > 0
    /\ InYear(x.m_nDays, y) /\ InMonth(x.m_nDays - DaysBeforeYear[y], Leap(y), n)
    /\ x.m_nDays = DaysBeforeYear[y] + DaysBeforeMonth[Leap(y)][n] + k
    /\ _GetDate(x) = <<y, n, k>>

(* Every day from 1900-1-1 on has a date, and _GetDate gives it.           *)
LEMMA DateOfDay ==
    ASSUME NEW x, x.m_nDays \in Nat, x.m_nDays > 0
    PROVE  \E y \in Years, n \in Months, k \in Nat : IsDate(x, y, n, k)
<1> DEFINE y == CHOOSE y \in FirstYear..LastYear :
                     /\ DaysBeforeYear[y] < x.m_nDays
                     /\ y < LastYear => x.m_nDays <= DaysBeforeYear[y + 1]
           day == x.m_nDays - DaysBeforeYear[y]
           n == CHOOSE n \in 1..12 :
                     /\ DaysBeforeMonth[Leap(y)][n] < day
                     /\ n < 12 => day <= DaysBeforeMonth[Leap(y)][n + 1]
           k == day - DaysBeforeMonth[Leap(y)][n]
<1>1. y \in Years /\ y <= LastYear /\ InYear(x.m_nDays, y)
  <2>1. \E yy \in FirstYear..LastYear : InYear(x.m_nDays, yy)
    BY SomeYear
  <2>2. y = CHOOSE yy \in FirstYear..LastYear : InYear(x.m_nDays, yy)
    BY Zenon DEF InYear
  <2> HIDE DEF y
  <2>3. y \in FirstYear..LastYear /\ InYear(x.m_nDays, y)
    BY <2>1, <2>2, Zenon
  <2>4. y \in Years /\ y <= LastYear
    BY <2>3 DEF Years, FirstYear, LastYear
  <2> QED
    BY <2>3, <2>4
<1>2. _GetDate(x) = <<y, n, k>>
  <2>1. _GetDate(x) = IF x.m_nDays <= 0 THEN <<FirstYear - 1, 0, x.m_nDays>> ELSE <<y, n, k>>
    BY Zenon DEF _GetDate
  <2> HIDE DEF y, n, k
  <2> QED
    BY <2>1
<1> HIDE DEF y
<1>3. DaysBeforeYear[y] \in Nat
  BY <1>1, YearsNat
<1>4. day \in Nat /\ day > 0
  <2>1. DaysBeforeYear[y] < x.m_nDays
    BY <1>1, Zenon DEF InYear
  <2> QED
    BY <1>3, <2>1
<1>5. Leap(y) \in BOOLEAN
  BY DEF Leap
<1> HIDE DEF day
<1>6. n \in 1..12 /\ InMonth(day, Leap(y), n)
  <2>1. \E nn \in 1..12 : InMonth(day, Leap(y), nn)
    BY <1>4, <1>5, SomeMonth
  <2>2. n = CHOOSE nn \in 1..12 : InMonth(day, Leap(y), nn)
    BY Zenon DEF InMonth
  <2> HIDE DEF n
  <2> QED
    BY <2>1, <2>2, Zenon
<1> HIDE DEF n
<1>7. DaysBeforeMonth[Leap(y)][n] \in Nat
  BY <1>5, <1>6, MonthsAre, TwelveMonths DEF MonthsCounted
<1>8. k \in Nat /\ k > 0 /\ day = DaysBeforeMonth[Leap(y)][n] + k
  <2>1. DaysBeforeMonth[Leap(y)][n] < day
    BY <1>6, Zenon DEF InMonth
  <2> QED
    BY <1>4, <1>7, <2>1
<1>9. x.m_nDays = DaysBeforeYear[y] + DaysBeforeMonth[Leap(y)][n] + k
  BY <1>3, <1>7, <1>8 DEF day
<1> HIDE DEF k
<1>10. InMonth(x.m_nDays - DaysBeforeYear[y], Leap(y), n)
  BY <1>6 DEF day
<1>11. y \in Years /\ n \in Months
  BY <1>1, <1>6 DEF Months
<1>12. IsDate(x, y, n, k)
  BY <1>1, <1>2, <1>8, <1>9, <1>10 DEF IsDate
<1> QED
  BY <1>8, <1>11, <1>12, Zenon
-----------------------------------------------------------------------------
(* The Julian day number counts what the two loops count.                  *)
FirstJulian == 2415021

(* The term of the Julian day for the months from March is the table of
   days.                                                                   *)
LEMMA MonthTerm ==
    ASSUME NEW n \in 1..12, NEW leap \in BOOLEAN
    PROVE  /\ n <= 2 => (153 * (n + 9) + 2) \div 5 = 306 + MonthsCounted(leap)[n]
           /\ n > 2 /\ leap => (153 * (n - 3) + 2) \div 5 = MonthsCounted(leap)[n] - 60
           /\ n > 2 /\ ~leap => (153 * (n - 3) + 2) \div 5 = MonthsCounted(leap)[n] - 59
           /\ MonthsCounted(leap)[n] \in Nat
<1>1. CASE leap = TRUE
  <2>1. MonthsCounted(leap) = <<0, 31, 60, 91, 121, 152, 182, 213, 244, 274, 305, 335>>
    BY <1>1 DEF MonthsCounted
  <2> QED
    BY <1>1, <2>1, TwelveMonths
<1>2. CASE leap = FALSE
  <2>1. MonthsCounted(leap) = <<0, 31, 59, 90, 120, 151, 181, 212, 243, 273, 304, 334>>
    BY <1>2 DEF MonthsCounted
  <2> QED
    BY <1>2, <2>1, TwelveMonths
<1> QED
  BY <1>1, <1>2

(* A year of the Julian day number begins in March of the year before 4800
   years.                                                                  *)
LEMMA Shifted ==
    ASSUME NEW n \in 1..12
    PROVE  (14 - n) \div 12 = IF n <= 2 THEN 1 ELSE 0
  OBVIOUS

(* Its leap years are those of the calendar.                               *)
LEMMA Centuries ==
    ASSUME NEW y \in Nat, y > 0, NEW z \in Nat, z = y + 4799
    PROVE  z \div 4 - z \div 100 + z \div 400 = 1164 + LeapsBefore(y)
<1>1. (y + 4799) \div 4 = 1200 + (y - 1) \div 4 - 0
  OBVIOUS
<1>2. (y + 4799) \div 100 = 48 + (y - 1) \div 100
  OBVIOUS
<1>3. (y + 4799) \div 400 = 12 + (y - 1) \div 400
  OBVIOUS
<1>4. (y - 1) \div 4 \in Int /\ (y - 1) \div 100 \in Int /\ (y - 1) \div 400 \in Int
  OBVIOUS
<1> QED
  BY <1>1, <1>2, <1>3, <1>4 DEF LeapsBefore

(* What the Julian day number of a date has come to.                       *)
JulianIs(y, n, k) ==
    /\ n <= 2 => JulianDay(<<y, n, k>>) = k + (153 * (n + 9) + 2) \div 5
                     + 365 * (y + 4799) + LeapsBefore(y) - 30881
    /\ n > 2 => JulianDay(<<y, n, k>>) = k + (153 * (n - 3) + 2) \div 5
                     + 365 * (y + 4800) + LeapsBefore(y + 1) - 30881
(* Before March the year is counted from the March before, and the leap day
   with it.                                                                *)
LEMMA JulianTerms ==
    ASSUME NEW y \in Years, NEW n \in Months, NEW k \in Nat
    PROVE  JulianIs(y, n, k)
<1>0. y \in 1900..2101 /\ n \in 1..12
  BY DEF Years, Months, FirstYear, LastYear
<1> DEFINE d == <<y, n, k>>
<1>1. d[1] = y /\ d[2] = n /\ d[3] = k
  OBVIOUS
<1> HIDE DEF d
<1>2. ASSUME NEW a \in {0, 1}, (14 - n) \div 12 = a
      PROVE  JulianDay(d) = k + (153 * (n + 12 * a - 3) + 2) \div 5
                 + 365 * (y + 4800 - a) + LeapsBefore(y + 1 - a) - 30881
  <2> DEFINE z == y + 4800 - a
             m == n + 12 * a - 3
             p == (153 * m + 2) \div 5
             sum == z \div 4 - z \div 100 + z \div 400
  <2>1. (14 - d[2]) \div 12 = a
    BY <1>1, <1>2
  <2>2. d[1] + 4800 - a = z /\ d[2] + 12 * a - 3 = m
    BY <1>1
  <2>3. z \in Nat /\ y + 1 - a \in Nat /\ y + 1 - a > 0 /\ z = (y + 1 - a) + 4799
    BY <1>0
  <2> HIDE DEF z, m
  <2>4. JulianDay(d) = LET yy == d[1] + 4800 - a IN
              d[3] + (153 * (d[2] + 12 * a - 3) + 2) \div 5 + 365 * yy
                   + yy \div 4 - yy \div 100 + yy \div 400 - 32045
    BY <2>1, SMT DEF JulianDay
  <2>5. JulianDay(d) = k + p + 365 * z + z \div 4 - z \div 100 + z \div 400 - 32045
    BY <1>1, <2>2, <2>4
  <2>6. sum = 1164 + LeapsBefore(y + 1 - a)
    BY <2>3, Centuries
  <2>7. z \div 4 \in Int /\ z \div 100 \in Int /\ z \div 400 \in Int
    BY <2>3
  <2>8. m \in Int /\ p \in Int
    BY <1>0 DEF m
  <2> HIDE DEF p
  <2>9. JulianDay(d) = k + p + 365 * z + sum - 32045
    BY <2>3, <2>5, <2>7, <2>8
  <2>10. LeapsBefore(y + 1 - a) \in Int /\ sum \in Int
    BY <2>3, <2>7 DEF LeapsBefore
  <2> HIDE DEF sum
  <2>11. JulianDay(d) = k + p + 365 * z + LeapsBefore(y + 1 - a) - 30881
    BY <2>3, <2>6, <2>8, <2>9, <2>10
  <2> QED
    BY <2>11 DEF p, z, m
<1>3. n <= 2 => JulianDay(d) = k + (153 * (n + 9) + 2) \div 5
                    + 365 * (y + 4799) + LeapsBefore(y) - 30881
  <2>1. n + 12 * 1 - 3 = n + 9 /\ y + 4800 - 1 = y + 4799 /\ y + 1 - 1 = y
    BY <1>0
  <2>2. n <= 2 => (14 - n) \div 12 = 1
    BY <1>0, Shifted
  <2> QED
    BY <1>2, <2>1, <2>2
<1>4. n > 2 => JulianDay(d) = k + (153 * (n - 3) + 2) \div 5
                    + 365 * (y + 4800) + LeapsBefore(y + 1) - 30881
  <2>1. n + 12 * 0 - 3 = n - 3 /\ y + 4800 - 0 = y + 4800 /\ y + 1 - 0 = y + 1
    BY <1>0
  <2>2. n > 2 => (14 - n) \div 12 = 0
    BY <1>0, Shifted
  <2> QED
    BY <1>2, <2>1, <2>2
<1> QED
  BY <1>3, <1>4 DEF d, JulianIs

(* So the Julian day number of a date is that of day 1 and the days
   counted.                                                                *)
LEMMA JulianOfDate ==
    ASSUME NEW y \in Years, NEW n \in Months, NEW k \in Nat
    PROVE  JulianDay(<<y, n, k>>) + 1 =
               FirstJulian + DaysBeforeYear[y] + DaysBeforeMonth[Leap(y)][n] + k
<1>j. JulianIs(y, n, k)
  BY JulianTerms, Zenon
<1>0. y \in 1900..2101 /\ n \in 1..12
  BY DEF Years, Months, FirstYear, LastYear
<1> DEFINE J == JulianDay(<<y, n, k>>)
           M == MonthsCounted(Leap(y))[n]
           p == (153 * (n + 9) + 2) \div 5
           q == (153 * (n - 3) + 2) \div 5
<1>1. Leap(y) \in BOOLEAN
  BY DEF Leap
<1>2. y \in Nat /\ y > 0 /\ y + 1 \in Nat /\ y + 1 > 0
  BY <1>0
<1>3. LeapsBefore(y) \in Int /\ LeapsBefore(y + 1) \in Int
  BY <1>2 DEF LeapsBefore
<1>4. DaysBeforeYear[y] = 365 * (y - 1900) + LeapsBefore(y) - 460
  BY <1>0, YearsRange
<1>5. DaysBeforeMonth[Leap(y)][n] = M /\ M \in Int
  BY <1>0, <1>1, MonthsAre, MonthTerm
<1>6. n <= 2 => J = k + p + 365 * (y + 4799) + LeapsBefore(y) - 30881
  BY <1>j DEF JulianIs
<1>7. n > 2 => J = k + q + 365 * (y + 4800) + LeapsBefore(y + 1) - 30881
  BY <1>j DEF JulianIs
<1>8. /\ n <= 2 => p = 306 + M
      /\ n > 2 /\ Leap(y) => q = M - 60
      /\ n > 2 /\ ~Leap(y) => q = M - 59
  BY <1>0, <1>1, MonthTerm
<1>9. /\ Leap(y) => LeapsBefore(y + 1) = LeapsBefore(y) + 1
      /\ ~Leap(y) => LeapsBefore(y + 1) = LeapsBefore(y)
  BY <1>2, <1>3, LeapStep
<1> HIDE DEF J, M, p, q
<1>10. J + 1 = FirstJulian + DaysBeforeYear[y] + M + k
  <2>1. CASE n <= 2
    BY <1>0, <1>3, <1>4, <1>5, <1>6, <1>8, <2>1 DEF FirstJulian
  <2>2. CASE n > 2 /\ Leap(y)
    BY <1>0, <1>3, <1>4, <1>5, <1>7, <1>8, <1>9, <2>2 DEF FirstJulian
  <2>3. CASE n > 2 /\ ~Leap(y)
    BY <1>0, <1>3, <1>4, <1>5, <1>7, <1>8, <1>9, <2>3 DEF FirstJulian
  <2>4. n <= 2 \/ (n > 2 /\ Leap(y)) \/ (n > 2 /\ ~Leap(y))
    BY <1>0
  <2> QED
    BY <2>1, <2>2, <2>3, <2>4, Zenon
<1> QED
  BY <1>5, <1>10 DEF J

-----------------------------------------------------------------------------
(* A day's time, in hours, minutes and seconds.                            *)
IsClock(x, h, min, s) == _GetTime(x) = <<h, min, s>> /\ SecondsOf(h, min, s) = x.m_nSeconds

(* The minutes of a count of seconds take nothing from its seconds.        *)
LEMMA Remainder == ASSUME NEW w \in Nat, NEW s \in 0..59 PROVE (60 * w + s) % 60 = s
  OBVIOUS

(* The seconds of a day have hours, minutes and seconds, and _GetTime gives
   them.                                                                   *)
LEMMA TimeOfSeconds ==
    ASSUME NEW x, x.m_nSeconds \in Nat, x.m_nSeconds < SECOND_PERDAY
    PROVE  \E h \in Hours, min \in Sixty, s \in Sixty : IsClock(x, h, min, s)
<1> DEFINE z == x.m_nSeconds
           q == z \div 3600
           r == z % 3600
<1>1. z \in Nat /\ z < 86400
  BY DEF SECOND_PERDAY
<1> HIDE DEF z
<1>2. q \in 0..23 /\ r \in 0..3599 /\ z = 3600 * q + r
  <2>1. q \in 0..23
    BY <1>1
  <2>2. r \in 0..3599
    BY <1>1
  <2> QED
    BY <1>1, <2>1, <2>2
<1> HIDE DEF q, r
<1>3. r \div 60 \in 0..59 /\ r % 60 \in 0..59 /\ r = 60 * (r \div 60) + (r % 60)
  BY <1>2
<1>4. z % 60 = r % 60
  <2>1. z = 60 * (60 * q + r \div 60) + (r % 60) /\ 60 * q + r \div 60 \in Nat
    BY <1>2, <1>3
  <2> QED
    BY <1>3, <2>1, Remainder
<1>5. _GetTime(x) = <<q, r \div 60, r % 60>>
  BY <1>4 DEF _GetTime, SECOND_PERHOUR, z, q, r
<1>6. SecondsOf(q, r \div 60, r % 60) = z
  BY <1>2, <1>3 DEF SecondsOf, SECOND_PERHOUR
<1> DEFINE min == r \div 60
           s == r % 60
<1>7. IsClock(x, q, min, s) /\ min \in 0..59 /\ s \in 0..59
  BY <1>3, <1>5, <1>6 DEF IsClock, z
<1> HIDE DEF min, s
<1>8. q \in Hours /\ min \in Sixty /\ s \in Sixty
  BY <1>2, <1>7 DEF Hours, Sixty
<1> QED
  BY <1>7, <1>8, Zenon

-----------------------------------------------------------------------------
(* Times and spans: the seconds are of one day.                            *)
Value == {x \in [m_nDays : Int, m_nSeconds : Nat] : x.m_nSeconds < SECOND_PERDAY}

(* A time on a day of the calendar or after it is constructed again of its
   date and its time of day.                                               *)
LEMMA ConstructedAgain ==
    ASSUME NEW x \in Value, x.m_nDays > 0
    PROVE  _SetDate(_GetDate(x), _GetTime(x)) = x
<1>1. x.m_nDays \in Nat /\ x.m_nSeconds \in Nat /\ x.m_nSeconds < SECOND_PERDAY
      /\ x = [m_nDays |-> x.m_nDays, m_nSeconds |-> x.m_nSeconds]
  BY DEF Value
<1>2. PICK y \in Years, n \in Months, k \in Nat : IsDate(x, y, n, k)
  BY <1>1, DateOfDay
<1>3. PICK h \in Hours, min \in Sixty, s \in Sixty : IsClock(x, h, min, s)
  BY <1>1, TimeOfSeconds
<1> DEFINE d == <<y, n, k>>
           c == <<h, min, s>>
<1>4. d[1] = y /\ d[2] = n /\ d[3] = k /\ c[1] = h /\ c[2] = min /\ c[3] = s
      /\ _GetDate(x) = d /\ _GetTime(x) = c
  BY <1>2, <1>3 DEF IsDate, IsClock
<1> HIDE DEF d, c
<1>5. _SetDate(d, c) = At(DaysBeforeYear[y] + DaysBeforeMonth[Leap(y)][n] + k, SecondsOf(h, min, s))
  BY <1>4 DEF _SetDate
<1>6. _SetDate(d, c) = At(x.m_nDays, x.m_nSeconds)
  BY <1>2, <1>3, <1>5, Zenon DEF IsDate, IsClock
<1> QED
  BY <1>1, <1>4, <1>6 DEF At

(* The weekday by the count of days is that by the Julian day number.      *)
LEMMA Weekday ==
    ASSUME NEW days \in Nat, NEW j \in Int, j + 1 = FirstJulian + days
    PROVE  (j + 1) % 7 = days % 7
  BY DEF FirstJulian

(* Julian day numbers are numbers.                                         *)
LEMMA JulianIsInt ==
    ASSUME NEW y \in Int, NEW n \in Int, NEW k \in Int
    PROVE  JulianDay(<<y, n, k>>) \in Int
<1> DEFINE d == <<y, n, k>>
<1>1. d[1] = y /\ d[2] = n /\ d[3] = k
  OBVIOUS
<1> HIDE DEF d
<1>2. PICK a \in Int : a = (14 - n) \div 12
  OBVIOUS
<1>3. PICK z \in Int : z = y + 4800 - a
  OBVIOUS
<1>4. PICK m \in Int : m = n + 12 * a - 3
  OBVIOUS
<1>5. (153 * m + 2) \div 5 \in Int /\ z \div 4 \in Int /\ z \div 100 \in Int /\ z \div 400 \in Int
  OBVIOUS
<1>6. JulianDay(d) = k + (153 * m + 2) \div 5 + 365 * z + z \div 4 - z \div 100 + z \div 400 - 32045
  BY <1>1, <1>2, <1>3, <1>4 DEF JulianDay
<1> QED
  BY <1>5, <1>6 DEF d

(* The last of a month comes before the first of the next.                 *)
LEMMA NextMonth ==
    ASSUME NEW y \in Years, NEW n \in Months, NEW k \in Nat, y <= LastYear, k > 0,
           n < 12 => DaysBeforeMonth[Leap(y)][n] + k <= DaysBeforeMonth[Leap(y)][n + 1],
           DaysBeforeMonth[Leap(y)][n] + k <= DaysOfYear(y)
    PROVE  JulianDay(<<y, n, k>>) < JulianDay(FirstOfNext(<<y, n, k>>))
<1>1. \A a \in Years, b \in Months, c \in Nat :
         /\ JulianDay(<<a, b, c>>) + 1 =
                FirstJulian + DaysBeforeYear[a] + DaysBeforeMonth[Leap(a)][b] + c
         /\ DaysBeforeYear[a] \in Nat /\ DaysBeforeMonth[Leap(a)][b] \in Nat
         /\ JulianDay(<<a, b, c>>) \in Int
  <2> TAKE a \in Years, b \in Months, c \in Nat
  <2>1. DaysBeforeYear[a] \in Nat
    BY YearsNat
  <2>2. DaysBeforeMonth[Leap(a)][b] \in Nat
    <3>1. Leap(a) \in BOOLEAN /\ b \in 1..12
      BY DEF Leap, Months
    <3> QED
      BY <3>1, MonthsAre, MonthTerm
  <2>3. JulianDay(<<a, b, c>>) \in Int
    <3>1. a \in Int /\ b \in Int /\ c \in Int
      BY YearsNat DEF Months
    <3> QED
      BY <3>1, JulianIsInt, Zenon
  <2>4. JulianDay(<<a, b, c>>) + 1 = FirstJulian + DaysBeforeYear[a] + DaysBeforeMonth[Leap(a)][b] + c
    BY JulianOfDate, Zenon
  <2> QED
    BY <2>1, <2>2, <2>3, <2>4, Zenon
<1>2. CASE n = 12
  <2>1. FirstOfNext(<<y, n, k>>) = <<y + 1, 1, 1>>
    BY <1>2 DEF FirstOfNext
  <2>2. y + 1 \in Years /\ 1 \in Months /\ 1 \in Nat
    BY NextYear DEF Months
  <2>3. DaysBeforeYear[y + 1] = DaysBeforeYear[y] + DaysOfYear(y) /\ DaysOfYear(y) \in Nat
    BY NextYear
  <2>4. DaysBeforeMonth[Leap(y + 1)][1] = 0
    <3>1. Leap(y + 1) \in BOOLEAN
      BY DEF Leap
    <3> QED
      BY <3>1, MonthsAre DEF MonthsCounted
  <2>5. PICK later \in Int : later = JulianDay(<<y + 1, 1, 1>>)
                         /\ later + 1 = FirstJulian + DaysBeforeYear[y + 1]
                                                   + DaysBeforeMonth[Leap(y + 1)][1] + 1
    <3> DEFINE z == y + 1
    <3>1. z \in Years /\ 1 \in Months /\ 1 \in Nat
      BY <2>2
    <3> HIDE DEF z
    <3>2. /\ JulianDay(<<z, 1, 1>>) + 1 = FirstJulian + DaysBeforeYear[z]
                                               + DaysBeforeMonth[Leap(z)][1] + 1
          /\ JulianDay(<<z, 1, 1>>) \in Int
      BY <1>1, <3>1, Zenon
    <3> QED
      BY <3>2, Zenon DEF z
  <2>6. PICK now \in Int : now = JulianDay(<<y, n, k>>)
                         /\ now + 1 = FirstJulian + DaysBeforeYear[y] + DaysBeforeMonth[Leap(y)][n] + k
    BY <1>1, Zenon
  <2>7. DaysBeforeYear[y] \in Nat /\ DaysBeforeMonth[Leap(y)][n] \in Nat
    BY <1>1, Zenon
  <2>8. now = JulianDay(<<y, n, k>>) /\ later = JulianDay(FirstOfNext(<<y, n, k>>))
    BY <2>1, <2>5, <2>6, Zenon
  <2>9. now < later
    <3> DEFINE a == DaysBeforeYear[y] b == DaysBeforeMonth[Leap(y)][n] c == DaysOfYear(y)
    <3>1. now + 1 = FirstJulian + a + b + k /\ b + k <= c /\ a \in Nat /\ b \in Nat /\ c \in Nat
      BY <2>3, <2>6, <2>7, Zenon
    <3>2. later + 1 = FirstJulian + (a + c) + 0 + 1
      BY <2>3, <2>4, <2>5, Zenon
    <3> HIDE DEF a, b, c
    <3> QED
      BY <3>1, <3>2 DEF FirstJulian
  <2> QED
    BY <2>8, <2>9, Zenon
<1>3. CASE n # 12
  <2>1. FirstOfNext(<<y, n, k>>) = <<y, n + 1, 1>>
    BY <1>3 DEF FirstOfNext
  <2>2. n + 1 \in Months /\ 1 \in Nat /\ n < 12
    BY <1>3 DEF Months
  <2>3. PICK later \in Int : later = JulianDay(<<y, n + 1, 1>>)
             /\ later + 1 = FirstJulian + DaysBeforeYear[y] + DaysBeforeMonth[Leap(y)][n + 1] + 1
    BY <1>1, <2>2, Zenon
  <2>4. PICK now \in Int : now = JulianDay(<<y, n, k>>)
                         /\ now + 1 = FirstJulian + DaysBeforeYear[y] + DaysBeforeMonth[Leap(y)][n] + k
    BY <1>1, Zenon
  <2>5. DaysBeforeYear[y] \in Nat /\ DaysBeforeMonth[Leap(y)][n] \in Nat
        /\ DaysBeforeMonth[Leap(y)][n + 1] \in Nat
    BY <1>1, <2>2, Zenon
  <2>6. now = JulianDay(<<y, n, k>>) /\ later = JulianDay(FirstOfNext(<<y, n, k>>))
    BY <2>1, <2>3, <2>4, Zenon
  <2>7. now < later
    <3> DEFINE a == DaysBeforeYear[y]
               b == DaysBeforeMonth[Leap(y)][n]
               c == DaysBeforeMonth[Leap(y)][n + 1]
    <3>1. now + 1 = FirstJulian + a + b + k /\ b + k <= c /\ a \in Nat /\ b \in Nat /\ c \in Nat
          /\ later + 1 = FirstJulian + a + c + 1
      BY <2>2, <2>3, <2>4, <2>5, Zenon
    <3> HIDE DEF a, b, c
    <3> QED
      BY <3>1 DEF FirstJulian
  <2> QED
    BY <2>6, <2>7, Zenon
<1> QED
  BY <1>2, <1>3

(* The days of the calendar that is counted are those of the reference.    *)
LEMMA DayOnCalendar ==
    ASSUME NEW x \in Value
    PROVE  OnTheCalendar(x)
<1> SUFFICES ASSUME 1 <= x.m_nDays, x.m_nDays <= LastDay
             PROVE  /\ JulianDay(_GetDate(x)) - JulianDay(<<1900, 1, 1>>) + 1 = x.m_nDays
                    /\ _GetDate(x)[3] >= 1
                    /\ JulianDay(_GetDate(x)) < JulianDay(FirstOfNext(_GetDate(x)))
                    /\ GetDayOfWeek(x) = ((JulianDay(_GetDate(x)) + 1) % 7) + 1
                    /\ _SetDate(_GetDate(x), _GetTime(x)) = x
  BY DEF OnTheCalendar, LastDay
<1>1. x.m_nDays \in Nat /\ x.m_nDays > 0 /\ x.m_nDays <= LastDay
  BY DEF Value
<1>2. PICK y \in Years, n \in Months, k \in Nat : IsDate(x, y, n, k)
  BY <1>1, DateOfDay
<1>3. PICK J \in Int : J = JulianDay(<<y, n, k>>)
  <2>1. y \in Int /\ n \in Int /\ k \in Int
    BY YearsNat DEF Months
  <2> QED
    BY <2>1, JulianIsInt, Zenon
<1>4. JulianDay(<<y, n, k>>) + 1 = FirstJulian + DaysBeforeYear[y] + DaysBeforeMonth[Leap(y)][n] + k
  BY JulianOfDate, Zenon
<1>5. DaysBeforeYear[y] \in Nat
  BY YearsNat
<1>6. DaysBeforeMonth[Leap(y)][n] \in Nat /\ Leap(y) \in BOOLEAN /\ n \in 1..12
  <2>1. Leap(y) \in BOOLEAN /\ n \in 1..12
    BY DEF Leap, Months
  <2> QED
    BY <2>1, MonthsAre, MonthTerm
<1>7. J + 1 = FirstJulian + x.m_nDays
  <2>1. PICK a \in Nat : a = DaysBeforeYear[y]
    BY <1>5, Zenon
  <2>2. PICK b \in Nat : b = DaysBeforeMonth[Leap(y)][n]
    BY <1>6, Zenon
  <2>3. x.m_nDays = a + b + k
    BY <1>2, <2>1, <2>2, Zenon DEF IsDate
  <2>4. J + 1 = FirstJulian + a + b + k
    BY <1>3, <1>4, <2>1, <2>2, Zenon
  <2> QED
    BY <2>3, <2>4 DEF FirstJulian
<1>8. JulianDay(<<1900, 1, 1>>) = FirstJulian
  BY DEF JulianDay, FirstJulian
<1>9. _GetDate(x) = <<y, n, k>> /\ k > 0 /\ y <= LastYear
  BY <1>2 DEF IsDate
<1>10. J - FirstJulian + 1 = x.m_nDays
  BY <1>1, <1>7 DEF FirstJulian
<1>11. J < JulianDay(FirstOfNext(<<y, n, k>>))
  <2>1. n < 12 => DaysBeforeMonth[Leap(y)][n] + k <= DaysBeforeMonth[Leap(y)][n + 1]
    <3>1. PICK a \in Nat : a = DaysBeforeYear[y]
      BY <1>5, Zenon
    <3>2. PICK b \in Nat : b = DaysBeforeMonth[Leap(y)][n]
      BY <1>6, Zenon
    <3>3. x.m_nDays = a + b + k
      BY <1>2, <3>1, <3>2, Zenon DEF IsDate
    <3>4. n < 12 => x.m_nDays - a <= DaysBeforeMonth[Leap(y)][n + 1]
      BY <1>2, <3>1, Zenon DEF IsDate, InMonth
    <3>5. x.m_nDays - a = b + k
      BY <3>3
    <3> QED
      BY <3>2, <3>4, <3>5, Zenon
  <2>3. DaysBeforeYear[y + 1] = DaysBeforeYear[y] + DaysOfYear(y) /\ DaysOfYear(y) \in Nat
        /\ y + 1 \in Years
    BY <1>9, NextYear
  <2>4. x.m_nDays <= DaysBeforeYear[y + 1]
    <3>1. CASE y < LastYear
      BY <1>2, <3>1, Zenon DEF IsDate, InYear
    <3>2. CASE ~(y < LastYear)
      <4>1. y = LastYear
        BY <1>9, <3>2, YearsNat, Ends
      <4>2. DaysBeforeYear[y + 1] = LastDay
        BY <4>1, Ends, Zenon
      <4> QED
        BY <1>1, <4>2, Zenon
    <3> QED
      BY <3>1, <3>2
  <2>5. DaysBeforeMonth[Leap(y)][n] + k <= DaysOfYear(y)
    <3>1. PICK a \in Nat : a = DaysBeforeYear[y]
      BY <1>5, Zenon
    <3>2. PICK b \in Nat : b = DaysBeforeMonth[Leap(y)][n]
      BY <1>6, Zenon
    <3>3. x.m_nDays = a + b + k
      BY <1>2, <3>1, <3>2, Zenon DEF IsDate
    <3>4. PICK c \in Nat : c = DaysOfYear(y)
      BY <2>3, Zenon
    <3>5. x.m_nDays <= a + c
      BY <2>3, <2>4, <3>1, <3>4, Zenon
    <3>6. b + k <= c
      BY <3>3, <3>5
    <3> QED
      BY <3>2, <3>4, <3>6, Zenon
  <2> QED
    BY <1>3, <1>9, <2>1, <2>5, NextMonth
<1>12. (J + 1) % 7 = x.m_nDays % 7
  BY <1>1, <1>7, Weekday
<1>13. _SetDate(_GetDate(x), _GetTime(x)) = x
  BY <1>1, ConstructedAgain
<1> QED
  BY <1>3, <1>8, <1>9, <1>10, <1>11, <1>12, <1>13 DEF GetDayOfWeek

-----------------------------------------------------------------------------
(* The calendar of CTime's copy.                                           *)
LEMMA SameCalendar ==
    /\ C!DaysBeforeYear = DaysBeforeYear /\ C!DaysBeforeMonth = DaysBeforeMonth
    /\ C!SECOND_PERDAY = SECOND_PERDAY /\ C!SECOND_PERHOUR = SECOND_PERHOUR
<1>1. C!YearsAdded = YearsAdded
  BY SMT DEF C!YearsAdded, YearsAdded, C!FirstYear, FirstYear, C!LastYear, LastYear,
             C!DaysOfYear, DaysOfYear, C!Leap, Leap
<1>2. C!DaysBeforeMonth = DaysBeforeMonth
  BY SMT DEF C!DaysBeforeMonth, DaysBeforeMonth, C!anMonthDay, anMonthDay
<1> QED
  BY <1>1, <1>2
     DEF C!DaysBeforeYear, DaysBeforeYear, C!FirstYear, FirstYear, C!LastYear, LastYear,
         C!SECOND_PERDAY, SECOND_PERDAY, C!SECOND_PERHOUR, SECOND_PERHOUR

(* Its conversions are those of the calendar.                              *)
LEMMA SameDate ==
    /\ \A x : C!_GetDate(x) = _GetDate(x) /\ C!_GetTime(x) = _GetTime(x)
    /\ \A d, c : C!_SetDate(d, c) = _SetDate(d, c)
    /\ \A x : C!OnTheCalendar(x) <=> OnTheCalendar(x)
<1>1. ASSUME NEW x PROVE C!_GetDate(x) = _GetDate(x) /\ C!_GetTime(x) = _GetTime(x)
  BY SameCalendar
     DEF C!_GetDate, _GetDate, C!FirstYear, FirstYear, C!LastYear, LastYear,
         C!Leap, Leap, C!_GetTime, _GetTime
<1>2. ASSUME NEW d, NEW c PROVE C!_SetDate(d, c) = _SetDate(d, c)
  BY SameCalendar DEF C!_SetDate, _SetDate, C!Leap, Leap, C!SecondsOf, SecondsOf, C!At, At
<1>3. ASSUME NEW d PROVE C!JulianDay(d) = JulianDay(d)
  BY DEF C!JulianDay, JulianDay
<1>4. ASSUME NEW x PROVE C!OnTheCalendar(x) <=> OnTheCalendar(x)
  BY <1>1, <1>2, <1>3
     DEF C!OnTheCalendar, OnTheCalendar, C!FirstOfNext, FirstOfNext, C!GetDayOfWeek, GetDayOfWeek
<1> QED
  BY <1>1, <1>2, <1>4

-----------------------------------------------------------------------------
(* The quotient and the remainder of C, of what is not negative.           *)
LEMMA Division ==
    ASSUME NEW a \in Nat
    PROVE  /\ C!Quot(a, C!SECOND_PERDAY) = a \div C!SECOND_PERDAY
           /\ C!Rem(a, C!SECOND_PERDAY) = a % C!SECOND_PERDAY
           /\ C!Rem(a, C!SECOND_PERDAY) \in Nat /\ C!Rem(a, C!SECOND_PERDAY) < C!SECOND_PERDAY
<1>1. C!Quot(a, 86400) = a \div 86400
  BY SMT DEF C!Quot
<1>2. a % 86400 \in Nat /\ a % 86400 < 86400 /\ a - 86400 * (a \div 86400) = a % 86400
  BY SMT
<1> QED BY <1>1, <1>2, SMT DEF C!Rem, C!SECOND_PERDAY

(* Two seconds of a day add up to less than two days.                      *)
LEMMA Carry ==
    ASSUME NEW a \in Nat, NEW b \in Nat, a < C!SECOND_PERDAY, b < C!SECOND_PERDAY
    PROVE  /\ a + b < C!SECOND_PERDAY =>
                C!Quot(a + b, C!SECOND_PERDAY) = 0 /\ C!Rem(a + b, C!SECOND_PERDAY) = a + b
           /\ a + b >= C!SECOND_PERDAY =>
                /\ C!Quot(a + b, C!SECOND_PERDAY) = 1
                /\ C!Rem(a + b, C!SECOND_PERDAY) = a + b - C!SECOND_PERDAY
  BY DEF C!Quot, C!Rem, C!SECOND_PERDAY

(* A sum and a difference of values is a value.                            *)
LEMMA PlusIsValue == \A x, s \in Value : C!Plus(x, s) \in Value
  BY Carry DEF C!Plus, C!At, Value, SECOND_PERDAY, C!SECOND_PERDAY
(* So is a difference.                                                     *)
LEMMA MinusIsValue == \A x, s \in Value : C!Minus(x, s) \in Value
  BY DEF C!Minus, C!At, Value, SECOND_PERDAY, C!SECOND_PERDAY

(* operator - undoes operator + (Time.cpp:386-432).                        *)
THEOREM SubtractUndoesAdd == \A x, s \in Value : C!Minus(C!Plus(x, s), s) = x
<1> SUFFICES ASSUME NEW x \in Value, NEW s \in Value
             PROVE  C!Minus(C!Plus(x, s), s) = x
  OBVIOUS
<1>1. CASE x.m_nSeconds + s.m_nSeconds < C!SECOND_PERDAY
  <2>1. C!Plus(x, s) = C!At(x.m_nDays + s.m_nDays, x.m_nSeconds + s.m_nSeconds)
    BY <1>1, Carry DEF C!Plus, Value, SECOND_PERDAY, C!SECOND_PERDAY
  <2> QED BY <2>1 DEF C!Minus, C!At, Value, SECOND_PERDAY, C!SECOND_PERDAY
<1>2. CASE x.m_nSeconds + s.m_nSeconds >= C!SECOND_PERDAY
  <2>1. C!Plus(x, s) = C!At(x.m_nDays + s.m_nDays + 1,
                        x.m_nSeconds + s.m_nSeconds - C!SECOND_PERDAY)
    BY <1>2, Carry DEF C!Plus, Value, SECOND_PERDAY, C!SECOND_PERDAY
  <2> QED BY <1>2, <2>1 DEF C!Minus, C!At, Value, SECOND_PERDAY, C!SECOND_PERDAY
<1> QED BY <1>1, <1>2 DEF Value, SECOND_PERDAY, C!SECOND_PERDAY

(* operator + undoes operator -, of a span and, with the difference of two
   times for the span, of a time (Time.cpp:386-468).                       *)
THEOREM AddUndoesSubtract ==
    \A x, y \in Value : C!Plus(C!Minus(x, y), y) = x /\ C!Plus(y, C!Minus(x, y)) = x
<1> SUFFICES ASSUME NEW x \in Value, NEW y \in Value
             PROVE  C!Plus(C!Minus(x, y), y) = x /\ C!Plus(y, C!Minus(x, y)) = x
  OBVIOUS
<1>1. CASE x.m_nSeconds < y.m_nSeconds
  <2> DEFINE d == C!Minus(x, y)
  <2>1. d.m_nDays = x.m_nDays - 1 - y.m_nDays
        /\ d.m_nSeconds = C!SECOND_PERDAY + x.m_nSeconds - y.m_nSeconds
    BY <1>1 DEF C!Minus, C!At
  <2>2. d.m_nSeconds \in Nat /\ d.m_nSeconds < C!SECOND_PERDAY
        /\ d.m_nSeconds + y.m_nSeconds >= C!SECOND_PERDAY
    BY <1>1, <2>1 DEF Value, SECOND_PERDAY, C!SECOND_PERDAY
  <2>3. C!Quot(d.m_nSeconds + y.m_nSeconds, C!SECOND_PERDAY) = 1
        /\ C!Rem(d.m_nSeconds + y.m_nSeconds, C!SECOND_PERDAY) = x.m_nSeconds
    BY <2>1, <2>2, Carry DEF Value, SECOND_PERDAY, C!SECOND_PERDAY
  <2>4. d.m_nSeconds + y.m_nSeconds = y.m_nSeconds + d.m_nSeconds
    BY <2>2 DEF Value, SECOND_PERDAY, C!SECOND_PERDAY
  <2> QED BY <2>1, <2>3, <2>4 DEF C!Plus, C!At, Value, SECOND_PERDAY
<1>2. CASE ~(x.m_nSeconds < y.m_nSeconds)
  <2> DEFINE d == C!Minus(x, y)
  <2>1. d.m_nDays = x.m_nDays - y.m_nDays /\ d.m_nSeconds = x.m_nSeconds - y.m_nSeconds
    BY <1>2 DEF C!Minus, C!At
  <2>2. d.m_nSeconds \in Nat /\ d.m_nSeconds < C!SECOND_PERDAY
        /\ d.m_nSeconds + y.m_nSeconds < C!SECOND_PERDAY
    BY <1>2, <2>1 DEF Value, SECOND_PERDAY, C!SECOND_PERDAY
  <2>3. C!Quot(d.m_nSeconds + y.m_nSeconds, C!SECOND_PERDAY) = 0
        /\ C!Rem(d.m_nSeconds + y.m_nSeconds, C!SECOND_PERDAY) = x.m_nSeconds
    BY <2>1, <2>2, Carry DEF Value, SECOND_PERDAY, C!SECOND_PERDAY
  <2>4. d.m_nSeconds + y.m_nSeconds = y.m_nSeconds + d.m_nSeconds
    BY <2>2 DEF Value, SECOND_PERDAY, C!SECOND_PERDAY
  <2> QED BY <2>1, <2>3, <2>4 DEF C!Plus, C!At, Value, SECOND_PERDAY
<1> QED BY <1>1, <1>2

(* The order of times is the sign of their difference, and times are equal
   whose difference is nothing (Time.cpp:278-309, 445-468).                *)
THEOREM OrderIsSign ==
    \A x, y \in Value :
        /\ C!Less(x, y) <=> C!Minus(x, y).m_nDays < 0
        /\ C!Equal(x, y) <=> x = y
  BY DEF C!Less, C!Equal, C!Minus, C!At, Value, SECOND_PERDAY, C!SECOND_PERDAY

-----------------------------------------------------------------------------
(* Hours, minutes and seconds in range are within a day.                   *)
LEMMA ConstructedWithinDay ==
    ASSUME NEW h \in 0..23, NEW min \in 0..59, NEW s \in 0..59
    PROVE  C!SecondsOf(h, min, s) \in Nat /\ C!SecondsOf(h, min, s) < C!SECOND_PERDAY
  BY DEF C!SecondsOf, C!SECOND_PERHOUR, C!SECOND_PERDAY

(* What FlattenSeq adds up: f[i] is the first i of the sequences.          *)
Accumulates(f, s, S) ==
    /\ f \in [0..Len(s) -> Seq(S)] /\ f[0] = <<>>
    /\ \A i \in 1..Len(s) : f[i] = f[i - 1] \o s[i]

(* Every sequence of sequences adds up, step by step.                      *)
LEMMA PrefixesExist ==
    ASSUME NEW S, NEW s \in Seq(Seq(S))
    PROVE  \E f : Accumulates(f, s, S)
<1> DEFINE P(f, m) == /\ f \in [0..m -> Seq(S)] /\ f[0] = <<>>
                      /\ \A i \in 1..m : f[i] = f[i - 1] \o s[i]
           T == {m \in Nat : m <= Len(s) /\ ~ \E f : P(f, m)}
<1>1. T \subseteq Nat
  OBVIOUS
<1>2. \A m \in T : m \in Nat /\ m <= Len(s) /\ ~ \E f : P(f, m)
  OBVIOUS
<1>3. \A m \in Nat : m <= Len(s) /\ m \notin T => \E f : P(f, m)
  OBVIOUS
<1>4. Len(s) \in Nat
  OBVIOUS
<1> HIDE DEF T
<1>5. T = {}
  <2> SUFFICES ASSUME T # {} PROVE FALSE
    OBVIOUS
  <2>1. PICK m \in T : \A l \in T : m <= l
    BY <1>1, Least
  <2>2. m \in Nat /\ m <= Len(s)
    BY <1>2
  <2>3. CASE m = 0
    <3>1. <<>> \in Seq(S)
      OBVIOUS
    <3>2. P([i \in 0..0 |-> <<>>], 0)
      BY <3>1, SMTT(20)
    <3> QED
      BY <1>2, <2>3, <3>2
  <2>4. CASE m # 0
    <3>1. m - 1 \in Nat /\ m - 1 <= Len(s) /\ m - 1 \notin T
      BY <2>1, <2>2, <2>4, <1>1
    <3>2. PICK f : P(f, m - 1)
      BY <1>3, <3>1
    <3> DEFINE g == [i \in 0..m |-> IF i = m THEN f[m - 1] \o s[m] ELSE f[i]]
    <3>3. f[m - 1] \in Seq(S) /\ s[m] \in Seq(S)
      <4>1. m \in 1..Len(s) /\ m - 1 \in 0..(m - 1)
        BY <2>2, <2>4
      <4> QED
        BY <3>2, <4>1, ElementOfSeq
    <3>4. f[m - 1] \o s[m] \in Seq(S)
      BY <3>3, ConcatProperties
    <3>5. g \in [0..m -> Seq(S)]
      BY <2>2, <2>4, <3>2, <3>4
    <3>6. g[0] = <<>>
      <4>1. f[0] = <<>>
        BY <3>2
      <4>2. 0 \in 0..m /\ 0 # m
        BY <2>2, <2>4
      <4> QED
        BY <4>1, <4>2
    <3>7. ASSUME NEW i \in 1..m PROVE g[i] = g[i - 1] \o s[i]
      <4>1. CASE i = m
        <5>1. m \in 0..m /\ m - 1 \in 0..m /\ m - 1 # m
          BY <2>2, <2>4
        <5>2. g[m] = f[m - 1] \o s[m] /\ g[m - 1] = f[m - 1]
          BY <5>1
        <5> QED
          BY <4>1, <5>2
      <4>2. CASE i # m
        <5>1. i \in 1..(m - 1) /\ i \in 0..m /\ i - 1 \in 0..m /\ i - 1 # m
          BY <2>2, <2>4, <4>2
        <5> QED
          BY <3>2, <4>2, <5>1
      <4> QED
        BY <4>1, <4>2
    <3>8. P(g, m)
      BY <3>5, <3>6, <3>7
    <3> QED
      BY <1>2, <3>8
  <2> QED
    BY <2>3, <2>4
<1>6. \E f : P(f, Len(s))
  <2>1. Len(s) <= Len(s) /\ Len(s) \notin T
    BY <1>4, <1>5
  <2> HIDE DEF P
  <2> QED
    BY <1>3, <1>4, <2>1
<1> QED
  BY <1>6 DEF Accumulates

(* What FlattenSeq defines by recursion.                                   *)
Flattens(g, s, n) == g = [i \in 1..n |-> IF i = 1 THEN s[i] ELSE g[i - 1] \o s[i]]

(* There is one way to add up.                                             *)
LEMMA PrefixesOne ==
    ASSUME NEW S, NEW s \in Seq(Seq(S)), NEW f, NEW g, Accumulates(f, s, S),
           NEW n \in Nat, n <= Len(s), n > 0,
           Flattens(g, s, n)
    PROVE  \A i \in 1..n : g[i] = f[i]
<1> DEFINE T == {i \in Nat : i \in 1..n /\ g[i] # f[i]}
<1>1. T \subseteq Nat
  OBVIOUS
<1>2. \A i \in T : i \in 1..n /\ g[i] # f[i]
  OBVIOUS
<1>3. \A i \in 1..n : i \notin T => g[i] = f[i]
  OBVIOUS
<1> HIDE DEF T
<1>4. T = {}
  <2> SUFFICES ASSUME T # {} PROVE FALSE
    OBVIOUS
  <2>1. PICK i \in T : \A l \in T : i <= l
    BY <1>1, Least
  <2>2. i \in 1..n /\ g[i] # f[i] /\ i \in 1..Len(s)
    <3>1. i \in 1..n /\ g[i] # f[i]
      BY <1>2, Zenon
    <3>2. Len(s) \in Nat
      BY LenProperties, Zenon
    <3>3. \A k \in 1..n : k \in 1..Len(s)
      BY <3>2
    <3> QED
      BY <3>1, <3>3, Zenon
  <2>3. f[i] = f[i - 1] \o s[i]
    BY <2>2 DEF Accumulates
  <2>4. g[i] = IF i = 1 THEN s[i] ELSE g[i - 1] \o s[i]
    <3>1. g = [k \in 1..n |-> IF k = 1 THEN s[k] ELSE g[k - 1] \o s[k]]
      BY DEF Flattens
    <3> QED
      BY <2>2, <3>1
  <2>5. CASE i = 1
    <3>1. s[1] \in Seq(S) /\ f[0] = <<>>
      BY <2>2, <2>5, ElementOfSeq DEF Accumulates
    <3>2. <<>> \o s[1] = s[1]
      BY <3>1, ConcatEmptySeq
    <3>3. 1 - 1 = 0
      OBVIOUS
    <3>4. f[1] = f[0] \o s[1] /\ g[1] = s[1]
      BY <2>3, <2>4, <2>5, <3>3, Zenon
    <3> QED
      BY <2>2, <2>5, <3>1, <3>2, <3>4, Zenon
  <2>6. CASE i # 1
    <3>1. i - 1 \in 1..n /\ ~(i <= i - 1)
      BY <2>2, <2>6
    <3>2. g[i - 1] = f[i - 1]
      BY <1>3, <2>1, <3>1
    <3> QED
      BY <2>2, <2>3, <2>4, <2>6, <3>2
  <2> QED
    BY <2>5, <2>6
<1> QED
  BY <1>3, <1>4

(* FlattenSeq is what the sequences add up to.                             *)
LEMMA FlattenIs ==
    ASSUME NEW S, NEW s \in Seq(Seq(S)), NEW f, Accumulates(f, s, S)
    PROVE  FlattenSeq(s) = f[Len(s)]
<1>0. Len(s) \in Nat
  OBVIOUS
<1>1. CASE Len(s) = 0
  <2>1. s = <<>>
    BY <1>1, EmptySeq
  <2> QED
    BY <1>1, <2>1 DEF FlattenSeq, Accumulates
<1>2. CASE Len(s) # 0
  <2> DEFINE n == Len(s)
             Step(g) == [i \in 1..n |-> IF i = 1 THEN s[i] ELSE g[i - 1] \o s[i]]
             flatten == CHOOSE g : g = Step(g)
             h == [i \in 1..n |-> f[i]]
  <2>1. FlattenSeq(s) = flatten[n]
    BY <1>2, Zenon DEF FlattenSeq
  <2>2. h = Step(h)
    <3>1. ASSUME NEW i \in 1..n PROVE h[i] = IF i = 1 THEN s[i] ELSE h[i - 1] \o s[i]
      <4>1. f[i] = f[i - 1] \o s[i]
        BY DEF Accumulates
      <4>2. CASE i = 1
        <5>1. s[1] \in Seq(S) /\ f[0] = <<>>
          BY <4>2, ElementOfSeq DEF Accumulates
        <5>2. <<>> \o s[1] = s[1]
          BY <5>1, ConcatEmptySeq
        <5> QED
          <6>1. 1 - 1 = 0
            OBVIOUS
          <6>2. f[1] = f[0] \o s[1]
            BY <4>1, <4>2, <6>1, Zenon
          <6>3. h[1] = f[1]
            BY <4>2
          <6> QED
            BY <4>2, <5>1, <5>2, <6>2, <6>3
      <4>3. CASE i # 1
        <5>1. i - 1 \in 1..n
          BY <4>3
        <5> QED
          BY <4>1, <4>3, <5>1
      <4> QED
        BY <4>2, <4>3
    <3> QED
      BY <3>1
  <2>3. \A g : Step(g) = [i \in 1..n |-> IF i = 1 THEN s[i] ELSE g[i - 1] \o s[i]]
    OBVIOUS
  <2> HIDE DEF Step, h
  <2>4. flatten = Step(flatten)
    BY <2>2, Zenon
  <2> HIDE DEF flatten
  <2>5. \A i \in 1..n : flatten[i] = f[i]
    <3>1. Flattens(flatten, s, n)
      BY <2>3, <2>4 DEF Flattens
    <3>2. n \in Nat /\ n <= Len(s) /\ n > 0
      BY <1>0, <1>2
    <3> HIDE DEF n
    <3> QED
      BY <3>1, <3>2, PrefixesOne
  <2>6. n \in 1..n
    BY <1>0, <1>2
  <2> QED
    BY <2>1, <2>5, <2>6
<1> QED
  BY <1>1, <1>2

(* A text followed by what is left of another.                             *)
LEMMA Cut ==
    ASSUME NEW S, NEW h \in Seq(S), NEW c \in Seq(S), NEW p \in 0..Len(c)
    PROVE  LET z == h \o SubSeq(c, p + 1, Len(c)) IN
           /\ z \in Seq(S) /\ Len(z) = Len(h) + Len(c) - p
           /\ \A i \in 1..Len(h) : z[i] = h[i]
           /\ \A i \in (p + 1)..Len(c) : z[Len(h) + i - p] = c[i]
<1> DEFINE rest == SubSeq(c, p + 1, Len(c))
           z == h \o rest
<1>1. Len(c) \in Nat /\ Len(h) \in Nat /\ p \in Nat /\ p <= Len(c)
  OBVIOUS
<1>2. \A i \in (p + 1)..Len(c) : c[i] \in S
  BY <1>1
<1>3. /\ rest \in Seq(S) /\ Len(rest) = Len(c) - p
      /\ \A i \in 1..(Len(c) - p) : rest[i] = c[p + i]
  <2>1. p + 1 \in Int /\ Len(c) \in Int
    BY <1>1
  <2>2. /\ rest \in Seq(S)
        /\ Len(rest) = IF p + 1 <= Len(c) THEN Len(c) - (p + 1) + 1 ELSE 0
        /\ \A i \in 1..(Len(c) - (p + 1) + 1) : rest[i] = c[(p + 1) + i - 1]
    BY <1>2, <2>1, SubSeqProperties
  <2>3. Len(c) - (p + 1) + 1 = Len(c) - p
    BY <1>1
  <2>4. Len(rest) = Len(c) - p
    BY <1>1, <2>2
  <2>5. ASSUME NEW i \in 1..(Len(c) - p) PROVE rest[i] = c[p + i]
    <3>1. (p + 1) + i - 1 = p + i
      BY <1>1
    <3> QED
      BY <2>2, <2>3, <3>1
  <2> QED
    BY <2>2, <2>4, <2>5
<1> HIDE DEF rest
<1>4. /\ z \in Seq(S) /\ Len(z) = Len(h) + Len(rest)
      /\ \A i \in 1..(Len(h) + Len(rest)) : z[i] = IF i <= Len(h) THEN h[i] ELSE rest[i - Len(h)]
  BY <1>3, ConcatProperties
<1>5. Len(z) = Len(h) + Len(c) - p
  BY <1>1, <1>3, <1>4
<1>6. ASSUME NEW i \in 1..Len(h) PROVE z[i] = h[i]
  <2>1. i \in 1..(Len(h) + Len(rest)) /\ i <= Len(h)
    BY <1>1, <1>3
  <2> QED
    BY <1>4, <2>1
<1>7. ASSUME NEW i \in (p + 1)..Len(c) PROVE z[Len(h) + i - p] = c[i]
  <2>1. Len(h) + i - p \in 1..(Len(h) + Len(rest)) /\ ~(Len(h) + i - p <= Len(h))
        /\ (Len(h) + i - p) - Len(h) = i - p /\ i - p \in 1..(Len(c) - p) /\ p + (i - p) = i
    BY <1>1, <1>3
  <2>2. z[Len(h) + i - p] = rest[i - p]
    BY <1>4, <2>1
  <2>3. rest[i - p] = c[p + (i - p)]
    BY <1>3, <2>1
  <2> QED
    BY <2>1, <2>2, <2>3
<1> HIDE DEF z
<1> QED
  BY <1>4, <1>5, <1>6, <1>7 DEF z, rest

(* What is left, cut once more.                                            *)
LEMMA CutAgain ==
    ASSUME NEW S, NEW h \in Seq(S), NEW c \in Seq(S), NEW p \in 0..Len(c), NEW q \in p..Len(c)
    PROVE  h \o SubSeq(c, p + 1, Len(c)) = (h \o SubSeq(c, p + 1, q)) \o SubSeq(c, q + 1, Len(c))
<1>1. Len(c) \in Nat /\ p \in Nat /\ p <= q /\ q <= Len(c) /\ q \in Nat
  OBVIOUS
<1>2. p + 1 \in 1..(Len(c) + 1) /\ q \in ((p + 1) - 1)..Len(c) /\ Len(c) \in q..Len(c)
  BY <1>1
<1>3. SubSeq(c, p + 1, q) \o SubSeq(c, q + 1, Len(c)) = SubSeq(c, p + 1, Len(c))
  BY <1>2, ConcatAdjacentSubSeq
<1>4. SubSeq(c, p + 1, q) \in Seq(S) /\ SubSeq(c, q + 1, Len(c)) \in Seq(S)
  <2>1. \A i \in (p + 1)..q : c[i] \in S
    BY <1>1
  <2>2. \A i \in (q + 1)..Len(c) : c[i] \in S
    BY <1>1
  <2>3. p + 1 \in Int /\ q \in Int /\ q + 1 \in Int /\ Len(c) \in Int
    BY <1>1
  <2> QED
    BY <2>1, <2>2, <2>3, SubSeqProperties
<1>5. (h \o SubSeq(c, p + 1, q)) \o SubSeq(c, q + 1, Len(c))
          = h \o (SubSeq(c, p + 1, q) \o SubSeq(c, q + 1, Len(c)))
  <2> DEFINE a == SubSeq(c, p + 1, q)
             b == SubSeq(c, q + 1, Len(c))
  <2>1. a \in Seq(S) /\ b \in Seq(S)
    BY <1>4
  <2> HIDE DEF a, b
  <2>2. (h \o a) \o b = h \o (a \o b)
    BY <2>1, ConcatAssociative, SMTT(30)
  <2> QED
    BY <2>2 DEF a, b
<1> QED
  BY <1>3, <1>5

(* The text before the cut, and what follows a place behind it.            *)
LEMMA CutParts ==
    ASSUME NEW S, NEW h \in Seq(S), NEW c \in Seq(S), NEW p \in 0..Len(c), NEW k \in Nat
    PROVE  LET z == h \o SubSeq(c, p + 1, Len(c)) IN
           /\ SubSeq(z, 1, Len(h)) = h
           /\ SubSeq(z, Len(h) + k + 1, Len(z)) = SubSeq(c, p + k + 1, Len(c))
<1> DEFINE z == h \o SubSeq(c, p + 1, Len(c))
<1>1. /\ z \in Seq(S) /\ Len(z) = Len(h) + Len(c) - p
      /\ \A i \in 1..Len(h) : z[i] = h[i]
      /\ \A i \in (p + 1)..Len(c) : z[Len(h) + i - p] = c[i]
  BY Cut
<1> HIDE DEF z
<1>2. Len(h) \in Nat /\ Len(c) \in Nat /\ p \in Nat /\ p <= Len(c) /\ Len(z) \in Nat
  BY <1>1
<1>3. SubSeq(z, 1, Len(h)) = h
  <2> DEFINE a == SubSeq(z, 1, Len(h))
  <2>1. \A i \in 1..Len(h) : z[i] \in S
    BY <1>1
  <2>2. /\ a \in Seq(S) /\ Len(a) = IF 1 <= Len(h) THEN Len(h) - 1 + 1 ELSE 0
        /\ \A i \in 1..(Len(h) - 1 + 1) : a[i] = z[1 + i - 1]
    BY <1>2, <2>1, SubSeqProperties
  <2> HIDE DEF a
  <2>3. Len(a) = Len(h)
    BY <1>2, <2>2
  <2>4. ASSUME NEW i \in 1..Len(a) PROVE a[i] = h[i]
    <3>1. i \in 1..(Len(h) - 1 + 1) /\ 1 + i - 1 = i /\ i \in 1..Len(h)
      BY <1>2, <2>3
    <3> QED
      BY <1>1, <2>2, <3>1
  <2>5. a = h
    BY <2>2, <2>3, <2>4, SeqEqual
  <2> QED
    BY <2>5 DEF a
<1>4. SubSeq(z, Len(h) + k + 1, Len(z)) = SubSeq(c, p + k + 1, Len(c))
  <2> DEFINE m == Len(h) + k + 1
             o == p + k + 1
             a == SubSeq(z, m, Len(z))
             b == SubSeq(c, o, Len(c))
  <2>1. m \in Int /\ o \in Int /\ m >= 1 /\ o >= 1 /\ Len(z) - m + 1 = Len(c) - o + 1
    BY <1>1, <1>2
  <2>2. \A i \in m..Len(z) : z[i] \in S
    BY <1>1, <1>2
  <2>3. \A i \in o..Len(c) : c[i] \in S
    BY <1>2
  <2>4. /\ a \in Seq(S) /\ Len(a) = IF m <= Len(z) THEN Len(z) - m + 1 ELSE 0
        /\ \A i \in 1..(Len(z) - m + 1) : a[i] = z[m + i - 1]
    BY <1>2, <2>1, <2>2, SubSeqProperties
  <2>5. /\ b \in Seq(S) /\ Len(b) = IF o <= Len(c) THEN Len(c) - o + 1 ELSE 0
        /\ \A i \in 1..(Len(c) - o + 1) : b[i] = c[o + i - 1]
    BY <1>2, <2>1, <2>3, SubSeqProperties
  <2> HIDE DEF a, b
  <2>6. Len(a) = Len(b)
    <3> HIDE DEF m, o
    <3> QED
      BY <1>2, <2>1, <2>4, <2>5
  <2>7. ASSUME NEW i \in 1..Len(a) PROVE a[i] = b[i]
    <3>1. i \in 1..(Len(z) - m + 1) /\ i \in 1..(Len(c) - o + 1)
      BY <1>2, <2>1, <2>4
    <3>2. a[i] = z[m + i - 1] /\ b[i] = c[o + i - 1]
      BY <2>4, <2>5, <3>1
    <3>3. o + i - 1 \in (p + 1)..Len(c) /\ Len(h) + (o + i - 1) - p = m + i - 1
      BY <1>2, <3>1
    <3>4. z[Len(h) + (o + i - 1) - p] = c[o + i - 1]
      BY <1>1, <3>3
    <3> QED
      BY <3>2, <3>3, <3>4
  <2>8. a = b
    BY <2>4, <2>5, <2>6, <2>7, SeqEqual
  <2> QED
    BY <2>8 DEF a, b
<1> QED
  BY <1>3, <1>4 DEF z

(* The characters a format and its result are made of.                     *)
Chars == Int \cup {PERCENT, DAYS, HOURS, MINUTES, SECONDS, LETTER}
(* What the characters of the pattern are to become.                       *)
pieces == [p \in 1..Len(x5) |-> C!Piece(p)]

(* What is put in for a conversion has one character, or two digits.       *)
LEMMA ValueShape ==
    ASSUME x4 \in Value, NEW c \in Chars
    PROVE  /\ C!_GetValue(c) \in Seq(Chars)
           /\ Len(C!_GetValue(c)) \in 1..2
           /\ Len(C!_GetValue(c)) = 2 => C!_GetValue(c)[2] \in Nat
<1>1. x4.m_nDays \in Int /\ x4.m_nSeconds \in Nat /\ x4.m_nSeconds < SECOND_PERDAY
  BY DEF Value
<1>2. PICK h \in Hours, min \in Sixty, s \in Sixty : IsClock(x4, h, min, s)
  BY <1>1, TimeOfSeconds
<1>3. C!_GetTime(x4) = <<h, min, s>>
  BY <1>2, SameDate DEF IsClock
<1>4. C!_GetTime(x4)[1] \in Nat /\ C!_GetTime(x4)[2] \in Nat /\ C!_GetTime(x4)[3] \in Nat
  BY <1>3 DEF Hours, Sixty
<1>5. ASSUME NEW n \in Nat
      PROVE  C!Digits(n) = <<n \div 10, n % 10>> /\ n \div 10 \in Chars /\ n % 10 \in Chars
             /\ n % 10 \in Nat
  BY DEF C!Digits, Chars
<1>6. \/ C!_GetValue(c) = <<x4.m_nDays>> \/ C!_GetValue(c) = <<c>>
      \/ \E n \in Nat : C!_GetValue(c) = C!Digits(n)
  BY <1>4 DEF C!_GetValue
<1>7. CASE C!_GetValue(c) = <<x4.m_nDays>> \/ C!_GetValue(c) = <<c>>
  <2>1. PICK a \in Chars : C!_GetValue(c) = <<a>>
    BY <1>1, <1>7 DEF Chars
  <2> QED
    BY <2>1
<1>8. CASE \E n \in Nat : C!_GetValue(c) = C!Digits(n)
  <2>1. PICK a \in Chars, b \in Chars : C!_GetValue(c) = <<a, b>> /\ b \in Nat
    BY <1>5, <1>8
  <2> QED
    BY <2>1
<1> QED
  BY <1>6, <1>7, <1>8

(* Counting is the same in both modules.                                   *)
LEMMA SameCardinality == \A S : C!Cardinality(S) = Cardinality(S)
  BY DEF C!Cardinality, Cardinality

(* The % that stand without a gap up to p.                                 *)
Run(p) == {x \in 1..p : \A y \in x..p : x5[y] = PERCENT}

(* They can be counted.                                                    *)
LEMMA RunIsFinite == ASSUME NEW p \in Int PROVE IsFiniteSet(Run(p))
<1>1. IsFiniteSet(1..p)
  BY FS_Interval
<1>2. Run(p) \subseteq 1..p
  BY DEF Run
<1> QED
  BY <1>1, <1>2, FS_Subset

(* A % converts unless the one before it does.                             *)
LEMMA ConvertsStep ==
    ASSUME x5 \in Seq(Chars), NEW p \in 1..Len(x5)
    PROVE  C!Converts(p) <=> p < Len(x5) /\ x5[p] = PERCENT /\ ~C!Converts(p - 1)
<1>1. \A q : C!Converts(q) <=> q \in 1..(Len(x5) - 1) /\ Cardinality(Run(q)) % 2 = 1
  BY SameCardinality DEF C!Converts, Run
<1>2. Len(x5) \in Nat /\ p \in Nat /\ p > 0 /\ p <= Len(x5)
  OBVIOUS
<1>3. CASE x5[p] # PERCENT
  <2>1. Run(p) = {}
    BY <1>2, <1>3 DEF Run
  <2>2. Cardinality(Run(p)) = 0
    BY <2>1, FS_EmptySet
  <2> QED
    BY <1>1, <1>3, <2>2
<1>4. CASE x5[p] = PERCENT
  <2>1. Run(p) = Run(p - 1) \cup {p} /\ p \notin Run(p - 1)
    <3>1. ASSUME NEW x \in Run(p), x # p PROVE x \in Run(p - 1)
      BY <1>2, <3>1 DEF Run
    <3>2. ASSUME NEW x \in Run(p - 1) PROVE x \in Run(p)
      BY <1>2, <1>4 DEF Run
    <3>3. p \in Run(p)
      BY <1>2, <1>4 DEF Run
    <3>4. p \notin Run(p - 1)
      BY <1>2 DEF Run
    <3> QED
      BY <3>1, <3>2, <3>3, <3>4
  <2>2. IsFiniteSet(Run(p - 1))
    BY <1>2, RunIsFinite
  <2>3. PICK k \in Nat : k = Cardinality(Run(p - 1))
    BY <2>2, FS_CardinalityType
  <2>4. Cardinality(Run(p)) = k + 1
    BY <2>1, <2>2, <2>3, FS_AddElement
  <2>5. (k + 1) % 2 = 1 <=> ~(k % 2 = 1)
    OBVIOUS
  <2>6. CASE p = 1
    <3>1. Run(0) = {}
      BY DEF Run
    <3>2. k = 0
      <4>1. p - 1 = 0
        BY <2>6
      <4>2. Cardinality(Run(0)) = 0
        BY <3>1, FS_EmptySet
      <4> QED
        BY <2>3, <4>1, <4>2
    <3>3. ~C!Converts(0) /\ p - 1 = 0
      BY <1>1, <2>6
    <3> QED
      BY <1>1, <1>2, <1>4, <2>4, <2>5, <3>2, <3>3
  <2>7. CASE p # 1
    <3>1. p - 1 \in 1..(Len(x5) - 1)
      BY <1>2, <2>7
    <3>2. C!Converts(p - 1) <=> k % 2 = 1
      BY <1>1, <2>3, <3>1
    <3>3. C!Converts(p) <=> p \in 1..(Len(x5) - 1) /\ (k + 1) % 2 = 1
      BY <1>1, <2>4
    <3> QED
      BY <1>2, <1>4, <2>5, <3>2, <3>3
  <2> QED
    BY <2>6, <2>7
<1> QED
  BY <1>3, <1>4

(* Every character of the pattern becomes a text.                          *)
LEMMA PiecesAre ==
    ASSUME x4 \in Value, x5 \in Seq(Chars)
    PROVE  pieces \in Seq(Seq(Chars)) /\ Len(pieces) = Len(x5)
<1>1. Len(x5) \in Nat
  OBVIOUS
<1>2. ASSUME NEW p \in 1..Len(x5) PROVE C!Piece(p) \in Seq(Chars)
  <2>1. x5[p] \in Chars
    OBVIOUS
  <2>2. C!Converts(p) => p + 1 \in 1..Len(x5)
    BY ConvertsStep
  <2>3. CASE C!Converts(p)
    <3>1. x5[p + 1] \in Chars
      BY <2>2, <2>3
    <3> QED
      BY <2>3, <3>1, ValueShape DEF C!Piece
  <2>4. CASE ~C!Converts(p)
    <3>1. C!Piece(p) = <<>> \/ C!Piece(p) = <<x5[p]>>
      BY <2>4 DEF C!Piece
    <3>2. PICK a \in Chars : a = x5[p]
      BY <2>1
    <3>3. <<a>> \in Seq(Chars) /\ <<>> \in Seq(Chars)
      OBVIOUS
    <3> QED
      BY <3>1, <3>2, <3>3, Zenon
  <2> QED
    BY <2>3, <2>4
<1>3. pieces \in [1..Len(x5) -> Seq(Chars)]
  BY <1>2 DEF pieces
<1> QED
  BY <1>1, <1>3

(* A text taken up to one character more.                                  *)
LEMMA NextOne ==
    ASSUME NEW S, NEW h \in Seq(S), NEW c \in Seq(S), NEW p \in 0..Len(c), NEW i \in (p + 1)..Len(c)
    PROVE  (h \o SubSeq(c, p + 1, i - 1)) \o <<c[i]>> = h \o SubSeq(c, p + 1, i)
<1>1. Len(c) \in Nat /\ p \in Nat /\ i \in Nat /\ p + 1 <= i /\ i <= Len(c)
  OBVIOUS
<1>2. SubSeq(c, p + 1, i) = SubSeq(c, p + 1, i - 1) \o <<c[i]>>
  <2>1. p + 1 \in 1..Len(c) /\ i \in (p + 1)..Len(c)
    BY <1>1
  <2> QED
    BY <2>1, SubSeqRecursiveSecond
<1> DEFINE a == SubSeq(c, p + 1, i - 1)
           b == <<c[i]>>
<1>3. a \in Seq(S)
  <2>1. \A k \in (p + 1)..(i - 1) : c[k] \in S
    BY <1>1
  <2>2. p + 1 \in Int /\ i - 1 \in Int
    BY <1>1
  <2> QED
    BY <2>1, <2>2, SubSeqProperties
<1>4. b \in Seq(S)
  <2>1. c[i] \in S
    BY <1>1
  <2> QED
    BY <2>1
<1> HIDE DEF a, b
<1>5. (h \o a) \o b = h \o (a \o b)
  BY <1>3, <1>4, ConcatAssociative
<1> QED
  BY <1>2, <1>5, Zenon DEF a, b

(* As long as nothing converts, the characters stand for themselves.       *)
LEMMA Verbatim ==
    ASSUME x4 \in Value, x5 \in Seq(Chars), NEW f, Accumulates(f, pieces, Chars),
           NEW p \in 0..Len(x5), NEW q \in p..Len(x5),
           \A i \in p..q : ~C!Converts(i)
    PROVE  f[q] = f[p] \o SubSeq(x5, p + 1, q)
<1>1. Len(x5) \in Nat /\ p \in Nat /\ q \in Nat /\ p <= q /\ q <= Len(x5) /\ Len(pieces) = Len(x5)
  BY PiecesAre
<1> DEFINE R(i) == f[i] = f[p] \o SubSeq(x5, p + 1, i)
           T == {i \in Nat : i \in p..q /\ ~R(i)}
<1> HIDE DEF R
<1>2. T \subseteq Nat
  OBVIOUS
<1>3. \A i \in T : i \in p..q /\ ~R(i)
  OBVIOUS
<1>4. \A i \in p..q : i \notin T => R(i)
  BY <1>1
<1> HIDE DEF T
<1>5. f[p] \in Seq(Chars)
  BY <1>1 DEF Accumulates
<1>6. T = {}
  <2> SUFFICES ASSUME T # {} PROVE FALSE
    OBVIOUS
  <2>1. PICK i \in T : \A l \in T : i <= l
    BY <1>2, Least
  <2>2. i \in p..q /\ f[i] # f[p] \o SubSeq(x5, p + 1, i)
    BY <1>3 DEF R
  <2>3. i \in Nat /\ p <= i /\ i <= q
    BY <1>1, <2>2
  <2>4. CASE i = p
    <3>1. SubSeq(x5, p + 1, p) = <<>>
      BY <1>1, SubSeqEmpty
    <3>2. f[p] \o <<>> = f[p]
      BY <1>5, ConcatEmptySeq
    <3> QED
      BY <2>2, <2>4, <3>1, <3>2
  <2>5. CASE i # p
    <3>1. i - 1 \in p..q /\ ~(i <= i - 1) /\ i \in 1..Len(x5)
      BY <1>1, <2>3, <2>5
    <3>2. f[i - 1] = f[p] \o SubSeq(x5, p + 1, i - 1)
      BY <1>4, <2>1, <3>1 DEF R
    <3>3. C!Piece(i) = <<x5[i]>>
      BY <2>2, <3>1 DEF C!Piece
    <3>4. f[i] = f[i - 1] \o pieces[i]
      BY <1>1, <3>1 DEF Accumulates
    <3>5. pieces[i] = <<x5[i]>>
      BY <3>1, <3>3 DEF pieces
    <3>6. i \in (p + 1)..Len(x5)
      BY <1>1, <2>3, <2>5
    <3>7. x5 \in Seq(Chars) /\ p \in 0..Len(x5)
      BY <1>1
    <3>8. (f[p] \o SubSeq(x5, p + 1, i - 1)) \o <<x5[i]>> = f[p] \o SubSeq(x5, p + 1, i)
      BY <1>5, <3>6, <3>7, NextOne, Zenon
    <3> QED
      BY <2>2, <3>2, <3>4, <3>5, <3>8
  <2> QED
    BY <2>4, <2>5
<1>7. q \in p..q /\ q \notin T
  BY <1>1, <1>6
<1> QED
  BY <1>4, <1>7 DEF R

(* What is done of the first p characters, and the others.                 *)
Text(f, p) == f[p] \o SubSeq(x5, p + 1, Len(x5))

(* Format, searching z from n on: it has dealt with the first p characters. *)
Searching(f, z, n) ==
    \E p \in 0..Len(x5) :
        /\ ~C!Converts(p) /\ z = Text(f, p) /\ n \in Nat /\ n <= Len(f[p])
        /\ \A i \in 1..Len(f[p]) : n < i => f[p][i] # PERCENT
(* Format, about to replace the conversion that begins at r.               *)
Replacing(f, z, n) ==
    \E r \in 1..Len(x5) : C!Converts(r) /\ z = Text(f, r - 1) /\ n = Len(f[r - 1])

(* Min gives the least member.                                             *)
LEMMA LeastOf ==
    ASSUME NEW T, T \subseteq Nat, T # {}
    PROVE  C!Min(T) \in T /\ \A y \in T : C!Min(T) <= y
<1>1. PICK i \in T : \A l \in T : i <= l
  BY Least
<1>2. C!Min(T) = CHOOSE x \in T : \A y \in T : x <= y
  BY DEF C!Min
<1> QED
  BY <1>1, <1>2, Zenon

(* Where in that text the pattern is.                                      *)
LEMMA TextIs ==
    ASSUME x4 \in Value, x5 \in Seq(Chars), NEW f, Accumulates(f, pieces, Chars), NEW p \in 0..Len(x5)
    PROVE  /\ f[p] \in Seq(Chars) /\ Len(f[p]) \in Nat
           /\ Text(f, p) \in Seq(Chars) /\ Len(Text(f, p)) = Len(f[p]) + Len(x5) - p
           /\ \A i \in 1..Len(f[p]) : Text(f, p)[i] = f[p][i]
           /\ \A i \in (p + 1)..Len(x5) : Text(f, p)[Len(f[p]) + i - p] = x5[i]
<1>1. f[p] \in Seq(Chars)
  BY PiecesAre DEF Accumulates
<1>2. Len(f[p]) \in Nat
  BY <1>1
<1> DEFINE h == f[p]
<1>3. h \in Seq(Chars)
  BY <1>1
<1>4. LET z == h \o SubSeq(x5, p + 1, Len(x5)) IN
           /\ z \in Seq(Chars) /\ Len(z) = Len(h) + Len(x5) - p
           /\ \A i \in 1..Len(h) : z[i] = h[i]
           /\ \A i \in (p + 1)..Len(x5) : z[Len(h) + i - p] = x5[i]
  <2> HIDE DEF h
  <2> QED
    BY <1>3, Cut
<1>5. Text(f, p) = h \o SubSeq(x5, p + 1, Len(x5))
  BY DEF Text
<1> QED
  BY <1>1, <1>2, <1>4, <1>5

(* The first % that something follows is the next that converts.           *)
LEMMA FindStep ==
    ASSUME x4 \in Value, x5 \in Seq(Chars), NEW f, Accumulates(f, pieces, Chars),
           Searching(f, x6, x7), x1 = "find", C!FindPercent
    PROVE  \/ x1' = "replace" /\ x6' = x6 /\ Replacing(f, x6, x7')
           \/ x1' = "formatted" /\ x6' = x6 /\ x6 = f[Len(x5)]
<1>1. PICK p \in 0..Len(x5) :
        /\ ~C!Converts(p) /\ x6 = Text(f, p) /\ x7 \in Nat /\ x7 <= Len(f[p])
        /\ \A i \in 1..Len(f[p]) : x7 < i => f[p][i] # PERCENT
  BY DEF Searching
<1> DEFINE L == Len(x5)
           h == Len(f[p])
<1>2. /\ f[p] \in Seq(Chars) /\ h \in Nat
      /\ Len(x6) = h + L - p
      /\ \A i \in 1..h : x6[i] = f[p][i]
      /\ \A i \in (p + 1)..L : x6[h + i - p] = x5[i]
  BY <1>1, TextIs
<1>3. L \in Nat /\ p \in Nat /\ p <= L
  OBVIOUS
<1> DEFINE P == C!Percents(x6, x7)
<1>4. P = {x \in x7..(Len(x6) - 1) : x6[x + 1] = PERCENT}
  BY DEF C!Percents
<1>5. IF \E x \in P : x + 1 < Len(x6)
      THEN x1' = "replace" /\ x7' = C!Min(P) ELSE x1' = "formatted"
  BY DEF C!FindPercent
<1>6. x6' = x6
  BY DEF C!FindPercent
<1> HIDE DEF P, L, h
<1>7. Len(x6) \in Nat /\ h \in Nat /\ Len(x6) = h + L - p
  BY <1>2, <1>3
<1>8. \A x \in P : x \in Nat /\ x7 <= x /\ x <= Len(x6) - 1 /\ x6[x + 1] = PERCENT
  BY <1>1, <1>4, <1>7
<1>9. \A x \in Nat : x7 <= x /\ x <= Len(x6) - 1 /\ x6[x + 1] = PERCENT => x \in P
  BY <1>1, <1>4, <1>7
<1>10. \A i \in 1..L : C!Converts(i) => i < L /\ x5[i] = PERCENT
  BY ConvertsStep DEF L
<1>11. CASE \E x \in P : x + 1 < Len(x6)
  <2>1. P # {} /\ P \subseteq Nat
    BY <1>8, <1>11
  <2>2. C!Min(P) \in P /\ \A y \in P : C!Min(P) <= y
    BY <2>1, LeastOf
  <2>3. PICK m \in P : m = C!Min(P) /\ \A y \in P : m <= y
    BY <2>2
  <2>4. x7' = m /\ x1' = "replace"
    BY <1>5, <1>11, <2>3
  <2>5. m \in Nat /\ x7 <= m /\ m + 1 < Len(x6) /\ x6[m + 1] = PERCENT
    BY <1>7, <1>8, <1>11, <2>3
  <2>6. h <= m
    <3> SUFFICES ASSUME m < h PROVE FALSE
      BY <1>2, <2>5
    <3>1. m + 1 \in 1..h /\ x7 < m + 1
      BY <1>1, <1>2, <2>5
    <3>2. x6[m + 1] = f[p][m + 1] /\ f[p][m + 1] # PERCENT
      BY <1>1, <1>2, <3>1 DEF h
    <3> QED
      BY <2>5, <3>2
  <2>7. PICK r \in Int : r = p + m + 1 - h
    BY <1>2, <1>3, <2>5
  <2>8. r \in 1..L /\ p + 1 <= r /\ r < L /\ h + r - p = m + 1 /\ r - 1 \in p..L /\ r \in (p + 1)..L
    BY <1>2, <1>3, <2>5, <2>6, <2>7
  <2>9. x5[r] = PERCENT
    BY <1>2, <2>5, <2>8
  <2>10. ASSUME NEW i \in p..(r - 1) PROVE ~C!Converts(i)
    <3>1. CASE i = p
      BY <1>1, <3>1
    <3>2. CASE i # p
      <4>0. i \in Int /\ p < i /\ i <= r - 1
        BY <1>3, <2>8, <3>2
      <4>1. i \in (p + 1)..L /\ h + i - p \in Nat /\ h + i - p >= 1 /\ h + i - p <= m /\ i \in 1..L
        BY <1>3, <1>7, <2>5, <2>7, <2>8, <4>0
      <4>2. x6[h + i - p] = x5[i]
        BY <1>2, <4>1
      <4>3. PICK k \in Nat : k = h + i - p - 1 /\ k + 1 = h + i - p /\ k < m /\ k >= h
        BY <1>3, <1>7, <2>5, <4>0, <4>1
      <4>4. k \notin P
        BY <2>3, <2>5, <4>3
      <4>5. x6[k + 1] # PERCENT
        <5>1. x7 <= k /\ k <= Len(x6) - 1
          BY <1>1, <1>7, <2>5, <4>3 DEF h
        <5> QED
          BY <1>9, <4>3, <4>4, <5>1
      <4> QED
        BY <1>10, <4>1, <4>2, <4>3, <4>5
    <3> QED
      BY <3>1, <3>2
  <2>11. C!Converts(r)
    <3>1. r - 1 \in p..(r - 1)
      BY <1>3, <2>8
    <3>2. ~C!Converts(r - 1)
      BY <2>10, <3>1
    <3> QED
      BY <2>8, <2>9, <3>2, ConvertsStep DEF L
  <2>12. f[r - 1] = f[p] \o SubSeq(x5, p + 1, r - 1)
    <3>1. r - 1 \in p..Len(x5)
      BY <2>8 DEF L
    <3> QED
      BY <2>10, <3>1, Verbatim
  <2>13. x6 = Text(f, r - 1)
    <3>1. r - 1 \in p..Len(x5) /\ (r - 1) + 1 = r
      BY <2>8 DEF L
    <3>2. f[p] \o SubSeq(x5, p + 1, Len(x5))
            = (f[p] \o SubSeq(x5, p + 1, r - 1)) \o SubSeq(x5, (r - 1) + 1, Len(x5))
      BY <1>2, <3>1, CutAgain
    <3> QED
      BY <1>1, <2>12, <3>2 DEF Text
  <2>14. Len(f[r - 1]) = m
    <3>1. r - 1 \in 0..Len(x5)
      BY <1>3, <2>8 DEF L
    <3>2. Len(x6) = Len(f[r - 1]) + L - (r - 1) /\ Len(f[r - 1]) \in Nat
      BY <2>13, <3>1, TextIs DEF L
    <3>3. PICK k \in Nat : k = Len(f[r - 1]) /\ Len(x6) = k + L - (r - 1)
      BY <3>2
    <3>4. h + L - p = k + L - (r - 1)
      BY <1>7, <3>3
    <3>5. m \in Nat
      BY <2>5
    <3>6. r - 1 = p + m - h
      BY <1>3, <1>7, <2>7, <3>5
    <3>7. k = m
      BY <1>3, <1>7, <3>4, <3>5, <3>6
    <3> QED
      BY <3>3, <3>7
  <2>15. Replacing(f, x6, x7')
    BY <2>4, <2>8, <2>11, <2>13, <2>14 DEF Replacing, L
  <2> QED
    BY <1>6, <2>4, <2>15
<1>12. CASE ~ \E x \in P : x + 1 < Len(x6)
  <2>1. ASSUME NEW i \in p..L PROVE ~C!Converts(i)
    <3>1. CASE i = p
      BY <1>1, <3>1
    <3>2. CASE i # p
      <4>1. i \in (p + 1)..L /\ i \in 1..L
        BY <1>3, <3>2
      <4>2. CASE i < L
        <5>1. PICK k \in Nat : k = h + i - p - 1 /\ k + 1 = h + i - p /\ k >= h /\ k + 1 < Len(x6)
          BY <1>2, <1>3, <4>1, <4>2
        <5>2. x7 <= k /\ k <= Len(x6) - 1
          BY <1>1, <1>2, <1>7, <5>1 DEF h
        <5>3. k \notin P
          BY <1>12, <5>1
        <5>4. x6[k + 1] # PERCENT
          BY <1>9, <5>2, <5>3
        <5>5. x6[h + i - p] = x5[i]
          BY <1>2, <4>1
        <5> QED
          BY <1>10, <4>1, <5>1, <5>4, <5>5
      <4>3. CASE ~(i < L)
        BY <1>10, <4>1, <4>3
      <4> QED
        BY <4>2, <4>3
    <3> QED
      BY <3>1, <3>2
  <2>2. f[L] = f[p] \o SubSeq(x5, p + 1, L)
    <3>1. L \in p..Len(x5)
      BY <1>3 DEF L
    <3> QED
      BY <2>1, <3>1, Verbatim DEF L
  <2>3. x6 = f[Len(x5)]
    BY <1>1, <2>2 DEF Text, L
  <2> QED
    BY <1>5, <1>6, <1>12, <2>3
<1> QED
  BY <1>11, <1>12

(* What is put in for a conversion stands before the rest, and holds no % but
   in the place of the conversion.                                         *)
LEMMA ReplaceStep ==
    ASSUME PERCENT \notin Nat, x4 \in Value, x5 \in Seq(Chars),
           NEW f, Accumulates(f, pieces, Chars), Replacing(f, x6, x7), C!ReplacePercent
    PROVE  x1' = "find" /\ Searching(f, x6', x7')
<1>1. PICK r \in 1..Len(x5) : C!Converts(r) /\ x6 = Text(f, r - 1) /\ x7 = Len(f[r - 1])
  BY DEF Replacing
<1> DEFINE L == Len(x5)
           v == C!_GetValue(x5[r + 1])
<1>2. L \in Nat /\ r \in Nat /\ r >= 1 /\ r < L
  BY <1>1, ConvertsStep
<1>3. r - 1 \in 0..Len(x5) /\ r \in 0..Len(x5) /\ r + 1 \in 1..Len(x5) /\ r + 1 \in 0..Len(x5)
      /\ r \in 1..Len(x5) /\ (r + 1) - 1 = r
  BY <1>2
<1>4. /\ f[r - 1] \in Seq(Chars) /\ x7 \in Nat
      /\ Len(x6) = x7 + L - (r - 1)
      /\ \A i \in ((r - 1) + 1)..L : x6[x7 + i - (r - 1)] = x5[i]
  BY <1>1, <1>3, TextIs
<1>5. x5[r + 1] \in Chars
  BY <1>3
<1>6. v \in Seq(Chars) /\ (Len(v) = 1 \/ Len(v) = 2) /\ (Len(v) = 2 => v[2] \in Nat)
  BY <1>5, ValueShape
<1>7. x6[x7 + 2] = x5[r + 1]
  <2>1. r + 1 \in ((r - 1) + 1)..L /\ x7 + (r + 1) - (r - 1) = x7 + 2
    BY <1>2, <1>4
  <2> QED
    BY <1>4, <2>1
<1>8. SubSeq(x6, 1, x7) = f[r - 1] /\ SubSeq(x6, x7 + 3, Len(x6)) = SubSeq(x5, (r + 1) + 1, L)
  <2> DEFINE h == f[r - 1]
             q == r - 1
  <2>1. h \in Seq(Chars) /\ q \in 0..Len(x5) /\ x7 = Len(h) /\ x6 = h \o SubSeq(x5, q + 1, Len(x5))
    BY <1>1, <1>3, <1>4 DEF Text
  <2> HIDE DEF h, q
  <2>2. 2 \in Nat
    OBVIOUS
  <2>3. /\ SubSeq(x6, 1, x7) = h
        /\ SubSeq(x6, x7 + 2 + 1, Len(x6)) = SubSeq(x5, q + 2 + 1, Len(x5))
    BY <2>1, <2>2, CutParts
  <2>4. x7 + 2 + 1 = x7 + 3 /\ q + 2 + 1 = (r + 1) + 1
    BY <1>2, <1>4 DEF q
  <2> QED
    BY <2>3, <2>4 DEF h
<1>9. x6' = (f[r - 1] \o v) \o SubSeq(x5, (r + 1) + 1, L) /\ x7' = x7 + 1 /\ x1' = "find"
  BY <1>7, <1>8 DEF C!ReplacePercent
<1>10. ~C!Converts(r + 1)
  BY <1>1, <1>3, ConvertsStep
<1>11. f[r] = f[r - 1] \o v
  <2>1. pieces[r] = v
    BY <1>1 DEF pieces, C!Piece
  <2>2. f[r] = f[r - 1] \o pieces[r]
    BY <1>3, PiecesAre DEF Accumulates
  <2> QED
    BY <2>1, <2>2
<1>12. f[r] \in Seq(Chars)
  BY <1>3, TextIs
<1>13. f[r + 1] = f[r]
  <2>1. pieces[r + 1] = <<>>
    BY <1>1, <1>3, <1>10 DEF pieces, C!Piece
  <2>2. f[r + 1] = f[(r + 1) - 1] \o pieces[r + 1]
    BY <1>3, PiecesAre DEF Accumulates
  <2>3. f[r] \o <<>> = f[r]
    BY <1>12, ConcatEmptySeq
  <2> QED
    BY <1>3, <2>1, <2>2, <2>3
<1>14. x6' = Text(f, r + 1)
  BY <1>9, <1>11, <1>13, Zenon DEF Text
<1> DEFINE h == f[r - 1]
           g == f[r + 1]
<1>15. /\ Len(g) = Len(h) + Len(v) /\ Len(h) = x7
       /\ \A i \in 1..Len(g) : Len(h) < i => g[i] = v[i - Len(h)]
  <2>1. g = h \o v /\ h \in Seq(Chars) /\ v \in Seq(Chars)
    BY <1>4, <1>6, <1>11, <1>13
  <2>2. Len(h) = x7
    BY <1>1
  <2> HIDE DEF g, h, v
  <2> QED
    BY <2>1, <2>2, ConcatProperties
<1> HIDE DEF g, h, v
<1>16. ASSUME NEW i \in 1..Len(g), x7 + 1 < i PROVE g[i] # PERCENT
  <2>1. Len(h) < i /\ i - Len(h) = 2 /\ Len(v) = 2
    BY <1>4, <1>6, <1>15, <1>16
  <2>2. g[i] = v[2]
    BY <1>15, <2>1
  <2> QED
    BY <1>6, <2>1, <2>2
<1>17. x7' = x7 + 1 /\ x7' \in Nat
  BY <1>4, <1>9
<1>18. x7' <= Len(g)
  <2>1. Len(v) = 1 \/ Len(v) = 2
    BY <1>6, Zenon
  <2>2. Len(g) = x7 + 1 \/ Len(g) = x7 + 2
    BY <1>15, <2>1, Zenon
  <2>3. x7 \in Nat
    BY <1>4
  <2>4. x7 + 1 <= x7 + 1 /\ x7 + 1 <= x7 + 2
    BY <2>3
  <2> QED
    BY <1>17, <2>2, <2>4, Zenon
<1>19. \A i \in 1..Len(g) : x7' < i => g[i] # PERCENT
  BY <1>16, <1>17
<1> QED
  BY <1>3, <1>9, <1>10, <1>14, <1>17, <1>18, <1>19 DEF Searching, g

-----------------------------------------------------------------------------
(* Where a behaviour of CTime and CTimeSpan may be.                        *)
States == {"compute", "find", "replace", "formatted"}

(* What Format has dealt with is what the conversions of the pattern stand for. *)
FormatInv ==
    /\ x1 \in States /\ x5 \in Seq(Chars)
    /\ \A f : Accumulates(f, pieces, Chars) =>
          /\ x1 = "find" => Searching(f, x6, x7)
          /\ x1 = "replace" => Replacing(f, x6, x7)
          /\ x1 = "formatted" => x6 = f[Len(x5)]

(* The inductive invariant of CTime and CTimeSpan: values are values, and Format
   is where it says.                                                       *)
TimeInv == x2 \in Value /\ x3 \in Value /\ x4 \in Value /\ FormatInv

(* In such a state a result is what the conversions stand for.             *)
LEMMA FormatRightHolds == ASSUME TimeInv PROVE C!FormatRight
<1> SUFFICES ASSUME x1 = "formatted"
             PROVE  x6 = C!FlattenSeq([p \in 1..Len(x5) |-> C!Piece(p)])
  BY DEF C!FormatRight
<1>1. x5 \in Seq(Chars) /\ x4 \in Value
  BY DEF TimeInv, FormatInv
<1>2. pieces \in Seq(Seq(Chars)) /\ Len(pieces) = Len(x5)
  BY <1>1, PiecesAre
<1>3. PICK f : Accumulates(f, pieces, Chars)
  BY <1>2, PrefixesExist
<1>4. FlattenSeq(pieces) = f[Len(x5)]
  BY <1>2, <1>3, FlattenIs
<1>5. x6 = f[Len(x5)]
  BY <1>3 DEF TimeInv, FormatInv
<1>6. C!FlattenSeq(pieces) = FlattenSeq(pieces)
  BY DEF C!FlattenSeq, FlattenSeq
<1> QED
  BY <1>4, <1>5, <1>6 DEF pieces

(* What a date and a time of day in range construct is a value.            *)
LEMMA ConstructedIsValue ==
    ASSUME NEW y \in Years, NEW n \in Months, NEW k \in Int,
           NEW h \in Hours, NEW min \in Sixty, NEW s \in Sixty
    PROVE  C!_SetDate(<<y, n, k>>, <<h, min, s>>) \in Value
<1>1. DaysBeforeYear[y] \in Int /\ DaysBeforeMonth[Leap(y)][n] \in Int
  <2>1. DaysBeforeYear[y] \in Nat
    BY YearsNat
  <2>2. Leap(y) \in BOOLEAN
    BY DEF Leap
  <2>3. DaysBeforeMonth[Leap(y)][n] = MonthsCounted(Leap(y))[n]
    BY <2>2, MonthsAre DEF Months
  <2>4. \A leap \in BOOLEAN : MonthsCounted(leap)[n] \in Int
    BY TwelveMonths DEF MonthsCounted, Months
  <2> QED
    BY <2>1, <2>2, <2>3, <2>4
<1>2. SecondsOf(h, min, s) \in Nat /\ SecondsOf(h, min, s) < SECOND_PERDAY
  BY DEF SecondsOf, SECOND_PERHOUR, SECOND_PERDAY, Hours, Sixty
<1>3. C!_SetDate(<<y, n, k>>, <<h, min, s>>)
        = At(DaysBeforeYear[y] + DaysBeforeMonth[Leap(y)][n] + k, SecondsOf(h, min, s))
  BY SameDate DEF _SetDate
<1> DEFINE a == DaysBeforeYear[y] b == DaysBeforeMonth[Leap(y)][n] c == SecondsOf(h, min, s)
<1> HIDE DEF a, b, c
<1>4. a + b + k \in Int /\ c \in Nat /\ c < SECOND_PERDAY
  BY <1>1, <1>2 DEF a, b, c
<1>5. At(a + b + k, c) \in Value
  BY <1>4 DEF At, Value
<1> QED
  BY <1>3, <1>5 DEF a, b, c

(* The spans CTimeSpan constructs of its arguments are values.             *)
LEMMA SpansAreValues == ASSUME C!TimeConstants PROVE C!Spans \subseteq Value
<1>1. ASSUME NEW nSec \in Seconds PROVE C!SpanOfSeconds(nSec) \in Value
  <2>1. nSec \in Nat
    BY DEF C!TimeConstants
  <2>2. C!Quot(nSec, C!SECOND_PERDAY) \in Int
    BY <2>1, Division DEF C!SECOND_PERDAY
  <2> QED
    BY <2>1, <2>2, Division, SameCalendar DEF C!SpanOfSeconds, C!At, Value
<1>2. ASSUME NEW s \in GivenSpan PROVE C!_SetTimeSpan(s) \in Value
  <2>1. s \in Int \X (0..23) \X (0..59) \X (0..59)
    BY Zenon DEF C!TimeConstants
  <2>2. PICK d \in Int, h \in 0..23, min \in 0..59, sec \in 0..59 :
          s[1] = d /\ s[2] = h /\ s[3] = min /\ s[4] = sec
    <3>1. s[1] \in Int /\ s[2] \in 0..23 /\ s[3] \in 0..59 /\ s[4] \in 0..59
      BY <2>1
    <3> QED
      BY <3>1, Zenon
  <2>3. C!SecondsOf(h, min, sec) \in Nat /\ C!SecondsOf(h, min, sec) < C!SECOND_PERDAY
    BY ConstructedWithinDay, Zenon
  <2>4. C!_SetTimeSpan(s) = [m_nDays |-> d, m_nSeconds |-> C!SecondsOf(h, min, sec)]
    BY <2>2 DEF C!_SetTimeSpan, C!At
  <2> QED
    BY <2>3, <2>4, SameCalendar DEF Value
<1> QED
  BY <1>1, <1>2 DEF C!Spans

(* The pieces of a pattern depend on the pattern and the span alone.       *)
LEMMA PiecesStay ==
    ASSUME UNCHANGED <<x4, x5>>
    PROVE  /\ pieces' = pieces
           /\ \A f, z, n : Searching(f, z, n)' <=> Searching(f, z, n)
           /\ \A f, z, n : Replacing(f, z, n)' <=> Replacing(f, z, n)
<1>1. \A p : C!Converts(p)' <=> C!Converts(p)
  BY DEF C!Converts
<1>2. \A p : C!Piece(p)' = C!Piece(p)
  BY <1>1 DEF C!Piece, C!_GetValue
<1>3. \A f, p : Text(f, p)' = Text(f, p)
  BY DEF Text
<1> QED
  BY <1>1, <1>2, <1>3 DEF pieces, Searching, Replacing

(* A time is constructed of a date and a time of day in range.             *)
LEMMA TimeOfParts ==
    \A d \in Years \X Months \X (1..31), c \in Hours \X Sixty \X Sixty : C!_SetDate(d, c) \in Value
<1> SUFFICES ASSUME NEW d \in Years \X Months \X (1..31), NEW c \in Hours \X Sixty \X Sixty
             PROVE  C!_SetDate(d, c) \in Value
  OBVIOUS
<1>1. d = <<d[1], d[2], d[3]>> /\ d[1] \in Years /\ d[2] \in Months /\ d[3] \in Int
  OBVIOUS
<1>2. c = <<c[1], c[2], c[3]>> /\ c[1] \in Hours /\ c[2] \in Sixty /\ c[3] \in Sixty
  OBVIOUS
<1> QED
  BY <1>1, <1>2, ConstructedIsValue, Zenon

(* So are the times a behaviour begins with.                               *)
LEMMA TimesAreValues ==
    ASSUME C!TimeConstants
    PROVE  /\ \A d \in Date, c \in TimeOfDay : C!_SetDate(d, c) \in Value
           /\ \A d \in Reference : C!_SetDate(d, <<0, 0, 0>>) \in Value
           /\ C!At(0, 0) \in Value
<1> DEFINE D == Years \X Months \X (1..31)
           H == Hours \X Sixty \X Sixty
<1>1. \A d \in D, c \in H : C!_SetDate(d, c) \in Value
  BY TimeOfParts
<1>2. TimeOfDay \subseteq H /\ Date \cup Reference \subseteq D
  BY DEF C!TimeConstants, C!FirstYear, C!LastYear, FirstYear, LastYear, Years, Months, Hours, Sixty
<1>3. <<0, 0, 0>> \in H
  BY DEF Hours, Sixty
<1> HIDE DEF D, H
<1>4. /\ \A d \in Date, c \in TimeOfDay : C!_SetDate(d, c) \in Value
      /\ \A d \in Reference : C!_SetDate(d, <<0, 0, 0>>) \in Value
  BY <1>1, <1>2, <1>3
<1>5. C!At(0, 0) \in Value
  BY DEF C!At, Value, SECOND_PERDAY
<1> QED
  BY <1>4, <1>5

(* The invariant holds at the start.                                       *)
LEMMA TimeInit == ASSUME C!TimeConstants, C!Init PROVE TimeInv
<1>1. x2 \in Value /\ x3 \in Value /\ x4 \in Value
  BY TimesAreValues, SpansAreValues DEF C!Init
<1>2. CASE x1 = "compute"
  <2>1. x5 = <<>>
    BY <1>2 DEF C!Init
  <2>2. x5 \in Seq(Chars)
    BY <2>1
  <2> QED
    BY <1>1, <1>2, <2>2 DEF TimeInv, FormatInv, States
<1>3. CASE x1 # "compute"
  <2>1. x1 = "find" /\ x6 = x5 /\ x7 = 0
        /\ x5 \in C!BoundedSeq({PERCENT, DAYS, HOURS, MINUTES, SECONDS, LETTER}, LenPattern)
    BY <1>3 DEF C!Init
  <2>2. x5 \in Seq(Chars)
    <3> DEFINE S == {PERCENT, DAYS, HOURS, MINUTES, SECONDS, LETTER}
    <3>1. PICK m \in 0..LenPattern : x5 \in [1..m -> S]
      BY <2>1 DEF C!BoundedSeq, C!SeqOf
    <3>2. S \subseteq Chars
      BY DEF Chars
    <3> HIDE DEF S
    <3>3. x5 \in [1..m -> Chars] /\ m \in Nat
      BY <3>1, <3>2
    <3> QED
      BY <3>3
  <2>3. ASSUME NEW f, Accumulates(f, pieces, Chars) PROVE Searching(f, x6, x7)
    <3>1. f[0] = <<>>
      BY <2>3 DEF Accumulates
    <3>2. 0 \in 0..Len(x5) /\ 0 + 1 = 1
      BY <2>2
    <3>3. ~C!Converts(0)
      BY DEF C!Converts
    <3>4. x6 = Text(f, 0)
      <4>1. SubSeq(x5, 1, Len(x5)) = x5
        BY <2>2, SubSeqFull
      <4>2. <<>> \o x5 = x5
        BY <2>2, ConcatEmptySeq
      <4> QED
        BY <2>1, <3>1, <3>2, <4>1, <4>2 DEF Text
    <3>5. Len(f[0]) = 0
      BY <3>1
    <3>6. x7 \in Nat /\ x7 <= Len(f[0]) /\ \A i \in 1..Len(f[0]) : x7 < i => f[0][i] # PERCENT
      BY <2>1, <3>5
    <3> QED
      BY <3>2, <3>3, <3>4, <3>6 DEF Searching
  <2> QED
    BY <1>1, <2>1, <2>2, <2>3 DEF TimeInv, FormatInv, States
<1> QED
  BY <1>2, <1>3

(* Every operation and every step of Format keeps it.                      *)
LEMMA TimeStep == ASSUME C!TimeConstants, TimeInv, C!Next PROVE TimeInv'
<1>1. /\ x2 \in Value /\ x3 \in Value /\ x4 \in Value /\ x5 \in Seq(Chars)
      /\ \A f : Accumulates(f, pieces, Chars) =>
            /\ x1 = "find" => Searching(f, x6, x7)
            /\ x1 = "replace" => Replacing(f, x6, x7)
            /\ x1 = "formatted" => x6 = f[Len(x5)]
  BY DEF TimeInv, FormatInv
<1>2. ASSUME C!Compute, x2' \in Value, x3' \in Value, x4' \in Value PROVE TimeInv'
  <2>1. x1' = "compute" /\ x5' = x5
    BY <1>2 DEF C!Compute, C!formatVars
  <2> QED
    BY <1>1, <1>2, <2>1 DEF TimeInv, FormatInv, States
<1>3. CASE C!Add
  BY <1>1, <1>2, <1>3, PlusIsValue DEF C!Add
<1>4. CASE C!Subtract
  BY <1>1, <1>2, <1>4, MinusIsValue DEF C!Subtract
<1>5. CASE C!Difference
  BY <1>1, <1>2, <1>5, MinusIsValue DEF C!Difference
<1>6. CASE C!Assign
  BY <1>1, <1>2, <1>6 DEF C!Assign
<1>7. CASE C!FindPercent
  <2>1. UNCHANGED <<x2, x3, x4, x5>> /\ x1 = "find"
    BY <1>7 DEF C!FindPercent, C!computed
  <2>2. pieces' = pieces /\ (\A f, z, n : Searching(f, z, n)' <=> Searching(f, z, n))
        /\ (\A f, z, n : Replacing(f, z, n)' <=> Replacing(f, z, n))
    BY <2>1, PiecesStay
  <2>3. x1' \in {"replace", "formatted"}
    BY <1>7 DEF C!FindPercent
  <2>4. ASSUME NEW f, Accumulates(f, pieces, Chars)
        PROVE  /\ x1' = "replace" => Replacing(f, x6', x7')
               /\ x1' = "formatted" => x6' = f[Len(x5)]
    BY <1>1, <1>7, <2>1, <2>4, FindStep
  <2> QED
    BY <1>1, <2>1, <2>2, <2>3, <2>4 DEF TimeInv, FormatInv, States
<1>8. CASE C!ReplacePercent
  <2>1. UNCHANGED <<x2, x3, x4, x5>> /\ x1 = "replace"
    BY <1>8 DEF C!ReplacePercent, C!computed
  <2>2. PERCENT \notin Nat
    BY DEF C!TimeConstants
  <2>3. x1' = "find"
    BY <1>8 DEF C!ReplacePercent
  <2>4. ASSUME NEW f, Accumulates(f, pieces, Chars) PROVE Searching(f, x6', x7')
    BY <1>1, <1>8, <2>1, <2>2, <2>4, ReplaceStep
  <2> QED
    BY <1>1, <2>1, <2>3, <2>4, PiecesStay DEF TimeInv, FormatInv, States
<1> QED
  BY <1>3, <1>4, <1>5, <1>6, <1>7, <1>8 DEF C!Next, C!Format

(* The totals of a span, whatever its days.                                *)
LEMMA TotalsAgreeHolds == ASSUME x4 \in Value PROVE C!TotalsAgree
<1>1. PICK d \in Int, s \in Nat : x4 = [m_nDays |-> d, m_nSeconds |-> s]
          /\ x4.m_nDays = d /\ x4.m_nSeconds = s
  BY DEF Value
<1>2. C!Quot(s, 60) = s \div 60 /\ C!Quot(s, 3600) = s \div 3600
  BY DEF C!Quot
<1>3. C!GetTotalMinutes(x4) = (s \div 60) + d * 24 * 60
      /\ C!GetTotalHours(x4) = d * 24 + (s \div 3600)
  BY <1>1, <1>2 DEF C!GetTotalMinutes, C!GetTotalHours, C!SECOND_PERHOUR
<1>4. C!GetMinutes(x4) = (s - 3600 * (s \div 3600)) \div 60
  <2>1. s - 3600 * (s \div 3600) >= 0
    BY <1>1
  <2>2. C!Rem(s, 3600) = s - 3600 * (s \div 3600)
    BY DEF C!Rem, C!Quot
  <2>3. C!Quot(s - 3600 * (s \div 3600), 60) = (s - 3600 * (s \div 3600)) \div 60
    BY <2>1 DEF C!Quot
  <2> QED
    BY <1>1, <2>2, <2>3 DEF C!GetMinutes, C!SECOND_PERHOUR
<1>5. s \div 60 = 60 * (s \div 3600) + ((s - 3600 * (s \div 3600)) \div 60)
  OBVIOUS
<1> QED
  BY <1>3, <1>4, <1>5 DEF C!TotalsAgree

(* It gives all that is said of times and spans.                           *)
LEMMA TimePart ==
    ASSUME TimeInv
    PROVE  C!Normalised /\ C!Inverses /\ C!CalendarRight /\ C!TotalsAgree /\ C!FormatRight
<1>1. x2 \in Value /\ x3 \in Value /\ x4 \in Value
  BY DEF TimeInv
<1>2. C!Normalised
  BY <1>1, SameCalendar DEF C!Normalised, C!WithinDay, Value
<1>3. C!Inverses
  <2>1. C!Minus(x2, x3) = C!At(0, 0) <=> x2 = x3
    BY <1>1, SameCalendar DEF C!Minus, C!At, Value, C!SECOND_PERDAY
  <2> QED
    BY <1>1, <2>1, SubtractUndoesAdd, AddUndoesSubtract, OrderIsSign DEF C!Inverses
<1>4. C!CalendarRight
  BY <1>1, DayOnCalendar, SameDate DEF C!CalendarRight
<1> QED
  BY <1>1, <1>2, <1>3, <1>4, TotalsAgreeHolds, FormatRightHolds

-----------------------------------------------------------------------------
(* The calendar as the fields read it is CTime's.                          *)
LEMMA ShownCalendar ==
    /\ Shown!DaysBeforeYear = DaysBeforeYear /\ Shown!DaysBeforeMonth = DaysBeforeMonth
    /\ Shown!SECOND_PERDAY = SECOND_PERDAY /\ Shown!SECOND_PERHOUR = SECOND_PERHOUR
<1>1. Shown!YearsAdded = YearsAdded
  BY SMT DEF Shown!YearsAdded, YearsAdded, Shown!FirstYear, FirstYear, Shown!LastYear, LastYear,
             Shown!DaysOfYear, DaysOfYear, Shown!Leap, Leap
<1>2. Shown!DaysBeforeMonth = DaysBeforeMonth
  BY SMT DEF Shown!DaysBeforeMonth, DaysBeforeMonth, Shown!anMonthDay, anMonthDay
<1> QED
  BY <1>1, <1>2
     DEF Shown!DaysBeforeYear, DaysBeforeYear, Shown!FirstYear, FirstYear, Shown!LastYear, LastYear,
         Shown!SECOND_PERDAY, SECOND_PERDAY, Shown!SECOND_PERHOUR, SECOND_PERHOUR

(* Its conversions are those of CTime.                                     *)
LEMMA ShownDate ==
    /\ \A x : Shown!_GetDate(x) = _GetDate(x) /\ Shown!_GetTime(x) = _GetTime(x)
    /\ \A d, c : Shown!_SetDate(d, c) = C!_SetDate(d, c)
<1>1. ASSUME NEW x PROVE Shown!_GetDate(x) = _GetDate(x) /\ Shown!_GetTime(x) = _GetTime(x)
  BY ShownCalendar
     DEF Shown!_GetDate, _GetDate, Shown!FirstYear, FirstYear, Shown!LastYear, LastYear,
         Shown!Leap, Leap, Shown!_GetTime, _GetTime
<1>2. ASSUME NEW d, NEW c PROVE Shown!_SetDate(d, c) = C!_SetDate(d, c)
  BY ShownCalendar, SameCalendar
     DEF C!_SetDate, Shown!_SetDate, Shown!Leap, C!Leap, Shown!SecondsOf, C!SecondsOf, Shown!At, C!At
<1> QED
  BY <1>1, <1>2

-----------------------------------------------------------------------------
(* The fields of a time.                                                   *)
IsFields(f, y, n, k, h, min, s) ==
    /\ f.year = y /\ f.month = n /\ f.day = k /\ f.hour = h /\ f.minute = min /\ f.second = s
    /\ f.dayOfWeek \in 1..7

(* From 1900-1-1 on the fields are a date, a time of day and a weekday.    *)
LEMMA FieldsOfTime ==
    ASSUME NEW x \in Value, x.m_nDays > 0
    PROVE  \E y \in Years, n \in Months, k \in Nat, h \in Hours, min \in Sixty, s \in Sixty :
              IsFields(Shown!FieldsOf(x), y, n, k, h, min, s)
<1>1. x.m_nDays \in Nat /\ x.m_nSeconds \in Nat /\ x.m_nSeconds < SECOND_PERDAY
  BY DEF Value
<1>2. PICK y \in Years, n \in Months, k \in Nat : IsDate(x, y, n, k)
  BY <1>1, DateOfDay
<1>3. PICK h \in Hours, min \in Sixty, s \in Sixty : IsClock(x, h, min, s)
  BY <1>1, TimeOfSeconds
<1> DEFINE d == <<y, n, k>>
           c == <<h, min, s>>
<1>4. d[1] = y /\ d[2] = n /\ d[3] = k /\ c[1] = h /\ c[2] = min /\ c[3] = s
      /\ Shown!_GetDate(x) = d /\ Shown!_GetTime(x) = c
  BY <1>2, <1>3, ShownDate DEF IsDate, IsClock
<1>5. Shown!GetDayOfWeek(x) \in 1..7
  BY <1>1 DEF Shown!GetDayOfWeek
<1> HIDE DEF d, c
<1>6. IsFields(Shown!FieldsOf(x), y, n, k, h, min, s)
  BY <1>4, <1>5 DEF Shown!FieldsOf, IsFields
<1> QED
  BY <1>6

(* A time is constructed again from its fields.                            *)
LEMMA TimeIsItsFields == ASSUME x1 \in Value PROVE Shown!TimeIsItsFields(Shown!FieldsOf(x1))
<1>1. CASE x1.m_nDays > 0
  <2>1. _SetDate(_GetDate(x1), _GetTime(x1)) = x1
    BY <1>1, ConstructedAgain
  <2>2. x1.m_nDays \in Nat /\ x1.m_nSeconds \in Nat /\ x1.m_nSeconds < SECOND_PERDAY
    BY <1>1 DEF Value
  <2>3. PICK y \in Years, n \in Months, k \in Nat : IsDate(x1, y, n, k)
    BY <1>1, <2>2, DateOfDay
  <2>4. PICK h \in Hours, min \in Sixty, s \in Sixty : IsClock(x1, h, min, s)
    BY <2>2, TimeOfSeconds
  <2>5. _SetDate(<<y, n, k>>, <<h, min, s>>) = x1
    BY <2>1, <2>3, <2>4, Zenon DEF IsDate, IsClock
  <2> DEFINE f == Shown!FieldsOf(x1)
             d == <<y, n, k>>
             c == <<h, min, s>>
  <2>6. d[1] = y /\ d[2] = n /\ d[3] = k /\ c[1] = h /\ c[2] = min /\ c[3] = s
        /\ Shown!_GetDate(x1) = d /\ Shown!_GetTime(x1) = c
    BY <2>3, <2>4, ShownDate DEF IsDate, IsClock
  <2>7. f.year = y /\ f.month = n /\ f.day = k /\ f.hour = h /\ f.minute = min /\ f.second = s
    <3> HIDE DEF d, c
    <3> QED
      BY <2>6 DEF Shown!FieldsOf
  <2>8. Shown!_SetDate(<<y, n, k>>, <<h, min, s>>) = x1
    BY <2>5, ShownDate, SameDate, Zenon
  <2> HIDE DEF f
  <2> QED
    BY <2>7, <2>8, Zenon DEF Shown!TimeIsItsFields, f
<1>2. CASE ~(x1.m_nDays > 0)
  <2>1. x1.m_nDays <= 0
    BY <1>2 DEF Value
  <2> DEFINE d == <<FirstYear - 1, 0, x1.m_nDays>>
  <2>2. _GetDate(x1) = d
    BY <2>1, SMT DEF _GetDate
  <2>3. d[2] = 0 /\ Shown!_GetDate(x1) = d
    BY <2>2, ShownDate, SMT
  <2> HIDE DEF d
  <2>4. Shown!FieldsOf(x1).month = 0
    BY <2>3 DEF Shown!FieldsOf
  <2> QED
    BY <2>4 DEF Shown!TimeIsItsFields
<1> QED
  BY <1>1, <1>2

-----------------------------------------------------------------------------
(* Spans: of either sign, and less than a day beside the days.             *)
SignedSpan ==
    {s \in [m_nDays : Int, m_nSeconds : Int] :
        -SECOND_PERDAY < s.m_nSeconds /\ s.m_nSeconds < SECOND_PERDAY}

(* The parts the hours, minutes and seconds of a span are taken in.        *)
LEMMA SpanParts ==
    ASSUME NEW z \in Int
    PROVE  LET h == Shown!Quot(z, 3600)
               min == Shown!Quot(Shown!Rem(z, 3600), 60)
               s == Shown!Rem(z, 60)
           IN  /\ h \in Int /\ min \in Int /\ s \in Int
               /\ h * 3600 + min * 60 + s = z
               /\ Shown!Quot(z, 60) = 60 * h + min
               /\ 60 * Shown!Quot(z, 60) + s = z
               /\ -60 < s /\ s < 60 /\ (z >= 0 => s >= 0) /\ (z <= 0 => s <= 0)
<1>1. CASE z >= 0
  <2>1. Shown!Quot(z, 3600) = z \div 3600 /\ Shown!Quot(z, 60) = z \div 60
    BY <1>1 DEF Shown!Quot
  <2>2. Shown!Rem(z, 3600) = z - 3600 * (z \div 3600) /\ Shown!Rem(z, 60) = z - 60 * (z \div 60)
    BY <1>1 DEF Shown!Quot, Shown!Rem
  <2>3. z - 3600 * (z \div 3600) >= 0
    BY <1>1
  <2>4. Shown!Quot(z - 3600 * (z \div 3600), 60) = (z - 3600 * (z \div 3600)) \div 60
    BY <2>3 DEF Shown!Quot
  <2>5. z \div 60 = 60 * (z \div 3600) + ((z - 3600 * (z \div 3600)) \div 60)
    BY <1>1
  <2> QED
    BY <1>1, <2>1, <2>2, <2>4, <2>5
<1>2. CASE z < 0
  <2> DEFINE w == -z
  <2>1. w \in Nat /\ w > 0 /\ z = -w
    BY <1>2
  <2>2. Shown!Quot(z, 3600) = -(w \div 3600) /\ Shown!Quot(z, 60) = -(w \div 60)
    BY <1>2 DEF Shown!Quot
  <2>3. Shown!Rem(z, 3600) = -(w - 3600 * (w \div 3600)) /\ Shown!Rem(z, 60) = -(w - 60 * (w \div 60))
    BY <1>2 DEF Shown!Quot, Shown!Rem
  <2>4. w - 3600 * (w \div 3600) >= 0
    BY <2>1
  <2>5. Shown!Quot(-(w - 3600 * (w \div 3600)), 60) = -((w - 3600 * (w \div 3600)) \div 60)
    BY <2>1, <2>4 DEF Shown!Quot
  <2>6. w \div 60 = 60 * (w \div 3600) + ((w - 3600 * (w \div 3600)) \div 60)
    BY <2>1
  <2> HIDE DEF w
  <2> QED
    BY <2>1, <2>2, <2>3, <2>5, <2>6
<1> QED
  BY <1>1, <1>2

(* A span is constructed again from its fields, and its totals agree.      *)
LEMMA SpanIsItsFields ==
    ASSUME x3 \in SignedSpan PROVE Shown!SpanIsItsFields(Shown!FieldsOfSpan(x3))
<1>1. PICK d \in Int, z \in Int : x3 = [m_nDays |-> d, m_nSeconds |-> z]
          /\ x3.m_nDays = d /\ x3.m_nSeconds = z
  BY DEF SignedSpan
<1> DEFINE h == Shown!Quot(z, 3600)
           min == Shown!Quot(Shown!Rem(z, 3600), 60)
           s == Shown!Rem(z, 60)
           q == Shown!Quot(z, 60)
           f == Shown!FieldsOfSpan(x3)
<1>2. /\ h \in Int /\ min \in Int /\ s \in Int
      /\ h * 3600 + min * 60 + s = z /\ q = 60 * h + min /\ 60 * q + s = z
  BY SpanParts
<1>3. /\ f.days = d /\ f.hours = h /\ f.minutes = min /\ f.seconds = s
      /\ f.totalHours = d * 24 + h /\ f.totalMinutes = q + d * 24 * 60
      /\ f.totalSeconds = d * 86400 + z
  BY <1>1 DEF Shown!FieldsOfSpan, Shown!GetMinutes, Shown!GetTotalHours, Shown!GetTotalMinutes,
       Shown!SECOND_PERHOUR, Shown!SECOND_PERDAY
<1> HIDE DEF h, min, s, q, f
<1>4. Shown!_SetTimeSpan(<<d, h, min, s>>) = x3
  BY <1>1, <1>2 DEF Shown!_SetTimeSpan, Shown!SecondsOf, Shown!At, Shown!SECOND_PERHOUR
<1>5. q \in Int
  BY <1>2
<1>6. f.totalMinutes = 60 * f.totalHours + f.minutes
  BY <1>2, <1>3, <1>5
<1>7. f.totalSeconds = 60 * f.totalMinutes + f.seconds
  BY <1>2, <1>3, <1>5
<1> QED
  BY <1>3, <1>4, <1>6, <1>7 DEF Shown!SpanIsItsFields, f

-----------------------------------------------------------------------------
(* Two counts, of a unit and of the rest of one, are ordered as what they add
   up to if the rest is of one sign in each, or of none in both.           *)
OneWay(a, r) == (a >= 0 /\ r >= 0) \/ (a <= 0 /\ r <= 0)

(* Days and the seconds of a day.                                          *)
LEMMA DaysThenSeconds ==
    ASSUME NEW a \in Int, NEW b \in Int, NEW r \in Int, NEW q \in Int,
           -86400 < r, r < 86400, -86400 < q, q < 86400,
           (OneWay(a, r) /\ OneWay(b, q)) \/ (r >= 0 /\ q >= 0)
    PROVE  a < b \/ (a = b /\ r < q) <=> 86400 * a + r < 86400 * b + q
  BY DEF OneWay

(* Minutes and the seconds of a minute.                                    *)
LEMMA MinutesThenSeconds ==
    ASSUME NEW a \in Int, NEW b \in Int, NEW r \in Int, NEW q \in Int,
           -60 < r, r < 60, -60 < q, q < 60,
           (OneWay(a, r) /\ OneWay(b, q)) \/ (r >= 0 /\ q >= 0)
    PROVE  a < b \/ (a = b /\ r < q) <=> 60 * a + r < 60 * b + q
  BY DEF OneWay

(* A product that is not negative has factors of one sign.                 *)
LEMMA SignOfProduct ==
    ASSUME NEW d \in Int, NEW z \in Int, d * z >= 0
    PROVE  OneWay(d, z)
<1>1. CASE d > 0 /\ z < 0
  BY <1>1, SMT
<1>2. CASE d < 0 /\ z > 0
  BY <1>2, SMT
<1> QED
  BY <1>1, <1>2 DEF OneWay

(* The minutes of a span, and the seconds of the last, have its sign.      *)
Ordered(x, y) == (Shown!OneSign(x) /\ Shown!OneSign(y)) \/ (Shown!OfADay(x) /\ Shown!OfADay(y))

(* The order the code tests is that of the minutes and the seconds of the
   last.                                                                   *)
LEMMA LessIsBefore ==
    ASSUME NEW x \in SignedSpan, NEW y \in SignedSpan, Ordered(x, y)
    PROVE  Shown!Less(x, y) <=> Shown!Before(x, y)
<1>1. PICK d \in Int, z \in Int : x.m_nDays = d /\ x.m_nSeconds = z /\ -86400 < z /\ z < 86400
  BY DEF SignedSpan, SECOND_PERDAY
<1>2. PICK e \in Int, w \in Int : y.m_nDays = e /\ y.m_nSeconds = w /\ -86400 < w /\ w < 86400
  BY DEF SignedSpan, SECOND_PERDAY
<1> DEFINE p == Shown!Quot(z, 60)
           r == Shown!Rem(z, 60)
           q == Shown!Quot(w, 60)
           s == Shown!Rem(w, 60)
           a == p + d * 24 * 60
           b == q + e * 24 * 60
<1>3. /\ p \in Int /\ r \in Int /\ 60 * p + r = z /\ -60 < r /\ r < 60
      /\ (z >= 0 => r >= 0) /\ (z <= 0 => r <= 0)
  BY SpanParts DEF Shown!Quot
<1>4. /\ q \in Int /\ s \in Int /\ 60 * q + s = w /\ -60 < s /\ s < 60
      /\ (w >= 0 => s >= 0) /\ (w <= 0 => s <= 0)
  BY SpanParts DEF Shown!Quot
<1>5. Shown!GetTotalMinutes(x) = a /\ Shown!GetTotalMinutes(y) = b
      /\ Shown!Rem(x.m_nSeconds, 60) = r /\ Shown!Rem(y.m_nSeconds, 60) = s
  BY <1>1, <1>2 DEF Shown!GetTotalMinutes
<1> HIDE DEF p, r, q, s
<1>6. Shown!Before(x, y) <=> a < b \/ (a = b /\ r < s)
  BY <1>5 DEF Shown!Before
<1>7. Shown!Less(x, y) <=> d < e \/ (d = e /\ z < w)
  BY <1>1, <1>2 DEF Shown!Less
<1>8. (OneWay(d, z) /\ OneWay(e, w)) \/ (z >= 0 /\ w >= 0)
  BY <1>1, <1>2, SignOfProduct DEF Ordered, Shown!OneSign, Shown!OfADay
<1>9. d < e \/ (d = e /\ z < w) <=> 86400 * d + z < 86400 * e + w
  BY <1>1, <1>2, <1>8, DaysThenSeconds
<1>10. a \in Int /\ b \in Int
  BY <1>3, <1>4
<1>11. (OneWay(a, r) /\ OneWay(b, s)) \/ (r >= 0 /\ s >= 0)
  BY <1>3, <1>4, <1>8 DEF OneWay
<1>12. 60 * a + r = 86400 * d + z /\ 60 * b + s = 86400 * e + w
  BY <1>3, <1>4
<1> HIDE DEF a, b
<1>13. a < b \/ (a = b /\ r < s) <=> 60 * a + r < 60 * b + s
  BY <1>3, <1>4, <1>10, <1>11, MinutesThenSeconds
<1> QED
  BY <1>6, <1>7, <1>9, <1>12, <1>13

(* Of two spans one at most is less.                                       *)
LEMMA NotBoth ==
    ASSUME NEW x \in SignedSpan, NEW y \in SignedSpan
    PROVE  ~(Shown!Less(x, y) /\ Shown!Less(y, x))
<1>1. x.m_nDays \in Int /\ x.m_nSeconds \in Int /\ y.m_nDays \in Int /\ y.m_nSeconds \in Int
  BY DEF SignedSpan
<1> QED
  BY <1>1 DEF Shown!Less

(* The six comparisons, of times and of spans, are one order.              *)
LEMMA ComparedAsOne ==
    ASSUME NEW x \in SignedSpan, NEW y \in SignedSpan, Ordered(x, y)
    PROVE  /\ Shown!TimesCompare(x, y) = Shown!OneOrder(x, y)
           /\ Shown!SpansCompare(x, y) = Shown!OneOrder(x, y)
<1>1. Ordered(y, x)
  BY DEF Ordered
<1>2. (Shown!Less(x, y) <=> Shown!Before(x, y)) /\ (Shown!Less(y, x) <=> Shown!Before(y, x))
  BY <1>1, LessIsBefore
<1>3. ~(Shown!Less(x, y) /\ Shown!Less(y, x))
  BY NotBoth
<1> DEFINE A == Shown!Less(x, y)
           B == Shown!Less(y, x)
<1>4. Shown!Before(x, y) = A /\ Shown!Before(y, x) = B /\ Shown!Equal(x, y) = ~(A \/ B)
  BY <1>2 DEF Shown!Equal, Shown!Less, Shown!Before
<1> HIDE DEF A, B
<1>5. Shown!OneOrder(x, y) =
        [lt |-> A, eq |-> ~A /\ ~B, ne |-> A \/ B, gt |-> B, le |-> ~B, ge |-> ~A]
  BY <1>4, Zenon DEF Shown!OneOrder
<1>6. Shown!SpansCompare(x, y) =
        [lt |-> A, eq |-> ~(A \/ B), ne |-> A \/ B, gt |-> B, le |-> ~B, ge |-> ~A]
  BY <1>4, Zenon DEF Shown!SpansCompare, A, B
<1>7. Shown!TimesCompare(x, y) =
        [lt |-> A, eq |-> ~(A \/ B), ne |-> A \/ B, gt |-> B, le |-> A \/ ~(A \/ B), ge |-> ~A]
  BY <1>4, Zenon DEF Shown!TimesCompare, A, B
<1>8. (~A /\ ~B) = ~(A \/ B) /\ (A \/ ~(A \/ B)) = ~B
  BY <1>3 DEF A, B
<1> QED
  BY <1>5, <1>6, <1>7, <1>8, Zenon

(* The difference of two times is a span.                                  *)
LEMMA ValuesAreSpans == Value \subseteq SignedSpan
  BY DEF Value, SignedSpan, SECOND_PERDAY

(* The comparisons of times and those of spans are one order each.         *)
LEMMA OrderRightHolds ==
    ASSUME x1 \in Value, x2 \in Value, x3 \in SignedSpan, x4 \in SignedSpan
    PROVE  Shown!OrderRight
<1>1. Ordered(x1, x2)
  BY DEF Ordered, Shown!OfADay, Value
<1>2. Shown!TimesCompare(x1, x2) = Shown!OneOrder(x1, x2)
  BY <1>1, ValuesAreSpans, ComparedAsOne
<1>3. Ordered(x3, x4) => Shown!SpansCompare(x3, x4) = Shown!OneOrder(x3, x4)
  BY ComparedAsOne
<1> QED
  BY <1>2, <1>3 DEF Shown!OrderRight, Ordered

-----------------------------------------------------------------------------
(* strftime and _GetValue make the same of a field, but for the hour of %I. *)
OfTheCalendar(f) ==
    /\ f.year \in Int /\ f.month \in 1..12 /\ f.day \in Int
    /\ f.hour \in Nat /\ f.minute \in Int /\ f.second \in Int
    /\ f.dayOfWeek \in 1..7

(* The tables of names _GetValue reads are those of the C locale.          *)
LEMMA Tables ==
    /\ DOMAIN Shown!DayAbbreviation = 1..7 /\ DOMAIN Shown!DayName = 1..7
    /\ DOMAIN Shown!MonthAbbreviation = 1..12 /\ DOMAIN Shown!MonthName = 1..12
    /\ \A n : /\ Shown!_GetDayofWeekAbbrevName(n) = Shown!InTable(Shown!DayAbbreviation, n)
              /\ Shown!_GetDayofWeekFullName(n) = Shown!InTable(Shown!DayName, n)
              /\ Shown!_GetMonthAbbrevName(n) = Shown!InTable(Shown!MonthAbbreviation, n)
              /\ Shown!_GetMonthFullName(n) = Shown!InTable(Shown!MonthName, n)
<1>1. DOMAIN Shown!DayAbbreviation = 1..7 /\ DOMAIN Shown!DayName = 1..7
  BY DEF Shown!DayAbbreviation, Shown!DayName
<1>2. DOMAIN Shown!MonthAbbreviation = 1..12 /\ DOMAIN Shown!MonthName = 1..12
  BY DEF Shown!MonthAbbreviation, Shown!MonthName
<1>3. ASSUME NEW n
      PROVE  /\ Shown!_GetDayofWeekAbbrevName(n) = Shown!InTable(Shown!DayAbbreviation, n)
             /\ Shown!_GetDayofWeekFullName(n) = Shown!InTable(Shown!DayName, n)
             /\ Shown!_GetMonthAbbrevName(n) = Shown!InTable(Shown!MonthAbbreviation, n)
             /\ Shown!_GetMonthFullName(n) = Shown!InTable(Shown!MonthName, n)
  BY Zenon DEF Shown!_GetDayofWeekAbbrevName, Shown!DayAbbreviation, Shown!_GetDayofWeekFullName,
       Shown!DayName, Shown!_GetMonthAbbrevName, Shown!MonthAbbreviation,
       Shown!_GetMonthFullName, Shown!MonthName
<1> QED
  BY <1>1, <1>2, <1>3

(* One counts from 1, the other from 0.                                    *)
LEMMA NameIs ==
    ASSUME NEW table, NEW z, NEW x, x = z - 1, (z - 1) + 1 = z, z \in DOMAIN table
    PROVE  Shown!NameAt(table, x) = <<Shown!InTable(table, z)>>
  BY Zenon DEF Shown!NameAt, Shown!InTable

(* A conversion of a field, by either.                                     *)
LEMMA ConvertedIsValue ==
    ASSUME NEW f, OfTheCalendar(f), NEW yday, NEW c, c \notin {"I", "j"}
    PROVE  Shown!Converted(Shown!Tm(f, yday), c) = Shown!_GetValue(f, c)
<1> DEFINE tm == Shown!Tm(f, yday)
<1>1. /\ tm.tm_year = f.year - 1900 /\ tm.tm_mon = f.month - 1 /\ tm.tm_mday = f.day
      /\ tm.tm_hour = f.hour /\ tm.tm_min = f.minute /\ tm.tm_sec = f.second
      /\ tm.tm_wday = f.dayOfWeek - 1
  BY DEF Shown!Tm
<1>0. tm.tm_year + 1900 = f.year
  BY <1>1 DEF OfTheCalendar
<1>2. /\ tm.tm_mon = f.month - 1 /\ (f.month - 1) + 1 = f.month /\ tm.tm_mon + 1 = f.month
      /\ tm.tm_wday = f.dayOfWeek - 1 /\ (f.dayOfWeek - 1) + 1 = f.dayOfWeek
  BY <1>1 DEF OfTheCalendar
<1>3. tm.tm_hour < 12 <=> f.hour \div 12 = 0
  BY <1>1 DEF OfTheCalendar
<1>4. f.dayOfWeek \in 1..7 /\ f.month \in 1..12
  BY DEF OfTheCalendar
<1>5. /\ tm.tm_mday = f.day /\ tm.tm_hour = f.hour /\ tm.tm_min = f.minute /\ tm.tm_sec = f.second
  BY <1>1
<1> HIDE DEF tm
<1>6. /\ Shown!NameAt(Shown!DayAbbreviation, tm.tm_wday) =
              <<Shown!_GetDayofWeekAbbrevName(f.dayOfWeek)>>
      /\ Shown!NameAt(Shown!DayName, tm.tm_wday) = <<Shown!_GetDayofWeekFullName(f.dayOfWeek)>>
      /\ Shown!NameAt(Shown!MonthAbbreviation, tm.tm_mon) = <<Shown!_GetMonthAbbrevName(f.month)>>
      /\ Shown!NameAt(Shown!MonthName, tm.tm_mon) = <<Shown!_GetMonthFullName(f.month)>>
  BY <1>2, <1>4, Tables, NameIs, Zenon
<1>7. CASE c = "a"
  <2>1. Shown!Converted(tm, c) = Shown!NameAt(Shown!DayAbbreviation, tm.tm_wday)
    BY <1>7 DEF Shown!Converted
  <2>2. Shown!_GetValue(f, c) = <<Shown!_GetDayofWeekAbbrevName(f.dayOfWeek)>>
    BY <1>7 DEF Shown!_GetValue
  <2> QED
    BY <1>6, <2>1, <2>2, Zenon DEF tm
<1>8. CASE c = "A"
  <2>1. Shown!Converted(tm, c) = Shown!NameAt(Shown!DayName, tm.tm_wday)
    BY <1>8 DEF Shown!Converted
  <2>2. Shown!_GetValue(f, c) = <<Shown!_GetDayofWeekFullName(f.dayOfWeek)>>
    BY <1>8 DEF Shown!_GetValue
  <2> QED
    BY <1>6, <2>1, <2>2, Zenon DEF tm
<1>9. CASE c = "b"
  <2>1. Shown!Converted(tm, c) = Shown!NameAt(Shown!MonthAbbreviation, tm.tm_mon)
    BY <1>9 DEF Shown!Converted
  <2>2. Shown!_GetValue(f, c) = <<Shown!_GetMonthAbbrevName(f.month)>>
    BY <1>9 DEF Shown!_GetValue
  <2> QED
    BY <1>6, <2>1, <2>2, Zenon DEF tm
<1>10. CASE c = "B"
  <2>1. Shown!Converted(tm, c) = Shown!NameAt(Shown!MonthName, tm.tm_mon)
    BY <1>10 DEF Shown!Converted
  <2>2. Shown!_GetValue(f, c) = <<Shown!_GetMonthFullName(f.month)>>
    BY <1>10 DEF Shown!_GetValue
  <2> QED
    BY <1>6, <2>1, <2>2, Zenon DEF tm
<1>11. CASE c = "d"
  <2>1. Shown!Converted(tm, c) = Shown!Padded(tm.tm_mday)
    BY <1>11 DEF Shown!Converted
  <2>2. Shown!_GetValue(f, c) = Shown!Padded(f.day)
    BY <1>11 DEF Shown!_GetValue
  <2> QED
    BY <1>5, <2>1, <2>2, Zenon DEF tm
<1>12. CASE c = "H"
  <2>1. Shown!Converted(tm, c) = Shown!Padded(tm.tm_hour)
    BY <1>12 DEF Shown!Converted
  <2>2. Shown!_GetValue(f, c) = Shown!Padded(f.hour)
    BY <1>12 DEF Shown!_GetValue
  <2> QED
    BY <1>5, <2>1, <2>2, Zenon DEF tm
<1>13. CASE c = "m"
  <2>1. Shown!Converted(tm, c) = Shown!Padded(tm.tm_mon + 1)
    BY <1>13 DEF Shown!Converted
  <2>2. Shown!_GetValue(f, c) = Shown!Padded(f.month)
    BY <1>13 DEF Shown!_GetValue
  <2> QED
    BY <1>2, <2>1, <2>2, Zenon DEF tm
<1>14. CASE c = "M"
  <2>1. Shown!Converted(tm, c) = Shown!Padded(tm.tm_min)
    BY <1>14 DEF Shown!Converted
  <2>2. Shown!_GetValue(f, c) = Shown!Padded(f.minute)
    BY <1>14 DEF Shown!_GetValue
  <2> QED
    BY <1>5, <2>1, <2>2, Zenon DEF tm
<1>15. CASE c = "p"
  <2>1. Shown!Converted(tm, c) = <<IF tm.tm_hour < 12 THEN "AM" ELSE "PM">>
    BY <1>15 DEF Shown!Converted
  <2>2. Shown!_GetValue(f, c) = <<IF f.hour \div 12 = 0 THEN "AM" ELSE "PM">>
    BY <1>15 DEF Shown!_GetValue
  <2>3. Shown!Converted(tm, c) = Shown!_GetValue(f, c)
    BY <1>3, <2>1, <2>2
  <2> QED
    BY <2>3 DEF tm
<1>16. CASE c = "S"
  <2>1. Shown!Converted(tm, c) = Shown!Padded(tm.tm_sec)
    BY <1>16 DEF Shown!Converted
  <2>2. Shown!_GetValue(f, c) = Shown!Padded(f.second)
    BY <1>16 DEF Shown!_GetValue
  <2> QED
    BY <1>5, <2>1, <2>2, Zenon DEF tm
<1>17. CASE c = "w"
  <2>1. Shown!Converted(tm, c) = <<tm.tm_wday>>
    BY <1>17 DEF Shown!Converted
  <2>2. Shown!_GetValue(f, c) = <<f.dayOfWeek - 1>>
    BY <1>17 DEF Shown!_GetValue
  <2> QED
    BY <1>2, <2>1, <2>2, Zenon DEF tm
<1>18. CASE c = "Y"
  <2>1. Shown!Converted(tm, c) = <<tm.tm_year + 1900>>
    BY <1>18 DEF Shown!Converted
  <2>2. Shown!_GetValue(f, c) = <<f.year>>
    BY <1>18 DEF Shown!_GetValue
  <2>3. Shown!Converted(tm, c) = Shown!_GetValue(f, c)
    BY <1>0, <2>1, <2>2
  <2> QED
    BY <2>3 DEF tm
<1>19. CASE c \notin {"a", "A", "b", "B", "d", "H", "m", "M", "p", "S", "w", "Y"}
  <2>1. Shown!Converted(tm, c) = <<c>> /\ Shown!_GetValue(f, c) = <<c>>
    BY <1>19 DEF Shown!Converted, Shown!_GetValue
  <2> QED
    BY <2>1 DEF tm
<1> QED
  BY <1>7, <1>8, <1>9, <1>10, <1>11, <1>12, <1>13, <1>14, <1>15, <1>16, <1>17, <1>18, <1>19

(* Format works on the fields of t and on one of the formats.              *)
Showing == x5 \in Formats /\ \E yday : x7 = Shown!Tm(Shown!FieldsOf(x1), yday)

(* The inductive invariant of what times and spans show.                   *)
FieldsInv ==
    /\ x1 \in Value /\ x2 \in Value /\ x3 \in SignedSpan /\ x4 \in SignedSpan
    /\ x9 # "idle" => Showing
    /\ x9 = "format" => x6 \in Nat
    /\ x9 = "formatted" => x8 = Shown!Expanded(x7, x5)
    /\ x9 = "bad_alloc" => x6 > MaxRoom /\ (x5 = <<>> \/ 2 * Len(x5) >= x6)

(* In such a state a text shows the fields.                                *)
LEMMA FormatShowsTimeHolds ==
    ASSUME Shown!FieldConstants, FieldsInv PROVE Shown!FormatShowsTime
<1>1. ASSUME x9 = "formatted"
      PROVE  Len(x8) = Len(x5) /\ (x1.m_nDays > 0 => Shown!ShowsFields(Shown!FieldsOf(x1)))
  <2>1. PICK yday : x7 = Shown!Tm(Shown!FieldsOf(x1), yday)
    BY <1>1 DEF FieldsInv, Showing
  <2>2. x5 \in Seq(STRING)
    BY <1>1 DEF FieldsInv, Showing, Shown!FieldConstants
  <2>3. x8 = [k \in 1..Len(x5) |-> Shown!Converted(x7, x5[k])]
    BY <1>1 DEF FieldsInv, Shown!Expanded
  <2>4. Len(x8) = Len(x5)
    BY <2>2, <2>3
  <2>5. ASSUME x1.m_nDays > 0, NEW k \in 1..Len(x5), x5[k] \notin {"I", "j"}
        PROVE  x8[k] = Shown!_GetValue(Shown!FieldsOf(x1), x5[k])
    <3> DEFINE f == Shown!FieldsOf(x1)
    <3>1. x1 \in Value
      BY DEF FieldsInv
    <3>2. PICK y \in Years, n \in Months, d \in Nat, h \in Hours, min \in Sixty, s \in Sixty :
            IsFields(f, y, n, d, h, min, s)
      BY <2>5, <3>1, FieldsOfTime
    <3>3. OfTheCalendar(f)
      <4> HIDE DEF f
      <4> QED
        BY <3>2 DEF IsFields, OfTheCalendar, FirstYear, LastYear, Years, Months, Hours, Sixty
    <3>4. x8[k] = Shown!Converted(Shown!Tm(f, yday), x5[k])
      BY <2>1, <2>3
    <3>5. x5[k] \notin {"I", "j"}
      BY <2>5
    <3> HIDE DEF f
    <3>6. Shown!Converted(Shown!Tm(f, yday), x5[k]) = Shown!_GetValue(f, x5[k])
      BY <3>3, <3>5, ConvertedIsValue
    <3> QED
      BY <3>4, <3>6 DEF f
  <2> QED
    BY <2>4, <2>5 DEF Shown!ShowsFields
<1> QED
  BY <1>1 DEF Shown!FormatShowsTime, FieldsInv

(* The times and spans a behaviour begins with, or is given, are such.     *)
LEMMA ShownSpans ==
    ASSUME Shown!FieldConstants
    PROVE  /\ Shown!At(0, 0) \in Value /\ Shown!At(0, 0) \in SignedSpan
           /\ Shown!Span \subseteq SignedSpan
           /\ \A d \in Day, s \in Second : Shown!At(d, s) \in Value
<1>1. Shown!At(0, 0) \in Value /\ Shown!At(0, 0) \in SignedSpan
  <2>1. Shown!At(0, 0) \in Value
    BY DEF Shown!At, Value, SECOND_PERDAY
  <2> QED
    BY <2>1, ValuesAreSpans
<1>2. ASSUME NEW s \in Second PROVE s \in Nat /\ s < SECOND_PERDAY
  <2>1. s \in 0..(Shown!SECOND_PERDAY - 1)
    BY DEF Shown!FieldConstants
  <2>2. Shown!SECOND_PERDAY \in Int /\ Shown!SECOND_PERDAY = SECOND_PERDAY
    BY DEF Shown!SECOND_PERDAY, SECOND_PERDAY
  <2> QED
    BY <2>1, <2>2
<1>3. ASSUME NEW d \in Day, NEW s \in Second PROVE Shown!At(d, s) \in Value
  <2>1. d \in Int
    BY DEF Shown!FieldConstants
  <2> QED
    BY <1>2, <2>1 DEF Shown!At, Value
<1>4. ASSUME NEW d \in {-1, 0, 1}, NEW s \in Second PROVE Shown!At(d, s) \in SignedSpan
  <2>1. d \in Int
    OBVIOUS
  <2> QED
    BY <1>2, <2>1 DEF Shown!At, SignedSpan, SECOND_PERDAY
<1>5. ASSUME NEW z \in Int PROVE Shown!SpanOfSeconds(z) \in SignedSpan
  <2> DEFINE q == Shown!Quot(z, 86400)
             r == Shown!Rem(z, 86400)
  <2>1. q \in Int /\ r \in Int /\ -86400 < r /\ r < 86400
    BY DEF Shown!Quot, Shown!Rem
  <2>2. Shown!SpanOfSeconds(z) = [m_nDays |-> q, m_nSeconds |-> r]
    BY DEF Shown!SpanOfSeconds, Shown!At, Shown!SECOND_PERDAY
  <2> HIDE DEF q, r
  <2> QED
    BY <2>1, <2>2 DEF SignedSpan, SECOND_PERDAY
<1>6. ASSUME NEW d \in {-1, 0, 1}, NEW s \in Second \cup {-s : s \in Second}
      PROVE  d * Shown!SECOND_PERDAY + s \in Int
  <2>1. s \in Int
    BY <1>2
  <2> QED
    BY <2>1 DEF Shown!SECOND_PERDAY
<1>7. Shown!Span \subseteq SignedSpan
  <2>1. ASSUME NEW z \in Shown!Span PROVE z \in SignedSpan
    <3>1. \/ \E d \in {-1, 0, 1}, s \in Second \cup {-s : s \in Second} :
                z = Shown!SpanOfSeconds(d * Shown!SECOND_PERDAY + s)
          \/ \E d \in {-1, 0, 1}, s \in Second : z = Shown!At(d, s)
      BY <2>1 DEF Shown!Span
    <3> QED
      BY <1>4, <1>5, <1>6, <3>1
  <2> QED
    BY <2>1
<1> QED
  BY <1>1, <1>3, <1>7

(* The invariant holds at the start.                                       *)
LEMMA FieldsInit == ASSUME Shown!FieldConstants, Shown!Init PROVE FieldsInv
<1>1. x1 \in Value /\ x2 \in Value /\ x3 \in SignedSpan /\ x4 \in SignedSpan
  <2>1. CASE x1 = Shown!At(0, 0) /\ x2 = x1 /\ x3 \in Shown!Span
    BY <2>1, ShownSpans DEF Shown!Init
  <2>2. CASE /\ x1 \in {Shown!At(d, s) : d \in Day, s \in Second} /\ x3 = x4
             /\ x2 \in {Shown!At(x1.m_nDays, s) : s \in Second}
    <3>1. PICK d \in Day, s \in Second : x1 = Shown!At(d, s)
      BY <2>2
    <3>2. x1.m_nDays = d
      BY <3>1 DEF Shown!At
    <3> QED
      BY <2>2, <3>1, <3>2, ShownSpans DEF Shown!Init
  <2> QED
    BY <2>1, <2>2 DEF Shown!Init
<1>2. x9 = "idle"
  BY DEF Shown!Init
<1> QED
  BY <1>1, <1>2 DEF FieldsInv

(* Every call, and every step of Format, keeps it.                         *)
LEMMA FieldsStep == ASSUME Shown!FieldConstants, FieldsInv, Shown!Next PROVE FieldsInv'
<1>1. x1 \in Value /\ x2 \in Value /\ x3 \in SignedSpan /\ x4 \in SignedSpan
  BY DEF FieldsInv
<1>2. CASE Shown!GetCurrentTime
  <2>1. PICK now \in Clock : x1' = Shown!_SetDate(now[1], now[2])
    BY <1>2 DEF Shown!GetCurrentTime
  <2>2. x1' \in Value
    <3> DEFINE D == Years \X Months \X (1..31)
               H == Hours \X Sixty \X Sixty
    <3>1. now \in D \X H
      BY DEF Shown!FieldConstants, Shown!FirstYear, Shown!LastYear, FirstYear, LastYear,
             Years, Months, Hours, Sixty
    <3>2. now[1] \in D /\ now[2] \in H
      <4> HIDE DEF D, H
      <4> QED
        BY <3>1
    <3>3. Shown!_SetDate(now[1], now[2]) = C!_SetDate(now[1], now[2])
      BY ShownDate
    <3> QED
      BY <2>1, <3>2, <3>3, TimeOfParts, Zenon
  <2>3. x9' = "idle" /\ UNCHANGED <<x2, x3, x4>>
    BY <1>2 DEF Shown!GetCurrentTime, Shown!Call
  <2> QED
    BY <1>1, <2>2, <2>3 DEF FieldsInv
<1>3. CASE Shown!Copy
  <2>1. x9' = "idle" /\ x2' = x1 /\ x4' = x3 /\ UNCHANGED <<x1, x3>>
    BY <1>3 DEF Shown!Copy, Shown!Call
  <2> QED
    BY <1>1, <2>1 DEF FieldsInv
<1>4. CASE Shown!SetTimeSpan
  <2>1. PICK s \in Shown!Span : x4' = Shown!At(s.m_nDays, s.m_nSeconds)
    BY <1>4 DEF Shown!SetTimeSpan
  <2>2. s \in SignedSpan
    BY ShownSpans
  <2>3. x4' \in SignedSpan
    BY <2>1, <2>2 DEF Shown!At, SignedSpan
  <2>4. x9' = "idle" /\ UNCHANGED <<x1, x2, x3>>
    BY <1>4 DEF Shown!SetTimeSpan, Shown!Call
  <2> QED
    BY <1>1, <2>3, <2>4 DEF FieldsInv
<1>5. CASE Shown!Format
  <2>1. PICK f \in Formats, yday \in YearDay : x5' = f /\ x7' = Shown!Tm(Shown!FieldsOf(x1), yday)
    BY <1>5 DEF Shown!Format
  <2>2. x9' = "format" /\ x6' = FirstRoom /\ UNCHANGED <<x1, x2, x3, x4>>
    BY <1>5 DEF Shown!Format, Shown!values
  <2>3. Shown!FieldsOf(x1)' = Shown!FieldsOf(x1)
    BY <2>2 DEF Shown!FieldsOf
  <2>4. Showing'
    BY <2>1, <2>2, <2>3, Zenon DEF Showing
  <2>5. x6' \in Nat
    BY <2>2 DEF Shown!FieldConstants
  <2> QED
    BY <1>1, <2>2, <2>4, <2>5 DEF FieldsInv
<1>6. CASE Shown!Fill
  <2>1. /\ UNCHANGED <<x1, x2, x3, x4, x5, x7>>
        /\ x9 = "format" /\ x9' \in {"format", "bad_alloc", "formatted"}
    BY <1>6 DEF Shown!Fill, Shown!values
  <2>2. Showing' <=> Showing
    BY <2>1 DEF Showing, Shown!FieldsOf
  <2>3. Showing /\ x6 \in Nat
    BY <2>1 DEF FieldsInv
  <2>4. Len(x5) \in Nat /\ (Len(x5) = 0 => x5 = <<>>)
    <3>1. x5 \in Seq(STRING)
      BY <2>3 DEF Showing, Shown!FieldConstants
    <3> QED
      BY <3>1
  <2>5. x9' = "format" => x6' \in Nat
    BY <1>6, <2>3 DEF Shown!Fill
  <2>6. x9' = "formatted" => x8' = Shown!Expanded(x7, x5)
    BY <1>6, <2>1 DEF Shown!Fill
  <2>7. x9' = "bad_alloc" => x6' > MaxRoom /\ (x5 = <<>> \/ 2 * Len(x5) >= x6')
    <3> SUFFICES ASSUME x9' = "bad_alloc" PROVE x6' > MaxRoom /\ (x5 = <<>> \/ 2 * Len(x5) >= x6')
      OBVIOUS
    <3>1. Shown!Strftime(x6, x5, x7) = 0 /\ x6' = 2 * x6 /\ 2 * x6 > MaxRoom
      BY <1>6, <2>1 DEF Shown!Fill
    <3>2. Len(x5) = 0 \/ Len(x5) >= x6
      BY <2>3, <2>4, <3>1 DEF Shown!Strftime
    <3> QED
      BY <2>3, <2>4, <3>1, <3>2
  <2> QED
    BY <1>1, <2>1, <2>2, <2>3, <2>5, <2>6, <2>7 DEF FieldsInv, Shown!Expanded
<1>7. CASE Shown!Return
  <2>1. x9' = "idle" /\ UNCHANGED <<x1, x2, x3, x4>>
    BY <1>7 DEF Shown!Return, Shown!values
  <2> QED
    BY <1>1, <2>1 DEF FieldsInv
<1> QED
  BY <1>2, <1>3, <1>4, <1>5, <1>6, <1>7 DEF Shown!Next

(* It gives all that is said of fields, order and text.                    *)
LEMMA FieldsPart ==
    ASSUME Shown!FieldConstants, FieldsInv
    PROVE  Shown!FieldsRight /\ Shown!OrderRight /\ Shown!FormatShowsTime
<1>1. x1 \in Value /\ x2 \in Value /\ x3 \in SignedSpan /\ x4 \in SignedSpan
  BY DEF FieldsInv
<1> QED
  BY <1>1, TimeIsItsFields, SpanIsItsFields, OrderRightHolds, FormatShowsTimeHolds DEF Shown!FieldsRight

-----------------------------------------------------------------------------
(* The inductive invariant of the parts about time.                        *)
ClockInv ==
    /\ part = "time" => TimeInv
    /\ part = "fields" => FieldsInv

(* It holds at the start of every behaviour.                               *)
LEMMA ClockInit == ToolsInit => ClockInv
<1> SUFFICES ASSUME ToolsInit PROVE ClockInv
  OBVIOUS
<1> USE CalendarConstants, FieldConstants
<1>1. part = "time" => TimeInv
  BY TimeInit DEF ToolsInit
<1>2. part = "fields" => FieldsInv
  BY FieldsInit DEF ToolsInit
<1> QED
  BY <1>1, <1>2 DEF ClockInv

(* It holds on as long as nothing changes.                                 *)
LEMMA ClockStutters == ASSUME ClockInv, UNCHANGED <<part, slots>> PROVE ClockInv'
<1>1. UNCHANGED <<part, x1, x2, x3, x4, x5, x6, x7, x8, x9>>
  BY DEF slots, above8
<1>2. /\ pieces' = pieces
      /\ \A f, z, n : Searching(f, z, n)' <=> Searching(f, z, n)
      /\ \A f, z, n : Replacing(f, z, n)' <=> Replacing(f, z, n)
  BY <1>1, PiecesStay
<1>3. TimeInv => TimeInv'
  BY <1>1, <1>2 DEF TimeInv, FormatInv
<1>4. Showing => Showing'
  BY <1>1 DEF Showing, Shown!FieldsOf
<1>5. FieldsInv => FieldsInv'
  BY <1>1, <1>4 DEF FieldsInv
<1> QED
  BY <1>1, <1>3, <1>5 DEF ClockInv

(* Every step keeps it.                                                    *)
LEMMA ClockStep == ClockInv /\ [ToolsNext]_<<part, slots>> => ClockInv'
<1> SUFFICES ASSUME ClockInv, [ToolsNext]_<<part, slots>> PROVE ClockInv'
  OBVIOUS
<1> USE CalendarConstants, FieldConstants
<1>1. CASE ToolsNext
  <2>1. part' = part
    BY <1>1 DEF ToolsNext
  <2>2. part = "time" => TimeInv'
    BY <1>1, TimeStep DEF ToolsNext, ClockInv
  <2>3. part = "fields" => FieldsInv'
    BY <1>1, FieldsStep DEF ToolsNext, ClockInv
  <2> QED
    BY <2>1, <2>2, <2>3 DEF ClockInv
<1>2. CASE UNCHANGED <<part, slots>>
  BY <1>2, ClockStutters
<1> QED
  BY <1>1, <1>2

(* Times are those of the calendar, their arithmetic, their order and what
   Format makes of them is right in every state, for all dates, spans and
   formats (Time.cpp, TimeSpan.cpp).                                       *)
THEOREM TimeAlwaysRight == ToolsSpec => []TimeRight
<1>1. ClockInv => TimeRight
  BY CalendarConstants, FieldConstants, TimePart, FieldsPart DEF ClockInv, TimeRight
<1> QED
  BY <1>1, ClockInit, ClockStep, PTL DEF ToolsSpec

-----------------------------------------------------------------------------

(* One sequence more is put behind what the others add up to.              *)
LEMMA FlattenSnoc ==
    ASSUME NEW S, NEW s \in Seq(Seq(S)), NEW e \in Seq(S)
    PROVE  /\ FlattenSeq(s) \in Seq(S)
           /\ FlattenSeq(Append(s, e)) = FlattenSeq(s) \o e
<1> DEFINE t == Append(s, e)
<1>1. /\ t \in Seq(Seq(S)) /\ Len(t) = Len(s) + 1 /\ Len(s) \in Nat
      /\ \A i \in 1..Len(s) : t[i] = s[i]
      /\ t[Len(s) + 1] = e
  <2>1. Len(s) \in Nat
    BY LenProperties, Zenon
  <2>2. s \in Seq(Seq(S)) /\ e \in Seq(S)
    OBVIOUS
  <2> QED
    BY <2>1, <2>2, AppendProperties
<1> HIDE DEF t
<1>2. PICK f : Accumulates(f, t, S)
  BY <1>1, PrefixesExist, Zenon
<1>3. FlattenSeq(t) = f[Len(s) + 1]
  BY <1>1, <1>2, FlattenIs, Zenon
<1> DEFINE g == [i \in 0..Len(s) |-> f[i]]
<1>4. Accumulates(g, s, S)
  <2>1. f \in [0..(Len(s) + 1) -> Seq(S)] /\ f[0] = <<>>
    BY <1>1, <1>2 DEF Accumulates
  <2>2. \A i \in 1..(Len(s) + 1) : f[i] = f[i - 1] \o t[i]
    BY <1>1, <1>2 DEF Accumulates
  <2>3. g \in [0..Len(s) -> Seq(S)] /\ g[0] = <<>>
    BY <1>1, <2>1
  <2>4. ASSUME NEW i \in 1..Len(s) PROVE g[i] = g[i - 1] \o s[i]
    <3>1. i \in 1..(Len(s) + 1) /\ i \in 0..Len(s) /\ i - 1 \in 0..Len(s)
      BY <1>1
    <3>2. f[i] = f[i - 1] \o t[i] /\ t[i] = s[i]
      BY <1>1, <2>2, <3>1, Zenon
    <3>3. g[i] = f[i] /\ g[i - 1] = f[i - 1]
      BY <3>1
    <3> QED
      BY <3>2, <3>3, Zenon
  <2> QED
    BY <2>3, <2>4, Zenon DEF Accumulates
<1>5. FlattenSeq(s) = g[Len(s)]
  BY <1>4, FlattenIs, Zenon
<1>6. g[Len(s)] = f[Len(s)] /\ g[Len(s)] \in Seq(S)
  <2>1. Len(s) \in 0..Len(s)
    BY <1>1
  <2> QED
    BY <1>4, <2>1 DEF Accumulates
<1>7. f[Len(s) + 1] = f[Len(s)] \o e
  <2>1. Len(s) + 1 \in 1..Len(t) /\ (Len(s) + 1) - 1 = Len(s)
    BY <1>1
  <2>2. f[Len(s) + 1] = f[(Len(s) + 1) - 1] \o t[Len(s) + 1]
    BY <1>2, <2>1, Zenon DEF Accumulates
  <2> QED
    BY <1>1, <2>1, <2>2, Zenon
<1> QED
  BY <1>3, <1>5, <1>6, <1>7, Zenon DEF t

(* Nothing adds up to nothing.                                             *)
LEMMA FlattenNone == FlattenSeq(<<>>) = <<>>
<1>1. Len(<<>>) = 0
  BY EmptySeq
<1> QED
  BY <1>1 DEF FlattenSeq

(* A set of numbers up to a bound has a greatest.                          *)
LEMMA Greatest ==
    ASSUME NEW n \in Nat, NEW T, T \subseteq 0..n, T # {}
    PROVE  \E m \in T : \A k \in T : k <= m
<1> DEFINE U == {n - k : k \in T}
<1>1. U \subseteq Nat /\ U # {}
  <2>1. \A k \in T : n - k \in Nat
    OBVIOUS
  <2> QED
    BY <2>1
<1>2. \A k \in T : n - k \in U
  OBVIOUS
<1>3. \A u \in U : \E k \in T : u = n - k
  OBVIOUS
<1> HIDE DEF U
<1>4. PICK u \in U : \A v \in U : u <= v
  BY <1>1, Least
<1>5. PICK m \in T : u = n - m
  BY <1>3
<1>6. \A k \in T : k <= m
  BY <1>2, <1>4, <1>5
<1> QED
  BY <1>6

(* A prefix is what comes first.                                           *)
LEMMA PrefixIs ==
    ASSUME NEW S, NEW s \in Seq(S), NEW t \in Seq(S)
    PROVE  IsPrefix(s, t) <=> Len(s) <= Len(t) /\ \A i \in 1..Len(s) : s[i] = t[i]
<1>1. Len(s) \in Nat /\ Len(t) \in Nat
  BY LenProperties, Zenon
<1>2. SubSeq(s, 1, Len(s)) = s
  BY SubSeqFull, Zenon
<1>3. ASSUME Len(s) <= Len(t)
      PROVE  /\ SubSeq(t, 1, Len(s)) \in Seq(S) /\ Len(SubSeq(t, 1, Len(s))) = Len(s)
             /\ \A i \in 1..Len(s) : SubSeq(t, 1, Len(s))[i] = t[i]
  <2>1. \A i \in 1..Len(s) : t[i] \in S
    BY <1>1, <1>3, ElementOfSeq
  <2> QED
    BY <1>1, <1>3, <2>1, SubSeqProperties
<1>4. CASE ~(Len(s) <= Len(t))
  BY <1>4 DEF IsPrefix
<1>5. CASE Len(s) <= Len(t)
  <2> DEFINE p == SubSeq(t, 1, Len(s))
  <2>1. IsPrefix(s, t) <=> s = p
    BY <1>2, <1>5, Zenon DEF IsPrefix
  <2>2. /\ p \in Seq(S) /\ Len(p) = Len(s)
        /\ \A i \in 1..Len(s) : p[i] = t[i]
    BY <1>3, <1>5, Zenon
  <2> HIDE DEF p
  <2>3. (\A i \in 1..Len(s) : s[i] = t[i]) => s = p
    <3> SUFFICES ASSUME \A i \in 1..Len(s) : s[i] = t[i] PROVE s = p
      OBVIOUS
    <3>1. \A i \in 1..Len(s) : s[i] = p[i]
      BY <2>2, Zenon
    <3> QED
      BY <2>2, <3>1, SeqEqual, Zenon
  <2>4. s = p => \A i \in 1..Len(s) : s[i] = t[i]
    BY <2>2, Zenon
  <2> QED
    BY <1>5, <2>1, <2>3, <2>4, Zenon
<1> QED
  BY <1>4, <1>5

(* What holds of the empty sequence, and of one more element with what comes
   before it, holds of every sequence.                                     *)
LEMMA BySnoc ==
    ASSUME NEW S, NEW G, <<>> \in G,
           \A s \in Seq(S), e \in S : s \in G => Append(s, e) \in G
    PROVE  Seq(S) \subseteq G
<1> DEFINE T == {n \in Nat : \E s \in Seq(S) : Len(s) = n /\ s \notin G}
<1>1. T \subseteq Nat
  OBVIOUS
<1>2. \A n \in T : \E s \in Seq(S) : Len(s) = n /\ s \notin G
  OBVIOUS
<1>3. \A n \in Nat, s \in Seq(S) : Len(s) = n /\ s \notin G => n \in T
  OBVIOUS
<1> HIDE DEF T
<1>4. SUFFICES ASSUME T # {} PROVE FALSE
  <2>1. \A s \in Seq(S) : Len(s) \in Nat
    BY LenProperties, Zenon
  <2> QED
    BY <1>3, <1>4, <2>1, Zenon
<1>5. PICK n \in T : \A k \in T : n <= k
  BY <1>1, <1>4, Least, Zenon
<1>6. PICK s \in Seq(S) : Len(s) = n /\ s \notin G
  BY <1>2, <1>5, Zenon
<1>7. s # <<>>
  BY <1>6, Zenon
<1>8. PICK t \in Seq(S), e \in S : s = Append(t, e)
  BY <1>7, SequenceEmptyOrAppend, Zenon
<1>9. Len(t) \in Nat /\ n = Len(t) + 1
  <2>1. Len(t) \in Nat
    BY LenProperties, Zenon
  <2>2. Len(Append(t, e)) = Len(t) + 1
    BY AppendProperties, Zenon
  <2> QED
    BY <2>1, <2>2, <1>6, <1>8, Zenon
<1>10. t \notin G
  BY <1>6, <1>8, Zenon
<1>11. Len(t) \in T
  BY <1>3, <1>9, <1>10, Zenon
<1>12. n <= Len(t)
  BY <1>5, <1>11, Zenon
<1> QED
  BY <1>9, <1>12

(* What a path is made of, and a node.                                     *)
PathPart == Entry \cup {SEP, DOT}
(* A file or folder is named by the names that lead to it.                 *)
Node == Seq(Entry)
(* What a part of a path adds to those names.                              *)
NameOf(x) == IF x \in {SEP, DOT} THEN <<>> ELSE <<x>>

(* At most one name.                                                       *)
LEMMA NameOfIs == ASSUME NEW x \in PathPart PROVE NameOf(x) \in Node
<1>1. <<>> \in Node
  BY EmptySeq, Zenon DEF Node
<1>2. x \notin {SEP, DOT} => x \in Entry
  BY DEF PathPart
<1>3. x \in Entry => <<x>> \in Node
  BY DEF Node
<1> QED
  BY <1>1, <1>2, <1>3, Zenon DEF NameOf

(* The names of a path are those of its parts.                             *)
LEMMA NamesOf ==
    ASSUME NEW path \in Seq(PathPart), NEW x \in PathPart
    PROVE  /\ Folder!Names(path) \in Node
           /\ Folder!Names(Append(path, x)) = Folder!Names(path) \o NameOf(x)
<1> DEFINE P(p) == [k \in 1..Len(p) |-> IF p[k] \in {SEP, DOT} THEN <<>> ELSE <<p[k]>>]
           q == Append(path, x)
<1>1. /\ q \in Seq(PathPart) /\ Len(q) = Len(path) + 1 /\ Len(path) \in Nat
      /\ \A i \in 1..Len(path) : q[i] = path[i]
      /\ q[Len(path) + 1] = x
  <2>1. Len(path) \in Nat
    BY LenProperties, Zenon
  <2> QED
    BY <2>1, AppendProperties
<1>2. \A s : Folder!FlattenSeq(s) = FlattenSeq(s)
  BY DEF Folder!FlattenSeq, FlattenSeq
<1>3. Folder!Names(path) = FlattenSeq(P(path)) /\ Folder!Names(q) = FlattenSeq(P(q))
  <2> HIDE DEF q
  <2> QED
    BY <1>2 DEF Folder!Names
<1> HIDE DEF q
<1>4. \A i \in 1..Len(path) : NameOf(path[i]) \in Node
  <2> TAKE i \in 1..Len(path)
  <2>1. path[i] \in PathPart
    BY ElementOfSeq, Zenon
  <2> QED
    BY <2>1, NameOfIs, Zenon
<1>5. P(path) = [i \in 1..Len(path) |-> NameOf(path[i])] /\ P(q) = [i \in 1..Len(q) |-> NameOf(q[i])]
  BY Zenon DEF NameOf
<1> HIDE DEF P
<1>6. P(path) \in Seq(Node) /\ Len(P(path)) = Len(path)
  <2> DEFINE r == [i \in 1..Len(path) |-> NameOf(path[i])]
  <2>1. r \in Seq(Node) /\ Len(r) = Len(path)
    BY <1>1, <1>4
  <2> QED
    BY <1>5, <2>1, Zenon
<1>7. P(q) = Append(P(path), NameOf(x))
  <2>1. NameOf(x) \in Node
    BY NameOfIs
  <2> DEFINE l == P(q)
             r == Append(P(path), NameOf(x))
  <2>2. /\ r \in Seq(Node) /\ Len(r) = Len(path) + 1
        /\ \A i \in 1..Len(path) : r[i] = P(path)[i]
        /\ r[Len(path) + 1] = NameOf(x)
    BY <1>6, <2>1, AppendProperties
  <2>3. l \in Seq(Node) /\ Len(l) = Len(path) + 1
    <3> DEFINE u == [i \in 1..Len(q) |-> NameOf(q[i])]
    <3>1. \A i \in 1..Len(q) : NameOf(q[i]) \in Node
      <4> TAKE i \in 1..Len(q)
      <4>1. q[i] \in PathPart
        BY <1>1, ElementOfSeq, Zenon
      <4> QED
        BY <4>1, NameOfIs, Zenon
    <3>2. Len(q) \in Nat
      BY <1>1
    <3>3. u \in Seq(Node) /\ Len(u) = Len(q)
      BY <3>1, <3>2
    <3> QED
      BY <1>1, <1>5, <3>3, Zenon
  <2>4. ASSUME NEW i \in 1..(Len(path) + 1) PROVE l[i] = r[i]
    <3>1. l[i] = NameOf(q[i])
      BY <1>1, <1>5
    <3>2. CASE i \in 1..Len(path)
      <4>1. P(path)[i] = NameOf(path[i])
        BY <1>5, <3>2
      <4> QED
        BY <1>1, <2>2, <3>1, <3>2, <4>1, Zenon
    <3>3. CASE i = Len(path) + 1
      BY <1>1, <2>2, <3>1, <3>3, Zenon
    <3>4. i \in 1..Len(path) \/ i = Len(path) + 1
      BY <1>1
    <3> QED
      BY <3>2, <3>3, <3>4, Zenon
  <2> HIDE DEF l, r
  <2>5. l = r
    BY <2>2, <2>3, <2>4, SeqEqual
  <2> QED
    BY <2>5, Zenon DEF l, r
<1>8. NameOf(x) \in Node
  BY NameOfIs
<1>9. FlattenSeq(P(path)) \in Node /\ FlattenSeq(Append(P(path), NameOf(x))) = FlattenSeq(P(path)) \o NameOf(x)
  BY <1>6, <1>8, FlattenSnoc DEF Node
<1> QED
  BY <1>3, <1>7, <1>9, Zenon DEF q

(* The empty path leads nowhere on.                                        *)
LEMMA NamesNone == Folder!Names(<<>>) = <<>>
<1>1. Len(<<>>) = 0
  BY EmptySeq
<1>2. [k \in 1..0 |-> IF <<>>[k] \in {SEP, DOT} THEN <<>> ELSE <<<<>>[k]>>] = <<>>
  OBVIOUS
<1>3. \A s : Folder!FlattenSeq(s) = FlattenSeq(s)
  BY DEF Folder!FlattenSeq, FlattenSeq
<1> QED
  BY <1>1, <1>2, <1>3, FlattenNone, Zenon DEF Folder!Names

(* Two paths, one behind the other, lead on and on.                        *)
LEMMA NamesConcat ==
    ASSUME NEW p \in Seq(PathPart), NEW q \in Seq(PathPart)
    PROVE  p \o q \in Seq(PathPart) /\ Folder!Names(p \o q) = Folder!Names(p) \o Folder!Names(q)
<1> DEFINE G == {s \in Seq(PathPart) : Folder!Names(p \o s) = Folder!Names(p) \o Folder!Names(s)}
<1>0. Folder!Names(p) \in Node
  <2>1. SEP \in PathPart
    BY DEF PathPart
  <2> QED
    BY <2>1, NamesOf, Zenon
<1>1. <<>> \in G
  <2>1. p \o <<>> = p /\ Folder!Names(p) \o <<>> = Folder!Names(p)
    BY <1>0, ConcatEmptySeq, Zenon DEF Node
  <2>2. <<>> \in Seq(PathPart)
    BY EmptySeq, Zenon
  <2> QED
    BY <2>1, <2>2, NamesNone, Zenon
<1>2. ASSUME NEW s \in Seq(PathPart), NEW e \in PathPart, s \in G PROVE Append(s, e) \in G
  <2>1. p \o Append(s, e) = Append(p \o s, e)
    <3>1. p \o s \in Seq(PathPart) /\ <<e>> \in Seq(PathPart)
      BY ConcatProperties
    <3>2. Append(s, e) = s \o <<e>> /\ Append(p \o s, e) = (p \o s) \o <<e>>
      BY <3>1, AppendIsConcat, Zenon
    <3>3. (p \o s) \o <<e>> = p \o (s \o <<e>>)
      BY <3>1, ConcatAssociative
    <3> QED
      BY <3>2, <3>3, Zenon
  <2>2. p \o s \in Seq(PathPart) /\ Append(s, e) \in Seq(PathPart)
    BY ConcatProperties, AppendProperties
  <2>3. Folder!Names(Append(p \o s, e)) = Folder!Names(p \o s) \o NameOf(e)
    BY <2>2, NamesOf, Zenon
  <2>4. Folder!Names(Append(s, e)) = Folder!Names(s) \o NameOf(e) /\ Folder!Names(s) \in Node
    BY NamesOf, Zenon
  <2>5. Folder!Names(p \o s) = Folder!Names(p) \o Folder!Names(s)
    BY <1>2, Zenon
  <2>6. (Folder!Names(p) \o Folder!Names(s)) \o NameOf(e) = Folder!Names(p) \o (Folder!Names(s) \o NameOf(e))
    <3>1. NameOf(e) \in Seq(Entry) /\ Folder!Names(p) \in Seq(Entry) /\ Folder!Names(s) \in Seq(Entry)
      BY <1>0, <2>4, NameOfIs, Zenon DEF Node
    <3> QED
      BY <3>1, ConcatAssociative
  <2>7. Folder!Names(p \o Append(s, e)) = Folder!Names(p) \o Folder!Names(Append(s, e))
    BY <2>1, <2>3, <2>4, <2>5, <2>6, Zenon
  <2> QED
    BY <2>2, <2>7, Zenon
<1>3. Seq(PathPart) \subseteq G
  <2> HIDE DEF G
  <2> QED
    BY <1>1, <1>2, BySnoc, Zenon
<1>4. p \o q \in Seq(PathPart)
  BY ConcatProperties, Zenon
<1> QED
  BY <1>3, <1>4, Zenon

(* What is made of each element, when there is one more.                   *)
LEMMA EachSnoc ==
    ASSUME NEW S, NEW T, NEW f \in [S -> T], NEW p \in Seq(S), NEW x \in S
    PROVE  /\ [i \in 1..Len(p) |-> f[p[i]]] \in Seq(T)
           /\ [i \in 1..Len(Append(p, x)) |-> f[Append(p, x)[i]]] = Append([i \in 1..Len(p) |-> f[p[i]]], f[x])
<1> DEFINE q == Append(p, x)
           l == [i \in 1..Len(q) |-> f[q[i]]]
           m == [i \in 1..Len(p) |-> f[p[i]]]
           r == Append(m, f[x])
<1>1. /\ q \in Seq(S) /\ Len(q) = Len(p) + 1 /\ Len(p) \in Nat
      /\ \A i \in 1..Len(p) : q[i] = p[i]
      /\ q[Len(p) + 1] = x
  <2>1. Len(p) \in Nat
    BY LenProperties, Zenon
  <2> QED
    BY <2>1, AppendProperties
<1> HIDE DEF q
<1>2. m \in Seq(T) /\ Len(m) = Len(p) /\ \A i \in 1..Len(p) : m[i] = f[p[i]]
  <2>1. \A i \in 1..Len(p) : f[p[i]] \in T
    BY ElementOfSeq
  <2> QED
    BY <1>1, <2>1
<1>3. l \in Seq(T) /\ Len(l) = Len(p) + 1 /\ \A i \in 1..(Len(p) + 1) : l[i] = f[q[i]]
  <2>1. \A i \in 1..Len(q) : f[q[i]] \in T
    BY <1>1, ElementOfSeq
  <2> QED
    BY <1>1, <2>1
<1> HIDE DEF l, m
<1>4. /\ r \in Seq(T) /\ Len(r) = Len(p) + 1
      /\ \A i \in 1..Len(p) : r[i] = m[i]
      /\ r[Len(p) + 1] = f[x]
  <2>1. f[x] \in T
    OBVIOUS
  <2> QED
    BY <1>2, <2>1, AppendProperties
<1> HIDE DEF r
<1>5. ASSUME NEW i \in 1..(Len(p) + 1) PROVE l[i] = r[i]
  <2>0. l[i] = f[q[i]]
    BY <1>3, Zenon
  <2>1. CASE i \in 1..Len(p)
    <3>1. q[i] = p[i] /\ m[i] = f[p[i]] /\ r[i] = m[i]
      BY <1>1, <1>2, <1>4, <2>1, Zenon
    <3> QED
      BY <2>0, <3>1, Zenon
  <2>2. CASE i = Len(p) + 1
    BY <1>1, <1>4, <2>0, <2>2, Zenon
  <2>3. i \in 1..Len(p) \/ i = Len(p) + 1
    BY <1>1
  <2> QED
    BY <2>1, <2>2, <2>3, Zenon
<1>6. l = r
  BY <1>3, <1>4, <1>5, SeqEqual
<1>7. [i \in 1..Len(p) |-> f[p[i]]] \in Seq(T)
  BY <1>2, Zenon DEF m
<1>8. [i \in 1..Len(Append(p, x)) |-> f[Append(p, x)[i]]] = Append([i \in 1..Len(p) |-> f[p[i]]], f[x])
  BY <1>6, SMT DEF l, m, q, r
<1> QED
  BY <1>7, <1>8, Zenon

(* The path of a node: absolute, and leading to it.                        *)
Way(node) == FlattenSeq([k \in 1..Len(node) |-> <<SEP, node[k]>>])

(* One more name is one more part of the way.                              *)
LEMMA WayOf ==
    ASSUME NEW node \in Node, NEW x \in Entry
    PROVE  Way(node) \in Seq(PathPart) /\ Way(Append(node, x)) = Way(node) \o <<SEP, x>>
<1> DEFINE f == [y \in Entry |-> <<SEP, y>>]
           Each(n) == [i \in 1..Len(n) |-> f[n[i]]]
<1>1. f \in [Entry -> Seq(PathPart)] /\ \A y \in Entry : f[y] = <<SEP, y>>
  <2>1. ASSUME NEW y \in Entry PROVE <<SEP, y>> \in Seq(PathPart)
    <3>1. SEP \in PathPart /\ y \in PathPart
      BY DEF PathPart
    <3> QED
      BY <3>1
  <2> QED
    BY <2>1
<1>2. ASSUME NEW n \in Node PROVE [k \in 1..Len(n) |-> <<SEP, n[k]>>] = Each(n)
  <2>1. ASSUME NEW k \in 1..Len(n) PROVE f[n[k]] = <<SEP, n[k]>>
    <3>1. n[k] \in Entry
      BY ElementOfSeq, Zenon DEF Node
    <3> QED
      BY <1>1, <3>1, Zenon
  <2> QED
    BY <2>1, Zenon
<1> HIDE DEF f
<1>3. Each(node) \in Seq(Seq(PathPart)) /\ Each(Append(node, x)) = Append(Each(node), f[x])
  BY <1>1, EachSnoc DEF Node
<1>4. Append(node, x) \in Node
  BY AppendProperties DEF Node
<1>5. f[x] = <<SEP, x>> /\ f[x] \in Seq(PathPart)
  BY <1>1
<1>6. FlattenSeq(Each(node)) \in Seq(PathPart)
      /\ FlattenSeq(Append(Each(node), f[x])) = FlattenSeq(Each(node)) \o f[x]
  <2> HIDE DEF Each
  <2> QED
    BY <1>3, <1>5, FlattenSnoc, Zenon
<1>7. Way(node) = FlattenSeq(Each(node)) /\ Way(Append(node, x)) = FlattenSeq(Each(Append(node, x)))
  BY <1>2, <1>4, Zenon DEF Way
<1> QED
  BY <1>3, <1>5, <1>6, <1>7, Zenon

(* A name behind a path leads on to it.                                    *)
LEMMA OneName ==
    ASSUME NEW p \in Seq(PathPart), NEW x \in Entry, Folder!PathConstants
    PROVE  /\ p \o <<SEP, x>> \in Seq(PathPart)
           /\ Folder!Names(p \o <<SEP, x>>) = Append(Folder!Names(p), x)
<1>0. SEP \in PathPart /\ x \in PathPart /\ x \notin {SEP, DOT}
  BY DEF PathPart, Folder!PathConstants
<1>1. <<SEP, x>> \in Seq(PathPart) /\ <<SEP, x>> = Append(Append(<<>>, SEP), x)
      /\ <<>> \in Seq(PathPart) /\ Append(<<>>, SEP) \in Seq(PathPart)
  BY <1>0
<1>2. Folder!Names(<<SEP, x>>) = (<<>> \o NameOf(SEP)) \o NameOf(x)
  BY <1>0, <1>1, NamesNone, NamesOf, Zenon
<1>3. NameOf(SEP) = <<>> /\ NameOf(x) = <<x>>
  BY <1>0 DEF NameOf
<1>4. (<<>> \o <<>>) \o <<x>> = <<x>>
  OBVIOUS
<1>5. Folder!Names(<<SEP, x>>) = <<x>>
  BY <1>2, <1>3, <1>4, Zenon
<1>6. p \o <<SEP, x>> \in Seq(PathPart) /\ Folder!Names(p \o <<SEP, x>>) = Folder!Names(p) \o <<x>>
  BY <1>1, <1>5, NamesConcat
<1>7. Folder!Names(p) \o <<x>> = Append(Folder!Names(p), x)
  <2>1. Folder!Names(p) \in Seq(Entry)
    BY <1>0, NamesOf DEF Node
  <2> QED
    BY <2>1, AppendIsConcat, Zenon
<1> QED
  BY <1>6, <1>7, Zenon

(* The way to a node names it, from the root.                              *)
LEMMA WayLeads ==
    ASSUME NEW node \in Node, Folder!PathConstants
    PROVE  /\ Way(node) \in Seq(PathPart) /\ Folder!Names(Way(node)) = node
           /\ node # <<>> => Way(node) # <<>> /\ Way(node)[1] = SEP
<1> DEFINE G == {n \in Node : /\ Way(n) \in Seq(PathPart) /\ Folder!Names(Way(n)) = n
                              /\ n # <<>> => Way(n) # <<>> /\ Way(n)[1] = SEP}
<1>0. Way(<<>>) = <<>>
  <2>1. Len(<<>>) = 0
    BY EmptySeq
  <2>2. [k \in 1..0 |-> <<SEP, <<>>[k]>>] = <<>>
    OBVIOUS
  <2> QED
    BY <2>1, <2>2, FlattenNone, Zenon DEF Way
<1>1. <<>> \in G
  <2>1. <<>> \in Node /\ <<>> \in Seq(PathPart)
    BY EmptySeq DEF Node
  <2> QED
    BY <2>1, <1>0, NamesNone, Zenon
<1>2. ASSUME NEW n \in Node, NEW x \in Entry, n \in G PROVE Append(n, x) \in G
  <2>1. Way(n) \in Seq(PathPart) /\ Folder!Names(Way(n)) = n /\ (n # <<>> => Way(n) # <<>> /\ Way(n)[1] = SEP)
    BY <1>2, Zenon
  <2>2. Way(Append(n, x)) = Way(n) \o <<SEP, x>>
    BY WayOf, Zenon
  <2>3. Way(Append(n, x)) \in Seq(PathPart) /\ Folder!Names(Way(Append(n, x))) = Append(n, x)
    BY <2>1, <2>2, OneName, Zenon
  <2> DEFINE w == Way(n)
  <2>4. w \o <<SEP, x>> # <<>> /\ (w \o <<SEP, x>>)[1] = SEP
    <3>0. w \in Seq(PathPart) /\ <<SEP, x>> \in Seq(PathPart) /\ <<SEP, x>>[1] = SEP /\ Len(<<SEP, x>>) = 2
      <4>1. SEP \in PathPart /\ x \in PathPart
        BY DEF PathPart
      <4> QED
        BY <2>1, <4>1
    <3>1. w # <<>> => w[1] = SEP
      <4>1. CASE n # <<>>
        BY <2>1, <4>1
      <4>2. CASE n = <<>>
        BY <1>0, <4>2
      <4> QED
        BY <4>1, <4>2
    <3> HIDE DEF w
    <3>2. Len(w \o <<SEP, x>>) = Len(w) + 2 /\ Len(w) \in Nat
      BY <3>0, ConcatProperties
    <3>3. CASE w = <<>>
      <4>1. <<>> \o <<SEP, x>> = <<SEP, x>>
        BY <3>0, ConcatEmptySeq, Zenon
      <4> QED
        BY <3>3, <4>1, <3>0
    <3>4. CASE w # <<>>
      <4>1. Len(w) >= 1
        BY <3>0, <3>2, <3>4, EmptySeq
      <4>2. 1 \in 1..(Len(w) + Len(<<SEP, x>>)) /\ 1 <= Len(w)
        BY <3>0, <3>2, <4>1
      <4>3. (w \o <<SEP, x>>)[1] = w[1]
        BY <3>0, <4>2, ConcatProperties
      <4>4. w \o <<SEP, x>> # <<>>
        BY <3>2, EmptySeq
      <4> QED
        BY <3>1, <3>4, <4>3, <4>4, Zenon
    <3> QED
      BY <3>3, <3>4
  <2>5. Append(n, x) \in Node
    BY AppendProperties DEF Node
  <2> QED
    BY <2>2, <2>3, <2>4, <2>5, Zenon
<1>3. Node \subseteq G
  <2> HIDE DEF G
  <2>1. \A n \in Seq(Entry), x \in Entry : n \in G => Append(n, x) \in G
    BY <1>2, Zenon DEF Node
  <2> QED
    BY <1>1, <2>1, BySnoc, Zenon DEF Node
<1> QED
  BY <1>3, Zenon

(* So does the path GetCurDirectory gives (FileEx.cpp:50-64).              *)
LEMMA PathOfNode ==
    ASSUME NEW node \in Node, Folder!PathConstants
    PROVE  /\ Folder!PathOf(node) \in Seq(PathPart) /\ Folder!Names(Folder!PathOf(node)) = node
           /\ Folder!PathOf(node) # <<>> /\ Folder!PathOf(node)[1] = SEP
<1>1. CASE node = <<>>
  <2>1. SEP \in PathPart /\ SEP \in {SEP, DOT}
    BY DEF PathPart
  <2>2. Folder!PathOf(node) = <<SEP>>
    BY <1>1, Zenon DEF Folder!PathOf
  <2>3. <<SEP>> = Append(<<>>, SEP) /\ <<>> \in Seq(PathPart) /\ <<SEP>> \in Seq(PathPart)
        /\ <<SEP>> # <<>> /\ <<SEP>>[1] = SEP
    BY <2>1
  <2>4. Folder!Names(<<SEP>>) = <<>> \o <<>>
    BY <2>1, <2>3, NamesOf, NamesNone, Zenon DEF NameOf
  <2>5. <<>> \o <<>> = <<>>
    OBVIOUS
  <2> QED
    BY <1>1, <2>2, <2>3, <2>4, <2>5, Zenon
<1>2. CASE node # <<>>
  <2>1. \A s : Folder!FlattenSeq(s) = FlattenSeq(s)
    BY DEF Folder!FlattenSeq, FlattenSeq
  <2>2. Folder!PathOf(node) = Way(node)
    BY <1>2, <2>1, Zenon DEF Folder!PathOf, Way
  <2> QED
    BY <1>2, <2>2, WayLeads, Zenon
<1> QED
  BY <1>1, <1>2

(* The nodes, and where a path may lead when the current directory is gone. *)
Step1 == Entry \cup {PARENT}
(* What IsPrefix says, place by place.                                     *)
Begins(s, t) == Len(s) <= Len(t) /\ \A i \in 1..Len(s) : s[i] = t[i]

(* Nodes, and the place that is none, are sequences of steps.              *)
LEMMA NodeSteps == Node \subseteq Seq(Step1) /\ Folder!Nowhere \in Seq(Step1)
<1>1. Entry \subseteq Step1 /\ PARENT \in Step1
  BY DEF Step1
<1>2. Node \subseteq Seq(Step1)
  BY <1>1, SeqMonotonic DEF Node
<1> QED
  BY <1>1, <1>2 DEF Folder!Nowhere

(* For steps it is IsPrefix.                                               *)
LEMMA BeginsIs ==
    ASSUME NEW s \in Seq(Step1), NEW t \in Seq(Step1)
    PROVE  Folder!IsPrefix(s, t) <=> Begins(s, t)
<1>1. Folder!IsPrefix(s, t) <=> IsPrefix(s, t)
  BY DEF Folder!IsPrefix, IsPrefix
<1>2. IsPrefix(s, t) <=> Begins(s, t)
  BY PrefixIs DEF Begins
<1> QED
  BY <1>1, <1>2, Zenon

(* What begins a beginning begins the whole.                               *)
LEMMA BeginsTrans ==
    ASSUME NEW S, NEW s \in Seq(S), NEW t \in Seq(S), NEW u \in Seq(S), Begins(s, t), Begins(t, u)
    PROVE  Begins(s, u)
<1>1. Len(s) \in Nat /\ Len(t) \in Nat /\ Len(u) \in Nat
  BY LenProperties, Zenon
<1>2. Len(s) <= Len(t) /\ Len(t) <= Len(u)
  BY Zenon DEF Begins
<1>3. Len(s) <= Len(u)
  BY <1>1, <1>2
<1>4. ASSUME NEW i \in 1..Len(s) PROVE s[i] = u[i]
  <2>1. i \in 1..Len(t)
    BY <1>1, <1>2
  <2> QED
    BY <2>1, Zenon DEF Begins
<1> QED
  BY <1>3, <1>4, Zenon DEF Begins

(* A sequence begins whatever is put behind it.                            *)
LEMMA BeginsConcat ==
    ASSUME NEW S, NEW s \in Seq(S), NEW t \in Seq(S)
    PROVE  Begins(s, s \o t)
<1>1. Len(s) \in Nat /\ Len(t) \in Nat
  BY LenProperties, Zenon
<1>2. \A i \in 1..Len(s) : i \in 1..(Len(s) + Len(t)) /\ i <= Len(s)
  BY <1>1
<1>3. Len(s \o t) = Len(s) + Len(t) /\ \A i \in 1..(Len(s) + Len(t)) : i <= Len(s) => (s \o t)[i] = s[i]
  BY ConcatProperties
<1>4. Len(s) <= Len(s \o t)
  BY <1>1, <1>3
<1> QED
  BY <1>2, <1>3, <1>4, Zenon DEF Begins

(* Also what has one element more.                                         *)
LEMMA BeginsAppend ==
    ASSUME NEW S, NEW s \in Seq(S), NEW x \in S
    PROVE  Begins(s, Append(s, x))
<1>1. Append(s, x) = s \o <<x>> /\ <<x>> \in Seq(S)
  BY AppendIsConcat
<1> QED
  BY <1>1, BeginsConcat, Zenon

(* A node within another is it, or within it by one name.                  *)
LEMMA FrontOf ==
    ASSUME NEW S, NEW x \in Seq(S), x # <<>>
    PROVE  /\ Front(x) \in Seq(S) /\ Last(x) \in S /\ x = Append(Front(x), Last(x))
           /\ Len(x) = Len(Front(x)) + 1 /\ Len(Front(x)) \in Nat
<1>1. PICK s \in Seq(S), e \in S : x = Append(s, e)
  BY SequenceEmptyOrAppend, Zenon
<1>2. /\ Len(s) \in Nat /\ Len(x) = Len(s) + 1
      /\ \A i \in 1..Len(s) : x[i] = s[i]
      /\ x[Len(s) + 1] = e
  <2>1. Len(s) \in Nat
    BY LenProperties, Zenon
  <2> QED
    BY <2>1, <1>1, AppendProperties
<1>3. Last(x) = e
  BY <1>2, Zenon DEF Last
<1>4. Front(x) = SubSeq(x, 1, Len(s))
  <2>1. Len(x) - 1 = Len(s)
    BY <1>2
  <2> QED
    BY <2>1, Zenon DEF Front
<1>5. Front(x) = s
  <2>1. \A i \in 1..Len(s) : x[i] \in S
    BY <1>2, ElementOfSeq
  <2>2. /\ SubSeq(x, 1, Len(s)) \in Seq(S) /\ Len(SubSeq(x, 1, Len(s))) = Len(s)
        /\ \A i \in 1..Len(s) : SubSeq(x, 1, Len(s))[i] = x[i]
    BY <1>2, <2>1, SubSeqProperties
  <2> DEFINE p == SubSeq(x, 1, Len(s))
  <2> HIDE DEF p
  <2>3. p \in Seq(S) /\ Len(p) = Len(s) /\ \A i \in 1..Len(s) : p[i] = s[i]
    BY <1>2, <2>2 DEF p
  <2>4. p = s
    BY <2>3, SeqEqual
  <2> QED
    BY <1>4, <2>4, Zenon DEF p
<1> QED
  BY <1>1, <1>2, <1>3, <1>5, Zenon

(* A node one longer than its beginning is a child of it.                  *)
LEMMA ChildIs ==
    ASSUME NEW S, NEW n \in Seq(S), NEW x \in Seq(S), Begins(n, x), Len(x) = Len(n) + 1
    PROVE  Last(x) \in S /\ x = Append(n, Last(x))
<1>0. Len(n) \in Nat /\ Len(x) \in Nat
  BY LenProperties, Zenon
<1>1. x # <<>>
  BY <1>0, EmptySeq
<1>2. /\ Front(x) \in Seq(S) /\ Last(x) \in S /\ x = Append(Front(x), Last(x))
      /\ Len(x) = Len(Front(x)) + 1 /\ Len(Front(x)) \in Nat
  BY <1>1, FrontOf, Zenon
<1> DEFINE f == Front(x)
           e == Last(x)
<1> HIDE DEF f, e
<1>3. Len(f) = Len(n)
  BY <1>0, <1>2 DEF f
<1>4. \A i \in 1..Len(f) : x[i] = f[i]
  <2>1. f \in Seq(S) /\ e \in S /\ x = Append(f, e)
    BY <1>2, Zenon DEF f, e
  <2> QED
    BY <2>1, AppendProperties
<1>5. \A i \in 1..Len(n) : n[i] = x[i]
  BY Zenon DEF Begins
<1>6. f \in Seq(S) /\ Len(n) = Len(f) /\ \A i \in 1..Len(n) : n[i] = f[i]
  <2>1. \A i \in 1..Len(n) : n[i] = f[i]
    BY <1>3, <1>4, <1>5, Zenon
  <2> QED
    BY <1>2, <1>3, <2>1, Zenon DEF f
<1>7. n = f
  BY <1>6, SeqEqual, Zenon
<1> QED
  BY <1>2, <1>7, Zenon DEF f

(* What begins a node, or is it, begins what is in it; what begins one that
   is not the same begins the folder around it.                            *)
LEMMA BeginsFront ==
    ASSUME NEW S, NEW n \in Seq(S), NEW x \in Seq(S), x # <<>>
    PROVE  /\ Begins(n, Front(x)) => Begins(n, x)
           /\ ~Begins(x, Front(x))
           /\ Begins(Front(x), x) /\ Front(x) \in Seq(S)
           /\ Front(x) # x
<1>1. /\ Front(x) \in Seq(S) /\ Last(x) \in S /\ x = Append(Front(x), Last(x))
      /\ Len(x) = Len(Front(x)) + 1 /\ Len(Front(x)) \in Nat
  BY FrontOf, Zenon
<1>2. Begins(Front(x), x)
  BY <1>1, BeginsAppend, Zenon
<1>3. Begins(n, Front(x)) => Begins(n, x)
  BY <1>1, <1>2, BeginsTrans, Zenon
<1>4. ~(Len(x) <= Len(Front(x)))
  <2> DEFINE a == Len(x)
             b == Len(Front(x))
  <2> HIDE DEF a, b
  <2>1. a = b + 1 /\ b \in Nat
    BY <1>1, Zenon DEF a, b
  <2>2. ~(a <= b)
    BY <2>1
  <2> QED
    BY <2>2, Zenon DEF a, b
<1>5. ~Begins(x, Front(x))
  BY <1>4, Zenon DEF Begins
<1>6. Front(x) # x
  <2>1. Len(x) <= Len(x)
    <3>1. Len(x) \in Nat
      BY LenProperties, Zenon
    <3> QED
      BY <3>1
  <2> QED
    BY <2>1, <1>4, Zenon
<1> QED
  BY <1>1, <1>2, <1>3, <1>5, <1>6, Zenon

(* The prefixes of a node are the nodes that begin it.                     *)
LEMMA PrefixesAre ==
    ASSUME NEW n \in Node, NEW y
    PROVE  y \in Folder!Prefixes(n) <=> y \in Node /\ Begins(y, n)
<1>0. Len(n) \in Nat /\ n \in Seq(Entry)
  BY LenProperties, Zenon DEF Node
<1>1. ASSUME y \in Folder!Prefixes(n) PROVE y \in Node /\ Begins(y, n)
  <2>1. PICK l \in 0..Len(n) : y = SubSeq(n, 1, l)
    BY <1>1, Zenon DEF Folder!Prefixes
  <2>2. l \in Nat /\ l <= Len(n) /\ \A i \in 1..l : i \in 1..Len(n)
    BY <1>0, <2>1
  <2>3. \A i \in 1..l : n[i] \in Entry
    BY <1>0, <2>2, ElementOfSeq, Zenon
  <2>4. SubSeq(n, 1, l) \in Seq(Entry) /\ Len(SubSeq(n, 1, l)) = l /\ \A i \in 1..l : SubSeq(n, 1, l)[i] = n[i]
    BY <2>2, <2>3, SubSeqProperties
  <2> QED
    BY <2>1, <2>2, <2>4, Zenon DEF Begins, Node
<1>2. ASSUME y \in Node, Begins(y, n) PROVE y \in Folder!Prefixes(n)
  <2>1. y \in Seq(Entry) /\ Len(y) \in Nat
    BY <1>2, LenProperties, Zenon DEF Node
  <2>2. IsPrefix(y, n)
    BY <1>0, <1>2, <2>1, PrefixIs, Zenon DEF Begins
  <2>3. SubSeq(y, 1, Len(y)) = y
    BY <2>1, SubSeqFull, Zenon
  <2>4. y = SubSeq(n, 1, Len(y)) /\ Len(y) <= Len(n)
    BY <2>2, <2>3, Zenon DEF IsPrefix
  <2>5. Len(y) \in 0..Len(n)
    BY <1>0, <2>1, <2>4
  <2> QED
    BY <2>4, <2>5, Zenon DEF Folder!Prefixes
<1> QED
  BY <1>1, <1>2

(* What may be the current directory: a node, or nothing.                  *)
Place == Node \cup {Folder!Nowhere}
(* A path from the root.                                                   *)
Absolute1(p) == p # <<>> /\ p[1] = SEP

(* What a path is resolved to is a place: a node or none.                  *)
LEMMA Resolved ==
    ASSUME NEW c \in Place, NEW p \in Seq(PathPart), Folder!PathConstants
    PROVE  /\ c \in Node \/ Absolute1(p) => Folder!ResolveFrom(c, p) \in Node
           /\ Folder!ResolveFrom(c, p) \in Seq(Step1)
           /\ ~Absolute1(p) => Begins(c, Folder!ResolveFrom(c, p))
           /\ ~Absolute1(p) /\ c = Folder!Nowhere =>
                 Folder!IsPrefix(c, Folder!ResolveFrom(c, p)) /\ Folder!ResolveFrom(c, p) \notin Node
           /\ Folder!ResolveFrom(c, p) \in Node => ~Folder!IsPrefix(Folder!Nowhere, Folder!ResolveFrom(c, p))
<1> DEFINE base == IF Absolute1(p) THEN <<>> ELSE c
           names == Folder!Names(p)
           r == Folder!ResolveFrom(c, p)
<1>1. r = base \o names
  BY Zenon DEF Folder!ResolveFrom, Absolute1
<1>2. names \in Node
  <2>1. SEP \in PathPart
    BY DEF PathPart
  <2> QED
    BY <2>1, NamesOf, Zenon
<1>3. base \in Seq(Step1) /\ names \in Seq(Step1)
  <2>1. <<>> \in Seq(Step1)
    BY EmptySeq, Zenon
  <2> QED
    BY <1>2, <2>1, NodeSteps, Zenon DEF Place
<1>4. r \in Seq(Step1)
  BY <1>1, <1>3, ConcatProperties, Zenon
<1>5. c \in Node \/ Absolute1(p) => r \in Node
  <2>1. c \in Node \/ Absolute1(p) => base \in Node
    <3>1. <<>> \in Node
      BY EmptySeq, Zenon DEF Node
    <3> QED
      BY <3>1, Zenon
  <2>2. base \in Node => base \o names \in Node
    BY <1>2, ConcatProperties, Zenon DEF Node
  <2> QED
    BY <1>1, <2>1, <2>2, Zenon
<1>6. ~Absolute1(p) => Begins(c, r)
  <2> SUFFICES ASSUME ~Absolute1(p) PROVE Begins(c, r)
    OBVIOUS
  <2>1. base = c
    OBVIOUS
  <2>2. Begins(base, base \o names)
    BY <1>3, BeginsConcat, Zenon
  <2> QED
    BY <1>1, <2>1, <2>2, Zenon
<1>7. PARENT \notin Entry
  BY DEF Folder!PathConstants
<1>8. \A n \in Node : ~Begins(Folder!Nowhere, n)
  <2> SUFFICES ASSUME NEW n \in Node, Begins(Folder!Nowhere, n) PROVE FALSE
    OBVIOUS
  <2>1. Len(Folder!Nowhere) = 1 /\ Folder!Nowhere[1] = PARENT
    BY DEF Folder!Nowhere
  <2>2. 1 <= Len(n) /\ n[1] = PARENT
    BY <2>1 DEF Begins
  <2>3. n \in Seq(Entry) /\ Len(n) \in Nat
    BY LenProperties DEF Node
  <2>4. n[1] \in Entry
    <3>1. 1 \in 1..Len(n)
      BY <2>2, <2>3
    <3> QED
      BY <2>3, <3>1, ElementOfSeq
  <2> QED
    BY <1>7, <2>2, <2>4, Zenon
<1>9. r \in Node => ~Folder!IsPrefix(Folder!Nowhere, r)
  BY <1>4, <1>8, BeginsIs, NodeSteps, Zenon
<1>10. ~Absolute1(p) /\ c = Folder!Nowhere => Folder!IsPrefix(c, r) /\ r \notin Node
  BY <1>4, <1>6, <1>8, BeginsIs, NodeSteps, Zenon
<1> QED
  BY <1>4, <1>5, <1>6, <1>9, <1>10, Zenon

(* A name behind a path leads one further in.                              *)
LEMMA FurtherIn ==
    ASSUME NEW c \in Place, NEW p \in Seq(PathPart), p # <<>>, NEW x \in Entry, Folder!PathConstants
    PROVE  /\ p \o <<SEP, x>> \in Seq(PathPart)
           /\ Folder!ResolveFrom(c, p \o <<SEP, x>>) = Append(Folder!ResolveFrom(c, p), x)
           /\ Absolute1(p \o <<SEP, x>>) <=> Absolute1(p)
<1> DEFINE q == p \o <<SEP, x>>
           base == IF Absolute1(p) THEN <<>> ELSE c
<1>0. <<SEP, x>> \in Seq(PathPart) /\ Len(<<SEP, x>>) = 2
  <2>1. SEP \in PathPart /\ x \in PathPart
    BY DEF PathPart
  <2> QED
    BY <2>1
<1>1. q \in Seq(PathPart) /\ Folder!Names(q) = Append(Folder!Names(p), x)
  BY OneName, Zenon
<1>2. q # <<>> /\ q[1] = p[1]
  <2>1. Len(p) >= 1 /\ Len(p) \in Nat
    BY EmptySeq
  <2>2. Len(q) = Len(p) + 2 /\ (1 \in 1..(Len(p) + 2) => q[1] = IF 1 <= Len(p) THEN p[1] ELSE <<SEP, x>>[1 - Len(p)])
    BY <1>0, ConcatProperties
  <2> HIDE DEF q
  <2> QED
    BY <2>1, <2>2, EmptySeq
<1>3. Absolute1(q) <=> Absolute1(p)
  BY <1>2, Zenon DEF Absolute1
<1>4. Folder!ResolveFrom(c, p) = base \o Folder!Names(p) /\ Folder!ResolveFrom(c, q) = base \o Folder!Names(q)
  <2>1. Folder!ResolveFrom(c, p) = base \o Folder!Names(p)
    BY Zenon DEF Folder!ResolveFrom, Absolute1
  <2>2. Folder!ResolveFrom(c, q) = (IF Absolute1(q) THEN <<>> ELSE c) \o Folder!Names(q)
    BY Zenon DEF Folder!ResolveFrom, Absolute1
  <2> HIDE DEF q
  <2> QED
    BY <1>3, <2>1, <2>2, Zenon
<1>5. base \o Append(Folder!Names(p), x) = Append(base \o Folder!Names(p), x)
  <2> DEFINE n == Folder!Names(p)
  <2>1. n \in Node
    BY <1>0, NamesOf, Zenon DEF PathPart
  <2>2. base \in Seq(Step1) /\ n \in Seq(Step1) /\ x \in Step1 /\ <<x>> \in Seq(Step1)
    <3>1. <<>> \in Seq(Step1)
      BY EmptySeq, Zenon
    <3>2. x \in Step1
      BY DEF Step1
    <3>3. base \in Seq(Step1) /\ n \in Seq(Step1)
      BY <2>1, <3>1, NodeSteps, Zenon DEF Place
    <3> QED
      BY <3>2, <3>3
  <2> HIDE DEF base, n
  <2>3. Append(n, x) = n \o <<x>>
    BY <2>2, AppendIsConcat, Zenon
  <2>4. base \o n \in Seq(Step1)
    BY <2>2, ConcatProperties, Zenon
  <2>5. Append(base \o n, x) = (base \o n) \o <<x>>
    BY <2>2, <2>4, AppendIsConcat, Zenon
  <2>6. (base \o n) \o <<x>> = base \o (n \o <<x>>)
    BY <2>2, ConcatAssociative
  <2>7. base \o Append(n, x) = Append(base \o n, x)
    BY <2>3, <2>5, <2>6, Zenon
  <2> QED
    BY <2>7, Zenon DEF n
<1>6. Folder!ResolveFrom(c, q) = Append(Folder!ResolveFrom(c, p), x)
  <2> HIDE DEF base, q
  <2> QED
    BY <1>1, <1>4, <1>5, Zenon
<1> QED
  BY <1>1, <1>3, <1>6, Zenon

(* Its file name is that name.                                             *)
LEMMA FileNameOf ==
    ASSUME NEW p \in Seq(PathPart), NEW x \in Entry, Folder!PathConstants
    PROVE  Folder!Path2FileName(p \o <<SEP, x>>) = <<x>>
<1> DEFINE q == p \o <<SEP, x>>
           n == Len(p)
           T == {0} \cup {k \in 1..Len(q) : q[k] = SEP}
<1>0. <<SEP, x>> \in Seq(PathPart) /\ Len(<<SEP, x>>) = 2 /\ <<SEP, x>>[1] = SEP /\ <<SEP, x>>[2] = x
      /\ x # SEP
  <2>1. SEP \in PathPart /\ x \in PathPart
    BY DEF PathPart
  <2> QED
    BY <2>1 DEF Folder!PathConstants
<1>1. n \in Nat
  BY LenProperties, Zenon
<1>2. q \in Seq(PathPart) /\ Len(q) = n + 2 /\ q[n + 1] = SEP /\ q[n + 2] = x
  <2>1. q \in Seq(PathPart) /\ Len(q) = n + 2
        /\ \A i \in 1..(n + 2) : q[i] = IF i <= n THEN p[i] ELSE <<SEP, x>>[i - n]
    BY <1>0, ConcatProperties
  <2> HIDE DEF q, n
  <2>2. n + 1 \in 1..(n + 2) /\ n + 2 \in 1..(n + 2) /\ ~(n + 1 <= n) /\ ~(n + 2 <= n)
        /\ (n + 1) - n = 1 /\ (n + 2) - n = 2
    BY <1>1
  <2>3. q[n + 1] = <<SEP, x>>[(n + 1) - n] /\ q[n + 2] = <<SEP, x>>[(n + 2) - n]
    BY <2>1, <2>2, Zenon
  <2> QED
    BY <1>0, <2>1, <2>2, <2>3, Zenon
<1> HIDE DEF q, n
<1>3. Folder!RFind(q) = n + 1
  <2>1. n + 1 \in T /\ \A k \in T : n + 1 >= k
    <3>1. n + 1 \in T
      BY <1>1, <1>2
    <3>2. \A k \in 1..(n + 2) : q[k] = SEP => k <= n + 1
      <4> SUFFICES ASSUME NEW k \in 1..(n + 2), q[k] = SEP, ~(k <= n + 1) PROVE FALSE
        OBVIOUS
      <4>1. k = n + 2
        BY <1>1
      <4> QED
        BY <1>0, <1>2, <4>1, Zenon
    <3> QED
      BY <1>1, <1>2, <3>1, <3>2
  <2>2. T \subseteq Nat
    BY <1>1, <1>2
  <2> HIDE DEF T
  <2>3. \A k \in T : (\A j \in T : k >= j) => k = n + 1
    <3> TAKE k \in T
    <3>1. (\A j \in T : k >= j) => k >= n + 1 /\ n + 1 >= k
      BY <2>1, Zenon
    <3>2. k \in Nat
      BY <2>2
    <3> QED
      BY <1>1, <3>1, <3>2
  <2>4. Folder!Max(T) = n + 1
    BY <2>1, <2>3, Zenon DEF Folder!Max
  <2> QED
    BY <2>4, Zenon DEF T, Folder!RFind
<1>4. Folder!Path2FileName(q) = SubSeq(q, (n + 1) + 1, n + 2)
  <2>1. Folder!Last(q) = x
    BY <1>2, Zenon DEF Folder!Last
  <2> QED
    BY <1>0, <1>2, <1>3, <2>1, Zenon DEF Folder!Path2FileName
<1>5. SubSeq(q, (n + 1) + 1, n + 2) = <<x>>
  <2> DEFINE m == n + 2
  <2>1. m \in Int /\ (n + 1) + 1 = m /\ m - m + 1 = 1
    BY <1>1
  <2>2. \A i \in m..m : q[i] \in PathPart
    <3>1. \A i \in m..m : i \in 1..Len(q)
      BY <1>1, <1>2
    <3> QED
      BY <1>2, <3>1, ElementOfSeq, Zenon
  <2>3. /\ SubSeq(q, m, m) \in Seq(PathPart) /\ Len(SubSeq(q, m, m)) = 1
        /\ \A i \in 1..1 : SubSeq(q, m, m)[i] = q[m + i - 1]
    <3> HIDE DEF m
    <3> QED
      BY <2>1, <2>2, SubSeqProperties
  <2>4. SubSeq(q, m, m)[1] = q[m]
    <3>1. m + 1 - 1 = m
      BY <1>1
    <3> QED
      BY <2>3, <3>1
  <2> DEFINE u == SubSeq(q, m, m)
  <2>5. u \in Seq(PathPart) /\ Len(u) = 1 /\ u[1] = x
    BY <1>2, <2>3, <2>4, Zenon
  <2>6. x \in PathPart
    BY DEF PathPart
  <2> HIDE DEF u, m
  <2>7. u = <<x>>
    BY <2>5, <2>6
  <2> QED
    BY <2>1, <2>7, Zenon DEF u, m
<1> QED
  BY <1>4, <1>5, Zenon DEF q

(* The paths of the calls are made of such parts.                          *)
LEMMA PathIsParts ==
    ASSUME NEW p \in Path, Folder!PathConstants
    PROVE  p \in Seq(PathPart) /\ \A k \in 1..(Len(p) - 1) : SEP \in {p[k], p[k + 1]}
BY DEF Folder!PathConstants, PathPart

(* rfind gives the last separator.                                         *)
LEMMA RFindIs ==
    ASSUME NEW p \in Seq(PathPart)
    PROVE  /\ Folder!RFind(p) \in 0..Len(p)
           /\ Folder!RFind(p) # 0 => p[Folder!RFind(p)] = SEP
           /\ \A k \in 1..Len(p) : p[k] = SEP => k <= Folder!RFind(p)
<1> DEFINE T == {0} \cup {k \in 1..Len(p) : p[k] = SEP}
<1>1. Len(p) \in Nat
  BY LenProperties, Zenon
<1>2. T \subseteq 0..Len(p) /\ T # {} /\ (\A k \in T : k # 0 => p[k] = SEP) /\ \A k \in 1..Len(p) : p[k] = SEP => k \in T
  BY <1>1
<1>3. Folder!RFind(p) = Folder!Max(T)
  BY Zenon DEF Folder!RFind
<1> HIDE DEF T
<1>4. \E m \in T : \A k \in T : k <= m
  BY <1>1, <1>2, Greatest, Zenon
<1>5. \E m \in T : \A k \in T : m >= k
  <2>1. PICK m \in T : \A k \in T : k <= m
    BY <1>4
  <2>2. \A k \in T : m >= k
    BY <1>1, <1>2, <2>1
  <2> QED
    BY <2>2
<1>6. Folder!Max(T) \in T /\ \A k \in T : Folder!Max(T) >= k
  BY <1>5, Zenon DEF Folder!Max
<1> DEFINE r == Folder!Max(T)
<1> HIDE DEF r
<1>7. r \in T /\ r \in 0..Len(p) /\ \A k \in T : k <= r
  <2>1. r \in T /\ \A k \in T : r >= k
    BY <1>6, Zenon DEF r
  <2> QED
    BY <1>1, <1>2, <2>1
<1> QED
  BY <1>2, <1>3, <1>7, Zenon DEF r

(* The path of a file is that of its folder with its name behind.          *)
LEMMA UpToIs ==
    ASSUME NEW p \in Path, Folder!PathConstants
    PROVE  /\ Folder!UpToSeparator(p) \in Seq(PathPart)
           /\ Folder!RFind(p) > 1 /\ Folder!Last(p) \in Entry =>
                 /\ Folder!UpToSeparator(p) # <<>>
                 /\ p = Folder!UpToSeparator(p) \o <<SEP, Folder!Last(p)>>
<1> DEFINE n == Len(p)
           r == Folder!RFind(p)
           u == SubSeq(p, 1, r - 1)
           x == Folder!Last(p)
<1>1. p \in Seq(PathPart) /\ n \in Nat /\ \A k \in 1..(n - 1) : SEP \in {p[k], p[k + 1]}
  <2>1. p \in Seq(PathPart) /\ \A k \in 1..(Len(p) - 1) : SEP \in {p[k], p[k + 1]}
    BY PathIsParts, Zenon
  <2> QED
    BY <2>1, LenProperties
<1>2. r \in 0..n /\ (r # 0 => p[r] = SEP) /\ \A k \in 1..n : p[k] = SEP => k <= r
  BY <1>1, RFindIs, Zenon
<1>3. Folder!UpToSeparator(p) = IF r = 0 THEN p ELSE u
  BY Zenon DEF Folder!UpToSeparator
<1>4. x = p[n]
  BY Zenon DEF Folder!Last
<1> HIDE DEF n, r, x
<1>5. r # 0 => /\ u \in Seq(PathPart) /\ Len(u) = r - 1
               /\ \A i \in 1..(r - 1) : u[i] = p[i]
  <2> SUFFICES ASSUME r # 0 PROVE u \in Seq(PathPart) /\ Len(u) = r - 1 /\ \A i \in 1..(r - 1) : u[i] = p[i]
    OBVIOUS
  <2>1. r - 1 \in Nat /\ \A i \in 1..(r - 1) : i \in 1..n
    BY <1>1, <1>2
  <2>2. \A i \in 1..(r - 1) : p[i] \in PathPart
    BY <1>1, <2>1, ElementOfSeq, Zenon DEF n
  <2> QED
    BY <2>1, <2>2, SubSeqProperties
<1> HIDE DEF u
<1>6. Folder!UpToSeparator(p) \in Seq(PathPart)
  BY <1>1, <1>3, <1>5, Zenon
<1>7. ASSUME r > 1, x \in Entry
      PROVE  u # <<>> /\ p = u \o <<SEP, x>>
  <2>1. x # SEP
    BY <1>7 DEF Folder!PathConstants
  <2>2. r # n
    <3>1. r # 0
      BY <1>2, <1>7
    <3> QED
      BY <1>2, <1>4, <2>1, <3>1, Zenon
  <2>3. n - 1 \in 1..(n - 1) /\ n - 1 \in 1..n /\ (n - 1) + 1 = n /\ r < n
    BY <1>1, <1>2, <1>7, <2>2
  <2>4. SEP \in {p[n - 1], p[(n - 1) + 1]}
    BY <1>1, <2>3, Zenon
  <2>5. p[n - 1] = SEP
    BY <1>4, <2>1, <2>3, <2>4, Zenon
  <2>6. n - 1 <= r
    BY <1>2, <2>3, <2>5, Zenon
  <2>7. r = n - 1 /\ r - 1 = n - 2 /\ n - 2 >= 1
    BY <1>1, <1>2, <1>7, <2>3, <2>6
  <2>8. u \in Seq(PathPart) /\ Len(u) = n - 2 /\ \A i \in 1..(n - 2) : u[i] = p[i]
    BY <1>5, <1>7, <2>7
  <2>9. <<SEP, x>> \in Seq(PathPart) /\ Len(<<SEP, x>>) = 2 /\ <<SEP, x>>[1] = SEP /\ <<SEP, x>>[2] = x
    <3>1. SEP \in PathPart /\ x \in PathPart
      BY <1>7 DEF PathPart
    <3> QED
      BY <3>1
  <2> DEFINE q == u \o <<SEP, x>>
  <2>10. q \in Seq(PathPart) /\ Len(q) = n /\ \A i \in 1..n : q[i] = IF i <= n - 2 THEN u[i] ELSE <<SEP, x>>[i - (n - 2)]
    <3>1. (n - 2) + 2 = n
      BY <1>1
    <3> QED
      BY <2>8, <2>9, <3>1, ConcatProperties
  <2> HIDE DEF q
  <2>11. ASSUME NEW i \in 1..n PROVE q[i] = p[i]
    <3>1. CASE i \in 1..(n - 2)
      <4>1. i <= n - 2
        BY <3>1
      <4> QED
        BY <2>8, <2>10, <3>1, <4>1, Zenon
    <3>2. CASE i = n - 1
      <4>1. ~(i <= n - 2) /\ i - (n - 2) = 1
        BY <1>1, <3>2
      <4> QED
        BY <2>5, <2>9, <2>10, <3>2, <4>1, Zenon
    <3>3. CASE i = n
      <4>1. ~(i <= n - 2) /\ i - (n - 2) = 2
        BY <1>1, <3>3
      <4> QED
        BY <1>4, <2>9, <2>10, <3>3, <4>1, Zenon
    <3>4. i \in 1..(n - 2) \/ i = n - 1 \/ i = n
      BY <1>1
    <3> QED
      BY <3>1, <3>2, <3>3, <3>4, Zenon
  <2>12. q = p
    <3>1. Len(p) = Len(q) /\ \A i \in 1..Len(p) : p[i] = q[i]
      BY <2>10, <2>11, Zenon DEF n
    <3> QED
      BY <1>1, <2>10, <3>1, SeqEqual, Zenon
  <2>13. u # <<>>
    <3>1. Len(u) # 0
      BY <2>7, <2>8
    <3>2. Len(<<>>) = 0
      BY EmptySeq
    <3> QED
      BY <3>1, <3>2, Zenon
  <2> QED
    BY <2>12, <2>13, Zenon DEF q
<1>8. r > 1 => r # 0
  BY <1>2
<1>9. r > 1 /\ x \in Entry => Folder!UpToSeparator(p) # <<>> /\ p = Folder!UpToSeparator(p) \o <<SEP, x>>
  BY <1>3, <1>7, <1>8, Zenon
<1>10. r = Folder!RFind(p) /\ x = Folder!Last(p)
  BY Zenon DEF r, x
<1> HIDE DEF r, x
<1> QED
  BY <1>6, <1>9, <1>10, Zenon

(* A relative path put behind the current directory leads where it did.    *)
LEMMA AbsoluteLeads ==
    ASSUME NEW p \in Seq(PathPart), p # <<>>, x3 \in Place, Folder!PathConstants
    PROVE  /\ Folder!Absolute(p) \in Seq(PathPart)
           /\ Folder!Known(x3) => Folder!Resolve(Folder!Absolute(p)) = Folder!Resolve(p)
<1> DEFINE d == Folder!GetCurDirectory
           q == (d \o <<SEP>>) \o p
<1>0. <<SEP>> \in Seq(PathPart) /\ Len(<<SEP>>) = 1 /\ SEP \in PathPart /\ <<>> \in Seq(PathPart)
  <2>1. SEP \in PathPart
    BY DEF PathPart
  <2> QED
    BY <2>1
<1>1. Folder!Known(x3) => d \in Seq(PathPart) /\ Folder!Names(d) = x3 /\ d # <<>> /\ d[1] = SEP /\ x3 \in Node
  <2> SUFFICES ASSUME Folder!Known(x3) PROVE d \in Seq(PathPart) /\ Folder!Names(d) = x3 /\ d # <<>> /\ d[1] = SEP /\ x3 \in Node
    OBVIOUS
  <2>1. x3 \in Node
    BY DEF Folder!Known, Place
  <2>2. d = Folder!PathOf(x3)
    BY Zenon DEF Folder!GetCurDirectory
  <2> HIDE DEF d
  <2> QED
    BY <2>1, <2>2, PathOfNode, Zenon
<1>2. d \in Seq(PathPart)
  <2>1. ~Folder!Known(x3) => d = <<>>
    BY Zenon DEF Folder!GetCurDirectory
  <2> QED
    BY <1>0, <1>1, <2>1, Zenon
<1>3. Folder!Absolute(p) = q \/ Folder!Absolute(p) = p
  BY DEF Folder!Absolute
<1>4. Folder!Absolute(p) = q => p[1] # SEP \/ q = p
  BY DEF Folder!Absolute
<1> HIDE DEF d
<1>5. q \in Seq(PathPart) /\ d \o <<SEP>> \in Seq(PathPart)
  BY <1>0, <1>2, ConcatProperties, Zenon
<1>6. ASSUME Folder!Known(x3), p[1] # SEP PROVE Folder!Resolve(q) = Folder!Resolve(p)
  <2>1. d # <<>> /\ d[1] = SEP /\ Folder!Names(d) = x3 /\ x3 \in Node
    BY <1>1, <1>6, Zenon
  <2>2. q # <<>> /\ q[1] = SEP
    <3> DEFINE e == d \o <<SEP>>
    <3>1. Len(d) >= 1 /\ Len(d) \in Nat
      BY <1>2, <2>1, EmptySeq
    <3>2. e \in Seq(PathPart) /\ Len(e) = Len(d) + 1 /\ e[1] = d[1]
      BY <1>0, <1>2, <3>1, ConcatProperties
    <3> HIDE DEF e
    <3>3. Len(p) \in Nat
      BY LenProperties, Zenon
    <3> DEFINE f == e \o p
    <3>4. f \in Seq(PathPart) /\ Len(f) = (Len(d) + 1) + Len(p) /\ f[1] = e[1]
      <4>1. f \in Seq(PathPart) /\ Len(f) = Len(e) + Len(p)
            /\ \A i \in 1..(Len(e) + Len(p)) : f[i] = IF i <= Len(e) THEN e[i] ELSE p[i - Len(e)]
        BY <3>2, ConcatProperties, Zenon
      <4>2. 1 \in 1..(Len(e) + Len(p)) /\ 1 <= Len(e)
        BY <3>1, <3>2, <3>3
      <4>3. f[1] = e[1]
        BY <4>1, <4>2, Zenon
      <4> HIDE DEF f
      <4> QED
        BY <3>2, <4>1, <4>3
    <3>5. f # <<>>
      <4> HIDE DEF f
      <4>1. Len(f) # 0
        BY <3>1, <3>3, <3>4 DEF f
      <4>2. Len(<<>>) = 0
        BY EmptySeq
      <4> QED
        BY <4>1, <4>2, Zenon
    <3> QED
      BY <2>1, <3>2, <3>4, <3>5, Zenon DEF e
  <2>3. Folder!Resolve(q) = <<>> \o Folder!Names(q)
    <3> HIDE DEF q
    <3> QED
      BY <2>2, Zenon DEF Folder!Resolve, Folder!ResolveFrom
  <2>4. Folder!Names(<<SEP>>) = <<>>
    <3>1. <<SEP>> = Append(<<>>, SEP)
      OBVIOUS
    <3>2. NameOf(SEP) = <<>>
      BY DEF NameOf
    <3>3. Folder!Names(<<SEP>>) = <<>> \o <<>>
      BY <1>0, <3>1, <3>2, NamesOf, NamesNone, Zenon
    <3> QED
      BY <3>3
  <2>5. Folder!Names(q) = (x3 \o <<>>) \o Folder!Names(p)
    <3>1. Folder!Names(d \o <<SEP>>) = x3 \o <<>>
      BY <1>0, <1>2, <2>1, <2>4, NamesConcat, Zenon
    <3>2. Folder!Names((d \o <<SEP>>) \o p) = Folder!Names(d \o <<SEP>>) \o Folder!Names(p)
      BY <1>5, NamesConcat
    <3> QED
      BY <3>1, <3>2
  <2>6. x3 \in Seq(Entry) /\ Folder!Names(p) \in Seq(Entry)
    BY <1>0, <2>1, NamesOf, Zenon DEF Node
  <2>7. x3 \o <<>> = x3
    BY <2>6, ConcatEmptySeq, Zenon
  <2>8. x3 \o Folder!Names(p) \in Seq(Entry)
    BY <2>6, ConcatProperties, Zenon
  <2>9. <<>> \o (x3 \o Folder!Names(p)) = x3 \o Folder!Names(p)
    BY <2>8, ConcatEmptySeq, Zenon
  <2>10. Folder!Resolve(p) = x3 \o Folder!Names(p)
    BY <1>6, Zenon DEF Folder!Resolve, Folder!ResolveFrom
  <2> HIDE DEF q
  <2> QED
    BY <2>3, <2>5, <2>7, <2>9, <2>10, Zenon
<1> QED
  BY <1>3, <1>4, <1>5, <1>6, Zenon

(* Folders and files of a tree.                                            *)
TreeOf(fo, fi) ==
    /\ fo \cup fi \subseteq Node
    /\ \A x \in fo \cup fi : x # <<>> => Front(x) \in fo

(* It is all that IsTree asks for.                                         *)
LEMMA TreeIs == TreeOf(x1, x2) => Folder!IsTree
BY DEF TreeOf, Folder!IsTree, Folder!Front, Front

(* What is inside a node can be taken away with it.                        *)
LEMMA TakenAway ==
    ASSUME NEW n \in Seq(Step1), TreeOf(x1, x2)
    PROVE  TreeOf(x1 \ Folder!Inside(n), x2 \ Folder!Inside(n))
<1> DEFINE G == Folder!Inside(n)
<1>1. \A x \in x1 \cup x2 : x \in Node /\ x \in Seq(Step1) /\ (x # <<>> => Front(x) \in x1)
  BY NodeSteps DEF TreeOf
<1>2. \A x \in x1 \cup x2 : x \in G <=> Begins(n, x)
  <2>1. \A x \in x1 \cup x2 : x \in G <=> Folder!IsPrefix(n, x)
    BY DEF Folder!Inside
  <2> QED
    BY <1>1, <2>1, BeginsIs, Zenon
<1> HIDE DEF G
<1>3. ASSUME NEW x \in (x1 \ G) \cup (x2 \ G), x # <<>> PROVE x \in Node /\ Front(x) \in x1 \ G
  <2>1. x \in Node /\ x \in Seq(Step1) /\ Front(x) \in x1 /\ x \notin G /\ x \in x1 \cup x2
    BY <1>1, <1>3
  <2>2. Front(x) \in G => Begins(n, x)
    BY <1>2, <1>3, <2>1, BeginsFront, Zenon
  <2> QED
    BY <1>2, <2>1, <2>2
<1>4. (x1 \ G) \cup (x2 \ G) \subseteq Node
  BY <1>1
<1> QED
  BY <1>3, <1>4, Zenon DEF TreeOf, G

(* What a prefix of a node's prefix is.                                    *)
LEMMA PrefixesWithin ==
    ASSUME NEW n \in Node, NEW y \in Folder!Prefixes(n)
    PROVE  /\ y \in Node /\ Folder!Prefixes(y) \subseteq Folder!Prefixes(n)
           /\ y # <<>> => Front(y) \in Folder!Prefixes(n) /\ Folder!Prefixes(Front(y)) \subseteq Folder!Prefixes(y)
<1>1. y \in Node /\ Begins(y, n)
  BY PrefixesAre, Zenon
<1>2. \A a, b \in Node : Begins(a, b) => Folder!Prefixes(a) \subseteq Folder!Prefixes(b)
  <2> SUFFICES ASSUME NEW a \in Node, NEW b \in Node, Begins(a, b), NEW z \in Folder!Prefixes(a) PROVE z \in Folder!Prefixes(b)
    BY Zenon
  <2>1. z \in Node /\ Begins(z, a)
    BY PrefixesAre, Zenon
  <2>2. Begins(z, b)
    BY <2>1, BeginsTrans, Zenon DEF Node
  <2> QED
    BY <2>1, <2>2, PrefixesAre, Zenon
<1>3. y # <<>> => Front(y) \in Node /\ Begins(Front(y), y)
  BY <1>1, BeginsFront, Zenon DEF Node
<1>4. y # <<>> => Begins(Front(y), n)
  BY <1>1, <1>3, BeginsTrans, Zenon DEF Node
<1> QED
  BY <1>1, <1>2, <1>3, <1>4, PrefixesAre, Zenon

(* mkdir -p leaves a tree, and makes what was meant when the current
   directory is known and no file is in the way.                           *)
LEMMA MkdirGives ==
    ASSUME Folder!PathConstants, TreeOf(x1, x2), x3 \in Place, NEW s \in Seq(PathPart), s # <<>>
    PROVE  /\ TreeOf(Folder!MkdirP(Folder!Resolve(Folder!Absolute(s))), x2)
           /\ Folder!Known(x3) /\ Folder!Prefixes(Folder!Resolve(s)) \cap x2 = {} =>
                 Folder!MkdirP(Folder!Resolve(Folder!Absolute(s))) = x1 \cup Folder!Prefixes(Folder!Resolve(s))
<1> DEFINE q == Folder!Absolute(s)
           n == Folder!Resolve(q)
           m == Folder!MkdirP(n)
           new == {x \in Folder!Prefixes(n) : Folder!Prefixes(x) \cap x2 = {}}
<1>1. q \in Seq(PathPart) /\ (Folder!Known(x3) => n = Folder!Resolve(s))
  BY AbsoluteLeads, Zenon
<1>2. n = Folder!ResolveFrom(x3, q)
  BY Zenon DEF Folder!Resolve
<1> HIDE DEF q, n
<1>3. m = IF Folder!IsPrefix(Folder!Nowhere, n) THEN x1 ELSE x1 \cup new
  BY DEF Folder!MkdirP
<1>4. CASE Folder!IsPrefix(Folder!Nowhere, n)
  <2>1. x3 \notin Node
    BY <1>1, <1>2, <1>4, Resolved, Zenon
  <2>2. ~Folder!Known(x3)
    BY <2>1, Zenon DEF Folder!Known, Place
  <2>3. m = x1
    BY <1>3, <1>4, Zenon
  <2> QED
    BY <2>2, <2>3, Zenon DEF n, q
<1>5. CASE ~Folder!IsPrefix(Folder!Nowhere, n)
  <2>1. n \in Node
    <3>1. x3 \in Node \/ Absolute1(q) => n \in Node
      BY <1>1, <1>2, Resolved, Zenon
    <3>2. ~Absolute1(q) /\ x3 = Folder!Nowhere => Folder!IsPrefix(x3, n)
      BY <1>1, <1>2, Resolved, Zenon
    <3> QED
      BY <1>5, <3>1, <3>2, Zenon DEF Place
  <2>2. m = x1 \cup new
    BY <1>3, <1>5, Zenon
  <2>3. \A x \in new : x \in Node /\ (x # <<>> => Front(x) \in new)
    <3> TAKE x \in new
    <3>1. x \in Folder!Prefixes(n) /\ Folder!Prefixes(x) \cap x2 = {}
      OBVIOUS
    <3>2. /\ x \in Node
          /\ x # <<>> => Front(x) \in Folder!Prefixes(n) /\ Folder!Prefixes(Front(x)) \subseteq Folder!Prefixes(x)
      BY <2>1, <3>1, PrefixesWithin, Zenon
    <3>3. x # <<>> => Folder!Prefixes(Front(x)) \cap x2 = {}
      BY <3>1, <3>2
    <3> QED
      BY <3>2, <3>3, Zenon
  <2>4. Folder!Prefixes(n) \cap x2 = {} => new = Folder!Prefixes(n)
    <3> SUFFICES ASSUME Folder!Prefixes(n) \cap x2 = {}, NEW x \in Folder!Prefixes(n) PROVE x \in new
      BY Zenon
    <3>1. Folder!Prefixes(x) \subseteq Folder!Prefixes(n)
      BY <2>1, PrefixesWithin, Zenon
    <3>2. Folder!Prefixes(x) \cap x2 = {}
      BY <3>1
    <3> QED
      BY <3>2, Zenon
  <2> HIDE DEF new, m
  <2>5. TreeOf(m, x2)
    <3>1. x1 \cup x2 \subseteq Node /\ \A x \in x1 \cup x2 : x # <<>> => Front(x) \in x1
      BY Zenon DEF TreeOf
    <3>2. m \cup x2 \subseteq Node
      BY <2>2, <2>3, <3>1
    <3>3. \A x \in m \cup x2 : x # <<>> => Front(x) \in m
      BY <2>2, <2>3, <3>1
    <3> QED
      BY <3>2, <3>3, Zenon DEF TreeOf
  <2> QED
    BY <1>1, <2>2, <2>4, <2>5, Zenon DEF m, n, q
<1> QED
  BY <1>4, <1>5, Zenon

(* What a call to make or to remove has done, by what it began with.       *)
MadeAs(c, node, fo, fi) ==
    Folder!Known(c[5]) /\ Folder!Prefixes(node) \cap c[4][2] = {} =>
        fo = c[4][1] \cup Folder!Prefixes(node) /\ fi = c[4][2]
(* So that MakesWhatIsMeant holds of the call.                             *)
MadeRight(c, fo, fi) ==
    c[3] =>
        /\ c[1] = "CreateFolder" => MadeAs(c, Folder!ResolveFrom(c[5], c[2]), fo, fi)
        /\ c[1] = "CreateFolderForFile" /\ Folder!RFind(c[2]) > 1 /\ Folder!Last(c[2]) \in Entry =>
              MadeAs(c, Folder!Front(Folder!ResolveFrom(c[5], c[2])), fo, fi)
(* So that RemovesWhatIsNamed does.                                        *)
GoneRight(c, fo, fi) ==
    c[1] \in {"DelFile", "DelFolder"} =>
        /\ fo \subseteq c[4][1] /\ fi \subseteq c[4][2]
        /\ \A x \in (c[4][1] \cup c[4][2]) \ (fo \cup fi) : Folder!IsPrefix(Folder!ResolveFrom(c[5], c[2]), x)
        /\ c[1] = "DelFile" =>
              (c[4][1] \cup c[4][2]) \ (fo \cup fi) = IF c[3] THEN {Folder!ResolveFrom(c[5], c[2])} ELSE {}

(* What a listing has found, and what is left to find.                     *)
EntryPath(sf, n) == sf \o <<SEP, n>>
(* Files or folders, whichever are listed.                                 *)
Kind(c, fo, fi) == IF c[1] = "GetSubFiles" THEN fi ELSE fo
(* A path is in the list, and at one place.                                *)
OnceGiven(v, p) == \E k \in 1..Len(v) : v[k] = p /\ \A j \in 1..Len(v) : v[j] = p => j = k
(* What is listed: what was there all the time below a node that may be
   gone since, and all that has ever been there.                           *)
Where(fo, fi, cw, c, sf, th, ev, r) ==
    /\ c[1] \in {"GetSubFiles", "GetSubFolders"} /\ c[5] \in Place
    /\ sf \in Seq(PathPart) /\ sf # <<>> /\ r \in Node
    /\ \/ cw = c[5]
       \/ cw = Folder!Nowhere /\ (Absolute1(sf) \/ th = {})
    /\ th \subseteq fo \cup fi /\ \A x \in th : Begins(r, x)
    /\ \A x \in fo \cup fi : Begins(r, x) => x \in ev
(* What the list holds is of that folder, each entry once.                 *)
Found(sf, v, ev, r) ==
    /\ v \in Seq(Seq(PathPart))
    /\ \A k \in 1..Len(v) : \E n \in Entry : v[k] = EntryPath(sf, n) /\ Append(r, n) \in ev
(* What was there all the time is still to be read or has been put in once.*)
Left(sf, un, v, th, kind, r) ==
    /\ un \subseteq Entry \cup {DOT, PARENT}
    /\ \A n \in Entry : Append(r, n) \in th =>
          /\ n \in un => \A k \in 1..Len(v) : v[k] # EntryPath(sf, n)
          /\ n \notin un /\ Append(r, n) \in kind => OnceGiven(v, EntryPath(sf, n))
(* A listing in progress.                                                  *)
Listing(fo, fi, cw, c, sf, un, v, th, ev) ==
    /\ Where(fo, fi, cw, c, sf, th, ev, Folder!ResolveFrom(c[5], sf))
    /\ Found(sf, v, ev, Folder!ResolveFrom(c[5], sf))
    /\ Left(sf, un, v, th, Kind(c, fo, fi), Folder!ResolveFrom(c[5], sf))

(* The inductive invariant of CFileEx.                                     *)
FilesInv ==
    /\ TreeOf(x1, x2) /\ x3 \in Place
    /\ x4 \in {"idle", "list", "listed"}
    /\ x4 = "idle" => MadeRight(x5, x1, x2) /\ GoneRight(x5, x1, x2)
    /\ x4 # "idle" => Listing(x1, x2, x3, x5, x6, x7, x8, x9, x10)
    /\ x4 = "listed" => x7 = {}

(* One element more, and without it.                                       *)
LEMMA FrontAppend ==
    ASSUME NEW S, NEW s \in Seq(S), NEW x \in S
    PROVE  Folder!Front(Append(s, x)) = s
<1>1. Append(s, x) \in Seq(S) /\ Append(s, x) # <<>>
  BY AppendProperties, Zenon
<1> DEFINE y == Append(s, x)
<1>2. Front(y) \in Seq(S) /\ Last(y) \in S /\ y = Append(Front(y), Last(y))
  BY <1>1, FrontOf, Zenon
<1>3. Front(y) = s
  <2> DEFINE a == Front(y)
             b == Last(y)
  <2> HIDE DEF a, b
  <2>1. a \in Seq(S) /\ b \in S /\ Append(s, x) = Append(a, b)
    BY <1>2, Zenon DEF a, b
  <2>2. a = s
    BY <2>1, AppendInjective
  <2> QED
    BY <2>2, Zenon DEF a
<1>4. Folder!Front(y) = Front(y)
  BY DEF Folder!Front, Front
<1> QED
  BY <1>3, <1>4, Zenon

(* CreateFolder and CreateFolderForFile.                                   *)
LEMMA MakeStep ==
    ASSUME Folder!PathConstants, FilesInv, NEW p \in Path,
           Folder!CreateFolder(p) \/ Folder!CreateFolderForFile(p)
    PROVE  FilesInv'
<1>1. p \in Seq(PathPart)
  BY PathIsParts, Zenon
<1>2. TreeOf(x1, x2) /\ x3 \in Place
  BY Zenon DEF FilesInv
<1>3. PICK name, s :
         /\ \/ name = "CreateFolder" /\ s = p
            \/ name = "CreateFolderForFile" /\ s = Folder!UpToSeparator(p)
         /\ Folder!Make(name, p, s)
  BY Zenon DEF Folder!CreateFolder, Folder!CreateFolderForFile
<1>4. s \in Seq(PathPart)
  BY <1>1, <1>3, UpToIs, Zenon
<1>5. /\ x4 = "idle" /\ x4' = "idle" /\ x2' = x2 /\ x3' = x3
      /\ x5' = <<name, p, s # <<>>, <<x1, x2>>, x3>>
      /\ x1' = IF s = <<>> THEN x1 ELSE Folder!MkdirP(Folder!Resolve(Folder!Absolute(s)))
  BY <1>3 DEF Folder!Make, Folder!Call, Folder!tree
<1>6. TreeOf(x1', x2') /\ x3' \in Place
  <2>1. TreeOf(x1', x2)
    BY <1>2, <1>4, <1>5, MkdirGives, Zenon
  <2> QED
    BY <1>2, <1>5, <2>1, Zenon
<1> DEFINE c == <<name, p, s # <<>>, <<x1, x2>>, x3>>
<1>7. MadeRight(c, x1', x2')
  <2> SUFFICES ASSUME s # <<>> PROVE MadeRight(c, x1', x2')
    BY DEF MadeRight
  <2>1. Folder!Known(x3) /\ Folder!Prefixes(Folder!Resolve(s)) \cap x2 = {} =>
           x1' = x1 \cup Folder!Prefixes(Folder!Resolve(s))
    BY <1>2, <1>4, <1>5, MkdirGives, Zenon
  <2>2. MadeAs(c, Folder!ResolveFrom(x3, s), x1', x2')
    BY <1>5, <2>1 DEF MadeAs, Folder!Resolve
  <2>3. CASE name = "CreateFolder" /\ s = p
    BY <2>2, <2>3 DEF MadeRight
  <2>4. CASE name = "CreateFolderForFile" /\ s = Folder!UpToSeparator(p)
    <3>1. ASSUME Folder!RFind(p) > 1, Folder!Last(p) \in Entry
          PROVE  Folder!Front(Folder!ResolveFrom(x3, p)) = Folder!ResolveFrom(x3, s)
      <4> DEFINE x == Folder!Last(p)
      <4>1. s # <<>> /\ p = s \o <<SEP, x>>
        BY <2>4, <3>1, UpToIs, Zenon
      <4> HIDE DEF x
      <4>2. x \in Entry /\ x \in Step1
        BY <3>1 DEF x, Step1
      <4>3. Folder!ResolveFrom(x3, p) = Append(Folder!ResolveFrom(x3, s), x)
        BY <1>2, <1>4, <4>1, <4>2, FurtherIn, Zenon
      <4>4. Folder!ResolveFrom(x3, s) \in Seq(Step1)
        BY <1>2, <1>4, Resolved, Zenon
      <4> DEFINE r == Folder!ResolveFrom(x3, s)
      <4> HIDE DEF r
      <4>5. r \in Seq(Step1)
        BY <4>4 DEF r
      <4>6. Folder!Front(Append(r, x)) = r
        BY <4>2, <4>5, FrontAppend, Zenon
      <4>7. Folder!Front(Append(Folder!ResolveFrom(x3, s), x)) = Folder!ResolveFrom(x3, s)
        BY <4>6, Zenon DEF r
      <4> QED
        BY <4>3, <4>7, Zenon
    <3>2. MadeRight(c, x1', x2') <=>
             (Folder!RFind(p) > 1 /\ Folder!Last(p) \in Entry =>
                 MadeAs(c, Folder!Front(Folder!ResolveFrom(x3, p)), x1', x2'))
      BY <2>4 DEF MadeRight
    <3> QED
      BY <2>2, <3>1, <3>2, Zenon
  <2> QED
    BY <1>3, <2>3, <2>4, Zenon
<1>8. GoneRight(c, x1', x2')
  BY <1>3 DEF GoneRight
<1> HIDE DEF c
<1>9. x5' = c
  BY <1>5, Zenon DEF c
<1> QED
  BY <1>5, <1>6, <1>7, <1>8, <1>9, Zenon DEF FilesInv

(* DelFolder and DelFile.                                                  *)
LEMMA RemoveStep ==
    ASSUME Folder!PathConstants, FilesInv, NEW p \in Path,
           Folder!DelFolder(p) \/ Folder!DelFile(p)
    PROVE  FilesInv'
<1>1. p \in Seq(PathPart)
  BY PathIsParts, Zenon
<1>2. TreeOf(x1, x2) /\ x3 \in Place
  BY Zenon DEF FilesInv
<1> DEFINE n == Folder!ResolveFrom(x3, p)
<1>3. n \in Seq(Step1) /\ n = Folder!Resolve(p)
  BY <1>1, <1>2, Resolved, Zenon DEF Folder!Resolve
<1> HIDE DEF n
<1> DEFINE Does(name, ok, G) ==
         /\ Folder!Call(name, p, ok) /\ Folder!TakeAway(G) /\ x4' = x4
         /\ \/ name = "DelFolder" /\ G \in {{}, Folder!Inside(n)}
            \/ name = "DelFile" /\ ok /\ G = {n} /\ G = Folder!Inside(n)
            \/ name = "DelFile" /\ ~ok /\ G = {}
<1>4. PICK name, ok, G : Does(name, ok, G)
  <2>1. CASE Folder!DelFolder(p)
    <3> DEFINE G == IF Folder!Spared(p) THEN {} ELSE Folder!Inside(n)
    <3>1. Folder!Call("DelFolder", p, TRUE) /\ Folder!TakeAway(G) /\ x4' = x4
      BY <1>3, <2>1, Zenon DEF Folder!DelFolder
    <3>2. G \in {{}, Folder!Inside(n)}
      OBVIOUS
    <3> QED
      BY <3>1, <3>2, Zenon
  <2>2. CASE Folder!DelFile(p)
    <3>1. CASE Folder!Removable(p)
      <4>1. Folder!Inside(n) = {n}
        BY <1>3, <3>1, Zenon DEF Folder!Removable
      <4>2. Folder!Call("DelFile", p, Folder!Removable(p)) /\ Folder!TakeAway({n}) /\ x4' = x4
        BY <1>3, <2>2, <3>1, Zenon DEF Folder!DelFile
      <4> QED
        BY <3>1, <4>1, <4>2, Zenon
    <3>2. CASE ~Folder!Removable(p)
      <4> DEFINE r == Folder!Removable(p)
                 none == {}
      <4>1. Folder!Call("DelFile", p, r) /\ Folder!TakeAway(none) /\ x4' = x4 /\ ~r /\ none = {}
        BY <2>2, <3>2, Zenon DEF Folder!DelFile
      <4> HIDE DEF r, none
      <4>2. Does("DelFile", r, none)
        BY <4>1
      <4> HIDE DEF Does
      <4> QED
        BY <4>2, Zenon
    <3> QED
      BY <3>1, <3>2, Zenon
  <2> QED
    BY <2>1, <2>2, Zenon
<1>5. /\ x4 = "idle" /\ x4' = "idle"
      /\ x5' = <<name, p, ok, <<x1, x2>>, x3>>
      /\ x1' = x1 \ G /\ x2' = x2 \ G
      /\ x3' = x3 \/ x3' = Folder!Nowhere
  BY <1>4 DEF Folder!Call, Folder!TakeAway, Folder!tree
<1>6. TreeOf(x1', x2')
  <2>1. G = {} \/ G = Folder!Inside(n)
    BY <1>4, Zenon
  <2>2. CASE G = {}
    <3>1. x1' = x1 /\ x2' = x2
      BY <1>5, <2>2
    <3> QED
      BY <1>2, <3>1, Zenon
  <2>3. CASE G = Folder!Inside(n)
    BY <1>2, <1>3, <1>5, <2>3, TakenAway, Zenon
  <2> QED
    BY <2>1, <2>2, <2>3, Zenon
<1>7. x3' \in Place
  BY <1>2, <1>5, Zenon DEF Place
<1> DEFINE c == <<name, p, ok, <<x1, x2>>, x3>>
<1>8. MadeRight(c, x1', x2')
  BY <1>4 DEF MadeRight
<1>9. GoneRight(c, x1', x2')
  <2>1. G \subseteq x1 \cup x2 /\ \A x \in G : Folder!IsPrefix(n, x)
    BY <1>4 DEF Folder!Inside
  <2> DEFINE gone == (x1 \cup x2) \ (x1' \cup x2')
  <2>2. gone = G
    BY <1>5, <2>1
  <2> HIDE DEF gone
  <2>3. x1' \subseteq x1 /\ x2' \subseteq x2
    BY <1>5
  <2>4. name = "DelFile" => gone = IF ok THEN {n} ELSE {}
    BY <1>4, <2>2
  <2>5. \A x \in gone : Folder!IsPrefix(n, x)
    BY <2>1, <2>2, Zenon
  <2> QED
    BY <2>3, <2>4, <2>5 DEF GoneRight, gone, n
<1> HIDE DEF c
<1>10. x5' = c
  BY <1>5, Zenon DEF c
<1> QED
  BY <1>5, <1>6, <1>7, <1>8, <1>9, <1>10, Zenon DEF FilesInv

(* SetCurDirectory.                                                        *)
LEMMA EnterStep ==
    ASSUME Folder!PathConstants, FilesInv, NEW p \in Path, Folder!SetCurDirectory(p)
    PROVE  FilesInv'
<1>1. TreeOf(x1, x2) /\ x3 \in Place
  BY Zenon DEF FilesInv
<1>2. PICK ok \in BOOLEAN :
         /\ x5' = <<"SetCurDirectory", p, ok, <<x1, x2>>, x3>>
         /\ x1' = x1 /\ x2' = x2 /\ x4 = "idle" /\ x4' = "idle"
         /\ x3' = x3 \/ x3' \in x1 \cup {Folder!Nowhere}
  BY DEF Folder!SetCurDirectory, Folder!Call, Folder!tree
<1>3. x3' \in Place
  BY <1>1, <1>2 DEF Place, TreeOf
<1>4. MadeRight(x5', x1', x2') /\ GoneRight(x5', x1', x2')
  BY <1>2 DEF MadeRight, GoneRight
<1>5. TreeOf(x1', x2')
  BY <1>1, <1>2, Zenon
<1> QED
  BY <1>2, <1>3, <1>4, <1>5, Zenon DEF FilesInv

(* GetSubFiles and GetSubFolders begin.                                    *)
LEMMA OpenStep ==
    ASSUME Folder!PathConstants, FilesInv, NEW p \in Path,
           Folder!GetSubFiles(p) \/ Folder!GetSubFolders(p)
    PROVE  FilesInv'
<1>1. p \in Seq(PathPart)
  BY PathIsParts, Zenon
<1>2. TreeOf(x1, x2) /\ x3 \in Place
  BY Zenon DEF FilesInv
<1>3. PICK name \in {"GetSubFiles", "GetSubFolders"} : Folder!Opendir(name, p)
  BY DEF Folder!GetSubFiles, Folder!GetSubFolders
<1> DEFINE R == Folder!ResolveFrom(x3, p)
           c == <<name, p, TRUE, <<x1, x2>>, x3>>
<1>4. /\ x4 = "idle" /\ x5' = c /\ x1' = x1 /\ x2' = x2 /\ x3' = x3
      /\ \/ x4' = "idle"
         \/ /\ x4' = "list" /\ p # <<>> /\ R \in x1 /\ x6' = p /\ x8' = <<>>
            /\ x7' = Folder!Children(R) \cup {DOT, PARENT}
            /\ x9' = Folder!Inside(R) /\ x10' = Folder!Inside(R)
  BY <1>3 DEF Folder!Opendir, Folder!Call, Folder!tree, Folder!Resolve, Folder!listVars
<1>5. TreeOf(x1', x2') /\ x3' \in Place
  BY <1>2, <1>4, Zenon
<1>6. c[1] = name /\ c[5] = x3
  OBVIOUS
<1> HIDE DEF c
<1>7. MadeRight(c, x1', x2') /\ GoneRight(c, x1', x2')
  BY <1>6 DEF MadeRight, GoneRight
<1>8. CASE x4' = "idle"
  BY <1>4, <1>5, <1>7, <1>8 DEF FilesInv
<1>9. CASE x4' = "list"
  <2> DEFINE In == Folder!Inside(R)
             un == Folder!Children(R) \cup {DOT, PARENT}
  <2>1. p # <<>> /\ R \in x1 /\ x6' = p /\ x8' = <<>> /\ x7' = un /\ x9' = In /\ x10' = In
    BY <1>4, <1>9
  <2>2. \A x \in x1 \cup x2 : x \in Node /\ x \in Seq(Step1)
    BY <1>2, NodeSteps DEF TreeOf
  <2>3. R \in Node /\ R \in Seq(Step1)
    BY <2>1, <2>2
  <2>4. In \subseteq x1 \cup x2 /\ \A x \in x1 \cup x2 : x \in In <=> Begins(R, x)
    <3>1. In \subseteq x1 \cup x2 /\ \A x \in x1 \cup x2 : x \in In <=> Folder!IsPrefix(R, x)
      BY DEF Folder!Inside
    <3> QED
      BY <2>2, <2>3, <3>1, BeginsIs, Zenon
  <2>5. Folder!Children(R) = {x[Len(R) + 1] : x \in {x \in In : Len(x) = Len(R) + 1}}
    BY Zenon DEF Folder!Children
  <2>6. Len(R) \in Nat
    BY <2>3, LenProperties, Zenon DEF Node
  <2> HIDE DEF In, R
  <2>7. un \subseteq Entry \cup {DOT, PARENT}
    <3>1. \A x \in In : Len(x) = Len(R) + 1 => x[Len(R) + 1] \in Entry
      <4> TAKE x \in In
      <4>1. x \in Seq(Entry)
        BY <2>2, <2>4 DEF Node
      <4>2. Len(x) = Len(R) + 1 => Len(R) + 1 \in 1..Len(x)
        BY <2>6
      <4> QED
        BY <4>1, <4>2, ElementOfSeq, Zenon
    <3> QED
      BY <2>5, <3>1
  <2>8. \A n \in Entry : Append(R, n) \in In => n \in un
    <3> TAKE n \in Entry
    <3>1. Len(Append(R, n)) = Len(R) + 1 /\ Append(R, n)[Len(R) + 1] = n
      BY <2>3, AppendProperties DEF Node
    <3> DEFINE y == Append(R, n)
    <3>2. Len(y) = Len(R) + 1 /\ y[Len(R) + 1] = n
      BY <3>1, Zenon
    <3> HIDE DEF y
    <3>3. y \in In => n \in Folder!Children(R)
      BY <2>5, <3>2
    <3> QED
      BY <3>3, Zenon DEF y
  <2> HIDE DEF un
  <2>9. Len(<<>>) = 0 /\ <<>> \in Seq(Seq(PathPart))
    BY EmptySeq
  <2>10. ~ \E k \in 1..Len(<<>>) : TRUE
    BY <2>9
  <2>11. Listing(x1, x2, x3, c, p, un, <<>>, In, In)
    <3>1. c[1] \in {"GetSubFiles", "GetSubFolders"} /\ c[5] \in Place /\ Folder!ResolveFrom(c[5], p) = R
      BY <1>2, <1>6, Zenon DEF R
    <3>2. Left(p, un, <<>>, In, Kind(c, x1, x2), R)
      BY <2>7, <2>8, <2>10, Zenon DEF Left
    <3>3. Found(p, <<>>, In, R)
      BY <2>9, <2>10, Zenon DEF Found
    <3>4. In \subseteq x1 \cup x2 /\ (\A x \in In : Begins(R, x)) /\ \A x \in x1 \cup x2 : Begins(R, x) => x \in In
      BY <2>4
    <3>5. Where(x1, x2, x3, c, p, In, In, R)
      BY <1>1, <1>6, <2>1, <2>3, <3>1, <3>4, Zenon DEF Where
    <3> QED
      BY <3>1, <3>2, <3>3, <3>5, Zenon DEF Listing
  <2>12. Listing(x1', x2', x3', x5', x6', x7', x8', x9', x10')
    BY <1>4, <2>1, <2>11, Zenon
  <2> QED
    BY <1>5, <1>9, <2>12 DEF FilesInv
<1> QED
  BY <1>4, <1>8, <1>9, Zenon

(* Where the folder that is listed is, and its entries.                    *)
LEMMA ListedFolder ==
    ASSUME Folder!PathConstants, FilesInv, x4 # "idle"
    PROVE  /\ x5[5] \in Place /\ x6 \in Seq(PathPart) /\ x6 # <<>> /\ x3 \in Place
           /\ Folder!ResolveFrom(x5[5], x6) \in Node
           /\ x9 # {} => Folder!ResolveFrom(x3, x6) = Folder!ResolveFrom(x5[5], x6)
           /\ Folder!ResolveFrom(x3, x6) \in Node => Folder!ResolveFrom(x3, x6) = Folder!ResolveFrom(x5[5], x6)
           /\ \A n \in Entry :
                 /\ EntryPath(x6, n) \in Seq(PathPart)
                 /\ Folder!ResolveFrom(x3, EntryPath(x6, n)) = Append(Folder!ResolveFrom(x3, x6), n)
                 /\ Folder!ResolveFrom(x5[5], EntryPath(x6, n)) = Append(Folder!ResolveFrom(x5[5], x6), n)
                 /\ Folder!ResolveFrom(x3, EntryPath(x6, n)) \in Node => Folder!ResolveFrom(x3, x6) \in Node
                 /\ Folder!Path2FileName(EntryPath(x6, n)) = <<n>>
                 /\ \A m \in Entry : EntryPath(x6, m) = EntryPath(x6, n) => m = n
<1>1. /\ x5[5] \in Place /\ x6 \in Seq(PathPart) /\ x6 # <<>> /\ x3 \in Place
      /\ Folder!ResolveFrom(x5[5], x6) \in Node
      /\ \/ x3 = x5[5]
         \/ x3 = Folder!Nowhere /\ (Absolute1(x6) \/ x9 = {})
  BY Zenon DEF FilesInv, Listing, Where
<1>2. Absolute1(x6) => \A c : Folder!ResolveFrom(c, x6) = <<>> \o Folder!Names(x6)
  BY Zenon DEF Folder!ResolveFrom, Absolute1
<1>3. x3 = x5[5] \/ Absolute1(x6) => Folder!ResolveFrom(x3, x6) = Folder!ResolveFrom(x5[5], x6)
  BY <1>2, Zenon
<1>4. ~Absolute1(x6) /\ x3 = Folder!Nowhere => Folder!ResolveFrom(x3, x6) \notin Node
  BY <1>1, Resolved, Zenon
<1>5. ASSUME NEW n \in Entry
      PROVE  /\ EntryPath(x6, n) \in Seq(PathPart)
             /\ Folder!ResolveFrom(x3, EntryPath(x6, n)) = Append(Folder!ResolveFrom(x3, x6), n)
             /\ Folder!ResolveFrom(x5[5], EntryPath(x6, n)) = Append(Folder!ResolveFrom(x5[5], x6), n)
             /\ Absolute1(EntryPath(x6, n)) <=> Absolute1(x6)
             /\ Folder!Path2FileName(EntryPath(x6, n)) = <<n>>
  BY <1>1, FurtherIn, FileNameOf DEF EntryPath
<1>6. ASSUME NEW n \in Entry, Folder!ResolveFrom(x3, EntryPath(x6, n)) \in Node
      PROVE  Folder!ResolveFrom(x3, x6) \in Node
  <2>1. ~Absolute1(x6) /\ x3 = Folder!Nowhere => Folder!ResolveFrom(x3, EntryPath(x6, n)) \notin Node
    BY <1>1, <1>5, Resolved, Zenon
  <2> QED
    BY <1>1, <1>3, <1>6, <2>1, Zenon
<1>7. \A n, m \in Entry : EntryPath(x6, m) = EntryPath(x6, n) => m = n
  <2> SUFFICES ASSUME NEW n \in Entry, NEW m \in Entry, EntryPath(x6, m) = EntryPath(x6, n) PROVE m = n
    OBVIOUS
  <2>1. <<m>> = <<n>>
    BY <1>5, Zenon
  <2> QED
    BY <2>1
<1>8. x9 # {} => Folder!ResolveFrom(x3, x6) = Folder!ResolveFrom(x5[5], x6)
  BY <1>1, <1>3, Zenon
<1>9. Folder!ResolveFrom(x3, x6) \in Node => Folder!ResolveFrom(x3, x6) = Folder!ResolveFrom(x5[5], x6)
  BY <1>1, <1>3, <1>4, Zenon
<1> QED
  BY <1>1, <1>5, <1>6, <1>7, <1>8, <1>9, Zenon

(* The folder being listed.                                                *)
ListRoot == Folder!ResolveFrom(x5[5], x6)

(* The invariant while a listing is in progress.                           *)
LEMMA ListingNow ==
    ASSUME FilesInv, x4 # "idle"
    PROVE  /\ Where(x1, x2, x3, x5, x6, x9, x10, ListRoot)
           /\ Found(x6, x8, x10, ListRoot)
           /\ Left(x6, x7, x8, x9, Kind(x5, x1, x2), ListRoot)
BY Zenon DEF FilesInv, Listing, ListRoot

(* One path more, that was not given before, is given once; the others as
   before.                                                                 *)
OneMore(v, w, p) ==
    /\ \A k \in 1..Len(w) : (k \in 1..Len(v) /\ w[k] = v[k]) \/ w[k] = p
    /\ (\A k \in 1..Len(v) : v[k] # p) => OnceGiven(w, p)
    /\ \A q : q # p => /\ OnceGiven(v, q) => OnceGiven(w, q)
                       /\ (\A k \in 1..Len(v) : v[k] # q) => \A k \in 1..Len(w) : w[k] # q

(* A path that was not in the list is in it once when it is put there.     *)
LEMMA OnceMore ==
    ASSUME NEW S, NEW v \in Seq(S), NEW p \in S, NEW w, w = Append(v, p)
    PROVE  w \in Seq(S) /\ OneMore(v, w, p)
<1> DEFINE n == Len(v)
<1>1. /\ n \in Nat /\ w \in Seq(S) /\ Len(w) = n + 1
      /\ \A k \in 1..n : w[k] = v[k]
      /\ w[n + 1] = p
  <2>1. n \in Nat
    BY LenProperties, Zenon
  <2> QED
    BY <2>1, AppendProperties
<1> HIDE DEF n
<1>2. \A k \in 1..Len(w) : k \in 1..n \/ k = n + 1
  BY <1>1
<1>3. \A k \in 1..n : k \in 1..Len(w) /\ k # n + 1
  BY <1>1
<1>4. n + 1 \in 1..Len(w)
  BY <1>1
<1>5. \A k \in 1..Len(w) : (k \in 1..n /\ w[k] = v[k]) \/ w[k] = p
  BY <1>1, <1>2, Zenon
<1>6. ASSUME \A k \in 1..n : v[k] # p PROVE OnceGiven(w, p)
  <2>1. \A j \in 1..Len(w) : w[j] = p => j = n + 1
    BY <1>1, <1>2, <1>6, Zenon
  <2> QED
    BY <1>1, <1>4, <2>1, Zenon DEF OnceGiven
<1>7. ASSUME NEW q, q # p, OnceGiven(v, q) PROVE OnceGiven(w, q)
  <2>1. PICK k \in 1..n : v[k] = q /\ \A j \in 1..n : v[j] = q => j = k
    BY <1>7, Zenon DEF OnceGiven, n
  <2>2. \A j \in 1..Len(w) : w[j] = q => j = k
    BY <1>1, <1>2, <1>7, <2>1, Zenon
  <2> QED
    BY <1>1, <1>3, <2>1, <2>2, Zenon DEF OnceGiven
<1>8. ASSUME NEW q, q # p, \A k \in 1..n : v[k] # q PROVE \A k \in 1..Len(w) : w[k] # q
  BY <1>1, <1>2, <1>8, Zenon
<1> QED
  BY <1>1, <1>5, <1>6, <1>7, <1>8, Zenon DEF n, OneMore

(* readdir and lstat.                                                      *)
LEMMA ReadStep ==
    ASSUME Folder!PathConstants, FilesInv, Folder!Readdir
    PROVE  FilesInv'
<1> DEFINE R == ListRoot
           kind == Kind(x5, x1, x2)
<1>1. PICK n \in x7 :
         /\ x4 = "list" /\ x4' = "list" /\ x7' = x7 \ {n}
         /\ x8' = IF n \notin {DOT, PARENT} /\ Folder!ResolveFrom(x3, EntryPath(x6, n)) \in kind
                  THEN Append(x8, EntryPath(x6, n)) ELSE x8
         /\ x1' = x1 /\ x2' = x2 /\ x3' = x3 /\ x5' = x5 /\ x6' = x6 /\ x9' = x9 /\ x10' = x10
  BY DEF Folder!Readdir, Folder!tree, Folder!OfKind, Folder!Resolve, EntryPath, Kind
<1>2. TreeOf(x1, x2) /\ x3 \in Place /\ x4 # "idle"
  BY <1>1, Zenon DEF FilesInv
<1>3. /\ Where(x1, x2, x3, x5, x6, x9, x10, R)
      /\ Found(x6, x8, x10, R)
      /\ Left(x6, x7, x8, x9, kind, R)
  BY <1>2, ListingNow, Zenon
<1>4. /\ R \in Node
      /\ x9 # {} => Folder!ResolveFrom(x3, x6) = R
      /\ Folder!ResolveFrom(x3, x6) \in Node => Folder!ResolveFrom(x3, x6) = R
      /\ \A m \in Entry :
           /\ EntryPath(x6, m) \in Seq(PathPart)
           /\ Folder!ResolveFrom(x3, EntryPath(x6, m)) = Append(Folder!ResolveFrom(x3, x6), m)
           /\ Folder!ResolveFrom(x3, EntryPath(x6, m)) \in Node => Folder!ResolveFrom(x3, x6) \in Node
  BY <1>2, ListedFolder, Zenon DEF ListRoot
<1>5. \A m, l \in Entry : EntryPath(x6, m) = EntryPath(x6, l) => m = l
  BY <1>2, ListedFolder, Zenon
<1>6. n \notin {DOT, PARENT} => n \in Entry
  BY <1>3 DEF Left
<1> HIDE DEF R, kind
<1>7. kind \subseteq x1 \cup x2
  BY DEF kind, Kind
<1>8. x7 \ {n} \subseteq Entry \cup {DOT, PARENT}
  BY <1>3 DEF Left
<1>9. Found(x6, x8', x10, R) /\ Left(x6, x7 \ {n}, x8', x9, kind, R)
  <2>1. CASE n \notin {DOT, PARENT} /\ Folder!ResolveFrom(x3, EntryPath(x6, n)) \in kind
    <3> DEFINE p == EntryPath(x6, n)
               w == x8'
    <3>1. n \in Entry /\ p \in Seq(PathPart) /\ x8 \in Seq(Seq(PathPart))
      BY <1>3, <1>4, <1>6, <2>1, Zenon DEF Found
    <3>2. w = Append(x8, p)
      BY <1>1, <2>1
    <3>3. Folder!ResolveFrom(x3, p) \in x1 \cup x2 /\ Folder!ResolveFrom(x3, p) \in Node
      BY <1>2, <1>7, <2>1 DEF TreeOf
    <3>4. Append(R, n) \in x1 \cup x2
      BY <1>4, <3>1, <3>3, Zenon
    <3>5. Append(R, n) \in x10
      <4>1. Begins(R, Append(R, n))
        BY <1>4, <3>1, BeginsAppend, Zenon DEF Node
      <4> QED
        BY <1>3, <3>4, <4>1, Zenon DEF Where
    <3> HIDE DEF p, w
    <3>6. w \in Seq(Seq(PathPart)) /\ OneMore(x8, w, p)
      <4>1. p \in Seq(PathPart)
        BY <3>1, Zenon DEF p
      <4>2. w = Append(x8, p)
        BY <3>2, Zenon DEF p
      <4>3. x8 \in Seq(Seq(PathPart))
        BY <3>1
      <4> QED
        BY <4>1, <4>2, <4>3, OnceMore, Zenon
    <3>7. Found(x6, w, x10, R)
      <4>1. p = EntryPath(x6, n)
        BY Zenon DEF p
      <4> QED
        BY <1>3, <3>1, <3>5, <3>6, <4>1, Zenon DEF Found, OneMore
    <3>8. Left(x6, x7 \ {n}, w, x9, kind, R)
      <4> SUFFICES ASSUME NEW m \in Entry, Append(R, m) \in x9
                   PROVE  /\ m \in x7 \ {n} => \A k \in 1..Len(w) : w[k] # EntryPath(x6, m)
                          /\ m \notin x7 \ {n} /\ Append(R, m) \in kind => OnceGiven(w, EntryPath(x6, m))
        BY <1>8, Zenon DEF Left
      <4>1. /\ m \in x7 => \A k \in 1..Len(x8) : x8[k] # EntryPath(x6, m)
            /\ m \notin x7 /\ Append(R, m) \in kind => OnceGiven(x8, EntryPath(x6, m))
        BY <1>3, Zenon DEF Left
      <4>2. CASE m = n
        <5>1. OnceGiven(w, p)
          BY <3>6, <4>1, <4>2, Zenon DEF p, OneMore
        <5>2. m \notin x7 \ {n}
          BY <4>2
        <5> QED
          BY <4>2, <5>1, <5>2, Zenon DEF p
      <4>3. CASE m # n
        <5>1. EntryPath(x6, m) # p
          BY <1>5, <3>1, <4>3, Zenon DEF p
        <5>2. m \in x7 \ {n} <=> m \in x7
          BY <4>3
        <5> QED
          BY <3>6, <4>1, <5>1, <5>2, Zenon DEF OneMore
      <4> QED
        BY <4>2, <4>3, Zenon
    <3> QED
      BY <3>7, <3>8, Zenon DEF w
  <2>2. CASE ~(n \notin {DOT, PARENT} /\ Folder!ResolveFrom(x3, EntryPath(x6, n)) \in kind)
    <3>1. x8' = x8
      BY <1>1, <2>2, Zenon
    <3>2. Left(x6, x7 \ {n}, x8, x9, kind, R)
      <4> SUFFICES ASSUME NEW m \in Entry, Append(R, m) \in x9
                   PROVE  /\ m \in x7 \ {n} => \A k \in 1..Len(x8) : x8[k] # EntryPath(x6, m)
                          /\ m \notin x7 \ {n} /\ Append(R, m) \in kind => OnceGiven(x8, EntryPath(x6, m))
        BY <1>8, Zenon DEF Left
      <4>1. /\ m \in x7 => \A k \in 1..Len(x8) : x8[k] # EntryPath(x6, m)
            /\ m \notin x7 /\ Append(R, m) \in kind => OnceGiven(x8, EntryPath(x6, m))
        BY <1>3, Zenon DEF Left
      <4>2. CASE m = n
        <5>1. m \notin {DOT, PARENT}
          BY DEF Folder!PathConstants
        <5>2. Folder!ResolveFrom(x3, EntryPath(x6, m)) = Append(R, m)
          <6>1. x9 # {}
            OBVIOUS
          <6> QED
            BY <1>4, <6>1, Zenon
        <5>3. Append(R, m) \notin kind
          BY <2>2, <4>2, <5>1, <5>2, Zenon
        <5>4. m \notin x7 \ {n}
          BY <4>2
        <5> QED
          BY <5>3, <5>4, Zenon
      <4>3. CASE m # n
        <5>1. m \in x7 \ {n} <=> m \in x7
          BY <4>3
        <5> QED
          BY <4>1, <5>1, Zenon
      <4> QED
        BY <4>2, <4>3, Zenon
    <3> QED
      BY <1>3, <3>1, <3>2, Zenon
  <2> QED
    BY <2>1, <2>2, Zenon
<1>10. Listing(x1', x2', x3', x5', x6', x7', x8', x9', x10')
  <2> DEFINE w == x8'
  <2> HIDE DEF w
  <2>1. Found(x6, w, x10, R) /\ Left(x6, x7 \ {n}, w, x9, kind, R)
    BY <1>9, Zenon DEF w
  <2>2. Listing(x1, x2, x3, x5, x6, x7 \ {n}, w, x9, x10)
    BY <1>3, <2>1, Zenon DEF Listing, R, ListRoot, kind
  <2> QED
    BY <1>1, <2>2, Zenon DEF w
<1> QED
  BY <1>1, <1>2, <1>10 DEF FilesInv

(* closedir, and the return to the caller.                                 *)
LEMMA CloseStep ==
    ASSUME FilesInv, Folder!Closedir \/ Folder!Return
    PROVE  FilesInv'
<1>1. /\ x1' = x1 /\ x2' = x2 /\ x3' = x3 /\ x5' = x5 /\ x6' = x6 /\ x7' = x7 /\ x8' = x8
      /\ x9' = x9 /\ x10' = x10
      /\ \/ x4 = "list" /\ x4' = "listed" /\ x7 = {}
         \/ x4 = "listed" /\ x4' = "idle"
  BY DEF Folder!Closedir, Folder!Return, Folder!tree, Folder!listVars
<1>2. TreeOf(x1, x2) /\ x3 \in Place /\ x4 # "idle" /\ Listing(x1, x2, x3, x5, x6, x7, x8, x9, x10)
  BY <1>1 DEF FilesInv
<1>3. TreeOf(x1', x2') /\ x3' \in Place /\ Listing(x1', x2', x3', x5', x6', x7', x8', x9', x10')
  BY <1>1, <1>2, Zenon
<1>4. x5[1] \in {"GetSubFiles", "GetSubFolders"}
  BY <1>2, Zenon DEF Listing, Where
<1>5. MadeRight(x5, x1', x2') /\ GoneRight(x5, x1', x2')
  BY <1>4 DEF MadeRight, GoneRight
<1>6. MadeRight(x5', x1', x2') /\ GoneRight(x5', x1', x2')
  BY <1>1, <1>5, Zenon
<1> QED
  BY <1>1, <1>3, <1>6 DEF FilesInv

(* Another process makes a file or a folder.                               *)
LEMMA AppearStep ==
    ASSUME Folder!PathConstants, FilesInv, Folder!Appear
    PROVE  FilesInv'
<1> DEFINE R == ListRoot
           kind == Kind(x5, x1, x2)
<1>1. PICK parent \in x1, name \in Entry :
         LET node == Append(parent, name) IN
         /\ x4 = "list" /\ x4' = "list" /\ x5' = x5 /\ x6' = x6 /\ x8' = x8 /\ x3' = x3 /\ x9' = x9
         /\ node \notin x1 \cup x2
         /\ \/ x1' = x1 \cup {node} /\ x2' = x2
            \/ x2' = x2 \cup {node} /\ x1' = x1
         /\ x10' = x10 \cup {node}
         /\ x7' = x7 \/ (parent = Folder!ResolveFrom(x3, x6) /\ x7' = x7 \cup {name})
  BY DEF Folder!Appear, Folder!Changed, Folder!Resolve
<1> DEFINE node == Append(parent, name)
<1>2. TreeOf(x1, x2) /\ x3 \in Place /\ x4 # "idle"
  BY <1>1, Zenon DEF FilesInv
<1>3. /\ Where(x1, x2, x3, x5, x6, x9, x10, R)
      /\ Found(x6, x8, x10, R)
      /\ Left(x6, x7, x8, x9, kind, R)
  BY <1>2, ListingNow, Zenon
<1>4. Folder!ResolveFrom(x3, x6) \in Node => Folder!ResolveFrom(x3, x6) = R
  BY <1>2, ListedFolder, Zenon DEF ListRoot
<1>5. parent \in Node /\ node \in Node /\ node # <<>> /\ Front(node) = parent
  <2>1. parent \in Node
    BY <1>2 DEF TreeOf
  <2>2. node \in Node /\ node # <<>>
    BY <2>1, AppendProperties DEF Node
  <2>3. Folder!Front(node) = parent
    BY <2>1, FrontAppend, Zenon DEF Node
  <2>4. Folder!Front(node) = Front(node)
    BY DEF Folder!Front, Front
  <2> QED
    BY <2>1, <2>2, <2>3, <2>4, Zenon
<1>6. x1 \cup x2 \subseteq Node /\ \A x \in x1 \cup x2 : x # <<>> => Front(x) \in x1
  BY <1>2, Zenon DEF TreeOf
<1> HIDE DEF node, R
<1>7. /\ x4 = "list" /\ x4' = "list" /\ x5' = x5 /\ x6' = x6 /\ x8' = x8 /\ x3' = x3 /\ x9' = x9
      /\ node \notin x1 \cup x2
      /\ \/ x1' = x1 \cup {node} /\ x2' = x2
         \/ x2' = x2 \cup {node} /\ x1' = x1
      /\ x10' = x10 \cup {node}
      /\ x7' = x7 \/ (parent = Folder!ResolveFrom(x3, x6) /\ x7' = x7 \cup {name})
  BY <1>1, Zenon DEF node
<1>8. x1 \subseteq x1' /\ x2 \subseteq x2' /\ x1' \cup x2' = x1 \cup x2 \cup {node}
  BY <1>7
<1>9. TreeOf(x1', x2')
  <2>1. x1' \cup x2' \subseteq Node
    BY <1>5, <1>6, <1>8
  <2>2. \A x \in x1' \cup x2' : x # <<>> => Front(x) \in x1'
    <3> TAKE x \in x1' \cup x2'
    <3>1. x \in x1 \cup x2 \/ x = node
      BY <1>8
    <3>2. parent \in x1'
      BY <1>8
    <3> QED
      BY <1>5, <1>6, <1>8, <3>1, <3>2
  <2> QED
    BY <2>1, <2>2, Zenon DEF TreeOf
<1>10. Where(x1', x2', x3, x5, x6, x9, x10', R)
  <2>1. x9 \subseteq x1' \cup x2'
    BY <1>3, <1>8 DEF Where
  <2>2. \A x \in x1' \cup x2' : Begins(R, x) => x \in x10'
    <3> TAKE x \in x1' \cup x2'
    <3>1. x \in x1 \cup x2 \/ x = node
      BY <1>8
    <3>2. x \in x1 \cup x2 => (Begins(R, x) => x \in x10)
      BY <1>3, Zenon DEF Where
    <3> QED
      BY <1>7, <3>1, <3>2
  <2> QED
    BY <1>3, <2>1, <2>2, Zenon DEF Where
<1>11. Found(x6, x8, x10', R)
  <2>1. \A y \in x10 : y \in x10'
    BY <1>7
  <2> QED
    BY <1>3, <2>1, Zenon DEF Found
<1>12. Left(x6, x7', x8, x9, Kind(x5, x1', x2'), R)
  <2>1. x7' \subseteq Entry \cup {DOT, PARENT}
    BY <1>1, <1>3, <1>7 DEF Left
  <2> SUFFICES ASSUME NEW m \in Entry, Append(R, m) \in x9
               PROVE  /\ m \in x7' => \A k \in 1..Len(x8) : x8[k] # EntryPath(x6, m)
                      /\ m \notin x7' /\ Append(R, m) \in Kind(x5, x1', x2') => OnceGiven(x8, EntryPath(x6, m))
    BY <2>1, Zenon DEF Left
  <2>2. /\ m \in x7 => \A k \in 1..Len(x8) : x8[k] # EntryPath(x6, m)
        /\ m \notin x7 /\ Append(R, m) \in kind => OnceGiven(x8, EntryPath(x6, m))
    BY <1>3, Zenon DEF Left
  <2>3. Append(R, m) \in x1 \cup x2
    BY <1>3 DEF Where
  <2>4. Append(R, m) # node
    BY <1>7, <2>3, Zenon
  <2>5. m \in x7' => m \in x7
    <3> SUFFICES ASSUME m \in x7', m \notin x7 PROVE FALSE
      OBVIOUS
    <3>1. parent = Folder!ResolveFrom(x3, x6) /\ m = name
      BY <1>7
    <3>2. parent = R
      BY <1>4, <1>5, <3>1, Zenon
    <3> QED
      BY <2>4, <3>1, <3>2, Zenon DEF node
  <2>6. x7 \subseteq x7'
    BY <1>7
  <2>7. Append(R, m) \in Kind(x5, x1', x2') => Append(R, m) \in kind
    BY <1>7, <2>4 DEF Kind
  <2> QED
    BY <2>2, <2>5, <2>6, <2>7
<1>13. Listing(x1', x2', x3, x5, x6, x7', x8, x9, x10')
  BY <1>10, <1>11, <1>12, Zenon DEF Listing, R, ListRoot
<1>14. Listing(x1', x2', x3', x5', x6', x7', x8', x9', x10')
  BY <1>7, <1>13, Zenon
<1> QED
  BY <1>2, <1>7, <1>9, <1>14 DEF FilesInv

(* Another process removes a file or an empty folder.                      *)
LEMMA VanishStep ==
    ASSUME Folder!PathConstants, FilesInv, Folder!Vanish
    PROVE  FilesInv'
<1> DEFINE R == ListRoot
           kind == Kind(x5, x1, x2)
<1>1. PICK node \in x1 \cup x2 :
         /\ x4 = "list" /\ x4' = "list" /\ x5' = x5 /\ x6' = x6 /\ x8' = x8 /\ x7' = x7 /\ x10' = x10
         /\ node # <<>> /\ Folder!Inside(node) = {node}
         /\ x1' = x1 \ {node} /\ x2' = x2 \ {node}
         /\ x9' = x9 \ {node}
         /\ x3' = IF x3 \in {node} THEN Folder!Nowhere ELSE x3
  BY DEF Folder!Vanish, Folder!Changed, Folder!TakeAway
<1>2. TreeOf(x1, x2) /\ x3 \in Place /\ x4 # "idle"
  BY <1>1, Zenon DEF FilesInv
<1>3. /\ Where(x1, x2, x3, x5, x6, x9, x10, R)
      /\ Found(x6, x8, x10, R)
      /\ Left(x6, x7, x8, x9, kind, R)
  BY <1>2, ListingNow, Zenon
<1>4. \A x \in x1 \cup x2 : x \in Node /\ x \in Seq(Step1)
  BY <1>2, NodeSteps DEF TreeOf
<1>5. R \in Node /\ R \in Seq(Step1)
  BY <1>3, NodeSteps DEF Where
<1>6. TreeOf(x1', x2')
  BY <1>1, <1>2, <1>4, TakenAway, Zenon
<1>7. x3' \in Place
  BY <1>1, <1>2, Zenon DEF Place
<1>8. \A x \in x1 \cup x2 : Begins(node, x) => x = node
  <2> SUFFICES ASSUME NEW x \in x1 \cup x2, Begins(node, x) PROVE x = node
    BY Zenon
  <2>1. Folder!IsPrefix(node, x)
    BY <1>4, BeginsIs, Zenon
  <2>2. x \in Folder!Inside(node)
    BY <2>1 DEF Folder!Inside
  <2> QED
    BY <1>1, <2>2
<1>9. x3 = node /\ x3 = x5[5] /\ ~Absolute1(x6) => x9' = {}
  <2> SUFFICES ASSUME x3 = node, x3 = x5[5], ~Absolute1(x6), NEW x \in x9' PROVE FALSE
    BY Zenon
  <2>1. x \in x9 /\ x # node /\ x \in x1 \cup x2 /\ Begins(R, x)
    BY <1>1, <1>3 DEF Where
  <2>2. Begins(node, R)
    <3>1. x6 \in Seq(PathPart)
      BY <1>3, Zenon DEF Where
    <3> QED
      BY <1>2, <3>1, Resolved, Zenon DEF ListRoot
  <2>3. Begins(node, x)
    BY <1>4, <1>5, <2>1, <2>2, BeginsTrans, Zenon DEF Node
  <2> QED
    BY <1>8, <2>1, <2>3, Zenon
<1> HIDE DEF R
<1>10. Where(x1', x2', x3', x5, x6, x9', x10, R)
  <2>1. x9' \subseteq x1' \cup x2' /\ \A x \in x9' : Begins(R, x)
    <3>1. x9 \subseteq x1 \cup x2 /\ \A x \in x9 : Begins(R, x)
      BY <1>3, Zenon DEF Where
    <3> QED
      BY <1>1, <3>1
  <2>2. \A x \in x1' \cup x2' : Begins(R, x) => x \in x10
    <3>1. \A x \in x1 \cup x2 : Begins(R, x) => x \in x10
      BY <1>3, Zenon DEF Where
    <3> QED
      BY <1>1, <3>1
  <2>3. \/ x3 = x5[5]
        \/ x3 = Folder!Nowhere /\ (Absolute1(x6) \/ x9 = {})
    BY <1>3, Zenon DEF Where
  <2>4. \/ x3' = x5[5]
        \/ x3' = Folder!Nowhere /\ (Absolute1(x6) \/ x9' = {})
    <3>1. x9 = {} => x9' = {}
      BY <1>1
    <3>2. CASE x3 = node
      BY <1>1, <1>9, <2>3, <3>1, <3>2
    <3>3. CASE x3 # node
      BY <1>1, <2>3, <3>1, <3>3
    <3> QED
      BY <3>2, <3>3
  <2>5. /\ x5[1] \in {"GetSubFiles", "GetSubFolders"} /\ x5[5] \in Place
        /\ x6 \in Seq(PathPart) /\ x6 # <<>> /\ R \in Node
    BY <1>3, Zenon DEF Where
  <2> QED
    BY <2>1, <2>2, <2>4, <2>5, Zenon DEF Where
<1>11. Left(x6, x7, x8, x9', Kind(x5, x1', x2'), R)
  <2>1. x7 \subseteq Entry \cup {DOT, PARENT}
    BY <1>3, Zenon DEF Left
  <2> SUFFICES ASSUME NEW m \in Entry, Append(R, m) \in x9'
               PROVE  /\ m \in x7 => \A k \in 1..Len(x8) : x8[k] # EntryPath(x6, m)
                      /\ m \notin x7 /\ Append(R, m) \in Kind(x5, x1', x2') => OnceGiven(x8, EntryPath(x6, m))
    BY <2>1, Zenon DEF Left
  <2>2. Append(R, m) \in x9
    BY <1>1
  <2>3. Append(R, m) \in Kind(x5, x1', x2') => Append(R, m) \in kind
    BY <1>1 DEF Kind
  <2> QED
    BY <1>3, <2>2, <2>3, Zenon DEF Left
<1>12. Listing(x1', x2', x3', x5, x6, x7, x8, x9', x10)
  BY <1>3, <1>10, <1>11, Zenon DEF Listing, R, ListRoot
<1>13. Listing(x1', x2', x3', x5', x6', x7', x8', x9', x10')
  BY <1>1, <1>12, Zenon
<1> QED
  BY <1>1, <1>6, <1>7, <1>13 DEF FilesInv

(* The invariant holds at the start.                                       *)
LEMMA FilesInit == ASSUME Folder!PathConstants, Folder!Init PROVE FilesInv
<1>1. PICK t \in Trees : x1 = t[1] /\ x2 = t[2]
  BY DEF Folder!Init
<1>2. /\ x1 \cup x2 \subseteq Node
      /\ \A x \in x1 \cup x2 : x # <<>> => Folder!Front(x) \in x1
  <2>1. \A tree \in Trees :
          /\ tree[1] \cup tree[2] \subseteq Seq(Entry)
          /\ \A x \in tree[1] \cup tree[2] : x # <<>> => Folder!Front(x) \in tree[1]
    BY DEF Folder!PathConstants
  <2> QED
    BY <1>1, <2>1, Zenon DEF Node
<1>3. TreeOf(x1, x2)
  BY <1>2 DEF TreeOf, Folder!Front, Front
<1>4. x3 \in Place /\ x4 = "idle" /\ x5[1] = "none"
  BY <1>2 DEF Folder!Init, Place
<1>5. MadeRight(x5, x1, x2) /\ GoneRight(x5, x1, x2)
  BY <1>4 DEF MadeRight, GoneRight
<1> QED
  BY <1>3, <1>4, <1>5 DEF FilesInv

(* Every call, every entry read and every change by others keeps it.       *)
LEMMA FilesStep == ASSUME Folder!PathConstants, FilesInv, Folder!Next PROVE FilesInv'
<1>1. CASE \E p \in Path :
              \/ Folder!SetCurDirectory(p) \/ Folder!CreateFolder(p) \/ Folder!CreateFolderForFile(p)
              \/ Folder!DelFolder(p) \/ Folder!DelFile(p) \/ Folder!GetSubFiles(p) \/ Folder!GetSubFolders(p)
  BY <1>1, EnterStep, MakeStep, RemoveStep, OpenStep, Zenon
<1>2. CASE Folder!Readdir
  BY <1>2, ReadStep, Zenon
<1>3. CASE Folder!Closedir \/ Folder!Return
  BY <1>3, CloseStep, Zenon
<1>4. CASE Folder!Appear
  BY <1>4, AppearStep, Zenon
<1>5. CASE Folder!Vanish
  BY <1>5, VanishStep, Zenon
<1> QED
  BY <1>1, <1>2, <1>3, <1>4, <1>5, Zenon DEF Folder!Next

(* A child of the folder is its node and a name more.                      *)
LEMMA LastAppend ==
    ASSUME NEW S, NEW s \in Seq(S), NEW x \in S
    PROVE  Folder!Last(Append(s, x)) = x
<1>1. Append(s, x) \in Seq(S) /\ Len(Append(s, x)) = Len(s) + 1 /\ Append(s, x)[Len(s) + 1] = x
  BY AppendProperties
<1>2. Folder!Last(Append(s, x)) = Append(s, x)[Len(Append(s, x))]
  BY Zenon DEF Folder!Last
<1> QED
  BY <1>1, <1>2, Zenon

(* A list that is complete is that of its folder.                          *)
LEMMA ListIsRight ==
    ASSUME Folder!PathConstants, FilesInv
    PROVE  Folder!ListIsOfFolder
<1> SUFFICES ASSUME x4 = "listed" PROVE Folder!ListIsOfFolder
  BY Zenon DEF Folder!ListIsOfFolder
<1> DEFINE R == ListRoot
           kind == Kind(x5, x1, x2)
           Meant(q) == Folder!ResolveFrom(x5[5], q)
           Child(x) == Folder!IsPrefix(R, x) /\ Len(x) = Len(R) + 1
           Given(x) == {k \in 1..Len(x8) : Meant(x8[k]) = x}
<1>1. x4 # "idle" /\ x7 = {} /\ TreeOf(x1, x2)
  BY Zenon DEF FilesInv
<1>2. /\ Where(x1, x2, x3, x5, x6, x9, x10, R)
      /\ Found(x6, x8, x10, R)
      /\ Left(x6, x7, x8, x9, kind, R)
  BY <1>1, ListingNow, Zenon
<1>3. /\ x5[5] \in Place /\ x6 \in Seq(PathPart) /\ x6 # <<>> /\ R \in Node
      /\ x9 \subseteq x1 \cup x2
  BY <1>2, Zenon DEF Where
<1>4. R \in Seq(Entry) /\ R \in Seq(Step1) /\ x9 \subseteq Node /\ x9 \subseteq Seq(Step1)
  BY <1>1, <1>3, NodeSteps DEF TreeOf, Node
<1>5. \A n \in Entry :
         /\ EntryPath(x6, n) \in Seq(PathPart)
         /\ Meant(EntryPath(x6, n)) = Append(R, n)
         /\ Folder!Path2FileName(EntryPath(x6, n)) = <<n>>
  BY <1>3, FurtherIn, FileNameOf, Zenon DEF EntryPath, ListRoot
<1>6. \A k \in 1..Len(x8) : \E n \in Entry : x8[k] = EntryPath(x6, n) /\ Append(R, n) \in x10
  BY <1>2, Zenon DEF Found
<1>7. \A n \in Entry : Folder!Last(Append(R, n)) = n /\ Child(Append(R, n))
  <2> TAKE n \in Entry
  <2>1. Append(R, n) \in Seq(Entry) /\ Len(Append(R, n)) = Len(R) + 1
    BY <1>4, AppendProperties
  <2>2. Begins(R, Append(R, n))
    BY <1>4, BeginsAppend, Zenon
  <2>3. Append(R, n) \in Seq(Step1)
    BY <2>1, NodeSteps DEF Node
  <2>4. Folder!IsPrefix(R, Append(R, n))
    BY <1>4, <2>2, <2>3, BeginsIs, Zenon
  <2> QED
    BY <1>4, <2>1, <2>4, LastAppend, Zenon
<1>8. ASSUME NEW k \in 1..Len(x8)
      PROVE  /\ Child(Meant(x8[k])) /\ Meant(x8[k]) \in x10
             /\ Folder!Path2FileName(x8[k]) = <<Folder!Last(Meant(x8[k]))>>
  BY <1>5, <1>6, <1>7, Zenon
<1>9. ASSUME NEW x \in x9 \cap kind, Child(x)
      PROVE  Folder!Cardinality(Given(x)) = 1
  <2> DEFINE n == Last(x)
  <2>1. x \in Seq(Entry) /\ Begins(R, x) /\ Len(x) = Len(R) + 1
    BY <1>4, <1>9, BeginsIs DEF Node
  <2>2. n \in Entry /\ x = Append(R, n)
    BY <1>4, <2>1, ChildIs, Zenon
  <2> HIDE DEF n
  <2>3. OnceGiven(x8, EntryPath(x6, n))
    <3>1. n \notin x7 /\ Append(R, n) \in x9 /\ Append(R, n) \in kind
      BY <1>1, <2>2
    <3> QED
      BY <1>2, <2>2, <3>1, Zenon DEF Left
  <2>4. PICK k \in 1..Len(x8) :
           x8[k] = EntryPath(x6, n) /\ \A j \in 1..Len(x8) : x8[j] = EntryPath(x6, n) => j = k
    BY <2>3, Zenon DEF OnceGiven
  <2>5. ASSUME NEW j \in 1..Len(x8), Meant(x8[j]) = x PROVE j = k
    <3>1. PICK m \in Entry : x8[j] = EntryPath(x6, m)
      BY <1>6, Zenon
    <3>2. Append(R, m) = Append(R, n)
      BY <1>5, <2>2, <2>5, <3>1, Zenon
    <3>3. m = n
      BY <1>4, <2>2, <3>2, AppendInjective
    <3> QED
      BY <2>4, <3>1, <3>3, Zenon
  <2>6. Given(x) = {k}
    <3>1. Meant(x8[k]) = x
      BY <1>5, <2>2, <2>4, Zenon
    <3> QED
      BY <2>4, <2>5, <3>1, Zenon
  <2>7. Cardinality({k}) = 1
    BY FS_Singleton
  <2>8. Folder!Cardinality({k}) = Cardinality({k})
    BY Zenon DEF Folder!Cardinality, Cardinality
  <2> QED
    BY <2>6, <2>7, <2>8, Zenon
<1>10. Folder!OfKind = kind
  BY Zenon DEF Folder!OfKind, Kind
<1>11. Folder!Meant(x6) = R /\ \A q : Folder!Meant(q) = Meant(q)
  BY Zenon DEF Folder!Meant, ListRoot
<1> HIDE DEF R, kind
<1> QED
  BY <1>8, <1>9, <1>10, <1>11, Zenon DEF Folder!ListIsOfFolder

(* The free space is the product of its factors while it fits.             *)
LEMMA FreeSpaceIsRight == Folder!FreeSpaceRight
<1> SUFFICES ASSUME NEW f \in 0..70, NEW s \in {1, 2, 4}
             PROVE  Folder!GetFreeDiskSpace(f, s, 4) \in (((f * s) \div 16) - s + 1)..((f * s) \div 16)
  BY DEF Folder!FreeSpaceRight
<1>1. CASE s = 1
  BY <1>1 DEF Folder!GetFreeDiskSpace
<1>2. CASE s = 2
  BY <1>2 DEF Folder!GetFreeDiskSpace
<1>3. CASE s = 4
  BY <1>3 DEF Folder!GetFreeDiskSpace
<1> QED
  BY <1>1, <1>2, <1>3

(* The invariant gives all that is said of folders.                        *)
LEMMA FilesPart ==
    ASSUME Folder!PathConstants, FilesInv
    PROVE  /\ Folder!IsTree /\ Folder!ListIsOfFolder /\ Folder!MakesWhatIsMeant
           /\ Folder!RemovesWhatIsNamed /\ Folder!FreeSpaceRight
<1>1. Folder!IsTree
  BY TreeIs, Zenon DEF FilesInv
<1>2. Folder!MakesWhatIsMeant
  <2> SUFFICES ASSUME x4 = "idle" PROVE Folder!MakesWhatIsMeant
    BY Zenon DEF Folder!MakesWhatIsMeant
  <2>1. MadeRight(x5, x1, x2)
    BY Zenon DEF FilesInv
  <2> QED
    BY <2>1 DEF MadeRight, MadeAs, Folder!MakesWhatIsMeant, Folder!Made, Folder!before, Folder!Meant
<1>3. Folder!RemovesWhatIsNamed
  <2> SUFFICES ASSUME x4 = "idle" PROVE Folder!RemovesWhatIsNamed
    BY Zenon DEF Folder!RemovesWhatIsNamed
  <2>1. GoneRight(x5, x1, x2)
    BY Zenon DEF FilesInv
  <2> QED
    BY <2>1 DEF GoneRight, Folder!RemovesWhatIsNamed, Folder!before, Folder!Meant
<1> QED
  BY <1>1, <1>2, <1>3, ListIsRight, FreeSpaceIsRight, Zenon

-----------------------------------------------------------------------------

(* What is put together of what is made of each element, when there is one
   more.                                                                   *)
Makes(f, S, T) == f \in [S -> Seq(T)]
(* What the elements of a sequence add up to, each by f.                   *)
Flat(f, s) == FlattenSeq([i \in 1..Len(s) |-> f[s[i]]])

(* One element more adds its own.                                          *)
LEMMA FlatSnoc ==
    ASSUME NEW S, NEW T, NEW f, Makes(f, S, T), NEW s \in Seq(S), NEW x \in S
    PROVE  Flat(f, s) \in Seq(T) /\ Flat(f, Append(s, x)) = Flat(f, s) \o f[x]
<1> DEFINE m == [i \in 1..Len(s) |-> f[s[i]]]
<1>1. /\ m \in Seq(Seq(T))
      /\ [i \in 1..Len(Append(s, x)) |-> f[Append(s, x)[i]]] = Append(m, f[x])
  <2> DEFINE U == Seq(T)
  <2>1. f \in [S -> U]
    BY DEF Makes
  <2> HIDE DEF U
  <2>2. m \in Seq(U) /\ [i \in 1..Len(Append(s, x)) |-> f[Append(s, x)[i]]] = Append(m, f[x])
    BY <2>1, EachSnoc
  <2> QED
    BY <2>2, Zenon DEF U
<1>2. f[x] \in Seq(T)
  BY DEF Makes
<1> HIDE DEF m
<1>3. FlattenSeq(m) \in Seq(T) /\ FlattenSeq(Append(m, f[x])) = FlattenSeq(m) \o f[x]
  BY <1>1, <1>2, FlattenSnoc, Zenon
<1> QED
  BY <1>1, <1>3, Zenon DEF m, Flat

(* Where the tabs are in the text of some fields, with one behind each.    *)
Sign == Word \cup {TAB}
(* A field and the tab behind it.                                          *)
Ended == [x \in Word |-> F!Symbol(x) \o <<TAB>>]
(* The text of the fields, with a tab behind the last, too.                *)
Written(s) == Flat(Ended, s)
(* P gives the end of each field in the text: a tab, and no other in
   between.                                                                *)
CutsAt(P, s, t) ==
    /\ P \in [0..Len(s) -> Nat] /\ P[0] = 0 /\ P[Len(s)] = Len(t)
    /\ \A k \in 1..Len(s) :
          /\ P[k] \in 1..Len(t) /\ t[P[k]] = TAB
          /\ s[k] = EMPTY => P[k] = P[k - 1] + 1
          /\ s[k] # EMPTY => P[k] = P[k - 1] + 2 /\ t[P[k] - 1] = s[k]
(* The text can be cut so.                                                 *)
HasCuts(s) == \E P : CutsAt(P, s, Written(s))

(* A field and its tab are one or two symbols, and only the last is a tab. *)
LEMMA EndedIs ==
    ASSUME NEW x \in Word
    PROVE  /\ Ended \in [Word -> Seq(Sign)]
           /\ x = EMPTY => Ended[x] = <<TAB>>
           /\ x # EMPTY => Ended[x] = <<x, TAB>>
<1>1. ASSUME NEW y \in Word
      PROVE  /\ F!Symbol(y) \o <<TAB>> \in Seq(Sign)
             /\ y = EMPTY => F!Symbol(y) \o <<TAB>> = <<TAB>>
             /\ y # EMPTY => F!Symbol(y) \o <<TAB>> = <<y, TAB>>
  <2>1. TAB \in Sign /\ y \in Sign
    BY DEF Sign
  <2>2. <<TAB>> \in Seq(Sign) /\ <<y, TAB>> \in Seq(Sign)
    BY <2>1
  <2>3. CASE y = EMPTY
    <3>1. F!Symbol(y) = <<>>
      BY <2>3, Zenon DEF F!Symbol
    <3>2. <<>> \o <<TAB>> = <<TAB>>
      BY <2>2, ConcatEmptySeq, Zenon
    <3> QED
      BY <2>2, <2>3, <3>1, <3>2, Zenon
  <2>4. CASE y # EMPTY
    <3>1. F!Symbol(y) = <<y>>
      BY <2>4, Zenon DEF F!Symbol
    <3>2. <<y>> \o <<TAB>> = <<y, TAB>>
      <4>1. <<y>> \in Seq(Sign)
        BY <2>1
      <4>2. Append(<<y>>, TAB) = <<y>> \o <<TAB>>
        BY <2>1, <4>1, AppendIsConcat, Zenon
      <4>3. Append(<<y>>, TAB) = <<y, TAB>>
        <5> DEFINE l == <<y>>
                   r == <<y, TAB>>
        <5>1. /\ l \in Seq(Sign) /\ Len(l) = 1 /\ l[1] = y
              /\ r \in Seq(Sign) /\ Len(r) = 2 /\ r[1] = y /\ r[2] = TAB
          BY <2>1
        <5> HIDE DEF l, r
        <5>2. /\ Append(l, TAB) \in Seq(Sign) /\ Len(Append(l, TAB)) = 2
              /\ Append(l, TAB)[1] = y /\ Append(l, TAB)[2] = TAB
          <6>1. /\ Append(l, TAB) \in Seq(Sign) /\ Len(Append(l, TAB)) = Len(l) + 1
                /\ \A i \in 1..Len(l) : Append(l, TAB)[i] = l[i]
                /\ Append(l, TAB)[Len(l) + 1] = TAB
            <7>1. l \in Seq(Sign) /\ TAB \in Sign /\ Len(l) \in Nat
              BY <2>1, <5>1
            <7> QED
              BY <7>1, AppendProperties
          <6>2. 1 \in 1..Len(l) /\ Len(l) + 1 = 2
            BY <5>1
          <6> QED
            BY <5>1, <6>1, <6>2, Zenon
        <5>3. \A i \in 1..2 : Append(l, TAB)[i] = r[i]
          BY <5>1, <5>2
        <5>4. Append(l, TAB) = r
          BY <5>1, <5>2, <5>3, SeqEqual
        <5> QED
          BY <5>4, Zenon DEF l, r
      <4> QED
        BY <4>2, <4>3, Zenon
    <3> QED
      BY <2>2, <2>4, <3>1, <3>2, Zenon
  <2> QED
    BY <2>3, <2>4, Zenon
<1> QED
  BY <1>1 DEF Ended

(* So it can with one field more.                                          *)
LEMMA CutsSnoc ==
    ASSUME NEW s \in Seq(Word), NEW x \in Word, HasCuts(s)
    PROVE  Written(Append(s, x)) \in Seq(Sign) /\ HasCuts(Append(s, x))
<1> DEFINE t == Written(s)
           e == Ended[x]
           q == Append(s, x)
           u == Written(q)
           n == Len(s)
<1>1. t \in Seq(Sign) /\ u = t \o e
  <2>1. Makes(Ended, Word, Sign)
    BY EndedIs DEF Makes
  <2>2. Flat(Ended, s) \in Seq(Sign) /\ Flat(Ended, Append(s, x)) = Flat(Ended, s) \o Ended[x]
    BY <2>1, FlatSnoc
  <2> QED
    BY <2>2, Zenon DEF Written
<1>2. e \in Seq(Sign) /\ (x = EMPTY => e = <<TAB>>) /\ (x # EMPTY => e = <<x, TAB>>)
  BY EndedIs
<1>3. /\ q \in Seq(Word) /\ Len(q) = n + 1 /\ n \in Nat
      /\ \A i \in 1..n : q[i] = s[i]
      /\ q[n + 1] = x
  <2>1. n \in Nat
    BY LenProperties, Zenon
  <2> QED
    BY <2>1, AppendProperties
<1>4. PICK P : CutsAt(P, s, t)
  BY Zenon DEF HasCuts
<1> HIDE DEF t, e, q, u
<1>5. /\ u \in Seq(Sign) /\ Len(u) = Len(t) + Len(e) /\ Len(t) \in Nat /\ Len(e) \in Nat
      /\ \A i \in 1..Len(t) : u[i] = t[i]
      /\ \A i \in 1..Len(e) : u[Len(t) + i] = e[i]
  <2>1. Len(t) \in Nat /\ Len(e) \in Nat
    BY <1>1, <1>2, LenProperties, Zenon
  <2>2. /\ t \o e \in Seq(Sign) /\ Len(t \o e) = Len(t) + Len(e)
        /\ \A i \in 1..(Len(t) + Len(e)) : (t \o e)[i] = IF i <= Len(t) THEN t[i] ELSE e[i - Len(t)]
    BY <1>1, <1>2, ConcatProperties
  <2> DEFINE v == t \o e
  <2> HIDE DEF v
  <2>3. /\ Len(v) = Len(t) + Len(e)
        /\ \A i \in 1..(Len(t) + Len(e)) : v[i] = IF i <= Len(t) THEN t[i] ELSE e[i - Len(t)]
    BY <2>2, Zenon DEF v
  <2>4. \A i \in 1..Len(t) : v[i] = t[i]
    BY <2>1, <2>3
  <2>5. \A i \in 1..Len(e) : v[Len(t) + i] = e[i]
    BY <2>1, <2>3
  <2> QED
    BY <1>1, <2>1, <2>2, <2>4, <2>5, Zenon DEF v
<1> DEFINE Q == [k \in 0..(n + 1) |-> IF k <= n THEN P[k] ELSE Len(u)]
<1>6. /\ P \in [0..n -> Nat] /\ P[0] = 0 /\ P[n] = Len(t)
      /\ \A k \in 1..n : P[k] \in 1..Len(t) /\ t[P[k]] = TAB
      /\ \A k \in 1..n : s[k] = EMPTY => P[k] = P[k - 1] + 1
      /\ \A k \in 1..n : s[k] # EMPTY => P[k] = P[k - 1] + 2 /\ t[P[k] - 1] = s[k]
  BY <1>4 DEF CutsAt
<1>7. /\ Q \in [0..(n + 1) -> Nat] /\ Q[0] = 0 /\ Q[n + 1] = Len(u)
      /\ \A k \in 0..n : Q[k] = P[k]
  BY <1>3, <1>5, <1>6
<1> HIDE DEF Q
<1>8. ASSUME NEW k \in 1..(n + 1)
      PROVE  /\ Q[k] \in 1..Len(u) /\ u[Q[k]] = TAB
             /\ q[k] = EMPTY => Q[k] = Q[k - 1] + 1
             /\ q[k] # EMPTY => Q[k] = Q[k - 1] + 2 /\ u[Q[k] - 1] = q[k]
  <2>1. CASE k \in 1..n
    <3>0. k \in 0..n /\ k - 1 \in 0..n
      BY <1>3, <2>1
    <3>1. q[k] = s[k] /\ Q[k] = P[k] /\ Q[k - 1] = P[k - 1] /\ P[k - 1] \in Nat
      BY <1>3, <1>6, <1>7, <2>1, <3>0, Zenon
    <3>2. P[k] \in 1..Len(t) /\ t[P[k]] = TAB
      BY <1>6, <2>1, Zenon
    <3>3. u[P[k]] = TAB /\ P[k] \in 1..Len(u)
      BY <1>5, <3>2
    <3>4. CASE s[k] = EMPTY
      BY <1>6, <2>1, <3>1, <3>3, <3>4, Zenon
    <3>5. CASE s[k] # EMPTY
      <4>1. P[k] = P[k - 1] + 2 /\ t[P[k] - 1] = s[k]
        BY <1>6, <2>1, <3>5, Zenon
      <4>2. P[k] - 1 \in 1..Len(t)
        <5>1. Len(t) \in Nat
          BY <1>5, Zenon
        <5> QED
          BY <5>1, <3>1, <3>2, <4>1
      <4>3. u[P[k] - 1] = s[k]
        BY <1>5, <4>1, <4>2, Zenon
      <4> QED
        BY <3>1, <3>3, <3>5, <4>1, <4>3, Zenon
    <3> QED
      BY <3>4, <3>5, Zenon
  <2>2. CASE k = n + 1
    <3>1. q[k] = x /\ Q[k] = Len(u) /\ Q[k - 1] = Len(t)
      <4>1. k - 1 = n /\ n \in 0..n
        BY <1>3, <2>2
      <4> QED
        BY <1>3, <1>6, <1>7, <2>2, <4>1, Zenon
    <3>2. CASE x = EMPTY
      <4>1. Len(e) = 1 /\ e[1] = TAB
        BY <1>2, <3>2
      <4>2. Len(u) = Len(t) + 1 /\ u[Len(t) + 1] = TAB
        BY <1>5, <4>1
      <4>3. Len(u) \in 1..Len(u)
        BY <1>5, <4>2
      <4> QED
        BY <3>1, <3>2, <4>2, <4>3, Zenon
    <3>3. CASE x # EMPTY
      <4>1. Len(e) = 2 /\ e[1] = x /\ e[2] = TAB
        BY <1>2, <3>3
      <4>2. Len(u) = Len(t) + 2 /\ u[Len(t) + 1] = x /\ u[Len(t) + 2] = TAB
        BY <1>5, <4>1
      <4>3. Len(u) \in 1..Len(u) /\ Len(u) - 1 = Len(t) + 1
        BY <1>5, <4>2
      <4> QED
        BY <3>1, <3>3, <4>2, <4>3, Zenon
    <3> QED
      BY <3>2, <3>3, Zenon
  <2> QED
    BY <1>3, <2>1, <2>2
<1>9. CutsAt(Q, q, u)
  BY <1>3, <1>7, <1>8, Zenon DEF CutsAt
<1> QED
  BY <1>5, <1>9, Zenon DEF HasCuts, q, u

(* Every text of fields can be cut at its tabs.                            *)
LEMMA EveryTextHasCuts ==
    ASSUME NEW s \in Seq(Word)
    PROVE  HasCuts(s) /\ Written(s) \in Seq(Sign)
<1> DEFINE G == {r \in Seq(Word) : HasCuts(r) /\ Written(r) \in Seq(Sign)}
<1>1. <<>> \in G
  <2>1. Len(<<>>) = 0 /\ <<>> \in Seq(Word) /\ <<>> \in Seq(Sign)
    BY EmptySeq
  <2>2. [i \in 1..0 |-> Ended[<<>>[i]]] = <<>>
    OBVIOUS
  <2>3. Written(<<>>) = <<>>
    BY <2>1, <2>2, FlattenNone, Zenon DEF Written, Flat
  <2> DEFINE P == [k \in 0..0 |-> 0]
  <2>4. CutsAt(P, <<>>, <<>>)
    BY <2>1 DEF CutsAt
  <2> QED
    BY <2>1, <2>3, <2>4, Zenon DEF HasCuts
<1>2. ASSUME NEW r \in Seq(Word), NEW x \in Word, r \in G PROVE Append(r, x) \in G
  <2>1. Append(r, x) \in Seq(Word)
    BY AppendProperties, Zenon
  <2> QED
    BY <1>2, <2>1, CutsSnoc, Zenon
<1> HIDE DEF G
<1>3. Seq(Word) \subseteq G
  BY <1>1, <1>2, BySnoc, Zenon
<1> QED
  BY <1>3, Zenon DEF G

(* The seven fields of a record, and the text they are kept in.            *)
Fields == [1..7 -> Word]
(* What strtok_r_2 gives: the fields, without the last if that is empty.   *)
Taken(fields) == [k \in 1..(IF fields[7] = EMPTY THEN 6 ELSE 7) |-> fields[k]]

(* The text of a record is cut at its first six tabs.                      *)
LEMMA TextCuts ==
    ASSUME NEW fields \in Fields, F!FinderConstants
    PROVE  LET u == F!TextOf(fields)
           IN  /\ u \in Seq(Sign)
               /\ \E P : /\ P \in [0..7 -> Nat] /\ P[0] = 0 /\ P[7] = Len(u) + 1
                         /\ \A k \in 1..6 : u[P[k]] = TAB
                         /\ \A k \in 1..7 :
                              /\ P[k] > P[k - 1]
                              /\ fields[k] = EMPTY => P[k] = P[k - 1] + 1
                              /\ fields[k] # EMPTY => P[k] = P[k - 1] + 2 /\ u[P[k] - 1] = fields[k]
<1> DEFINE u == F!TextOf(fields)
           t == Written(fields)
<1>1. fields \in Seq(Word) /\ Len(fields) = 7 /\ DOMAIN fields = 1..7
  <2>1. \A k \in 1..7 : fields[k] \in Word
    BY DEF Fields
  <2>2. fields = [k \in 1..7 |-> fields[k]]
    BY Zenon DEF Fields
  <2>3. ASSUME NEW g, g = [k \in 1..7 |-> fields[k]]
        PROVE  g \in Seq(Word) /\ Len(g) = 7 /\ DOMAIN g = 1..7
    BY <2>1, <2>3
  <2> QED
    BY <2>2, <2>3, Zenon
<1>2. u = Front(t)
  <2>1. \A k \in 1..7 : Ended[fields[k]] = F!Symbol(fields[k]) \o <<TAB>>
    BY DEF Fields, Ended
  <2>2. [k \in 1..7 |-> F!Symbol(fields[k]) \o <<TAB>>] = [k \in 1..7 |-> Ended[fields[k]]]
    BY <2>1, Zenon
  <2>3. \A s : F!FlattenSeq(s) = FlattenSeq(s)
    BY DEF F!FlattenSeq, FlattenSeq
  <2>4. \A s : F!Front(s) = Front(s)
    BY DEF F!Front, Front
  <2> QED
    BY <1>1, <2>2, <2>3, <2>4, Zenon DEF F!TextOf, Written, Flat
<1>3. t \in Seq(Sign) /\ \E P : CutsAt(P, fields, t)
  BY <1>1, EveryTextHasCuts, Zenon DEF HasCuts
<1>4. PICK P : CutsAt(P, fields, t)
  BY <1>3, Zenon
<1> HIDE DEF t
<1>5. /\ P \in [0..7 -> Nat] /\ P[0] = 0 /\ P[7] = Len(t)
      /\ \A k \in 1..7 : P[k] \in 1..Len(t) /\ t[P[k]] = TAB
      /\ \A k \in 1..7 : fields[k] = EMPTY => P[k] = P[k - 1] + 1
      /\ \A k \in 1..7 : fields[k] # EMPTY => P[k] = P[k - 1] + 2 /\ t[P[k] - 1] = fields[k]
  BY <1>1, <1>4, Zenon DEF CutsAt
<1>6. \A k \in 1..7 : P[k] \in Nat /\ P[k - 1] \in Nat /\ P[k] > P[k - 1]
  <2> TAKE k \in 1..7
  <2>1. P[k] \in Nat /\ P[k - 1] \in Nat
    <3>1. P \in [0..7 -> Nat]
      BY <1>5, Zenon
    <3>2. k \in 0..7 /\ k - 1 \in 0..7
      OBVIOUS
    <3> QED
      BY <3>1, <3>2, Zenon
  <2>2. P[k] = P[k - 1] + 1 \/ P[k] = P[k - 1] + 2
    BY <1>5, Zenon
  <2> QED
    BY <2>1, <2>2
<1>7. \A k \in 1..6 : P[k] < P[7]
  <2>1. /\ 2 \in 1..7 /\ 3 \in 1..7 /\ 4 \in 1..7 /\ 5 \in 1..7 /\ 6 \in 1..7 /\ 7 \in 1..7
        /\ 2 - 1 = 1 /\ 3 - 1 = 2 /\ 4 - 1 = 3 /\ 5 - 1 = 4 /\ 6 - 1 = 5 /\ 7 - 1 = 6
    OBVIOUS
  <2>2. /\ P[2] > P[1] /\ P[3] > P[2] /\ P[4] > P[3] /\ P[5] > P[4] /\ P[6] > P[5] /\ P[7] > P[6]
        /\ P[1] \in Nat /\ P[2] \in Nat /\ P[3] \in Nat /\ P[4] \in Nat /\ P[5] \in Nat /\ P[6] \in Nat /\ P[7] \in Nat
    BY <1>5, <1>6, <2>1
  <2>3. P[1] < P[7] /\ P[2] < P[7] /\ P[3] < P[7] /\ P[4] < P[7] /\ P[5] < P[7] /\ P[6] < P[7]
    BY <2>2
  <2>4. \A k \in 1..6 : k = 1 \/ k = 2 \/ k = 3 \/ k = 4 \/ k = 5 \/ k = 6
    OBVIOUS
  <2> QED
    BY <2>3, <2>4, Zenon
<1>8. t # <<>> /\ Len(t) \in Nat
  <2>1. P[7] > P[6] /\ P[6] \in Nat
    BY <1>5, <1>6
  <2>2. Len(t) \in Nat
    BY <1>3, LenProperties, Zenon
  <2>3. Len(t) > 0
    BY <1>5, <2>1, <2>2
  <2> QED
    BY <2>2, <2>3, EmptySeq
<1>9. /\ u \in Seq(Sign) /\ Len(u) = Len(t) - 1
      /\ \A i \in 1..(Len(t) - 1) : u[i] = t[i]
  <2>1. u = SubSeq(t, 1, Len(t) - 1)
    BY <1>2, Zenon DEF Front
  <2>2. Len(t) - 1 \in Nat /\ \A i \in 1..(Len(t) - 1) : t[i] \in Sign
    <3>1. Len(t) # 0
      BY <1>3, <1>8, EmptySeq
    <3>2. \A i \in 1..(Len(t) - 1) : i \in 1..Len(t)
      BY <1>8
    <3>3. \A i \in 1..(Len(t) - 1) : t[i] \in Sign
      BY <1>3, <3>2, ElementOfSeq, Zenon
    <3> QED
      BY <1>8, <3>1, <3>3
  <2> DEFINE n == Len(t) - 1
             v == SubSeq(t, 1, n)
  <2>3. n \in Nat /\ 1 \in Nat /\ \A i \in 1..n : t[i] \in Sign
    BY <2>2, Zenon
  <2> HIDE DEF n
  <2>4. /\ v \in Seq(Sign) /\ Len(v) = n
        /\ \A i \in 1..n : v[i] = t[i]
    BY <2>3, SubSeqProperties
  <2> QED
    BY <2>1, <2>4, Zenon DEF n
<1> HIDE DEF u
<1>10. P[7] = Len(u) + 1
  BY <1>5, <1>8, <1>9
<1>11. \A k \in 1..6 : u[P[k]] = TAB
  <2> TAKE k \in 1..6
  <2>1. k \in 1..7
    OBVIOUS
  <2>2. P[k] \in 1..Len(t) /\ t[P[k]] = TAB /\ P[k] < P[7]
    BY <1>5, <1>7, <2>1, Zenon
  <2>3. P[k] \in 1..(Len(t) - 1)
    BY <1>5, <1>8, <2>2
  <2> QED
    BY <1>9, <2>2, <2>3, Zenon
<1>12. ASSUME NEW k \in 1..7, fields[k] # EMPTY PROVE P[k] = P[k - 1] + 2 /\ u[P[k] - 1] = fields[k]
  <2>1. P[k] = P[k - 1] + 2 /\ t[P[k] - 1] = fields[k] /\ P[k] \in 1..Len(t) /\ P[k - 1] \in Nat
    BY <1>5, <1>6, <1>12, Zenon
  <2>2. P[k] - 1 \in 1..(Len(t) - 1)
    BY <1>8, <2>1
  <2> QED
    BY <1>9, <2>1, <2>2, Zenon
<1> QED
  BY <1>5, <1>6, <1>9, <1>10, <1>11, <1>12, Zenon DEF u

(* What TextCuts gives, for a text and the places of its cuts.             *)
Placed(P, u, fields) ==
    /\ P \in [0..7 -> Nat] /\ P[0] = 0 /\ P[7] = Len(u) + 1
    /\ \A k \in 1..6 : u[P[k]] = TAB
    /\ \A k \in 1..7 :
         /\ P[k] > P[k - 1]
         /\ fields[k] = EMPTY => P[k] = P[k - 1] + 1
         /\ fields[k] # EMPTY => P[k] = P[k - 1] + 2 /\ u[P[k] - 1] = fields[k]

(* What stands at a place of that text: a tab or a field.                  *)
SignAt(P, fields, q, k) == (q = P[k] /\ k # 7) \/ (q = P[k] - 1 /\ fields[k] # EMPTY)

(* Every sign of the text is a cut or the one before it.                   *)
LEMMA EverySign ==
    ASSUME NEW u, NEW fields, NEW P, Placed(P, u, fields)
    PROVE  /\ \A q \in 1..Len(u) : \E k \in 1..7 : SignAt(P, fields, q, k)
           /\ \A k \in 0..7 : P[k] \in Nat
           /\ \A j, k \in 0..7 : j < k => P[j] < P[k]
<1>1. /\ P[0] = 0 /\ P[7] = Len(u) + 1
      /\ P[1] \in Nat /\ P[2] \in Nat /\ P[3] \in Nat /\ P[4] \in Nat /\ P[5] \in Nat /\ P[6] \in Nat /\ P[7] \in Nat
      /\ \A k \in 0..7 : P[k] \in Nat
  <2>1. P \in [0..7 -> Nat] /\ P[0] = 0 /\ P[7] = Len(u) + 1
    BY Zenon DEF Placed
  <2>2. \A k \in 0..7 : P[k] \in Nat
    BY <2>1, Zenon
  <2>3. 1 \in 0..7 /\ 2 \in 0..7 /\ 3 \in 0..7 /\ 4 \in 0..7 /\ 5 \in 0..7 /\ 6 \in 0..7 /\ 7 \in 0..7
    OBVIOUS
  <2> QED
    BY <2>1, <2>2, <2>3, Zenon
<1>2. \A k \in 1..7 : P[k] > P[k - 1] /\ (P[k] = P[k - 1] + 1 \/ (P[k] = P[k - 1] + 2 /\ fields[k] # EMPTY))
  <2> TAKE k \in 1..7
  <2>1. /\ P[k] > P[k - 1]
        /\ fields[k] = EMPTY => P[k] = P[k - 1] + 1
        /\ fields[k] # EMPTY => P[k] = P[k - 1] + 2
    BY Zenon DEF Placed
  <2> QED
    BY <2>1, Zenon
<1>3. /\ P[1] > P[0] /\ (P[1] = P[0] + 1 \/ (P[1] = P[0] + 2 /\ fields[1] # EMPTY))
      /\ P[2] > P[1] /\ (P[2] = P[1] + 1 \/ (P[2] = P[1] + 2 /\ fields[2] # EMPTY))
      /\ P[3] > P[2] /\ (P[3] = P[2] + 1 \/ (P[3] = P[2] + 2 /\ fields[3] # EMPTY))
      /\ P[4] > P[3] /\ (P[4] = P[3] + 1 \/ (P[4] = P[3] + 2 /\ fields[4] # EMPTY))
      /\ P[5] > P[4] /\ (P[5] = P[4] + 1 \/ (P[5] = P[4] + 2 /\ fields[5] # EMPTY))
      /\ P[6] > P[5] /\ (P[6] = P[5] + 1 \/ (P[6] = P[5] + 2 /\ fields[6] # EMPTY))
      /\ P[7] > P[6] /\ (P[7] = P[6] + 1 \/ (P[7] = P[6] + 2 /\ fields[7] # EMPTY))
  <2>1. /\ 1 \in 1..7 /\ 2 \in 1..7 /\ 3 \in 1..7 /\ 4 \in 1..7 /\ 5 \in 1..7 /\ 6 \in 1..7 /\ 7 \in 1..7
        /\ 1 - 1 = 0 /\ 2 - 1 = 1 /\ 3 - 1 = 2 /\ 4 - 1 = 3 /\ 5 - 1 = 4 /\ 6 - 1 = 5 /\ 7 - 1 = 6
    OBVIOUS
  <2> DEFINE R(a, b, k) == a > b /\ (a = b + 1 \/ (a = b + 2 /\ fields[k] # EMPTY))
  <2>2. \A k \in 1..7 : R(P[k], P[k - 1], k)
    BY <1>2, Zenon
  <2> HIDE DEF R
  <2>3. R(P[1], P[0], 1) /\ R(P[2], P[1], 2) /\ R(P[3], P[2], 3) /\ R(P[4], P[3], 4)
        /\ R(P[5], P[4], 5) /\ R(P[6], P[5], 6) /\ R(P[7], P[6], 7)
    BY <2>1, <2>2
  <2> QED
    BY <2>3, Zenon DEF R
<1>4. ASSUME NEW q \in 1..Len(u)
      PROVE  \E k \in 1..7 : SignAt(P, fields, q, k)
  <2>0. q > P[0] /\ q < P[7] /\ q \in Nat
    <3> DEFINE n == Len(u)
    <3>1. P[7] = n + 1 /\ q \in 1..n
      BY <1>1, Zenon
    <3> HIDE DEF n
    <3>2. n \in Int \/ n \notin Int
      OBVIOUS
    <3> QED
      BY <1>1, <3>1
  <2> DEFINE Is(k) == SignAt(P, fields, q, k)
  <2>1. Is(1) \/ Is(2) \/ Is(3) \/ Is(4) \/ Is(5) \/ Is(6) \/ Is(7)
    <3> DEFINE p1 == P[1]
               p2 == P[2]
               p3 == P[3]
               p4 == P[4]
               p5 == P[5]
               p6 == P[6]
               p7 == P[7]
               e(k) == fields[k] # EMPTY
    <3>1. /\ p1 \in Nat /\ p2 \in Nat /\ p3 \in Nat /\ p4 \in Nat /\ p5 \in Nat /\ p6 \in Nat /\ p7 \in Nat
          /\ q \in Nat /\ q > 0 /\ q < p7
          /\ (p1 = 1 \/ (p1 = 2 /\ e(1)))
          /\ (p2 = p1 + 1 \/ (p2 = p1 + 2 /\ e(2)))
          /\ (p3 = p2 + 1 \/ (p3 = p2 + 2 /\ e(3)))
          /\ (p4 = p3 + 1 \/ (p4 = p3 + 2 /\ e(4)))
          /\ (p5 = p4 + 1 \/ (p5 = p4 + 2 /\ e(5)))
          /\ (p6 = p5 + 1 \/ (p6 = p5 + 2 /\ e(6)))
          /\ (p7 = p6 + 1 \/ (p7 = p6 + 2 /\ e(7)))
      BY <1>1, <1>3, <2>0
    <3> HIDE DEF p1, p2, p3, p4, p5, p6, p7, e
    <3>2. \/ q = p1 \/ (q = p1 - 1 /\ e(1))
          \/ q = p2 \/ (q = p2 - 1 /\ e(2))
          \/ q = p3 \/ (q = p3 - 1 /\ e(3))
          \/ q = p4 \/ (q = p4 - 1 /\ e(4))
          \/ q = p5 \/ (q = p5 - 1 /\ e(5))
          \/ q = p6 \/ (q = p6 - 1 /\ e(6))
          \/ (q = p7 - 1 /\ e(7))
      BY <3>1
    <3>3. 1 # 7 /\ 2 # 7 /\ 3 # 7 /\ 4 # 7 /\ 5 # 7 /\ 6 # 7
      OBVIOUS
    <3> QED
      BY <3>2, <3>3, Zenon DEF SignAt, p1, p2, p3, p4, p5, p6, p7, e
  <2> HIDE DEF Is
  <2>2. 1 \in 1..7 /\ 2 \in 1..7 /\ 3 \in 1..7 /\ 4 \in 1..7 /\ 5 \in 1..7 /\ 6 \in 1..7 /\ 7 \in 1..7
    OBVIOUS
  <2>3. \E k \in 1..7 : Is(k)
    BY <2>1, <2>2, Zenon
  <2> QED
    BY <2>3, Zenon DEF Is
<1>5. \A j, k \in 0..7 : j < k => P[j] < P[k]
  <2> DEFINE p1 == P[1]
             p2 == P[2]
             p3 == P[3]
             p4 == P[4]
             p5 == P[5]
             p6 == P[6]
             p7 == P[7]
  <2>1. /\ p1 \in Nat /\ p2 \in Nat /\ p3 \in Nat /\ p4 \in Nat /\ p5 \in Nat /\ p6 \in Nat /\ p7 \in Nat
        /\ 0 < p1 /\ p1 < p2 /\ p2 < p3 /\ p3 < p4 /\ p4 < p5 /\ p5 < p6 /\ p6 < p7
    BY <1>1, <1>3
  <2> HIDE DEF p1, p2, p3, p4, p5, p6, p7
  <2>2. /\ 0 < p2 /\ 0 < p3 /\ 0 < p4 /\ 0 < p5 /\ 0 < p6 /\ 0 < p7
        /\ p1 < p3 /\ p1 < p4 /\ p1 < p5 /\ p1 < p6 /\ p1 < p7
        /\ p2 < p4 /\ p2 < p5 /\ p2 < p6 /\ p2 < p7 /\ p3 < p5 /\ p3 < p6 /\ p3 < p7
        /\ p4 < p6 /\ p4 < p7 /\ p5 < p7
    BY <2>1
  <2>3. \A k \in 0..7 : k = 0 \/ k = 1 \/ k = 2 \/ k = 3 \/ k = 4 \/ k = 5 \/ k = 6 \/ k = 7
    OBVIOUS
  <2>4. ASSUME NEW j \in 0..7, NEW k \in 0..7, j < k PROVE P[j] < P[k]
    <3>1. CASE j = 0
      BY <1>1, <2>1, <2>2, <2>3, <2>4, <3>1 DEF p1, p2, p3, p4, p5, p6, p7
    <3>2. CASE j = 1
      BY <1>1, <2>1, <2>2, <2>3, <2>4, <3>2, SMTT(20) DEF p1, p2, p3, p4, p5, p6, p7
    <3>3. CASE j = 2
      BY <1>1, <2>1, <2>2, <2>3, <2>4, <3>3, SMTT(20) DEF p1, p2, p3, p4, p5, p6, p7
    <3>4. CASE j = 3
      BY <1>1, <2>1, <2>2, <2>3, <2>4, <3>4, SMTT(20) DEF p1, p2, p3, p4, p5, p6, p7
    <3>5. CASE j = 4
      BY <1>1, <2>1, <2>2, <2>3, <2>4, <3>5, SMTT(20) DEF p1, p2, p3, p4, p5, p6, p7
    <3>6. CASE j = 5
      BY <1>1, <2>1, <2>2, <2>3, <2>4, <3>6, SMTT(20) DEF p1, p2, p3, p4, p5, p6, p7
    <3>7. CASE j = 6
      BY <1>1, <2>1, <2>2, <2>3, <2>4, <3>7, SMTT(20) DEF p1, p2, p3, p4, p5, p6, p7
    <3>8. j # 7
      BY <2>4
    <3> QED
      BY <2>3, <3>1, <3>2, <3>3, <3>4, <3>5, <3>6, <3>7, <3>8, Zenon
  <2> QED
    BY <2>4, Zenon
<1>6. \A k \in 0..7 : P[k] \in Nat
  BY <1>1, Zenon
<1>7. \A q \in 1..Len(u) : \E k \in 1..7 : SignAt(P, fields, q, k)
  BY <1>4
<1> QED
  BY <1>5, <1>6, <1>7, Zenon

(* Counting is the same in both modules.                                   *)
LEMMA FinderCounts == \A S : F!Cardinality(S) = Cardinality(S)
BY Zenon DEF F!Cardinality, Cardinality

(* The tabs of the text, up to the k-th, are k.                            *)
TabsTo(u, p) == {q \in F!Tabs(u) : q <= p}

(* Its tabs are the first six ends.                                        *)
LEMMA TabsAre ==
    ASSUME NEW fields \in Fields, F!FinderConstants,
           NEW u \in Seq(Sign), NEW P, Placed(P, u, fields)
    PROVE  /\ \A q : q \in F!Tabs(u) <=> \E k \in 1..6 : q = P[k]
           /\ \A k \in 0..6 : Cardinality(TabsTo(u, P[k])) = k
           /\ Cardinality(F!Tabs(u)) = 6
<1>1. /\ \A q \in 1..Len(u) : \E k \in 1..7 : SignAt(P, fields, q, k)
      /\ \A k \in 0..7 : P[k] \in Nat
      /\ \A j, k \in 0..7 : j < k => P[j] < P[k]
  BY EverySign, Zenon
<1>2. Len(u) \in Nat /\ DOMAIN u = 1..Len(u)
  BY LenProperties, Zenon
<1>3. /\ P[0] = 0 /\ P[7] = Len(u) + 1
      /\ \A k \in 1..6 : u[P[k]] = TAB
      /\ \A k \in 1..7 : fields[k] # EMPTY => u[P[k] - 1] = fields[k]
  BY Zenon DEF Placed
<1>4. \A q : q \in F!Tabs(u) <=> q \in 1..Len(u) /\ u[q] = TAB
  BY <1>2, Zenon DEF F!Tabs
<1>5. ASSUME NEW q \in F!Tabs(u) PROVE \E k \in 1..6 : q = P[k]
  <2>1. q \in 1..Len(u) /\ u[q] = TAB
    BY <1>4, Zenon
  <2>2. PICK k \in 1..7 : SignAt(P, fields, q, k)
    BY <1>1, <2>1, Zenon
  <2>3. CASE q = P[k] /\ k # 7
    <3>1. k \in 1..6
      BY <2>3
    <3> QED
      BY <2>3, <3>1, Zenon
  <2>4. CASE q = P[k] - 1 /\ fields[k] # EMPTY
    <3>1. u[q] = fields[k]
      BY <1>3, <2>4, Zenon
    <3>2. fields[k] \in Word
      BY DEF Fields
    <3>3. TAB \notin Word
      BY Zenon DEF F!FinderConstants
    <3> QED
      BY <2>1, <3>1, <3>2, <3>3, Zenon
  <2> QED
    BY <2>2, <2>3, <2>4, Zenon DEF SignAt
<1>6. ASSUME NEW k \in 1..6 PROVE P[k] \in F!Tabs(u)
  <2>1. 0 \in 0..7 /\ 7 \in 0..7 /\ k \in 0..7 /\ 0 < k /\ k < 7
    OBVIOUS
  <2>2. P[0] < P[k] /\ P[k] < P[7] /\ P[k] \in Nat
    BY <1>1, <2>1, Zenon
  <2>3. P[k] \in 1..Len(u)
    BY <1>2, <1>3, <2>2, SMTT(20)
  <2> QED
    BY <1>3, <1>4, <2>3, Zenon
<1>7. \A q : q \in F!Tabs(u) <=> \E k \in 1..6 : q = P[k]
  BY <1>5, <1>6, Zenon
<1> DEFINE Up(k) == TabsTo(u, P[k])
           Good(k) == IsFiniteSet(Up(k)) /\ Cardinality(Up(k)) = k
<1>8. ASSUME NEW j \in 1..6, NEW k \in 0..6 PROVE P[j] <= P[k] <=> j <= k
  <2>1. j \in 0..7 /\ k \in 0..7 /\ (j < k \/ j = k \/ k < j)
    OBVIOUS
  <2>2. P[j] \in Nat /\ P[k] \in Nat /\ (j < k => P[j] < P[k]) /\ (k < j => P[k] < P[j]) /\ (j = k => P[j] = P[k])
    BY <1>1, <2>1, Zenon
  <2> QED
    BY <2>1, <2>2
<1>9. ASSUME NEW k \in 0..6 PROVE \A q : q \in Up(k) <=> \E j \in 1..6 : q = P[j] /\ j <= k
  <2>1. \A q : q \in Up(k) <=> q \in F!Tabs(u) /\ q <= P[k]
    BY Zenon DEF TabsTo
  <2>2. ASSUME NEW q \in Up(k) PROVE \E j \in 1..6 : q = P[j] /\ j <= k
    <3>1. PICK j \in 1..6 : q = P[j]
      BY <1>7, <2>1, Zenon
    <3>2. P[j] <= P[k]
      BY <2>1, <3>1, Zenon
    <3> QED
      BY <1>8, <3>1, <3>2, Zenon
  <2>3. ASSUME NEW j \in 1..6, j <= k PROVE P[j] \in Up(k)
    <3>1. P[j] <= P[k]
      BY <1>8, <2>3, Zenon
    <3>2. P[j] \in F!Tabs(u)
      BY <1>6, Zenon
    <3> QED
      BY <2>1, <3>1, <3>2, Zenon
  <2> HIDE DEF Up
  <2> QED
    BY <2>2, <2>3, Zenon
<1>10. Good(0)
  <2>1. Up(0) = {}
    <3>1. \A j \in 1..6 : ~(j <= 0)
      OBVIOUS
    <3>2. 0 \in 0..6
      OBVIOUS
    <3> QED
      BY <1>9, <3>1, <3>2, Zenon
  <2> HIDE DEF Up
  <2> QED
    BY <2>1, FS_EmptySet, Zenon
<1>11. ASSUME NEW k \in 1..6, Good(k - 1) PROVE Good(k)
  <2>1. k \in 0..6 /\ k - 1 \in 0..6 /\ ~(k <= k - 1) /\ k <= k
        /\ \A j \in 1..6 : j <= k <=> j <= k - 1 \/ j = k
    OBVIOUS
  <2>2. Up(k) = Up(k - 1) \cup {P[k]}
    <3>1. \A q : q \in Up(k) <=> \E j \in 1..6 : q = P[j] /\ j <= k
      BY <1>9, <2>1, Zenon
    <3>2. \A q : q \in Up(k - 1) <=> \E j \in 1..6 : q = P[j] /\ j <= k - 1
      BY <1>9, <2>1, Zenon
    <3> HIDE DEF Up
    <3> QED
      BY <2>1, <3>1, <3>2, Zenon
  <2>3. P[k] \notin Up(k - 1)
    <3>1. \A q : q \in Up(k - 1) => q <= P[k - 1]
      BY Zenon DEF TabsTo
    <3>2. ~(P[k] <= P[k - 1])
      BY <1>8, <2>1, Zenon
    <3> QED
      BY <3>1, <3>2, Zenon
  <2> HIDE DEF Up
  <2>4. IsFiniteSet(Up(k)) /\ Cardinality(Up(k)) = Cardinality(Up(k - 1)) + 1
    BY <1>11, <2>2, <2>3, FS_AddElement
  <2> QED
    BY <1>11, <2>4
<1> HIDE DEF Good
<1>12. Good(0) /\ Good(1) /\ Good(2) /\ Good(3) /\ Good(4) /\ Good(5) /\ Good(6)
  <2>1. /\ 1 \in 1..6 /\ 2 \in 1..6 /\ 3 \in 1..6 /\ 4 \in 1..6 /\ 5 \in 1..6 /\ 6 \in 1..6
        /\ 1 - 1 = 0 /\ 2 - 1 = 1 /\ 3 - 1 = 2 /\ 4 - 1 = 3 /\ 5 - 1 = 4 /\ 6 - 1 = 5
    OBVIOUS
  <2> QED
    BY <1>10, <1>11, <2>1
<1>13. \A k \in 0..6 : Cardinality(Up(k)) = k
  <2>1. \A k \in 0..6 : k = 0 \/ k = 1 \/ k = 2 \/ k = 3 \/ k = 4 \/ k = 5 \/ k = 6
    OBVIOUS
  <2> QED
    BY <1>12, <2>1, Zenon DEF Good
<1>14. F!Tabs(u) = Up(6)
  <2>1. 6 \in 0..6 /\ \A j \in 1..6 : j <= 6
    OBVIOUS
  <2>2. \A q : q \in Up(6) <=> \E j \in 1..6 : q = P[j] /\ j <= 6
    BY <1>9, <2>1, Zenon
  <2> HIDE DEF Up
  <2> QED
    BY <1>7, <2>1, <2>2, Zenon
<1>15. Cardinality(F!Tabs(u)) = 6
  <2>1. 6 \in 0..6
    OBVIOUS
  <2> HIDE DEF Up
  <2> QED
    BY <1>13, <1>14, <2>1, Zenon
<1> QED
  BY <1>7, <1>13, <1>15, Zenon

(* The cuts of strtok_r_2 are those of the text.                           *)
LEMMA CutsOf ==
    ASSUME NEW fields \in Fields, F!FinderConstants,
           NEW u \in Seq(Sign), NEW P, Placed(P, u, fields), NEW k \in 0..7
    PROVE  F!TabAt(u, k) = P[k]
<1>1. /\ \A q : q \in F!Tabs(u) <=> \E j \in 1..6 : q = P[j]
      /\ \A j \in 0..6 : Cardinality(TabsTo(u, P[j])) = j
      /\ Cardinality(F!Tabs(u)) = 6
  BY TabsAre, Zenon
<1>2. P[0] = 0 /\ P[7] = Len(u) + 1
  BY Zenon DEF Placed
<1>3. F!TabAt(u, k) = IF k = 0 THEN 0
                      ELSE IF k > 6 THEN Len(u) + 1
                      ELSE CHOOSE p \in F!Tabs(u) : F!Cardinality({q \in F!Tabs(u) : q <= p}) = k
  <2>1. F!Cardinality(F!Tabs(u)) = 6
    BY <1>1, FinderCounts, Zenon
  <2> QED
    BY <2>1, SMT DEF F!TabAt
<1>4. CASE k = 0
  BY <1>2, <1>3, <1>4, Zenon
<1>5. CASE k = 7
  <2>1. k # 0 /\ k > 6
    BY <1>5
  <2> QED
    BY <1>2, <1>3, <1>5, <2>1, Zenon
<1>6. CASE k \in 1..6
  <2>1. k # 0 /\ ~(k > 6)
    BY <1>6
  <2>2. \A p : F!Cardinality({q \in F!Tabs(u) : q <= p}) = Cardinality(TabsTo(u, p))
    BY FinderCounts, Zenon DEF TabsTo
  <2>3. \A j \in 1..6 : j \in 0..6
    OBVIOUS
  <2> DEFINE Is(p) == F!Cardinality({q \in F!Tabs(u) : q <= p}) = k
  <2>4. P[k] \in F!Tabs(u) /\ Is(P[k])
    BY <1>1, <1>6, <2>2, <2>3, Zenon
  <2>5. ASSUME NEW p \in F!Tabs(u), Is(p) PROVE p = P[k]
    <3>1. PICK j \in 1..6 : p = P[j]
      BY <1>1, Zenon
    <3>2. Cardinality(TabsTo(u, p)) = j /\ Cardinality(TabsTo(u, p)) = k
      BY <1>1, <2>2, <2>3, <2>5, <3>1, Zenon
    <3> QED
      BY <3>1, <3>2, Zenon
  <2>6. F!TabAt(u, k) = CHOOSE p \in F!Tabs(u) : Is(p)
    BY <1>3, <2>1, Zenon
  <2> HIDE DEF Is
  <2> QED
    BY <2>4, <2>5, <2>6, Zenon
<1> QED
  BY <1>4, <1>5, <1>6

(* strtok_r_2 gives the fields of the text, the last one if it is not
   empty; and none of an empty text.                                       *)
LEMMA TokensOf ==
    ASSUME NEW fields \in Fields, F!FinderConstants
    PROVE  F!strtok_r_2(F!TextOf(fields)) = Taken(fields)
<1> DEFINE u == F!TextOf(fields)
           n == IF fields[7] = EMPTY THEN 6 ELSE 7
<1>1. u \in Seq(Sign) /\ \E P : Placed(P, u, fields)
  BY TextCuts, Zenon DEF Placed
<1>2. PICK P : Placed(P, u, fields)
  BY <1>1, Zenon
<1> HIDE DEF u
<1>3. /\ \A k \in 0..7 : P[k] \in Nat
      /\ \A j, k \in 0..7 : j < k => P[j] < P[k]
  BY <1>2, EverySign, Zenon
<1>4. \A k \in 0..7 : F!TabAt(u, k) = P[k]
  BY <1>1, <1>2, CutsOf, Zenon
<1>5. /\ P[0] = 0 /\ P[7] = Len(u) + 1 /\ u[P[6]] = TAB
      /\ \A k \in 1..7 : fields[k] = EMPTY => P[k] = P[k - 1] + 1
      /\ \A k \in 1..7 : fields[k] # EMPTY => P[k] = P[k - 1] + 2 /\ u[P[k] - 1] = fields[k]
  <2>1. 6 \in 1..6
    OBVIOUS
  <2> QED
    BY <1>2, <2>1, Zenon DEF Placed
<1>6. ASSUME NEW k \in 1..7 PROVE F!Field(u, k) = fields[k]
  <2>1. k \in 0..7 /\ k - 1 \in 0..7
    OBVIOUS
  <2>2. F!Field(u, k) = IF P[k] = P[k - 1] + 1 THEN EMPTY ELSE u[P[k] - 1]
    BY <1>4, <2>1, Zenon DEF F!Field
  <2>3. CASE fields[k] = EMPTY
    BY <1>5, <2>2, <2>3, Zenon
  <2>4. CASE fields[k] # EMPTY
    <3>1. P[k] = P[k - 1] + 2 /\ u[P[k] - 1] = fields[k]
      BY <1>5, <2>4, Zenon
    <3>2. P[k] # P[k - 1] + 1
      BY <1>3, <2>1, <3>1
    <3> QED
      BY <2>2, <3>1, <3>2, Zenon
  <2> QED
    BY <2>3, <2>4, Zenon
<1>7. Len(u) \in Nat /\ u # <<>>
  <2>1. 0 \in 0..7 /\ 6 \in 0..7 /\ 7 \in 0..7 /\ 0 < 6 /\ 6 < 7
    OBVIOUS
  <2>2. P[0] < P[6] /\ P[6] < P[7] /\ P[6] \in Nat
    BY <1>3, <2>1, Zenon
  <2>3. Len(u) \in Nat
    BY <1>1, LenProperties, Zenon
  <2>4. Len(u) > 0
    BY <1>5, <2>2, <2>3
  <2> QED
    BY <2>3, <2>4, EmptySeq
<1>8. F!Last(u) = TAB <=> fields[7] = EMPTY
  <2>1. F!Last(u) = u[Len(u)]
    BY Zenon DEF F!Last
  <2>2. 7 \in 1..7 /\ 7 - 1 = 6 /\ 6 \in 0..7
    OBVIOUS
  <2>3. CASE fields[7] = EMPTY
    <3>1. P[7] = P[6] + 1
      BY <1>5, <2>2, <2>3
    <3>2. Len(u) = P[6]
      BY <1>3, <1>5, <1>7, <2>2, <3>1
    <3> QED
      BY <1>5, <2>1, <2>3, <3>2, Zenon
  <2>4. CASE fields[7] # EMPTY
    <3>1. u[P[7] - 1] = fields[7]
      BY <1>5, <2>2, <2>4, Zenon
    <3>2. Len(u) = P[7] - 1
      BY <1>5, <1>7
    <3>3. fields[7] \in Word /\ TAB \notin Word
      BY DEF Fields, F!FinderConstants
    <3> QED
      BY <2>1, <2>4, <3>1, <3>2, <3>3, Zenon
  <2> QED
    BY <2>3, <2>4, Zenon
<1>9. F!Cardinality(F!Tabs(u)) = 6
  BY <1>1, <1>2, TabsAre, FinderCounts, Zenon
<1>10. F!strtok_r_2(u) = [k \in 1..n |-> F!Field(u, k)]
  <2>1. F!strtok_r_2(u) = [k \in 1..(6 + (IF u = <<>> \/ F!Last(u) = TAB THEN 0 ELSE 1)) |-> F!Field(u, k)]
    BY <1>9, SMT DEF F!strtok_r_2
  <2>2. 6 + (IF u = <<>> \/ F!Last(u) = TAB THEN 0 ELSE 1) = n
    <3>1. CASE fields[7] = EMPTY
      BY <1>7, <1>8, <3>1
    <3>2. CASE fields[7] # EMPTY
      BY <1>7, <1>8, <3>2
    <3> QED
      BY <3>1, <3>2, Zenon
  <2> HIDE DEF n
  <2> QED
    BY <2>1, <2>2, Zenon
<1>11. \A k \in 1..n : F!Field(u, k) = fields[k]
  <2>1. \A k \in 1..n : k \in 1..7
    OBVIOUS
  <2> QED
    BY <1>6, <2>1, Zenon
<1>12. [k \in 1..n |-> F!Field(u, k)] = [k \in 1..n |-> fields[k]]
  <2> HIDE DEF n
  <2> QED
    BY <1>11, Zenon
<1> QED
  BY <1>10, <1>12, Zenon DEF u, Taken

(* An empty text has none.                                                 *)
LEMMA NoTokens == F!strtok_r_2(<<>>) = <<>>
<1>1. F!Tabs(<<>>) = {}
  <2>1. DOMAIN <<>> = {}
    OBVIOUS
  <2> QED
    BY <2>1, Zenon DEF F!Tabs
<1>2. F!Cardinality(F!Tabs(<<>>)) = 0
  BY <1>1, FinderCounts, FS_EmptySet, Zenon
<1>3. F!strtok_r_2(<<>>) = [k \in 1..(0 + 0) |-> F!Field(<<>>, k)]
  BY <1>2, SMT DEF F!strtok_r_2
<1>4. [k \in 1..(0 + 0) |-> F!Field(<<>>, k)] = <<>>
  OBVIOUS
<1> QED
  BY <1>3, <1>4, Zenon

(* The words of a text: what is written of it, one word more at a time.    *)
Sounded == [x \in Word \cup {JUNK} |-> IF x \in {EMPTY, JUNK} THEN <<>> ELSE <<x>>]

(* One text more is heard behind the others, unless it is empty or junk.   *)
LEMMA WordsSnoc ==
    ASSUME NEW s \in Seq(Word \cup {JUNK}), NEW x \in Word \cup {JUNK}
    PROVE  /\ F!Words(s) \in Seq(Word \cup {JUNK})
           /\ F!Words(Append(s, x)) = F!Words(s) \o Sounded[x]
<1> DEFINE W == Word \cup {JUNK}
<1>1. Makes(Sounded, W, W)
  <2>1. \A y \in W : (IF y \in {EMPTY, JUNK} THEN <<>> ELSE <<y>>) \in Seq(W)
    <3> TAKE y \in W
    <3>1. <<>> \in Seq(W) /\ <<y>> \in Seq(W)
      OBVIOUS
    <3> QED
      BY <3>1, Zenon
  <2> HIDE DEF W
  <2> QED
    BY <2>1 DEF Makes, Sounded, W
<1> HIDE DEF W
<1>2. s \in Seq(W) /\ x \in W
  BY Zenon DEF W
<1>3. \A r \in Seq(W) : F!Words(r) = Flat(Sounded, r)
  <2> TAKE r \in Seq(W)
  <2>1. \A k \in 1..Len(r) : r[k] \in W
    BY ElementOfSeq, Zenon
  <2>2. \A k \in 1..Len(r) : Sounded[r[k]] = IF r[k] \in {EMPTY, JUNK} THEN <<>> ELSE <<r[k]>>
    BY <2>1 DEF Sounded, W
  <2>3. [k \in 1..Len(r) |-> IF r[k] \in {EMPTY, JUNK} THEN <<>> ELSE <<r[k]>>] = [k \in 1..Len(r) |-> Sounded[r[k]]]
    BY <2>2, Zenon
  <2>4. \A t : F!FlattenSeq(t) = FlattenSeq(t)
    BY DEF F!FlattenSeq, FlattenSeq
  <2> QED
    BY <2>3, <2>4, Zenon DEF F!Words, Flat
<1>4. Flat(Sounded, s) \in Seq(W) /\ Flat(Sounded, Append(s, x)) = Flat(Sounded, s) \o Sounded[x]
  BY <1>1, <1>2, FlatSnoc
<1>5. Append(s, x) \in Seq(W)
  BY <1>2, AppendProperties, Zenon
<1> QED
  BY <1>2, <1>3, <1>4, <1>5, Zenon DEF W

(* What GetISPInfo and GetLatLngInfo may give.                             *)
Said == Word \cup {JUNK}

(* Nothing says nothing.                                                   *)
LEMMA WordsNone == F!Words(<<>>) = <<>>
<1>1. Len(<<>>) = 0
  BY EmptySeq
<1>2. [k \in 1..0 |-> IF <<>>[k] \in {EMPTY, JUNK} THEN <<>> ELSE <<<<>>[k]>>] = <<>>
  OBVIOUS
<1>3. \A s : F!FlattenSeq(s) = FlattenSeq(s)
  BY DEF F!FlattenSeq, FlattenSeq
<1> QED
  BY <1>1, <1>2, <1>3, FlattenNone, Zenon DEF F!Words

(* One more text says what it sounds like.                                 *)
LEMMA WordsMore ==
    ASSUME F!FinderConstants, NEW s \in Seq(Said), NEW x \in Said
    PROVE  /\ F!Words(s) \in Seq(Said) /\ Sounded[x] \in Seq(Said)
           /\ F!Words(Append(s, x)) = F!Words(s) \o Sounded[x]
           /\ x \in {EMPTY, JUNK} => Sounded[x] = <<>> /\ F!Words(Append(s, x)) = F!Words(s)
           /\ x \notin {EMPTY, JUNK} => Sounded[x] = <<x>>
<1>1. F!Words(s) \in Seq(Said) /\ F!Words(Append(s, x)) = F!Words(s) \o Sounded[x]
  BY WordsSnoc, Zenon DEF Said
<1>2. Sounded[x] = IF x \in {EMPTY, JUNK} THEN <<>> ELSE <<x>>
  BY DEF Sounded, Said
<1>3. <<>> \in Seq(Said) /\ <<x>> \in Seq(Said)
  OBVIOUS
<1>4. F!Words(s) \o <<>> = F!Words(s)
  BY <1>1, ConcatEmptySeq, Zenon
<1> QED
  BY <1>1, <1>2, <1>3, <1>4, Zenon

(* What is said of two texts is said of the one and then of the other.     *)
LEMMA WordsConcat ==
    ASSUME F!FinderConstants, NEW p \in Seq(Said), NEW q \in Seq(Said)
    PROVE  F!Words(p \o q) = F!Words(p) \o F!Words(q)
<1> DEFINE G == {s \in Seq(Said) : F!Words(p \o s) = F!Words(p) \o F!Words(s)}
<1>0. F!Words(p) \in Seq(Said)
  <2>1. JUNK \in Said
    BY DEF Said
  <2> QED
    BY <2>1, WordsMore, Zenon
<1>1. <<>> \in G
  <2>1. p \o <<>> = p /\ F!Words(p) \o <<>> = F!Words(p)
    BY <1>0, ConcatEmptySeq, Zenon
  <2>2. <<>> \in Seq(Said)
    BY EmptySeq, Zenon
  <2> QED
    BY <2>1, <2>2, WordsNone, Zenon
<1>2. ASSUME NEW s \in Seq(Said), NEW e \in Said, s \in G PROVE Append(s, e) \in G
  <2>1. p \o Append(s, e) = Append(p \o s, e)
    <3>1. p \o s \in Seq(Said) /\ <<e>> \in Seq(Said)
      BY ConcatProperties
    <3>2. Append(s, e) = s \o <<e>> /\ Append(p \o s, e) = (p \o s) \o <<e>>
      BY <3>1, AppendIsConcat, Zenon
    <3>3. (p \o s) \o <<e>> = p \o (s \o <<e>>)
      BY <3>1, ConcatAssociative
    <3> QED
      BY <3>2, <3>3, Zenon
  <2>2. p \o s \in Seq(Said) /\ Append(s, e) \in Seq(Said)
    BY ConcatProperties, AppendProperties
  <2>3. F!Words(Append(p \o s, e)) = F!Words(p \o s) \o Sounded[e]
    BY <2>2, WordsMore, Zenon
  <2>4. F!Words(Append(s, e)) = F!Words(s) \o Sounded[e] /\ F!Words(s) \in Seq(Said) /\ Sounded[e] \in Seq(Said)
    BY WordsMore, Zenon
  <2>5. F!Words(p \o s) = F!Words(p) \o F!Words(s)
    BY <1>2, Zenon
  <2>6. (F!Words(p) \o F!Words(s)) \o Sounded[e] = F!Words(p) \o (F!Words(s) \o Sounded[e])
    <3> DEFINE a == F!Words(p)
               b == F!Words(s)
               c == Sounded[e]
    <3>1. a \in Seq(Said) /\ b \in Seq(Said) /\ c \in Seq(Said)
      BY <1>0, <2>4, Zenon
    <3> HIDE DEF a, b, c
    <3>2. (a \o b) \o c = a \o (b \o c)
      BY <3>1, ConcatAssociative, SMTT(30)
    <3> QED
      BY <3>2 DEF a, b, c
  <2>7. F!Words(p \o Append(s, e)) = F!Words(p) \o F!Words(Append(s, e))
    BY <2>1, <2>3, <2>4, <2>5, <2>6, Zenon
  <2> QED
    BY <2>2, <2>7, Zenon
<1>3. Seq(Said) \subseteq G
  <2> HIDE DEF G
  <2> QED
    BY <1>1, <1>2, BySnoc, Zenon
<1> QED
  BY <1>3, Zenon

(* It is not shortened again.                                              *)
LEMMA WordsTwice ==
    ASSUME F!FinderConstants, NEW p \in Seq(Said)
    PROVE  F!Words(F!Words(p)) = F!Words(p)
<1> DEFINE G == {s \in Seq(Said) : F!Words(F!Words(s)) = F!Words(s)}
<1>1. <<>> \in G
  <2>2. <<>> \in Seq(Said)
    BY EmptySeq, Zenon
  <2> QED
    BY <2>2, WordsNone, Zenon
<1>2. ASSUME NEW s \in Seq(Said), NEW e \in Said, s \in G PROVE Append(s, e) \in G
  <2>1. Append(s, e) \in Seq(Said)
    BY AppendProperties, Zenon
  <2>2. F!Words(s) \in Seq(Said) /\ F!Words(F!Words(s)) = F!Words(s)
    BY <1>2, WordsMore, Zenon
  <2>3. CASE e \in {EMPTY, JUNK}
    <3>1. F!Words(Append(s, e)) = F!Words(s)
      BY <2>3, WordsMore, Zenon
    <3> QED
      BY <2>1, <2>2, <3>1, Zenon
  <2>4. CASE e \notin {EMPTY, JUNK}
    <3>1. Sounded[e] = <<e>> /\ F!Words(Append(s, e)) = F!Words(s) \o <<e>>
      BY <2>4, WordsMore, Zenon
    <3>2. F!Words(s) \o <<e>> = Append(F!Words(s), e)
      BY <2>2, AppendIsConcat, Zenon
    <3>3. F!Words(Append(F!Words(s), e)) = F!Words(F!Words(s)) \o <<e>>
      <4>1. \A w \in Seq(Said) : F!Words(Append(w, e)) = F!Words(w) \o Sounded[e]
        BY WordsMore, Zenon
      <4> QED
        BY <2>2, <3>1, <4>1, Zenon
    <3> QED
      BY <2>1, <2>2, <3>1, <3>2, <3>3, Zenon
  <2> QED
    BY <2>3, <2>4, Zenon
<1>3. Seq(Said) \subseteq G
  <2> HIDE DEF G
  <2> QED
    BY <1>1, <1>2, BySnoc, Zenon
<1> QED
  BY <1>3, Zenon

(* The words of a text that is given by its places, one place after the
   other.                                                                  *)
FirstOf(g, n) == [k \in 1..n |-> g[k]]

(* The same, place by place.                                               *)
LEMMA WordsByPlace ==
    ASSUME F!FinderConstants, NEW m \in Nat, NEW g \in [1..m -> Said], NEW n \in 1..m
    PROVE  /\ FirstOf(g, n) \in Seq(Said) /\ FirstOf(g, n - 1) \in Seq(Said)
           /\ F!Words(FirstOf(g, n)) = F!Words(FirstOf(g, n - 1)) \o Sounded[g[n]]
<1> DEFINE s == FirstOf(g, n - 1)
           t == FirstOf(g, n)
<1>1. /\ n \in Nat /\ n - 1 \in Nat /\ (n - 1) + 1 = n /\ g[n] \in Said
      /\ \A k \in 1..n : g[k] \in Said
      /\ \A k \in 1..(n - 1) : g[k] \in Said /\ k \in 1..n
  OBVIOUS
<1>2. t \in Seq(Said) /\ Len(t) = n /\ \A k \in 1..n : t[k] = g[k]
  BY <1>1 DEF FirstOf
<1>3. s \in Seq(Said) /\ Len(s) = n - 1 /\ \A k \in 1..(n - 1) : s[k] = g[k]
  BY <1>1 DEF FirstOf
<1> HIDE DEF s, t
<1>4. t = Append(s, g[n])
  <2> DEFINE r == Append(s, g[n])
  <2>1. /\ r \in Seq(Said) /\ Len(r) = Len(s) + 1
        /\ \A k \in 1..Len(s) : r[k] = s[k]
        /\ r[Len(s) + 1] = g[n]
    <3>1. s \in Seq(Said) /\ g[n] \in Said /\ Len(s) \in Nat
      BY <1>1, <1>3
    <3> QED
      BY <3>1, AppendProperties
  <2> HIDE DEF r
  <2>2. ASSUME NEW k \in 1..n PROVE t[k] = r[k]
    <3>1. k \in 1..(n - 1) \/ k = n
      BY <1>1
    <3>2. CASE k \in 1..(n - 1)
      BY <1>2, <1>3, <2>1, <3>2, Zenon
    <3>3. CASE k = n
      BY <1>1, <1>2, <1>3, <2>1, <3>3, Zenon
    <3> QED
      BY <3>1, <3>2, <3>3, Zenon
  <2>3. Len(r) = Len(t)
    BY <1>1, <1>2, <1>3, <2>1
  <2>4. t = r
    BY <1>2, <2>1, <2>2, <2>3, SeqEqual
  <2> QED
    BY <2>4, Zenon DEF r
<1>5. F!Words(t) = F!Words(s) \o Sounded[g[n]]
  BY <1>1, <1>3, <1>4, WordsMore, Zenon
<1> QED
  BY <1>2, <1>3, <1>5, Zenon DEF s, t

(* Some of the seven fields, as InfoIsOfRange counts them.                 *)
Only(fields, set) == [x \in 1..7 |-> IF x \in set THEN fields[x] ELSE EMPTY]
(* What the first n of the fields of a set say.                            *)
Upto(fields, set, n) == F!Words(FirstOf(Only(fields, set), n))

(* A field of the set adds its word, another nothing.                      *)
LEMMA OnlyStep ==
    ASSUME F!FinderConstants, NEW fields \in Fields, NEW set, NEW n \in 1..7
    PROVE  /\ Upto(fields, set, n) \in Seq(Said) /\ Upto(fields, set, n - 1) \in Seq(Said)
           /\ Sounded[fields[n]] \in Seq(Said)
           /\ n \in set => Upto(fields, set, n) = Upto(fields, set, n - 1) \o Sounded[fields[n]]
           /\ n \notin set => Upto(fields, set, n) = Upto(fields, set, n - 1)
<1> DEFINE g == Only(fields, set)
<1>1. \A k \in 1..7 : fields[k] \in Said
  BY DEF Fields, Said
<1>2. EMPTY \in Said
  BY DEF F!FinderConstants, Said
<1>3. g \in [1..7 -> Said] /\ g[n] = IF n \in set THEN fields[n] ELSE EMPTY
  BY <1>1, <1>2 DEF Only
<1> HIDE DEF g
<1>4. /\ FirstOf(g, n) \in Seq(Said) /\ FirstOf(g, n - 1) \in Seq(Said)
      /\ F!Words(FirstOf(g, n)) = F!Words(FirstOf(g, n - 1)) \o Sounded[g[n]]
  <2>1. 7 \in Nat
    OBVIOUS
  <2> QED
    BY <1>3, <2>1, WordsByPlace
<1>5. F!Words(FirstOf(g, n)) \in Seq(Said) /\ F!Words(FirstOf(g, n - 1)) \in Seq(Said)
  BY <1>2, <1>4, WordsMore, Zenon
<1>6. Sounded[EMPTY] = <<>> /\ Sounded[fields[n]] \in Seq(Said)
  <2>1. <<>> \in Seq(Said)
    BY EmptySeq, Zenon
  <2>2. EMPTY \in {EMPTY, JUNK}
    OBVIOUS
  <2> QED
    BY <1>1, <1>2, <2>1, <2>2, WordsMore, Zenon
<1>7. F!Words(FirstOf(g, n - 1)) \o <<>> = F!Words(FirstOf(g, n - 1))
  BY <1>5, ConcatEmptySeq, Zenon
<1> QED
  BY <1>3, <1>4, <1>5, <1>6, <1>7, Zenon DEF Upto, g

(* None says nothing.                                                      *)
LEMMA OnlyNone == ASSUME NEW fields, NEW set PROVE Upto(fields, set, 0) = <<>>
<1>1. FirstOf(Only(fields, set), 0) = <<>>
  BY DEF FirstOf
<1> QED
  BY <1>1, WordsNone, Zenon DEF Upto

(* All of them are the seven.                                              *)
LEMMA OnlyAll ==
    ASSUME NEW fields \in Fields, NEW set
    PROVE  FirstOf(Only(fields, set), 7) = Only(fields, set)
BY DEF FirstOf, Only

(* The numbers of the fields.                                              *)
LEMMA Numbers ==
    /\ 1 \in 1..7 /\ 2 \in 1..7 /\ 3 \in 1..7 /\ 4 \in 1..7 /\ 5 \in 1..7 /\ 6 \in 1..7 /\ 7 \in 1..7
    /\ 1 - 1 = 0 /\ 2 - 1 = 1 /\ 3 - 1 = 2 /\ 4 - 1 = 3 /\ 5 - 1 = 4 /\ 6 - 1 = 5 /\ 7 - 1 = 6
OBVIOUS

(* The fields GetISPInfo puts behind the country.                          *)
Without == {2, 4, 5}

(* The first of the words, and then the others.                            *)
LEMMA ToldIs ==
    ASSUME F!FinderConstants, NEW fields \in Fields
    PROVE  LET tokens == Taken(fields)
               told == <<tokens[1]>> \o
                         F!Words([k \in 1..Len(tokens) |-> IF k \in {2, 4, 5} THEN tokens[k] ELSE EMPTY])
           IN  tokens # <<>> /\ F!Words(told) = F!Words(Only(fields, {1, 2, 4, 5}))
<1> DEFINE tokens == Taken(fields)
           n == IF fields[7] = EMPTY THEN 6 ELSE 7
           a(k) == Upto(fields, Without, k)
           b(k) == Upto(fields, {1, 2, 4, 5}, k)
           c(k) == Sounded[fields[k]]
<1>1. n \in {6, 7} /\ Len(tokens) = n /\ tokens # <<>> /\ \A k \in 1..n : tokens[k] = fields[k]
  <2>1. n \in {6, 7}
    OBVIOUS
  <2>2. tokens = [k \in 1..n |-> fields[k]]
    BY Zenon DEF Taken
  <2> HIDE DEF n, tokens
  <2>3. CASE n = 6
    BY <2>2, <2>3
  <2>4. CASE n = 7
    BY <2>2, <2>4
  <2> QED
    BY <2>1, <2>3, <2>4
<1> HIDE DEF n
<1>2. \A k \in 1..7 : fields[k] \in Said
  BY DEF Fields, Said
<1>3. [k \in 1..Len(tokens) |-> IF k \in {2, 4, 5} THEN tokens[k] ELSE EMPTY] = FirstOf(Only(fields, Without), n)
  <2>1. \A k \in 1..n : k \in 1..7
    BY <1>1
  <2> HIDE DEF tokens
  <2>2. \A k \in 1..n : (IF k \in {2, 4, 5} THEN tokens[k] ELSE EMPTY) = Only(fields, Without)[k]
    BY <1>1, <2>1 DEF Only, Without
  <2> QED
    BY <1>1, <2>2, Zenon DEF FirstOf
<1>4. tokens[1] = fields[1]
  <2>1. 1 \in 1..n
    BY <1>1
  <2> HIDE DEF tokens
  <2> QED
    BY <1>1, <2>1, Zenon
<1>5. /\ \A k \in 1..7 : a(k) \in Seq(Said) /\ b(k) \in Seq(Said) /\ c(k) \in Seq(Said)
      /\ a(0) = <<>> /\ b(0) = <<>>
  BY OnlyStep, OnlyNone, Zenon
<1>6. /\ a(1) = <<>> /\ a(2) = a(1) \o c(2) /\ a(3) = a(2) /\ a(4) = a(3) \o c(4) /\ a(5) = a(4) \o c(5)
      /\ a(6) = a(5) /\ a(7) = a(6)
  <2>1. /\ 1 \notin Without /\ 2 \in Without /\ 3 \notin Without /\ 4 \in Without /\ 5 \in Without
        /\ 6 \notin Without /\ 7 \notin Without
    BY DEF Without
  <2>2. \A k \in 1..7 : /\ k \in Without => a(k) = a(k - 1) \o c(k)
                        /\ k \notin Without => a(k) = a(k - 1)
    BY OnlyStep, Zenon
  <2> HIDE DEF a, c
  <2> QED
    BY <1>5, <2>1, <2>2, Numbers
<1>7. /\ b(1) = <<>> \o c(1) /\ b(2) = b(1) \o c(2) /\ b(3) = b(2) /\ b(4) = b(3) \o c(4) /\ b(5) = b(4) \o c(5)
      /\ b(6) = b(5) /\ b(7) = b(6)
  <2> DEFINE B == {1, 2, 4, 5}
  <2>1. /\ 1 \in B /\ 2 \in B /\ 3 \notin B /\ 4 \in B /\ 5 \in B
        /\ 6 \notin B /\ 7 \notin B
    OBVIOUS
  <2>2. \A k \in 1..7 : /\ k \in B => b(k) = b(k - 1) \o c(k)
                        /\ k \notin B => b(k) = b(k - 1)
    BY OnlyStep, Zenon
  <2>3. b(0) = <<>>
    BY <1>5
  <2> HIDE DEF b, c, B
  <2> QED
    BY <2>1, <2>2, <2>3, Numbers
<1>8. b(7) = c(1) \o a(7)
  <2> DEFINE S1 == c(1)
             S2 == c(2)
             S4 == c(4)
             S5 == c(5)
  <2>1. S1 \in Seq(Said) /\ S2 \in Seq(Said) /\ S4 \in Seq(Said) /\ S5 \in Seq(Said)
    BY <1>5, Numbers
  <2>2. a(7) = ((<<>> \o S2) \o S4) \o S5
    BY <1>6
  <2>3. b(7) = (((<<>> \o S1) \o S2) \o S4) \o S5
    BY <1>7
  <2> HIDE DEF S1, S2, S4, S5
  <2>4. <<>> \o S1 = S1 /\ <<>> \o S2 = S2
    BY <2>1, ConcatEmptySeq
  <2>5. S1 \o S2 \in Seq(Said) /\ S2 \o S4 \in Seq(Said)
    BY <2>1, ConcatProperties
  <2>6. (S1 \o S2) \o S4 = S1 \o (S2 \o S4)
    BY <2>1, ConcatAssociative
  <2> DEFINE X == S2 \o S4
  <2>7. (S1 \o X) \o S5 = S1 \o (X \o S5)
    <3>1. X \in Seq(Said)
      BY <2>5
    <3> HIDE DEF X
    <3> QED
      BY <2>1, <3>1, ConcatAssociative, SMTT(30)
  <2> QED
    BY <2>2, <2>3, <2>4, <2>6, <2>7 DEF S1
<1>9. a(n) = a(7) /\ a(7) \in Seq(Said)
  <2>1. CASE n = 6
    BY <1>5, <1>6, <2>1, Numbers
  <2>2. CASE n = 7
    BY <1>5, <1>6, <2>2, Numbers
  <2> QED
    BY <1>1, <2>1, <2>2
<1>10. F!Words(Only(fields, {1, 2, 4, 5})) = b(7)
  BY OnlyAll, Zenon DEF Upto
<1>11. F!Words(<<fields[1]>> \o a(7)) = c(1) \o a(7)
  <2> DEFINE f == fields[1]
             w == a(7)
  <2>1. w \in Seq(Said) /\ F!Words(w) = w
    <3>1. FirstOf(Only(fields, Without), 7) \in Seq(Said)
      <4>1. Only(fields, Without) \in [1..7 -> Said]
        <5>1. EMPTY \in Said
          BY DEF F!FinderConstants, Said
        <5> QED
          BY <1>2, <5>1 DEF Only
      <4> QED
        BY <4>1, WordsByPlace, Numbers
    <3> QED
      BY <1>9, <3>1, WordsTwice, Zenon DEF Upto
  <2>2. f \in Said
    BY <1>2, Numbers
  <2>3. c(1) = Sounded[f]
    BY Zenon
  <2> HIDE DEF w, f
  <2>4. <<f>> \in Seq(Said) /\ Append(<<>>, f) = <<f>> /\ <<>> \in Seq(Said)
    BY <2>2
  <2>5. F!Words(<<f>>) = <<>> \o Sounded[f] /\ Sounded[f] \in Seq(Said)
    BY <2>2, <2>4, WordsMore, WordsNone, Zenon
  <2>6. <<>> \o Sounded[f] = Sounded[f]
    BY <2>5, ConcatEmptySeq, Zenon
  <2>7. F!Words(<<f>> \o w) = F!Words(<<f>>) \o F!Words(w)
    BY <2>1, <2>4, WordsConcat, Zenon
  <2>8. F!Words(<<f>> \o w) = Sounded[f] \o w
    BY <2>1, <2>5, <2>6, <2>7, Zenon
  <2> QED
    BY <2>3, <2>8 DEF w, f
<1> HIDE DEF tokens, a, b, c
<1>12. F!Words(FirstOf(Only(fields, Without), n)) = a(7)
  BY <1>9, Zenon DEF Upto, a
<1> QED
  BY <1>1, <1>3, <1>4, <1>8, <1>10, <1>11, <1>12, Zenon DEF tokens

(* What is said of two words, and of the last two fields.                  *)
LEMMA PairIs ==
    ASSUME F!FinderConstants, NEW g \in [1..2 -> Said]
    PROVE  F!Words(g) = Sounded[g[1]] \o Sounded[g[2]]
<1>1. 2 \in Nat /\ 1 \in 1..2 /\ 2 \in 1..2 /\ 1 - 1 = 0 /\ 2 - 1 = 1
  OBVIOUS
<1>2. \A n \in 1..2 : F!Words(FirstOf(g, n)) = F!Words(FirstOf(g, n - 1)) \o Sounded[g[n]]
  BY <1>1, WordsByPlace, Zenon
<1>3. FirstOf(g, 0) = <<>> /\ FirstOf(g, 2) = g
  BY DEF FirstOf
<1>4. g[1] \in Said /\ Sounded[g[1]] \in Seq(Said)
  <2>1. <<>> \in Seq(Said) /\ g[1] \in Said
    BY <1>1
  <2> QED
    BY <2>1, WordsMore, Zenon
<1>5. F!Words(FirstOf(g, 1)) = F!Words(FirstOf(g, 0)) \o Sounded[g[1]]
      /\ F!Words(FirstOf(g, 2)) = F!Words(FirstOf(g, 1)) \o Sounded[g[2]]
  BY <1>1, <1>2
<1>6. <<>> \o Sounded[g[1]] = Sounded[g[1]]
  BY <1>4, ConcatEmptySeq, Zenon
<1> QED
  BY <1>3, <1>5, <1>6, WordsNone, Zenon

(* What the latitude and the longitude say.                                *)
LEMMA LastTwo ==
    ASSUME F!FinderConstants, NEW fields \in Fields
    PROVE  F!Words(Only(fields, {6, 7})) = Sounded[fields[6]] \o Sounded[fields[7]]
<1> DEFINE b(k) == Upto(fields, {6, 7}, k)
           c(k) == Sounded[fields[k]]
           B == {6, 7}
<1>1. /\ 1 \notin B /\ 2 \notin B /\ 3 \notin B /\ 4 \notin B /\ 5 \notin B /\ 6 \in B /\ 7 \in B
  OBVIOUS
<1>2. \A k \in 1..7 : /\ k \in B => b(k) = b(k - 1) \o c(k)
                      /\ k \notin B => b(k) = b(k - 1)
                      /\ c(k) \in Seq(Said)
  BY OnlyStep, Zenon
<1>3. b(0) = <<>>
  BY OnlyNone, Zenon
<1>4. F!Words(Only(fields, {6, 7})) = b(7)
  BY OnlyAll, Zenon DEF Upto
<1>5. c(6) \in Seq(Said)
  BY <1>2, Numbers
<1>6. <<>> \o c(6) = c(6)
  BY <1>5, ConcatEmptySeq, Zenon
<1> HIDE DEF b, c, B
<1>7. b(7) = (<<>> \o c(6)) \o c(7)
  BY <1>1, <1>2, <1>3, Numbers
<1>8. F!Words(Only(fields, {6, 7})) = c(6) \o c(7)
  BY <1>4, <1>6, <1>7
<1> QED
  BY <1>8 DEF c

(* The latitude and the longitude, or what the buffer held before.         *)
Whereabouts(a, tokens) ==
    [k \in 1..2 |-> IF a = NoAddress \/ Len(tokens) < 5 + k THEN JUNK ELSE tokens[5 + k]]

(* A location without fields, an empty text and junk say nothing.          *)
LEMMA NothingSaid ==
    ASSUME F!FinderConstants
    PROVE  /\ F!Fresh \in Fields /\ Sounded[EMPTY] = <<>> /\ Sounded[JUNK] = <<>>
           /\ EMPTY \in Said /\ JUNK \in Said
<1>1. EMPTY \in Said /\ JUNK \in Said /\ EMPTY \in Word
  BY DEF Said, F!FinderConstants
<1>2. F!Fresh \in Fields
  BY <1>1 DEF F!Fresh, Fields, F!NFields
<1>3. <<>> \in Seq(Said)
  BY EmptySeq, Zenon
<1>4. EMPTY \in {EMPTY, JUNK} /\ JUNK \in {EMPTY, JUNK}
  OBVIOUS
<1> QED
  BY <1>1, <1>2, <1>3, <1>4, WordsMore, Zenon

(* GetLatLngInfo gives the last two fields of the record.                  *)
LEMMA WhereIs ==
    ASSUME F!FinderConstants, NEW fields \in Fields, NEW a, a # NoAddress
    PROVE  F!Words(Whereabouts(a, Taken(fields))) = F!Words(Only(fields, {6, 7}))
<1> DEFINE tokens == Taken(fields)
           n == IF fields[7] = EMPTY THEN 6 ELSE 7
           g == Whereabouts(a, tokens)
<1>1. /\ tokens = [k \in 1..n |-> fields[k]]
      /\ fields[7] = EMPTY => n = 6
      /\ fields[7] # EMPTY => n = 7
  <2>1. tokens = [k \in 1..n |-> fields[k]]
    BY Zenon DEF Taken
  <2>2. (fields[7] = EMPTY => n = 6) /\ (fields[7] # EMPTY => n = 7)
    OBVIOUS
  <2> QED
    BY <2>1, <2>2, Zenon
<1>2. /\ g[1] = IF a = NoAddress \/ Len(tokens) < 6 THEN JUNK ELSE tokens[6]
      /\ g[2] = IF a = NoAddress \/ Len(tokens) < 7 THEN JUNK ELSE tokens[7]
      /\ g = [k \in 1..2 |-> g[k]]
  <2> HIDE DEF tokens
  <2> QED
    BY DEF Whereabouts
<1>3. fields[6] \in Said /\ fields[7] \in Said /\ JUNK \in Said
  BY DEF Fields, Said
<1> HIDE DEF n, tokens, g
<1>4. CASE fields[7] = EMPTY
  <2>1. Len(tokens) = 6 /\ tokens[6] = fields[6]
    BY <1>1, <1>4
  <2>2. g[1] = fields[6] /\ g[2] = JUNK
    BY <1>2, <2>1
  <2>3. g \in [1..2 -> Said]
    BY <1>2, <1>3, <2>2
  <2>4. F!Words(g) = Sounded[fields[6]] \o Sounded[JUNK]
    BY <2>2, <2>3, PairIs
  <2> QED
    BY <1>4, <2>4, LastTwo, NothingSaid, Zenon DEF g, tokens
<1>5. CASE fields[7] # EMPTY
  <2>1. Len(tokens) = 7 /\ tokens[6] = fields[6] /\ tokens[7] = fields[7]
    BY <1>1, <1>5
  <2>2. g[1] = fields[6] /\ g[2] = fields[7]
    BY <1>2, <2>1
  <2>3. g \in [1..2 -> Said]
    BY <1>2, <1>3, <2>2
  <2>4. F!Words(g) = Sounded[fields[6]] \o Sounded[fields[7]]
    BY <2>2, <2>3, PairIs
  <2> QED
    BY <2>4, LastTwo, Zenon DEF g, tokens
<1> QED
  BY <1>4, <1>5, Zenon

(* And nothing without one.                                                *)
LEMMA WhereNothing ==
    ASSUME F!FinderConstants, NEW a, NEW tokens, a = NoAddress \/ tokens = <<>>
    PROVE  F!Words(Whereabouts(a, tokens)) = F!Words(Only(F!Fresh, {6, 7}))
<1> DEFINE g == Whereabouts(a, tokens)
<1>1. g = [k \in 1..2 |-> JUNK]
  <2>1. CASE a = NoAddress
    BY <2>1 DEF Whereabouts
  <2>2. CASE tokens = <<>>
    BY <2>2 DEF Whereabouts
  <2> QED
    BY <2>1, <2>2, Zenon
<1>2. g \in [1..2 -> Said] /\ g[1] = JUNK /\ g[2] = JUNK
  BY <1>1, NothingSaid
<1>3. F!Fresh[6] = EMPTY /\ F!Fresh[7] = EMPTY
  BY DEF F!Fresh, F!NFields
<1>4. F!Words(g) = Sounded[JUNK] \o Sounded[JUNK]
  BY <1>2, PairIs
<1> HIDE DEF g
<1> QED
  BY <1>3, <1>4, LastTwo, NothingSaid, Zenon DEF g

(* The records of a database, which end one after the other.               *)
Row == [last : Nat, fields : Fields]
(* Which are sorted.                                                       *)
LEMMA DatabaseIs ==
    ASSUME F!FinderConstants, NEW d \in Databases
    PROVE  /\ d \in Seq(Row) /\ Len(d) \in Nat
           /\ \A r \in 1..Len(d) : d[r] \in Row /\ d[r].last \in Nat /\ d[r].fields \in Fields
           /\ \A j, k \in 1..Len(d) : j < k => d[j].last < d[k].last
<1>1. Row = [last : Nat, fields : [1..F!NFields -> Word]]
  BY DEF Row, Fields, F!NFields
<1>2. d \in Seq(Row) /\ \A j, k \in 1..Len(d) : j < k => d[j].last < d[k].last
  BY <1>1 DEF F!FinderConstants
<1>3. Len(d) \in Nat /\ \A r \in 1..Len(d) : d[r] \in Row
  BY <1>2, LenProperties, ElementOfSeq, Zenon
<1>4. \A x \in Row : x.last \in Nat /\ x.fields \in Fields
  BY DEF Row
<1> QED
  BY <1>2, <1>3, <1>4, Zenon

(* How many records end before a value: all of those, and no other.        *)
Before(d, v) == F!Max({0} \cup {r \in 1..Len(d) : d[r].last < v})

(* They are a number of records, and end there.                            *)
LEMMA BeforeIs ==
    ASSUME F!FinderConstants, NEW d \in Databases, NEW v \in Int
    PROVE  /\ Before(d, v) \in 0..Len(d)
           /\ \A r \in 1..Before(d, v) : d[r].last < v
<1> DEFINE T == {0} \cup {r \in 1..Len(d) : d[r].last < v}
<1>1. /\ Len(d) \in Nat
      /\ \A r \in 1..Len(d) : d[r].last \in Nat
      /\ \A j, k \in 1..Len(d) : j < k => d[j].last < d[k].last
  BY DatabaseIs, Zenon
<1>2. T \subseteq 0..Len(d) /\ T # {} /\ \A k \in T : k = 0 \/ (k \in 1..Len(d) /\ d[k].last < v)
  BY <1>1
<1>3. F!Max(T) = CHOOSE m \in T : \A k \in T : m >= k
  BY DEF F!Max
<1>4. \E m \in T : \A k \in T : m >= k
  <2> HIDE DEF T
  <2>1. PICK m \in T : \A k \in T : k <= m
    BY <1>1, <1>2, Greatest
  <2>2. \A k \in T : m >= k
    BY <1>1, <1>2, <2>1
  <2> QED
    BY <2>2
<1>5. F!Max(T) \in T
  <2> HIDE DEF T
  <2> QED
    BY <1>3, <1>4, Zenon
<1>6. PICK b : b = F!Max(T)
  OBVIOUS
<1>7. b \in 0..Len(d) /\ (b = 0 \/ (b \in 1..Len(d) /\ d[b].last < v))
  <2> HIDE DEF T
  <2> QED
    BY <1>2, <1>5, <1>6
<1>8. ASSUME NEW r \in 1..b PROVE d[r].last < v
  <2>1. b \in 1..Len(d) /\ d[b].last < v /\ r \in 1..Len(d) /\ (r = b \/ r < b)
    BY <1>1, <1>7
  <2>2. CASE r = b
    BY <2>1, <2>2
  <2>3. CASE r < b
    <3>1. d[r].last < d[b].last
      BY <1>1, <2>1, <2>3, Zenon
    <3>2. d[r].last \in Nat /\ d[b].last \in Nat
      BY <1>1, <2>1, Zenon
    <3> QED
      BY <2>1, <3>1, <3>2
  <2> QED
    BY <2>1, <2>2, <2>3, Zenon
<1> HIDE DEF T
<1>9. Before(d, v) = b
  BY <1>6, Zenon DEF Before, T
<1> QED
  BY <1>7, <1>8, <1>9, Zenon

(* The number that is looked up, for any four numbers.                     *)
LEMMA SmallMod == \A k \in Nat, m \in Nat : k < m => k % m = k
  OBVIOUS

(* It is a number.                                                         *)
LEMMA NumberIs ==
    ASSUME F!FinderConstants, NEW a \in Addresses
    PROVE  F!ip2long_value(a) \in Nat
<1>1. Octets \in Nat /\ Octets > 1 /\ a \in [1..4 -> Int]
  BY DEF F!FinderConstants
<1>2. \A k \in 1..4 : a[k] % Octets \in Nat
  BY <1>1
<1>3. PICK o, x, y, z, w :
         o = Octets /\ x = a[1] % o /\ y = a[2] % o /\ z = a[3] % o /\ w = a[4] % o
  OBVIOUS
<1>4. o \in Nat /\ x \in Nat /\ y \in Nat /\ z \in Nat /\ w \in Nat
  BY <1>1, <1>2, <1>3
<1>5. F!ip2long_value(a) = ((x * o + y) * o + z) * o + w
  BY <1>3 DEF F!ip2long_value, F!Masked
<1>6. x * o + y \in Nat
  BY <1>4
<1>7. (x * o + y) * o + z \in Nat
  <2>1. PICK p : p = x * o + y
    OBVIOUS
  <2> QED
    BY <1>4, <1>6, <2>1
<1>8. ((x * o + y) * o + z) * o + w \in Nat
  <2>1. PICK p : p = (x * o + y) * o + z
    OBVIOUS
  <2> QED
    BY <1>4, <1>7, <2>1
<1> QED
  BY <1>5, <1>8, Zenon

(* The number of an address, and the first number of its prefix.           *)
LEMMA AddressIs ==
    ASSUME F!FinderConstants, NEW a, F!IsAddress(a)
    PROVE  /\ F!ip_prefix_value(a) \in 0..(Octets * Octets - 1)
           /\ F!ip_prefix_value(a) * Octets * Octets \in Nat
           /\ F!ip_prefix_value(a) * Octets * Octets <= F!ip2long_value(a)
<1>1. Octets \in Nat /\ Octets > 1 /\ a \in [1..4 -> 0..(Octets - 1)]
  BY DEF F!FinderConstants, F!IsAddress
<1>2. PICK o : o = Octets
  OBVIOUS
<1>3. o \in Nat /\ o > 1
  BY <1>1, <1>2
<1>4. a[1] \in 0..(o - 1) /\ a[2] \in 0..(o - 1) /\ a[3] \in 0..(o - 1) /\ a[4] \in 0..(o - 1)
  BY <1>1, <1>2
<1>5. PICK x, y, z, w : x = a[1] /\ y = a[2] /\ z = a[3] /\ w = a[4]
  OBVIOUS
<1>6. /\ x \in Nat /\ y \in Nat /\ z \in Nat /\ w \in Nat /\ x <= o - 1 /\ y <= o - 1
      /\ x < o /\ y < o /\ z < o /\ w < o
  BY <1>3, <1>4, <1>5
<1>7. PICK p : p = x * o + y
  OBVIOUS
<1>8. p \in Nat /\ p <= o * o - 1
  <2>1. x * o \in Nat /\ x * o <= (o - 1) * o
    BY <1>3, <1>6
  <2>2. (o - 1) * o = o * o - o /\ o * o \in Nat
    BY <1>3
  <2>3. PICK xo, oo : xo = x * o /\ oo = o * o
    OBVIOUS
  <2>4. xo \in Nat /\ oo \in Nat /\ xo <= oo - o
    BY <2>1, <2>2, <2>3
  <2>5. p = xo + y
    BY <1>7, <2>3
  <2> QED
    BY <1>3, <1>6, <2>3, <2>4, <2>5
<1>9. F!ip_prefix_value(a) = p
  <2>1. F!ip_prefix_value(a) = p % (o * o * o * o)
    BY <1>2, <1>5, <1>7 DEF F!ip_prefix_value, F!UINT
  <2>2. PICK oo : oo = o * o
    OBVIOUS
  <2>3. oo \in Nat /\ oo > 1 /\ p < oo
    <3>1. o * o > 1
      BY <1>3
    <3> QED
      BY <1>3, <1>8, <2>2, <3>1
  <2>4. o * o * o * o = oo * oo
    BY <1>3, <2>2
  <2>5. PICK m : m = oo * oo
    OBVIOUS
  <2>6. m \in Nat /\ oo <= m
    BY <2>3, <2>5
  <2>7. p % m = p
    BY <1>8, <2>3, <2>6, SmallMod
  <2> QED
    BY <2>1, <2>4, <2>5, <2>7
<1>10. F!ip2long_value(a) = (p * o + z) * o + w
  <2>1. x % o = x /\ y % o = y /\ z % o = z /\ w % o = w
    BY <1>3, <1>6, SmallMod
  <2>2. F!ip2long_value(a) = (((x % o) * o + (y % o)) * o + (z % o)) * o + (w % o)
    BY <1>2, <1>5 DEF F!ip2long_value, F!Masked
  <2> QED
    BY <1>7, <2>1, <2>2
<1>11. (p * o + z) * o + w \in Nat /\ p * o * o \in Nat /\ p * o * o <= (p * o + z) * o + w
  <2>1. PICK q : q = p * o
    OBVIOUS
  <2>2. q \in Nat
    BY <1>3, <1>8, <2>1
  <2>3. q * o \in Nat /\ z * o \in Nat /\ (q + z) * o = q * o + z * o
    BY <1>3, <1>6, <2>2
  <2>4. PICK s, u : s = q * o /\ u = z * o
    OBVIOUS
  <2>5. s \in Nat /\ u \in Nat /\ (q + z) * o = s + u
    BY <2>3, <2>4
  <2>6. s + u + w \in Nat /\ s <= s + u + w
    BY <1>6, <2>5
  <2> QED
    BY <2>1, <2>4, <2>5, <2>6
<1>12. p \in 0..(o * o - 1)
  <2>1. PICK oo : oo = o * o
    OBVIOUS
  <2>2. oo \in Nat
    BY <1>3, <2>1
  <2> QED
    BY <1>8, <2>1, <2>2
<1> QED
  BY <1>2, <1>9, <1>10, <1>11, <1>12

(* The record of an address, of any database.                              *)
Reach(d, a) == {r \in 1..Len(d) : d[r].last >= F!ip2long_value(a)}
(* It is the first that reaches the address.                               *)
Record(d, a) == IF a = NoAddress \/ Reach(d, a) = {} THEN -1 ELSE F!Min(Reach(d, a)) - 1

(* RecordOf gives it.                                                      *)
LEMMA RecordIs == \A a : F!RecordOf(a) = Record(x2, a)
BY Zenon DEF F!RecordOf, Record, Reach

(* It is a record of the database, or none.                                *)
LEMMA RecordRange ==
    ASSUME F!FinderConstants, NEW d \in Databases, NEW a
    PROVE  Record(d, a) \in -1..(Len(d) - 1)
<1>1. Len(d) \in Nat
  BY DatabaseIs, Zenon
<1>2. CASE a = NoAddress \/ Reach(d, a) = {}
  BY <1>1, <1>2 DEF Record
<1>3. CASE ~(a = NoAddress \/ Reach(d, a) = {})
  <2>1. Reach(d, a) \subseteq Nat /\ Reach(d, a) # {} /\ Reach(d, a) \subseteq 1..Len(d)
    BY <1>3 DEF Reach
  <2>2. \E m \in Reach(d, a) : \A k \in Reach(d, a) : m <= k
    BY <2>1, Least
  <2>3. F!Min(Reach(d, a)) = CHOOSE m \in Reach(d, a) : \A k \in Reach(d, a) : m <= k
    BY DEF F!Min
  <2>4. F!Min(Reach(d, a)) \in 1..Len(d)
    BY <2>1, <2>2, <2>3, Zenon
  <2>5. Record(d, a) = F!Min(Reach(d, a)) - 1
    BY <1>3, Zenon DEF Record
  <2>6. PICK m : m = F!Min(Reach(d, a))
    OBVIOUS
  <2> QED
    BY <1>1, <2>4, <2>5, <2>6
<1> QED
  BY <1>2, <1>3, Zenon

(* It is where the scan stops.                                             *)
LEMMA RecordFound ==
    ASSUME F!FinderConstants, NEW d \in Databases, NEW a \in Addresses, NEW s \in Nat, s < Len(d),
           \A r \in 1..s : d[r].last < F!ip2long_value(a),
           d[s + 1].last >= F!ip2long_value(a)
    PROVE  Record(d, a) = s
<1> DEFINE R == Reach(d, a)
<1>1. Len(d) \in Nat /\ a # NoAddress /\ F!ip2long_value(a) \in Nat
      /\ \A r \in 1..Len(d) : d[r].last \in Nat
  BY DatabaseIs, NumberIs, Zenon DEF F!FinderConstants
<1>2. s + 1 \in 1..Len(d)
  BY <1>1
<1>3. s + 1 \in R /\ R \subseteq 1..Len(d)
  BY <1>2 DEF Reach
<1>4. ASSUME NEW r \in R PROVE s + 1 <= r
  <2>1. r \in 1..Len(d) /\ d[r].last >= F!ip2long_value(a)
    BY DEF Reach
  <2>2. d[r].last \in Nat
    BY <1>1, <2>1, Zenon
  <2>3. r \notin 1..s
    <3> SUFFICES ASSUME r \in 1..s PROVE FALSE
      OBVIOUS
    <3>1. d[r].last < F!ip2long_value(a)
      OBVIOUS
    <3> QED
      BY <1>1, <2>1, <2>2, <3>1
  <2> QED
    BY <1>1, <2>1, <2>3
<1>5. F!Min(R) = CHOOSE m \in R : \A k \in R : m <= k
  BY DEF F!Min
<1> HIDE DEF R
<1>6. \E m \in R : \A k \in R : m <= k
  BY <1>3, <1>4
<1>7. F!Min(R) \in R /\ \A k \in R : F!Min(R) <= k
  BY <1>5, <1>6, Zenon
<1>8. PICK m : m = F!Min(R)
  OBVIOUS
<1>9. m \in 1..Len(d) /\ m <= s + 1 /\ s + 1 <= m
  BY <1>3, <1>4, <1>7, <1>8
<1>10. m = s + 1
  BY <1>1, <1>9
<1>11. R # {}
  BY <1>3, Zenon
<1>12. Record(d, a) = m - 1
  BY <1>1, <1>8, <1>11, Zenon DEF Record, R
<1> QED
  BY <1>10, <1>12

(* It is none when the scan passes them all.                               *)
LEMMA RecordNone ==
    ASSUME F!FinderConstants, NEW d \in Databases, NEW a,
           \/ a = NoAddress
           \/ a \in Addresses /\ \A r \in 1..Len(d) : d[r].last < F!ip2long_value(a)
    PROVE  Record(d, a) = -1
<1>1. CASE a = NoAddress
  BY <1>1, Zenon DEF Record
<1>2. CASE a \in Addresses /\ \A r \in 1..Len(d) : d[r].last < F!ip2long_value(a)
  <2>1. F!ip2long_value(a) \in Nat /\ \A r \in 1..Len(d) : d[r].last \in Nat
    BY <1>2, DatabaseIs, NumberIs, Zenon
  <2>2. Reach(d, a) = {}
    BY <1>2, <2>1 DEF Reach
  <2> QED
    BY <2>2, Zenon DEF Record
<1> QED
  BY <1>1, <1>2, Zenon

(* The text of what was found, and its fields.                             *)
Picked(d, n) == IF n = -1 THEN <<>> ELSE F!TextOf(d[n + 1].fields)
(* The seven fields.                                                       *)
Row7(d, n) == IF n = -1 THEN F!Fresh ELSE d[n + 1].fields

(* What find copies.                                                       *)
LEMMA PickedText == F!Text = Picked(x2, x9)
BY Zenon DEF F!Text, Picked

(* What the properties compare with.                                       *)
LEMMA FieldsAre == F!FieldsFound = Row7(x2, x9)
BY Zenon DEF F!FieldsFound, Row7

(* The text is cut into the fields again.                                  *)
LEMMA RowIs ==
    ASSUME F!FinderConstants, NEW d \in Databases, NEW n \in -1..(Len(d) - 1)
    PROVE  /\ Row7(d, n) \in Fields
           /\ n = -1 => F!strtok_r_2(Picked(d, n)) = <<>> /\ Row7(d, n) = F!Fresh
           /\ n # -1 => F!strtok_r_2(Picked(d, n)) = Taken(Row7(d, n))
<1>1. CASE n = -1
  <2>1. Row7(d, n) = F!Fresh /\ Picked(d, n) = <<>>
    BY <1>1, Zenon DEF Row7, Picked
  <2> QED
    BY <1>1, <2>1, NothingSaid, NoTokens, Zenon
<1>2. CASE n # -1
  <2>1. n + 1 \in 1..Len(d)
    <3>1. Len(d) \in Nat
      BY DatabaseIs, Zenon
    <3> QED
      BY <1>2, <3>1
  <2>2. d[n + 1].fields \in Fields
    BY <2>1, DatabaseIs, Zenon
  <2>3. Row7(d, n) = d[n + 1].fields /\ Picked(d, n) = F!TextOf(d[n + 1].fields)
    BY <1>2, Zenon DEF Row7, Picked
  <2>4. F!strtok_r_2(F!TextOf(d[n + 1].fields)) = Taken(d[n + 1].fields)
    BY <2>2, TokensOf, Zenon
  <2> QED
    BY <1>2, <2>2, <2>3, <2>4, Zenon
<1> QED
  BY <1>1, <1>2, Zenon

(* What a lookup writes is of the record, field by field.                  *)
Filled(tokens) == [x \in 1..7 |-> IF x <= Len(tokens) THEN tokens[x] ELSE F!Fresh[x]]

(* A location is filled with the fields of the record.                     *)
LEMMA FilledIs ==
    ASSUME F!FinderConstants, NEW d \in Databases, NEW n \in -1..(Len(d) - 1)
    PROVE  Filled(F!strtok_r_2(Picked(d, n))) = Row7(d, n)
<1> DEFINE fields == Row7(d, n)
           tokens == F!strtok_r_2(Picked(d, n))
<1>1. CASE n = -1
  <2>1. tokens = <<>> /\ fields = F!Fresh
    BY <1>1, RowIs, Zenon
  <2>2. Filled(<<>>) = [x \in 1..7 |-> F!Fresh[x]]
    BY DEF Filled
  <2>3. F!Fresh = [x \in 1..7 |-> F!Fresh[x]]
    BY DEF F!Fresh, F!NFields
  <2> QED
    BY <2>1, <2>2, <2>3, Zenon
<1>2. CASE n # -1
  <2>1. tokens = Taken(fields) /\ fields \in Fields
    BY <1>2, RowIs, Zenon
  <2> HIDE DEF tokens, fields
  <2>2. F!Fresh = [x \in 1..7 |-> EMPTY]
    BY DEF F!Fresh, F!NFields
  <2>3. fields = [x \in 1..7 |-> fields[x]]
    BY <2>1, Zenon DEF Fields
  <2>4. CASE fields[7] = EMPTY
    <3>1. tokens = [k \in 1..6 |-> fields[k]]
      BY <2>1, <2>4, Zenon DEF Taken
    <3>2. Len(tokens) = 6 /\ \A k \in 1..6 : tokens[k] = fields[k]
      BY <3>1
    <3>3. \A x \in 1..7 : (IF x <= Len(tokens) THEN tokens[x] ELSE F!Fresh[x]) = fields[x]
      <4> TAKE x \in 1..7
      <4>1. x \in 1..6 \/ x = 7
        OBVIOUS
      <4>2. CASE x \in 1..6
        BY <3>2, <4>2
      <4>3. CASE x = 7
        BY <2>2, <2>4, <3>2, <4>3
      <4> QED
        BY <4>1, <4>2, <4>3, Zenon
    <3>4. Filled(tokens) = [x \in 1..7 |-> fields[x]]
      BY <3>3, Zenon DEF Filled
    <3> QED
      BY <2>3, <3>4, Zenon DEF tokens, fields
  <2>5. CASE fields[7] # EMPTY
    <3>1. tokens = [k \in 1..7 |-> fields[k]]
      BY <2>1, <2>5, Zenon DEF Taken
    <3>2. Len(tokens) = 7 /\ \A k \in 1..7 : tokens[k] = fields[k]
      BY <3>1
    <3>3. \A x \in 1..7 : (IF x <= Len(tokens) THEN tokens[x] ELSE F!Fresh[x]) = fields[x]
      BY <3>2
    <3>4. Filled(tokens) = [x \in 1..7 |-> fields[x]]
      BY <3>3, Zenon DEF Filled
    <3> QED
      BY <2>3, <3>4, Zenon DEF tokens, fields
  <2> QED
    BY <2>4, <2>5, Zenon
<1> QED
  BY <1>1, <1>2, Zenon

(* What GetISPInfo and GetLatLngInfo give.                                 *)
Told(a, tokens) ==
    IF a = NoAddress \/ tokens = <<>> THEN <<JUNK>>
    ELSE <<tokens[1]>> \o F!Words([k \in 1..Len(tokens) |-> IF k \in {2, 4, 5} THEN tokens[k] ELSE EMPTY])
(* What is to be given: words of the record, in their order.               *)
ToldRight(d, n, i) ==
    IF n = -1 THEN i = <<JUNK>> ELSE F!Words(i) = F!Words(Only(Row7(d, n), {1, 2, 4, 5}))
(* The same of the place.                                                  *)
WhereRight(d, n, i) == F!Words(i) = F!Words(Only(Row7(d, n), {6, 7}))

(* That is what is given.                                                  *)
LEMMA ToldIsRight ==
    ASSUME F!FinderConstants, NEW d \in Databases, NEW n \in -1..(Len(d) - 1), NEW a,
           a = NoAddress => n = -1
    PROVE  LET tokens == F!strtok_r_2(Picked(d, n))
           IN  ToldRight(d, n, Told(a, tokens)) /\ WhereRight(d, n, Whereabouts(a, tokens))
<1> DEFINE tokens == F!strtok_r_2(Picked(d, n))
           fields == Row7(d, n)
<1>2. /\ fields \in Fields
      /\ n = -1 => tokens = <<>> /\ fields = F!Fresh
      /\ n # -1 => tokens = Taken(fields)
  BY RowIs, Zenon
<1> HIDE DEF fields, tokens
<1>3. CASE n = -1
  <2>1. Told(a, tokens) = <<JUNK>>
    BY <1>2, <1>3, Zenon DEF Told
  <2>2. F!Words(Whereabouts(a, tokens)) = F!Words(Only(F!Fresh, {6, 7}))
    BY <1>2, <1>3, WhereNothing, Zenon
  <2> QED
    BY <1>2, <1>3, <2>1, <2>2, Zenon DEF ToldRight, WhereRight, tokens, fields
<1>4. CASE n # -1
  <2>1. a # NoAddress
    BY <1>4, Zenon
  <2>2. tokens = Taken(fields) /\ fields \in Fields
    BY <1>2, <1>4, Zenon
  <2>3. F!Words(Whereabouts(a, tokens)) = F!Words(Only(fields, {6, 7}))
    BY <2>1, <2>2, WhereIs, Zenon
  <2>4. /\ Taken(fields) # <<>>
        /\ F!Words(<<Taken(fields)[1]>> \o
             F!Words([k \in 1..Len(Taken(fields)) |-> IF k \in {2, 4, 5} THEN Taken(fields)[k] ELSE EMPTY]))
             = F!Words(Only(fields, {1, 2, 4, 5}))
    BY <2>2, ToldIs, Zenon
  <2>5. F!Words(Told(a, tokens)) = F!Words(Only(fields, {1, 2, 4, 5}))
    BY <2>1, <2>2, <2>4, Zenon DEF Told
  <2> QED
    BY <1>4, <2>3, <2>5, Zenon DEF ToldRight, WhereRight, tokens, fields
<1> QED
  BY <1>3, <1>4, Zenon

(* What IPInfo holds while there is a finder; what the scan has passed; and
   what a lookup gave.                                                     *)
Phases == {"idle", "scan", "parse", "found", "normal", "told", "where", "astray"}
(* Where no record has been found yet.                                     *)
BeforeHit == {"idle", "scan", "astray"}
(* The index of a database.                                                *)
FlagOf(d) == [p \in 0..(Octets * Octets - 1) |-> Before(d, p * Octets * Octets)]
(* IPInfo is that of the file while there is a finder.                     *)
Stored(d, o, state, fl, liv) ==
    /\ d \in Databases /\ o \in {0, Len(d) + 1} /\ state \in {"none", "valid", "freed"}
    /\ o # 0 => state = "valid" /\ fl = FlagOf(d)
    /\ liv \subseteq Finder /\ (liv # {} => o # 0)
(* The scan has passed records that end before the address, and no others. *)
Passed(d, a, s) == \A r \in 1..s : d[r].last < F!ip2long_value(a)
(* What find found: the record of an address, and of any four numbers one
   that ends there or later.                                               *)
Hit(d, a, n) ==
    /\ a = NoAddress \/ F!IsAddress(a) => n = Record(d, a)
    /\ n # -1 => d[n + 1].last >= F!ip2long_value(a)
(* The call in progress.                                                   *)
Search(p, d, liv, a, s, n) ==
    /\ p \in Phases /\ s \in 0..Len(d) /\ n \in -1..(Len(d) - 1)
    /\ p # "idle" => liv # {}
    /\ p \in BeforeHit => n = -1
    /\ p = "scan" => a \in Addresses /\ (F!IsAddress(a) => Passed(d, a, s))
    /\ p \notin BeforeHit => Hit(d, a, n)
(* What it has written so far.                                             *)
Given(p, d, n, l, i) ==
    /\ p \notin {"found", "normal"} => l = F!Fresh
    /\ p = "found" => l = Row7(d, n)
    /\ p = "normal" => l = F!Normalised(Row7(d, n))
    /\ p = "told" => ToldRight(d, n, i)
    /\ p = "where" => WhereRight(d, n, i)
(* The inductive invariant of CIPFinder.                                   *)
FinderInv ==
    /\ Stored(x2, x3, x4, x5, x6)
    /\ Search(x1, x2, x6, x7, x8, x9)
    /\ Given(x1, x2, x9, x10, x11)

(* The index init reads.                                                   *)
LEMMA FlagIs ==
    \A d : [p \in 0..(Octets * Octets - 1) |->
               F!Max({0} \cup {r \in 1..Len(d) : d[r].last < p * Octets * Octets})] = FlagOf(d)
BY Zenon DEF FlagOf, Before

(* The scan begins behind records that end before the address.             *)
LEMMA FlagPasses ==
    ASSUME F!FinderConstants, NEW d \in Databases, NEW a \in Addresses, F!IsAddress(a)
    PROVE  /\ FlagOf(d)[F!ip_prefix_value(a)] \in 0..Len(d)
           /\ Passed(d, a, FlagOf(d)[F!ip_prefix_value(a)])
<1> DEFINE p == F!ip_prefix_value(a)
           w == p * Octets * Octets
           v == F!ip2long_value(a)
           I == 0..(Octets * Octets - 1)
<1>1. p \in I /\ v \in Nat /\ w \in Nat /\ w <= v
  BY AddressIs, NumberIs, Zenon
<1>2. FlagOf(d)[p] = Before(d, w)
  <2>1. p \in I
    BY <1>1, Zenon
  <2> DEFINE B(q) == Before(d, q * Octets * Octets)
  <2>2. FlagOf(d) = [q \in I |-> B(q)] /\ B(p) = Before(d, w)
    BY Zenon DEF FlagOf
  <2> HIDE DEF I, B, p, w
  <2> QED
    BY <2>1, <2>2, Zenon
<1> HIDE DEF p, w, v
<1>3. Before(d, w) \in 0..Len(d) /\ \A r \in 1..Before(d, w) : d[r].last < w
  <2>1. w \in Int
    BY <1>1
  <2> QED
    BY <2>1, BeforeIs, Zenon
<1>4. ASSUME NEW r \in 1..Before(d, w) PROVE d[r].last < v
  <2>1. Len(d) \in Nat /\ \A x \in 1..Len(d) : d[x].last \in Nat
    BY DatabaseIs, Zenon
  <2>2. r \in 1..Len(d)
    BY <1>3, <2>1
  <2>3. d[r].last \in Nat /\ d[r].last < w
    BY <1>3, <2>1, <2>2, Zenon
  <2> QED
    BY <1>1, <2>3
<1>5. Passed(d, a, Before(d, w))
  BY <1>4, Zenon DEF Passed, v
<1> QED
  BY <1>2, <1>3, <1>5, Zenon DEF p

(* Whatever the numbers, what flag gives of its domain is within bounds.   *)
LEMMA FlagBounds ==
    ASSUME F!FinderConstants, NEW d \in Databases, NEW p \in DOMAIN FlagOf(d)
    PROVE  FlagOf(d)[p] \in 0..Len(d)
<1> DEFINE w == p * Octets * Octets
<1>1. DOMAIN FlagOf(d) = 0..(Octets * Octets - 1)
  BY Zenon DEF FlagOf
<1>2. FlagOf(d)[p] = Before(d, w)
  BY <1>1, Zenon DEF FlagOf
<1>3. w \in Int
  <2>1. p \in Int /\ Octets \in Int
    BY <1>1 DEF F!FinderConstants
  <2>2. p * Octets \in Int
    BY <2>1
  <2>3. PICK q : q = p * Octets
    OBVIOUS
  <2> QED
    BY <2>1, <2>2, <2>3
<1> QED
  BY <1>2, <1>3, BeforeIs, Zenon

(* An address indexes flag within its bounds.                              *)
LEMMA PrefixInFlag ==
    ASSUME F!FinderConstants, NEW d, NEW a, F!IsAddress(a)
    PROVE  F!ip_prefix_value(a) \in DOMAIN FlagOf(d)
<1>1. F!ip_prefix_value(a) \in 0..(Octets * Octets - 1)
  BY AddressIs, Zenon
<1> QED
  BY <1>1, Zenon DEF FlagOf

(* The invariant holds at the start.                                       *)
LEMMA FinderInit == ASSUME F!FinderConstants, F!Init PROVE FinderInv
<1>1. /\ x2 \in Databases /\ x3 = 0 /\ x4 = "none" /\ x6 = {} /\ x1 = "idle" /\ x8 = 0 /\ x9 = -1
      /\ x10 = F!Fresh
  BY DEF F!Init
<1>2. 0 \in 0..Len(x2) /\ -1 \in -1..(Len(x2) - 1)
  <2>1. Len(x2) \in Nat
    BY <1>1, DatabaseIs, Zenon
  <2> QED
    BY <2>1
<1>3. Stored(x2, x3, x4, x5, x6)
  BY <1>1 DEF Stored
<1>4. Search(x1, x2, x6, x7, x8, x9)
  BY <1>1, <1>2 DEF Search, Phases, BeforeHit
<1>5. Given(x1, x2, x9, x10, x11)
  BY <1>1 DEF Given
<1> QED
  BY <1>3, <1>4, <1>5, Zenon DEF FinderInv

(* A finder loads the database unless it is loaded.                        *)
LEMMA ConstructStep ==
    ASSUME F!FinderConstants, FinderInv, NEW f \in Finder, F!Construct(f)
    PROVE  FinderInv'
<1>1. /\ x1 = "idle" /\ F!init /\ x6' = x6 \cup {f}
      /\ x2' = x2 /\ x1' = x1 /\ x7' = x7 /\ x8' = x8 /\ x9' = x9 /\ x10' = x10 /\ x11' = x11
  BY DEF F!Construct
<1>2. Stored(x2, x3, x4, x5, x6) /\ Search(x1, x2, x6, x7, x8, x9) /\ Given(x1, x2, x9, x10, x11)
  BY Zenon DEF FinderInv
<1>3. x2 \in Databases /\ Len(x2) \in Nat /\ x3 \in {0, Len(x2) + 1}
  BY <1>2, DatabaseIs, Zenon DEF Stored
<1>4. x3' \in {0, Len(x2) + 1} /\ x3' # 0 /\ x4' = "valid" /\ x5' = FlagOf(x2)
  <2>1. CASE x3 > 0
    <3>1. x3' = x3 /\ x4' = x4 /\ x5' = x5
      BY <1>1, <2>1 DEF F!init, F!Loaded, F!IPInfo
    <3>2. x3 # 0
      BY <2>1, <1>3
    <3>3. x4 = "valid" /\ x5 = FlagOf(x2)
      BY <1>2, <3>2, Zenon DEF Stored
    <3> QED
      BY <1>3, <3>1, <3>2, <3>3, Zenon
  <2>2. CASE ~(x3 > 0)
    <3>1. /\ x3' = Len(x2) + 1 /\ x4' = "valid"
          /\ x5' = [p \in 0..(Octets * Octets - 1) |->
                       F!Max({0} \cup {r \in 1..Len(x2) : x2[r].last < p * Octets * Octets})]
      BY <1>1, <2>2, Zenon DEF F!init, F!Loaded
    <3>2. Len(x2) + 1 # 0
      BY <1>3
    <3>3. x5' = FlagOf(x2)
      BY <3>1, FlagIs, Zenon
    <3> QED
      BY <3>1, <3>2, <3>3, Zenon
  <2> QED
    BY <2>1, <2>2, Zenon
<1>5. x6' \subseteq Finder /\ x6' # {}
  BY <1>1, <1>2 DEF Stored
<1>6. Stored(x2', x3', x4', x5', x6')
  BY <1>1, <1>3, <1>4, <1>5 DEF Stored
<1>7. Search(x1', x2', x6', x7', x8', x9')
  BY <1>1, <1>2, <1>5, Zenon DEF Search
<1>8. Given(x1', x2', x9', x10', x11')
  BY <1>1, <1>2, Zenon
<1> QED
  BY <1>6, <1>7, <1>8, Zenon DEF FinderInv

(* The only one frees it when no lookup runs.                              *)
LEMMA DestroyStep ==
    ASSUME F!FinderConstants, FinderInv, NEW f \in Finder, F!Destroy(f)
    PROVE  FinderInv'
<1>1. /\ x1 = "idle" /\ f \in x6 /\ F!destroy /\ x6' = x6 \ {f}
      /\ x2' = x2 /\ x1' = x1 /\ x7' = x7 /\ x8' = x8 /\ x9' = x9 /\ x10' = x10 /\ x11' = x11
  BY DEF F!Destroy
<1>2. Stored(x2, x3, x4, x5, x6) /\ Search(x1, x2, x6, x7, x8, x9) /\ Given(x1, x2, x9, x10, x11)
  BY Zenon DEF FinderInv
<1>3. x2 \in Databases /\ Len(x2) \in Nat /\ x3 \in {0, Len(x2) + 1} /\ x6 \subseteq Finder /\ x3 # 0
  BY <1>1, <1>2, DatabaseIs, Zenon DEF Stored
<1>4. x3' = 0 /\ x4' = "freed"
  BY <1>1, <1>3 DEF F!destroy, F!Loaded
<1>5. x6' = {}
  <2>1. \A g \in x6 : g = f
    BY <1>1, <1>3 DEF F!FinderConstants
  <2> QED
    BY <1>1, <2>1
<1>6. Stored(x2', x3', x4', x5', x6')
  BY <1>1, <1>3, <1>4, <1>5 DEF Stored
<1>7. Search(x1', x2', x6', x7', x8', x9')
  BY <1>1, <1>2, Zenon DEF Search
<1>8. Given(x1', x2', x9', x10', x11')
  BY <1>1, <1>2, Zenon
<1> QED
  BY <1>6, <1>7, <1>8, Zenon DEF FinderInv

(* What every step of a lookup leaves as it was.                           *)
LEMMA StoredStays ==
    ASSUME FinderInv, x2' = x2, x3' = x3, x4' = x4, x5' = x5, x6' = x6
    PROVE  Stored(x2', x3', x4', x5', x6')
BY Zenon DEF FinderInv

(* A lookup begins at flag, in bounds or outside.                          *)
LEMMA LookStep ==
    ASSUME F!FinderConstants, FinderInv, NEW a \in Addresses \cup {NoAddress}, F!Find(a)
    PROVE  FinderInv'
<1>1. /\ x1 = "idle" /\ x6 # {} /\ x7' = a /\ x9' = -1 /\ x10' = F!Fresh
      /\ x2' = x2 /\ x3' = x3 /\ x4' = x4 /\ x5' = x5 /\ x6' = x6 /\ x11' = x11
      /\ \/ a = NoAddress /\ x1' = "parse" /\ x8' = 0
         \/ /\ a # NoAddress /\ F!ip_prefix_value(a) \in DOMAIN x5
            /\ x1' = "scan" /\ x8' = x5[F!ip_prefix_value(a)]
         \/ /\ a # NoAddress /\ F!ip_prefix_value(a) \notin DOMAIN x5
            /\ x1' \in {"scan", "astray"} /\ x8' \in 0..Len(x2)
  BY DEF F!Find, F!IPInfo
<1>2. x2 \in Databases /\ Len(x2) \in Nat /\ x5 = FlagOf(x2)
  <2>1. Stored(x2, x3, x4, x5, x6)
    BY Zenon DEF FinderInv
  <2> QED
    BY <1>1, <2>1, DatabaseIs, Zenon DEF Stored
<1>3. -1 \in -1..(Len(x2) - 1) /\ 0 \in 0..Len(x2)
  BY <1>2
<1>4. /\ {"scan", "parse", "astray"} \subseteq Phases /\ "parse" \notin BeforeHit /\ "scan" \in BeforeHit
      /\ "astray" \in BeforeHit /\ "parse" # "scan" /\ "astray" # "scan"
  BY DEF Phases, BeforeHit
<1>5. Search(x1', x2', x6', x7', x8', x9')
  <2>1. CASE a = NoAddress /\ x1' = "parse" /\ x8' = 0
    <3>1. Record(x2, a) = -1
      BY <1>2, <2>1, RecordNone, Zenon
    <3>2. Hit(x2, a, -1)
      BY <3>1, Zenon DEF Hit
    <3> QED
      BY <1>1, <1>3, <1>4, <2>1, <3>2 DEF Search
  <2>2. CASE /\ a # NoAddress /\ F!ip_prefix_value(a) \in DOMAIN x5
             /\ x1' = "scan" /\ x8' = x5[F!ip_prefix_value(a)]
    <3>1. a \in Addresses
      BY <2>2
    <3>2. x8' \in 0..Len(x2)
      BY <1>2, <2>2, FlagBounds, Zenon
    <3>3. F!IsAddress(a) => Passed(x2, a, x8')
      BY <1>2, <2>2, <3>1, FlagPasses, Zenon
    <3> QED
      BY <1>1, <1>3, <1>4, <2>2, <3>1, <3>2, <3>3 DEF Search
  <2>3. CASE /\ a # NoAddress /\ F!ip_prefix_value(a) \notin DOMAIN x5
             /\ x1' \in {"scan", "astray"} /\ x8' \in 0..Len(x2)
    <3>1. a \in Addresses
      BY <2>3
    <3>2. ~F!IsAddress(a)
      BY <1>2, <2>3, PrefixInFlag, Zenon
    <3> QED
      BY <1>1, <1>3, <1>4, <2>3, <3>1, <3>2 DEF Search
  <2> QED
    BY <1>1, <2>1, <2>2, <2>3, Zenon
<1>6. Given(x1', x2', x9', x10', x11')
  <2>1. x1' \in {"parse", "scan", "astray"}
    BY <1>1
  <2> QED
    BY <1>1, <2>1 DEF Given
<1> QED
  BY <1>1, <1>5, <1>6, StoredStays, Zenon DEF FinderInv

(* The scan takes the first record that ends there or later, or none.      *)
LEMMA ScanStep ==
    ASSUME F!FinderConstants, FinderInv, F!Scan
    PROVE  FinderInv'
<1>1. /\ x1 = "scan"
      /\ x2' = x2 /\ x3' = x3 /\ x4' = x4 /\ x5' = x5 /\ x6' = x6 /\ x7' = x7 /\ x10' = x10 /\ x11' = x11
      /\ x8 >= x3 - 1 => x1' = "parse" /\ x8' = x8 /\ x9' = x9
      /\ ~(x8 >= x3 - 1) /\ x2[x8 + 1].last >= F!ip2long_value(x7) => x1' = "parse" /\ x9' = x8 /\ x8' = x8
      /\ ~(x8 >= x3 - 1) /\ ~(x2[x8 + 1].last >= F!ip2long_value(x7)) => x8' = x8 + 1 /\ x1' = x1 /\ x9' = x9
  BY DEF F!Scan, F!IPInfo, F!max_comp_len, F!EndsThereOrLater
<1>2. "scan" \in BeforeHit /\ "scan" # "idle" /\ "scan" \notin {"found", "normal"}
  BY DEF BeforeHit
<1>3. /\ x2 \in Databases /\ Len(x2) \in Nat /\ x3 = Len(x2) + 1 /\ x6 # {}
      /\ x7 \in Addresses /\ x9 = -1 /\ (F!IsAddress(x7) => Passed(x2, x7, x8)) /\ x8 \in 0..Len(x2)
      /\ x10 = F!Fresh
  <2>1. Stored(x2, x3, x4, x5, x6) /\ Search(x1, x2, x6, x7, x8, x9) /\ Given(x1, x2, x9, x10, x11)
    BY Zenon DEF FinderInv
  <2>2. /\ x6 # {} /\ x7 \in Addresses /\ x9 = -1 /\ (F!IsAddress(x7) => Passed(x2, x7, x8))
        /\ x8 \in 0..Len(x2)
    BY <1>1, <1>2, <2>1, Zenon DEF Search
  <2>3. x10 = F!Fresh
    BY <1>1, <1>2, <2>1, Zenon DEF Given
  <2> QED
    BY <2>1, <2>2, <2>3, DatabaseIs, Zenon DEF Stored
<1>4. F!ip2long_value(x7) \in Nat /\ \A r \in 1..Len(x2) : x2[r].last \in Nat
  BY <1>3, NumberIs, DatabaseIs, Zenon
<1>5. x7 # NoAddress
  BY <1>3, Zenon DEF F!FinderConstants
<1>6. "parse" \in Phases /\ "parse" \notin BeforeHit /\ "parse" # "scan" /\ "parse" # "idle" /\ "scan" \in Phases
  BY DEF Phases, BeforeHit
<1>7. -1 \in -1..(Len(x2) - 1)
  BY <1>3
<1>8. Search(x1', x2', x6', x7', x8', x9')
  <2>1. CASE x8 >= x3 - 1
    <3>1. x8 = Len(x2) /\ x1' = "parse" /\ x8' = x8 /\ x9' = x9
      BY <1>1, <1>3, <2>1
    <3>2. F!IsAddress(x7) => Record(x2, x7) = -1
      BY <1>3, <3>1, RecordNone, Zenon DEF Passed
    <3>3. Hit(x2, x7, -1)
      BY <1>5, <3>2, Zenon DEF Hit
    <3> QED
      BY <1>1, <1>3, <1>6, <1>7, <3>1, <3>3, Zenon DEF Search
  <2>2. CASE ~(x8 >= x3 - 1) /\ x2[x8 + 1].last >= F!ip2long_value(x7)
    <3>1. x8 \in Nat /\ x8 < Len(x2) /\ x8 \in -1..(Len(x2) - 1)
      BY <1>3, <2>2
    <3>2. F!IsAddress(x7) => Record(x2, x7) = x8
      BY <1>3, <2>2, <3>1, RecordFound, Zenon DEF Passed
    <3>3. x1' = "parse" /\ x9' = x8 /\ x8' = x8
      BY <1>1, <2>2, Zenon
    <3>4. Hit(x2, x7, x8)
      BY <1>5, <2>2, <3>2, Zenon DEF Hit
    <3> QED
      BY <1>1, <1>3, <1>6, <3>1, <3>3, <3>4, Zenon DEF Search
  <2>3. CASE ~(x8 >= x3 - 1) /\ ~(x2[x8 + 1].last >= F!ip2long_value(x7))
    <3>1. x8 + 1 \in 1..Len(x2) /\ x8 + 1 \in 0..Len(x2) /\ \A r \in 1..(x8 + 1) : r \in 1..x8 \/ r = x8 + 1
      BY <1>3, <2>3
    <3>2. x2[x8 + 1].last < F!ip2long_value(x7)
      <4>1. x2[x8 + 1].last \in Nat
        BY <1>4, <3>1, Zenon
      <4> QED
        BY <1>4, <2>3, <4>1
    <3>3. F!IsAddress(x7) => Passed(x2, x7, x8 + 1)
      BY <1>3, <3>1, <3>2, Zenon DEF Passed
    <3>4. x8' = x8 + 1 /\ x1' = x1 /\ x9' = x9
      BY <1>1, <2>3, Zenon
    <3> QED
      BY <1>1, <1>2, <1>3, <1>6, <1>7, <3>1, <3>3, <3>4, Zenon DEF Search
  <2> QED
    BY <2>1, <2>2, <2>3, Zenon
<1>9. Given(x1', x2', x9', x10', x11')
  <2>1. x1' \in {"parse", "scan"} /\ x10' = F!Fresh
    <3>1. (x8 >= x3 - 1) \/ ~(x8 >= x3 - 1)
      OBVIOUS
    <3> QED
      BY <1>1, <1>3, <3>1, Zenon
  <2> QED
    BY <2>1 DEF Given
<1> QED
  BY <1>1, <1>8, <1>9, StoredStays, Zenon DEF FinderInv

(* What holds when find has returned its record.                           *)
LEMMA AtParse ==
    ASSUME F!FinderConstants, FinderInv, x1 \notin BeforeHit
    PROVE  /\ x2 \in Databases /\ x6 # {} /\ Hit(x2, x7, x9) /\ x8 \in 0..Len(x2)
           /\ x9 \in -1..(Len(x2) - 1) /\ Row7(x2, x9) \in Fields
           /\ x7 = NoAddress => x9 = -1
           /\ x1 = "parse" => x10 = F!Fresh
           /\ x1 = "found" => x10 = Row7(x2, x9)
<1>1. Stored(x2, x3, x4, x5, x6) /\ Search(x1, x2, x6, x7, x8, x9) /\ Given(x1, x2, x9, x10, x11)
  BY Zenon DEF FinderInv
<1>2. x1 # "idle"
  BY DEF BeforeHit
<1>3. x2 \in Databases /\ x6 # {} /\ Hit(x2, x7, x9) /\ x8 \in 0..Len(x2) /\ x9 \in -1..(Len(x2) - 1)
  BY <1>1, <1>2, Zenon DEF Stored, Search
<1>4. x1 = "parse" => x10 = F!Fresh
  BY <1>1 DEF Given
<1>5. x1 = "found" => x10 = Row7(x2, x9)
  BY <1>1, Zenon DEF Given
<1>6. Row7(x2, x9) \in Fields
  BY <1>3, RowIs, Zenon
<1>7. x7 = NoAddress => x9 = -1
  BY <1>3, Zenon DEF Hit, Record
<1> QED
  BY <1>3, <1>4, <1>5, <1>6, <1>7, Zenon

(* A step from there that leaves what was sought.                          *)
LEMMA SearchStays ==
    ASSUME F!FinderConstants, FinderInv, x1 \notin BeforeHit, x1' \in Phases \ BeforeHit,
           x2' = x2, x6' = x6, x7' = x7, x8' = x8, x9' = x9
    PROVE  Search(x1', x2', x6', x7', x8', x9')
<1>1. x1' # "scan"
  BY DEF BeforeHit
<1> QED
  BY <1>1, AtParse, Zenon DEF Search

(* Find cuts the text into fields, and ParseLocation replaces some.        *)
LEMMA TakeStep ==
    ASSUME F!FinderConstants, FinderInv, F!Parse \/ F!ParseLocation
    PROVE  FinderInv'
<1>1. /\ x2' = x2 /\ x3' = x3 /\ x4' = x4 /\ x5' = x5 /\ x6' = x6 /\ x7' = x7 /\ x8' = x8 /\ x9' = x9
      /\ x11' = x11 /\ x1 \notin BeforeHit /\ x1' \in {"found", "normal"}
  BY DEF F!Parse, F!ParseLocation, F!IPInfo, BeforeHit
<1>2. Given(x1', x2', x9', x10', x11')
  <2>1. x2 \in Databases /\ x9 \in -1..(Len(x2) - 1)
    BY <1>1, AtParse, Zenon
  <2>2. CASE F!Parse
    <3>1. x1 = "parse" /\ x1' = "found" /\ x10 = F!Fresh
      BY <1>1, <2>2, AtParse, Zenon DEF F!Parse
    <3>2. x10' = Filled(F!strtok_r_2(Picked(x2, x9)))
      BY <2>2, <3>1, PickedText, Zenon DEF F!Parse, F!NFields, Filled
    <3>3. x10' = Row7(x2, x9)
      BY <2>1, <3>2, FilledIs, Zenon
    <3> QED
      BY <1>1, <3>1, <3>3 DEF Given
  <2>3. CASE F!ParseLocation
    <3>1. x1 = "found" /\ x1' = "normal" /\ x10' = F!Normalised(x10)
      BY <2>3, Zenon DEF F!ParseLocation
    <3>2. x10 = Row7(x2, x9)
      BY <1>1, <3>1, AtParse, Zenon
    <3> QED
      BY <1>1, <3>1, <3>2 DEF Given
  <2> QED
    BY <2>2, <2>3, Zenon
<1>3. x1' \in Phases \ BeforeHit
  BY <1>1 DEF Phases, BeforeHit
<1> QED
  BY <1>1, <1>2, <1>3, StoredStays, SearchStays, Zenon DEF FinderInv

(* GetISPInfo and GetLatLngInfo say the words of the record.               *)
LEMMA TellStep ==
    ASSUME F!FinderConstants, FinderInv, F!GetISPInfo \/ F!GetLatLngInfo
    PROVE  FinderInv'
<1>1. /\ x2' = x2 /\ x3' = x3 /\ x4' = x4 /\ x5' = x5 /\ x6' = x6 /\ x7' = x7 /\ x8' = x8 /\ x9' = x9
      /\ x10' = x10 /\ x1 = "parse" /\ x1' \in {"told", "where"} /\ x1 \notin BeforeHit
  BY DEF F!GetISPInfo, F!GetLatLngInfo, F!IPInfo, BeforeHit
<1>2. x2 \in Databases /\ x9 \in -1..(Len(x2) - 1) /\ (x7 = NoAddress => x9 = -1) /\ x10 = F!Fresh
  BY <1>1, AtParse, Zenon
<1>3. /\ ToldRight(x2, x9, Told(x7, F!strtok_r_2(Picked(x2, x9))))
      /\ WhereRight(x2, x9, Whereabouts(x7, F!strtok_r_2(Picked(x2, x9))))
  BY <1>2, ToldIsRight, Zenon
<1>4. Given(x1', x2', x9', x10', x11')
  <2>1. CASE F!GetISPInfo
    <3>1. x1' = "told"
      BY <2>1, Zenon DEF F!GetISPInfo
    <3>2. x11' = Told(x7, F!strtok_r_2(Picked(x2, x9)))
      BY <2>1, PickedText, Zenon DEF F!GetISPInfo, Told
    <3>3. ToldRight(x2, x9, x11')
      BY <1>3, <3>2, Zenon
    <3> QED
      BY <1>1, <1>2, <3>1, <3>3 DEF Given
  <2>2. CASE F!GetLatLngInfo
    <3>1. x1' = "where"
      BY <2>2, Zenon DEF F!GetLatLngInfo
    <3>2. x11' = Whereabouts(x7, F!strtok_r_2(Picked(x2, x9)))
      BY <2>2, PickedText, Zenon DEF F!GetLatLngInfo, Whereabouts
    <3>3. WhereRight(x2, x9, x11')
      BY <1>3, <3>2, Zenon
    <3> QED
      BY <1>1, <1>2, <3>1, <3>3 DEF Given
  <2> QED
    BY <2>1, <2>2, Zenon
<1>5. x1' \in Phases \ BeforeHit
  BY <1>1 DEF Phases, BeforeHit
<1> QED
  BY <1>1, <1>4, <1>5, StoredStays, SearchStays, Zenon DEF FinderInv

(* The caller is done with the result.                                     *)
LEMMA DoneStep ==
    ASSUME F!FinderConstants, FinderInv, F!Done
    PROVE  FinderInv'
<1>1. /\ x2' = x2 /\ x3' = x3 /\ x4' = x4 /\ x5' = x5 /\ x6' = x6
      /\ x1' = "idle" /\ x8' = 0 /\ x9' = -1 /\ x10' = F!Fresh
  BY DEF F!Done, F!IPInfo
<1>2. 0 \in 0..Len(x2) /\ -1 \in -1..(Len(x2) - 1)
  <2>1. x2 \in Databases
    BY Zenon DEF FinderInv, Stored
  <2>2. Len(x2) \in Nat
    BY <2>1, DatabaseIs, Zenon
  <2> QED
    BY <2>2
<1>3. Search(x1', x2', x6', x7', x8', x9')
  BY <1>1, <1>2 DEF Search, Phases, BeforeHit
<1>4. Given(x1', x2', x9', x10', x11')
  BY <1>1 DEF Given
<1> QED
  BY <1>1, <1>3, <1>4, StoredStays, Zenon DEF FinderInv

(* Every step keeps the invariant.                                         *)
LEMMA FinderStep == ASSUME F!FinderConstants, FinderInv, F!Next PROVE FinderInv'
<1>1. CASE \E f \in Finder : F!Construct(f) \/ F!Destroy(f)
  BY <1>1, ConstructStep, DestroyStep, Zenon
<1>2. CASE \E a \in Addresses \cup {NoAddress} : F!Find(a)
  BY <1>2, LookStep, Zenon
<1>3. CASE F!Scan
  BY <1>3, ScanStep, Zenon
<1>4. CASE F!Parse \/ F!ParseLocation
  BY <1>4, TakeStep, Zenon
<1>5. CASE F!GetISPInfo \/ F!GetLatLngInfo
  BY <1>5, TellStep, Zenon
<1>6. CASE F!Done
  BY <1>6, DoneStep, Zenon
<1> QED
  BY <1>1, <1>2, <1>3, <1>4, <1>5, <1>6, Zenon DEF F!Next

(* What ParseLocation makes of seven fields.                               *)
LEMMA NormalisedIs ==
    ASSUME F!FinderConstants, NEW l \in Fields
    PROVE  LET m == F!Normalised(l)
           IN  /\ m \in [1..7 -> Word \cup {NOWHERE, OVERSEAS}]
               /\ m[1] = OVERSEAS <=> l[1] \notin {EMPTY, CHINA, LAN, RESERVED}
               /\ l[1] = CHINA => m = l
<1> DEFINE m == F!Normalised(l)
<1>1. /\ CHINA \notin {EMPTY, LAN, RESERVED} /\ OVERSEAS \notin {CHINA, NOWHERE}
      /\ \A x \in 1..7 : l[x] \in Word
      /\ l = [x \in 1..7 |-> l[x]]
  BY DEF F!FinderConstants, Fields
<1>2. CASE l[1] \in {EMPTY, LAN, RESERVED}
  <2>1. m = [x \in 1..7 |-> IF x \in {1, 2, 5} THEN NOWHERE ELSE l[x]]
    BY <1>1, <1>2 DEF F!Normalised, F!NFields
  <2> HIDE DEF m
  <2>2. m[1] = NOWHERE /\ m \in [1..7 -> Word \cup {NOWHERE, OVERSEAS}]
    BY <1>1, <2>1
  <2>3. m[1] # OVERSEAS /\ l[1] # CHINA
    BY <1>1, <1>2, <2>2
  <2> QED
    BY <1>2, <2>2, <2>3 DEF m
<1>3. CASE l[1] = CHINA
  <2>1. m = l
    BY <1>1, <1>3 DEF F!Normalised
  <2> HIDE DEF m
  <2>2. m \in [1..7 -> Word \cup {NOWHERE, OVERSEAS}]
    BY <1>1, <2>1
  <2> QED
    BY <1>1, <1>3, <2>1, <2>2 DEF m
<1>4. CASE l[1] \notin {EMPTY, CHINA, LAN, RESERVED}
  <2>1. m = [x \in 1..7 |-> IF x \in {1, 2, 5} THEN OVERSEAS ELSE l[x]]
    BY <1>1, <1>4 DEF F!Normalised, F!NFields
  <2> HIDE DEF m
  <2>2. m[1] = OVERSEAS /\ m \in [1..7 -> Word \cup {NOWHERE, OVERSEAS}]
    BY <1>1, <2>1
  <2> QED
    BY <1>4, <2>2 DEF m
<1>5. \/ l[1] \in {EMPTY, LAN, RESERVED} \/ l[1] = CHINA \/ l[1] \notin {EMPTY, CHINA, LAN, RESERVED}
  OBVIOUS
<1> QED
  BY <1>2, <1>3, <1>4, <1>5, Zenon

(* It gives all that is said of lookups.                                   *)
LEMMA FinderPart ==
    ASSUME F!FinderConstants, FinderInv
    PROVE  F!TypeOK /\ F!FindsItsRange /\ F!InfoIsOfRange /\ F!LookupHasData /\ F!AbroadIsOverseas
<1> DEFINE fields == Row7(x2, x9)
<1>1. Stored(x2, x3, x4, x5, x6) /\ Search(x1, x2, x6, x7, x8, x9) /\ Given(x1, x2, x9, x10, x11)
  BY Zenon DEF FinderInv
<1>2. x2 \in Databases /\ Len(x2) \in Nat /\ x9 \in -1..(Len(x2) - 1)
  BY <1>1, DatabaseIs, Zenon DEF Stored, Search
<1>3. fields \in Fields
  BY <1>2, RowIs, Zenon
<1>4. F!RecordOf(x7) = Record(x2, x7) /\ F!FieldsFound = fields
  BY RecordIs, FieldsAre, Zenon
<1>5. ASSUME x1 \in {"found", "told", "where"}
      PROVE  /\ F!Sought => x9 = F!RecordOf(x7)
             /\ x9 # -1 => F!EndsThereOrLater(x9, x7)
  <2>1. x1 \notin BeforeHit
    BY <1>5 DEF BeforeHit
  <2>2. Hit(x2, x7, x9)
    BY <2>1, AtParse, Zenon
  <2> QED
    BY <1>4, <2>2, Zenon DEF Hit, F!Sought, F!EndsThereOrLater
<1> HIDE DEF fields
<1>6. F!FindsItsRange
  <2>1. x1 = "found" => x10 = fields
    BY <1>1, Zenon DEF Given, fields
  <2> QED
    BY <1>4, <1>5, <2>1 DEF F!FindsItsRange
<1>7. F!InfoIsOfRange
  <2>1. ASSUME x1 = "told"
        PROVE  IF x9 = -1 THEN x11 = <<JUNK>> ELSE F!Words(x11) = F!Words(Only(fields, {1, 2, 4, 5}))
    BY <1>1, <2>1, Zenon DEF Given, ToldRight, fields
  <2>2. ASSUME x1 = "where" PROVE F!Words(x11) = F!Words(Only(fields, {6, 7}))
    BY <1>1, <2>2, Zenon DEF Given, WhereRight, fields
  <2>3. x1 \in {"told", "where"} /\ F!Sought => x9 = F!RecordOf(x7)
    BY <1>5
  <2> QED
    BY <1>4, <2>1, <2>2, <2>3, Zenon DEF F!InfoIsOfRange, Only, F!NFields
<1>8. F!LookupHasData
  <2> SUFFICES ASSUME x1 \in {"scan", "parse"} PROVE x4 = "valid"
    BY Zenon DEF F!LookupHasData
  <2>1. x1 # "idle"
    OBVIOUS
  <2> QED
    BY <1>1, <2>1, Zenon DEF Stored, Search
<1>9. F!AbroadIsOverseas
  <2> SUFFICES ASSUME x1 = "normal"
               PROVE  /\ x10[1] = OVERSEAS <=> F!FieldsFound[1] \notin {EMPTY, CHINA, LAN, RESERVED}
                      /\ F!FieldsFound[1] = CHINA => x10 = F!FieldsFound
    BY Zenon DEF F!AbroadIsOverseas
  <2>1. x10 = F!Normalised(fields)
    BY <1>1, Zenon DEF Given, fields
  <2> QED
    BY <1>3, <1>4, <2>1, NormalisedIs, Zenon
<1>10. F!TypeOK
  <2>1. x10 \in [1..7 -> Word \cup {NOWHERE, OVERSEAS}]
    <3>1. \A l \in Fields : l \in [1..7 -> Word \cup {NOWHERE, OVERSEAS}]
      BY DEF Fields
    <3>2. F!Fresh \in Fields
      BY NothingSaid, Zenon
    <3>3. F!Normalised(fields) \in [1..7 -> Word \cup {NOWHERE, OVERSEAS}]
      BY <1>3, NormalisedIs, Zenon
    <3>4. x10 \in {F!Fresh, fields, F!Normalised(fields)}
      BY <1>1 DEF Given, fields
    <3> QED
      BY <1>3, <3>1, <3>2, <3>3, <3>4
  <2>2. /\ x3 \in {0, Len(x2) + 1} /\ x4 \in {"none", "valid", "freed"} /\ x6 \subseteq Finder
        /\ x1 \in {"idle", "scan", "parse", "found", "normal", "told", "where", "astray"} /\ x8 \in 0..Len(x2)
    BY <1>1, Zenon DEF Stored, Search, Phases
  <2> QED
    BY <1>2, <2>1, <2>2, Zenon DEF F!TypeOK, F!NFields
<1> QED
  BY <1>6, <1>7, <1>8, <1>9, <1>10, Zenon

(* The inductive invariant of the finder and of the folders.               *)
DiskInv ==
    /\ part = "finder" => FinderInv
    /\ part = "files" => FilesInv

(* It holds at the start of every behaviour.                               *)
LEMMA DiskInit == ToolsInit => DiskInv
<1> SUFFICES ASSUME ToolsInit PROVE DiskInv
  OBVIOUS
<1>1. F!FinderConstants /\ Folder!PathConstants
  BY FinderConstants, FileConstants, Zenon
<1>2. ASSUME part = "finder" PROVE F!Init
  BY <1>2 DEF ToolsInit
<1>3. ASSUME part = "files" PROVE Folder!Init
  BY <1>3 DEF ToolsInit
<1> QED
  BY <1>1, <1>2, <1>3, FinderInit, FilesInit, Zenon DEF DiskInv

(* It holds on as long as nothing changes.                                 *)
LEMMA DiskStutters == ASSUME DiskInv, UNCHANGED <<part, slots>> PROVE DiskInv'
<1>1. /\ part' = part /\ x1' = x1 /\ x2' = x2 /\ x3' = x3 /\ x4' = x4 /\ x5' = x5 /\ x6' = x6
      /\ x7' = x7 /\ x8' = x8 /\ x9' = x9 /\ x10' = x10 /\ x11' = x11 /\ x12' = x12
  BY DEF slots, above8
<1>2. FinderInv => FinderInv'
  BY <1>1, Zenon DEF FinderInv
<1>3. FilesInv => FilesInv'
  BY <1>1, Zenon DEF FilesInv
<1> QED
  BY <1>1, <1>2, <1>3, Zenon DEF DiskInv

(* Every step keeps it.                                                    *)
LEMMA DiskStep == DiskInv /\ [ToolsNext]_<<part, slots>> => DiskInv'
<1> SUFFICES ASSUME DiskInv, [ToolsNext]_<<part, slots>> PROVE DiskInv'
  OBVIOUS
<1>1. F!FinderConstants /\ Folder!PathConstants
  BY FinderConstants, FileConstants, Zenon
<1>2. CASE ToolsNext
  <2>1. part' = part
    BY <1>2, Zenon DEF ToolsNext
  <2>2. ASSUME part = "finder" PROVE F!Next
    BY <1>2, <2>2 DEF ToolsNext
  <2>3. ASSUME part = "files" PROVE Folder!Next
    BY <1>2, <2>3 DEF ToolsNext
  <2>4. ASSUME part = "finder" PROVE FinderInv'
    BY <1>1, <2>2, <2>4, FinderStep, Zenon DEF DiskInv
  <2>5. ASSUME part = "files" PROVE FilesInv'
    BY <1>1, <2>3, <2>5, FilesStep, Zenon DEF DiskInv
  <2> QED
    BY <2>1, <2>4, <2>5, Zenon DEF DiskInv
<1>3. CASE UNCHANGED <<part, slots>>
  BY <1>3, DiskStutters
<1> QED
  BY <1>2, <1>3

(* Lookups give the record of the address, field by field, from a database
   that is there, and folders are listed, made and removed as named while
   others change them: in every state, for all databases, addresses, trees
   and paths (ipip.cpp, IPFinder.cpp, FileEx.cpp).                         *)
THEOREM FilesAlwaysRight == ToolsSpec => []FilesRight
<1>1. DiskInv => FilesRight
  BY FinderConstants, FileConstants, FinderPart, FilesPart, Zenon DEF DiskInv, FilesRight
<1> QED
  BY <1>1, DiskInit, DiskStep, PTL DEF ToolsSpec
=============================================================================
