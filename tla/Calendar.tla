------------------------------- MODULE Calendar -------------------------------
(***************************************************************************)
(* The calendar of CTime (src/base/Time.cpp): a date and a time of day are *)
(* a count of days, of which 1900-1-1 is day 1, and a count of seconds.    *)
(* _SetDate refuses years before 1900; the constants have none.            *)
(***************************************************************************)
EXTENDS Integers, Sequences, FiniteSets, SequencesExt

SECOND_PERDAY == 86400
SECOND_PERHOUR == 3600
At(days, seconds) == [m_nDays |-> days, m_nSeconds |-> seconds]

(* What the loops over the years from 1900, and over the months of a year,
   add up to.                                                              *)
FirstYear == 1900
LastYear == 2100        \* and those after it: _GetDate's loop ends here
LeapByFour(y) == y % 4 = 0
Leap(y) == (y % 4 = 0 /\ y % 100 /= 0) \/ y % 400 = 0
DaysOfYear(y) == IF Leap(y) THEN 366 ELSE 365
anMonthDay(leap) == <<31, IF leap THEN 29 ELSE 28, 31, 30, 31, 30, 31, 31, 30, 31, 30, 31>>

YearsAdded[y \in FirstYear..(LastYear + 1)] ==
    IF y = FirstYear THEN 0 ELSE YearsAdded[y - 1] + DaysOfYear(y - 1)
DaysBeforeYear == [y \in FirstYear..(LastYear + 1) |-> YearsAdded[y]]
DaysBeforeMonth ==
    [leap \in BOOLEAN |->
        LET MonthsAdded[n \in 1..12] ==
                IF n = 1 THEN 0 ELSE MonthsAdded[n - 1] + anMonthDay(leap)[n - 1]
        IN  [n \in 1..12 |-> MonthsAdded[n]]]

SecondsOf(h, min, s) == h * SECOND_PERHOUR + min * 60 + s

_SetDate(d, c) ==
    At(DaysBeforeYear[d[1]] + DaysBeforeMonth[Leap(d[1])][d[2]] + d[3], SecondsOf(c[1], c[2], c[3]))

(* The loop takes a year as long as a day is left: it stops at the one that
   begins before the day and does not end before it, or at 2100.  So with the
   months, up to December.  Neither loop begins on a day before 1900-1-1.  *)
_GetDate(x) ==
    IF x.m_nDays <= 0 THEN <<FirstYear - 1, 0, x.m_nDays>> ELSE
    LET y == CHOOSE y \in FirstYear..LastYear :
                 /\ DaysBeforeYear[y] < x.m_nDays
                 /\ y < LastYear => x.m_nDays <= DaysBeforeYear[y + 1]
        day == x.m_nDays - DaysBeforeYear[y]
        n == CHOOSE n \in 1..12 :
                 /\ DaysBeforeMonth[Leap(y)][n] < day
                 /\ n < 12 => day <= DaysBeforeMonth[Leap(y)][n + 1]
    IN <<y, n, day - DaysBeforeMonth[Leap(y)][n]>>
_GetTime(x) ==
    <<x.m_nSeconds \div SECOND_PERHOUR,
      (x.m_nSeconds % SECOND_PERHOUR) \div 60, x.m_nSeconds % 60>>
GetDayOfWeek(x) == (x.m_nDays % 7) + 1

-----------------------------------------------------------------------------
(* The quotient and the remainder of C.                                    *)
Quot(a, b) == IF a < 0 THEN -((-a) \div b) ELSE a \div b
Rem(a, b) == a - b * Quot(a, b)

(* The order of times, and that of spans.                                  *)
Less(x, y) ==
    \/ x.m_nDays < y.m_nDays
    \/ x.m_nDays = y.m_nDays /\ x.m_nSeconds < y.m_nSeconds
Equal(x, y) == ~(Less(x, y) \/ Less(y, x))

(* Spans.                                                                  *)
SpanOfSeconds(nSec) == At(Quot(nSec, SECOND_PERDAY), Rem(nSec, SECOND_PERDAY))
_SetTimeSpan(s) == At(s[1], SecondsOf(s[2], s[3], s[4]))
GetTotalHours(s) == s.m_nDays * 24 + Quot(s.m_nSeconds, SECOND_PERHOUR)
GetTotalMinutes(s) == Quot(s.m_nSeconds, 60) + s.m_nDays * 24 * 60
GetMinutes(s) == Quot(Rem(s.m_nSeconds, SECOND_PERHOUR), 60)

-----------------------------------------------------------------------------
(* Reference: the Julian day number of a date of the Gregorian calendar.   *)
JulianDay(d) ==
    LET a == (14 - d[2]) \div 12
        y == d[1] + 4800 - a
    IN d[3] + (153 * (d[2] + 12 * a - 3) + 2) \div 5
         + 365 * y + y \div 4 - y \div 100 + y \div 400 - 32045
FirstOfNext(d) == IF d[2] = 12 THEN <<d[1] + 1, 1, 1>> ELSE <<d[1], d[2] + 1, 1>>

(* x is a day of the calendar, on its weekday, and what constructs it again. *)
OnTheCalendar(x) ==
    LET d == _GetDate(x) c == _GetTime(x) IN
    1 <= x.m_nDays /\ x.m_nDays <= 73414 =>
        /\ JulianDay(d) - JulianDay(<<1900, 1, 1>>) + 1 = x.m_nDays
        /\ d[3] >= 1 /\ JulianDay(d) < JulianDay(FirstOfNext(d))
        /\ GetDayOfWeek(x) = ((JulianDay(d) + 1) % 7) + 1
        /\ _SetDate(d, c) = x
===============================================================================
