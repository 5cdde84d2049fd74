------------------------------ MODULE TimeFields ------------------------------
(***************************************************************************)
(* What times and spans say of themselves (src/base/Time.cpp, TimeSpan.cpp):*)
(* their fields, their order, and CTime::Format, whose text strftime       *)
(* writes.  A text is a sequence of pieces, one for a conversion or a      *)
(* letter: a name, the digits of a number, or a whole year; the buffer is  *)
(* counted in pieces.  Days before 1900 are left out but for day 0, the    *)
(* value of CTime().                                                       *)
(***************************************************************************)
EXTENDS Calendar

CONSTANTS
    Clock,          \* <<date, time of day>> that localtime_r may give
    Day,            \* days t may be on: 0, days of the calendar and later ones
    Second,         \* seconds of a time; of a span with their negatives
    Formats,        \* sequences of conversions, which are strings of one letter
    YearDay,        \* what tm_yday, which nothing sets, may hold
    FirstRoom,      \* size of the first buffer
    MaxRoom,        \* bound: a larger buffer cannot be allocated
    MaxCalls        \* bound: calls in a behaviour

VARIABLES
    t, u,           \* CTime
    span, other,    \* CTimeSpan
    format, room, tmTmp, strText,   \* CTime::Format
    pc, calls

values     == <<t, u, span, other>>
formatVars == <<format, room, tmTmp, strText>>
vars == <<values, formatVars, pc, calls>>

FieldConstants ==
    /\ Day \subseteq Nat /\ Second \subseteq 0..(SECOND_PERDAY - 1)
    /\ Clock \subseteq ((FirstYear..LastYear) \X (1..12) \X (1..31)) \X ((0..23) \X (0..59) \X (0..59))
    /\ Formats \subseteq Seq(STRING) /\ YearDay \subseteq Nat
    /\ FirstRoom \in Nat \ {0} /\ MaxRoom \in Nat /\ MaxCalls \in Nat

(* GetYear to GetDayOfWeek of a time; GetHours to GetTotalSeconds of a span. *)
FieldsOf(x) ==
    LET d == _GetDate(x) c == _GetTime(x) IN
    [year |-> d[1], month |-> d[2], day |-> d[3], hour |-> c[1], minute |-> c[2], second |-> c[3],
     dayOfWeek |-> GetDayOfWeek(x)]
FieldsOfSpan(s) ==
    [days |-> s.m_nDays, hours |-> Quot(s.m_nSeconds, SECOND_PERHOUR), minutes |-> GetMinutes(s),
     seconds |-> Rem(s.m_nSeconds, 60),
     totalHours |-> GetTotalHours(s), totalMinutes |-> GetTotalMinutes(s),
     totalSeconds |-> s.m_nDays * SECOND_PERDAY + s.m_nSeconds]

(* The six comparisons of two times, and of two spans.                     *)
TimesCompare(x, y) ==
    [lt |-> Less(x, y), eq |-> Equal(x, y), ne |-> Less(x, y) \/ Less(y, x), gt |-> Less(y, x),
     le |-> Less(x, y) \/ Equal(x, y), ge |-> ~Less(x, y)]
SpansCompare(x, y) ==
    [lt |-> Less(x, y), eq |-> Equal(x, y), ne |-> Less(x, y) \/ Less(y, x), gt |-> Less(y, x),
     le |-> ~Less(y, x), ge |-> ~Less(x, y)]

-----------------------------------------------------------------------------
(* _GetValue, which nothing calls: a name, or "" past the end of its table. *)
InTable(table, n) == IF n \in DOMAIN table THEN table[n] ELSE ""
_GetDayofWeekAbbrevName(n) == InTable(<<"Sun", "Mon", "Tue", "Wed", "Thu", "Fri", "Sat">>, n)
_GetDayofWeekFullName(n) ==
    InTable(<<"Sunday", "Monday", "Tuesday", "Wednesday", "Thursday", "Friday", "Saturday">>, n)
_GetMonthAbbrevName(n) ==
    InTable(<<"Jan", "Feb", "Mar", "Apr", "May", "Jun", "Jul", "Aug", "Sep", "Oct", "Nov", "Dec">>, n)
_GetMonthFullName(n) ==
    InTable(<<"January", "February", "March", "April", "May", "June", "July", "August",
              "September", "October", "November", "December">>, n)

Padded(n) == <<n \div 10, n % 10>>
_GetValue(f, cFormat) ==
    CASE cFormat = "a" -> <<_GetDayofWeekAbbrevName(f.dayOfWeek)>>
      [] cFormat = "A" -> <<_GetDayofWeekFullName(f.dayOfWeek)>>
      [] cFormat = "b" -> <<_GetMonthAbbrevName(f.month)>>
      [] cFormat = "B" -> <<_GetMonthFullName(f.month)>>
      [] cFormat = "d" -> Padded(f.day)
      [] cFormat = "H" -> Padded(f.hour)
      [] cFormat = "I" -> <<f.hour % 12>>
      [] cFormat = "m" -> Padded(f.month)
      [] cFormat = "M" -> Padded(f.minute)
      [] cFormat = "p" -> <<IF f.hour \div 12 = 0 THEN "AM" ELSE "PM">>
      [] cFormat = "S" -> Padded(f.second)
      [] cFormat = "w" -> <<f.dayOfWeek - 1>>
      [] cFormat = "Y" -> <<f.year>>
      [] OTHER -> <<cFormat>>

(* strftime, in the C locale: nothing calls setlocale.                     *)
DayName == <<"Sunday", "Monday", "Tuesday", "Wednesday", "Thursday", "Friday", "Saturday">>
DayAbbreviation == <<"Sun", "Mon", "Tue", "Wed", "Thu", "Fri", "Sat">>
MonthName ==
    <<"January", "February", "March", "April", "May", "June", "July", "August", "September",
      "October", "November", "December">>
MonthAbbreviation ==
    <<"Jan", "Feb", "Mar", "Apr", "May", "Jun", "Jul", "Aug", "Sep", "Oct", "Nov", "Dec">>
NameAt(table, x) == <<IF x + 1 \in DOMAIN table THEN table[x + 1] ELSE "?">>
Converted(tm, c) ==
    CASE c = "a" -> NameAt(DayAbbreviation, tm.tm_wday)
      [] c = "A" -> NameAt(DayName, tm.tm_wday)
      [] c = "b" -> NameAt(MonthAbbreviation, tm.tm_mon)
      [] c = "B" -> NameAt(MonthName, tm.tm_mon)
      [] c = "d" -> Padded(tm.tm_mday)
      [] c = "H" -> Padded(tm.tm_hour)
      [] c = "I" -> Padded(((tm.tm_hour + 11) % 12) + 1)
      [] c = "j" -> <<tm.tm_yday + 1>>
      [] c = "m" -> Padded(tm.tm_mon + 1)
      [] c = "M" -> Padded(tm.tm_min)
      [] c = "p" -> <<IF tm.tm_hour < 12 THEN "AM" ELSE "PM">>
      [] c = "S" -> Padded(tm.tm_sec)
      [] c = "w" -> <<tm.tm_wday>>
      [] c = "Y" -> <<tm.tm_year + 1900>>
      [] OTHER -> <<c>>
Expanded(tm, f) == [k \in 1..Len(f) |-> Converted(tm, f[k])]
Strftime(size, f, tm) == IF Len(f) + 1 <= size THEN Len(f) ELSE 0

-----------------------------------------------------------------------------
Tm(f, yday) ==
    [tm_year |-> f.year - 1900, tm_mon |-> f.month - 1, tm_mday |-> f.day,
     tm_hour |-> f.hour, tm_min |-> f.minute, tm_sec |-> f.second,
     tm_wday |-> f.dayOfWeek - 1, tm_yday |-> yday]

(* Spans of seconds, whose days and seconds have one sign, and spans of days
   and seconds, as the difference of two times is.                         *)
Span ==
    {SpanOfSeconds(d * SECOND_PERDAY + s) : d \in {-1, 0, 1}, s \in Second \cup {-s : s \in Second}}
    \cup {At(d, s) : d \in {-1, 0, 1}, s \in Second}

Init ==
    /\ other = At(0, 0)
    /\ \/ /\ t \in {At(d, s) : d \in Day, s \in Second} /\ span = other
          /\ u \in {At(t.m_nDays, s) : s \in Second}
       \/ t = At(0, 0) /\ u = t /\ span \in Span
    /\ pc = "idle" /\ calls = 0
    /\ format = <<>> /\ room = 0 /\ tmTmp = Tm(FieldsOf(At(0, 0)), 0) /\ strText = <<>>

Call == pc = "idle" /\ calls < MaxCalls /\ calls' = calls + 1

GetCurrentTime ==
    /\ Call
    /\ \E now \in Clock : t' = _SetDate(now[1], now[2])
    /\ UNCHANGED <<u, span, other, formatVars, pc>>
Copy == Call /\ u' = t /\ other' = span /\ UNCHANGED <<t, span, formatVars, pc>>
SetTimeSpan ==
    /\ Call
    /\ \E s \in Span : other' = At(s.m_nDays, s.m_nSeconds)
    /\ UNCHANGED <<t, u, span, formatVars, pc>>

Format ==
    /\ Call
    /\ \E f \in Formats, yday \in YearDay : format' = f /\ tmTmp' = Tm(FieldsOf(t), yday)
    /\ room' = FirstRoom /\ pc' = "format"
    /\ UNCHANGED <<values, strText>>
Fill ==
    /\ pc = "format"
    /\ IF Strftime(room, format, tmTmp) = 0
       THEN /\ room' = 2 * room
            /\ pc' = IF 2 * room > MaxRoom THEN "bad_alloc" ELSE pc
            /\ UNCHANGED strText
       ELSE strText' = Expanded(tmTmp, format) /\ pc' = "formatted" /\ UNCHANGED room
    /\ UNCHANGED <<values, format, tmTmp, calls>>
Return == pc = "formatted" /\ pc' = "idle" /\ UNCHANGED <<values, formatVars, calls>>

Next == GetCurrentTime \/ Copy \/ SetTimeSpan \/ Format \/ Fill \/ Return

Spec == Init /\ [][Next]_vars

-----------------------------------------------------------------------------
(* A time is constructed again from its fields, a span from its own, and the
   totals of a span agree with them, whatever their signs (Time.cpp:143-265,
   TimeSpan.cpp:127-235).                                                  *)
TimeIsItsFields(f) ==
    f.month >= 1 => _SetDate(<<f.year, f.month, f.day>>, <<f.hour, f.minute, f.second>>) = t
SpanIsItsFields(f) ==
    /\ _SetTimeSpan(<<f.days, f.hours, f.minutes, f.seconds>>) = span
    /\ f.totalMinutes = 60 * f.totalHours + f.minutes
    /\ f.totalSeconds = 60 * f.totalMinutes + f.seconds
FieldsRight == TimeIsItsFields(FieldsOf(t)) /\ SpanIsItsFields(FieldsOfSpan(span))

(* The comparisons are one order: of times that of the minutes since 1900 and
   the seconds of the last, of spans that of their lengths, unless one has
   its days and seconds of opposite signs and the other not (Time.cpp:278-373,
   TimeSpan.cpp:236-352).                                                  *)
Before(x, y) ==
    LET a == GetTotalMinutes(x) b == GetTotalMinutes(y)
    IN a < b \/ (a = b /\ Rem(x.m_nSeconds, 60) < Rem(y.m_nSeconds, 60))
OneOrder(x, y) ==
    [lt |-> Before(x, y), eq |-> ~Before(x, y) /\ ~Before(y, x), ne |-> Before(x, y) \/ Before(y, x),
     gt |-> Before(y, x), le |-> ~Before(y, x), ge |-> ~Before(x, y)]
OneSign(s) == s.m_nDays * s.m_nSeconds >= 0
OfADay(s)  == s.m_nSeconds >= 0
OrderRight ==
    /\ TimesCompare(t, u) = OneOrder(t, u)
    /\ (OneSign(span) /\ OneSign(other)) \/ (OfADay(span) /\ OfADay(other)) =>
          SpansCompare(span, other) = OneOrder(span, other)

(* Format gives each conversion the field of the calendar's day, as _GetValue
   has it but for the hour of %I, and replaces nothing else; the day of the
   year, which it does not set, it cannot give.  It fails for want of memory
   on a text that has none to write or no room, and only then
   (Time.cpp:499-527, 739-842).                                            *)
ShowsFields(f) ==
    \A k \in 1..Len(format) : format[k] \notin {"I", "j"} => strText[k] = _GetValue(f, format[k])
FormatShowsTime ==
    /\ pc = "formatted" =>
          Len(strText) = Len(format) /\ (t.m_nDays > 0 => ShowsFields(FieldsOf(t)))
    /\ pc = "bad_alloc" => room > MaxRoom /\ (format = <<>> \/ 2 * Len(format) >= room)

Over == pc # "format"
===============================================================================
