--------------------------------- MODULE Time ---------------------------------
(***************************************************************************)
(* CTime and CTimeSpan (src/base/Time.cpp, TimeSpan.cpp).  Both count days *)
(* and, beside them, seconds; day 1 of a time is 1900-1-1.  An owner has   *)
(* two times and a span and computes with them, or formats the span.       *)
(*                                                                         *)
(* The characters of a format are model values, the digits of a number are *)
(* numbers, and the count of days is one symbol however long.  long is as  *)
(* wide as it is on the 64-bit build: nothing here overflows it.           *)
(***************************************************************************)
EXTENDS Calendar

CONSTANTS
    Date, TimeOfDay,    \* <<year, month, day>>, <<hour, minute, second>>: t is constructed of them
    Reference,          \* Dates u is constructed of, at midnight
    Span,               \* <<days, hours, minutes, seconds>> for CTimeSpan
    Seconds,            \* arguments of CTimeSpan(nSec)
    PERCENT, DAYS, HOURS, MINUTES, SECONDS, LETTER,  \* characters of a format: % d H M S
    LenPattern,         \* bound: length of a format
    MaxCalls            \* bound: operations in a behaviour

VARIABLES
    t, u, span,                     \* [m_nDays, m_nSeconds]
    pattern, strFormat, nIndex,     \* CTimeSpan::Format: its argument, its local variables
    pc, calls

computed == <<t, u, span, calls>>
formatVars == <<pattern, strFormat, nIndex, pc>>
vars == <<computed, formatVars>>

(* Hours, minutes and seconds that are in range: nothing validates them.   *)
TimeConstants ==
    /\ TimeOfDay \subseteq (0..23) \X (0..59) \X (0..59)
    /\ Span \subseteq Int \X (0..23) \X (0..59) \X (0..59)
    /\ Date \cup Reference \subseteq (FirstYear..LastYear) \X (1..12) \X (1..31)
    /\ Seconds \subseteq Nat
    /\ PERCENT \notin Nat       \* nor is it a digit

-----------------------------------------------------------------------------
(* Arithmetic.                                                             *)
Plus(x, s) ==
    LET seconds == x.m_nSeconds + s.m_nSeconds
    IN At(x.m_nDays + s.m_nDays + Quot(seconds, SECOND_PERDAY), Rem(seconds, SECOND_PERDAY))

(* A time less a span, and a time less a time.                             *)
Minus(x, s) ==
    IF x.m_nSeconds < s.m_nSeconds
    THEN At(x.m_nDays - 1 - s.m_nDays, SECOND_PERDAY + x.m_nSeconds - s.m_nSeconds)
    ELSE At(x.m_nDays - s.m_nDays, x.m_nSeconds - s.m_nSeconds)

Spans == {_SetTimeSpan(s) : s \in Span} \cup {SpanOfSeconds(nSec) : nSec \in Seconds}

-----------------------------------------------------------------------------
Init ==
    /\ span \in Spans
    /\ calls = 0 /\ nIndex = 0
    /\ \/ /\ pc = "compute" /\ pattern = <<>> /\ strFormat = <<>>
          /\ t \in {_SetDate(d, c) : d \in Date, c \in TimeOfDay}
          /\ u \in {_SetDate(d, <<0, 0, 0>>) : d \in Reference}
       \/ /\ pc = "find"
          /\ pattern \in BoundedSeq({PERCENT, DAYS, HOURS, MINUTES, SECONDS, LETTER}, LenPattern)
          /\ strFormat = pattern
          /\ t = At(0, 0) /\ u = At(0, 0)

Compute ==
    /\ pc = "compute" /\ calls < MaxCalls
    /\ calls' = calls + 1
    /\ UNCHANGED formatVars

Add == Compute /\ t' = Plus(t, span) /\ UNCHANGED <<u, span>>
Subtract == Compute /\ t' = Minus(t, span) /\ UNCHANGED <<u, span>>
Difference == Compute /\ span' = Minus(t, u) /\ UNCHANGED <<t, u>>
Assign == Compute /\ u' = t /\ UNCHANGED <<t, span>>

(* CTimeSpan::Format; positions count from 0.                              *)
Digits(x) == <<x \div 10, x % 10>>
_GetValue(c) ==
    CASE c = DAYS    -> <<span.m_nDays>>
      [] c = HOURS   -> Digits(_GetTime(span)[1])
      [] c = MINUTES -> Digits(_GetTime(span)[2])
      [] c = SECONDS -> Digits(_GetTime(span)[3])
      [] OTHER       -> <<c>>

Percents(s, from) == {x \in from..(Len(s) - 1) : s[x + 1] = PERCENT}

FindPercent ==
    /\ pc = "find"
    /\ IF \E x \in Percents(strFormat, nIndex) : x + 1 < Len(strFormat)
       THEN pc' = "replace" /\ nIndex' = Min(Percents(strFormat, nIndex))
       ELSE pc' = "formatted" /\ UNCHANGED nIndex
    /\ UNCHANGED <<computed, pattern, strFormat>>

ReplacePercent ==
    /\ pc = "replace"
    /\ strFormat' = SubSeq(strFormat, 1, nIndex) \o _GetValue(strFormat[nIndex + 2])
                      \o SubSeq(strFormat, nIndex + 3, Len(strFormat))
    /\ nIndex' = nIndex + 1
    /\ pc' = "find"
    /\ UNCHANGED <<computed, pattern>>

Format == FindPercent \/ ReplacePercent
Next == Add \/ Subtract \/ Difference \/ Assign \/ Format

Spec == Init /\ [][Next]_vars

-----------------------------------------------------------------------------
WithinDay(x) == x.m_nSeconds \in Nat /\ x.m_nSeconds < SECOND_PERDAY

(* Whatever is computed, the seconds of times and spans are less than a day,
   so that a value has one representation: == compares representations.    *)
Normalised == WithinDay(t) /\ WithinDay(u) /\ WithinDay(span)

(* Adding and taking away undo each other, and the order of two times is the
   sign of their difference (Time.cpp:278-468).                            *)
Inverses ==
    /\ Minus(Plus(t, span), span) = t
    /\ Plus(Minus(t, span), span) = t
    /\ Plus(u, Minus(t, u)) = t
    /\ Minus(t, u).m_nDays < 0 <=> Less(t, u)
    /\ Minus(t, u) = At(0, 0) <=> Equal(t, u)

(* From 1900 to 2100 the date, the weekday and the time of day of a time are
   those of the calendar, whether it was constructed or computed
   (Time.cpp:261-265, 575-726).                                            *)
CalendarRight == OnTheCalendar(t) /\ OnTheCalendar(u)

(* The totals of a span agree with one another, also when its days are
   negative (TimeSpan.cpp:161-200).                                        *)
TotalsAgree == GetTotalMinutes(span) = 60 * GetTotalHours(span) + GetMinutes(span)

(* A % begins a conversion unless the one before it does, or nothing follows. *)
Converts(p) ==
    LET run == {x \in 1..p : \A y \in x..p : pattern[y] = PERCENT}
    IN p \in 1..(Len(pattern) - 1) /\ Cardinality(run) % 2 = 1
Piece(p) ==
    IF Converts(p) THEN _GetValue(pattern[p + 1])
    ELSE IF Converts(p - 1) THEN <<>> ELSE <<pattern[p]>>

(* Format replaces every conversion of its argument and nothing else: a value
   it has put in is not read again (TimeSpan.cpp:519-544).                 *)
FormatRight ==
    pc = "formatted" => strFormat = FlattenSeq([p \in 1..Len(pattern) |-> Piece(p)])

(* The call has returned, or none was made.                                *)
Over == pc \in {"compute", "formatted"}
===============================================================================
