------------------------------- MODULE CString -------------------------------
(***************************************************************************)
(* CString (src/base/String.cpp, String.h): a string that owns its memory, *)
(* m_nLength bytes and a final 0 in m_nAllocLength.  The strings of a      *)
(* behaviour are assigned, appended, cut, formatted and written into       *)
(* through GetBuffer; value is what each should be.                        *)
(*                                                                         *)
(* A caller that has a pointer into a string does not append it to that    *)
(* string when it has to grow (the old memory is freed before the copy),   *)
(* and gives ReleaseBuffer the length it wrote, or none.                   *)
(***************************************************************************)
EXTENDS Integers, Sequences, SequencesExt

CONSTANTS
    Str,            \* CString objects
    Text,           \* const char * arguments: sequences of bytes without 0
    GARBAGE,        \* what new char[] returns
    MaxLength       \* bound: length of a string

TextsAreStrings == \A text \in Text : text \in Seq(1..255)
LengthBound == MaxLength \in Nat

VARIABLES
    m_pData,        \* [Str -> the memory]
    m_nLength, m_nAllocLength,
    writing,        \* [Str -> between GetBuffer and ReleaseBuffer?]
    value           \* [Str -> sequence of bytes]

vars == <<m_pData, m_nLength, m_nAllocLength, writing, value>>

New(n) == [x \in 1..n |-> GARBAGE]

(* memcpy to the offset, and the final 0.                                  *)
Over(mem, offset, bytes) ==
    [x \in 1..Len(mem) |->
        IF x \in (offset + 1)..(offset + Len(bytes)) THEN bytes[x - offset] ELSE mem[x]]
Terminated(mem, offset, bytes) == Over(mem, offset, bytes \o <<0>>)

(* CString(): one byte.                                                    *)
Init ==
    /\ m_nLength = [s \in Str |-> 0] /\ m_nAllocLength = [s \in Str |-> 1]
    /\ m_pData = [s \in Str |-> Terminated(New(1), 0, <<>>)]
    /\ writing = [s \in Str |-> FALSE] /\ value = [s \in Str |-> <<>>]

(* strlen, and the string a const char * shows.                            *)
strlen(mem) == (CHOOSE n \in 1..Len(mem) : mem[n] = 0 /\ \A k \in 1..(n - 1) : mem[k] /= 0) - 1
C(s) == SubSeq(m_pData[s], 1, strlen(m_pData[s]))

Data(s) == SubSeq(m_pData[s], 1, m_nLength[s])

(* Doubling until there is room, from nothing exactly the room.            *)
Enough(alloc, room) ==
    IF alloc = 0 THEN room
    ELSE alloc * 2 ^ (CHOOSE d \in 0..room :
            alloc * 2 ^ d >= room /\ \A c \in 0..(d - 1) : alloc * 2 ^ c < room)

Set(s, mem, length, alloc, v) ==
    /\ m_pData' = [m_pData EXCEPT ![s] = mem]
    /\ m_nLength' = [m_nLength EXCEPT ![s] = length]
    /\ m_nAllocLength' = [m_nAllocLength EXCEPT ![s] = alloc]
    /\ value' = [value EXCEPT ![s] = v]
    /\ UNCHANGED writing

Whole(s) == ~writing[s]

(* The old memory serves when it is large enough; what it held goes.       *)
InputData(s, bytes, alloc, v) ==
    LET room == Enough(alloc, Len(bytes) + 1)
    IN  Set(s, Terminated(IF room = alloc THEN m_pData[s] ELSE New(room), 0, bytes), Len(bytes), room, v)

(* Destruction and construction from a text.                               *)
Construct(s, text) == Whole(s) /\ InputData(s, text, 0, text)

(* Construction from another string, or from count bytes of it.            *)
CopyConstruct(s, r) == Whole(s) /\ Whole(r) /\ s /= r /\ InputData(s, Data(r), 0, value[r])

AssignText(s, text) == Whole(s) /\ InputData(s, text, m_nAllocLength[s], text)

(* Also s = s: its own length always fits.                                 *)
Assign(s, r) == Whole(s) /\ Whole(r) /\ InputData(s, Data(r), m_nAllocLength[s], value[r])

(* vsnprintf writes to a buffer first, so an argument may be s itself: here
   "%s%s".                                                                  *)
Format(s, text) ==
    /\ Whole(s) /\ Len(value[s]) + Len(text) <= MaxLength
    /\ InputData(s, C(s) \o text, m_nAllocLength[s], value[s] \o text)

AppendBytesTight(s, bytes, v) ==
    LET length == m_nLength[s] + Len(bytes)
        room == Enough(m_nAllocLength[s], length)
        mem == IF room = m_nAllocLength[s] THEN m_pData[s]
               ELSE Over(New(room), 0, SubSeq(m_pData[s], 1, m_nLength[s] + 1))
    IN  Set(s, Terminated(mem, m_nLength[s], bytes), length, room, v)

AppendBytes(s, bytes, v) ==
    LET length == m_nLength[s] + Len(bytes)
        room == Enough(m_nAllocLength[s], length + 1)
        mem == IF room = m_nAllocLength[s] THEN m_pData[s]
               ELSE Over(New(room), 0, SubSeq(m_pData[s], 1, m_nLength[s] + 1))
    IN  Set(s, Terminated(mem, m_nLength[s], bytes), length, room, v)

AppendText(s, text) ==
    /\ Whole(s) /\ Len(value[s]) + Len(text) <= MaxLength
    /\ AppendBytes(s, text, value[s] \o text)

(* operator += of a string, of s itself when that fits.                    *)
AppendString(s, r) ==
    /\ Whole(s) /\ Whole(r) /\ Len(value[s]) + Len(value[r]) <= MaxLength
    /\ s = r => 2 * m_nLength[s] + 1 <= m_nAllocLength[s]
    /\ AppendBytes(s, C(r), value[s] \o value[r])

(* s = text + r, by a string in between.                                   *)
Plus(s, text, r) ==
    /\ Whole(s) /\ Whole(r) /\ Len(text) + Len(value[r]) <= MaxLength
    /\ InputData(s, text \o C(r), m_nAllocLength[s], text \o value[r])

(* nCount bytes from nFirst, brought within the string.                    *)
Mid(s, nFirst, nCount) ==
    LET first == IF nFirst < 0 THEN 0 ELSE nFirst
        count == IF nCount < 0 THEN 0 ELSE nCount
    IN  IF first >= m_nLength[s] THEN <<>>
        ELSE SubSeq(m_pData[s], first + 1,
                    first + (IF first + count > m_nLength[s] THEN m_nLength[s] - first ELSE count))

AssignMid(s, r, nFirst, nCount) ==
    /\ Whole(s) /\ Whole(r)
    /\ InputData(s, Mid(r, nFirst, nCount), m_nAllocLength[s],
                 SubSeq(value[r], nFirst + 1, Min({nFirst + nCount, Len(value[r])})))

Empty(s) ==
    /\ Whole(s)
    /\ Set(s, Over(m_pData[s], 0, <<0>>), 0, m_nAllocLength[s], <<>>)

Upper(c) == IF c \in 97..122 THEN c - 32 ELSE c
Lower(c) == IF c \in 65..90 THEN c + 32 ELSE c

MakeUpper(s) ==
    /\ Whole(s)
    /\ Set(s, [x \in 1..Len(m_pData[s]) |->
                  IF x <= m_nLength[s] THEN Upper(m_pData[s][x]) ELSE m_pData[s][x]],
           m_nLength[s], m_nAllocLength[s], [x \in 1..Len(value[s]) |-> Upper(value[s][x])])

MakeLower(s) ==
    /\ Whole(s)
    /\ Set(s, [x \in 1..Len(m_pData[s]) |->
                  IF x <= m_nLength[s] THEN Lower(m_pData[s][x]) ELSE m_pData[s][x]],
           m_nLength[s], m_nAllocLength[s], [x \in 1..Len(value[s]) |-> Lower(value[s][x])])

(* Room for nLength bytes; what the string holds stays.                    *)
GetBuffer(s, nLength) ==
    /\ Whole(s)
    /\ writing' = [writing EXCEPT ![s] = TRUE]
    /\ IF nLength + 1 > m_nAllocLength[s]
       THEN /\ m_nAllocLength' = [m_nAllocLength EXCEPT ![s] = nLength + 1]
            /\ m_pData' = [m_pData EXCEPT ![s] =
                  Over(New(nLength + 1), 0, SubSeq(@, 1, m_nLength[s] + 1))]
       ELSE UNCHANGED <<m_nAllocLength, m_pData>>
    /\ UNCHANGED <<m_nLength, value>>

(* The caller writes a text with its 0, or without it and gives its length. *)
ReleaseBuffer(s, text) ==
    /\ writing[s] /\ Len(text) < m_nAllocLength[s]
    /\ writing' = [writing EXCEPT ![s] = FALSE]
    /\ m_pData' = [m_pData EXCEPT ![s] = Terminated(@, 0, text)]
    /\ m_nLength' = [m_nLength EXCEPT ![s] = strlen(m_pData'[s])]
    /\ value' = [value EXCEPT ![s] = text]
    /\ UNCHANGED m_nAllocLength

ReleaseBufferOf(s, text) ==
    /\ writing[s] /\ Len(text) < m_nAllocLength[s]
    /\ writing' = [writing EXCEPT ![s] = FALSE]
    /\ m_nLength' = [m_nLength EXCEPT ![s] = Len(text)]
    /\ m_pData' = [m_pData EXCEPT ![s] =
          IF Len(text) = m_nLength[s] THEN Over(@, 0, text) ELSE Terminated(@, 0, text)]
    /\ value' = [value EXCEPT ![s] = text]
    /\ UNCHANGED m_nAllocLength

-----------------------------------------------------------------------------
(* What the string is asked.                                               *)

strcmp(a, b) ==
    LET k == CHOOSE k \in 1..(Len(a) + 1) :
                /\ k = Len(a) + 1 \/ k = Len(b) + 1 \/ a[k] /= b[k]
                /\ \A l \in 1..(k - 1) : l <= Len(b) /\ a[l] = b[l]
        at(s) == IF k <= Len(s) THEN s[k] ELSE 0
    IN  at(a) - at(b)

Equal(s, text)          == strcmp(C(s), text) = 0
NotEqual(s, text)       == strcmp(C(s), text) /= 0
Less(s, text)           == 0 > strcmp(C(s), text)
LessOrEqual(s, text)    == 0 >= strcmp(C(s), text)
Greater(s, text)        == 0 < strcmp(C(s), text)
GreaterOrEqual(s, text) == 0 <= strcmp(C(s), text)

(* The same six of two strings, and of a text from which a CString is made. *)
OfStrings(s, r) ==
    [eq |-> Equal(s, C(r)), ne |-> NotEqual(s, C(r)), lt |-> Less(s, C(r)),
     le |-> LessOrEqual(s, C(r)), gt |-> Greater(s, C(r)), ge |-> GreaterOrEqual(s, C(r))]

OfText(text, r) ==
    LET c == strcmp(text, C(r))
    IN  [eq |-> c = 0, ne |-> c /= 0, lt |-> 0 > c, le |-> 0 >= c, gt |-> 0 < c, ge |-> 0 <= c]

(* strstr: the first place the text is at, -1 for none.                    *)
Find(s, text) ==
    LET at == {p \in 0..(Len(C(s)) - Len(text)) : SubSeq(C(s), p + 1, p + Len(text)) = text}
    IN  IF at = {} THEN -1 ELSE CHOOSE p \in at : \A q \in at : p <= q

Next ==
    \/ \E s \in Str, text \in Text :
          \/ Construct(s, text) \/ AssignText(s, text) \/ Format(s, text) \/ AppendText(s, text)
          \/ ReleaseBuffer(s, text) \/ ReleaseBufferOf(s, text)
    \/ \E s, r \in Str :
          \/ CopyConstruct(s, r) \/ Assign(s, r) \/ AppendString(s, r)
          \/ \E text \in Text : Plus(s, text, r)
          \/ \E nFirst, nCount \in 0..2 : AssignMid(s, r, nFirst, nCount)
    \/ \E s \in Str :
          \/ Empty(s) \/ MakeUpper(s) \/ MakeLower(s)
          \/ \E nLength \in 0..MaxLength : GetBuffer(s, nLength)

Spec == Init /\ [][Next]_vars

-----------------------------------------------------------------------------
(* After every call the string holds what it should, terminated, within its
   memory, whether the memory was grown, reused or exchanged
   (String.cpp:119-139, 414-523).                                          *)
HoldsValue ==
    \A s \in Str :
        /\ Len(m_pData[s]) = m_nAllocLength[s] /\ m_nLength[s] < m_nAllocLength[s]
        /\ ~writing[s] => /\ Data(s) = value[s]
                          /\ m_pData[s][m_nLength[s] + 1] = 0 /\ C(s) = value[s]

(* The order of a dictionary: a prefix first, else the first byte that
   differs decides.                                                        *)
Before(a, b) ==
    \/ IsStrictPrefix(a, b)
    \/ \E k \in 1..Min({Len(a), Len(b)}) :
          a[k] < b[k] /\ \A l \in 1..(k - 1) : a[l] = b[l]
Ordered(a, b) ==
    [eq |-> a = b, ne |-> a /= b, lt |-> Before(a, b), le |-> ~Before(b, a),
     gt |-> Before(b, a), ge |-> ~Before(a, b)]

(* The comparisons are those of one order, of strings and texts in either
   place, and Find finds the first occurrence (String.cpp:202-381,
   600-704).                                                               *)
AnswersRight ==
    \A s \in Str, text \in Text :
        ~writing[s] =>
            /\ LET compared == [eq |-> Equal(s, text), ne |-> NotEqual(s, text),
                                lt |-> Less(s, text), le |-> LessOrEqual(s, text),
                                gt |-> Greater(s, text), ge |-> GreaterOrEqual(s, text)]
               IN  compared = Ordered(value[s], text)
            /\ OfText(text, s) = Ordered(text, value[s])
            /\ \A r \in Str : ~writing[r] => OfStrings(s, r) = Ordered(value[s], value[r])
            /\ \A first \in 0..Len(value[s]) :
                  IsPrefix(text, SubSeq(value[s], first + 1, Len(value[s]))) =>
                      Find(s, text) \in 0..first
==============================================================================
