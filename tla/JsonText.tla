------------------------------- MODULE JsonText -------------------------------
(***************************************************************************)
(* The text side of cJSON (src/base/cJSON.c): cJSON_Parse reads a text     *)
(* into an item, cJSON_Print, PrintUnformatted and PrintBuffered write one *)
(* and cJSON_Minify takes out of a text what means nothing.                *)
(*                                                                         *)
(* A text is the sequence of its bytes before the final 0.  An item is     *)
(*   <<"null">>  <<"true">>  <<"false">>                                   *)
(*   <<"num", n, e>>         n * 10^e, e = 0 for an integer, else e < 0    *)
(*   <<"str", bytes>>  <<"arr", items>>  <<"obj", <<name, item>> ... >>    *)
(* Numbers are printed when they are integers; printf's choice of a form   *)
(* for the others, and the limits of int and double, are left out.         *)
(***************************************************************************)
EXTENDS Integers, Sequences, SequencesExt

CONSTANTS
    Texts,          \* texts a behaviour may begin with
    Items,          \* items it may begin with
    Prebuffers,     \* sizes given to cJSON_PrintBuffered
    NONE,           \* no item
    MaxCalls        \* bound: calls on one text or item

Bounds == MaxCalls \in Nat /\ Prebuffers \subseteq Nat \ {0}

VARIABLES
    pc,             \* "text" or "item": what the caller holds; "failed" no item
    text, item,
    meaning,        \* the item all this is about, or NONE
    whole,          \* the first text ends where its strings and comments do (Whole)
    fits,           \* everything written has fitted what was allocated for it
    inside,         \* nothing was read behind the final 0
    calls

vars == <<pc, text, item, meaning, whole, fits, inside, calls>>

NUL        == 0
WILD       == -1      \* what is behind the final 0
TABULATOR  == 9
NEWLINE    == 10
RETURN     == 13
BLANK      == 32
QUOTE      == 34
ASTERISK   == 42
PLUS       == 43
COMMA      == 44
MINUS      == 45
POINT      == 46
SLASH      == 47
ZERO       == 48
COLON      == 58
OPEN       == 91
BACKSLASH  == 92
CLOSE      == 93
LETTER_U   == 117
BRACE      == 123
ENDBRACE   == 125

null  == <<110, 117, 108, 108>>
true  == <<116, 114, 117, 101>>
false == <<102, 97, 108, 115, 101>>

(* \b \f \n \r \t and the bytes they stand for.                            *)
EscapeOf == [c \in {8, 12, 10, 13, 9} |->
    CASE c = 8 -> 98 [] c = 12 -> 102 [] c = 10 -> 110 [] c = 13 -> 114 [] c = 9 -> 116]
EscapedBy == [e \in {98, 102, 110, 114, 116} |-> CHOOSE c \in DOMAIN EscapeOf : EscapeOf[c] = e]

At(t, p) == IF p <= Len(t) THEN t[p] ELSE IF p = Len(t) + 1 THEN NUL ELSE WILD
Digit(c) == c \in 48..57

-----------------------------------------------------------------------------
(* Parsing.  A result is [end, item, fits]: end is where parsing went on, 0
   for failure and WILD when it ran past the final 0.                      *)

Failure(p) == [end |-> IF p > 0 THEN 0 ELSE p, item |-> NONE, fits |-> TRUE]
Result(p, x) == [end |-> p, item |-> x, fits |-> TRUE]

RECURSIVE skip(_, _)
skip(t, p) == IF p > 0 /\ At(t, p) \in 1..32 THEN skip(t, p + 1) ELSE p

(* The digits from p on: their value and where they end.                   *)
RECURSIVE Digits(_, _, _)
Digits(t, p, n) ==
    IF Digit(At(t, p)) THEN Digits(t, p + 1, 10 * n + At(t, p) - ZERO) ELSE <<n, p>>

RECURSIVE Number(_, _)
Number(n, e) ==
    IF e > 0 THEN Number(10 * n, e - 1)
    ELSE IF e < 0 /\ n % 10 = 0 THEN Number(n \div 10, e + 1)
    ELSE <<"num", n, e>>

(* A leading 0 is skipped, more digits may follow; a sign alone is 0.  Each
   part is read behind the one before.                                      *)
Integer(t, p) ==
    LET q == IF At(t, p) = ZERO THEN p + 1 ELSE p
    IN  IF At(t, q) \in 49..57 THEN Digits(t, q, 0) ELSE <<0, q>>

Fraction(t, n, p) ==
    IF At(t, p) = POINT /\ Digit(At(t, p + 1)) THEN Digits(t, p + 1, n) ELSE <<n, p>>

Exponent(t, p) ==
    LET q == p + 1
        r == IF At(t, q) \in {PLUS, MINUS} THEN q + 1 ELSE q
        power == Digits(t, r, 0)
    IN  IF At(t, p) \notin {101, 69} THEN <<0, p>>
        ELSE <<IF At(t, q) = MINUS THEN -power[1] ELSE power[1], power[2]>>

Scaled(negative, fraction, scale, exponent) ==
    LET n == IF negative THEN -fraction[1] ELSE fraction[1]
    IN  Result(exponent[2], Number(n, IF n = 0 THEN 0 ELSE scale + exponent[1]))

AfterFraction(t, negative, integer, fraction) ==
    Scaled(negative, fraction,
           IF fraction[2] = integer[2] THEN 0 ELSE integer[2] + 1 - fraction[2],
           Exponent(t, fraction[2]))

AfterInteger(t, negative, integer) ==
    AfterFraction(t, negative, integer, Fraction(t, integer[1], integer[2]))

parse_number(t, p) ==
    IF At(t, p) = MINUS THEN AfterInteger(t, TRUE, Integer(t, p + 1))
    ELSE AfterInteger(t, FALSE, Integer(t, p))

HexDigit(c) ==
    CASE Digit(c) -> c - ZERO [] c \in 65..70 -> c - 55 [] c \in 97..102 -> c - 87 [] OTHER -> -1

(* 0 when one of the four is no digit.                                     *)
parse_hex4(t, p) ==
    IF \E k \in 0..3 : HexDigit(At(t, p + k)) = -1 THEN 0
    ELSE FoldLeft(LAMBDA h, k : 16 * h + HexDigit(At(t, p + k)), 0, <<0, 1, 2, 3>>)

(* The bytes of a code point, the last one first in the code.              *)
Utf8(uc) ==
    LET tail(n) == 128 + ((uc \div 64 ^ n) % 64)
    IN  CASE uc < 128 -> <<uc>>
          [] uc \in 128..2047 -> <<192 + uc \div 64, tail(0)>>
          [] uc \in 2048..65535 -> <<224 + uc \div 4096, tail(1), tail(0)>>
          [] OTHER -> <<240 + uc \div 262144, tail(2), tail(1), tail(0)>>

(* The first pass of parse_string counts one byte for every step.          *)
RECURSIVE Count(_, _, _)
Count(t, p, len) ==
    IF At(t, p) \in {QUOTE, NUL, WILD}
    THEN IF At(t, p) = WILD THEN WILD ELSE len
    ELSE Count(t, p + (IF At(t, p) = BACKSLASH THEN 2 ELSE 1), len + 1)

(* The second pass copies; u and surrogates are transcoded, and what is no
   code point is left out.  The result is how far to go on, and the bytes.  *)
Transcoded(uc, second, low) ==
    CASE uc = 0 \/ uc \in 56320..57343 -> <<6, <<>>>>
      [] uc \in 55296..56319 /\ ~second -> <<6, <<>>>>
      [] uc \in 55296..56319 /\ second ->
            IF low \in 56320..57343
            THEN <<12, Utf8(65536 + 1024 * (uc % 1024) + (low % 1024))>> ELSE <<12, <<>>>>
      [] OTHER -> <<6, Utf8(uc)>>

Escape(t, p, e) ==
    CASE e \in DOMAIN EscapedBy -> <<2, <<EscapedBy[e]>>>>
      [] e = LETTER_U -> Transcoded(parse_hex4(t, p + 2), At(t, p + 6) = BACKSLASH /\ At(t, p + 7) = LETTER_U,
                                    parse_hex4(t, p + 8))
      [] OTHER -> <<2, <<e>>>>

RECURSIVE Unescaped(_, _, _)
Unescaped(t, p, out) ==
    LET step == IF At(t, p) = BACKSLASH THEN Escape(t, p, At(t, p + 1)) ELSE <<1, <<At(t, p)>>>>
    IN  IF At(t, p) \in {QUOTE, NUL, WILD} THEN <<IF At(t, p) = WILD THEN WILD ELSE p, out>>
        ELSE Unescaped(t, p + step[1], out \o step[2])

StringRead(t, len, end, out) ==
    IF len = WILD \/ end = WILD THEN Failure(WILD)
    ELSE [end |-> IF At(t, end) = QUOTE THEN end + 1 ELSE end,
          item |-> <<"str", out>>, fits |-> Len(out) <= len]

parse_string(t, p) ==
    LET copied == Unescaped(t, p + 1, <<>>)
    IN  IF At(t, p) /= QUOTE THEN Failure(p)
        ELSE StringRead(t, Count(t, p + 1, 0), copied[1], copied[2])

Starts(t, p, word) == \A k \in 1..Len(word) : At(t, p + k - 1) = word[k]

RECURSIVE parse_value(_, _)
RECURSIVE Elements(_, _, _, _)
RECURSIVE Members(_, _, _, _)

(* The values of an array, after [ or a comma; what was read so far in xs. *)
ElementRead(t, v, q, all, fit) ==
    CASE v.end <= 0 -> Failure(v.end)
      [] v.end > 0 /\ At(t, q) = COMMA -> Elements(t, q + 1, all, fit)
      [] v.end > 0 /\ At(t, q) = CLOSE -> [end |-> q + 1, item |-> <<"arr", all>>, fits |-> fit]
      [] OTHER -> Failure(q)

Elements(t, p, xs, fit) ==
    LET v == parse_value(t, skip(t, p))
    IN  ElementRead(t, v, skip(t, v.end), Append(xs, v.item), fit /\ v.fits)

parse_array(t, p) ==
    LET q == skip(t, p + 1)
    IN  IF At(t, q) = CLOSE THEN Result(q + 1, <<"arr", <<>>>>) ELSE Elements(t, q, <<>>, TRUE)

MemberRead(t, v, r, all, fit) ==
    CASE v.end <= 0 -> Failure(v.end)
      [] v.end > 0 /\ At(t, r) = COMMA -> Members(t, r + 1, all, fit)
      [] v.end > 0 /\ At(t, r) = ENDBRACE -> [end |-> r + 1, item |-> <<"obj", all>>, fits |-> fit]
      [] OTHER -> Failure(r)

MemberNamed(t, name, q, xs, fit) ==
    LET v == parse_value(t, skip(t, q + 1))
    IN  CASE name.end <= 0 -> Failure(name.end)
          [] name.end > 0 /\ At(t, q) /= COLON -> Failure(q)
          [] OTHER -> MemberRead(t, v, skip(t, v.end), Append(xs, <<name.item[2], v.item>>), fit /\ v.fits)

Members(t, p, xs, fit) ==
    LET name == parse_string(t, skip(t, p))
    IN  MemberNamed(t, name, skip(t, name.end), xs, fit /\ name.fits)

parse_object(t, p) ==
    LET q == skip(t, p + 1)
    IN  IF At(t, q) = ENDBRACE THEN Result(q + 1, <<"obj", <<>>>>) ELSE Members(t, q, <<>>, TRUE)

parse_value(t, p) ==
    CASE p <= 0 -> Failure(p)
      [] p > 0 /\ Starts(t, p, null) -> Result(p + 4, <<"null">>)
      [] p > 0 /\ Starts(t, p, false) -> Result(p + 5, <<"false">>)
      [] p > 0 /\ Starts(t, p, true) -> Result(p + 4, <<"true">>)
      [] p > 0 /\ At(t, p) = QUOTE -> parse_string(t, p)
      [] p > 0 /\ (At(t, p) = MINUS \/ Digit(At(t, p))) -> parse_number(t, p)
      [] p > 0 /\ At(t, p) = OPEN -> parse_array(t, p)
      [] p > 0 /\ At(t, p) = BRACE -> parse_object(t, p)
      [] OTHER -> Failure(p)

(* cJSON_ParseWithOpts; cJSON_Parse requires nothing behind the value.     *)
ParseWithOpts(t, require_null_terminated) ==
    LET v == parse_value(t, skip(t, 1))
    IN  IF v.end > 0 /\ require_null_terminated /\ At(t, skip(t, v.end)) /= NUL
        THEN Failure(v.end) ELSE v

-----------------------------------------------------------------------------
(* Printing without a buffer.                                              *)

Concat(ss) == FlattenSeq(ss)
Times(c, k) == [x \in 1..k |-> c]
If(b, s) == IF b THEN s ELSE <<>>

RECURSIVE Decimal(_)
Decimal(n) ==
    CASE n < 0 -> <<MINUS>> \o Decimal(-n)
      [] n \in 0..9 -> <<ZERO + n>>
      [] OTHER -> Append(Decimal(n \div 10), ZERO + (n % 10))

HexLetter(d) == IF d < 10 THEN ZERO + d ELSE 87 + d

Escaped(c) ==
    CASE c \in DOMAIN EscapeOf -> <<BACKSLASH, EscapeOf[c]>>
      [] c \in {QUOTE, BACKSLASH} -> <<BACKSLASH, c>>
      [] c < 32 /\ c \notin DOMAIN EscapeOf ->
            <<BACKSLASH, LETTER_U, ZERO, ZERO, HexLetter(c \div 16), HexLetter(c % 16)>>
      [] OTHER -> <<c>>

print_string_ptr(str) ==
    <<QUOTE>> \o Concat([k \in 1..Len(str) |-> Escaped(str[k])]) \o <<QUOTE>>

RECURSIVE print_value(_, _, _)

print_array(xs, depth, fmt) ==
    IF xs = <<>> THEN <<OPEN, CLOSE>>
    ELSE <<OPEN>>
         \o Concat([k \in 1..Len(xs) |-> print_value(xs[k], depth + 1, fmt)
                                         \o If(k < Len(xs), <<COMMA>> \o If(fmt, <<BLANK>>))])
         \o <<CLOSE>>

print_object(xs, depth, fmt) ==
    IF xs = <<>> THEN <<BRACE>> \o If(fmt, <<NEWLINE>> \o Times(TABULATOR, depth - 1)) \o <<ENDBRACE>>
    ELSE <<BRACE>> \o If(fmt, <<NEWLINE>>)
         \o Concat([k \in 1..Len(xs) |->
                If(fmt, Times(TABULATOR, depth + 1)) \o print_string_ptr(xs[k][1])
                \o <<COLON>> \o If(fmt, <<TABULATOR>>) \o print_value(xs[k][2], depth + 1, fmt)
                \o If(k < Len(xs), <<COMMA>>) \o If(fmt, <<NEWLINE>>)])
         \o If(fmt, Times(TABULATOR, depth)) \o <<ENDBRACE>>

print_value(x, depth, fmt) ==
    CASE x[1] = "null" -> null [] x[1] = "true" -> true [] x[1] = "false" -> false
      [] x[1] = "num" -> Decimal(x[2])
      [] x[1] = "str" -> print_string_ptr(x[2])
      [] x[1] = "arr" -> print_array(x[2], depth, fmt)
      [] x[1] = "obj" -> print_object(x[2], depth, fmt)

(* The bytes allocated for each piece beforehand.                          *)
Sum(ns) == FoldLeft(LAMBDA a, b : a + b, 0, ns)

StringRoom(str) ==
    3 + Sum([k \in 1..Len(str) |->
                IF str[k] \in DOMAIN EscapeOf \cup {QUOTE, BACKSLASH} THEN 2
                ELSE IF str[k] < 32 THEN 6 ELSE 1])

ArrayRoom(xs, depth, fmt) ==
    IF xs = <<>> THEN 3
    ELSE 5 + Sum([k \in 1..Len(xs) |-> Len(print_value(xs[k], depth + 1, fmt)) + 2 + (IF fmt THEN 1 ELSE 0)])

ObjectRoomFlat(xs, depth, fmt) ==
    IF xs = <<>> THEN (IF fmt THEN depth + 4 ELSE 3)
    ELSE 7 + Sum([k \in 1..Len(xs) |->
            Len(print_value(xs[k][2], depth + 1, fmt)) + Len(print_string_ptr(xs[k][1]))
            + 2 + (IF fmt THEN 2 ELSE 0)])

ObjectRoom(xs, depth, fmt) ==
    IF xs = <<>> THEN (IF fmt THEN depth + 4 ELSE 3)
    ELSE 7 + (IF fmt THEN depth + 1 ELSE 0)
         + Sum([k \in 1..Len(xs) |->
            Len(print_value(xs[k][2], depth + 1, fmt)) + Len(print_string_ptr(xs[k][1]))
            + 2 + (IF fmt THEN 2 + depth + 1 ELSE 0)])

RECURSIVE Fits(_, _, _)
Fits(x, depth, fmt) ==
    CASE x[1] = "str" -> Len(print_string_ptr(x[2])) < StringRoom(x[2])
      [] x[1] = "num" -> Len(Decimal(x[2])) < (IF x[2] = 0 THEN 2 ELSE 21)
      [] x[1] = "arr" ->
            /\ Len(print_array(x[2], depth, fmt)) < ArrayRoom(x[2], depth, fmt)
            /\ \A k \in 1..Len(x[2]) : Fits(x[2][k], depth + 1, fmt)
      [] x[1] = "obj" ->
            /\ Len(print_object(x[2], depth, fmt)) < ObjectRoom(x[2], depth, fmt)
            /\ \A k \in 1..Len(x[2]) :
                  Fits(<<"str", x[2][k][1]>>, depth, fmt) /\ Fits(x[2][k][2], depth + 1, fmt)
      [] OTHER -> TRUE

-----------------------------------------------------------------------------
(* Printing into a buffer that grows: [text, offset, length, fits].        *)

pow2gt(x) == CHOOSE y \in {2 ^ k : k \in 0..20} : y >= x /\ (y = 1 \/ y \div 2 < x)

(* ensure(p, needed), then bytes are written at the offset, a final 0 too
   when closed.                                                            *)
Put(p, needed, bytes, closed) ==
    LET length == IF needed + p.offset <= p.length THEN p.length ELSE pow2gt(needed + p.offset)
    IN  [text |-> SubSeq(p.text, 1, p.offset) \o bytes, offset |-> p.offset, length |-> length,
         fits |-> p.fits /\ p.offset + Len(bytes) + (IF closed THEN 1 ELSE 0) <= length]

(* The offset moves on: by what the code adds, or by update's strlen.      *)
update(p) == [p EXCEPT !.offset = Len(p.text)]
PutOn(p, needed, bytes, closed) == update(Put(p, needed, bytes, closed))

RECURSIVE Buffered(_, _, _, _)
RECURSIVE BufferedElements(_, _, _, _, _)
RECURSIVE BufferedMembers(_, _, _, _, _)

BufferedElements(xs, k, depth, fmt, p) ==
    IF k > Len(xs) THEN Put(p, 2, <<CLOSE>>, TRUE)
    ELSE LET printed == update(Buffered(xs[k], depth + 1, fmt, p))
             comma == <<COMMA>> \o If(fmt, <<BLANK>>)
         IN  BufferedElements(xs, k + 1, depth, fmt,
                IF k = Len(xs) THEN printed ELSE PutOn(printed, Len(comma) + 1, comma, TRUE))

BufferedMembers(xs, k, depth, fmt, p) ==
    IF k > Len(xs)
    THEN Put(p, IF fmt THEN depth + 1 ELSE 2, If(fmt, Times(TABULATOR, depth - 1)) \o <<ENDBRACE>>, TRUE)
    ELSE LET tabs == IF fmt THEN PutOn(p, depth, Times(TABULATOR, depth), FALSE) ELSE p
             name == PutOn(tabs, StringRoom(xs[k][1]), print_string_ptr(xs[k][1]), TRUE)
             colon == <<COLON>> \o If(fmt, <<TABULATOR>>)
             value == update(Buffered(xs[k][2], depth, fmt, PutOn(name, Len(colon), colon, FALSE)))
             end == If(k < Len(xs), <<COMMA>>) \o If(fmt, <<NEWLINE>>)
         IN  BufferedMembers(xs, k + 1, depth, fmt, PutOn(value, Len(end) + 1, end, TRUE))

Buffered(x, depth, fmt, p) ==
    CASE x[1] \in {"null", "true"} -> Put(p, 5, print_value(x, depth, fmt), TRUE)
      [] x[1] = "false" -> Put(p, 6, false, TRUE)
      [] x[1] = "num" -> Put(p, IF x[2] = 0 THEN 2 ELSE 21, Decimal(x[2]), TRUE)
      [] x[1] = "str" -> Put(p, StringRoom(x[2]), print_string_ptr(x[2]), TRUE)
      [] x[1] = "arr" ->
            IF x[2] = <<>> THEN Put(p, 3, <<OPEN, CLOSE>>, TRUE)
            ELSE BufferedElements(x[2], 1, depth, fmt, PutOn(p, 1, <<OPEN>>, FALSE))
      [] x[1] = "obj" ->
            IF x[2] = <<>>
            THEN Put(p, IF fmt THEN depth + 4 ELSE 3, print_object(<<>>, depth, fmt), TRUE)
            ELSE LET brace == <<BRACE>> \o If(fmt, <<NEWLINE>>)
                 IN  BufferedMembers(x[2], 1, depth + 1, fmt, PutOn(p, Len(brace) + 1, brace, TRUE))

-----------------------------------------------------------------------------
(* cJSON_Minify: blanks and comments go, strings stay.  The result is the
   text, or WILD when reading ran past the final 0.                        *)

RECURSIVE LineEnd(_, _)
LineEnd(t, p) == IF At(t, p) \in {NUL, NEWLINE} THEN p ELSE LineEnd(t, p + 1)

RECURSIVE CommentEnd(_, _)
CommentEnd(t, p) ==
    IF At(t, p) = NUL \/ (At(t, p) = ASTERISK /\ At(t, p + 1) = SLASH) THEN p + 2 ELSE CommentEnd(t, p + 1)

RECURSIVE StringEnd(_, _)
StringEnd(t, p) ==
    CASE At(t, p) \in {QUOTE, NUL, WILD} -> p + 1
      [] At(t, p) = BACKSLASH -> StringEnd(t, p + 2)
      [] OTHER -> StringEnd(t, p + 1)

RECURSIVE Minified(_, _, _)
Minified(t, p, out) ==
    LET c == At(t, p)  end == StringEnd(t, p + 1)
    IN  CASE c = WILD -> <<WILD>>
          [] c = NUL -> out
          [] c \in {BLANK, TABULATOR, RETURN, NEWLINE} -> Minified(t, p + 1, out)
          [] c = SLASH /\ At(t, p + 1) = SLASH -> Minified(t, LineEnd(t, p), out)
          [] c = SLASH /\ At(t, p + 1) = ASTERISK -> Minified(t, CommentEnd(t, p), out)
          [] c = QUOTE -> IF end > Len(t) + 1 THEN <<WILD>>
                          ELSE Minified(t, end, out \o SubSeq(t, p, end - 1))
          [] OTHER -> Minified(t, p + 1, Append(out, c))

-----------------------------------------------------------------------------
(* How far into a text Minify and parse_string are: outside of strings, or
   there behind a slash; in a comment up to the end of the line, in another
   or there behind an asterisk; in a string, behind its backslash, or with so
   many of the four of a \u to come.  The first pass of parse_string counts
   the four one by one and the second skips them, so a quote or a backslash
   among them takes the passes apart, "lost": the string is then longer than
   what was allocated, and the second pass may go on behind the text.       *)
Outside(c) == CASE c = QUOTE -> "in" [] c = SLASH -> "slash" [] OTHER -> "out"
ToCome == [u4 |-> "u3", u3 |-> "u2", u2 |-> "u1", u1 |-> "in"]

AfterByte(at, c) ==
    CASE at = "out" -> Outside(c)
      [] at = "slash" -> IF c = SLASH THEN "line" ELSE IF c = ASTERISK THEN "star" ELSE Outside(c)
      [] at = "line" -> IF c = NEWLINE THEN "out" ELSE "line"
      [] at \in {"block", "star"} ->
            IF c = ASTERISK THEN "star" ELSE IF c = SLASH /\ at = "star" THEN "out" ELSE "block"
      [] at = "in" -> IF c = QUOTE THEN "out" ELSE IF c = BACKSLASH THEN "escape" ELSE "in"
      [] at = "escape" -> IF c = LETTER_U THEN "u4" ELSE "in"
      [] at \in DOMAIN ToCome -> IF c \in {QUOTE, BACKSLASH} THEN "lost" ELSE ToCome[at]
      [] at = "lost" -> "lost"

(* The text ends outside of strings and block comments, and no \u in it has
   a quote or a backslash among its four.                                  *)
Whole(t) == FoldLeft(AfterByte, "out", t) \in {"out", "slash", "line"}

Init ==
    /\ fits = TRUE /\ inside = TRUE /\ calls = 0
    /\ \/ /\ pc = "text" /\ text \in Texts /\ item = NONE
          /\ whole = Whole(text) /\ meaning = ParseWithOpts(text, TRUE).item
       \/ /\ pc = "item" /\ text = <<>> /\ item \in Items
          /\ whole = TRUE /\ meaning = item

Calling == calls < MaxCalls /\ calls' = calls + 1

cJSON_Parse(require_null_terminated) ==
    /\ pc = "text" /\ Calling
    /\ \E v \in {ParseWithOpts(text, require_null_terminated)} :
           /\ pc' = IF v.end > 0 THEN "item" ELSE "failed"
           /\ item' = v.item
           /\ meaning' = IF meaning = NONE THEN v.item ELSE meaning
           /\ fits' = (fits /\ v.fits)
           /\ inside' = (inside /\ v.end /= WILD)
    /\ UNCHANGED <<text, whole>>

RECURSIVE Printable(_)
Printable(x) ==
    CASE x[1] = "num" -> x[3] = 0
      [] x[1] = "arr" -> \A k \in 1..Len(x[2]) : Printable(x[2][k])
      [] x[1] = "obj" -> \A k \in 1..Len(x[2]) : Printable(x[2][k][2])
      [] OTHER -> TRUE

(* cJSON_Print with fmt, cJSON_PrintUnformatted without.                   *)
cJSON_Print(fmt) ==
    /\ pc = "item" /\ Printable(item) /\ Calling
    /\ pc' = "text" /\ text' = print_value(item, 0, fmt)
    /\ fits' = (fits /\ Fits(item, 0, fmt))
    /\ UNCHANGED <<item, meaning, whole, inside>>

cJSON_PrintBuffered(prebuffer, fmt) ==
    /\ pc = "item" /\ Printable(item) /\ Calling
    /\ \E p \in {Buffered(item, 0, fmt, [text |-> <<>>, offset |-> 0, length |-> prebuffer, fits |-> TRUE])} :
           text' = p.text /\ fits' = (fits /\ p.fits)
    /\ pc' = "text"
    /\ UNCHANGED <<item, meaning, whole, inside>>

cJSON_Minify ==
    /\ pc = "text" /\ Calling
    /\ \E t \in {Minified(text, 1, <<>>)} :
           IF t = <<WILD>> THEN pc' = "failed" /\ inside' = FALSE /\ UNCHANGED text
           ELSE text' = t /\ UNCHANGED <<pc, inside>>
    /\ UNCHANGED <<item, meaning, whole, fits>>

Next ==
    \/ \E b \in BOOLEAN : cJSON_Parse(b) \/ cJSON_Print(b)
    \/ \E prebuffer \in Prebuffers, b \in BOOLEAN : cJSON_PrintBuffered(prebuffer, b)
    \/ cJSON_Minify

Spec == Init /\ [][Next]_vars

-----------------------------------------------------------------------------
(* An item survives every sequence of Print, PrintBuffered, Minify and
   Parse: what comes back is what went in (cJSON.c:93-835, 1126-1149).     *)
ItemSurvives ==
    meaning /= NONE => /\ pc = "item" => item = meaning
                       /\ pc = "failed" => ~whole

(* What was allocated holds what is written, and no text is read past its
   end, unless a string or a block comment of it is not closed, where Minify
   runs on, or a \u of it has a quote or a backslash among its four, where
   parse_string does (cJSON.c:225-254, 554-835, 1126-1149).                *)
MemoryIsEnough == whole => fits /\ inside
===============================================================================
