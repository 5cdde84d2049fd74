------------------------------ MODULE MarkupPath ------------------------------
(***************************************************************************)
(* How FindElem of CMarkup (src/base/Markup.cpp) takes its argument: a     *)
(* PathPos parses it, and of all paths only a tag name, with what may      *)
(* follow a tag name in a path, is looked for.                             *)
(*                                                                         *)
(* A path and a tag name are sequences of the characters that tell them    *)
(* apart; any other character stands for a letter of a name.               *)
(***************************************************************************)
EXTENDS Integers, Sequences, FiniteSetsExt, SequencesExt

CONSTANTS
    Paths,          \* arguments of FindElem
    Siblings,       \* tag names of the children of one element: sequences of names
    Upper,          \* [lower case letters -> upper case letters]
    NonAscii,       \* characters above 127
    MaxCalls        \* bound: calls of FindElem

PathBounds == MaxCalls \in Nat

VARIABLES
    path, names, ignoreCase,    \* the argument, the siblings, MDF_IGNORECASE
    before, iPos,               \* the main position before and after, 0 for none
    told,                       \* what the last call returned
    calls

vars == <<path, names, ignoreCase, before, iPos, told, calls>>

NUL  == "nul"
WILD == "wild"      \* what is behind the final 0
Quotes == {"'", "\""}
Digits == {"0", "1", "2"}
WordStops == {" ", "=", "/", "[", "]"}

At(p, i) == IF i <= Len(p) THEN p[i] ELSE IF i = Len(p) + 1 THEN NUL ELSE WILD

-----------------------------------------------------------------------------
(* PathPos                                                                 *)

Until(p, i, stops) == Min({j \in i..(Len(p) + 2) : At(p, j) \in stops \cup {NUL, WILD}})
IncWord(p, i) == Until(p, i, WordStops)
GetNumAndInc(p, i) == Min({j \in i..(Len(p) + 1) : At(p, j) \notin Digits})

(* What follows "=": up to the bracket, or between two quotes, where a
   quote that is missing is taken for one that is there.                   *)
GetValAndInc(p, i) ==
    IF At(p, i + 1) \in Quotes THEN Until(p, i + 2, {At(p, i + 1)}) + 1 ELSE Until(p, i + 1, {"]"})

(* 0 for an empty path, 1 for a name, 2 for an absolute path, 3 for one
   from anywhere; a path begins behind its slashes.                        *)
PathType(p) ==
    CASE p = <<>> -> 0
      [] At(p, 1) = "/" /\ At(p, 2) = "/" -> 3
      [] At(p, 1) = "/" /\ At(p, 2) /= "/" -> 2
      [] OTHER -> 1

(* Where the predicate that begins at i ends.                              *)
PredicateEnd(p, i) ==
    CASE At(p, i) \in Digits \ {"0"} -> GetNumAndInc(p, i)
      [] At(p, i) = "@" -> LET j == IncWord(p, i + 1)
                           IN  IF At(p, j) = "=" THEN GetValAndInc(p, j) ELSE j
      [] OTHER -> IncWord(p, i)

(* ParsePath from i on: "valid", "invalid", or "outside" when it depends on
   what is behind the final 0.                                             *)
RECURSIVE ParseLevels(_, _)
AfterLevel(p, i) ==
    CASE At(p, i) = NUL -> "valid"
      [] At(p, i) = "/" /\ PathType(p) /= 3 ->
            IF At(p, i + 1) /= "@" THEN ParseLevels(p, i + 1)
            ELSE IF At(p, IncWord(p, i + 2)) = NUL THEN "valid" ELSE "invalid"
      [] OTHER -> "invalid"

ParseLevels(p, i) ==
    LET word == IncWord(p, i)
        end  == PredicateEnd(p, word + 1)
    IN  CASE At(p, i) = NUL -> "invalid"
          [] At(p, i) /= NUL /\ At(p, word) /= "[" -> AfterLevel(p, word)
          [] At(p, i) /= NUL /\ At(p, word) = "[" ->
                CASE At(p, end) = "]" -> AfterLevel(p, end + 1)
                  [] At(p, end) = WILD -> "outside"
                  [] OTHER -> "invalid"

ParsePath(p) == IF PathType(p) = 0 THEN "valid" ELSE ParseLevels(p, PathType(p))

-----------------------------------------------------------------------------
(* TokenPos::Match.  A letter is compared without its case until a
   character above 127 was the same in both.                               *)

UpperOf(c) == IF c \in DOMAIN Upper THEN Upper[c] ELSE c

StrNIACmp(p1, p2, n) ==
    \A i \in 1..n :
        \/ At(p1, i) = At(p2, i)
        \/ /\ \A j \in 1..(i - 1) : ~(At(p1, j) = At(p2, j) /\ At(p1, j) \in NonAscii)
           /\ UpperOf(At(p1, i)) = UpperOf(At(p2, i))

MatchPrefix(name, p) ==
    IF ignoreCase THEN StrNIACmp(name, p, Len(name)) ELSE \A i \in 1..Len(name) : name[i] = At(p, i)

Match(name, p) ==
    /\ IF ignoreCase THEN StrNIACmp(name, p, Len(name)) ELSE \A i \in 1..Len(name) : name[i] = At(p, i)
    /\ At(p, Len(name) + 1) \in WordStops \cup {NUL}

(* The next sibling a path of that validity leads to, 0 for none.          *)
x_FindElem(i, p, valid) ==
    LET found == {j \in (i + 1)..Len(names) : PathType(p) = 0 \/ Match(names[j], p)}
    IN  IF ~valid \/ PathType(p) \in {2, 3} \/ found = {} THEN 0 ELSE Min(found)

Init ==
    /\ path \in Paths /\ names \in Siblings /\ ignoreCase \in BOOLEAN
    /\ before = 0 /\ iPos = 0 /\ told = FALSE /\ calls = 0

FindElem ==
    /\ calls < MaxCalls /\ calls' = calls + 1
    /\ \E valid \in CASE ParsePath(path) = "valid" -> {TRUE}
                      [] ParsePath(path) = "invalid" -> {FALSE}
                      [] ParsePath(path) = "outside" -> BOOLEAN :
          LET i == x_FindElem(iPos, path, valid)
          IN  /\ iPos' = IF i /= 0 THEN i ELSE iPos
              /\ told' = (i /= 0)
    /\ before' = iPos
    /\ UNCHANGED <<path, names, ignoreCase>>

Next == FindElem
Spec == Init /\ [][Next]_vars

-----------------------------------------------------------------------------
(* The paths there are: levels with slashes between them, each a word that
   may have a predicate, and at the end perhaps an attribute.              *)
Has(s, chars) == \E i \in DOMAIN s : s[i] \in chars
IsWord(s) == ~Has(s, WordStops)

IsValue(s) ==
    IF s /= <<>> /\ s[1] \in Quotes
    THEN Len(s) > 1 /\ Last(s) = s[1] /\ ~Has(SubSeq(s, 2, Len(s) - 1), {s[1]})
    ELSE ~Has(s, {"]"})

IsPredicate(s) ==
    \/ s /= <<>> /\ s[1] /= "0" /\ \A i \in DOMAIN s : s[i] \in Digits
    \/ s /= <<>> /\ s[1] = "@" /\
          \E cut \in 1..Len(s) :
              /\ IsWord(SubSeq(s, 2, cut))
              /\ cut = Len(s) \/ (s[cut + 1] = "=" /\ IsValue(SubSeq(s, cut + 2, Len(s))))
    \/ IsWord(s) /\ (s = <<>> \/ s[1] \notin {"@", "1", "2"})

IsLevel(s) ==
    \E cut \in 0..Len(s) :
        /\ IsWord(SubSeq(s, 1, cut))
        /\ \/ cut = Len(s)
           \/ /\ cut + 2 <= Len(s) /\ s[cut + 1] = "[" /\ Last(s) = "]"
              /\ IsPredicate(SubSeq(s, cut + 2, Len(s) - 1))

RECURSIVE IsLevels(_, _)
IsLevels(s, many) ==
    s /= <<>> /\ \E cut \in 0..Len(s) :
        /\ IsLevel(SubSeq(s, 1, cut))
        /\ LET rest == SubSeq(s, cut + 2, Len(s))
           IN  \/ cut = Len(s)
               \/ /\ many /\ s[cut + 1] = "/"
                  /\ rest /= <<>>
                  /\ IF rest[1] = "@" THEN IsWord(rest) ELSE IsLevels(rest, TRUE)

IsPath(p) ==
    \/ p = <<>>
    \/ p[1] /= "/" /\ IsLevels(p, TRUE)
    \/ p[1] = "/" /\ At(p, 2) /= "/" /\ IsLevels(Tail(p), TRUE)
    \/ p[1] = "/" /\ At(p, 2) = "/" /\ IsLevels(SubSeq(p, 3, Len(p)), FALSE)

(* The parser accepts the paths of this grammar and no others, and is out
   of the text only in one that lacks a quote (Markup.cpp:2064-2128).      *)
PathsParsed ==
    /\ ParsePath(path) = "valid" => IsPath(path)
    /\ ParsePath(path) /= "valid" => ~IsPath(path)
    /\ ParsePath(path) = "outside" => Has(path, Quotes)

(* A call finds the next sibling with the name the path begins with, or the
   next of all; it finds none that way for a path from the root or from
   anywhere, and stays where it was (Markup.cpp:2788-2805, 4108-4141).     *)
SameName(a, b) ==
    Len(a) = Len(b) /\ \A i \in DOMAIN a : a[i] = b[i] \/ (ignoreCase /\ UpperOf(a[i]) = UpperOf(b[i]))

FindsNext ==
    calls > 0 /\ (~ignoreCase \/ ~Has(path, NonAscii)) /\ ParsePath(path) /= "outside" =>
        LET word == SubSeq(path, 1, IncWord(path, 1) - 1)
            next == {j \in (before + 1)..Len(names) : path = <<>> \/ SameName(names[j], word)}
            serves == IsPath(path) /\ (path = <<>> \/ path[1] /= "/")
        IN  /\ told <=> serves /\ next /= {}
            /\ iPos = IF told THEN Min(next) ELSE before
===============================================================================
