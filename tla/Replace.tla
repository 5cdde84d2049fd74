------------------------------- MODULE Replace -------------------------------
(***************************************************************************)
(* CUtility::Replace(str, find, replacement) and CUtility::Trim(str)       *)
(* (src/base/Utility.cpp), a step for each call of std::string's find,     *)
(* replace and erase.  Positions count from 0 as in the code; NPOS is npos.*)
(* The count n is an int of IntBits bits.                                  *)
(***************************************************************************)
EXTENDS Integers, Sequences, FiniteSets, SequencesExt

CONSTANTS
    Letter, SPACE,  \* the characters
    LenStr, LenFind, LenReplacement,    \* bounds: lengths of the arguments
    MinFind,        \* length of the shortest find
    IntBits

LengthBounds == {LenStr, LenFind, LenReplacement, MinFind, IntBits} \subseteq Nat

VARIABLES str, find, replacement, pos, n, pc, given

arguments == <<find, replacement, given>>
vars == <<str, find, replacement, pos, n, pc, given>>

NPOS == -1
Char == Letter \cup {SPACE}

(* std::string                                                             *)
FoundAt(s, f, p) ==
    {x \in p..(Len(s) - Len(f)) : SubSeq(s, x + 1, x + Len(f)) = f}
FindFrom(s, f, p) == IF FoundAt(s, f, p) = {} THEN NPOS ELSE Min(FoundAt(s, f, p))
Exchange(s, p, len, r) == SubSeq(s, 1, p) \o r \o SubSeq(s, p + len + 1, Len(s))

Init ==
    /\ given \in BoundedSeq(Char, LenStr) /\ str = given
    /\ \/ /\ pc = "search"
          /\ find \in {f \in BoundedSeq(Letter, LenFind) : Len(f) >= MinFind}
          /\ replacement \in BoundedSeq(Letter, LenReplacement)
       \/ pc = "trimFront" /\ find = <<>> /\ replacement = <<>>
    /\ pos = 0 /\ n = 0

-----------------------------------------------------------------------------
Search ==
    /\ pc = "search"
    /\ pos' = FindFrom(str, find, pos)
    /\ pc' = IF pos' = NPOS THEN "replaced" ELSE "found"
    /\ UNCHANGED <<str, n, arguments>>

Past(p, r) == p + Len(r)

Found ==
    /\ pc = "found"
    /\ n' = (n + 1) % 2^IntBits
    /\ str' = Exchange(str, pos, Len(find), replacement)
    /\ pos' = Past(pos, replacement)
    /\ pc' = "search"
    /\ UNCHANGED arguments

(* find_first_not_of and find_last_not_of                                  *)
Plain(s) == {x \in 1..Len(s) : s[x] /= SPACE}

TrimFront ==
    /\ pc = "trimFront"
    /\ str' = IF Plain(str) = {} THEN <<>> ELSE SubSeq(str, Min(Plain(str)), Len(str))
    /\ pc' = "trimBack"
    /\ UNCHANGED <<pos, n, arguments>>

(* npos + 1 is 0.                                                          *)
Kept(s) == IF Plain(s) = {} THEN <<>> ELSE SubSeq(s, 1, Max(Plain(s)))

TrimBack ==
    /\ pc = "trimBack"
    /\ str' = Kept(str)
    /\ pc' = "trimmed"
    /\ UNCHANGED <<pos, n, arguments>>

Next == Search \/ Found \/ TrimFront \/ TrimBack

Spec == Init /\ [][Next]_vars
FairSpec == Spec /\ WF_vars(Next)

-----------------------------------------------------------------------------
(* The references: every occurrence from the left, none within another,
   and how many there are.                                                 *)
RECURSIVE Replaced(_), Occurrences(_)
Replaced(s) ==
    IF Len(s) < Len(find) THEN s
    ELSE IF SubSeq(s, 1, Len(find)) = find
         THEN replacement \o Replaced(SubSeq(s, Len(find) + 1, Len(s)))
         ELSE <<Head(s)>> \o Replaced(Tail(s))
Occurrences(s) ==
    IF Len(s) < Len(find) THEN 0
    ELSE IF SubSeq(s, 1, Len(find)) = find
         THEN 1 + Occurrences(SubSeq(s, Len(find) + 1, Len(s)))
         ELSE Occurrences(Tail(s))

TypeOK ==
    /\ str \in Seq(Char) /\ given \in BoundedSeq(Char, LenStr)
    /\ find \in BoundedSeq(Letter, LenFind) /\ replacement \in BoundedSeq(Letter, LenReplacement)
    /\ n \in 0..(2^IntBits - 1) /\ pos \in {NPOS} \cup 0..Len(str)
    /\ pc \in {"search", "found", "replaced", "trimFront", "trimBack", "trimmed"}

(* Replace exchanges every occurrence once, also when the replacement
   contains what is searched for or makes it anew, and returns "the number
   of the strings replaced" (Utility.h:34).                                *)
ReplacedAll ==
    pc = "replaced" => str = Replaced(given) /\ n = Occurrences(given)

(* Trim keeps all but the spaces at both ends, and nothing of a string of
   spaces.                                                                 *)
Trimmed ==
    pc = "trimmed" =>
        /\ str /= <<>> => Head(str) /= SPACE /\ Last(str) /= SPACE
        /\ \E x \in 0..LenStr, y \in 0..LenStr :
              given = [z \in 1..x |-> SPACE] \o str \o [z \in 1..y |-> SPACE]

(* The call has returned.                                                  *)
Over == pc \in {"replaced", "trimmed"}
=============================================================================
