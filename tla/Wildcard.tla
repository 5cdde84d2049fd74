------------------------------ MODULE Wildcard ------------------------------
(***************************************************************************)
(* CUtility::Wildcard(str1, str2) (src/base/Utility.cpp): whether str1     *)
(* matches the pattern str2, in which '*' stands for any characters and    *)
(* '?' for one.  The pattern is tested segment by segment between the      *)
(* stars; a segment that fails is tried again one character further on     *)
(* once a star has been seen (k = 1).  Indices count from 0 as in the code.*)
(***************************************************************************)
EXTENDS Integers, Sequences, FiniteSets, SequencesExt

CONSTANTS
    Letter,         \* characters of str1
    STAR, ANYONE,   \* '*' and '?'
    Len1, Len2      \* bounds: the lengths of str1 and str2

Alphabet == STAR \notin Letter /\ ANYONE \notin Letter /\ STAR /= ANYONE
LengthBounds == Len1 \in Nat /\ Len2 \in Nat

VARIABLES str1, str2, i, j, k, l, m, n, pc, result

strings == <<str1, str2, n>>
vars == <<str1, str2, i, j, k, l, m, n, pc, result>>

iLen1 == Len(str1)
iLen2 == Len(str2)

(* The index of the last character that is not '*', or 0.                  *)
LastPlain(p) == Max({x \in 1..Len(p) : p[x] /= STAR} \cup {1}) - 1

Init ==
    /\ str1 \in BoundedSeq(Letter, Len1)
    /\ str2 \in BoundedSeq(Letter \cup {STAR, ANYONE}, Len2)
    /\ i = 0 /\ j = 0 /\ k = 0
    /\ l = 0 /\ m = 0           \* read only after they have been set
    /\ n = LastPlain(str2)
    /\ pc = "outer" /\ result = FALSE

-----------------------------------------------------------------------------
Final ==
    \/ i = iLen1 /\ n + 1 = j
    \/ i < iLen1 /\ j /= 0 /\ str2[j] = STAR

Outer ==
    /\ pc = "outer"
    /\ IF i < iLen1 /\ j < iLen2
       THEN pc' = "stars" /\ UNCHANGED result
       ELSE pc' = "done" /\ result' = Final
    /\ UNCHANGED <<strings, i, j, k, l, m>>

AtStar == j < iLen2 /\ str2[j + 1] = STAR

(* Past the stars, to the first character of a segment.                    *)
SkipStar ==
    /\ pc = "stars" /\ AtStar
    /\ k' = 1 /\ j' = j + 1
    /\ UNCHANGED <<strings, i, l, m, pc, result>>

BeginSegment ==
    /\ pc = "stars" /\ ~AtStar
    /\ IF j < iLen2 THEN l' = j /\ m' = i ELSE UNCHANGED <<l, m>>
    /\ pc' = "segment"
    /\ UNCHANGED <<strings, i, j, k, result>>

InSegment == i < iLen1 /\ j < iLen2 /\ ~AtStar
Same == str2[j + 1] \in {str1[i + 1], ANYONE}

MatchOne ==
    /\ pc = "segment" /\ InSegment /\ Same
    /\ i' = i + 1 /\ j' = j + 1
    /\ UNCHANGED <<strings, k, l, m, pc, result>>

(* One further on in str1, and back to the beginning of the segment.       *)
AgainInPlace == UNCHANGED <<i, j, m>>
Again == m' = m + 1 /\ i' = m + 1 /\ j' = l

Mismatch ==
    /\ pc = "segment" /\ InSegment /\ ~Same
    /\ IF k = 1 THEN Again /\ UNCHANGED <<pc, result>>
                ELSE pc' = "done" /\ result' = FALSE /\ UNCHANGED <<i, j, m>>
    /\ UNCHANGED <<strings, k, l>>

(* A pattern that ended before str1 did is tried again too.                *)
EndSegment ==
    /\ pc = "segment" /\ ~InSegment
    /\ IF i < iLen1 /\ j = iLen2 /\ str2[j] /= STAR /\ k = 1
       THEN Again ELSE UNCHANGED <<i, j, m>>
    /\ pc' = "outer"
    /\ UNCHANGED <<strings, k, l, result>>

Next == Outer \/ SkipStar \/ BeginSegment \/ MatchOne \/ Mismatch \/ EndSegment

Spec == Init /\ [][Next]_vars
FairSpec == Spec /\ WF_vars(Next)

-----------------------------------------------------------------------------
(* What matching means: a way to cut s into the parts that the characters
   of p stand for.                                                         *)
RECURSIVE Matches(_, _)
Matches(s, p) ==
    IF p = <<>> THEN s = <<>>
    ELSE IF Head(p) = STAR
         THEN \E x \in 1..(Len(s) + 1) : Matches(SubSeq(s, x, Len(s)), Tail(p))
         ELSE s /= <<>> /\ Head(p) \in {Head(s), ANYONE} /\ Matches(Tail(s), Tail(p))

TypeOK ==
    /\ i \in 0..iLen1 /\ j \in 0..iLen2 /\ k \in {0, 1}
    /\ l \in 0..iLen2 /\ m \in 0..iLen1 /\ (n = 0 \/ n \in 0..(iLen2 - 1))
    /\ pc \in {"outer", "stars", "segment", "done"} /\ result \in BOOLEAN

(* What has been read of str1 matches what has been read of the pattern,
   after every retry too (Utility.cpp:117, 124).                           *)
ReadMatches ==
    pc /= "done" => Matches(SubSeq(str1, 1, i), SubSeq(str2, 1, j))

(* The answer is right for every str1 that is not empty: no retry was left
   out and none too many was made.  An empty str1 is said not to match "*"
   (Utility.cpp:127).                                                      *)
RightUnlessEmpty ==
    pc = "done" /\ str1 /= <<>> => (result <=> Matches(str1, str2))

(* The call has returned.                                                  *)
Over == pc = "done"
=============================================================================
