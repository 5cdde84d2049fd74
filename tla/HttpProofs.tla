----------------------------- MODULE HttpProofs -----------------------------
(***************************************************************************)
(* That both ends of HTTP cut the stream at the right places, however recv *)
(* cuts it, for any number of messages, lengths and uses: ServletHandler   *)
(* (HttpFraming) and HttpClientSocket, by an inductive invariant each.     *)
(*                                                                         *)
(* The stream is a recursive function of the messages, so what it holds is *)
(* found by induction over a set of numbers, which is a first-order fact;  *)
(* "c is the part of the stream from a to b" is the notion the server's    *)
(* proof turns on.                                                         *)
(***************************************************************************)
EXTENDS MCHttp, SequencesExt, FiniteSetTheorems, WellFoundedInduction, TLAPS

(* Induction over a set: one that has 0 and n + 1 with n has every number.  *)
Less == {ss \in Nat \X Nat : ss[1] < ss[2]}

LEMMA LessWellFounded == IsWellFoundedOn(Less, Nat)
BY NatLessThanWellFounded DEF OpToRel, Less

LEMMA Least ==
    ASSUME NEW T, T \subseteq Nat, T # {}
    PROVE  \E n \in T : \A k \in T : n <= k
<1>1. PICK x \in T : \A y \in T : ~(<<y, x>> \in Less)
  BY LessWellFounded, WFMin, Zenon
<1>2. \A y \in T : ~(y < x)
  <2> SUFFICES ASSUME NEW y \in T, y < x PROVE <<y, x>> \in Less
    BY <1>1
  <2> QED
    BY DEF Less
<1> QED
  BY <1>2

LEMMA SetInduction ==
    ASSUME NEW S, 0 \in S, \A n \in Nat : n \in S => n + 1 \in S
    PROVE  Nat \subseteq S
<1> SUFFICES ASSUME Nat \ S # {} PROVE FALSE
  OBVIOUS
<1>1. PICK n \in Nat \ S : \A k \in Nat \ S : n <= k
  BY Least
<1>2. n # 0 /\ n - 1 \in Nat
  BY <1>1
<1>3. n - 1 \in S
  BY <1>1, <1>2
<1> QED
  BY <1>1, <1>2, <1>3

-----------------------------------------------------------------------------
(* Sequences.                                                              *)
LEMMA SameElements ==
    ASSUME NEW S, NEW s \in Seq(S), NEW t \in Seq(S), Len(s) = Len(t), \A i \in 1..Len(s) : s[i] = t[i]
    PROVE  s = t
OBVIOUS

(* A sequence is what it has up to a place and what it has behind it.      *)
LEMMA Cut ==
    ASSUME NEW S, NEW s \in Seq(S), NEW n \in 0..Len(s)
    PROVE  /\ SubSeq(s, 1, n) \in Seq(S) /\ SubSeq(s, n + 1, Len(s)) \in Seq(S)
           /\ Len(SubSeq(s, 1, n)) = n /\ Len(SubSeq(s, n + 1, Len(s))) = Len(s) - n
           /\ \A i \in 1..n : SubSeq(s, 1, n)[i] = s[i]
           /\ \A i \in 1..(Len(s) - n) : SubSeq(s, n + 1, Len(s))[i] = s[n + i]
           /\ s = SubSeq(s, 1, n) \o SubSeq(s, n + 1, Len(s))
<1> DEFINE a == SubSeq(s, 1, n)
<1> DEFINE b == SubSeq(s, n + 1, Len(s))
<1>1. a \in Seq(S) /\ Len(a) = n /\ \A i \in 1..n : a[i] = s[i]
  OBVIOUS
<1>2. b \in Seq(S) /\ Len(b) = Len(s) - n /\ \A i \in 1..(Len(s) - n) : b[i] = s[n + i]
  OBVIOUS
<1> HIDE DEF a, b
<1>3. s = a \o b
  <2>1. \A i \in 1..Len(s) : (a \o b)[i] = s[i]
    <3>1. \A i \in 1..n : (a \o b)[i] = s[i]
      BY <1>1, <1>2
    <3>2. \A i \in (n + 1)..Len(s) : (a \o b)[i] = b[i - n] /\ b[i - n] = s[n + (i - n)] /\ n + (i - n) = i
      BY <1>1, <1>2
    <3> QED
      <4>1. n \in Nat /\ n <= Len(s) /\ \A i \in 1..Len(s) : i \in 1..n \/ i \in (n + 1)..Len(s)
        OBVIOUS
      <4> QED
        BY <3>1, <3>2, <4>1
  <2>2. a \o b \in Seq(S) /\ Len(a \o b) = Len(s)
    BY <1>1, <1>2
  <2> QED
    BY <2>1, <2>2, SameElements
<1>4. SubSeq(s, 1, n) = a /\ SubSeq(s, n + 1, Len(s)) = b
  BY DEF a, b
<1> QED
  BY <1>1, <1>2, <1>3, <1>4

LEMMA Behind ==
    ASSUME NEW S, NEW s \in Seq(S), NEW n \in 1..(Len(s) + 1)
    PROVE  /\ SubSeq(s, n, Len(s)) \in Seq(S) /\ Len(SubSeq(s, n, Len(s))) = Len(s) - n + 1
           /\ \A i \in 1..(Len(s) - n + 1) : SubSeq(s, n, Len(s))[i] = s[n - 1 + i]
OBVIOUS

LEMMA Joined ==
    ASSUME NEW S, NEW s \in Seq(S), NEW t \in Seq(S)
    PROVE  /\ s \o t \in Seq(S) /\ Len(s \o t) = Len(s) + Len(t)
           /\ \A i \in 1..Len(s) : (s \o t)[i] = s[i]
           /\ \A i \in 1..Len(t) : (s \o t)[Len(s) + i] = t[i]
OBVIOUS

(* What is behind the first n of a concatenation is what is behind the first
   n of its first part, and then the second.                               *)
LEMMA JoinBehind ==
    ASSUME NEW S, NEW c \in Seq(S), NEW u \in Seq(S), NEW d \in Seq(S), NEW b \in Seq(S),
           Len(d) <= Len(c), \A i \in 1..Len(d) : d[i] = c[Len(c) - Len(d) + i],
           Len(b) = Len(d) + Len(u), \A i \in 1..Len(b) : b[i] = (c \o u)[Len(c) - Len(d) + i]
    PROVE  d \o u = b
<1> DEFINE n == Len(c) - Len(d)
<1>0. n \in Nat /\ Len(c) = n + Len(d) /\ Len(c) + Len(u) = n + Len(b)
  OBVIOUS
<1>5. \A i \in 1..Len(d) : d[i] = c[n + i]
  OBVIOUS
<1>6. \A i \in 1..Len(b) : (c \o u)[n + i] = b[i]
  OBVIOUS
<1> HIDE DEF n
<1>1. /\ d \o u \in Seq(S) /\ Len(d \o u) = Len(b)
      /\ \A i \in 1..Len(d) : (d \o u)[i] = d[i]
      /\ \A i \in 1..Len(u) : (d \o u)[Len(d) + i] = u[i]
  BY Joined
<1>2. /\ \A i \in 1..Len(c) : c[i] = (c \o u)[i]
      /\ \A i \in 1..Len(u) : (c \o u)[Len(c) + i] = u[i]
  BY Joined
<1>3. ASSUME NEW i \in 1..Len(b) PROVE (d \o u)[i] = b[i]
  <2>1. CASE i <= Len(d)
    <3>1. i \in 1..Len(d) /\ n + i \in 1..Len(c)
      BY <1>0, <2>1
    <3> QED
      BY <1>1, <1>2, <1>5, <1>6, <3>1
  <2>2. CASE i > Len(d)
    <3>1. i - Len(d) \in 1..Len(u) /\ Len(d) + (i - Len(d)) = i /\ Len(c) + (i - Len(d)) = n + i
      BY <1>0, <2>2
    <3>2. (d \o u)[i] = u[i - Len(d)]
      BY <1>1, <3>1
    <3>3. (c \o u)[n + i] = u[i - Len(d)]
      BY <1>2, <3>1
    <3> QED
      BY <1>6, <3>2, <3>3
  <2> QED
    BY <2>1, <2>2
<1> QED
  BY <1>1, <1>3, SameElements

LEMMA JoinAssociates ==
    ASSUME NEW S, NEW s \in Seq(S), NEW t \in Seq(S), NEW u \in Seq(S)
    PROVE  (s \o t) \o u = s \o (t \o u)
OBVIOUS

(* What comes first in a concatenation is a prefix of it.                  *)
LEMMA PrefixOfJoin ==
    ASSUME NEW S, NEW s \in Seq(S), NEW t \in Seq(S)
    PROVE  IsPrefix(s, s \o t)
BY DEF IsPrefix

(* A suffix, element by element.                                           *)
LEMMA SuffixAt ==
    ASSUME NEW S, NEW s \in Seq(S), NEW t \in Seq(S)
    PROVE  IsSuffix(s, t) <=> /\ Len(s) <= Len(t)
                              /\ \A i \in 1..Len(s) : s[i] = t[Len(t) - Len(s) + i]
<1> DEFINE R(x) == Reverse(x)
<1>1. \A x \in Seq(S) : R(x) \in Seq(S) /\ Len(R(x)) = Len(x) /\ \A i \in 1..Len(x) : R(x)[i] = x[Len(x) - i + 1]
  BY DEF Reverse
<1>2. R(s) \in Seq(S) /\ R(t) \in Seq(S) /\ Len(R(s)) = Len(s) /\ Len(R(t)) = Len(t)
  BY <1>1
<1>3. IsSuffix(s, t) <=> Len(s) <= Len(t) /\ SubSeq(R(s), 1, Len(s)) = SubSeq(R(t), 1, Len(s))
  BY <1>2 DEF IsSuffix, IsPrefix
<1> HIDE DEF R
<1>4. ASSUME Len(s) <= Len(t)
      PROVE  SubSeq(R(s), 1, Len(s)) = SubSeq(R(t), 1, Len(s)) <=> \A i \in 1..Len(s) : R(s)[i] = R(t)[i]
  <2>1. SubSeq(R(s), 1, Len(s)) = SubSeq(R(t), 1, Len(s)) => \A i \in 1..Len(s) : R(s)[i] = R(t)[i]
    <3>1. \A i \in 1..Len(s) : SubSeq(R(s), 1, Len(s))[i] = R(s)[i] /\ SubSeq(R(t), 1, Len(s))[i] = R(t)[i]
      BY <1>2, <1>4
    <3> QED
      BY <3>1
  <2>2. (\A i \in 1..Len(s) : R(s)[i] = R(t)[i]) => SubSeq(R(s), 1, Len(s)) = SubSeq(R(t), 1, Len(s))
    BY <1>2, <1>4
  <2> QED
    BY <2>1, <2>2
<1>5. ASSUME Len(s) <= Len(t)
      PROVE  (\A i \in 1..Len(s) : R(s)[i] = R(t)[i]) <=> \A i \in 1..Len(s) : s[i] = t[Len(t) - Len(s) + i]
  <2>1. \A i \in 1..Len(s) : R(s)[i] = s[Len(s) - i + 1] /\ R(t)[i] = t[Len(t) - i + 1]
    <3>1. \A i \in 1..Len(s) : i \in 1..Len(t)
      BY <1>5
    <3>2. \A i \in 1..Len(s) : R(s)[i] = s[Len(s) - i + 1]
      BY <1>1
    <3>3. \A i \in 1..Len(t) : R(t)[i] = t[Len(t) - i + 1]
      BY <1>1
    <3> QED
      BY <3>1, <3>2, <3>3
  <2>2. \A i \in 1..Len(s) : Len(s) - i + 1 \in 1..Len(s) /\ Len(s) - (Len(s) - i + 1) + 1 = i
                             /\ Len(t) - Len(s) + (Len(s) - i + 1) = Len(t) - i + 1
    OBVIOUS
  <2>3. ASSUME \A i \in 1..Len(s) : R(s)[i] = R(t)[i], NEW i \in 1..Len(s) PROVE s[i] = t[Len(t) - Len(s) + i]
    <3>1. R(s)[Len(s) - i + 1] = R(t)[Len(s) - i + 1]
      BY <2>2, <2>3
    <3>2. Len(s) - (Len(s) - i + 1) + 1 = i /\ Len(t) - (Len(s) - i + 1) + 1 = Len(t) - Len(s) + i
      OBVIOUS
    <3> QED
      BY <2>1, <2>2, <3>1, <3>2
  <2>4. ASSUME \A i \in 1..Len(s) : s[i] = t[Len(t) - Len(s) + i], NEW i \in 1..Len(s) PROVE R(s)[i] = R(t)[i]
    BY <2>1, <2>2, <2>4
  <2> QED
    BY <2>3, <2>4
<1> QED
  BY <1>3, <1>4, <1>5

(* The first part of a sequence, with or without something in front, is a
   prefix of the whole.                                                     *)
LEMMA CutPrefix ==
    ASSUME NEW S, NEW g \in Seq(S), NEW s \in Seq(S), NEW t \in Seq(S), NEW m \in 0..Len(s)
    PROVE  /\ IsPrefix(SubSeq(s, 1, m), s \o t)
           /\ IsPrefix(g \o SubSeq(s, 1, m), g \o s)
<1>1. PICK a, b : a = SubSeq(s, 1, m) /\ b = SubSeq(s, m + 1, Len(s))
  OBVIOUS
<1>2. a \in Seq(S) /\ b \in Seq(S) /\ s = a \o b
  <2>1. /\ SubSeq(s, 1, m) \in Seq(S) /\ SubSeq(s, m + 1, Len(s)) \in Seq(S)
        /\ s = SubSeq(s, 1, m) \o SubSeq(s, m + 1, Len(s))
    BY Cut
  <2> QED
    BY <1>1, <2>1
<1>3. s \o t = a \o (b \o t) /\ g \o s = (g \o a) \o b
  <2>1. (a \o b) \o t = a \o (b \o t)
    BY <1>2, JoinAssociates
  <2>2. g \o (a \o b) = (g \o a) \o b
    BY <1>2, JoinAssociates
  <2> QED
    BY <1>2, <2>1, <2>2
<1>4. b \o t \in Seq(S) /\ g \o a \in Seq(S)
  BY <1>2
<1>5. IsPrefix(a, a \o (b \o t)) /\ IsPrefix(g \o a, (g \o a) \o b)
  BY <1>2, <1>4, PrefixOfJoin
<1> QED
  BY <1>1, <1>3, <1>5

(* A suffix stays one when both sequences are extended by the same.        *)
LEMMA SuffixExtends ==
    ASSUME NEW S, NEW s \in Seq(S), NEW t \in Seq(S), NEW u \in Seq(S), IsSuffix(s, t)
    PROVE  IsSuffix(s \o u, t \o u)
<1>1. Len(s) <= Len(t) /\ \A i \in 1..Len(s) : s[i] = t[Len(t) - Len(s) + i]
  BY SuffixAt
<1>2. /\ s \o u \in Seq(S) /\ Len(s \o u) = Len(s) + Len(u)
      /\ \A i \in 1..Len(s) : (s \o u)[i] = s[i]
      /\ \A i \in 1..Len(u) : (s \o u)[Len(s) + i] = u[i]
  BY Joined
<1>3. /\ t \o u \in Seq(S) /\ Len(t \o u) = Len(t) + Len(u)
      /\ \A i \in 1..Len(t) : (t \o u)[i] = t[i]
      /\ \A i \in 1..Len(u) : (t \o u)[Len(t) + i] = u[i]
  BY Joined
<1>4. ASSUME NEW i \in 1..Len(s \o u) PROVE (s \o u)[i] = (t \o u)[Len(t \o u) - Len(s \o u) + i]
  <2>1. Len(t \o u) - Len(s \o u) + i = Len(t) - Len(s) + i
    BY <1>2, <1>3
  <2>2. CASE i <= Len(s)
    <3>1. i \in 1..Len(s) /\ Len(t) - Len(s) + i \in 1..Len(t)
      BY <1>1, <2>2
    <3>2. (s \o u)[i] = s[i] /\ (t \o u)[Len(t) - Len(s) + i] = t[Len(t) - Len(s) + i]
      BY <1>2, <1>3, <3>1
    <3> QED
      BY <1>1, <2>1, <3>1, <3>2
  <2>3. CASE i > Len(s)
    <3>1. i - Len(s) \in 1..Len(u) /\ Len(s) + (i - Len(s)) = i /\ Len(t) + (i - Len(s)) = Len(t) - Len(s) + i
      BY <1>2, <2>3
    <3>2. (s \o u)[i] = u[i - Len(s)]
      BY <1>2, <3>1
    <3>3. (t \o u)[Len(t) - Len(s) + i] = u[i - Len(s)]
      BY <1>3, <3>1
    <3> QED
      BY <2>1, <3>2, <3>3
  <2>4. i <= Len(s) \/ i > Len(s)
    BY <1>2
  <2> QED
    BY <2>2, <2>3, <2>4
<1>5. Len(s \o u) <= Len(t \o u)
  BY <1>1, <1>2, <1>3
<1> QED
  BY <1>2, <1>3, <1>4, <1>5, SuffixAt

LEMMA SuffixOfNothing == \A t \in Seq(Int) : IsSuffix(<<>>, t)
<1> SUFFICES ASSUME NEW t \in Seq(Int) PROVE IsSuffix(<<>>, t)
  OBVIOUS
<1>1. <<>> \in Seq(Int) /\ Len(<<>>) = 0 /\ Len(t) \in Nat
  OBVIOUS
<1>2. \A i \in 1..Len(<<>>) : <<>>[i] = t[Len(t) - Len(<<>>) + i]
  BY <1>1
<1>3. Len(<<>>) <= Len(t)
  BY <1>1
<1> QED
  BY <1>1, <1>2, <1>3, SuffixAt

-----------------------------------------------------------------------------
(* The components' own copies of the community modules' operators are the
   ones these lemmas are about.                                             *)
LEMMA OneNotion ==
    /\ \A s, t : Client!IsPrefix(s, t) <=> IsPrefix(s, t)
    /\ \A s, t : Client!IsSuffix(s, t) <=> IsSuffix(s, t)
    /\ \A s, t : Server!IsPrefix(s, t) <=> IsPrefix(s, t)
    /\ \A s, t : Server!IsSuffix(s, t) <=> IsSuffix(s, t)
    /\ \A s : Server!Cardinality(s) = Cardinality(s)
<1>1. \A s, t : Client!IsPrefix(s, t) <=> IsPrefix(s, t)
  BY DEF Client!IsPrefix, IsPrefix
<1>2. \A s : Client!Reverse(s) = Reverse(s)
  BY DEF Client!Reverse, Reverse
<1>3. \A s, t : Client!IsSuffix(s, t) <=> IsSuffix(s, t)
  BY <1>1, <1>2 DEF Client!IsSuffix, IsSuffix
<1>4. \A s, t : Server!IsPrefix(s, t) <=> IsPrefix(s, t)
  BY DEF Server!IsPrefix, IsPrefix
<1>5. \A s : Server!Reverse(s) = Reverse(s)
  BY DEF Server!Reverse, Reverse
<1>6. \A s, t : Server!IsSuffix(s, t) <=> IsSuffix(s, t)
  BY <1>4, <1>5 DEF Server!IsSuffix, IsSuffix
<1>7. \A s : Server!Cardinality(s) = Cardinality(s)
  BY DEF Server!Cardinality, Cardinality
<1> QED
  BY <1>1, <1>3, <1>4, <1>6, <1>7

-----------------------------------------------------------------------------
(* What the object and its socket have at each step of a call: before the
   header is whole, what is cached and what has not been received are the
   response to this request; in the body, what was given and what has not
   been received are its body.                                              *)
Expected == sent[use].length /= Client!NoLine => nContentLength = sent[use].length

StreamInv ==
    /\ unread \in Seq(Int) /\ strCache \in Seq(Int) /\ given \in Seq(Int) /\ m_strBody \in Seq(Int)
    /\ sent = [k \in 1..MaxUses |-> sent[k]]
    /\ pc = "connect" => sock \in {"fresh", "connected"}
    /\ pc # "idle" => use > 0
    /\ pc \in {"connect", "send", "header"} => given = <<>>
    /\ pc = "send" => unread = <<>>
    /\ pc = "header" => strCache \o unread = Client!Encode(use, sent[use]) /\ Len(strCache) < 3
    /\ pc = "body" => given \o unread = sent[use].body /\ nRecv = Len(given) /\ Expected
    /\ ~consumes => IsSuffix(given, m_strBody)

ClientInv == Client!TypeOK /\ StreamInv /\ Client!PartIsPrefix /\ Client!BodyIsOfThisResponse

(* The header of a response ends behind its two line ends, and its one line
   is the request's number.                                                 *)
Found(k, r, c, u) ==
    /\ Len(c) < 3 => Client!HeaderEnd(c) = 0
    /\ Len(c) >= 3 => /\ Client!HeaderEnd(c) = 3 /\ Client!HeadersIn(c) = {k}
                      /\ SubSeq(c, 4, Len(c)) \in Seq(Int)
                      /\ SubSeq(c, 4, Len(c)) \o u = r.body

LEMMA HeaderFound ==
    ASSUME MaxLength \in Nat
    PROVE  \A k \in Nat \ {0} : \A r \in Client!Response(k) : \A c, u \in Seq(Int) :
              c \o u = Client!Encode(k, r) => Found(k, r, c, u)
<1> SUFFICES ASSUME NEW k \in Nat \ {0}, NEW r \in Client!Response(k), NEW c \in Seq(Int), NEW u \in Seq(Int),
                    c \o u = Client!Encode(k, r)
             PROVE  Found(k, r, c, u)
  OBVIOUS
<1>1. r.body \in Seq(Int)
  BY DEF Client!Response, Client!LineEnd
<1>2. <<k, Client!LineEnd, Client!LineEnd>> \in Seq(Int) /\ Len(<<k, Client!LineEnd, Client!LineEnd>>) = 3
  BY DEF Client!LineEnd
<1>3. /\ c \o u \in Seq(Int) /\ Len(c \o u) = 3 + Len(r.body) /\ Len(c \o u) = Len(c) + Len(u)
      /\ \A i \in 1..Len(r.body) : (c \o u)[3 + i] = r.body[i]
  BY <1>1, <1>2, Joined DEF Client!Encode
<1>4. /\ \A i \in 1..Len(c) : c[i] = (c \o u)[i]
      /\ \A i \in 1..Len(u) : (c \o u)[Len(c) + i] = u[i]
  BY Joined
<1>5. (c \o u)[1] = k /\ (c \o u)[2] = Client!LineEnd /\ (c \o u)[3] = Client!LineEnd
  BY <1>1, <1>2 DEF Client!Encode
<1>6. k # Client!LineEnd
  BY DEF Client!LineEnd
<1> DEFINE ends == {p \in 2..Len(c) : c[p - 1] = Client!LineEnd /\ c[p] = Client!LineEnd}
<1>7. 2 \notin ends
  BY <1>4, <1>5, <1>6
<1>8. ASSUME Len(c) < 3 PROVE Client!HeaderEnd(c) = 0
  <2>1. ends = {}
    BY <1>7, <1>8
  <2> QED
    BY <2>1 DEF Client!HeaderEnd
<1>9. ASSUME Len(c) >= 3
      PROVE  /\ Client!HeaderEnd(c) = 3 /\ Client!HeadersIn(c) = {k}
             /\ SubSeq(c, 4, Len(c)) \in Seq(Int)
             /\ SubSeq(c, 4, Len(c)) \o u = r.body
  <2>1. 3 \in ends
    BY <1>4, <1>5, <1>9
  <2>2. \A p \in ends : p \in Int /\ 3 <= p
    BY <1>7
  <2>3. \A p \in ends : (\A q \in ends : p <= q) => p = 3
    BY <2>1, <2>2
  <2>4. Client!HeaderEnd(c) = CHOOSE p \in ends : \A q \in ends : p <= q
    BY <2>1 DEF Client!HeaderEnd
  <2>5. Client!HeaderEnd(c) = 3
    BY <2>1, <2>2, <2>3, <2>4
  <2>6. Client!HeadersIn(c) = {k}
    <3>0. k > 0 /\ 1 \in 1..Len(c) /\ 2 \in 1..Len(c) /\ 3 \in 1..Len(c)
      BY <1>9
    <3>1. c[1] = k /\ c[2] = 0 /\ c[3] = 0 /\ k > 0
      BY <1>4, <1>5, <3>0 DEF Client!LineEnd
    <3>2. \A q \in 1..3 : c[q] > 0 <=> q = 1
      BY <3>1
    <3> QED
      BY <2>5, <3>1, <3>2 DEF Client!HeadersIn
  <2>7. PICK d : d = SubSeq(c, 4, Len(c))
    OBVIOUS
  <2>8. Len(c) \in Nat /\ Len(u) \in Nat /\ Len(r.body) \in Nat
    BY <1>1
  <2>9. d \in Seq(Int) /\ Len(d) = Len(c) - 3 /\ \A i \in 1..(Len(c) - 3) : d[i] = c[3 + i]
    <3>1. 4 \in 1..(Len(c) + 1) /\ Len(c) - 4 + 1 = Len(c) - 3 /\ 4 - 1 = 3
      BY <1>9, <2>8
    <3>2. /\ SubSeq(c, 4, Len(c)) \in Seq(Int) /\ Len(SubSeq(c, 4, Len(c))) = Len(c) - 4 + 1
          /\ \A i \in 1..(Len(c) - 4 + 1) : SubSeq(c, 4, Len(c))[i] = c[4 - 1 + i]
      BY <3>1, Behind
    <3> QED
      BY <2>7, <3>1, <3>2
  <2>10. /\ Len(d) <= Len(c) /\ Len(c) - Len(d) = 3 /\ \A i \in 1..Len(d) : d[i] = c[Len(c) - Len(d) + i]
         /\ Len(r.body) = Len(d) + Len(u)
         /\ \A i \in 1..Len(r.body) : r.body[i] = (c \o u)[Len(c) - Len(d) + i]
    BY <1>3, <2>8, <2>9
  <2>11. d \o u = r.body
    BY <1>1, <1>3, <2>9, <2>10, JoinBehind
  <2> QED
    BY <2>5, <2>6, <2>7, <2>9, <2>11
<1> QED
  BY <1>8, <1>9, Len(c) \in Nat DEF Found

-----------------------------------------------------------------------------
(* Every step preserves the invariant.                                      *)
LEMMA ClientInit == Client!Bounds /\ Client!Init => ClientInv
<1> SUFFICES ASSUME Client!Bounds, Client!Init PROVE ClientInv
  OBVIOUS
<1>1. Client!TypeOK
  <2>1. \A k \in 1..MaxUses : sent[k] = Client!NoResponse
    BY DEF Client!Init
  <2>2. use = 0 /\ lines = {} /\ length = Client!NoLine /\ nContentLength = 0 /\ nRecv = 0
    BY DEF Client!Init
  <2>3. use \in 0..MaxUses /\ lines \subseteq 1..use /\ nContentLength \in 0..MaxLength
    BY <2>2 DEF Client!Bounds
  <2>4. pc = "idle" /\ sock = "invalid" /\ eof \in BOOLEAN /\ ok \in BOOLEAN /\ consumes \in BOOLEAN
    BY DEF Client!Init
  <2> QED
    BY <2>1, <2>2, <2>3, <2>4 DEF Client!TypeOK
<1>2. IsSuffix(given, m_strBody)
  <2>1. given = <<>> /\ m_strBody \in Seq(Int)
    BY DEF Client!Init
  <2> QED
    BY <2>1, SuffixOfNothing
<1>3. StreamInv
  BY <1>2 DEF Client!Bounds, Client!Init, StreamInv
<1> QED
  BY <1>1, <1>3, OneNotion DEF Client!Init, ClientInv, Client!PartIsPrefix, Client!BodyIsOfThisResponse

(* Keep appends to both, so that what was given stays the end of m_strBody. *)
LEMMA Keeping ==
    ASSUME StreamInv, NEW b \in Seq(Int), Client!Keep(b), consumes' = consumes
    PROVE  given' \in Seq(Int) /\ m_strBody' \in Seq(Int) /\ (~consumes' => IsSuffix(given', m_strBody'))
<1>1. given \in Seq(Int) /\ m_strBody \in Seq(Int) /\ (~consumes => IsSuffix(given, m_strBody))
  BY DEF StreamInv
<1>2. given \o b \in Seq(Int) /\ m_strBody \o b \in Seq(Int)
  BY <1>1
<1>3. CASE consumes
  BY <1>1, <1>2, <1>3 DEF Client!Keep
<1>4. CASE ~consumes
  BY <1>1, <1>2, <1>4, SuffixExtends DEF Client!Keep
<1> QED
  BY <1>3, <1>4

(* The steps that receive nothing.                                          *)
LEMMA ClientQuiet ==
    ASSUME Client!Bounds, ClientInv,
           Client!IOHandler \/ Client!Connect \/ Client!ConnectFails \/ Client!SendFails \/ Client!RecvEnds \/ Client!Close \/ Client!HangUp \/ UNCHANGED Client!vars
    PROVE  ClientInv'
<1> USE DEF ClientInv, Client!Return, Client!connVars, Client!responseVars, Client!localVars
<1>1. CASE Client!IOHandler
  <2>1. Client!TypeOK'
    <3>1. use \in Nat /\ MaxUses \in Nat /\ use' = use + 1 /\ use' <= MaxUses
      BY <1>1 DEF Client!IOHandler, Client!TypeOK, Client!Bounds
    <3>2. use' \in 0..MaxUses /\ 1..use \subseteq 1..use'
      BY <3>1
    <3>3. /\ pc' \in {"idle", "connect"} /\ sock' \in {"invalid", "fresh", "connected"} /\ ok' \in BOOLEAN
          /\ UNCHANGED <<eof, sent, lines, length, consumes, nContentLength, nRecv>>
      BY <1>1 DEF Client!IOHandler, Client!TypeOK
    <3> QED
      BY <3>2, <3>3 DEF Client!TypeOK, Client!Response
  <2>2. given' = <<>> /\ use' = use + 1 /\ use \in Nat /\ UNCHANGED <<m_strBody, consumes>>
    BY <1>1 DEF Client!IOHandler, Client!TypeOK, Client!Bounds
  <2>3. IsSuffix(given', m_strBody')
    BY <2>2, SuffixOfNothing DEF StreamInv
  <2>4. StreamInv'
    BY <1>1, <2>2, <2>3 DEF Client!IOHandler, StreamInv, Client!TypeOK, Expected
  <2>5. Client!PartIsPrefix' /\ Client!BodyIsOfThisResponse'
    BY <1>1, <2>2, OneNotion DEF Client!IOHandler, Client!PartIsPrefix, Client!BodyIsOfThisResponse
  <2> QED
    BY <2>1, <2>4, <2>5
<1>2. CASE Client!Connect
  <2>1. Client!TypeOK'
    BY <1>2 DEF Client!Connect, Client!TypeOK
  <2>2. StreamInv'
    BY <1>2 DEF Client!Connect, StreamInv, Client!TypeOK, Expected
  <2> QED
    BY <1>2, <2>1, <2>2, OneNotion DEF Client!Connect, Client!PartIsPrefix, Client!BodyIsOfThisResponse
<1>3. CASE Client!ConnectFails \/ Client!SendFails \/ Client!RecvEnds
  <2>1. /\ pc' = "idle" /\ ok' = FALSE
        /\ UNCHANGED <<sock, unread, eof, use, sent, lines, length, m_strBody, consumes, strCache, nRecv, nContentLength, given>>
    BY <1>3 DEF Client!ConnectFails, Client!SendFails, Client!RecvEnds
  <2>2. Client!TypeOK'
    BY <2>1 DEF Client!TypeOK, Client!Response
  <2>3. StreamInv'
    BY <2>1 DEF StreamInv, Expected
  <2> QED
    BY <2>1, <2>2, <2>3, OneNotion DEF Client!PartIsPrefix, Client!BodyIsOfThisResponse
<1>4. CASE Client!Close
  <2>1. Client!TypeOK'
    BY <1>4 DEF Client!Close, Client!TypeOK
  <2>2. StreamInv'
    BY <1>4 DEF Client!Close, StreamInv, Expected
  <2> QED
    BY <1>4, <2>1, <2>2, OneNotion DEF Client!Close, Client!PartIsPrefix, Client!BodyIsOfThisResponse
<1>5. CASE Client!HangUp \/ UNCHANGED Client!vars
  <2>1. /\ eof' \in BOOLEAN
        /\ UNCHANGED <<pc, ok, sock, unread, use, sent, lines, length, m_strBody, consumes, strCache, nRecv, nContentLength, given>>
    BY <1>5 DEF Client!HangUp, Client!vars, Client!TypeOK
  <2>2. Client!TypeOK'
    BY <2>1 DEF Client!TypeOK, Client!Response
  <2>3. StreamInv'
    BY <2>1 DEF StreamInv, Expected
  <2> QED
    BY <2>1, <2>2, <2>3, OneNotion DEF Client!PartIsPrefix, Client!BodyIsOfThisResponse
<1> QED
  BY <1>1, <1>2, <1>3, <1>4, <1>5

(* SendRequest: the server's response is what will come, and all of it.    *)
LEMMA ClientSends ==
    ASSUME Client!Bounds, ClientInv, Client!SendRequest
    PROVE  ClientInv'
<1> USE DEF ClientInv
<1>1. PICK r \in Client!Response(use) : sent' = [sent EXCEPT ![use] = r] /\ unread' = unread \o Client!Encode(use, r)
  BY DEF Client!SendRequest
<1>2. /\ pc = "send" /\ pc' = "header" /\ strCache' = <<>>
      /\ UNCHANGED <<sock, eof, use, lines, length, m_strBody, consumes, nRecv, nContentLength, given, ok>>
  BY DEF Client!SendRequest, Client!responseVars
<1>3. use \in 1..MaxUses /\ unread = <<>> /\ given = <<>>
  BY <1>2 DEF Client!TypeOK, StreamInv, Client!Bounds
<1>4. sent'[use] = r /\ \A k \in 1..MaxUses : k # use => sent'[k] = sent[k]
  BY <1>1, <1>3 DEF StreamInv
<1>5. sent' = [k \in 1..MaxUses |-> sent'[k]]
  BY <1>1 DEF StreamInv
<1>6. Client!TypeOK'
  <2>1. \A k \in 1..MaxUses : sent'[k] \in Client!Response(k) \cup {Client!NoResponse}
    BY <1>3, <1>4 DEF Client!TypeOK
  <2> QED
    BY <1>2, <2>1 DEF Client!TypeOK
<1>7. Client!Encode(use, r) \in Seq(Int)
  <2>1. r.body \in Seq(Int)
    BY <1>3, <1>1 DEF Client!Response, Client!LineEnd
  <2>2. <<use, Client!LineEnd, Client!LineEnd>> \in Seq(Int)
    BY <1>3 DEF Client!LineEnd
  <2> QED
    BY <2>1, <2>2 DEF Client!Encode
<1>8. unread' = Client!Encode(use, r) /\ strCache' \o unread' = Client!Encode(use, r) /\ strCache' \in Seq(Int) /\ Len(strCache') = 0
  BY <1>1, <1>2, <1>3, <1>7
<1>9. StreamInv'
  BY <1>2, <1>3, <1>4, <1>5, <1>7, <1>8 DEF StreamInv
<1> QED
  BY <1>2, <1>3, <1>6, <1>9, OneNotion DEF Client!PartIsPrefix, Client!BodyIsOfThisResponse

(* RecvHeader: the header is whole when three bytes have come, and what is
   behind it is the beginning of the body.                                  *)
LEMMA ClientReceivesHeader ==
    ASSUME Client!Bounds, ClientInv, Client!RecvHeader
    PROVE  ClientInv'
<1> USE DEF ClientInv
<1> DEFINE r == sent[use]
<1>1. PICK n, cache :
        /\ n \in 1..Len(unread) /\ unread' = SubSeq(unread, n + 1, Len(unread)) /\ cache = strCache \o SubSeq(unread, 1, n)
        /\ LET rest  == SubSeq(cache, Client!HeaderEnd(cache) + 1, Len(cache))
               len   == Client!ContentLength(Client!LengthAfter(cache))
           IN  IF Client!HeaderEnd(cache) = 0
               THEN /\ strCache' = cache
                    /\ UNCHANGED <<pc, Client!responseVars, nRecv, nContentLength, given, ok>>
               ELSE /\ strCache' = rest
                    /\ lines' = lines \cup Client!HeadersIn(cache)
                    /\ length' = Client!LengthAfter(cache)
                    /\ Client!Keep(SubSeq(rest, 1, Client!AtMost(Len(rest), len)))
                    /\ nRecv' = Len(rest) /\ nContentLength' = len
                    /\ IF Client!Incomplete(Len(rest), len) THEN pc' = "body" /\ UNCHANGED ok ELSE Client!Return(TRUE)
  BY DEF Client!RecvHeader, Client!Chunk
<1>2. /\ pc = "header" /\ UNCHANGED <<sock, eof, use, sent, consumes>>
      /\ unread \in Seq(Int) /\ strCache \in Seq(Int) /\ given = <<>> /\ strCache \o unread = Client!Encode(use, r)
  BY DEF Client!RecvHeader, StreamInv
<1>3. use \in 1..MaxUses /\ use \in Nat \ {0} /\ MaxLength \in Nat /\ r \in Client!Response(use)
  <2>1. use \in 1..MaxUses /\ MaxLength \in Nat /\ MaxUses \in Nat
    BY <1>2 DEF Client!TypeOK, StreamInv, Client!Bounds
  <2>2. Client!NoResponse \in Client!Response(use)
    BY <2>1 DEF Client!NoResponse, Client!Response, Client!NoLine
  <2> QED
    BY <2>1, <2>2 DEF Client!TypeOK
<1>4. unread' \in Seq(Int) /\ cache \in Seq(Int) /\ cache \o unread' = Client!Encode(use, r)
  <2>1. PICK a, b : a = SubSeq(unread, 1, n) /\ b = SubSeq(unread, n + 1, Len(unread))
    OBVIOUS
  <2>2. a \in Seq(Int) /\ b \in Seq(Int) /\ unread = a \o b
    <3>1. n \in 0..Len(unread)
      BY <1>1, <1>2
    <3>2. unread \in Seq(Int)
      BY <1>2
    <3>3. /\ SubSeq(unread, 1, n) \in Seq(Int) /\ SubSeq(unread, n + 1, Len(unread)) \in Seq(Int)
          /\ unread = SubSeq(unread, 1, n) \o SubSeq(unread, n + 1, Len(unread))
      BY <3>1, <3>2, Cut
    <3> QED
      BY <2>1, <3>3
  <2>3. (strCache \o a) \o b = strCache \o (a \o b)
    <3>1. strCache \in Seq(Int)
      BY <1>2
    <3> QED
      BY <2>2, <3>1
  <2>4. cache = strCache \o a /\ unread' = b
    BY <1>1, <2>1
  <2>5. strCache \o a \in Seq(Int)
    BY <1>2, <2>2
  <2> QED
    BY <1>2, <2>2, <2>3, <2>4, <2>5
<1>5. Len(cache) \in Nat
  BY <1>4
<1>6. /\ Len(cache) < 3 => Client!HeaderEnd(cache) = 0
      /\ Len(cache) >= 3 => /\ Client!HeaderEnd(cache) = 3 /\ Client!HeadersIn(cache) = {use}
                            /\ SubSeq(cache, 4, Len(cache)) \in Seq(Int)
                            /\ SubSeq(cache, 4, Len(cache)) \o unread' = r.body
  <2>1. use \in Nat \ {0} /\ r \in Client!Response(use) /\ unread' \in Seq(Int) /\ cache \in Seq(Int)
        /\ cache \o unread' = Client!Encode(use, r) /\ MaxLength \in Nat
    BY <1>3, <1>4
  <2> HIDE DEF r
  <2>2. Found(use, r, cache, unread')
    BY <2>1, HeaderFound, Zenon
  <2> QED
    BY <2>2 DEF Found
<1>7. ASSUME Len(cache) < 3 PROVE ClientInv'
  <2>1. /\ strCache' = cache
        /\ UNCHANGED <<pc, lines, length, m_strBody, nRecv, nContentLength, given, ok>>
    BY <1>1, <1>6, <1>7 DEF Client!responseVars
  <2>2. Client!TypeOK'
    BY <1>2, <2>1 DEF Client!TypeOK, Client!Response
  <2>3. StreamInv'
    BY <1>2, <1>4, <1>7, <2>1 DEF StreamInv, Client!Encode
  <2> QED
    BY <1>2, <2>1, <2>2, <2>3, OneNotion DEF Client!PartIsPrefix, Client!BodyIsOfThisResponse
<1>8. ASSUME Len(cache) >= 3 PROVE ClientInv'
  <2>1. PICK rest, len : rest = SubSeq(cache, 4, Len(cache)) /\ len = Client!ContentLength(Client!LengthAfter(cache))
    OBVIOUS
  <2>2. rest \in Seq(Int) /\ Len(rest) \in Nat /\ rest \o unread' = r.body
    BY <1>6, <1>8, <2>1
  <2>3. /\ Client!LengthAfter(cache) \in 0..MaxLength \cup {Client!NoLine} /\ len \in 0..MaxLength
        /\ r.length /= Client!NoLine => Client!LengthAfter(cache) = r.length /\ len = r.length
    <3>1. Client!HeadersIn(cache) = {use}
      BY <1>6, <1>8
    <3>2. Client!LengthAfter(cache) = IF r.length = Client!NoLine THEN length ELSE r.length
      BY <3>1 DEF Client!LengthAfter
    <3>3. r.length \in 0..MaxLength \cup {Client!NoLine} /\ length \in 0..MaxLength \cup {Client!NoLine}
      BY <1>3 DEF Client!Response, Client!TypeOK
    <3> HIDE DEF r
    <3> QED
      BY <1>3, <2>1, <3>2, <3>3 DEF Client!ContentLength, Client!NoLine
  <2>4. PICK m : m = Client!AtMost(Len(rest), len)
    OBVIOUS
  <2>5. /\ m \in 0..Len(rest) /\ m <= len /\ (Len(rest) < len => m = Len(rest)) /\ (~(Len(rest) < len) => m = len)
    BY <2>2, <2>3, <2>4 DEF Client!AtMost
  <2>6. /\ strCache' = rest /\ lines' = lines \cup {use} /\ length' = Client!LengthAfter(cache)
        /\ Client!Keep(SubSeq(rest, 1, m)) /\ nRecv' = Len(rest) /\ nContentLength' = len
        /\ Len(rest) < len => pc' = "body" /\ ok' = ok
        /\ ~(Len(rest) < len) => pc' = "idle" /\ ok' = TRUE
    <3>1. Client!HeaderEnd(cache) + 1 = 4 /\ Client!HeaderEnd(cache) # 0 /\ Client!HeadersIn(cache) = {use}
      BY <1>6, <1>8
    <3> QED
      BY <1>1, <2>1, <2>4, <3>1 DEF Client!Incomplete, Client!Return
  <2>7. PICK g : g = SubSeq(rest, 1, m)
    OBVIOUS
  <2>8. g \in Seq(Int) /\ Len(g) = m /\ (m = Len(rest) => g = rest)
    BY <2>2, <2>5, <2>7
  <2>9. given' = g
    BY <1>2, <2>6, <2>7, <2>8 DEF Client!Keep
  <2>10. IsPrefix(g, r.body)
    <3>1. PICK u : u = unread'
      OBVIOUS
    <3>2. u \in Seq(Int) /\ rest \o u = r.body
      BY <1>4, <2>2, <3>1
    <3>3. IsPrefix(SubSeq(rest, 1, m), rest \o u)
      BY <2>2, <2>5, <3>2, CutPrefix
    <3> QED
      BY <2>7, <3>2, <3>3
  <2>11. given' \in Seq(Int) /\ m_strBody' \in Seq(Int) /\ (~consumes' => IsSuffix(given', m_strBody'))
    BY <1>2, <2>6, <2>7, <2>8, Keeping
  <2>12. Client!TypeOK'
    <3>1. lines' \subseteq 1..use
      BY <1>3, <2>6 DEF Client!TypeOK
    <3>2. pc' \in {"body", "idle"} /\ ok' \in BOOLEAN /\ (pc' = "body" => nRecv' < nContentLength') /\ nRecv' \in Nat
      BY <2>2, <2>6 DEF Client!TypeOK
    <3>3. length' \in 0..MaxLength \cup {Client!NoLine} /\ nContentLength' \in 0..MaxLength
      BY <2>3, <2>6
    <3> QED
      BY <1>2, <3>1, <3>2, <3>3 DEF Client!TypeOK, Client!Response
  <2>13. StreamInv'
    <3>1. pc' = "body" => g = rest /\ nRecv' = Len(given') /\ given' \o unread' = sent'[use'].body /\ Expected'
      BY <1>2, <2>2, <2>3, <2>5, <2>6, <2>8, <2>9 DEF Expected
    <3>2. pc' \in {"body", "idle"} /\ use' > 0 /\ sent' = [k \in 1..MaxUses |-> sent'[k]]
      BY <1>2, <1>3, <2>6 DEF StreamInv
    <3> QED
      BY <1>4, <2>2, <2>6, <2>11, <3>1, <3>2 DEF StreamInv
  <2>14. Client!PartIsPrefix'
    BY <1>2, <2>3, <2>5, <2>8, <2>9, <2>10, OneNotion DEF Client!PartIsPrefix
  <2>15. Client!BodyIsOfThisResponse'
    BY <1>2, <2>3, <2>5, <2>6, <2>8, <2>9, <2>10, <2>11, OneNotion DEF Client!BodyIsOfThisResponse
  <2> QED
    BY <2>12, <2>13, <2>14, <2>15
<1> QED
  BY <1>5, <1>7, <1>8

(* RecvBody: the next part of the body, never more than is missing.        *)
LEMMA ClientReceivesBody ==
    ASSUME Client!Bounds, ClientInv, Client!RecvBody
    PROVE  ClientInv'
<1> USE DEF ClientInv
<1> DEFINE r == sent[use]
<1>1. PICK n, m :
        /\ n \in 1..Len(unread) /\ unread' = SubSeq(unread, n + 1, Len(unread)) /\ m = Client!AtMost(n, nContentLength - nRecv)
        /\ Client!Keep(SubSeq(unread, 1, m)) /\ nRecv' = nRecv + m
        /\ IF Client!Incomplete(nRecv + m, nContentLength) THEN UNCHANGED <<pc, ok>> ELSE Client!Return(TRUE)
  BY DEF Client!RecvBody, Client!Chunk
<1>2. /\ pc = "body" /\ UNCHANGED <<sock, eof, use, sent, lines, length, consumes, strCache, nContentLength>>
      /\ unread \in Seq(Int) /\ given \in Seq(Int) /\ given \o unread = r.body /\ nRecv = Len(given) /\ Expected
      /\ nRecv < nContentLength /\ nRecv \in Nat /\ nContentLength \in Nat /\ Len(unread) \in Nat
  <2>1. pc = "body" /\ UNCHANGED <<sock, eof, use, sent, lines, length, consumes, strCache, nContentLength>>
    BY DEF Client!RecvBody
  <2>2. /\ unread \in Seq(Int) /\ given \in Seq(Int) /\ given \o unread = r.body /\ nRecv = Len(given) /\ Expected
    BY <2>1 DEF StreamInv
  <2>3. nRecv < nContentLength /\ nRecv \in Nat /\ nContentLength \in Nat
    BY <2>1 DEF Client!TypeOK, Client!Bounds
  <2> QED
    BY <2>1, <2>2, <2>3
<1>3. /\ m \in 1..Len(unread) /\ m \in 0..Len(unread) /\ nRecv + m <= nContentLength
      /\ (nRecv + m < nContentLength => m = n) /\ (~(nRecv + m < nContentLength) => nRecv + m = nContentLength)
  BY <1>1, <1>2 DEF Client!AtMost
<1>4. PICK g, b : g = SubSeq(unread, 1, m) /\ b = SubSeq(unread, n + 1, Len(unread))
  OBVIOUS
<1>5. g \in Seq(Int) /\ Len(g) = m /\ b \in Seq(Int) /\ (m = n => unread = g \o b)
  <2>1. n \in 0..Len(unread) /\ unread \in Seq(Int)
    BY <1>1, <1>2
  <2>2. SubSeq(unread, 1, m) \in Seq(Int) /\ Len(SubSeq(unread, 1, m)) = m
    BY <1>3, <2>1, Cut
  <2>3. SubSeq(unread, n + 1, Len(unread)) \in Seq(Int) /\ unread = SubSeq(unread, 1, n) \o SubSeq(unread, n + 1, Len(unread))
    BY <2>1, Cut
  <2> QED
    BY <1>4, <2>2, <2>3
<1>6. /\ given' = given \o g /\ given' \in Seq(Int) /\ Len(given') = nRecv + m
  <2>1. given' = given \o g
    BY <1>1, <1>4 DEF Client!Keep
  <2>2. given \in Seq(Int) /\ g \in Seq(Int) /\ Len(given) = nRecv /\ Len(g) = m
    BY <1>2, <1>5
  <2>3. given \o g \in Seq(Int) /\ Len(given \o g) = Len(given) + Len(g)
    BY <2>2
  <2> QED
    BY <2>1, <2>2, <2>3
<1>7. IsPrefix(given', r.body)
  <2>1. unread \in Seq(Int) /\ given \in Seq(Int)
    BY <1>2
  <2>2. IsPrefix(given \o SubSeq(unread, 1, m), given \o unread)
    BY <1>3, <2>1, CutPrefix
  <2> QED
    BY <1>2, <1>4, <1>6, <2>2
<1>8. given' \in Seq(Int) /\ m_strBody' \in Seq(Int) /\ (~consumes' => IsSuffix(given', m_strBody'))
  BY <1>1, <1>2, <1>4, <1>5, Keeping
<1>9. m = n => given' \o unread' = r.body
  <2>1. ASSUME m = n PROVE (given \o g) \o b = given \o (g \o b)
    <3>1. given \in Seq(Int) /\ g \in Seq(Int) /\ b \in Seq(Int)
      BY <1>2, <1>5
    <3> QED
      BY <3>1
  <2> QED
    BY <1>1, <1>2, <1>4, <1>5, <1>6, <2>1
<1>10. /\ nRecv' = nRecv + m
       /\ nRecv + m < nContentLength => pc' = "body" /\ ok' = ok
       /\ ~(nRecv + m < nContentLength) => pc' = "idle" /\ ok' = TRUE
  BY <1>1, <1>2 DEF Client!Incomplete, Client!Return
<1>11. Client!TypeOK'
  <2>1. pc' \in {"body", "idle"} /\ ok' \in BOOLEAN /\ (pc' = "body" => nRecv' < nContentLength) /\ nRecv' \in Nat
    <3>1. ok \in BOOLEAN /\ nRecv + m \in Nat
      BY <1>2, <1>3 DEF Client!TypeOK
    <3> QED
      BY <1>2, <1>3, <1>10, <3>1
  <2> QED
    BY <1>2, <2>1 DEF Client!TypeOK, Client!Response
<1>12. StreamInv'
  <2>1. pc' = "body" => /\ given' \o unread' = sent'[use'].body /\ nRecv' = Len(given') /\ Expected'
    BY <1>2, <1>3, <1>6, <1>9, <1>10 DEF Expected
  <2>2. pc' \in {"body", "idle"} /\ use' > 0 /\ sent' = [k \in 1..MaxUses |-> sent'[k]] /\ strCache' \in Seq(Int)
    BY <1>2, <1>10 DEF StreamInv
  <2>3. unread' \in Seq(Int)
    BY <1>1, <1>4, <1>5
  <2> QED
    BY <1>8, <2>1, <2>2, <2>3 DEF StreamInv
<1>13. Client!PartIsPrefix'
  BY <1>2, <1>3, <1>6, <1>7, OneNotion DEF Client!PartIsPrefix, Expected
<1>14. Client!BodyIsOfThisResponse'
  BY <1>2, <1>3, <1>6, <1>7, <1>8, <1>10, OneNotion DEF Client!BodyIsOfThisResponse, Expected
<1> QED
  BY <1>11, <1>12, <1>13, <1>14

LEMMA ClientStepKeeps ==
    ASSUME Client!Bounds, ClientInv, [Client!Next]_Client!vars
    PROVE  ClientInv'
BY ClientQuiet, ClientSends, ClientReceivesHeader, ClientReceivesBody DEF Client!Next, Client!Call


-----------------------------------------------------------------------------
(* The stream up to the n-th message, as a function of n.                  *)
IsStreamTo(msgs, n, f) ==
    f = [k \in 0..n |-> IF k = 0 THEN <<>> ELSE f[k - 1] \o Server!Encode(k, msgs[k])]

LEMMA StreamExists ==
    ASSUME NEW msgs, NEW n \in Nat
    PROVE  \E f : IsStreamTo(msgs, n, f)
<1> DEFINE A == {m \in Nat : \E f : IsStreamTo(msgs, m, f)}
<1>1. 0 \in A
  <2>1. IsStreamTo(msgs, 0, [k \in 0..0 |-> <<>>])
    BY DEF IsStreamTo
  <2> QED
    BY <2>1
<1>2. ASSUME NEW m \in Nat, m \in A PROVE m + 1 \in A
  <2>1. PICK f : IsStreamTo(msgs, m, f)
    BY <1>2
  <2>2. /\ f[0] = <<>>
        /\ \A k \in 1..m : f[k] = f[k - 1] \o Server!Encode(k, msgs[k])
    <3>1. PICK h : h = [k \in 0..m |-> IF k = 0 THEN <<>> ELSE f[k - 1] \o Server!Encode(k, msgs[k])] /\ h = f
      BY <2>1 DEF IsStreamTo
    <3>2. \A k \in 0..m : h[k] = IF k = 0 THEN <<>> ELSE f[k - 1] \o Server!Encode(k, msgs[k])
      BY <3>1
    <3>3. 0 \in 0..m /\ \A k \in 1..m : k \in 0..m /\ k # 0
      OBVIOUS
    <3> QED
      BY <3>1, <3>2, <3>3
  <2> DEFINE g == [k \in 0..(m + 1) |-> IF k <= m THEN f[k] ELSE f[m] \o Server!Encode(m + 1, msgs[m + 1])]
  <2>3. ASSUME NEW k \in 0..(m + 1) PROVE g[k] = IF k = 0 THEN <<>> ELSE g[k - 1] \o Server!Encode(k, msgs[k])
    <3>1. CASE k = 0
      BY <2>2, <3>1
    <3>2. CASE k \in 1..m
      <4>1. k - 1 \in 0..(m + 1) /\ k - 1 <= m /\ k <= m /\ k # 0
        BY <3>2
      <4>2. g[k] = f[k] /\ g[k - 1] = f[k - 1]
        BY <4>1
      <4> QED
        BY <2>2, <3>2, <4>1, <4>2
    <3>3. CASE k = m + 1
      <4>1. m \in 0..(m + 1) /\ m <= m /\ ~(m + 1 <= m) /\ k # 0 /\ k - 1 = m
        BY <3>3
      <4>2. g[m] = f[m]
        BY <4>1
      <4>3. g[m + 1] = f[m] \o Server!Encode(m + 1, msgs[m + 1])
        <5>1. m + 1 \in 0..(m + 1) /\ ~(m + 1 <= m)
          OBVIOUS
        <5> QED
          BY <5>1, Zenon
      <4> QED
        BY <3>3, <4>1, <4>2, <4>3
    <3> QED
      BY <3>1, <3>2, <3>3
  <2>4. g = [k \in 0..(m + 1) |-> IF k = 0 THEN <<>> ELSE g[k - 1] \o Server!Encode(k, msgs[k])]
    <3>1. g = [k \in 0..(m + 1) |-> g[k]]
      OBVIOUS
    <3> HIDE DEF g
    <3> QED
      BY <2>3, <3>1
  <2>5. IsStreamTo(msgs, m + 1, g)
    BY <2>4 DEF IsStreamTo
  <2> QED
    BY <2>5
<1> HIDE DEF A
<1>3. Nat \subseteq A
  BY <1>1, <1>2, SetInduction
<1> QED
  BY <1>3 DEF A

(* StreamTo satisfies its definition.                                      *)
LEMMA StreamToIs ==
    ASSUME NEW msgs, Len(msgs) \in Nat
    PROVE  /\ DOMAIN Server!StreamTo(msgs) = 0..Len(msgs) /\ Server!StreamTo(msgs)[0] = <<>>
           /\ \A k \in 1..Len(msgs) : Server!StreamTo(msgs)[k] = Server!StreamTo(msgs)[k - 1] \o Server!Encode(k, msgs[k])
<1>1. IsStreamTo(msgs, Len(msgs), Server!StreamTo(msgs))
  <2>1. Server!StreamTo(msgs) = CHOOSE f : IsStreamTo(msgs, Len(msgs), f)
    BY DEF Server!StreamTo, IsStreamTo
  <2> QED
    BY <2>1, StreamExists
<1>2. \A k \in 0..Len(msgs) : Server!StreamTo(msgs)[k] = IF k = 0 THEN <<>> ELSE Server!StreamTo(msgs)[k - 1] \o Server!Encode(k, msgs[k])
  BY <1>1 DEF IsStreamTo
<1>3. DOMAIN Server!StreamTo(msgs) = 0..Len(msgs)
  BY <1>1 DEF IsStreamTo
<1>4. 0 \in 0..Len(msgs) /\ \A k \in 1..Len(msgs) : k \in 0..Len(msgs) /\ k # 0
  OBVIOUS
<1> QED
  BY <1>2, <1>3, <1>4

-----------------------------------------------------------------------------
Symbols == {NL, X} \cup 1..Len(sent)
Whole == Server!Stream(sent)

(* What the client may send.                                               *)
LEMMA SentIs ==
    ASSUME Server!Bounds, sent \in Server!Messages
    PROVE  /\ Len(sent) \in 1..MaxMessages /\ DOMAIN sent = 1..Len(sent)
           /\ \A k \in 1..Len(sent) :
                 /\ sent[k].body \in Seq({NL, X}) /\ sent[k].length \in -1..MaxLength
                 /\ sent[k].length >= 0 => sent[k].length = Len(sent[k].body)
                 /\ sent[k].length < 0 => sent[k].length = -1 /\ sent[k].body = <<>>
<1>1. PICK n \in 1..MaxMessages : sent \in [1..n -> Server!Message]
  BY DEF Server!Messages
<1>2. Len(sent) = n /\ DOMAIN sent = 1..n
  BY <1>1 DEF Server!Bounds
<1>3. ASSUME NEW b \in Server!Body PROVE b \in Seq({NL, X}) /\ Len(b) \in 0..MaxLength
  <2>1. PICK m \in 0..MaxLength : b \in [1..m -> {NL, X}]
    BY <1>3 DEF Server!Body
  <2> QED
    BY <2>1 DEF Server!Bounds
<1>4. ASSUME NEW m \in Server!Message
      PROVE  /\ m.body \in Seq({NL, X}) /\ m.length \in -1..MaxLength
             /\ m.length >= 0 => m.length = Len(m.body)
             /\ m.length < 0 => m.length = -1 /\ m.body = <<>>
  <2>1. CASE \E b \in Server!Body : m = [length |-> Len(b), body |-> b]
    BY <1>3, <2>1 DEF Server!Bounds
  <2>2. CASE m = [length |-> -1, body |-> <<>>]
    BY <2>2 DEF Server!Bounds
  <2> QED
    BY <2>1, <2>2 DEF Server!Message
<1> QED
  BY <1>1, <1>2, <1>4

(* The stream up to the k-th message: symbols, as many as the messages have,
   and what an earlier part of the stream has at a place, a later one has. *)
LEMMA StreamTypes ==
    ASSUME Server!Bounds, sent \in Server!Messages
    PROVE  /\ \A k \in 0..Len(sent) : Server!StreamTo(sent)[k] \in Seq(Symbols) /\ Server!EndOf(k) \in Nat
           /\ Server!EndOf(0) = 0 /\ Server!EndOf(Len(sent)) = Len(Whole) /\ Whole \in Seq(Symbols)
           /\ \A k \in 1..Len(sent) :
                 /\ Server!StreamTo(sent)[k] = Server!StreamTo(sent)[k - 1] \o Server!Encode(k, sent[k])
                 /\ Server!Encode(k, sent[k]) \in Seq(Symbols)
                 /\ Len(Server!Encode(k, sent[k])) = 3 + Len(sent[k].body)
                 /\ Server!EndOf(k) = Server!EndOf(k - 1) + 3 + Len(sent[k].body)
<1> DEFINE N == Len(sent)
<1> DEFINE T == Server!StreamTo(sent)
<1>1. N \in Nat /\ T[0] = <<>> /\ \A k \in 1..N : T[k] = T[k - 1] \o Server!Encode(k, sent[k])
  <2>1. Len(sent) \in Nat
    BY SentIs DEF Server!Bounds
  <2> QED
    BY <2>1, StreamToIs
<1>2. \A k \in 1..N : Server!Encode(k, sent[k]) \in Seq(Symbols) /\ Len(Server!Encode(k, sent[k])) = 3 + Len(sent[k].body)
  <2> SUFFICES ASSUME NEW k \in 1..N
               PROVE  Server!Encode(k, sent[k]) \in Seq(Symbols) /\ Len(Server!Encode(k, sent[k])) = 3 + Len(sent[k].body)
    OBVIOUS
  <2>1. sent[k].body \in Seq({NL, X})
    BY SentIs
  <2>2. PICK b : b = sent[k].body
    OBVIOUS
  <2>3. b \in Seq(Symbols)
    BY <2>1, <2>2 DEF Symbols
  <2>4. <<k, NL, NL>> \in Seq(Symbols) /\ Len(<<k, NL, NL>>) = 3
    BY DEF Symbols
  <2>5. <<k, NL, NL>> \o b \in Seq(Symbols) /\ Len(<<k, NL, NL>> \o b) = 3 + Len(b)
    BY <2>3, <2>4
  <2> QED
    BY <2>2, <2>5 DEF Server!Encode
<1> HIDE DEF T, N
<1>3. \A k \in Nat : k <= N => T[k] \in Seq(Symbols)
  <2> DEFINE A == {k \in Nat : k <= N => T[k] \in Seq(Symbols)}
  <2>1. 0 \in A
    <3>1. <<>> \in Seq(Symbols)
      OBVIOUS
    <3> QED
      BY <1>1, <3>1
  <2>2. ASSUME NEW k \in Nat, k \in A PROVE k + 1 \in A
    <3>1. CASE k + 1 <= N
      <4>1. T[k] \in Seq(Symbols) /\ T[k + 1] = T[k] \o Server!Encode(k + 1, sent[k + 1]) /\ Server!Encode(k + 1, sent[k + 1]) \in Seq(Symbols)
        <5>1. k + 1 \in 1..N /\ (k + 1) - 1 = k /\ k <= N
          BY <1>1, <3>1
        <5> QED
          BY <1>1, <1>2, <2>2, <5>1
      <4>2. T[k + 1] \in Seq(Symbols)
        BY <4>1
      <4> QED
        BY <4>2
    <3> QED
      BY <3>1
  <2> HIDE DEF A
  <2>3. Nat \subseteq A
    BY <2>1, <2>2, SetInduction
  <2> QED
    BY <2>3 DEF A
<1>4. \A k \in 0..N : T[k] \in Seq(Symbols) /\ Len(T[k]) \in Nat
  BY <1>1, <1>3
<1>5. ASSUME NEW k \in 1..N PROVE Len(T[k]) = Len(T[k - 1]) + 3 + Len(sent[k].body)
  <2>1. PICK t, e : t = T[k - 1] /\ e = Server!Encode(k, sent[k])
    OBVIOUS
  <2>2. t \in Seq(Symbols) /\ e \in Seq(Symbols) /\ T[k] = t \o e /\ Len(e) = 3 + Len(sent[k].body)
    <3>1. k - 1 \in 0..N
      BY <1>1
    <3> QED
      BY <1>1, <1>2, <1>4, <2>1, <3>1
  <2>3. Len(T[k]) = Len(t) + Len(e)
    <3>1. t \in Seq(Symbols) /\ e \in Seq(Symbols)
      BY <2>2
    <3>2. Len(t \o e) = Len(t) + Len(e)
      BY <3>1
    <3> QED
      BY <2>2, <3>2
  <2>4. Len(sent[k].body) \in Nat
    BY SentIs DEF N
  <2>5. Len(t) \in Nat
    BY <2>2
  <2>6. Len(T[k]) = Len(t) + (3 + Len(sent[k].body))
    BY <2>2, <2>3
  <2>7. \A i, l \in Nat : i + (3 + l) = i + 3 + l
    OBVIOUS
  <2>8. Len(t) + (3 + Len(sent[k].body)) = Len(t) + 3 + Len(sent[k].body)
    BY <2>4, <2>5, <2>7, Zenon
  <2> QED
    BY <2>1, <2>6, <2>8
<1>6. Whole = T[N] /\ N \in 0..N /\ \A k : Server!EndOf(k) = Len(T[k])
  BY <1>1 DEF Whole, T, N, Server!Stream, Server!EndOf
<1> QED
  BY <1>1, <1>2, <1>4, <1>5, <1>6 DEF T, N

(* A longer stream begins with the shorter ones.                           *)
LEMMA StreamKeeps ==
    ASSUME Server!Bounds, sent \in Server!Messages
    PROVE  \A j \in 0..Len(sent) : \A k \in 0..j :
              /\ Server!EndOf(k) <= Server!EndOf(j)
              /\ \A p \in 1..Server!EndOf(k) : Server!StreamTo(sent)[j][p] = Server!StreamTo(sent)[k][p]
<1> DEFINE N == Len(sent)
<1> DEFINE T == Server!StreamTo(sent)
<1> DEFINE Keeps(k, j) == Server!EndOf(k) <= Server!EndOf(j) /\ \A p \in 1..Server!EndOf(k) : T[j][p] = T[k][p]
<1> DEFINE A == {j \in Nat : j <= N => \A k \in 0..j : Keeps(k, j)}
<1>0. N \in Nat /\ \A k \in 0..N : T[k] \in Seq(Symbols) /\ Server!EndOf(k) = Len(T[k]) /\ Server!EndOf(k) \in Nat
  <2>1. N \in Nat
    BY SentIs DEF Server!Bounds
  <2>2. \A k \in 0..N : T[k] \in Seq(Symbols) /\ Server!EndOf(k) \in Nat
    BY StreamTypes
  <2>3. \A k : Server!EndOf(k) = Len(T[k])
    BY DEF Server!EndOf
  <2> QED
    BY <2>1, <2>2, <2>3
<1> HIDE DEF T, N
<1>1. \A j \in 0..N : Keeps(j, j)
  BY <1>0
<1>2. ASSUME NEW j \in Nat, j + 1 <= N PROVE Keeps(j, j + 1)
  <2>1. PICK t, e : t = T[j] /\ e = Server!Encode(j + 1, sent[j + 1])
    OBVIOUS
  <2>2. t \in Seq(Symbols) /\ e \in Seq(Symbols) /\ T[j + 1] = t \o e /\ Server!EndOf(j) = Len(t) /\ Server!EndOf(j + 1) = Len(t \o e)
    <3>1. j \in 0..N /\ j + 1 \in 1..N /\ j + 1 \in 0..N /\ (j + 1) - 1 = j
      BY <1>0, <1>2
    <3>2. T[j + 1] = T[(j + 1) - 1] \o Server!Encode(j + 1, sent[j + 1]) /\ Server!Encode(j + 1, sent[j + 1]) \in Seq(Symbols)
      BY <3>1, StreamTypes DEF T, N
    <3> QED
      BY <1>0, <2>1, <3>1, <3>2
  <2>3. Len(t) <= Len(t \o e) /\ \A p \in 1..Len(t) : (t \o e)[p] = t[p]
    BY <2>2
  <2> QED
    BY <2>1, <2>2, <2>3
<1>3. 0 \in A
  BY <1>0, <1>1
<1>4. ASSUME NEW j \in Nat, j \in A PROVE j + 1 \in A
  <2> SUFFICES ASSUME j + 1 <= N, NEW k \in 0..(j + 1) PROVE Keeps(k, j + 1)
    OBVIOUS
  <2>1. CASE k = j + 1
    BY <1>0, <1>1, <2>1
  <2>2. CASE k <= j
    <3>1. k \in 0..j /\ j <= N /\ k \in 0..N /\ j \in 0..N /\ j + 1 \in 0..N
      BY <1>0, <2>2
    <3>2. Keeps(k, j) /\ Keeps(j, j + 1)
      BY <1>2, <1>4, <3>1
    <3>3. Server!EndOf(k) \in Nat /\ Server!EndOf(j) \in Nat /\ Server!EndOf(j + 1) \in Nat
      BY <1>0, <3>1
    <3> QED
      BY <3>2, <3>3
  <2> QED
    BY <2>1, <2>2
<1> HIDE DEF A
<1>5. Nat \subseteq A
  BY <1>3, <1>4, SetInduction
<1> QED
  BY <1>0, <1>5 DEF A, T, N

(* Where the k-th message is in the stream: its header, then its body.     *)
LEMMA Layout ==
    ASSUME Server!Bounds, sent \in Server!Messages, NEW k \in 1..Len(sent)
    PROVE  /\ Server!EndOf(k - 1) \in Nat /\ Server!EndOf(k) = Server!EndOf(k - 1) + 3 + Len(sent[k].body) /\ Server!EndOf(k) <= Len(Whole)
           /\ Whole[Server!EndOf(k - 1) + 1] = k /\ Whole[Server!EndOf(k - 1) + 2] = NL /\ Whole[Server!EndOf(k - 1) + 3] = NL
           /\ \A i \in 1..Len(sent[k].body) : Whole[Server!EndOf(k - 1) + 3 + i] = sent[k].body[i]
<1>1. PICK t, b, a : t = Server!StreamTo(sent)[k - 1] /\ b = sent[k].body /\ a = Server!EndOf(k - 1)
  OBVIOUS
<1>2. t \in Seq(Symbols) /\ a = Len(t) /\ a \in Nat /\ b \in Seq({NL, X}) /\ k - 1 \in 0..Len(sent) /\ k \in 0..Len(sent)
      /\ Len(sent) \in 0..Len(sent)
  <2>1. k - 1 \in 0..Len(sent) /\ Len(sent) \in Nat
    BY SentIs DEF Server!Bounds
  <2> QED
    BY <1>1, <2>1, SentIs, StreamTypes DEF Server!EndOf
<1>3. PICK e : e = <<k, NL, NL>> \o b
  OBVIOUS
<1>4. e \in Seq(Symbols) /\ Len(e) = 3 + Len(b) /\ e[1] = k /\ e[2] = NL /\ e[3] = NL /\ \A i \in 1..Len(b) : e[3 + i] = b[i]
  <2>1. e = Server!Encode(k, sent[k])
    BY <1>1, <1>3 DEF Server!Encode
  <2>2. e \in Seq(Symbols) /\ Len(e) = 3 + Len(b)
    BY <1>1, <2>1, StreamTypes
  <2> QED
    BY <1>2, <1>3, <2>2
<1>5. Server!StreamTo(sent)[k] = t \o e /\ Server!EndOf(k) = a + 3 + Len(b)
  BY <1>1, <1>3, StreamTypes DEF Server!Encode
<1>6. /\ \A i \in 1..Len(e) : (t \o e)[a + i] = e[i]
  BY <1>2, <1>4
<1>7. Server!EndOf(k) <= Len(Whole) /\ \A p \in 1..Server!EndOf(k) : Whole[p] = Server!StreamTo(sent)[k][p]
  <2>1. Server!EndOf(Len(sent)) = Len(Whole) /\ Whole = Server!StreamTo(sent)[Len(sent)] /\ k \in 0..Len(sent)
    BY <1>2, StreamTypes DEF Whole, Server!Stream
  <2> QED
    BY <1>2, <2>1, StreamKeeps
<1>8. \A i \in 1..(3 + Len(b)) : Whole[a + i] = e[i]
  <2>1. \A i \in 1..(3 + Len(b)) : a + i \in 1..Server!EndOf(k)
    BY <1>2, <1>5
  <2> QED
    BY <1>4, <1>5, <1>6, <1>7, <2>1
<1>9. Len(b) \in Nat /\ 1 \in 1..(3 + Len(b)) /\ 2 \in 1..(3 + Len(b)) /\ 3 \in 1..(3 + Len(b))
      /\ \A i \in 1..Len(b) : 3 + i \in 1..(3 + Len(b)) /\ a + 3 + i = a + (3 + i)
  BY <1>2
<1>10. Whole[a + 1] = k /\ Whole[a + 2] = NL /\ Whole[a + 3] = NL
  BY <1>4, <1>8, <1>9
<1>11. \A i \in 1..Len(b) : Whole[a + 3 + i] = b[i]
  BY <1>4, <1>8, <1>9
<1> QED
  BY <1>1, <1>2, <1>5, <1>7, <1>10, <1>11

-----------------------------------------------------------------------------
(* c is what is in the stream behind a, up to b.                           *)
IsPart(c, a, b) ==
    /\ c \in Seq(Symbols) /\ a \in Nat /\ b \in a..Len(Whole)
    /\ Len(c) = b - a /\ \A i \in 1..(b - a) : c[i] = Whole[a + i]

(* Parts that meet are one part, and a part may be cut anywhere.            *)
LEMMA PartsJoin ==
    ASSUME Server!Bounds, sent \in Server!Messages, NEW c, NEW d, NEW a, NEW b, NEW e, IsPart(c, a, b), IsPart(d, b, e)
    PROVE  IsPart(c \o d, a, e)
<1>1. /\ c \in Seq(Symbols) /\ a \in Nat /\ b \in a..Len(Whole) /\ Len(c) = b - a /\ \A i \in 1..(b - a) : c[i] = Whole[a + i]
      /\ d \in Seq(Symbols) /\ b \in Nat /\ e \in b..Len(Whole) /\ Len(d) = e - b /\ \A i \in 1..(e - b) : d[i] = Whole[b + i]
  BY DEF IsPart
<1>2. /\ c \o d \in Seq(Symbols) /\ Len(c \o d) = Len(c) + Len(d)
      /\ \A i \in 1..Len(c) : (c \o d)[i] = c[i]
      /\ \A i \in 1..Len(d) : (c \o d)[Len(c) + i] = d[i]
  <2>1. c \in Seq(Symbols) /\ d \in Seq(Symbols)
    BY <1>1
  <2> QED
    BY <2>1, Joined
<1>3. Len(Whole) \in Nat
  BY StreamTypes
<1>4. Len(c \o d) = e - a /\ e \in a..Len(Whole)
  BY <1>1, <1>2, <1>3
<1>5. ASSUME NEW i \in 1..(e - a) PROVE (c \o d)[i] = Whole[a + i]
  <2>1. CASE i <= b - a
    BY <1>1, <1>2, <2>1
  <2>2. CASE i > b - a
    <3>1. PICK j : j \in 1..Len(d) /\ Len(c) + j = i /\ b + j = a + i /\ j = i - (b - a)
      BY <1>1, <1>3, <2>2
    <3> QED
      BY <1>1, <1>2, <3>1
  <2>3. i <= b - a \/ i > b - a
    BY <1>1
  <2> QED
    BY <2>1, <2>2, <2>3
<1> QED
  BY <1>1, <1>2, <1>4, <1>5 DEF IsPart

LEMMA PartIsCut ==
    ASSUME Server!Bounds, sent \in Server!Messages, NEW c, NEW a, NEW b, NEW n, n \in 0..Len(c), IsPart(c, a, b)
    PROVE  /\ IsPart(SubSeq(c, 1, n), a, a + n) /\ IsPart(SubSeq(c, n + 1, Len(c)), a + n, b)
<1>1. /\ c \in Seq(Symbols) /\ a \in Nat /\ b \in a..Len(Whole) /\ Len(c) = b - a /\ \A i \in 1..(b - a) : c[i] = Whole[a + i]
  BY DEF IsPart
<1>2. PICK d, e : d = SubSeq(c, 1, n) /\ e = SubSeq(c, n + 1, Len(c))
  OBVIOUS
<1>3. /\ d \in Seq(Symbols) /\ e \in Seq(Symbols) /\ Len(d) = n /\ Len(e) = Len(c) - n
      /\ \A i \in 1..n : d[i] = c[i]
      /\ \A i \in 1..(Len(c) - n) : e[i] = c[n + i]
  BY <1>1, <1>2, Cut
<1>4. Len(Whole) \in Nat
  BY StreamTypes
<1>5. n \in Nat /\ n <= b - a /\ a + n \in Nat /\ a + n \in a..Len(Whole) /\ b \in (a + n)..Len(Whole)
      /\ (a + n) - a = n /\ b - (a + n) = Len(c) - n
  BY <1>1, <1>4
<1>6. IsPart(d, a, a + n)
  <2>1. \A i \in 1..n : i \in 1..(b - a)
    BY <1>1, <1>5
  <2> QED
    BY <1>1, <1>3, <1>5, <2>1 DEF IsPart
<1>7. IsPart(e, a + n, b)
  <2>1. \A i \in 1..(Len(c) - n) : n + i \in 1..(b - a) /\ a + (n + i) = (a + n) + i
    BY <1>1, <1>5
  <2> QED
    BY <1>1, <1>3, <1>5, <2>1 DEF IsPart
<1> QED
  BY <1>2, <1>6, <1>7

(* Two parts of the stream between the same places are the same.           *)
LEMMA SameParts ==
    ASSUME NEW c, NEW d, NEW a, NEW b, IsPart(c, a, b), IsPart(d, a, b)
    PROVE  c = d
<1>1. /\ c \in Seq(Symbols) /\ d \in Seq(Symbols) /\ Len(c) = b - a /\ Len(d) = b - a
      /\ \A i \in 1..(b - a) : c[i] = Whole[a + i] /\ d[i] = Whole[a + i]
  BY DEF IsPart
<1>2. Len(c) = Len(d) /\ \A i \in 1..Len(c) : c[i] = d[i]
  BY <1>1
<1> QED
  BY <1>1, <1>2, SameElements

LEMMA BodyIsPart ==
    ASSUME Server!Bounds, sent \in Server!Messages, NEW k \in 1..Len(sent)
    PROVE  IsPart(sent[k].body, Server!EndOf(k - 1) + 3, Server!EndOf(k))
<1>1. PICK b, a, e : b = sent[k].body /\ a = Server!EndOf(k - 1) /\ e = Server!EndOf(k)
  OBVIOUS
<1>2. b \in Seq(Symbols) /\ Len(b) \in Nat
  <2>1. b \in Seq({NL, X})
    BY <1>1, SentIs
  <2> QED
    BY <2>1 DEF Symbols
<1>3. a \in Nat /\ e = a + 3 + Len(b) /\ e <= Len(Whole) /\ \A i \in 1..Len(b) : Whole[a + 3 + i] = b[i]
  BY <1>1, Layout
<1>4. Len(Whole) \in Nat
  BY StreamTypes
<1>5. a + 3 \in Nat /\ e - (a + 3) = Len(b) /\ e \in (a + 3)..Len(Whole)
  BY <1>2, <1>3, <1>4
<1>6. IsPart(b, a + 3, e)
  BY <1>2, <1>3, <1>5 DEF IsPart
<1> QED
  BY <1>1, <1>6

-----------------------------------------------------------------------------
(* What find returns.                                                      *)
LEMMA HeaderEndType ==
    ASSUME NEW T, NEW c \in Seq(T)
    PROVE  /\ Server!HeaderEnd(c) \in 0..Len(c)
           /\ Server!HeaderEnd(c) # 0 => /\ Server!HeaderEnd(c) \in 2..Len(c) /\ c[Server!HeaderEnd(c) - 1] = NL /\ c[Server!HeaderEnd(c)] = NL
                                  /\ \A p \in 2..Len(c) : c[p - 1] = NL /\ c[p] = NL => Server!HeaderEnd(c) <= p
           /\ Server!HeaderEnd(c) = 0 => \A p \in 2..Len(c) : ~(c[p - 1] = NL /\ c[p] = NL)
<1> DEFINE ends == {p \in 2..Len(c) : c[p - 1] = NL /\ c[p] = NL}
<1>1. CASE ends = {}
  <2>1. Server!HeaderEnd(c) = 0
    BY <1>1 DEF Server!HeaderEnd
  <2> QED
    BY <1>1, <2>1
<1>2. CASE ends # {}
  <2>1. ends \subseteq Nat
    OBVIOUS
  <2>2. \E p \in ends : \A q \in ends : p <= q
    <3> HIDE DEF ends
    <3> QED
      BY <1>2, <2>1, Least
  <2>3. Server!HeaderEnd(c) = CHOOSE p \in ends : \A q \in ends : p <= q
    BY <1>2 DEF Server!HeaderEnd
  <2>4. Server!HeaderEnd(c) \in ends /\ \A q \in ends : Server!HeaderEnd(c) <= q
    <3> HIDE DEF ends
    <3> QED
      BY <2>2, <2>3
  <2> QED
    BY <2>4
<1> QED
  BY <1>1, <1>2

(* Behind a message the stream has the next one's header, whose end is found
   as soon as its three symbols are there, and never before.               *)
LEMMA HeaderFoundInStep ==
    ASSUME Server!Bounds, sent \in Server!Messages, NEW n \in 0..Len(sent), NEW c, NEW b, IsPart(c, Server!EndOf(n), b)
    PROVE  /\ Len(c) < 3 => Server!HeaderEnd(c) = 0
           /\ Len(c) >= 3 => /\ Server!HeaderEnd(c) = 3 /\ n < Len(sent)
                             /\ {c[p] : p \in {q \in 1..3 : c[q] \in Nat}} = {n + 1}
           /\ Len(c) > 0 => n < Len(sent)
<1>0. Len(sent) \in Nat /\ n \in Nat
  BY SentIs DEF Server!Bounds
<1>1. /\ c \in Seq(Symbols) /\ Len(c) \in Nat /\ Len(c) = b - Server!EndOf(n) /\ b <= Len(Whole)
      /\ \A i \in 1..Len(c) : c[i] = Whole[Server!EndOf(n) + i]
  BY DEF IsPart
<1>2. Len(c) > 0 => n < Len(sent)
  <2>1. Len(Whole) = Server!EndOf(Len(sent)) /\ Server!EndOf(n) \in Nat /\ b \in Server!EndOf(n)..Len(Whole)
    BY <1>0, StreamTypes DEF IsPart
  <2>2. n = Len(sent) => b = Server!EndOf(n)
    BY <2>1
  <2> QED
    BY <1>0, <1>1, <2>1, <2>2
<1>3. n < Len(sent) => Whole[Server!EndOf(n) + 1] = n + 1 /\ Whole[Server!EndOf(n) + 2] = NL /\ Whole[Server!EndOf(n) + 3] = NL
  <2> SUFFICES ASSUME n < Len(sent)
               PROVE  Whole[Server!EndOf(n) + 1] = n + 1 /\ Whole[Server!EndOf(n) + 2] = NL /\ Whole[Server!EndOf(n) + 3] = NL
    OBVIOUS
  <2>1. n + 1 \in 1..Len(sent) /\ (n + 1) - 1 = n
    BY <1>0
  <2> QED
    BY <2>1, Layout
<1>4. NL \notin Nat
  BY DEF Server!Bounds
<1>5. /\ Len(c) >= 1 => c[1] = n + 1
      /\ Len(c) >= 2 => c[2] = NL
      /\ Len(c) >= 3 => c[3] = NL
  BY <1>1, <1>2, <1>3
<1>6. Len(c) < 3 => Server!HeaderEnd(c) = 0
  <2> SUFFICES ASSUME Len(c) < 3, Server!HeaderEnd(c) # 0 PROVE FALSE
    OBVIOUS
  <2>1. Server!HeaderEnd(c) \in 2..Len(c) /\ c[Server!HeaderEnd(c) - 1] = NL
    BY <1>1, HeaderEndType
  <2>2. Server!HeaderEnd(c) = 2 /\ Len(c) >= 1
    BY <1>1, <2>1
  <2>3. c[1] = NL
    BY <2>1, <2>2
  <2> QED
    BY <1>0, <1>4, <1>5, <2>2, <2>3
<1>7. Len(c) >= 3 => Server!HeaderEnd(c) = 3
  <2> SUFFICES ASSUME Len(c) >= 3 PROVE Server!HeaderEnd(c) = 3
    OBVIOUS
  <2>1. 3 \in 2..Len(c) /\ c[3 - 1] = NL /\ c[3] = NL
    BY <1>1, <1>5
  <2>2. Server!HeaderEnd(c) # 0 /\ Server!HeaderEnd(c) \in 2..Len(c) /\ Server!HeaderEnd(c) <= 3 /\ c[Server!HeaderEnd(c) - 1] = NL
    BY <1>1, <2>1, HeaderEndType
  <2>3. c[1] # NL
    BY <1>0, <1>1, <1>4, <1>5
  <2>4. Server!HeaderEnd(c) = 2 => Server!HeaderEnd(c) - 1 = 1
    OBVIOUS
  <2>5. Server!HeaderEnd(c) # 2
    BY <2>2, <2>3, <2>4
  <2> QED
    BY <1>1, <2>2, <2>5
<1>8. Len(c) >= 3 => {c[p] : p \in {q \in 1..3 : c[q] \in Nat}} = {n + 1}
  <2> SUFFICES ASSUME Len(c) >= 3 PROVE {q \in 1..3 : c[q] \in Nat} = {1} /\ c[1] = n + 1
    OBVIOUS
  <2> QED
    BY <1>0, <1>1, <1>4, <1>5
<1>9. Len(c) >= 3 => n < Len(sent)
  BY <1>1, <1>2
<1> QED
  BY <1>2, <1>6, <1>7, <1>8, <1>9, Zenon

(* A set of numbers that is bounded has a greatest.                        *)
LEMMA Greatest ==
    ASSUME NEW N \in Nat, NEW T, T \subseteq 1..N, T # {}
    PROVE  \E k \in T : \A j \in T : j <= k
<1> DEFINE U == {m \in Nat : N - m \in T}
<1>1. U # {}
  <2>1. PICK k \in T : TRUE
    OBVIOUS
  <2>2. k \in 1..N /\ N - k \in Nat /\ N - (N - k) = k
    BY <2>1
  <2> QED
    BY <2>1, <2>2
<1>2. PICK m \in U : \A l \in U : m <= l
  <2>1. U \subseteq Nat
    OBVIOUS
  <2> HIDE DEF U
  <2> QED
    BY <1>1, <2>1, Least
<1>3. ASSUME NEW j \in T PROVE j <= N - m
  <2>1. j \in 1..N /\ N - j \in Nat /\ N - (N - j) = j
    BY <1>3
  <2>2. N - j \in U
    BY <1>3, <2>1
  <2> QED
    BY <1>2, <2>1, <2>2
<1> QED
  BY <1>2, <1>3

(* A part from a on is a prefix of the stream behind a.                    *)
LEMMA PartIsFirst ==
    ASSUME Server!Bounds, sent \in Server!Messages, NEW c, NEW a, NEW b, IsPart(c, a, b)
    PROVE  IsPrefix(c, SubSeq(Server!Stream(sent), a + 1, Len(Server!Stream(sent))))
<1>1. Whole \in Seq(Symbols) /\ Len(Whole) \in Nat
  BY StreamTypes
<1>2. /\ c \in Seq(Symbols) /\ a \in Nat /\ b \in a..Len(Whole) /\ Len(c) = b - a /\ \A i \in 1..(b - a) : c[i] = Whole[a + i]
  BY DEF IsPart
<1>3. PICK d : d = SubSeq(Whole, a + 1, Len(Whole))
  OBVIOUS
<1>4. d \in Seq(Symbols) /\ Len(d) = Len(Whole) - a /\ \A i \in 1..(Len(Whole) - a) : d[i] = Whole[a + i]
  <2>1. a \in 0..Len(Whole)
    BY <1>1, <1>2
  <2> QED
    BY <1>1, <1>3, <2>1, Cut
<1>5. Len(c) \in 0..Len(d) /\ \A i \in 1..Len(c) : i \in 1..(b - a) /\ i \in 1..(Len(Whole) - a)
  BY <1>1, <1>2, <1>4
<1>6. PICK e : e = SubSeq(d, 1, Len(c))
  OBVIOUS
<1>7. e \in Seq(Symbols) /\ Len(e) = Len(c) /\ \A i \in 1..Len(c) : e[i] = d[i]
  BY <1>4, <1>5, <1>6, Cut
<1>8. \A i \in 1..Len(c) : c[i] = e[i]
  BY <1>2, <1>4, <1>5, <1>7
<1>9. c = e
  BY <1>2, <1>7, <1>8, SameElements
<1>10. IsPrefix(c, d)
  BY <1>4, <1>5, <1>6, <1>9 DEF IsPrefix
<1> QED
  BY <1>3, <1>10 DEF Whole

-----------------------------------------------------------------------------
Requests == [lines : SUBSET (1..Len(sent)), body : Seq(Symbols)]
At == Server!Received - Len(strCache)
InStep == Len(served) <= Len(sent) /\ Server!Sound(Len(served))

TypesInv ==
    /\ sent \in Server!Messages /\ bHeaderCompleted \in BOOLEAN /\ running \in BOOLEAN
    /\ nContentLength \in -1..MaxLength
    /\ request \in Requests /\ served \in Seq(Requests) /\ answered \in 0..Len(served)

(* What is unread is the rest of the stream, and what is cached is what was
   received last.                                                          *)
PartsInv == IsPart(unread, Server!Received, Len(Whole)) /\ IsPart(strCache, At, Server!Received)

(* Until a negative length comes, what is cached begins with the next
   message, or with its body when its header has been read.                *)
StepInv ==
    running /\ InStep =>
        \/ ~bHeaderCompleted /\ At = Server!EndOf(Len(served)) /\ request = Server!EmptyRequest
        \/ /\ bHeaderCompleted /\ At = Server!EndOf(Len(served)) + 3 /\ Len(served) < Len(sent)
           /\ request = [lines |-> {Len(served) + 1}, body |-> <<>>]
           /\ nContentLength = sent[Len(served) + 1].length /\ Len(strCache) < nContentLength

FewInv == Server!Sound(Len(sent)) => Len(served) <= Len(sent)

ServerInv == TypesInv /\ PartsInv /\ StepInv /\ FewInv /\ Server!ServedAsSent

(* What a turn makes of the cache: the request so far, the bytes behind the
   header, and the length it announces.                                    *)
NewHeader(cache) == ~bHeaderCompleted /\ Server!HeaderEnd(cache) > 0
Header(cache)    == bHeaderCompleted \/ NewHeader(cache)
ReqOf(cache)     == IF NewHeader(cache) THEN Server!Unpack(request, cache) ELSE request
RestOf(cache)    == IF NewHeader(cache) THEN SubSeq(cache, Server!HeaderEnd(cache) + 1, Len(cache)) ELSE cache
LenOf(cache)     == IF NewHeader(cache) THEN Server!ContentLength(ReqOf(cache)) ELSE nContentLength

(* What a turn of the loop does, in these words.                           *)
LEMMA TurnIs ==
    ASSUME NEW cache, Server!Turn(cache)
    PROVE  IF Header(cache) /\ Server!Complete(RestOf(cache), LenOf(cache))
           THEN Server!Service([ReqOf(cache) EXCEPT !.body = SubSeq(RestOf(cache), 1, Server!Taken(RestOf(cache), LenOf(cache)))],
                        RestOf(cache), LenOf(cache))
           ELSE /\ strCache' = RestOf(cache) /\ bHeaderCompleted' = Header(cache)
                /\ nContentLength' = LenOf(cache) /\ request' = ReqOf(cache)
                /\ UNCHANGED <<served, answered, running>>
BY DEF Server!Turn, NewHeader, Header, ReqOf, RestOf, LenOf

LEMMA TurnTypes ==
    ASSUME Server!Bounds, TypesInv, NEW cache, NEW r, IsPart(cache, At, r)
    PROVE  /\ ReqOf(cache) \in Requests /\ LenOf(cache) \in -1..MaxLength
           /\ IsPart(RestOf(cache), IF NewHeader(cache) THEN At + Server!HeaderEnd(cache) ELSE At, r)
           /\ Server!HeaderEnd(cache) \in Nat
<1>1. cache \in Seq(Symbols) /\ Server!HeaderEnd(cache) \in 0..Len(cache)
  BY HeaderEndType DEF IsPart
<1>2. ReqOf(cache) \in Requests
  <2>1. CASE ~NewHeader(cache)
    BY <2>1 DEF ReqOf, TypesInv
  <2>2. CASE NewHeader(cache)
    <3> DEFINE found == {cache[p] : p \in {q \in 1..Server!HeaderEnd(cache) : cache[q] \in Nat}}
    <3>1. found \subseteq 1..Len(sent)
      <4>1. \A q \in 1..Server!HeaderEnd(cache) : cache[q] \in Symbols
        BY <1>1
      <4>2. \A x \in Symbols : x \in Nat => x \in 1..Len(sent)
        BY DEF Symbols, Server!Bounds
      <4> QED
        BY <4>1, <4>2
    <3>2. ReqOf(cache) = [request EXCEPT !.lines = @ \cup found]
      BY <2>2 DEF ReqOf, Server!Unpack
    <3> HIDE DEF found
    <3>3. request \in Requests
      BY DEF TypesInv
    <3> QED
      BY <3>1, <3>2, <3>3 DEF Requests
  <2> QED
    BY <2>1, <2>2
<1>3. LenOf(cache) \in -1..MaxLength
  <2>1. ASSUME NEW q \in Requests PROVE Server!ContentLength(q) \in -1..MaxLength
    <3>1. CASE q.lines = {}
      BY <3>1 DEF Server!ContentLength, Server!Bounds
    <3>2. CASE q.lines # {}
      <4>1. q.lines \subseteq 1..Len(sent) /\ Len(sent) \in Nat
        BY SentIs DEF Requests, TypesInv, Server!Bounds
      <4>2. \E k \in q.lines : \A j \in q.lines : j <= k
        BY <3>2, <4>1, Greatest
      <4>3. PICK k : k = CHOOSE i \in q.lines : \A j \in q.lines : j <= i
        OBVIOUS
      <4>4. k \in q.lines
        BY <4>2, <4>3
      <4>5. Server!ContentLength(q) = sent[k].length
        BY <3>2, <4>3 DEF Server!ContentLength
      <4> QED
        BY <4>1, <4>4, <4>5, SentIs DEF TypesInv
    <3> QED
      BY <3>1, <3>2
  <2> QED
    BY <1>2, <2>1 DEF LenOf, TypesInv
<1>4. IsPart(RestOf(cache), IF NewHeader(cache) THEN At + Server!HeaderEnd(cache) ELSE At, r)
  <2>1. sent \in Server!Messages
    BY DEF TypesInv
  <2>2. IsPart(SubSeq(cache, Server!HeaderEnd(cache) + 1, Len(cache)), At + Server!HeaderEnd(cache), r)
    BY <1>1, <2>1, PartIsCut
  <2> QED
    BY <2>2 DEF RestOf
<1>5. Server!HeaderEnd(cache) \in Nat
  BY <1>1
<1> QED
  BY <1>2, <1>3, <1>4, <1>5

(* Until a negative length comes a turn reads the header of the next message
   as a whole, and then has the beginning of its body.                     *)
LEMMA TurnInStep ==
    ASSUME Server!Bounds, ServerInv, running, InStep, NEW cache, NEW r, IsPart(cache, At, r)
    PROVE  /\ Header(cache) => /\ Len(served) < Len(sent)
                               /\ IsPart(RestOf(cache), Server!EndOf(Len(served)) + 3, r)
                               /\ ReqOf(cache) = [lines |-> {Len(served) + 1}, body |-> <<>>]
                               /\ LenOf(cache) = sent[Len(served) + 1].length
           /\ ~Header(cache) => /\ RestOf(cache) = cache /\ ReqOf(cache) = Server!EmptyRequest
                                /\ At = Server!EndOf(Len(served))
<1>1. sent \in Server!Messages /\ TypesInv /\ Len(served) \in 0..Len(sent)
  BY SentIs DEF ServerInv, TypesInv, InStep
<1>2. CASE bHeaderCompleted
  <2>1. Header(cache) /\ ~NewHeader(cache) /\ RestOf(cache) = cache /\ ReqOf(cache) = request /\ LenOf(cache) = nContentLength
    BY <1>2 DEF Header, NewHeader, RestOf, ReqOf, LenOf
  <2>2. /\ At = Server!EndOf(Len(served)) + 3 /\ Len(served) < Len(sent)
        /\ request = [lines |-> {Len(served) + 1}, body |-> <<>>]
        /\ nContentLength = sent[Len(served) + 1].length
    BY <1>2 DEF ServerInv, StepInv
  <2> QED
    BY <2>1, <2>2
<1>3. CASE ~bHeaderCompleted
  <2>1. At = Server!EndOf(Len(served)) /\ request = Server!EmptyRequest
    BY <1>3 DEF ServerInv, StepInv
  <2>2. /\ Len(cache) < 3 => Server!HeaderEnd(cache) = 0
        /\ Len(cache) >= 3 => /\ Server!HeaderEnd(cache) = 3 /\ Len(served) < Len(sent)
                              /\ {cache[p] : p \in {q \in 1..3 : cache[q] \in Nat}} = {Len(served) + 1}
    BY <1>1, <2>1, HeaderFoundInStep
  <2>3. Len(cache) \in Nat
    BY DEF IsPart
  <2>4. CASE Len(cache) < 3
    <3>1. ~NewHeader(cache) /\ ~Header(cache)
      BY <1>3, <2>2, <2>4 DEF NewHeader, Header
    <3> QED
      BY <2>1, <3>1 DEF RestOf, ReqOf
  <2>5. CASE Len(cache) >= 3
    <3>1. Server!HeaderEnd(cache) = 3 /\ NewHeader(cache) /\ Header(cache)
      BY <1>3, <2>2, <2>5 DEF NewHeader, Header
    <3>2. ReqOf(cache) = [lines |-> {Len(served) + 1}, body |-> <<>>]
      <4>1. ReqOf(cache) = [Server!EmptyRequest EXCEPT !.lines = @ \cup {Len(served) + 1}]
        BY <2>1, <2>2, <2>5, <3>1 DEF ReqOf, Server!Unpack
      <4> QED
        BY <4>1 DEF Server!EmptyRequest
    <3>3. LenOf(cache) = sent[Len(served) + 1].length
      <4>1. LenOf(cache) = Server!ContentLength([lines |-> {Len(served) + 1}, body |-> <<>>])
        BY <3>1, <3>2 DEF LenOf
      <4>2. Len(served) + 1 \in Nat
        BY <1>1
      <4>3. (CHOOSE k \in {Len(served) + 1} : \A j \in {Len(served) + 1} : j <= k) = Len(served) + 1
        BY <4>2
      <4> QED
        BY <4>1, <4>3 DEF Server!ContentLength
    <3>4. IsPart(RestOf(cache), Server!EndOf(Len(served)) + 3, r)
      BY <1>1, <2>1, <3>1, TurnTypes
    <3> QED
      BY <2>2, <2>5, <3>1, <3>2, <3>3, <3>4
  <2> QED
    BY <2>3, <2>4, <2>5
<1> QED
  BY <1>2, <1>3

-----------------------------------------------------------------------------
(* What k-th request the servlet is to see.                                *)
IsRight(k, q) ==
    /\ Server!Sound(k) => q = [lines |-> {k}, body |-> sent[k].body]
    /\ Server!Sound(k - 1) /\ ~Server!Sound(k) =>
          /\ q.lines = {k}
          /\ IsPrefix(q.body, SubSeq(Server!Stream(sent), Server!EndOf(k) + 1, Len(Server!Stream(sent))))

(* What depends on what was sent only stays.                               *)
LEMMA SameStream ==
    ASSUME sent' = sent
    PROVE  /\ Whole' = Whole /\ Symbols' = Symbols /\ Requests' = Requests
           /\ \A k : Server!EndOf(k)' = Server!EndOf(k) /\ Server!Sound(k)' = Server!Sound(k)
           /\ \A k, q : IsRight(k, q)' <=> IsRight(k, q)
<1>1. Server!Stream(sent)' = Server!Stream(sent) /\ \A k : Server!EndOf(k)' = Server!EndOf(k) /\ Server!Sound(k)' = Server!Sound(k)
  BY DEF Server!Stream, Server!EndOf, Server!Sound
<1>2. \A k, q : IsRight(k, q)' <=> IsRight(k, q)
  BY <1>1 DEF IsRight
<1> QED
  BY <1>1, <1>2 DEF Whole, Symbols, Requests

(* The parts after a step that leaves the cache as c, from a up to r.      *)
LEMMA PartsStay ==
    ASSUME Server!Bounds, sent \in Server!Messages, sent' = sent, NEW r, NEW a,
           IsPart(unread', r, Len(Whole)), IsPart(strCache', a, r)
    PROVE  PartsInv' /\ Server!Received' = r /\ At' = a
<1>1. Whole' = Whole /\ Symbols' = Symbols /\ Len(Whole) \in Nat
  BY SameStream, StreamTypes
<1>2. /\ unread' \in Seq(Symbols) /\ r \in Nat /\ Len(Whole) \in r..Len(Whole) /\ Len(unread') = Len(Whole) - r
      /\ \A i \in 1..(Len(Whole) - r) : unread'[i] = Whole[r + i]
  BY DEF IsPart
<1>3. /\ strCache' \in Seq(Symbols) /\ a \in Nat /\ r \in a..Len(Whole) /\ Len(strCache') = r - a
      /\ \A i \in 1..(r - a) : strCache'[i] = Whole[a + i]
  BY DEF IsPart
<1>4. Server!Received' = r
  BY <1>1, <1>2 DEF Server!Received, Whole
<1>5. At' = a
  BY <1>2, <1>3, <1>4 DEF At
<1>6. IsPart(unread, Server!Received, Len(Whole))'
  BY <1>1, <1>2, <1>4 DEF IsPart
<1>7. IsPart(strCache, At, Server!Received)'
  BY <1>1, <1>3, <1>4, <1>5 DEF IsPart
<1> QED
  BY <1>4, <1>5, <1>6, <1>7 DEF PartsInv

LEMMA ServedWasRight ==
    ASSUME ServerInv
    PROVE  \A k \in 1..Len(served) : k \in DOMAIN sent => IsRight(k, served[k])
<1>1. DOMAIN served = 1..Len(served)
  BY DEF ServerInv, TypesInv
<1>2. Server!ServedAsSent
  BY DEF ServerInv
<1>3. \A k \in DOMAIN served \cap DOMAIN sent : IsRight(k, served[k])
  BY <1>2, OneNotion DEF Server!ServedAsSent, IsRight
<1> QED
  BY <1>1, <1>3

LEMMA ServedIsRight ==
    ASSUME sent' = sent, served' \in Seq(Requests), \A k \in 1..Len(served') : k \in DOMAIN sent => IsRight(k, served'[k])
    PROVE  Server!ServedAsSent'
<1>1. Server!Stream(sent)' = Server!Stream(sent) /\ \A k : Server!EndOf(k)' = Server!EndOf(k) /\ Server!Sound(k)' = Server!Sound(k)
  BY DEF Server!Stream, Server!EndOf, Server!Sound
<1>2. \A k \in DOMAIN served' \cap DOMAIN sent' : IsRight(k, served'[k])
  OBVIOUS
<1> QED
  BY <1>1, <1>2, OneNotion DEF Server!ServedAsSent, IsRight

(* Nothing was served: the turn only reads on.                             *)
LEMMA TurnReadsOn ==
    ASSUME Server!Bounds, ServerInv, running, sent' = sent, NEW cache, NEW r, IsPart(cache, At, r), IsPart(unread', r, Len(Whole)),
           ~(Header(cache) /\ Server!Complete(RestOf(cache), LenOf(cache))),
           strCache' = RestOf(cache), bHeaderCompleted' = Header(cache),
           nContentLength' = LenOf(cache), request' = ReqOf(cache), UNCHANGED <<served, answered, running>>
    PROVE  ServerInv'
<1>1. sent \in Server!Messages /\ TypesInv
  BY DEF ServerInv, TypesInv
<1>2. PICK a : a = IF NewHeader(cache) THEN At + Server!HeaderEnd(cache) ELSE At
  OBVIOUS
<1>3. ReqOf(cache) \in Requests /\ LenOf(cache) \in -1..MaxLength /\ IsPart(RestOf(cache), a, r)
  BY <1>1, <1>2, TurnTypes
<1>4. PartsInv' /\ Server!Received' = r /\ At' = a
  BY <1>1, <1>3, PartsStay
<1>5. TypesInv'
  <2>1. Header(cache) \in BOOLEAN
    BY <1>1 DEF Header, NewHeader, TypesInv
  <2>2. Requests' = Requests
    BY SameStream
  <2> QED
    BY <1>1, <1>3, <2>1, <2>2 DEF TypesInv
<1>6. StepInv'
  <2> SUFFICES ASSUME InStep'
               PROVE  \/ ~bHeaderCompleted' /\ At' = Server!EndOf(Len(served))' /\ request' = Server!EmptyRequest
                      \/ /\ bHeaderCompleted' /\ At' = Server!EndOf(Len(served))' + 3 /\ Len(served') < Len(sent')
                         /\ request' = [lines |-> {Len(served') + 1}, body |-> <<>>]
                         /\ nContentLength' = sent'[Len(served') + 1].length /\ Len(strCache') < nContentLength'
    BY DEF StepInv, Server!EmptyRequest
  <2>1. InStep /\ Server!EndOf(Len(served))' = Server!EndOf(Len(served))
    <3>1. Server!Sound(Len(served))' /\ Len(served') <= Len(sent') /\ served' = served
      BY DEF InStep
    <3>2. Server!Sound(Len(served))
      BY <3>1 DEF Server!Sound
    <3>3. Server!EndOf(Len(served))' = Server!EndOf(Len(served))
      BY <3>1 DEF Server!EndOf
    <3> QED
      BY <3>1, <3>2, <3>3 DEF InStep
  <2>2. CASE Header(cache)
    <3>1. /\ Len(served) < Len(sent) /\ IsPart(RestOf(cache), Server!EndOf(Len(served)) + 3, r)
          /\ ReqOf(cache) = [lines |-> {Len(served) + 1}, body |-> <<>>]
          /\ LenOf(cache) = sent[Len(served) + 1].length
      BY <2>1, <2>2, TurnInStep
    <3>2. Len(RestOf(cache)) < LenOf(cache)
      <4>1. ~(Len(RestOf(cache)) >= LenOf(cache))
        BY <2>2 DEF Server!Complete
      <4>2. LenOf(cache) \in Int /\ Len(RestOf(cache)) \in Int
        BY <1>3 DEF IsPart, Server!Bounds
      <4> QED
        BY <4>1, <4>2
    <3>3. At' = Server!EndOf(Len(served)) + 3
      BY <1>1, <3>1, PartsStay
    <3> QED
      BY <2>1, <2>2, <3>1, <3>2, <3>3
  <2>3. CASE ~Header(cache)
    <3>1. RestOf(cache) = cache /\ ReqOf(cache) = Server!EmptyRequest /\ At = Server!EndOf(Len(served))
      BY <2>1, <2>3, TurnInStep
    <3>2. At' = At
      BY <1>1, <3>1, PartsStay
    <3> QED
      BY <2>1, <2>3, <3>1, <3>2
  <2> QED
    BY <2>2, <2>3
<1>7. FewInv'
  BY DEF ServerInv, FewInv, Server!Sound
<1>8. Server!ServedAsSent'
  <2>1. \A k \in 1..Len(served') : k \in DOMAIN sent => IsRight(k, served'[k])
    BY ServedWasRight
  <2>2. served' \in Seq(Requests)
    BY <1>1 DEF TypesInv
  <2> QED
    BY <2>1, <2>2, ServedIsRight
<1> QED
  BY <1>4, <1>5, <1>6, <1>7, <1>8 DEF ServerInv

(* The body is whole: the servlet sees the request.                        *)
LEMMA TurnServes ==
    ASSUME Server!Bounds, ServerInv, running, sent' = sent, NEW cache, NEW r, IsPart(cache, At, r), IsPart(unread', r, Len(Whole)),
           Header(cache), Server!Complete(RestOf(cache), LenOf(cache)),
           Server!Service([ReqOf(cache) EXCEPT !.body = SubSeq(RestOf(cache), 1, Server!Taken(RestOf(cache), LenOf(cache)))],
                   RestOf(cache), LenOf(cache))
    PROVE  ServerInv'
<1>1. sent \in Server!Messages /\ TypesInv /\ Len(sent) \in Nat /\ Len(served) \in Nat
  BY SentIs DEF ServerInv, TypesInv, Server!Bounds
<1>2. PICK rest, len, b, t : /\ rest = RestOf(cache) /\ len = LenOf(cache) /\ t = Server!Taken(rest, len)
                             /\ b = IF NewHeader(cache) THEN At + Server!HeaderEnd(cache) ELSE At
  OBVIOUS
<1>3. ReqOf(cache) \in Requests /\ len \in -1..MaxLength /\ IsPart(rest, b, r)
  BY <1>1, <1>2, TurnTypes
<1>4. rest \in Seq(Symbols) /\ Len(rest) \in Nat /\ Len(rest) = r - b /\ b \in Nat /\ r \in Int /\ len \in Int
  BY <1>1, <1>3, StreamTypes DEF IsPart, Server!Bounds
<1>5. t \in 0..Len(rest) /\ (len < 0 => t = Len(rest)) /\ (len >= 0 => t = len)
  BY <1>2, <1>4 DEF Server!Taken, Server!Complete
<1>6. PICK body : body = SubSeq(rest, 1, t)
  OBVIOUS
<1>7. IsPart(body, b, b + t) /\ IsPart(SubSeq(rest, t + 1, Len(rest)), b + t, r) /\ body \in Seq(Symbols)
  <2>1. IsPart(SubSeq(rest, 1, t), b, b + t) /\ IsPart(SubSeq(rest, t + 1, Len(rest)), b + t, r)
    BY <1>1, <1>3, <1>5, PartIsCut
  <2> QED
    BY <1>6, <2>1 DEF IsPart
<1>8. PICK q : q = [ReqOf(cache) EXCEPT !.body = body]
  OBVIOUS
<1>9. q \in Requests /\ q.lines = ReqOf(cache).lines /\ q.body = body
  BY <1>3, <1>7, <1>8 DEF Requests
<1>10. /\ served' = Append(served, q) /\ answered' \in {answered, answered + 1}
       /\ \/ /\ strCache' = SubSeq(rest, t + 1, Len(rest)) /\ request' = Server!EmptyRequest
             /\ bHeaderCompleted' = FALSE /\ nContentLength' = 0 /\ running' = running
          \/ /\ strCache' = rest /\ request' = q
             /\ bHeaderCompleted' = TRUE /\ nContentLength' = len /\ running' = FALSE
  BY <1>2, <1>6, <1>8 DEF Server!Service, Server!NextRequest
<1>11. served' \in Seq(Requests) /\ Len(served') = Len(served) + 1 /\ served'[Len(served) + 1] = q
       /\ \A k \in 1..Len(served) : served'[k] = served[k]
  BY <1>1, <1>9, <1>10 DEF TypesInv
<1>12. Requests' = Requests
  BY SameStream
<1>13. TypesInv'
  <2>1. Server!EmptyRequest \in Requests
    BY DEF Server!EmptyRequest, Requests
  <2>2. answered' \in 0..Len(served')
    BY <1>1, <1>10, <1>11 DEF TypesInv
  <2>3. 0 \in -1..MaxLength
    BY DEF Server!Bounds
  <2> QED
    BY <1>1, <1>3, <1>9, <1>10, <1>11, <1>12, <2>1, <2>2, <2>3 DEF TypesInv
<1>14. InStep => /\ Len(served) < Len(sent) /\ b = Server!EndOf(Len(served)) + 3
                 /\ q = [lines |-> {Len(served) + 1}, body |-> body] /\ len = sent[Len(served) + 1].length
  <2> SUFFICES ASSUME InStep
               PROVE  /\ Len(served) < Len(sent) /\ b = Server!EndOf(Len(served)) + 3
                      /\ q = [lines |-> {Len(served) + 1}, body |-> body] /\ len = sent[Len(served) + 1].length
    OBVIOUS
  <2>1. /\ Len(served) < Len(sent) /\ IsPart(rest, Server!EndOf(Len(served)) + 3, r)
        /\ ReqOf(cache) = [lines |-> {Len(served) + 1}, body |-> <<>>]
        /\ len = sent[Len(served) + 1].length
    BY <1>2, TurnInStep
  <2>2. b = Server!EndOf(Len(served)) + 3
    <3>1. Len(rest) = r - (Server!EndOf(Len(served)) + 3) /\ Server!EndOf(Len(served)) + 3 \in Nat
      BY <2>1 DEF IsPart
    <3>2. PICK e : e = Server!EndOf(Len(served)) + 3
      OBVIOUS
    <3>3. b = e
      BY <1>4, <3>1, <3>2
    <3> QED
      BY <3>2, <3>3
  <2>3. q = [lines |-> {Len(served) + 1}, body |-> body]
    <3>1. PICK l : l = {Len(served) + 1}
      OBVIOUS
    <3>2. [[lines |-> l, body |-> <<>>] EXCEPT !.body = body] = [lines |-> l, body |-> body]
      OBVIOUS
    <3> QED
      BY <1>8, <2>1, <3>1, <3>2, Zenon
  <2> QED
    BY <2>1, <2>2, <2>3
<1>15. Server!Sound(Len(served) + 1) => Server!Sound(Len(served)) /\ sent[Len(served) + 1].length >= 0
  BY <1>1 DEF Server!Sound
<1>16. InStep => /\ Server!EndOf(Len(served)) \in Nat /\ sent[Len(served) + 1].body \in Seq({NL, X})
                 /\ Server!EndOf(Len(served) + 1) = Server!EndOf(Len(served)) + 3 + Len(sent[Len(served) + 1].body)
                 /\ sent[Len(served) + 1].length >= 0 =>
                       /\ sent[Len(served) + 1].length = Len(sent[Len(served) + 1].body)
                       /\ b + t = Server!EndOf(Len(served) + 1) /\ body = sent[Len(served) + 1].body
                 /\ sent[Len(served) + 1].length < 0 => IsPart(body, Server!EndOf(Len(served) + 1), r)
  <2> SUFFICES ASSUME InStep
               PROVE  /\ Server!EndOf(Len(served)) \in Nat /\ sent[Len(served) + 1].body \in Seq({NL, X})
                      /\ Server!EndOf(Len(served) + 1) = Server!EndOf(Len(served)) + 3 + Len(sent[Len(served) + 1].body)
                      /\ sent[Len(served) + 1].length >= 0 =>
                            /\ sent[Len(served) + 1].length = Len(sent[Len(served) + 1].body)
                            /\ b + t = Server!EndOf(Len(served) + 1) /\ body = sent[Len(served) + 1].body
                      /\ sent[Len(served) + 1].length < 0 => IsPart(body, Server!EndOf(Len(served) + 1), r)
    OBVIOUS
  <2>1. PICK n, m, e : n = Len(served) + 1 /\ m = sent[n] /\ e = Server!EndOf(Len(served))
    OBVIOUS
  <2>2. n \in 1..Len(sent) /\ n - 1 = Len(served)
    BY <1>1, <1>14, <2>1
  <2>3. /\ e \in Nat /\ m.body \in Seq({NL, X}) /\ Server!EndOf(n) = e + 3 + Len(m.body)
        /\ m.length >= 0 => m.length = Len(m.body)
        /\ m.length < 0 => m.length = -1 /\ m.body = <<>>
    BY <1>1, <2>1, <2>2, SentIs, Layout
  <2>4. IsPart(m.body, e + 3, Server!EndOf(n))
    BY <1>1, <2>1, <2>2, BodyIsPart
  <2>5. len = m.length /\ b = e + 3
    BY <1>14, <2>1
  <2>6. m.length >= 0 => b + t = Server!EndOf(n) /\ body = m.body
    <3> SUFFICES ASSUME m.length >= 0 PROVE b + t = Server!EndOf(n) /\ body = m.body
      OBVIOUS
    <3>1. t = Len(m.body) /\ Len(m.body) \in Nat
      BY <1>5, <2>3, <2>5
    <3>2. b + t = Server!EndOf(n)
      BY <2>3, <2>5, <3>1
    <3>3. body = m.body
      BY <1>7, <2>4, <2>5, <3>2, SameParts
    <3> QED
      BY <3>2, <3>3
  <2>7. m.length < 0 => IsPart(body, Server!EndOf(n), r)
    <3> SUFFICES ASSUME m.length < 0 PROVE IsPart(body, Server!EndOf(n), r)
      OBVIOUS
    <3>1. t = Len(rest) /\ Len(m.body) = 0
      BY <1>5, <2>3, <2>5
    <3>2. b + t = r /\ Server!EndOf(n) = b
      BY <1>4, <2>3, <2>5, <3>1
    <3> QED
      BY <1>7, <3>2
  <2> QED
    BY <2>1, <2>3, <2>6, <2>7
<1>17. PartsInv' /\ (running' => At' = b + t)
  <2>1. CASE strCache' = SubSeq(rest, t + 1, Len(rest))
    BY <1>1, <1>7, <2>1, PartsStay
  <2>2. CASE strCache' = rest /\ running' = FALSE
    BY <1>1, <1>3, <2>2, PartsStay
  <2> QED
    BY <1>10, <2>1, <2>2
<1>18. InStep' => InStep /\ sent[Len(served) + 1].length >= 0
  BY <1>1, <1>11, <1>15 DEF InStep, Server!Sound
<1>19. StepInv'
  <2> SUFFICES ASSUME running', InStep'
               PROVE  ~bHeaderCompleted' /\ At' = Server!EndOf(Len(served))' /\ request' = Server!EmptyRequest
    BY DEF StepInv, Server!EmptyRequest
  <2>1. At' = Server!EndOf(Len(served) + 1)
    BY <1>16, <1>17, <1>18
  <2>2. Server!EndOf(Len(served))' = Server!EndOf(Len(served) + 1)
    BY <1>11 DEF Server!EndOf
  <2> QED
    BY <1>10, <2>1, <2>2
<1>20. FewInv'
  <2> SUFFICES ASSUME Server!Sound(Len(sent)) PROVE Len(served') <= Len(sent)
    BY DEF FewInv, Server!Sound
  <2>1. Len(served) <= Len(sent)
    BY DEF ServerInv, FewInv
  <2>2. InStep
    BY <1>1, <2>1 DEF InStep, Server!Sound
  <2> QED
    BY <1>1, <1>11, <1>14, <2>2
<1>21. Server!ServedAsSent'
  <2>1. ASSUME NEW k \in 1..Len(served'), k \in DOMAIN sent PROVE IsRight(k, served'[k])
    <3>1. CASE k \in 1..Len(served)
      BY <1>11, <2>1, <3>1, ServedWasRight
    <3>2. CASE k = Len(served) + 1
      <4>1. served'[k] = q /\ k - 1 = Len(served) /\ k <= Len(sent)
        BY <1>1, <1>11, <2>1, <3>2, SentIs
      <4>2. CASE ~InStep
        <5>1. ~Server!Sound(k - 1) /\ ~Server!Sound(k)
          BY <1>1, <1>15, <3>2, <4>1, <4>2 DEF InStep
        <5> QED
          BY <5>1 DEF IsRight
      <4>3. CASE InStep /\ sent[k].length >= 0
        <5>1. q = [lines |-> {k}, body |-> sent[k].body]
          BY <1>14, <1>16, <3>2, <4>3
        <5>2. Server!Sound(k)
          BY <1>1, <3>2, <4>1, <4>3 DEF InStep, Server!Sound
        <5> QED
          BY <4>1, <5>1, <5>2 DEF IsRight
      <4>4. CASE InStep /\ sent[k].length < 0
        <5>1. q.lines = {k} /\ q.body = body /\ IsPart(body, Server!EndOf(k), r)
          BY <1>14, <1>16, <3>2, <4>4
        <5>2. IsPrefix(body, SubSeq(Server!Stream(sent), Server!EndOf(k) + 1, Len(Server!Stream(sent))))
          BY <1>1, <5>1, PartIsFirst
        <5>3. ~Server!Sound(k)
          <6>1. sent[k].length \in Int
            BY <1>1, <2>1, SentIs DEF Server!Bounds
          <6> QED
            BY <1>1, <3>2, <4>4, <6>1 DEF Server!Sound
        <5> QED
          BY <4>1, <5>1, <5>2, <5>3 DEF IsRight
      <4>5. sent[k].length \in Int
        BY <1>1, <2>1, SentIs DEF Server!Bounds
      <4> QED
        BY <4>2, <4>3, <4>4, <4>5
    <3> QED
      BY <1>1, <1>11, <2>1, <3>1, <3>2
  <2> QED
    BY <1>11, <2>1, ServedIsRight
<1> QED
  BY <1>13, <1>17, <1>19, <1>20, <1>21 DEF ServerInv

-----------------------------------------------------------------------------
(* The invariant holds at first, and every step preserves it.              *)
LEMMA FramingInit ==
    ASSUME Server!Bounds, Server!Init
    PROVE  ServerInv
<1>1. sent \in Server!Messages /\ unread = Whole /\ strCache = <<>> /\ Whole \in Seq(Symbols) /\ Len(Whole) \in Nat
  BY StreamTypes DEF Server!Init, Whole
<1>2. Server!Received = 0 /\ At = 0
  <2>1. Len(unread) = Len(Whole) /\ Len(Whole) = Len(Server!Stream(sent)) /\ Len(strCache) = 0 /\ Len(Whole) \in Nat
    BY <1>1 DEF Whole
  <2> HIDE DEF Whole
  <2> QED
    BY <2>1 DEF Server!Received, At
<1>3. PartsInv
  BY <1>1, <1>2 DEF PartsInv, IsPart
<1>4. TypesInv
  <2>1. Server!EmptyRequest \in Requests /\ 0 \in -1..MaxLength
    BY DEF Server!EmptyRequest, Requests, Server!Bounds
  <2>2. served \in Seq(Requests) /\ answered \in 0..Len(served)
    <3>1. served = <<>> /\ answered = 0
      BY DEF Server!Init
    <3> QED
      BY <3>1
  <2>3. bHeaderCompleted \in BOOLEAN /\ running \in BOOLEAN /\ nContentLength = 0 /\ request = Server!EmptyRequest
    BY DEF Server!Init
  <2> QED
    BY <1>1, <2>1, <2>2, <2>3 DEF TypesInv
<1>5. Len(served) = 0 /\ Server!EndOf(0) = 0 /\ Len(sent) \in Nat
  <2>1. served = <<>>
    BY DEF Server!Init
  <2>2. Len(sent) \in Nat
    BY <1>1, SentIs DEF Server!Bounds
  <2> QED
    BY <1>1, <2>1, <2>2, StreamTypes
<1>6. StepInv /\ FewInv
  BY <1>2, <1>5 DEF StepInv, FewInv, Server!Init
<1>7. Server!ServedAsSent
  BY <1>5, OneNotion DEF Server!ServedAsSent, Server!Init
<1> QED
  BY <1>3, <1>4, <1>6, <1>7 DEF ServerInv

LEMMA TurnKeeps ==
    ASSUME Server!Bounds, ServerInv, running, sent' = sent, NEW cache, NEW r, IsPart(cache, At, r), IsPart(unread', r, Len(Whole)),
           Server!Turn(cache)
    PROVE  ServerInv'
BY TurnIs, TurnReadsOn, TurnServes

LEMMA FramingStep ==
    ASSUME Server!Bounds, ServerInv, [Server!Next]_Server!vars
    PROVE  ServerInv'
<1>1. sent \in Server!Messages /\ PartsInv
  BY DEF ServerInv, TypesInv
<1>2. CASE Server!TurnOnCache
  <2>1. running /\ Server!Turn(strCache) /\ sent' = sent /\ unread' = unread
    BY <1>2 DEF Server!TurnOnCache
  <2>2. IsPart(unread', Server!Received, Len(Whole)) /\ IsPart(strCache, At, Server!Received)
    BY <1>1, <2>1 DEF PartsInv
  <2> QED
    BY <2>1, <2>2, TurnKeeps
<1>3. CASE Server!TurnOnRecv
  <2>1. PICK n \in 1..BufSize :
          n <= Len(unread) /\ unread' = SubSeq(unread, n + 1, Len(unread)) /\ Server!Turn(strCache \o SubSeq(unread, 1, n))
    BY <1>3 DEF Server!TurnOnRecv
  <2>2. running /\ sent' = sent
    BY <1>3 DEF Server!TurnOnRecv
  <2>3. n \in 0..Len(unread)
    BY <1>1, <2>1 DEF PartsInv, IsPart, Server!Bounds
  <2>4. IsPart(SubSeq(unread, 1, n), Server!Received, Server!Received + n) /\ IsPart(unread', Server!Received + n, Len(Whole))
    BY <1>1, <2>1, <2>3, PartIsCut DEF PartsInv
  <2>5. IsPart(strCache \o SubSeq(unread, 1, n), At, Server!Received + n)
    BY <1>1, <2>4, PartsJoin DEF PartsInv
  <2> QED
    BY <2>1, <2>2, <2>4, <2>5, TurnKeeps
<1>4. ASSUME running' \in BOOLEAN, running' => running,
             UNCHANGED <<sent, unread, strCache, bHeaderCompleted, nContentLength, request, served, answered>>
      PROVE  ServerInv'
  <2>1. TypesInv'
    BY <1>4 DEF ServerInv, TypesInv, Requests, Symbols
  <2>2. PartsInv' /\ At' = At
    BY <1>1, <1>4, PartsStay DEF PartsInv
  <2>3. StepInv'
    BY <1>4, <2>2 DEF ServerInv, StepInv, InStep, Server!Sound, Server!EndOf, Server!EmptyRequest
  <2>4. FewInv'
    BY <1>4 DEF ServerInv, FewInv, Server!Sound
  <2>5. Server!ServedAsSent'
    BY <1>4, ServedWasRight, ServedIsRight DEF ServerInv, TypesInv
  <2> QED
    BY <2>1, <2>2, <2>3, <2>4, <2>5 DEF ServerInv
<1>5. CASE Server!Leave
  BY <1>4, <1>5 DEF Server!Leave
<1>6. CASE UNCHANGED Server!vars
  BY <1>4, <1>6 DEF Server!vars, ServerInv, TypesInv
<1> QED
  BY <1>2, <1>3, <1>5, <1>6 DEF Server!Next

-----------------------------------------------------------------------------
(* The properties follow from it.                                          *)
LEMMA TypesFollow ==
    ASSUME Server!Bounds, ServerInv
    PROVE  Server!TypeOK /\ Server!CacheIsTail
<1>1. sent \in Server!Messages /\ Len(sent) \in 1..MaxMessages /\ MaxMessages \in Nat
  BY SentIs DEF ServerInv, TypesInv, Server!Bounds
<1>2. Symbols \subseteq {NL, X} \cup 1..MaxMessages /\ Seq(Symbols) \subseteq Seq({NL, X} \cup 1..MaxMessages)
  <2>1. Symbols \subseteq {NL, X} \cup 1..MaxMessages
    BY <1>1 DEF Symbols
  <2>2. PICK A, B : A = Symbols /\ B = {NL, X} \cup 1..MaxMessages
    OBVIOUS
  <2>3. Seq(A) \subseteq Seq(B)
    BY <2>1, <2>2
  <2> QED
    BY <2>1, <2>2, <2>3
<1>3. strCache \in Seq(Symbols)
  BY DEF ServerInv, PartsInv, IsPart
<1>4. request.lines \subseteq 1..MaxMessages /\ request.body \in Seq(Symbols)
  BY <1>1 DEF ServerInv, TypesInv, Requests
<1>5. Server!TypeOK
  BY <1>2, <1>3, <1>4 DEF Server!TypeOK, ServerInv, TypesInv, FewInv
<1>6. Server!CacheIsTail
  <2> SUFFICES ASSUME running PROVE Server!CacheIsTail
    BY OneNotion DEF Server!CacheIsTail
  <2>1. IsPart(strCache, At, Server!Received) /\ IsPart(unread, Server!Received, Len(Whole)) /\ Whole \in Seq(Symbols) /\ Len(Whole) \in Nat
    BY <1>1, StreamTypes DEF ServerInv, PartsInv
  <2>2. PICK recvd : recvd = SubSeq(Server!Stream(sent), 1, Server!Received)
    OBVIOUS
  <2>3. Server!Received \in 0..Len(Whole) /\ At \in 0..Server!Received /\ Len(strCache) = Server!Received - At
    BY <2>1 DEF IsPart
  <2>4. recvd \in Seq(Symbols) /\ Len(recvd) = Server!Received /\ \A i \in 1..Server!Received : recvd[i] = Whole[i]
    BY <2>1, <2>2, <2>3, Cut DEF Whole
  <2>5. \A i \in 1..Len(strCache) : strCache[i] = recvd[Len(recvd) - Len(strCache) + i]
    <3>1. \A i \in 1..Len(strCache) : /\ strCache[i] = Whole[At + i] /\ At + i \in 1..Server!Received
                                       /\ Len(recvd) - Len(strCache) + i = At + i
      BY <2>1, <2>3, <2>4 DEF IsPart
    <3> QED
      BY <2>4, <3>1
  <2>6. IsSuffix(strCache, recvd)
    <3>1. recvd \in Seq(Symbols) /\ Len(strCache) <= Len(recvd)
      BY <2>3, <2>4
    <3> QED
      BY <1>3, <2>5, <3>1, SuffixAt
  <2>7. ASSUME Server!Sound(Len(sent))
        PROVE  Len(recvd) - Len(strCache) = Server!EndOf(Len(served)) + IF bHeaderCompleted THEN 3 ELSE 0
    <3>1. Len(served) <= Len(sent) /\ Len(served) \in Nat
      BY <2>7 DEF ServerInv, FewInv, TypesInv
    <3>2. InStep
      BY <1>1, <2>7, <3>1 DEF InStep, Server!Sound
    <3>3. At = Server!EndOf(Len(served)) + IF bHeaderCompleted THEN 3 ELSE 0
      <4>1. Server!EndOf(Len(served)) \in Nat
        BY <1>1, <3>1, StreamTypes
      <4> QED
        BY <3>2, <4>1 DEF ServerInv, StepInv
    <3> QED
      BY <2>3, <2>4, <3>3
  <2> QED
    BY <2>2, <2>6, <2>7, OneNotion DEF Server!CacheIsTail
<1> QED
  BY <1>5, <1>6

(* Nothing whole is left lying: every message received whole was served.   *)
LEMMA NoStallFollows ==
    ASSUME Server!Bounds, ServerInv
    PROVE  Server!NoStall
<1> SUFFICES ASSUME running, ~Server!Another, Server!Sound(Len(sent)) PROVE Len(served) = Server!CompleteIn(Server!Received)
  BY DEF Server!NoStall
<1> DEFINE n == Len(served)
<1> DEFINE N == Len(sent)
<1>1. sent \in Server!Messages /\ N \in Nat /\ n \in 0..N /\ InStep
  <2>1. sent \in Server!Messages /\ N \in Nat /\ n \in Nat
    BY SentIs DEF ServerInv, TypesInv, Server!Bounds
  <2>2. n <= N
    BY DEF ServerInv, FewInv
  <2> QED
    BY <2>1, <2>2 DEF InStep, Server!Sound
<1>2. IsPart(strCache, At, Server!Received) /\ Server!Received \in Nat /\ Len(strCache) \in Nat /\ Server!Received = At + Len(strCache)
  BY DEF ServerInv, PartsInv, IsPart, At
<1> HIDE DEF n, N
<1>3. \A k \in 0..N : Server!EndOf(k) \in Nat
  BY <1>1, StreamTypes DEF N
<1>4. Server!EndOf(n) <= Server!Received
  BY <1>1, <1>2, <1>3 DEF ServerInv, StepInv, n
<1>5. n < N => Server!EndOf(n + 1) > Server!Received
  <2> SUFFICES ASSUME n < N PROVE Server!EndOf(n + 1) > Server!Received
    OBVIOUS
  <2>1. n + 1 \in 1..N /\ (n + 1) - 1 = n
    BY <1>1
  <2>2. Server!EndOf(n + 1) = Server!EndOf(n) + 3 + Len(sent[n + 1].body) /\ Len(sent[n + 1].body) \in Nat
    BY <1>1, <2>1, StreamTypes, SentIs DEF N
  <2>3. sent[n + 1].length = Len(sent[n + 1].body)
    BY <1>1, <2>1, SentIs DEF N, Server!Sound
  <2>4. Server!EndOf(n) \in Nat
    BY <1>1, <1>3
  <2>5. CASE bHeaderCompleted
    <3>1. At = Server!EndOf(n) + 3 /\ Len(strCache) < Len(sent[n + 1].body)
      BY <1>1, <2>3, <2>5 DEF ServerInv, StepInv, n
    <3> QED
      BY <1>2, <2>2, <2>4, <3>1
  <2>6. CASE ~bHeaderCompleted
    <3>1. At = Server!EndOf(n)
      BY <1>1, <2>6 DEF ServerInv, StepInv, n
    <3>2. Server!HeaderEnd(strCache) = 0 \/ strCache = <<>>
      <4>1. Server!HeaderEnd(strCache) \in Nat
        BY <1>2, HeaderEndType DEF IsPart
      <4> QED
        BY <2>6, <4>1 DEF Server!Another
    <3>3. Len(strCache) < 3
      BY <1>1, <1>2, <3>1, <3>2, HeaderFoundInStep DEF N
    <3> QED
      BY <1>2, <2>2, <2>4, <3>1, <3>3
  <2> QED
    BY <2>5, <2>6
<1>6. ASSUME NEW k \in 1..N PROVE Server!EndOf(k) <= Server!Received <=> k <= n
  <2>1. \A j \in 0..N : \A i \in 0..j : Server!EndOf(i) <= Server!EndOf(j)
    BY <1>1, StreamKeeps DEF N
  <2>2. CASE k <= n
    <3>1. Server!EndOf(k) <= Server!EndOf(n) /\ Server!EndOf(k) \in Nat /\ Server!EndOf(n) \in Nat
      BY <1>1, <1>3, <2>1, <2>2
    <3> QED
      BY <1>2, <1>4, <2>2, <3>1
  <2>3. CASE k > n
    <3>1. n + 1 \in 0..k /\ n < N /\ n + 1 \in 0..N /\ k \in 0..N
      BY <1>1, <2>3
    <3>2. Server!EndOf(n + 1) <= Server!EndOf(k) /\ Server!EndOf(n + 1) > Server!Received /\ Server!EndOf(n + 1) \in Nat /\ Server!EndOf(k) \in Nat
      BY <1>3, <1>5, <2>1, <3>1
    <3> QED
      BY <1>1, <1>2, <2>3, <3>2
  <2> QED
    BY <1>1, <2>2, <2>3
<1>7. {k \in 1..N : Server!EndOf(k) <= Server!Received} = 1..n
  BY <1>1, <1>6
<1>8. Cardinality(1..n) = n
  BY <1>1, FS_Interval
<1> QED
  BY <1>7, <1>8, OneNotion DEF Server!CompleteIn, n, N

-----------------------------------------------------------------------------
(* A behaviour of MCHttp is one end's throughout.                           *)
HttpInv == (end = "client" => ClientInv) /\ (end = "server" => ServerInv)

LEMMA HttpStep ==
    ASSUME HttpInv, [Next]_vars
    PROVE  HttpInv'
<1>1. CASE UNCHANGED vars
  <2>1. end' = end /\ UNCHANGED Client!vars /\ UNCHANGED Server!vars
    BY <1>1 DEF vars, serverOnly, clientOnly, Client!vars, Client!connVars, Client!responseVars,
                Client!localVars, Server!vars
  <2>2. end = "client" => ClientInv'
    BY <2>1, ClientBounds, ClientStepKeeps DEF HttpInv
  <2>3. end = "server" => ServerInv'
    BY <2>1, ServerBounds, FramingStep DEF HttpInv
  <2> QED
    BY <2>1, <2>2, <2>3 DEF HttpInv
<1>2. CASE end = "server" /\ end' = end /\ Server!Next
  <2>1. ServerInv'
    BY <1>2, ServerBounds, FramingStep DEF HttpInv
  <2> QED
    BY <1>2, <2>1 DEF HttpInv
<1>3. CASE end = "client" /\ end' = end /\ Client!Next
  <2>1. ClientInv'
    BY <1>3, ClientBounds, ClientStepKeeps DEF HttpInv
  <2> QED
    BY <1>3, <2>1 DEF HttpInv
<1>4. CASE end = "texts" /\ end' = end
  BY <1>4 DEF HttpInv
<1> QED
  <2>1. Next => \/ end = "server" /\ end' = end /\ Server!Next
                \/ end = "client" /\ end' = end /\ Client!Next
                \/ end = "texts" /\ end' = end
    BY DEF Next, ServerStep, ClientStep, TextStep, Server!Next, Client!Next
  <2> QED
    BY <1>1, <1>2, <1>3, <1>4, <2>1

LEMMA HttpInductive == Spec => []HttpInv
<1>1. Init => HttpInv
  BY ServerBounds, ClientBounds, ClientInit, FramingInit DEF Init, HttpInv
<1>2. HttpInv /\ [Next]_vars => HttpInv'
  BY HttpStep
<1> QED
  BY <1>1, <1>2, PTL DEF Spec

(* However the stream is cut, the servlet sees exactly the client's messages,
   each with its own header and body, up to one whose length is negative; the
   cache is the rest of what was received and never holds a whole message the
   handler does not look at (WebServer.cpp:347-414).                        *)
THEOREM ServesAsSent == Spec => []ServedAsSent
<1>1. HttpInv => ServedAsSent
  BY ServerBounds, TypesFollow, NoStallFollows DEF HttpInv, ServedAsSent, ServerInv
<1> QED
  BY <1>1, HttpInductive, PTL

(* IOHandler of the client returns true only with the announced part of the
   body of the response to this request, however often the object was used,
   however the stream was cut and whatever failed before
   (WebServer.cpp:586-689).                                                 *)
THEOREM KeepsBody == Spec => []BodyIsOfThisResponse
<1>1. HttpInv => BodyIsOfThisResponse
  BY DEF HttpInv, BodyIsOfThisResponse, ClientInv
<1> QED
  BY <1>1, HttpInductive, PTL
=============================================================================
