----------------------------- MODULE TBuffProofs -----------------------------
(***************************************************************************)
(* What keeps TBuff's memcpy and memmove inside its block, for every       *)
(* element size, every minimum and every length, as long as new does not   *)
(* throw and erase is not given a length that wraps around; and that the   *)
(* buffer then holds what a standard container would.                      *)
(***************************************************************************)
EXTENDS TBuff, TLAPS

(* Whether erase's addition stays within size_t.                           *)
NoWrap == \A n \in EraseLengths : MaxSize + n < SizeWords

SizeInv ==
    /\ m_nReserved \in [Buff -> Nat]
    /\ m_nSize \in [Buff -> 0..MaxSize]
    /\ block = m_nReserved
    /\ \A b \in Buff : m_nSize[b] <= m_nReserved[b]

(* The loop of resize ends with a block that is large enough.              *)
LEMMA GrownIsEnough ==
    ASSUME NEW r \in Nat, NEW n \in Nat, NEW x \in Grown(r, n)
    PROVE  x \in Nat /\ x >= n
<1>1. x \in r..(r + 2 * n) /\ x >= n
    BY DEF Grown
<1> QED BY <1>1

(* resize(n), alone or within append, leaves a block of at least n.        *)
LEMMA ResizePreserves ==
    ASSUME SizeInv, NEW b \in Buff, NEW n \in 0..MaxSize, NEW data,
           MaxSize \in Nat, ResizeAndWrite(b, n, data)
    PROVE  SizeInv'
<1>1. PICK r \in Grown(m_nReserved[b], n) :
          /\ m_nReserved' = [m_nReserved EXCEPT ![b] = r]
          /\ m_nSize' = [m_nSize EXCEPT ![b] = n]
          /\ block' = [block EXCEPT ![b] = IF r = m_nReserved[b] THEN @ ELSE r]
    BY DEF ResizeAndWrite
<1>2. r \in Nat /\ r >= n
    BY GrownIsEnough DEF SizeInv
<1>3. m_nReserved' \in [Buff -> Nat] /\ m_nSize' \in [Buff -> 0..MaxSize]
    BY <1>1, <1>2 DEF SizeInv
<1>4. block' = m_nReserved'
    BY <1>1, <1>2 DEF SizeInv
<1>5. \A c \in Buff : m_nSize'[c] <= m_nReserved'[c]
    BY <1>1, <1>2 DEF SizeInv
<1> QED BY <1>3, <1>4, <1>5 DEF SizeInv

(* Without wrap-around erase removes at most what there is.                *)
LEMMA ErasePreserves ==
    ASSUME SizeInv, NoWrap, NEW b \in Buff, NEW p \in 0..MaxSize, NEW n \in EraseLengths,
           EraseLengths \subseteq Nat, MaxSize \in Nat, SizeWords \in Nat, MaxSize < SizeWords, Erase(b, p, n)
    PROVE  SizeInv'
<1> DEFINE len == Clamped(b, p, n)
<1>1. m_nSize[b] \in 0..MaxSize /\ p < m_nSize[b] /\ n \in Nat /\ p + n < SizeWords
    BY DEF SizeInv, Erase, NoWrap
<1>2. (p + n) % SizeWords = p + n
    BY <1>1
<1>3. len \in 0..m_nSize[b]
    BY <1>1, <1>2 DEF Clamped
<1>4. m_nSize[b] - len \in 0..MaxSize /\ (m_nSize[b] - len) % SizeWords = m_nSize[b] - len
    <2> HIDE DEF len
    <2> QED BY <1>1, <1>3
<1>5. /\ m_nSize' = [m_nSize EXCEPT ![b] = (@ - len) % SizeWords]
      /\ UNCHANGED <<m_nReserved, block>>
    BY DEF Erase
<1>6. m_nSize' = [m_nSize EXCEPT ![b] = m_nSize[b] - len]
    BY <1>4, <1>5
<1>7. m_nSize[b] - len <= m_nSize[b]
    <2> HIDE DEF len
    <2> QED BY <1>1, <1>3
<1> HIDE DEF len
<1>8. m_nSize' \in [Buff -> 0..MaxSize]
    BY <1>4, <1>6 DEF SizeInv
<1>9. \A c \in Buff : m_nSize'[c] <= m_nReserved'[c]
    BY <1>1, <1>4, <1>5, <1>6, <1>7 DEF SizeInv
<1> QED BY <1>5, <1>8, <1>9 DEF SizeInv

(* Swapping two buffers swaps sizes and blocks together.                   *)
LEMMA SwapPreserves ==
    ASSUME SizeInv, NEW b \in Buff, NEW c \in Buff, Swap(b, c)
    PROVE  SizeInv'
<1>1. /\ m_nReserved' = [m_nReserved EXCEPT ![b] = m_nReserved[c], ![c] = m_nReserved[b]]
      /\ m_nSize' = [m_nSize EXCEPT ![b] = m_nSize[c], ![c] = m_nSize[b]]
      /\ block' = [block EXCEPT ![b] = block[c], ![c] = block[b]]
    BY DEF Swap, SwapOf
<1>2. m_nReserved' \in [Buff -> Nat] /\ m_nSize' \in [Buff -> 0..MaxSize]
    BY <1>1 DEF SizeInv
<1>3. block' = m_nReserved'
    BY <1>1 DEF SizeInv
<1>4. \A d \in Buff : m_nSize'[d] <= m_nReserved'[d]
    BY <1>1 DEF SizeInv
<1> QED BY <1>2, <1>3, <1>4 DEF SizeInv

(* The constructors reserve at least the minimum and hold nothing.         *)
LEMMA InitEstablishes == Init => SizeInv
<1> SUFFICES ASSUME Init PROVE SizeInv OBVIOUS
<1>1. PICK n \in [Buff -> Lengths] :
          /\ m_nReserved = [b \in Buff |-> ReservedFor(n[b])]
          /\ m_nSize = [b \in Buff |-> 0]
          /\ block = m_nReserved
    BY DEF Init
<1>2. MIN_RESERVED \in Nat /\ Lengths \subseteq Nat /\ MaxSize \in Nat
    BY Sizes
<1>3. \A b \in Buff : ReservedFor(n[b]) \in Nat
    BY <1>2 DEF ReservedFor
<1> QED BY <1>1, <1>2, <1>3 DEF SizeInv

(* Every operation preserves it when new does not throw.                   *)
LEMMA NextPreserves ==
    ASSUME NoWrap, ~AllocMayFail, SizeInv, [Next]_vars
    PROVE  SizeInv'
<1>1. MaxSize \in Nat /\ SizeWords \in Nat /\ Lengths \subseteq Nat /\ SizeofT \in Nat \ {0}
    BY Sizes
<1>2. EraseLengths \subseteq Nat /\ MaxSize < SizeWords
    <2>1. EraseLengths \subseteq 0..(SizeWords - 1) /\ 2 * MaxSize < SizeWords /\ MaxSize < SizeWords
        BY Sizes
    <2> QED BY <2>1
<1>3. ASSUME NEW b \in Buff, NEW n \in Lengths, n <= MaxSize, Resize(b, n) PROVE SizeInv'
    <2>1. ResizeAndWrite(b, n, <<>>)
        BY <1>3 DEF Resize, AllocFails
    <2>2. n \in 0..MaxSize
        BY <1>1, <1>3
    <2> QED BY <1>1, <2>1, <2>2, ResizePreserves
<1>4. ASSUME NEW b \in Buff, NEW n \in Lengths, NEW data \in [1..n -> T], Append_(b, data) PROVE SizeInv'
    <2>1. Len(data) \in Nat
        BY <1>1
    <2>2. m_nSize[b] + Len(data) \in 0..MaxSize
        BY <1>1, <1>4, <2>1 DEF Append_, SizeInv
    <2>3. ResizeAndWrite(b, m_nSize[b] + Len(data), data)
        BY <1>4 DEF Append_, AllocFails
    <2> QED BY <1>1, <2>2, <2>3, ResizePreserves
<1>5. ASSUME NEW b \in Buff, NEW t \in T, AppendOne(b, t) PROVE SizeInv'
    <2>1. m_nSize[b] + SizeofT \in 0..MaxSize
        BY <1>1, <1>5 DEF AppendOne, SizeInv
    <2>2. PICK data : ResizeAndWrite(b, m_nSize[b] + SizeofT, data)
        BY <1>5 DEF AppendOne, AllocFails
    <2> QED BY <1>1, <2>1, <2>2, ResizePreserves
<1>6. ASSUME NEW b \in Buff, NEW c \in Buff, AppendBuff(b, c) PROVE SizeInv'
    <2>1. m_nSize[b] + m_nSize[c] \in 0..MaxSize
        BY <1>1, <1>6 DEF AppendBuff, SizeInv
    <2>2. ResizeAndWrite(b, m_nSize[b] + m_nSize[c], Contents(c))
        BY <1>6 DEF AppendBuff, AllocFails
    <2> QED BY <1>1, <2>1, <2>2, ResizePreserves
<1>7. ASSUME NEW b \in Buff, NEW c \in Buff, Swap(b, c) PROVE SizeInv'
    BY <1>7, SwapPreserves
<1>8. ASSUME NEW b \in Buff, Clear(b) PROVE SizeInv'
    <2>1. m_nSize' = [m_nSize EXCEPT ![b] = 0] /\ UNCHANGED <<m_nReserved, block>>
        BY <1>8 DEF Clear
    <2>2. m_nSize' \in [Buff -> 0..MaxSize]
        BY <1>1, <2>1 DEF SizeInv
    <2>3. \A d \in Buff : m_nSize'[d] <= m_nReserved'[d]
        BY <1>1, <2>1 DEF SizeInv
    <2> QED BY <2>1, <2>2, <2>3 DEF SizeInv
<1>9. ASSUME NEW b \in Buff, NEW p \in 0..MaxSize, NEW n \in EraseLengths, Erase(b, p, n) PROVE SizeInv'
    BY <1>1, <1>2, <1>9, ErasePreserves
<1>10. CASE UNCHANGED vars
    BY <1>10 DEF vars, SizeInv
<1> QED BY <1>3, <1>4, <1>5, <1>6, <1>7, <1>8, <1>9, <1>10 DEF Next

(* The elements fit into the block m_pData points to, whose length
   m_nReserved is (TBuff.h:73-148), whatever operations follow each other.
   Neither premise can be dropped: m_nReserved is stored before new can
   throw (83), and erase's sum may wrap around (142).                       *)
THEOREM SizeFits ==
    ASSUME NoWrap, ~AllocMayFail
    PROVE  Spec => []SizeWithinBlock
<1>1. SizeInv => SizeWithinBlock
    BY DEF SizeInv, SizeWithinBlock
<1>2. SizeInv /\ [Next]_vars => SizeInv'
    BY NextPreserves
<1> QED BY InitEstablishes, <1>1, <1>2, PTL DEF Spec

-----------------------------------------------------------------------------
(* On top of SizeInv: a block has m_nReserved cells, and the first m_nSize of
   them are what vec says.                                                  *)
ContentInv ==
    \A b \in Buff :
        /\ mem[b] \in Seq(Cells) /\ Len(mem[b]) = m_nReserved[b]
        /\ vec[b] \in Seq(Cells \cup {ANY}) /\ Len(vec[b]) = m_nSize[b]
        /\ \A i \in 1..m_nSize[b] : vec[b][i] \in {ANY, mem[b][i]}

Kept == mem \in [Buff -> Seq(Cells)] /\ vec \in [Buff -> Seq(Cells \cup {ANY})]

(* The first k elements of a sequence.                                     *)
LEMMA Prefix ==
    ASSUME NEW S, NEW m \in Seq(S), NEW k \in 0..Len(m)
    PROVE  /\ SubSeq(m, 1, k) \in Seq(S) /\ Len(SubSeq(m, 1, k)) = k
           /\ \A i \in 1..k : SubSeq(m, 1, k)[i] = m[i]
OBVIOUS

LEMMA Suffix ==
    ASSUME NEW S, NEW m \in Seq(S), NEW q \in Nat \ {0}
    PROVE  /\ SubSeq(m, q, Len(m)) \in Seq(S)
           /\ Len(SubSeq(m, q, Len(m))) = IF q <= Len(m) THEN Len(m) - q + 1 ELSE 0
           /\ \A i \in 1..(Len(m) - q + 1) : SubSeq(m, q, Len(m))[i] = m[q + i - 1]
OBVIOUS

LEMMA Joined ==
    ASSUME NEW S, NEW x \in Seq(S), NEW y \in Seq(S)
    PROVE  /\ x \o y \in Seq(S) /\ Len(x \o y) = Len(x) + Len(y)
           /\ \A i \in 1..(Len(x) + Len(y)) : (x \o y)[i] = IF i <= Len(x) THEN x[i] ELSE y[i - Len(x)]
OBVIOUS

LEMMA WrittenCells ==
    ASSUME NEW m \in Seq(Cells), NEW p \in Nat, NEW data \in Seq(Cells)
    PROVE  /\ Written(m, p, data) \in Seq(Cells) /\ Len(Written(m, p, data)) = Len(m)
           /\ \A i \in 1..Len(m) : Written(m, p, data)[i] =
                  IF i > p /\ i <= p + Len(data) THEN data[i - p] ELSE m[i]
<1>1. DOMAIN m = 1..Len(m) /\ Len(m) \in Nat /\ Len(data) \in Nat
  OBVIOUS
<1>2. \A i \in 1..Len(m) : (IF i > p /\ i <= p + Len(data) THEN data[i - p] ELSE m[i]) \in Cells
  <2>1. ASSUME NEW i \in 1..Len(m), i > p, i <= p + Len(data) PROVE data[i - p] \in Cells
    <3>1. i - p \in 1..Len(data)
      BY <1>1, <2>1
    <3> QED BY <3>1
  <2> QED BY <2>1
<1>3. Written(m, p, data) = [i \in 1..Len(m) |-> IF i > p /\ i <= p + Len(data) THEN data[i - p] ELSE m[i]]
  BY <1>1 DEF Written
<1> QED BY <1>1, <1>2, <1>3

LEMMA NewBlockCells ==
    ASSUME NEW n \in Nat, NEW first \in Seq(Cells)
    PROVE  /\ NewBlock(n, first) \in Seq(Cells) /\ Len(NewBlock(n, first)) = n
           /\ \A i \in 1..n : i <= Len(first) => NewBlock(n, first)[i] = first[i]
<1>1. \A i \in 1..n : (IF i <= Len(first) THEN first[i] ELSE GARBAGE) \in Cells
  BY DEF Cells
<1>2. NewBlock(n, first) = [i \in 1..n |-> IF i <= Len(first) THEN first[i] ELSE GARBAGE]
  BY DEF NewBlock
<1> QED BY <1>1, <1>2

(* resize(n), with what append writes behind the old end.                  *)
LEMMA ResizeContents ==
    ASSUME SizeInv, ContentInv, Kept, MaxSize \in Nat, NEW b \in Buff, NEW n \in 0..MaxSize,
           NEW data \in Seq(Cells), ResizeAndWrite(b, n, data),
           NEW v \in Seq(Cells \cup {ANY}), Len(v) = n, vec' = [vec EXCEPT ![b] = v],
           \A i \in 1..n : \/ v[i] = ANY
                           \/ i <= m_nSize[b] /\ v[i] = vec[b][i]
                           \/ /\ m_nSize[b] < i /\ i <= m_nSize[b] + Len(data)
                              /\ v[i] \in {ANY, data[i - m_nSize[b]]}
    PROVE  Kept' /\ ContentInv'
<1> DEFINE k == m_nSize[b]
<1>1. PICK r \in Grown(m_nReserved[b], n) :
          /\ m_nReserved' = [m_nReserved EXCEPT ![b] = r]
          /\ m_nSize' = [m_nSize EXCEPT ![b] = n]
          /\ mem' = [mem EXCEPT ![b] =
                        Written(IF r = m_nReserved[b] THEN mem[b] ELSE NewBlock(r, Contents(b)), k, data)]
  BY DEF ResizeAndWrite, Kept
<1>2. r \in Nat /\ r >= n /\ k \in Nat /\ k <= Len(mem[b]) /\ Len(mem[b]) = m_nReserved[b] /\ mem[b] \in Seq(Cells)
  BY GrownIsEnough DEF SizeInv, ContentInv
<1> DEFINE m == IF r = m_nReserved[b] THEN mem[b] ELSE NewBlock(r, Contents(b))
<1>3. m \in Seq(Cells) /\ Len(m) = r /\ \A i \in 1..k : i <= r => m[i] = mem[b][i]
  <2>1. CASE r = m_nReserved[b]
    BY <1>2, <2>1
  <2>2. CASE r /= m_nReserved[b]
    <3>1. /\ Contents(b) \in Seq(Cells) /\ Len(Contents(b)) = k
          /\ \A i \in 1..k : Contents(b)[i] = mem[b][i]
      BY <1>2, Prefix DEF Contents
    <3>2. m = NewBlock(r, Contents(b))
      BY <2>2
    <3> HIDE DEF m, k
    <3>3. m \in Seq(Cells) /\ Len(m) = r /\ \A i \in 1..r : i <= Len(Contents(b)) => m[i] = Contents(b)[i]
      BY <1>2, <3>1, <3>2, NewBlockCells
    <3>4. ASSUME NEW i \in 1..k, i <= r PROVE m[i] = mem[b][i]
      <4>1. i \in 1..r
        BY <1>2, <3>4
      <4> QED BY <3>1, <3>3, <4>1
    <3> QED BY <3>3, <3>4
  <2> QED BY <2>1, <2>2
<1>4. mem' = [mem EXCEPT ![b] = Written(m, k, data)]
  BY <1>1
<1> HIDE DEF m, k
<1>5. /\ Written(m, k, data) \in Seq(Cells) /\ Len(Written(m, k, data)) = r
      /\ \A i \in 1..r : Written(m, k, data)[i] = IF i > k /\ i <= k + Len(data) THEN data[i - k] ELSE m[i]
  <2>1. k \in Nat /\ m \in Seq(Cells) /\ Len(m) = r
    BY <1>2, <1>3
  <2>2. /\ Written(m, k, data) \in Seq(Cells) /\ Len(Written(m, k, data)) = Len(m)
        /\ \A i \in 1..Len(m) : Written(m, k, data)[i] =
               IF i > k /\ i <= k + Len(data) THEN data[i - k] ELSE m[i]
    BY <2>1, WrittenCells, SMTT(30)
  <2> QED BY <2>1, <2>2
<1>6. Kept'
  BY <1>4, <1>5 DEF Kept
<1>7. \A i \in 1..n : v[i] \in {ANY, Written(m, k, data)[i]}
  <2> SUFFICES ASSUME NEW i \in 1..n, v[i] /= ANY PROVE v[i] = Written(m, k, data)[i]
    OBVIOUS
  <2>1. i \in 1..r /\ i \in Int
    BY <1>2
  <2>2. CASE i <= k /\ v[i] = vec[b][i]
    <3>1. i \in 1..k /\ v[i] = mem[b][i]
      BY <2>1, <2>2 DEF ContentInv, k
    <3>2. Written(m, k, data)[i] = m[i]
      BY <1>2, <1>5, <2>1, <3>1
    <3> QED BY <1>3, <2>1, <3>1, <3>2
  <2>3. CASE k < i /\ i <= k + Len(data) /\ v[i] \in {ANY, data[i - k]}
    BY <1>2, <1>5, <2>1, <2>3
  <2> QED BY <2>2, <2>3 DEF k
<1>8. ASSUME NEW c \in Buff
      PROVE  /\ mem'[c] \in Seq(Cells) /\ Len(mem'[c]) = m_nReserved'[c]
             /\ vec'[c] \in Seq(Cells \cup {ANY}) /\ Len(vec'[c]) = m_nSize'[c]
             /\ \A i \in 1..m_nSize'[c] : vec'[c][i] \in {ANY, mem'[c][i]}
  <2>1. CASE c = b
    <3>1. mem'[c] = Written(m, k, data) /\ m_nReserved'[c] = r /\ vec'[c] = v /\ m_nSize'[c] = n
      BY <1>1, <1>4, <2>1 DEF Kept, SizeInv
    <3> QED BY <1>5, <1>7, <3>1
  <2>2. CASE c /= b
    <3>1. mem'[c] = mem[c] /\ m_nReserved'[c] = m_nReserved[c] /\ vec'[c] = vec[c] /\ m_nSize'[c] = m_nSize[c]
      BY <1>1, <1>4, <2>2 DEF Kept, SizeInv
    <3> QED BY <3>1 DEF ContentInv
  <2> QED BY <2>1, <2>2
<1> QED BY <1>6, <1>8 DEF ContentInv

(* erase(p, n) without wrap-around: what is behind moves to p.             *)
LEMMA EraseContents ==
    ASSUME SizeInv, ContentInv, Kept, NoWrap, NEW b \in Buff, NEW p \in 0..MaxSize, NEW n \in EraseLengths,
           EraseLengths \subseteq Nat, MaxSize \in Nat, SizeWords \in Nat, MaxSize < SizeWords, Erase(b, p, n)
    PROVE  Kept' /\ ContentInv'
<1> DEFINE k == m_nSize[b]
           len == Clamped(b, p, n)
           v == SubSeq(vec[b], 1, p) \o SubSeq(vec[b], p + n + 1, Len(vec[b]))
           m == [i \in DOMAIN mem[b] |-> IF i > p /\ i <= k - len /\ i + len \in DOMAIN mem[b]
                                         THEN mem[b][i + len] ELSE mem[b][i]]
<1>1. k \in 0..MaxSize /\ p < k /\ n \in Nat /\ p + n < SizeWords
  BY DEF SizeInv, Erase, NoWrap
<1>2. (p + n) % SizeWords = p + n
  BY <1>1
<1>3. len = (IF p + n > k THEN k - p ELSE n) /\ len \in 0..k /\ p + len <= k
  BY <1>1, <1>2 DEF Clamped
<1> HIDE DEF len, k
<1>4. (p + len) % SizeWords = p + len /\ (k - len - p) % SizeWords = k - len - p /\ (k - len) % SizeWords = k - len
  <2>1. p + len \in 0..MaxSize /\ k - len - p \in 0..MaxSize /\ k - len \in 0..MaxSize
    BY <1>1, <1>3
  <2>2. \A x \in 0..MaxSize : x % SizeWords = x
    OBVIOUS
  <2> QED BY <2>1, <2>2
<1>5. /\ mem[b] \in Seq(Cells) /\ Len(mem[b]) = m_nReserved[b] /\ vec[b] \in Seq(Cells \cup {ANY}) /\ Len(vec[b]) = k
      /\ k <= Len(mem[b]) /\ DOMAIN mem[b] = 1..Len(mem[b]) /\ Len(mem[b]) \in Nat
  <2>1. /\ mem[b] \in Seq(Cells) /\ Len(mem[b]) = m_nReserved[b] /\ vec[b] \in Seq(Cells \cup {ANY}) /\ Len(vec[b]) = k
        /\ k <= m_nReserved[b]
    BY DEF SizeInv, ContentInv, k
  <2> QED BY <2>1
<1>6. mem' = [mem EXCEPT ![b] = m]
  <2> DEFINE from == (p + len) % SizeWords
             count == (k - len - p) % SizeWords
  <2>1. mem' = [mem EXCEPT ![b] =
                   [i \in DOMAIN mem[b] |-> IF i > p /\ i <= p + count /\ i - p + from \in DOMAIN mem[b]
                                            THEN mem[b][i - p + from] ELSE mem[b][i]]]
    BY DEF Erase, len, k, Kept
  <2>2. \A i \in DOMAIN mem[b] : i - p + from = i + len /\ p + count = k - len
    <3>1. from = p + len /\ count = k - len - p
      BY <1>4
    <3> HIDE DEF from, count
    <3>2. p \in Int /\ len \in Int /\ k \in Int /\ \A i \in DOMAIN mem[b] : i \in Int
      BY <1>1, <1>3, <1>5
    <3> QED BY <3>1, <3>2
  <2> HIDE DEF from, count
  <2>3. [i \in DOMAIN mem[b] |-> IF i > p /\ i <= p + count /\ i - p + from \in DOMAIN mem[b]
                                 THEN mem[b][i - p + from] ELSE mem[b][i]] = m
    BY <2>2
  <2> QED BY <2>1, <2>3
<1>7. m \in Seq(Cells) /\ Len(m) = Len(mem[b])
  <2>1. \A i \in DOMAIN mem[b] : m[i] \in Cells
    BY <1>5
  <2>2. m = [i \in 1..Len(mem[b]) |-> m[i]]
    BY <1>5
  <2> HIDE DEF m
  <2>3. m \in [1..Len(mem[b]) -> Cells]
    BY <1>5, <2>1, <2>2
  <2> QED BY <1>5, <2>3
<1>8. m_nSize' = [m_nSize EXCEPT ![b] = k - len] /\ m_nReserved' = m_nReserved /\ vec' = [vec EXCEPT ![b] = v]
  <2>1. m_nSize' = [m_nSize EXCEPT ![b] = (k - len) % SizeWords] /\ m_nReserved' = m_nReserved
    BY DEF Erase, SizeInv, len, k
  <2>2. vec' = [vec EXCEPT ![b] = v]
    BY DEF Erase, Kept
  <2> QED BY <1>4, <2>1, <2>2
<1>9. /\ v \in Seq(Cells \cup {ANY}) /\ Len(v) = k - len
      /\ \A i \in 1..(k - len) : v[i] = IF i <= p THEN vec[b][i] ELSE vec[b][i + len]
  <2> DEFINE head == SubSeq(vec[b], 1, p)
             tail == SubSeq(vec[b], p + n + 1, k)
  <2>1. p \in 0..Len(vec[b])
    BY <1>1, <1>5
  <2>2. head \in Seq(Cells \cup {ANY}) /\ Len(head) = p /\ \A i \in 1..p : head[i] = vec[b][i]
    BY <1>5, <2>1, Prefix
  <2>3. /\ tail \in Seq(Cells \cup {ANY}) /\ Len(tail) = k - len - p
        /\ \A i \in 1..(k - len - p) : tail[i] = vec[b][i + p + len]
    <3>1. p + n + 1 \in Nat \ {0}
      BY <1>1
    <3>2. /\ tail \in Seq(Cells \cup {ANY})
          /\ Len(tail) = IF p + n + 1 <= k THEN k - (p + n + 1) + 1 ELSE 0
          /\ \A i \in 1..(k - (p + n + 1) + 1) : tail[i] = vec[b][p + n + 1 + i - 1]
      BY <1>5, <3>1, Suffix
    <3> HIDE DEF tail
    <3>3. Len(tail) = k - len - p
      BY <1>1, <1>3, <3>2
    <3>4. ASSUME NEW i \in 1..(k - len - p) PROVE tail[i] = vec[b][i + p + len]
      <4>1. i \in 1..(k - (p + n + 1) + 1) /\ p + n + 1 + i - 1 = i + p + len
        BY <1>1, <1>3
      <4> QED BY <3>2, <4>1
    <3> QED BY <3>2, <3>3, <3>4
  <2>4. v = head \o tail
    BY <1>5
  <2> HIDE DEF head, tail, v
  <2>5. v \in Seq(Cells \cup {ANY}) /\ Len(v) = k - len
    <3>1. v \in Seq(Cells \cup {ANY}) /\ Len(v) = p + (k - len - p)
      BY <2>2, <2>3, <2>4, Joined
    <3> QED BY <1>1, <1>3, <3>1
  <2>6. ASSUME NEW i \in 1..(k - len) PROVE v[i] = IF i <= p THEN vec[b][i] ELSE vec[b][i + len]
    <3>1. CASE i <= p
      BY <1>1, <1>3, <2>2, <2>3, <2>4, <3>1
    <3>2. CASE i > p
      <4>1. i - p \in 1..(k - len - p) /\ (i - p) + p + len = i + len
        BY <1>1, <1>3, <3>2
      <4>2. v[i] = tail[i - p]
        BY <1>1, <1>3, <2>2, <2>3, <2>4, <3>2
      <4> QED BY <2>3, <3>2, <4>1, <4>2
    <3> QED BY <3>1, <3>2
  <2> QED BY <2>5, <2>6
<1>10. \A i \in 1..(k - len) : v[i] \in {ANY, m[i]}
  <2> SUFFICES ASSUME NEW i \in 1..(k - len) PROVE v[i] \in {ANY, m[i]}
    OBVIOUS
  <2>1. i \in 1..k /\ i \in DOMAIN mem[b] /\ i <= k - len
    BY <1>1, <1>3, <1>5
  <2>2. CASE i <= p
    <3>1. m[i] = mem[b][i]
      BY <1>1, <2>1, <2>2
    <3> HIDE DEF v, m
    <3> QED BY <1>9, <2>1, <2>2, <3>1 DEF ContentInv, k
  <2>3. CASE i > p
    <3>1. i + len \in 1..k /\ i + len \in DOMAIN mem[b]
      BY <1>1, <1>3, <1>5, <2>1
    <3>2. m[i] = mem[b][i + len]
      BY <1>1, <2>1, <2>3, <3>1
    <3> HIDE DEF v, m
    <3>3. v[i] = vec[b][i + len]
      BY <1>1, <1>9, <2>1, <2>3
    <3> QED BY <3>1, <3>2, <3>3 DEF ContentInv, k
  <2> HIDE DEF v, m
  <2> QED BY <1>1, <2>1, <2>2, <2>3
<1> HIDE DEF v, m
<1>11. Kept'
  BY <1>6, <1>7, <1>8, <1>9 DEF Kept
<1>12. ASSUME NEW c \in Buff
       PROVE  /\ mem'[c] \in Seq(Cells) /\ Len(mem'[c]) = m_nReserved'[c]
              /\ vec'[c] \in Seq(Cells \cup {ANY}) /\ Len(vec'[c]) = m_nSize'[c]
              /\ \A i \in 1..m_nSize'[c] : vec'[c][i] \in {ANY, mem'[c][i]}
  <2>1. CASE c = b
    <3>1. mem'[c] = m /\ m_nReserved'[c] = m_nReserved[b] /\ vec'[c] = v /\ m_nSize'[c] = k - len
      BY <1>6, <1>8, <2>1 DEF Kept, SizeInv
    <3> QED BY <1>5, <1>7, <1>9, <1>10, <3>1
  <2>2. CASE c /= b
    <3>1. mem'[c] = mem[c] /\ m_nReserved'[c] = m_nReserved[c] /\ vec'[c] = vec[c] /\ m_nSize'[c] = m_nSize[c]
      BY <1>6, <1>8, <2>2 DEF Kept, SizeInv
    <3> QED BY <3>1 DEF ContentInv
  <2> QED BY <2>1, <2>2
<1> QED BY <1>11, <1>12 DEF ContentInv

LEMMA SwapContents ==
    ASSUME SizeInv, ContentInv, Kept, NEW b \in Buff, NEW c \in Buff, Swap(b, c)
    PROVE  Kept' /\ ContentInv'
<1>1. /\ m_nReserved' = [m_nReserved EXCEPT ![b] = m_nReserved[c], ![c] = m_nReserved[b]]
      /\ m_nSize' = [m_nSize EXCEPT ![b] = m_nSize[c], ![c] = m_nSize[b]]
      /\ mem' = [mem EXCEPT ![b] = mem[c], ![c] = mem[b]]
      /\ vec' = [vec EXCEPT ![b] = vec[c], ![c] = vec[b]]
  BY DEF Swap, SwapOf
<1>2. Kept'
  BY <1>1 DEF Kept
<1>3. ASSUME NEW d \in Buff
      PROVE  \E e \in Buff : /\ m_nReserved'[d] = m_nReserved[e] /\ m_nSize'[d] = m_nSize[e]
                             /\ mem'[d] = mem[e] /\ vec'[d] = vec[e]
  BY <1>1 DEF Kept, SizeInv
<1>4. ASSUME NEW d \in Buff
      PROVE  /\ mem'[d] \in Seq(Cells) /\ Len(mem'[d]) = m_nReserved'[d]
             /\ vec'[d] \in Seq(Cells \cup {ANY}) /\ Len(vec'[d]) = m_nSize'[d]
             /\ \A i \in 1..m_nSize'[d] : vec'[d][i] \in {ANY, mem'[d][i]}
  <2>1. PICK e \in Buff : /\ m_nReserved'[d] = m_nReserved[e] /\ m_nSize'[d] = m_nSize[e]
                          /\ mem'[d] = mem[e] /\ vec'[d] = vec[e]
    BY <1>3
  <2> QED BY <2>1 DEF ContentInv
<1> QED BY <1>2, <1>4 DEF ContentInv

LEMMA ClearContents ==
    ASSUME SizeInv, ContentInv, Kept, NEW b \in Buff, Clear(b)
    PROVE  Kept' /\ ContentInv'
<1>1. /\ m_nSize' = [m_nSize EXCEPT ![b] = 0] /\ vec' = [vec EXCEPT ![b] = <<>>]
      /\ UNCHANGED <<m_nReserved, mem>>
  BY DEF Clear
<1>2. <<>> \in Seq(Cells \cup {ANY}) /\ Len(<<>>) = 0 /\ 1..0 = {}
  OBVIOUS
<1>3. Kept'
  BY <1>1, <1>2 DEF Kept
<1>4. ASSUME NEW c \in Buff
      PROVE  /\ mem'[c] \in Seq(Cells) /\ Len(mem'[c]) = m_nReserved'[c]
             /\ vec'[c] \in Seq(Cells \cup {ANY}) /\ Len(vec'[c]) = m_nSize'[c]
             /\ \A i \in 1..m_nSize'[c] : vec'[c][i] \in {ANY, mem'[c][i]}
  <2>1. CASE c = b
    <3>1. vec'[c] = <<>> /\ m_nSize'[c] = 0
      BY <1>1, <2>1 DEF Kept, SizeInv
    <3> QED BY <1>1, <1>2, <3>1 DEF ContentInv
  <2>2. CASE c /= b
    <3>1. vec'[c] = vec[c] /\ m_nSize'[c] = m_nSize[c]
      BY <1>1, <2>2 DEF Kept, SizeInv
    <3> QED BY <1>1, <3>1 DEF ContentInv
  <2> QED BY <2>1, <2>2
<1> QED BY <1>3, <1>4 DEF ContentInv

LEMMA InitContents == Init => Kept /\ ContentInv
<1> SUFFICES ASSUME Init PROVE Kept /\ ContentInv
  OBVIOUS
<1>1. SizeInv
  BY InitEstablishes
<1>2. /\ mem = [b \in Buff |-> Fill(m_nReserved[b], GARBAGE)]
      /\ vec = [b \in Buff |-> <<>>] /\ m_nSize = [b \in Buff |-> 0]
  BY DEF Init
<1>3. \A n \in Nat : Fill(n, GARBAGE) \in Seq(Cells) /\ Len(Fill(n, GARBAGE)) = n
  BY DEF Fill, Cells
<1>4. <<>> \in Seq(Cells \cup {ANY}) /\ Len(<<>>) = 0 /\ 1..0 = {}
  OBVIOUS
<1>5. Kept
  BY <1>1, <1>2, <1>3, <1>4 DEF Kept, SizeInv
<1>6. ContentInv
  BY <1>1, <1>2, <1>3, <1>4 DEF ContentInv, SizeInv
<1> QED BY <1>5, <1>6

LEMMA NextContents ==
    ASSUME NoWrap, ~AllocMayFail, SizeofT = 1, SizeInv, ContentInv, Kept, [Next]_vars
    PROVE  Kept' /\ ContentInv'
<1>1. MaxSize \in Nat /\ SizeWords \in Nat /\ Lengths \subseteq Nat
  BY Sizes
<1>2. EraseLengths \subseteq Nat /\ MaxSize < SizeWords
  <2>1. EraseLengths \subseteq 0..(SizeWords - 1) /\ 2 * MaxSize < SizeWords /\ MaxSize < SizeWords
    BY Sizes
  <2> QED BY <2>1
<1>3. \A b \in Buff : /\ vec[b] \in Seq(Cells \cup {ANY}) /\ Len(vec[b]) = m_nSize[b]
                      /\ mem[b] \in Seq(Cells) /\ m_nSize[b] \in 0..Len(mem[b])
  BY DEF ContentInv, SizeInv
<1>4. \A x : x \in Seq(Cells) => x \in Seq(Cells \cup {ANY})
  OBVIOUS
(* resize(n)                                                               *)
<1>5. ASSUME NEW b \in Buff, NEW n \in Lengths, n <= MaxSize, Resize(b, n) PROVE Kept' /\ ContentInv'
  <2> DEFINE v == [i \in 1..n |-> IF i <= Len(vec[b]) THEN vec[b][i] ELSE ANY]
  <2>1. ResizeAndWrite(b, n, <<>>) /\ vec' = [vec EXCEPT ![b] = v]
    BY <1>5 DEF Resize, AllocFails, Kept
  <2>2. n \in 0..MaxSize
    BY <1>1, <1>5
  <2>3. v \in Seq(Cells \cup {ANY}) /\ Len(v) = n
    <3>1. \A i \in 1..n : v[i] \in Cells \cup {ANY}
      BY <1>3, <2>2
    <3> HIDE DEF v
    <3>2. v = [i \in 1..n |-> v[i]]
      BY DEF v
    <3> QED BY <2>2, <3>1, <3>2
  <2>4. ASSUME NEW i \in 1..n
        PROVE  \/ v[i] = ANY
               \/ i <= m_nSize[b] /\ v[i] = vec[b][i]
               \/ /\ m_nSize[b] < i /\ i <= m_nSize[b] + Len(<<>>)
                  /\ v[i] \in {ANY, <<>>[i - m_nSize[b]]}
    BY <1>3
  <2>5. <<>> \in Seq(Cells)
    OBVIOUS
  <2> HIDE DEF v
  <2> QED BY <1>1, <2>1, <2>2, <2>3, <2>4, <2>5, ResizeContents
(* append(pData, nLen)                                                     *)
<1>6. ASSUME NEW b \in Buff, NEW data \in Seq(Cells), NEW w \in Seq(Cells \cup {ANY}), Len(w) = Len(data),
             \A i \in 1..Len(data) : w[i] \in {ANY, data[i]}, m_nSize[b] + Len(data) <= MaxSize,
             ResizeAndWrite(b, m_nSize[b] + Len(data), data), vec' = [vec EXCEPT ![b] = vec[b] \o w]
      PROVE  Kept' /\ ContentInv'
  <2> DEFINE v == vec[b] \o w
             k == m_nSize[b]
             n == k + Len(data)
  <2>1. /\ v \in Seq(Cells \cup {ANY}) /\ Len(v) = n /\ k \in Nat /\ Len(data) \in Nat
        /\ \A i \in 1..n : v[i] = IF i <= k THEN vec[b][i] ELSE w[i - k]
    BY <1>3, <1>6, Joined
  <2>2. n \in 0..MaxSize
    BY <1>1, <1>6, <2>1
  <2>3. vec' = [vec EXCEPT ![b] = v] /\ ResizeAndWrite(b, n, data)
    BY <1>6
  <2> HIDE DEF v, n
  <2>4. ASSUME NEW i \in 1..n
        PROVE  \/ v[i] = ANY
               \/ i <= k /\ v[i] = vec[b][i]
               \/ k < i /\ i <= k + Len(data) /\ v[i] \in {ANY, data[i - k]}
    <3>1. CASE i <= k
      BY <2>1, <3>1
    <3>2. CASE i > k
      <4>1. i - k \in 1..Len(data) /\ i <= k + Len(data)
        BY <2>1, <3>2 DEF n
      <4>2. v[i] = w[i - k]
        BY <2>1, <3>2
      <4> QED BY <1>6, <3>2, <4>1, <4>2
    <3> QED BY <2>1, <3>1, <3>2
  <2> QED BY <1>1, <2>1, <2>2, <2>3, <2>4, ResizeContents
<1>7. ASSUME NEW b \in Buff, NEW n \in Lengths, NEW data \in [1..n -> T], Append_(b, data) PROVE Kept' /\ ContentInv'
  <2>1. data \in Seq(Cells) /\ Len(data) = n
    <3>1. n \in Nat /\ data \in [1..n -> Cells]
      BY <1>1 DEF Cells
    <3> QED BY <3>1
  <2>2. /\ m_nSize[b] + Len(data) <= MaxSize /\ ResizeAndWrite(b, m_nSize[b] + Len(data), data)
        /\ vec' = [vec EXCEPT ![b] = vec[b] \o data]
    BY <1>7 DEF Append_, AllocFails, Kept
  <2> QED BY <1>4, <1>6, <2>1, <2>2
<1>8. ASSUME NEW b \in Buff, NEW t \in T, AppendOne(b, t) PROVE Kept' /\ ContentInv'
  <2>1. <<t>> \o Fill(SizeofT - 1, GARBAGE) = <<t>> /\ <<t>> \in Seq(Cells) /\ Len(<<t>>) = 1
    BY DEF Fill, Cells
  <2>2. /\ m_nSize[b] + 1 <= MaxSize /\ ResizeAndWrite(b, m_nSize[b] + 1, <<t>>)
        /\ vec' = [vec EXCEPT ![b] = vec[b] \o <<t>>]
    BY <1>8, <2>1 DEF AppendOne, AllocFails, Kept
  <2> QED BY <1>4, <1>6, <2>1, <2>2
<1>9. ASSUME NEW b \in Buff, NEW c \in Buff, AppendBuff(b, c) PROVE Kept' /\ ContentInv'
  <2>1. /\ Contents(c) \in Seq(Cells) /\ Len(Contents(c)) = m_nSize[c]
        /\ \A i \in 1..m_nSize[c] : Contents(c)[i] = mem[c][i]
    BY <1>3, Prefix DEF Contents
  <2>2. /\ m_nSize[b] + m_nSize[c] <= MaxSize /\ ResizeAndWrite(b, m_nSize[b] + m_nSize[c], Contents(c))
        /\ vec' = [vec EXCEPT ![b] = vec[b] \o vec[c]]
    BY <1>9 DEF AppendBuff, AllocFails, Kept
  <2>3. \A i \in 1..m_nSize[c] : vec[c][i] \in {ANY, Contents(c)[i]}
    BY <2>1 DEF ContentInv
  <2> QED BY <1>3, <1>6, <2>1, <2>2, <2>3
<1>10. ASSUME NEW b \in Buff, NEW c \in Buff, Swap(b, c) PROVE Kept' /\ ContentInv'
  BY <1>10, SwapContents
<1>11. ASSUME NEW b \in Buff, Clear(b) PROVE Kept' /\ ContentInv'
  BY <1>11, ClearContents
<1>12. ASSUME NEW b \in Buff, NEW p \in 0..MaxSize, NEW n \in EraseLengths, Erase(b, p, n) PROVE Kept' /\ ContentInv'
  BY <1>1, <1>2, <1>12, EraseContents
<1>13. CASE UNCHANGED vars
  BY <1>13 DEF vars, Kept, ContentInv
<1> QED BY <1>5, <1>7, <1>8, <1>9, <1>10, <1>11, <1>12, <1>13 DEF Next

(* The buffer holds what a standard container would (TBuff.h:11), however the
   calls follow each other.  The third premise is TBuff.h:104, which passes
   sizeof(t) for the number of elements: right for one byte only.           *)
THEOREM HoldsContents ==
    ASSUME NoWrap, ~AllocMayFail, SizeofT = 1
    PROVE  Spec => []ContentsAsVector
<1>1. SizeInv /\ ContentInv => ContentsAsVector
  BY DEF SizeInv, ContentInv, ContentsAsVector
<1>2. SizeInv /\ Kept /\ ContentInv /\ [Next]_vars => SizeInv' /\ Kept' /\ ContentInv'
  BY NextPreserves, NextContents
<1> QED BY InitEstablishes, InitContents, <1>1, <1>2, PTL DEF Spec
=============================================================================
