-------------------------------- MODULE TBuff --------------------------------
(***************************************************************************)
(* Tool::TBuff<T> (src/base/TBuff.h): a growing buffer of m_nSize elements *)
(* in a block of m_nReserved, used by one thread.  Its head comment        *)
(* promises the contents a standard container would have (lines 9-11);     *)
(* vec keeps those, with ANY where that promise leaves an element open, as *)
(* the elements resize adds.                                               *)
(*                                                                         *)
(* size_t has SizeWords values.  The block m_pData points to and what it   *)
(* holds are block and mem, GARBAGE where nothing was written.  The copy   *)
(* constructor and assignment the compiler adds, which share one block     *)
(* between two objects, and append of a buffer to itself, whose source     *)
(* resize may have freed, are left out.                                    *)
(***************************************************************************)
EXTENDS Integers, Sequences

CONSTANTS
    Buff,           \* the objects
    T, GARBAGE, ANY,
    SizeofT,        \* sizeof(T)
    MIN_RESERVED,
    SizeWords,      \* 2^64 in the code
    MaxSize,        \* bound: m_nSize
    Lengths,        \* sizes given to the constructor, resize and append
    EraseLengths,   \* and to erase
    AllocMayFail    \* BOOLEAN: new may throw

ASSUME Sizes ==
    /\ MIN_RESERVED \in Nat \ {0} /\ SizeWords \in Nat /\ MaxSize \in Nat
    /\ Lengths \subseteq Nat /\ SizeofT \in Nat \ {0}
    /\ EraseLengths \subseteq 0..(SizeWords - 1) /\ 2 * MaxSize < SizeWords
ASSUME Elements == GARBAGE \notin T /\ ANY \notin T /\ GARBAGE /= ANY /\ AllocMayFail \in BOOLEAN

VARIABLES m_nReserved, m_nSize, block, mem, vec

vars == <<m_nReserved, m_nSize, block, mem, vec>>

Fill(n, x) == [i \in 1..n |-> x]
Contents(b) == SubSeq(mem[b], 1, m_nSize[b])

(* A block that has been through new: the first elements, then garbage.    *)
NewBlock(n, first) == [i \in 1..n |-> IF i <= Len(first) THEN first[i] ELSE GARBAGE]

(* mem with data written from position p + 1 on; nothing beyond the block. *)
Written(m, p, data) ==
    [i \in DOMAIN m |-> IF i > p /\ i <= p + Len(data) THEN data[i - p] ELSE m[i]]

ReservedFor(n) == IF n < MIN_RESERVED THEN MIN_RESERVED ELSE n

Init ==
    \E n \in [Buff -> Lengths] :
        /\ m_nReserved = [b \in Buff |-> ReservedFor(n[b])]
        /\ m_nSize = [b \in Buff |-> 0]
        /\ block = m_nReserved
        /\ mem = [b \in Buff |-> Fill(m_nReserved[b], GARBAGE)]
        /\ vec = [b \in Buff |-> <<>>]

-----------------------------------------------------------------------------
(* The loop of resize: doubled until it is large enough.                   *)
GrownOnce(r, n) == {IF r < n THEN 2 * r ELSE r}

Grown(r, n) ==
    {x \in r..(r + 2 * n) :
        /\ x >= n
        /\ \E k \in 0..n : x = r * 2^k
        /\ x = r \/ x < 2 * n}

(* resize(n) followed by a write of data from the old end: append, and with
   no data resize itself.                                                  *)
ResizeForgetsOld(b, n, data) ==
    \E r \in Grown(m_nReserved[b], n) :
        /\ m_nReserved' = [m_nReserved EXCEPT ![b] = r]
        /\ m_nSize' = [m_nSize EXCEPT ![b] = n]
        /\ block' = [block EXCEPT ![b] = r]
        /\ mem' = [mem EXCEPT ![b] =
                      Written(IF r = m_nReserved[b] THEN @ ELSE NewBlock(r, <<>>), m_nSize[b], data)]

ResizeAndWrite(b, n, data) ==
    \E r \in Grown(m_nReserved[b], n) :
        /\ m_nReserved' = [m_nReserved EXCEPT ![b] = r]
        /\ m_nSize' = [m_nSize EXCEPT ![b] = n]
        /\ block' = [block EXCEPT ![b] = IF r = m_nReserved[b] THEN @ ELSE r]
        /\ mem' = [mem EXCEPT ![b] =
                      Written(IF r = m_nReserved[b] THEN @ ELSE NewBlock(r, Contents(b)), m_nSize[b], data)]

(* new throws: m_nReserved has been set already.                           *)
AllocFails(b, n) ==
    /\ AllocMayFail
    /\ \E r \in Grown(m_nReserved[b], n) :
          /\ r /= m_nReserved[b]
          /\ m_nReserved' = [m_nReserved EXCEPT ![b] = r]
    /\ UNCHANGED <<m_nSize, block, mem, vec>>

Resize(b, n) ==
    \/ /\ ResizeAndWrite(b, n, <<>>)
       /\ vec' = [vec EXCEPT ![b] = [i \in 1..n |-> IF i <= Len(@) THEN @[i] ELSE ANY]]
    \/ AllocFails(b, n)

(* append(pData, nLen)                                                     *)
Append_(b, data) ==
    /\ m_nSize[b] + Len(data) <= MaxSize
    /\ \/ ResizeAndWrite(b, m_nSize[b] + Len(data), data) /\ vec' = [vec EXCEPT ![b] = @ \o data]
       \/ AllocFails(b, m_nSize[b] + Len(data))

(* append(t) passes sizeof(t) as the number of elements.                   *)
AppendOne(b, t) ==
    /\ m_nSize[b] + SizeofT <= MaxSize
    /\ \/ /\ ResizeAndWrite(b, m_nSize[b] + SizeofT, <<t>> \o Fill(SizeofT - 1, GARBAGE))
          /\ vec' = [vec EXCEPT ![b] = @ \o <<t>>]
       \/ AllocFails(b, m_nSize[b] + SizeofT)

(* append(buff), of another buffer.                                        *)
AppendBuff(b, c) ==
    /\ b /= c /\ m_nSize[b] + m_nSize[c] <= MaxSize
    /\ \/ /\ ResizeAndWrite(b, m_nSize[b] + m_nSize[c], Contents(c))
          /\ vec' = [vec EXCEPT ![b] = @ \o vec[c]]
       \/ AllocFails(b, m_nSize[b] + m_nSize[c])

SwapOf(f, b, c) == [f EXCEPT ![b] = f[c], ![c] = f[b]]

Swap(b, c) ==
    /\ m_nReserved' = SwapOf(m_nReserved, b, c)
    /\ m_nSize' = SwapOf(m_nSize, b, c)
    /\ block' = SwapOf(block, b, c)
    /\ mem' = SwapOf(mem, b, c)
    /\ vec' = SwapOf(vec, b, c)

Clear(b) ==
    /\ m_nSize' = [m_nSize EXCEPT ![b] = 0]
    /\ vec' = [vec EXCEPT ![b] = <<>>]
    /\ UNCHANGED <<m_nReserved, block, mem>>

(* erase(nPos, nSize), in size_t arithmetic; memmove takes count elements
   from position from.                                                     *)
Clamped(b, p, n) ==
    IF (p + n) % SizeWords > m_nSize[b] THEN m_nSize[b] - p ELSE n

Erase(b, p, n) ==
    /\ p < m_nSize[b]
    /\ LET len == Clamped(b, p, n)
           from == (p + len) % SizeWords
           count == (m_nSize[b] - len - p) % SizeWords
       IN  /\ mem' = [mem EXCEPT ![b] =
                         [i \in DOMAIN @ |-> IF i > p /\ i <= p + count /\ i - p + from \in DOMAIN @
                                             THEN @[i - p + from] ELSE @[i]]]
           /\ m_nSize' = [m_nSize EXCEPT ![b] = (@ - len) % SizeWords]
    /\ vec' = [vec EXCEPT ![b] =
                  SubSeq(@, 1, p) \o SubSeq(@, p + n + 1, Len(@))]
    /\ UNCHANGED <<m_nReserved, block>>

Next ==
    \E b \in Buff :
        \/ \E n \in Lengths : n <= MaxSize /\ Resize(b, n)
        \/ \E n \in Lengths : \E data \in [1..n -> T] : Append_(b, data)
        \/ \E t \in T : AppendOne(b, t)
        \/ \E c \in Buff : AppendBuff(b, c) \/ Swap(b, c)
        \/ Clear(b)
        \/ \E p \in 0..MaxSize, n \in EraseLengths : Erase(b, p, n)

Spec == Init /\ [][Next]_vars

-----------------------------------------------------------------------------
Cells == T \cup {GARBAGE}

TypeOK ==
    /\ m_nReserved \in [Buff -> Nat \ {0}]
    /\ m_nSize \in [Buff -> Nat]
    /\ block \in [Buff -> Nat \ {0}]
    /\ mem \in [Buff -> Seq(Cells)]
    /\ vec \in [Buff -> Seq(Cells \cup {ANY})]

(* m_nReserved is the length of the block m_pData points to ("the length of
   the buffer's memory", TBuff.h:152), and the elements fit into it: what
   keeps memcpy and memmove inside the block.                              *)
SizeWithinBlock ==
    \A b \in Buff : m_nSize[b] <= m_nReserved[b] /\ m_nReserved[b] = block[b]

(* The buffer holds what a standard container would hold after the same
   calls ("used like the standard library's unless said otherwise",
   TBuff.h:11).                                                            *)
ContentsAsVector ==
    \A b \in Buff :
        /\ m_nSize[b] = Len(vec[b])
        /\ \A i \in 1..Len(vec[b]) : vec[b][i] \in {ANY, mem[b][i]}
=============================================================================
