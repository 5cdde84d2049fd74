----------------------------- MODULE MarkupStore -----------------------------
(***************************************************************************)
(* What a CMarkup (src/base/Markup.cpp) keeps its elements and its saved   *)
(* positions in, and what operator= copies of it.  ElemPosTree is an array *)
(* of segments that grows by at most one whole segment at a time; a        *)
(* SavedPosMapArray is an array of hash tables, each made when it is first *)
(* asked for, whose slots are arrays of entries.                           *)
(*                                                                         *)
(* An element is the document and the index it was made at.  A document is *)
(* not assigned to itself: operator= releases the tree it then copies.     *)
(***************************************************************************)
EXTENDS Integers, Sequences, FiniteSetsExt

CONSTANTS
    Doc,            \* CMarkup objects
    SegSize,        \* 1 << PA_SEGBITS
    MinSize,        \* the least size of a tree (8)
    ParseSizes,     \* sizes x_ParseDoc asks for: MinSize and one more for 64 bytes of text
    PosName, Hash,  \* names of positions, x_Hash of each before the modulus
    MapSizes,       \* sizes of hash tables, 7 when none is given
    MaxMap,         \* bound: index of a map
    MaxElems,       \* bound: elements of a document
    MaxCalls,       \* bound: calls
    JUNK, NULL      \* memory not written; no position, no segment

StoreSizes ==
    /\ SegSize \in Nat \ {0} /\ MinSize \in 1..SegSize
    /\ ParseSizes \subseteq Nat /\ \A n \in ParseSizes : n >= MinSize

VARIABLES
    tree,           \* [Doc -> [size, segs]]: m_nSize, m_pSegs with room for m_nSegs
    m_iPosFree,     \* [Doc -> index of the next new element]
    maps,           \* [Doc -> sequence of [size, table]]
    elems,          \* history: [Doc -> what each element is]
    saved,          \* history: [Doc -> [0..MaxMap -> [PosName -> position or NULL]]]
    calls

vars == <<tree, m_iPosFree, maps, elems, saved, calls>>

-----------------------------------------------------------------------------
(* ElemPosTree                                                             *)

NoTree == [size |-> 0, segs |-> <<>>]
Room(t) == Cardinality(DOMAIN t.segs)

SegsUsed(t) == IF t.size = 0 THEN 0 ELSE (t.size - 1) \div SegSize + 1

(* new char[], after memcpy of what was there before.                      *)
Resized(mem, n, newSize) == [k \in 0..(newSize - 1) |-> IF k < n THEN mem[k] ELSE JUNK]
NewSegment(n) == Resized(<<>>, 0, n)

GetRefElemPosAt(t, i) == t.segs[i \div SegSize][i % SegSize]

Written(t, i, e) == [t EXCEPT !.segs[i \div SegSize][i % SegSize] = e]

(* At most one more complete segment ...                                   *)
GrowElemPosTree(t, asked) ==
    LET seg     == IF t.size > 0 THEN (t.size - 1) \div SegSize ELSE 0
        capped  == (asked - 1) \div SegSize > seg + 1
        newSeg  == IF capped THEN seg + 1 ELSE (asked - 1) \div SegSize
        newSize == IF capped THEN (newSeg + 1) * SegSize ELSE asked
        used    == t.size - seg * SegSize
        segs    == IF Room(t) > newSeg THEN t.segs
                   ELSE [k \in 0..(3 + newSeg * 2) |-> IF k < SegsUsed(t) THEN t.segs[k] ELSE NULL]
        full    == IF seg < newSeg /\ used < SegSize
                   THEN [segs EXCEPT ![seg] = Resized(@, used, SegSize)] ELSE segs
    IN  [size |-> newSize,
         segs |-> [full EXCEPT ![newSeg] = Resized(@, IF newSeg = seg THEN used ELSE 0,
                                                   newSize - newSeg * SegSize)]]

(* ... the first of two left as short as it is.                            *)
GrowInPlace(t, asked) ==
    LET seg     == IF t.size > 0 THEN (t.size - 1) \div SegSize ELSE 0
        capped  == (asked - 1) \div SegSize > seg + 1
        newSeg  == IF capped THEN seg + 1 ELSE (asked - 1) \div SegSize
        newSize == IF capped THEN (newSeg + 1) * SegSize ELSE asked
        used    == t.size - seg * SegSize
        segs    == IF Room(t) > newSeg THEN t.segs
                   ELSE [k \in 0..(3 + newSeg * 2) |-> IF k < SegsUsed(t) THEN t.segs[k] ELSE NULL]
    IN  [size |-> newSize,
         segs |-> [segs EXCEPT ![newSeg] = Resized(@, IF newSeg = seg THEN used ELSE 0,
                                                   newSize - newSeg * SegSize)]]

(* The first n elements and the segments they are in.                      *)
CopyElemPosTree(other, n) ==
    LET size == IF n < MinSize THEN MinSize ELSE n
        last == (size - 1) \div SegSize
        Kept(k) == IF k = last THEN size - k * SegSize ELSE SegSize
    IN  [size |-> size, segs |-> [k \in 0..last |-> Resized(other.segs[k], Kept(k), Kept(k))]]

(* x_AllocElemPos                                                          *)
AllocElemPos(t, n) == IF t.size < n THEN GrowElemPosTree(t, n) ELSE t

-----------------------------------------------------------------------------
(* SavedPosMapArray                                                        *)

NewMap(n) == [size |-> n, table |-> [k \in 0..(n - 1) |-> <<>>]]

(* Every map up to the one that is asked for is made with the same size.   *)
GetMap(ms, nMap, n) ==
    [k \in 1..Max({Len(ms), nMap + 1}) |-> IF k <= Len(ms) THEN ms[k] ELSE NewMap(n)]

(* The entries in use come first; the last of the copies is the last entry. *)
CopiedSlot(entries) ==
    LET used == Min({k \in 1..Len(entries) : entries[k] = NULL} \cup {Len(entries) + 1}) - 1
    IN  SubSeq(entries, 1, used)

CopySavedPosMaps(ms) ==
    [k \in DOMAIN ms |-> [ms[k] EXCEPT !.table = [n \in DOMAIN @ |-> CopiedSlot(@[n])]]]

Slot(map, name) == Hash[name] % map.size

(* SavePos: the entry of that name, or the first free one, or a new one.   *)
Saved(entries, name, i) ==
    LET table == IF entries = <<>> THEN <<NULL, NULL>> ELSE entries
        at    == Min({k \in DOMAIN table : table[k] = NULL \/ table[k].name = name} \cup {Len(table) + 1})
        grown == IF at <= Len(table) THEN table
                 ELSE [k \in 1..((Len(table) + 5) * 2) |-> IF k <= Len(table) THEN table[k] ELSE NULL]
    IN  [grown EXCEPT ![at] = [name |-> name, pos |-> i]]

(* RestorePos: the position, NULL when the name has none.                  *)
Restored(ms, nMap, name) ==
    LET entries == IF nMap < Len(ms) THEN ms[nMap + 1].table[Slot(ms[nMap + 1], name)] ELSE <<>>
        found   == {k \in DOMAIN entries :
                        /\ \A l \in 1..k : entries[l] /= NULL
                        /\ entries[k].name = name}
    IN  IF found = {} THEN NULL ELSE entries[Min(found)].pos

NothingSaved == [k \in 0..MaxMap |-> [name \in PosName |-> NULL]]

-----------------------------------------------------------------------------
(* x_ParseDoc up to the first element: what the tree has it keeps, the maps
   go.  A constructor does so with an empty text.                          *)
Parsed(d, t, n) == Written(AllocElemPos(t, n), 0, <<d, 0>>)

Init ==
    /\ tree = [d \in Doc |-> Parsed(d, NoTree, MinSize)]
    /\ m_iPosFree = [d \in Doc |-> 1]
    /\ maps = [d \in Doc |-> <<>>]
    /\ elems = [d \in Doc |-> << <<d, 0>> >>]
    /\ saved = [d \in Doc |-> NothingSaved]
    /\ calls = 0

Calling == calls < MaxCalls /\ calls' = calls + 1

ParseDoc(d, n) ==
    /\ Calling
    /\ tree' = [tree EXCEPT ![d] = Parsed(d, @, n)]
    /\ m_iPosFree' = [m_iPosFree EXCEPT ![d] = 1]
    /\ maps' = [maps EXCEPT ![d] = <<>>]
    /\ elems' = [elems EXCEPT ![d] = << <<d, 0>> >>]
    /\ saved' = [saved EXCEPT ![d] = NothingSaved]

(* x_GetFreePos, and what its caller writes there.                         *)
GetFreePos(d) ==
    LET i == m_iPosFree[d]
        t == IF i = tree[d].size THEN AllocElemPos(tree[d], i + i \div 2) ELSE tree[d]
    IN  /\ i < MaxElems
        /\ tree' = [tree EXCEPT ![d] = Written(t, i, <<d, i>>)]
        /\ m_iPosFree' = [m_iPosFree EXCEPT ![d] = i + 1]
        /\ elems' = [elems EXCEPT ![d] = Append(@, <<d, i>>)]
        /\ UNCHANGED <<maps, saved, calls>>

(* A position of the document, in the default size of map.                 *)
SavePos(d, name, nMap) ==
    \E i \in {0, m_iPosFree[d] - 1} :
        LET ms == GetMap(maps[d], nMap, 7)
            slot == Slot(ms[nMap + 1], name)
        IN  /\ Calling
            /\ maps' = [maps EXCEPT ![d] =
                  [ms EXCEPT ![nMap + 1].table[slot] = Saved(@, name, i)]]
            /\ saved' = [saved EXCEPT ![d][nMap][name] = i]
            /\ UNCHANGED <<tree, m_iPosFree, elems>>

(* RestorePos makes a map that is not there, too.                          *)
SetMapSize(d, n, nMap) ==
    /\ Calling
    /\ maps' = [maps EXCEPT ![d] = GetMap(@, nMap, n)]
    /\ UNCHANGED <<tree, m_iPosFree, elems, saved>>

(* operator=                                                               *)
Assign(d, other) ==
    /\ d /= other /\ Calling
    /\ m_iPosFree' = [m_iPosFree EXCEPT ![d] = m_iPosFree[other]]
    /\ tree' = [tree EXCEPT ![d] = CopyElemPosTree(tree[other], m_iPosFree[other])]
    /\ maps' = [maps EXCEPT ![d] = CopySavedPosMaps(maps[other])]
    /\ elems' = [elems EXCEPT ![d] = elems[other]]
    /\ saved' = [saved EXCEPT ![d] = saved[other]]

Next ==
    \E d \in Doc :
        \/ \E n \in ParseSizes : ParseDoc(d, n)
        \/ GetFreePos(d)
        \/ \E name \in PosName, nMap \in 0..MaxMap : SavePos(d, name, nMap)
        \/ \E n \in MapSizes, nMap \in 0..MaxMap : SetMapSize(d, n, nMap)
        \/ \E other \in Doc : Assign(d, other)

Spec == Init /\ [][Next]_vars

-----------------------------------------------------------------------------
(* Every index below the size is in a segment that was allocated, whatever
   was asked for and copied (Markup.cpp:942-1036).                         *)
IndexesAreInside ==
    \A d \in Doc : \A i \in 0..(tree[d].size - 1) :
        /\ i \div SegSize < Room(tree[d])
        /\ tree[d].segs[i \div SegSize] /= NULL
        /\ i % SegSize \in DOMAIN tree[d].segs[i \div SegSize]

(* An element stays what it was while the tree grows and is copied, and a
   free index is one the tree has or the next to be allocated.             *)
ElementsStay ==
    \A d \in Doc :
        /\ m_iPosFree[d] = Len(elems[d]) /\ m_iPosFree[d] <= tree[d].size
        /\ \A i \in 0..(m_iPosFree[d] - 1) : GetRefElemPosAt(tree[d], i) = elems[d][i + 1]

(* A position that was saved is restored, in the copy of a document too,
   where a full slot is one with no room left (Markup.cpp:2187-2262).      *)
PositionsRestored ==
    \A d \in Doc, nMap \in 0..MaxMap, name \in PosName :
        Restored(maps[d], nMap, name) = saved[d][nMap][name]
=============================================================================
