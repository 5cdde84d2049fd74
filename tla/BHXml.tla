-------------------------------- MODULE BHXml --------------------------------
(***************************************************************************)
(* CBHXml (src/base/BHXml.cpp) writes an XML text into a buffer that grows *)
(* as elements and attributes are added.  m_pElem[l] is the element open   *)
(* at layer l; AddElem leaves its start tag open (STATUS_ELEM_ADD) until   *)
(* the next call shows whether it has children.                            *)
(*                                                                         *)
(* The text is a sequence of the pieces one statement group writes, each   *)
(* with its number of bytes; key, value and number of an attribute are one *)
(* piece.  The caller goes into an element it has just added, and stops    *)
(* when IntoElem refuses.                                                  *)
(***************************************************************************)
EXTENDS Integers, Sequences, SequencesExt

CONSTANTS
    Name,           \* names of elements
    NONE,           \* a layer nothing was written to yet, and the empty name
    Size(_),        \* strlen of a name
    AttribSize,     \* strlen of key and value together
    DocSize,        \* strlen of what SetDoc is given
    InitialSize,    \* 256 * 16
    Reserved,       \* what the caller may Reserve
    MAX_LAYER,      \* 16
    MAX_ELEM_SIZE,  \* 64
    MaxCalls        \* bound: calls that write

Sizes ==
    /\ AttribSize \in Nat /\ DocSize \in Nat /\ DocSize < InitialSize
    /\ InitialSize \in Nat \ {0} /\ MAX_LAYER \in Nat \ {0} /\ Reserved \subseteq Nat
    /\ MaxCalls \in Nat /\ \A e \in Name : Size(e) \in Nat \ {0}
    /\ NONE \notin Name

VARIABLES
    m_nBufSize, m_nPos, m_nStatus, m_nLayer,
    m_pElem,        \* [0..MAX_LAYER-1 -> Name or NONE]
    text,           \* m_pBuf[0..m_nPos-1]
    written,        \* the end of what the last call has written, the final 0 included
    refused         \* IntoElem returned false

vars == <<m_nBufSize, m_nPos, m_nStatus, m_nLayer, m_pElem, text, written, refused>>

STATUS_INIT        == 0
STATUS_ELEM_ADD    == 1
STATUS_ELEM_FINISH == 2

Init ==
    /\ m_nBufSize = InitialSize /\ m_nPos = 0 /\ m_nStatus = STATUS_INIT /\ m_nLayer = 0
    /\ m_pElem = [l \in 0..(MAX_LAYER - 1) |-> NONE]
    /\ text = <<>> /\ written = 0 /\ refused = FALSE

Bytes(piece) ==
    CASE piece[1] = "open"   -> 1 + Size(piece[2])      \* <name
      [] piece[1] = "attrib" -> 4 + AttribSize          \*  key="value"
      [] piece[1] = "empty"  -> 4                       \*  />
      [] piece[1] = "into"   -> 2                       \* >
      [] piece[1] = "close"  -> 4 + Size(piece[2])      \* </name>
      [] piece[1] = "doc"    -> DocSize

Total(pieces) == FoldLeft(LAMBDA sum, piece : sum + Bytes(piece), 0, pieces)

(* The pieces appended, and the least doubling with the room asked for.    *)
Write(pieces) ==
    /\ text' = text \o pieces
    /\ m_nPos' = m_nPos + Total(pieces)
    /\ written' = m_nPos'

Doubled(size, room) ==
    size * 2 ^ (CHOOSE d \in 0..room :
                   size * 2 ^ d >= room /\ \A c \in 0..(d - 1) : size * 2 ^ c < room)

MakeRoom(room) == m_nBufSize' = Doubled(m_nBufSize, m_nPos + room)

(* The start tag still open ends without children.                         *)
Pending == IF m_nStatus = STATUS_ELEM_ADD THEN <<<<"empty">>>> ELSE <<>>

Calling == ~refused /\ Len(text) < MaxCalls

-----------------------------------------------------------------------------
(* SetBuffer refuses to shrink; the text is copied.                        *)
SetBuffer(nBufSize) ==
    /\ ~refused /\ nBufSize >= m_nBufSize
    /\ m_nBufSize' = nBufSize
    /\ UNCHANGED <<m_nPos, m_nStatus, m_nLayer, m_pElem, text, written, refused>>

(* A text to begin with, shorter than the buffer: status and layer are not
   reset, so it is given while no element is open.                          *)
SetDoc ==
    /\ Calling /\ m_nLayer = 0 /\ m_nStatus /= STATUS_ELEM_ADD
    /\ text' = <<<<"doc">>>> /\ m_nPos' = DocSize /\ written' = DocSize
    /\ m_nBufSize' = Doubled(m_nBufSize, DocSize)
    /\ UNCHANGED <<m_nStatus, m_nLayer, m_pElem, refused>>

AddElem(e) ==
    /\ Calling /\ Size(e) <= MAX_ELEM_SIZE - 1
    /\ MakeRoom(Size(e) + 10)
    /\ m_pElem' = [m_pElem EXCEPT ![m_nLayer] = e]
    /\ Write(Pending \o <<<<"open", e>>>>)
    /\ m_nStatus' = STATUS_ELEM_ADD
    /\ UNCHANGED <<m_nLayer, refused>>

(* The layer is counted up also when it is one too many.                   *)
IntoElemUnclosed ==
    /\ Calling /\ m_nStatus = STATUS_ELEM_ADD
    /\ MakeRoom(4)
    /\ Write(<<>>)
    /\ m_nLayer' = m_nLayer + 1
    /\ IF m_nLayer' >= MAX_LAYER
       THEN refused' = TRUE /\ UNCHANGED <<m_pElem, m_nStatus>>
       ELSE /\ m_pElem' = [m_pElem EXCEPT ![m_nLayer'] = NONE]
            /\ m_nStatus' = STATUS_ELEM_FINISH
            /\ UNCHANGED refused

IntoElem ==
    /\ Calling /\ m_nStatus = STATUS_ELEM_ADD
    /\ MakeRoom(4)
    /\ Write(<<<<"into">>>>)
    /\ m_nLayer' = m_nLayer + 1
    /\ IF m_nLayer' >= MAX_LAYER
       THEN refused' = TRUE /\ UNCHANGED <<m_pElem, m_nStatus>>
       ELSE /\ m_pElem' = [m_pElem EXCEPT ![m_nLayer'] = NONE]
            /\ m_nStatus' = STATUS_ELEM_FINISH
            /\ UNCHANGED refused

(* The last child's start tag ends, if there is one, then the element.     *)
SizeAt(l) == IF m_pElem[l] = NONE THEN 0 ELSE Size(m_pElem[l])

OutOfElem ==
    /\ Calling /\ m_nLayer > 0
    /\ LET child  == IF SizeAt(m_nLayer) > 0 THEN Pending ELSE <<>>
           parent == m_pElem[m_nLayer - 1]
           size   == Doubled(m_nBufSize, m_nPos + SizeAt(m_nLayer) + 10)
       IN  /\ Write(child \o <<<<"close", parent>>>>)
           /\ m_nBufSize' = Doubled(size, m_nPos + Total(child) + Size(parent) + 10)
    /\ m_nLayer' = m_nLayer - 1
    /\ m_nStatus' = STATUS_ELEM_FINISH
    /\ UNCHANGED <<m_pElem, refused>>

(* AddAttrib and SetAttrib, of strings and numbers; refused after a child.
   Before the first element the code does not refuse, but nobody asks.      *)
AddAttrib ==
    /\ Calling /\ m_nStatus = STATUS_ELEM_ADD
    /\ MakeRoom(AttribSize + 10)
    /\ Write(<<<<"attrib">>>>)
    /\ UNCHANGED <<m_nStatus, m_nLayer, m_pElem, refused>>

(* Everything still open is closed, without a look at the room: the caller
   has reserved it, unless it has come out of all elements itself.          *)
Closing ==
    Pending \o [l \in 1..m_nLayer |-> <<"close", m_pElem[m_nLayer - l]>>]

GetDoc ==
    /\ ~refused
    /\ m_nLayer = 0 \/ m_nPos + Total(Closing) + 1 <= m_nBufSize
    /\ text' = text \o Closing
    /\ m_nPos' = m_nPos + Total(Closing)
    /\ written' = m_nPos' + 1
    /\ m_nStatus' = (IF Pending = <<>> THEN m_nStatus ELSE STATUS_ELEM_FINISH)
    /\ m_nLayer' = 0
    /\ UNCHANGED <<m_nBufSize, m_pElem, refused>>

Next ==
    \/ \E size \in Reserved : SetBuffer(size)
    \/ \E e \in Name : AddElem(e)
    \/ SetDoc \/ IntoElem \/ OutOfElem \/ AddAttrib \/ GetDoc

Spec == Init /\ [][Next]_vars

-----------------------------------------------------------------------------
(* Reading the pieces as an XML parser does: the elements open, whether a
   start tag is, and whether all was well so far.                          *)
ReadPiece(at, piece) ==
    CASE piece[1] = "open" ->
           [path |-> Append(at.path, piece[2]), tag |-> TRUE, ok |-> at.ok /\ ~at.tag]
      [] piece[1] = "attrib" -> [at EXCEPT !.ok = @ /\ at.tag]
      [] piece[1] = "into" -> [at EXCEPT !.tag = FALSE, !.ok = @ /\ at.tag]
      [] piece[1] = "empty" ->
           IF at.tag THEN [at EXCEPT !.path = Front(@), !.tag = FALSE] ELSE [at EXCEPT !.ok = FALSE]
      [] piece[1] = "close" ->
           IF ~at.tag /\ at.path /= <<>> /\ Last(at.path) = piece[2]
           THEN [at EXCEPT !.path = Front(@)]
           ELSE [at EXCEPT !.ok = FALSE]
      [] piece[1] = "doc" -> [at EXCEPT !.ok = @ /\ at.path = <<>>]

Parsed == FoldLeft(ReadPiece, [path |-> <<>>, tag |-> FALSE, ok |-> TRUE], text)

(* Whatever is called, the text is well-formed and its open elements are
   those of m_pElem, the start tag included (BHXml.cpp:114-259).           *)
WellFormed ==
    /\ Parsed.ok
    /\ ~refused =>
          /\ Parsed.tag <=> m_nStatus = STATUS_ELEM_ADD
          /\ Parsed.path = [l \in 1..(m_nLayer + (IF Parsed.tag THEN 1 ELSE 0)) |-> m_pElem[l - 1]]

(* No call writes behind the buffer, and GetDoc has room for the last
   element's end and the final 0 whenever the caller has come out of every
   element (BHXml.cpp:123-223).                                             *)
WritesFit ==
    /\ m_nPos = Total(text) /\ m_nPos <= written /\ written <= m_nBufSize
    /\ ~refused /\ m_nLayer = 0 => m_nPos + Total(Closing) + 1 <= m_nBufSize
==============================================================================
