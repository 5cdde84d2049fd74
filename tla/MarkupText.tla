------------------------------ MODULE MarkupText ------------------------------
(***************************************************************************)
(* How CMarkup reads a text: TokenPos, the escaping of data, and           *)
(* x_ParseElem, which makes the table of element positions of it           *)
(* (src/base/Markup.cpp).                                                  *)
(*                                                                         *)
(* A text is a sequence of symbols, a symbol being a character, or an      *)
(* entity reference; offsets count from 0 as in the code.  The document is *)
(* held whole in memory: nothing in the program opens the file modes, in   *)
(* which the text comes in blocks.  Names are lower case; document types   *)
(* and apostrophes do not occur.                                           *)
(***************************************************************************)
EXTENDS Integers, Sequences, SequencesExt

White   == {" ", "cr", "lf"}
EOL     == <<"cr", "lf">>
Quote   == "\""
CDATA   == <<"<", "!", "[", "C", "D", "A", "T", "A", "[">>
CDEND   == <<"]", "]", ">">>
Special == White \cup {"<", ">", "=", "/", "?", "!", Quote}
Latin   == {"a", "b", "p"}

At(text, k)            == IF k \in 0..(Len(text) - 1) THEN text[k + 1] ELSE "end"
Slice(text, start, length) ==
    SubSeq(text, start + 1, IF start + length > Len(text) THEN Len(text) ELSE start + length)

RECURSIVE Skip(_, _, _)     \* past the symbols of `set' from k on
Skip(text, k, set) == IF At(text, k) \in set THEN Skip(text, k + 1, set) ELSE k

RECURSIVE Until(_, _, _)    \* up to the first symbol of `set' from k on, or the end
Until(text, k, set) == IF At(text, k) \in set \cup {"end"} THEN k ELSE Until(text, k + 1, set)

(* Text put in for `replace' symbols at `left'; OUTSIDE stands for memory
   the text does not own.                                                   *)
x_StrInsertReplace(text, left, replace, insert) ==
    IF left \in 0..Len(text) /\ replace \in 0..(Len(text) - left)
    THEN SubSeq(text, 1, left) \o insert \o SubSeq(text, left + replace + 1, Len(text))
    ELSE Append(text, "OUTSIDE")

(* Past the blanks at n, when they end at a tag or at the end.             *)
WhitespaceToTag(text, n) ==
    LET next == Skip(text, n, White)
    IN  IF At(text, next) \in {"<", "end"} THEN next ELSE n

NameAt(text, n) ==
    LET left  == Skip(text, n, White)
        right == Until(text, left, Special)
    IN  Slice(text, left, IF right = left THEN 1 ELSE right - left)

(* The value of an attribute of the tag at n, by its offset and length, or
   where to insert it: behind the last attribute or the name.               *)
FindAttrib(text, n, attrib, stop) ==
    LET at == {k \in n..stop : /\ At(text, k - 1) \in White
                               /\ Slice(text, k, Len(attrib) + 2) = attrib \o <<"=", Quote>>}
        left   == Min(at) + Len(attrib) + 2
        close  == Until(text, left, {Quote})
        behind == Max({k \in n..stop : At(text, k) \notin White \cup {"/", "?", ">"}}) + 1
    IN  IF at = {}
        THEN [found |-> FALSE, left |-> behind, length |-> 0]
        ELSE [found |-> TRUE, left |-> left, length |-> close - left]

-----------------------------------------------------------------------------
(* What an entity stands for, of the table those of XML.                   *)
PredefEntityTable ==
    [ref \in {"&lt;", "&amp;", "&gt;", "&quot;"} |->
        CASE ref = "&lt;" -> "<" [] ref = "&amp;" -> "&" [] ref = "&gt;" -> ">" [] ref = "&quot;" -> Quote]

Entity == [s \in {"<", "&", ">", Quote} |->
              CASE s = "<" -> "&lt;" [] s = "&" -> "&amp;" [] s = ">" -> "&gt;" [] s = Quote -> "&quot;"]

EscapeText(text, escapeQuotes) ==
    LET replaced == {"<", "&", ">"} \cup (IF escapeQuotes THEN {Quote} ELSE {})
    IN  [k \in 1..Len(text) |-> IF text[k] \in replaced THEN Entity[text[k]] ELSE text[k]]

UnescapeText(text) ==
    [k \in 1..Len(text) |->
        IF text[k] \in DOMAIN PredefEntityTable THEN PredefEntityTable[text[k]] ELSE text[k]]

(* CDATA sections are split where the data holds their end.                *)
EndsAt(data, k) == k >= Len(CDEND) /\ SubSeq(data, k - 2, k) = CDEND

x_EncodeCDATASection(data) ==
    CDATA
    \o FlattenSeq([k \in 1..Len(data) |->
                      IF EndsAt(data, k) THEN CDEND \o CDATA \o <<data[k]>> ELSE <<data[k]>>])
    \o CDEND

-----------------------------------------------------------------------------
(* One node of a text: where it starts, its length, for a tag its name, and
   whether the element is over with its start tag.                          *)
Node(type, start, next, name, empty) ==
    [type |-> type, start |-> start, length |-> next - start, name |-> name, empty |-> empty]

(* Along a start tag, behind its name: quotes count only after an equal
   sign, and "/" ends the element only behind the name, a blank or a quote. *)
RECURSIVE AlongTag(_, _, _)
AlongTag(text, k, tag) ==
    LET s == At(text, k)
    IN  IF s = "end" \/ (s = ">" /\ ~tag.quoted)
        THEN [over |-> s = ">", next |-> k + 1,
              empty |-> tag.last = "/" /\ tag.before \in White \cup {"", Quote}]
        ELSE AlongTag(text, k + 1,
                 [quoted |-> IF tag.quoted THEN s /= Quote ELSE s = Quote /\ tag.equals,
                  equals |-> IF tag.quoted THEN tag.equals
                             ELSE IF tag.equals THEN s \in White ELSE s = "=" /\ tag.last /= "=",
                  before |-> tag.last, last |-> s])

EndOfName(text, k) == Until(text, k, White \cup {"/", ">"})

StartTag(text, n) ==
    LET right == EndOfName(text, n + 1)
        tag   == AlongTag(text, right, [quoted |-> FALSE, equals |-> FALSE, before |-> "", last |-> ""])
    IN  IF tag.over
        THEN Node("element", n, tag.next, Slice(text, n + 1, right - n - 1), tag.empty)
        ELSE Node("bad", n, Len(text), <<>>, FALSE)

(* The node ends behind the first `close' from k on.                       *)
RECURSIVE Closing(_, _, _)
Closing(text, k, close) ==
    IF At(text, k) = "end" \/ Slice(text, k - Len(close) + 1, Len(close)) = close THEN k
    ELSE Closing(text, Until(text, k + 1, {">"}), close)

Closed(type, text, n, k, close) ==
    LET end == Closing(text, k, close)
    IN  IF At(text, end) = "end" THEN Node("bad", n, Len(text), <<>>, FALSE)
        ELSE Node(type, n, end + 1, <<>>, FALSE)

EndTag(text, n) ==
    [Closed("endTag", text, n, n + 2, <<">">>)
        EXCEPT !.name = Slice(text, n + 2, EndOfName(text, n + 2) - n - 2)]

(* Text, and what is no node at all, goes on to a tag, or behind a ">".    *)
ToTag(text, k) ==
    LET stop == Until(text, k, {"<", ">"}) IN IF At(text, stop) = ">" THEN stop + 1 ELSE stop

TextOrWhite(text, n) ==
    LET first == Skip(text, n, White)
    IN  IF At(text, first) \in {"<", "end"}
        THEN Node("whitespace", n, first, <<>>, FALSE)
        ELSE Node("text", n, ToTag(text, first + 1), <<>>, FALSE)

(* What a "<" opens, by the symbols behind it.                             *)
OpenTag(text, n) ==
    CASE At(text, n + 1) \in Latin -> StartTag(text, n)
      [] At(text, n + 1) = "/" -> EndTag(text, n)
      [] At(text, n + 1) = "?" -> Closed("pi", text, n, n + 2, <<"?", ">">>)
      [] Slice(text, n + 1, 3) = <<"!", "-", "-">> -> Closed("comment", text, n, n + 4, <<"-", "-", ">">>)
      [] Slice(text, n + 1, 3) = <<"!", "[", "C">> -> Closed("cdata", text, n, n + 4, CDEND)
      [] OTHER -> Node("bad", n, ToTag(text, n + 2), <<>>, FALSE)

ParseNode(text, n) ==
    CASE At(text, n) = "end" -> Node("end", n, n, <<>>, FALSE)
      [] At(text, n) = "<"   -> OpenTag(text, n)
      [] OTHER               -> TextOrWhite(text, n)

RECURSIVE NodesFrom(_, _)
NodesFrom(text, n) ==
    LET node == ParseNode(text, n)
    IN  IF node.type = "end" THEN <<node>> ELSE <<node>> \o NodesFrom(text, node.start + node.length)

-----------------------------------------------------------------------------
(* The table of positions.  Of nFlags those that something reads: FIRST,
   NONENDED, DELETED and, for a parsed text, ILLFORMED as `ill'.            *)
ElemPos(parent, start, length, startTagLen, endTagLen) ==
    [nStart |-> start, nLength |-> length, nStartTagLen |-> startTagLen, nEndTagLen |-> endTagLen,
     iElemParent |-> parent, iElemChild |-> 0, iElemNext |-> 0, iElemPrev |-> 0,
     first |-> FALSE, nonended |-> FALSE, deleted |-> FALSE]

VirtualParent == ElemPos(0, 0, 0, 0, 0)
Deleted       == [VirtualParent EXCEPT !.deleted = TRUE]

(* x_GetFreePos: a deleted position is never used again.                   *)
x_GetFreePos(elem) == Cardinality(DOMAIN elem)
WithElem(elem, e)  ==
    [i \in 0..x_GetFreePos(elem) |-> IF i = x_GetFreePos(elem) THEN e ELSE elem[i]]

IsEmptyElement(e) == e.nStartTagLen = e.nLength
StartContent(e)   == e.nStart + e.nStartTagLen
ContentLen(e)     == e.nLength - e.nStartTagLen - e.nEndTagLen
StartAfter(e)     == e.nStart + e.nLength

(* A start tag: the element is the last child of the one that is open.     *)
ParseStart(p, node) ==
    LET i     == x_GetFreePos(p.elem)
        e     == ElemPos(p.open, node.start, node.length, node.length, 0)
        first == p.elem[p.open].iElemChild
        last  == p.elem[first].iElemPrev
        elem  == IF first /= 0
                 THEN WithElem([p.elem EXCEPT ![last].iElemNext = i, ![first].iElemPrev = i],
                               [e EXCEPT !.iElemPrev = last])
                 ELSE WithElem([p.elem EXCEPT ![p.open].iElemChild = i],
                               [e EXCEPT !.iElemPrev = i, !.first = TRUE])
    IN  [p EXCEPT !.elem = elem, !.root = IF @ = 0 THEN i ELSE @,
                  !.open = IF node.empty THEN @ ELSE i,
                  !.stack = IF node.empty THEN @ ELSE Append(@, node.name)]

RECURSIVE Siblings(_, _)
Siblings(elem, i) == IF i = 0 THEN <<>> ELSE <<i>> \o Siblings(elem, elem[i].iElemNext)

(* An element without an end tag: its children become its next siblings.   *)
ParseNonEnded(p) ==
    LET i        == p.open
        parent   == p.elem[i].iElemParent
        chain    == <<i>> \o Siblings(p.elem, p.elem[i].iElemChild)
        Moved(j) == CASE j = i -> [p.elem[i] EXCEPT
                             !.nEndTagLen = 0, !.nonended = TRUE, !.iElemChild = 0,
                             !.nLength = p.elem[i].nStartTagLen,
                             !.iElemNext = IF Len(chain) = 1 THEN @ ELSE chain[2]]
                      [] j /= i /\ j \in Range(chain) -> [p.elem[j] EXCEPT
                             !.iElemParent = parent,
                             !.iElemPrev = chain[(CHOOSE k \in 2..Len(chain) : chain[k] = j) - 1]]
                      [] OTHER -> p.elem[j]
    IN  [p EXCEPT !.elem = [j \in DOMAIN @ |-> Moved(j)], !.open = parent, !.stack = Front(@),
                  !.ill = TRUE]

RECURSIVE Unwind(_, _)
Unwind(p, level) == IF Len(p.stack) > level THEN Unwind(ParseNonEnded(p), level) ELSE p

(* An end tag ends the last element open with its name; those opened since
   have no end.  Without such an element it stands alone.                   *)
RECURSIVE OpenAt(_, _)
OpenAt(p, up) == IF up = 0 THEN p.open ELSE p.elem[OpenAt(p, up - 1)].iElemParent

ParseEnd(p, node) ==
    LET levels == {k \in 1..Len(p.stack) : p.stack[k] = node.name}
        i      == OpenAt(p, Len(p.stack) - Max(levels))
        ended  == [p EXCEPT !.elem[i].nLength = node.start - p.elem[i].nStart + node.length,
                            !.elem[i].nEndTagLen = node.length]
        top    == Unwind(ended, Max(levels))
    IN  IF levels = {} THEN [p EXCEPT !.ill = TRUE]
        ELSE [top EXCEPT !.open = top.elem[top.open].iElemParent, !.stack = Front(@)]

ParseStep(p, node) ==
    CASE node.type = "element" -> ParseStart(p, node)
      [] node.type = "endTag"  -> ParseEnd(p, node)
      [] node.type = "bad"     -> [p EXCEPT !.ill = TRUE]
      [] node.type = "end"     -> Unwind(p, 0)
      [] OTHER                 -> p

(* The elements of a text are put behind those of `elem', under `virtual'. *)
x_ParseElem(elem, virtual, text) ==
    FoldLeft(ParseStep,
             [elem |-> elem, open |-> virtual, stack |-> <<>>, root |-> 0, ill |-> FALSE],
             NodesFrom(text, 0))

x_ParseDoc(text) ==
    LET parsed == x_ParseElem([i \in {0} |-> VirtualParent], 0, text)
    IN  [parsed EXCEPT !.elem[0].nLength = Len(text)]

(* What SetDoc and Load say of the text they read: one element, and nothing
   wrong found while parsing.                                               *)
IsWellFormed(p) ==
    LET root == p.elem[0].iElemChild IN ~p.ill /\ root /= 0 /\ p.elem[root].iElemNext = 0

(* The children of an element, each with its extent and its own children.  *)
RECURSIVE Shape(_, _)
Shape(elem, i) ==
    LET children == Siblings(elem, elem[i].iElemChild)
    IN  [k \in 1..Len(children) |->
            LET e == elem[children[k]]
            IN  <<e.nStart, e.nLength, e.nStartTagLen, e.nEndTagLen, e.nonended,
                  Shape(elem, children[k])>>]
==============================================================================
