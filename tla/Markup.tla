-------------------------------- MODULE Markup --------------------------------
(***************************************************************************)
(* CMarkup (src/base/Markup.cpp): an XML document that is edited as text,  *)
(* with a table that says where in the text each element is.  Every edit   *)
(* exchanges a piece of m_strDoc and then moves the positions behind it,   *)
(* the lengths of the elements around it, and the links.                   *)
(*                                                                         *)
(* A call is a step.  The caller holds to what the code takes for granted, *)
(* where the constants say so; an element without an end tag has a name of *)
(* its own among the elements it is in.                                    *)
(***************************************************************************)
EXTENDS MarkupText

CONSTANTS
    Document,       \* texts for SetDoc
    SubDoc,         \* for AddSubDoc and InsertSubDoc
    Content,        \* for SetElemContent
    Tag, NoEnd,     \* names for AddElem, with an end tag and without
    Data,           \* for AddElem, SetData, SetAttrib and, but for comments, AddNode
    NodeType,       \* for AddNode, InsertNode and FindNode
    PosName,        \* for SavePos, all in one slot of the table
    Unguarded,      \* what the caller does not avoid: "lines", "bare", "tag soup"
    MaxCalls        \* bound: calls that edit or save

VARIABLES
    m_strDoc, elem,                             \* the document and *m_pElemPosTree
    m_iPosParent, m_iPos, m_iPosChild,
    m_nNodeType, m_nNodeOffset, m_nNodeLength,
    slot,           \* the slot of the saved positions: [name, pos, kind] or UNUSED
    told,           \* what the caller gave an element: [data, attrib], or NONE
    calls

pos  == <<m_iPosParent, m_iPos, m_iPosChild, m_nNodeType, m_nNodeOffset, m_nNodeLength>>
vars == <<m_strDoc, elem, pos, slot, told, calls>>

UNUSED  == [name |-> "", pos |-> 0, kind |-> ""]
UNKNOWN == <<"unknown">>
Unknown == [data |-> UNKNOWN, attrib |-> UNKNOWN]

x_SetPos(parent, i, child) ==
    /\ m_iPosParent' = parent /\ m_iPos' = i /\ m_iPosChild' = child
    /\ m_nNodeType' = (IF i /= 0 THEN "element" ELSE "none")
    /\ m_nNodeOffset' = 0 /\ m_nNodeLength' = 0

(* What the caller knows of the elements, for those that are still there.  *)
Told(new) == [i \in DOMAIN elem' |-> IF i \in DOMAIN new THEN new[i]
                                     ELSE IF i \in DOMAIN told THEN told[i] ELSE Unknown]

Init ==
    \E text \in Document :
        /\ m_strDoc = text /\ elem = x_ParseDoc(text).elem
        /\ m_iPosParent = 0 /\ m_iPos = 0 /\ m_iPosChild = 0
        /\ m_nNodeType = "none" /\ m_nNodeOffset = 0 /\ m_nNodeLength = 0
        /\ slot = <<>> /\ calls = 0
        /\ told = [i \in DOMAIN elem |-> Unknown]

-----------------------------------------------------------------------------
(* The table.                                                              *)
RECURSIVE Subtree(_, _)
Subtree(e, i) ==
    {i} \cup UNION {Subtree(e, j) : j \in Range(Siblings(e, e[i].iElemChild))}

RECURSIVE Around(_, _)      \* the elements around i, up to the one without tags
Around(e, i) == IF e[i].nStartTagLen = 0 THEN {} ELSE {e[i].iElemParent} \cup Around(e, e[i].iElemParent)

(* Wrong: what is behind the elements around i is left where it was.       *)
x_AdjustSiblings(e, i, shift, afterPos) ==
    LET around == Around(e, i)
        later  == UNION {Subtree(e, j) : j \in Range(Siblings(e, e[i].iElemNext))}
        inside == IF afterPos THEN {} ELSE Subtree(e, i) \ {i}
    IN  IF e[i].nStartTagLen = 0 THEN e
        ELSE [j \in DOMAIN e |->
                 [e[j] EXCEPT !.nStart = IF j \in later \cup inside THEN @ + shift ELSE @,
                              !.nLength = IF j \in around THEN @ + shift ELSE @]]

(* The elements behind i start `shift' later, and its descendants unless
   afterPos; those around it are longer.                                    *)
x_Adjust(e, i, shift, afterPos) ==
    LET around == Around(e, i)
        later  == UNION {UNION {Subtree(e, j) : j \in Range(Siblings(e, e[k].iElemNext))} :
                            k \in {i} \cup {k \in around : e[k].nStartTagLen > 0}}
        inside == IF afterPos THEN {} ELSE Subtree(e, i) \ {i}
    IN  IF e[i].nStartTagLen = 0 THEN e
        ELSE [j \in DOMAIN e |->
                 [e[j] EXCEPT !.nStart = IF j \in later \cup inside THEN @ + shift ELSE @,
                              !.nLength = IF j \in around THEN @ + shift ELSE @]]

(* Something other than an element changed behind i, or at the beginning.  *)
x_AdjustForNode(e, parent, i, shift) ==
    LET first == e[parent].iElemChild
    IN  IF i /= 0 THEN x_Adjust(e, i, shift, TRUE)
        ELSE IF first /= 0
        THEN x_Adjust([e EXCEPT ![first].nStart = @ + shift], first, shift, FALSE)
        ELSE x_Adjust([e EXCEPT ![parent].nLength = @ + shift], parent, shift, TRUE)

x_LinkElem(e, parent, before, i) ==
    LET first == e[parent].iElemChild
        next  == IF before /= 0 THEN e[before].iElemNext ELSE first
        last  == IF first = 0 \/ (before /= 0 /\ next = 0) THEN i ELSE e[first].iElemPrev
        linked == [e EXCEPT ![i].iElemParent = parent, ![i].iElemNext = next,
                            ![i].iElemPrev = IF before /= 0 THEN before ELSE last,
                            ![i].first = before = 0]
    IN  IF before /= 0
        THEN [linked EXCEPT ![IF next /= 0 THEN next ELSE first].iElemPrev = i,
                            ![before].iElemNext = i]
        ELSE [j \in DOMAIN e |->
                 IF j = parent THEN [linked[j] EXCEPT !.iElemChild = i]
                 ELSE IF j = next /\ next /= 0 THEN [linked[j] EXCEPT !.iElemPrev = i, !.first = ~@]
                 ELSE linked[j]]

(* x_ReleaseSubDoc, and x_ReleasePos of a single position: the list of
   deleted ones is never used.                                              *)
Released(e, gone) == [j \in DOMAIN e |-> IF j \in gone THEN Deleted ELSE e[j]]

(* The element before i, or 0, is the one to go on from.                   *)
x_UnlinkElem(e, i) ==
    LET this   == e[i]
        parent == this.iElemParent
        around == IF this.first
                  THEN IF this.iElemNext = 0
                       THEN [e EXCEPT ![parent].iElemChild = 0]
                       ELSE [e EXCEPT ![parent].iElemChild = this.iElemNext,
                                      ![this.iElemNext].iElemPrev = this.iElemPrev,
                                      ![this.iElemNext].first = TRUE]
                  ELSE LET bypassed == [e EXCEPT ![this.iElemPrev].iElemNext = this.iElemNext]
                       IN  IF this.iElemNext /= 0
                           THEN [bypassed EXCEPT ![this.iElemNext].iElemPrev = this.iElemPrev]
                           ELSE [bypassed EXCEPT ![e[parent].iElemChild].iElemPrev = this.iElemPrev]
    IN  [elem |-> Released(around, Subtree(e, i)),
         prev |-> IF this.first THEN 0 ELSE this.iElemPrev]

(* Saved positions of elements deleted go, the others close up.            *)
x_CheckSavedPos(e) ==
    LET living == SelectSeq(slot, LAMBDA saved : saved /= UNUSED /\ ~e[saved.pos].deleted)
    IN  slot' = [k \in DOMAIN slot |-> IF k <= Len(living) THEN living[k] ELSE UNUSED]

-----------------------------------------------------------------------------
(* Where a piece of text goes, relative to the element `rel' or the node at
   `start', or into `parent'; how much it replaces; and what it becomes with
   line ends, and the tags of a parent that had no end tag or no content.
   The result's `start' is where the piece itself will be.                  *)
x_InsertNew(e, text, parent, rel, node) ==
    LET p         == e[parent]
        empty     == parent /= 0 /\ IsEmptyElement(p)
        noContent == parent /= 0 /\ ContentLen(p) = 0
        lines     == ~node.nolines
        place ==
            IF rel /= 0 /\ node.length = 0
            THEN IF node.insert THEN e[rel].nStart ELSE StartAfter(e[rel])
            ELSE IF empty THEN StartContent(p) - (IF p.nonended THEN 0 ELSE 1)
            ELSE IF node.length > 0 THEN node.start + (IF node.insert THEN 0 ELSE node.length)
            ELSE IF node.insert \/ node.replace THEN StartContent(p)
            ELSE StartAfter(p) - p.nEndTagLen
        tagged == IF lines /\ ~node.replace /\ ~empty THEN WhitespaceToTag(text, place) ELSE place
        start  == tagged + (IF lines /\ noContent THEN Len(EOL) ELSE 0)
        before ==
            IF node.length > 0 THEN rel
            ELSE IF rel /= 0
            THEN IF ~node.insert THEN rel ELSE IF e[rel].first THEN 0 ELSE e[rel].iElemPrev
            ELSE IF ~node.insert /\ p.iElemChild /= 0 THEN e[p.iElemChild].iElemPrev ELSE 0
        ended == node.meta \o (IF lines THEN EOL ELSE <<>>)
        name  == NameAt(text, p.nStart + 1)
        cut   == IF p.nonended THEN 0 ELSE 1
    IN  IF empty
        THEN [elem |-> [e EXCEPT ![parent].nonended = FALSE, ![parent].nStartTagLen = @ - cut,
                                 ![parent].nEndTagLen = 3 + Len(name)],
              start |-> start, before |-> before, at |-> StartAfter(p) - 1 - cut, replace |-> cut,
              meta |-> <<">">> \o (IF lines THEN EOL ELSE <<>>) \o ended \o <<"<", "/">> \o name]
        ELSE [elem |-> e, start |-> start, before |-> before,
              at |-> IF node.replace \/ noContent THEN StartContent(p) ELSE start,
              replace |-> IF node.replace THEN ContentLen(p) ELSE 0,
              meta |-> IF noContent /\ ~node.replace THEN EOL \o ended ELSE ended]

NewNode(meta, insert, nolines) ==
    [meta |-> meta, start |-> 0, length |-> 0, insert |-> insert, nolines |-> nolines, replace |-> FALSE]
AtNode(node)  == [node EXCEPT !.start = m_nNodeOffset, !.length = m_nNodeLength]
Replacing(meta) == [NewNode(meta, FALSE, TRUE) EXCEPT !.replace = TRUE]

x_DocChange(at, replace, insert) == m_strDoc' = x_StrInsertReplace(m_strDoc, at, replace, insert)
Change(put)  == x_DocChange(put.at, put.replace, put.meta)
Growth(put)  == Len(put.meta) - put.replace

Editing == calls < MaxCalls /\ calls' = calls + 1

(* Without line ends nothing is put between two tags with nothing between
   them, unless the caller does not know that the code adds a line there.   *)
LinesFit(parent, nolines) ==
    "lines" \in Unguarded \/ ~nolines \/ parent = 0
    \/ IsEmptyElement(elem[parent]) \/ ContentLen(elem[parent]) > 0

-----------------------------------------------------------------------------
(* Finding the way.                                                        *)
x_FindElem(parent, i, name) ==
    LET all == Siblings(elem, IF i /= 0 THEN elem[i].iElemNext ELSE elem[parent].iElemChild)
        named == IF name = <<>> THEN all
                 ELSE SelectSeq(all, LAMBDA j : NameAt(m_strDoc, elem[j].nStart + 1) = name)
    IN  IF named = <<>> THEN 0 ELSE Head(named)

Still == UNCHANGED <<m_strDoc, elem, slot, told, calls>>

FindElem(name) ==
    LET i == x_FindElem(m_iPosParent, m_iPos, name)
    IN  i /= 0 /\ x_SetPos(elem[i].iElemParent, i, 0) /\ Still

(* Without a main position it is FindElem first.                           *)
FindChildElem(name) ==
    LET main  == IF m_iPos /= 0 THEN m_iPos ELSE x_FindElem(m_iPosParent, 0, <<>>)
        old   == IF m_iPos /= 0 THEN m_iPosChild ELSE IF main /= 0 THEN 0 ELSE m_iPosChild
        child == x_FindElem(main, old, name)
    IN  /\ IF child /= 0
           THEN x_SetPos(elem[elem[child].iElemParent].iElemParent, elem[child].iElemParent, child)
           ELSE main /= m_iPos /\ x_SetPos(elem[main].iElemParent, main, 0)
        /\ Still

IntoElem  == m_iPos /= 0 /\ m_nNodeType = "element" /\ x_SetPos(m_iPos, m_iPosChild, 0) /\ Still
OutOfElem == m_iPosParent /= 0 /\ x_SetPos(elem[m_iPosParent].iElemParent, m_iPosParent, m_iPos) /\ Still

ResetChildPos == x_SetPos(m_iPosParent, m_iPos, 0) /\ Still
ResetMainPos  == x_SetPos(m_iPosParent, 0, 0) /\ Still
ResetPos      == x_SetPos(0, 0, 0) /\ Still

(* The next node of the type asked for, or of any, from position n on; i is
   the last element passed.  Nothing is found behind the parent's content.  *)
RECURSIVE NodeFrom(_, _, _)
Passing(node, n, i, type) ==
    LET next == IF i /= 0 THEN elem[i].iElemNext ELSE elem[m_iPosParent].iElemChild
        kind == CASE node.type = "endTag" -> "lone end tag" [] node.type = "bad" -> "error"
                  [] OTHER -> node.type
        content == StartContent(elem[m_iPosParent]) + ContentLen(elem[m_iPosParent])
    IN  IF \/ node.type = "end" \/ (node.type = "element" /\ next = 0)
           \/ (node.type = "endTag" /\ m_iPosParent /= 0 /\ n = content)
        THEN [found |-> FALSE]
        ELSE IF type \in {"any", kind}
        THEN [found |-> TRUE, type |-> kind, start |-> node.start, length |-> node.length,
              pos |-> IF kind = "element" THEN next ELSE i]
        ELSE IF kind = "element" THEN NodeFrom(StartAfter(elem[next]), next, type)
        ELSE NodeFrom(n + node.length, i, type)
NodeFrom(n, i, type) == Passing(ParseNode(m_strDoc, n), n, i, type)

FindNode(type) ==
    LET onNode == m_nNodeType \notin {"none", "element"}
        from   == IF onNode THEN m_nNodeOffset + m_nNodeLength
                  ELSE IF m_iPos /= 0 THEN StartAfter(elem[m_iPos])
                  ELSE IF m_iPosParent /= 0 THEN StartContent(elem[m_iPosParent])
                  ELSE m_nNodeOffset
    IN  /\ ~(~onNode /\ m_iPos = 0 /\ m_iPosParent /= 0 /\ IsEmptyElement(elem[m_iPosParent]))
        /\ \E node \in {NodeFrom(from, m_iPos, type)} :
              /\ node.found
              /\ IF node.type = "element" THEN x_SetPos(m_iPosParent, node.pos, 0)
                 ELSE /\ m_iPos' = node.pos /\ m_iPosChild' = 0 /\ m_nNodeType' = node.type
                      /\ m_nNodeOffset' = node.start /\ m_nNodeLength' = node.length
                      /\ UNCHANGED m_iPosParent
        /\ Still

-----------------------------------------------------------------------------
(* AddElem, InsertElem, AddChildElem and InsertChildElem.                  *)
ElemText(name, data, encoded, noend) ==
    IF data = <<>> THEN <<"<">> \o name \o (IF noend THEN <<">">> ELSE <<"/", ">">>)
    ELSE <<"<">> \o name \o <<">">> \o encoded \o <<"<", "/">> \o name \o <<">">>

Encoded(data, cdata) == IF cdata THEN x_EncodeCDATASection(data) ELSE EscapeText(data, FALSE)

x_AddElem(name, data, insert, child, nolines, noend, cdata) ==
    LET parent == IF child THEN m_iPos ELSE m_iPosParent
        text   == ElemText(name, data, Encoded(data, cdata), noend)
        fresh  == NewNode(text, insert, nolines)
        i      == x_GetFreePos(elem)
        tags   == IF data = <<>> THEN <<Len(text), 0>> ELSE <<Len(name) + 2, Len(name) + 3>>
        New(start) == [ElemPos(parent, start, Len(text), tags[1], tags[2]) EXCEPT !.nonended = noend]
    IN  /\ (child => m_iPos /= 0) /\ (noend => data = <<>>) /\ LinesFit(parent, nolines)
        /\ Editing
        /\ \E put \in {IF child THEN x_InsertNew(elem, m_strDoc, parent, m_iPosChild, fresh)
                        ELSE x_InsertNew(elem, m_strDoc, parent, m_iPos, AtNode(fresh))} :
              /\ Change(put)
              /\ elem' = x_Adjust(x_LinkElem(WithElem(put.elem, New(put.start)), parent, put.before, i),
                                  i, Growth(put), FALSE)
        /\ IF child THEN x_SetPos(m_iPosParent, parent, i) ELSE x_SetPos(parent, i, 0)
        /\ told' = Told((i :> [data |-> data, attrib |-> <<>>])
                        @@ (parent :> [told[parent] EXCEPT !.data = UNKNOWN]))
        /\ UNCHANGED slot

(* AddSubDoc and its like: the elements of a text of their own, without
   what is before and behind them, or all of a text that is not well-formed. *)
RECURSIVE LinkAll(_, _, _, _)
LinkAll(e, parent, before, all) ==
    IF all = <<>> THEN e
    ELSE LinkAll(x_LinkElem(e, parent, before, Head(all)), parent, Head(all), Tail(all))

LinkSiblings(e, parent, before, i) == LinkAll(e, parent, before, Siblings(e, i))

(* The elements of a new text, from i on, to where the text has been put.  *)
MovedTo(e, i, shift) ==
    IF i = 0 \/ shift = 0 THEN e ELSE [x_Adjust(e, i, shift, FALSE) EXCEPT ![i].nStart = @ + shift]

(* The text of the parsed elements alone, and where that is in the text.   *)
Trimmed(text, parsed) ==
    LET i     == parsed.root
        whole == i = 0 \/ parsed.ill
        from  == IF whole THEN 0 ELSE parsed.elem[i].nStart
        after == IF whole THEN Len(text) ELSE StartAfter(parsed.elem[parsed.elem[i].iElemPrev])
    IN  [text |-> Slice(text, from, after - from), from |-> from, whole |-> whole]

x_AddSubDoc(text, insert, child) ==
    LET parent  == IF child THEN m_iPos ELSE m_iPosParent
        virtual == x_GetFreePos(elem)
    IN  /\ (child => m_iPos /= 0)
        /\ Editing
        /\ \E parsed \in {x_ParseElem(WithElem(elem, VirtualParent), virtual, text)} :
           \E piece \in {Trimmed(text, parsed)} :
           \E fresh \in {NewNode(piece.text, insert, piece.whole)} :
           \E put \in {IF child THEN x_InsertNew(parsed.elem, m_strDoc, parent, m_iPosChild, fresh)
                       ELSE x_InsertNew(parsed.elem, m_strDoc, parent, m_iPos, AtNode(fresh))} :
              LET i      == parsed.root
                  moved  == MovedTo(put.elem, i, put.start - piece.from)
                  linked == Released(LinkSiblings(moved, parent, put.before, i), {virtual})
              IN  /\ "bare" \in Unguarded \/ i /= 0
                  /\ "tag soup" \in Unguarded \/ ~parsed.ill
                  /\ LinesFit(parent, piece.whole)
                  /\ Change(put)
                  /\ elem' = x_Adjust(linked, parsed.elem[i].iElemPrev, Growth(put), TRUE)
                  /\ IF child THEN x_SetPos(m_iPosParent, parent, i) ELSE x_SetPos(m_iPosParent, i, 0)
        /\ told' = Told(parent :> [told[parent] EXCEPT !.data = UNKNOWN])
        /\ UNCHANGED slot

(* The new elements are now those in i.                                    *)
Adopted(e, i, child, virtual) ==
    LET all == Range(Siblings(e, child))
    IN  [j \in DOMAIN e |->
            IF j = virtual THEN Deleted
            ELSE IF j = i THEN [e[j] EXCEPT !.iElemChild = child]
            ELSE IF j \in all THEN [e[j] EXCEPT !.iElemParent = i]
            ELSE e[j]]

x_SetElemContent(text) ==
    LET i       == m_iPos
        virtual == x_GetFreePos(elem)
    IN  /\ i /= 0 /\ m_nNodeLength = 0
        /\ Editing
        /\ \E old \in {UNION {Subtree(elem, j) : j \in Range(Siblings(elem, elem[i].iElemChild))}} :
           \E parsed \in {x_ParseElem(WithElem(Released(elem, old), VirtualParent), virtual, text)} :
           \E put \in {x_InsertNew(parsed.elem, m_strDoc, i, 0, Replacing(text))} :
              LET moved == IF parsed.root = 0 THEN [put.elem EXCEPT ![0].nStart = @ + put.start]
                           ELSE MovedTo(put.elem, parsed.root, put.start)
                  longer == x_Adjust(Adopted(moved, i, parsed.root, virtual), i, Growth(put), TRUE)
              IN  /\ "bare" \in Unguarded \/ parsed.root /= 0
                  /\ "tag soup" \in Unguarded \/ ~parsed.ill
                  /\ Change(put)
                  /\ elem' = [longer EXCEPT ![i].nLength = @ + Growth(put)]
                  /\ IF elem[i].iElemChild /= 0 THEN x_CheckSavedPos(Released(elem, old)) ELSE UNCHANGED slot
                  /\ told' = Told([j \in old |-> Unknown] @@ (i :> [told[i] EXCEPT !.data = UNKNOWN]))
        /\ x_SetPos(m_iPosParent, m_iPos, 0)

-----------------------------------------------------------------------------
(* The text of a node; a CDATA section cannot hold its own end.            *)
NodeFits(type, data) == type = "cdata" => \A k \in DOMAIN data : ~EndsAt(data, k)

x_CreateNode(type, data) ==
    CASE type = "pi" -> <<"<", "?">> \o data \o <<"?", ">">>
      [] type = "comment" -> <<"<", "!", "-", "-">> \o data \o <<"-", "-", ">">>
      [] type = "element" -> <<"<">> \o data \o <<"/", ">">>
      [] type \in {"text", "whitespace"} -> EscapeText(data, FALSE)
      [] type = "cdata" -> CDATA \o data \o CDEND
      [] type = "lone end tag" -> <<"<", "/">> \o data \o <<">">>
      [] type = "error" -> <<>>

(* AddNode and InsertNode.                                                 *)
x_AddNode(type, data, insert) ==
    LET nolines == type \notin {"pi", "comment"}
        text    == x_CreateNode(type, data)
        new     == x_GetFreePos(elem)
        New(start) == ElemPos(m_iPosParent, start, Len(text), Len(text), 0)
    IN  /\ NodeFits(type, data) /\ LinesFit(m_iPosParent, nolines)
        /\ Editing
        /\ \E put \in {x_InsertNew(elem, m_strDoc, m_iPosParent, m_iPos,
                                    AtNode(NewNode(text, insert, nolines)))} :
              /\ Change(put)
              /\ IF type = "element"
                 THEN /\ elem' = x_AdjustForNode(
                                    x_LinkElem(WithElem(put.elem, New(put.start)), m_iPosParent, put.before, new),
                                    m_iPosParent, new, Growth(put))
                      /\ m_iPos' = new /\ m_nNodeOffset' = 0 /\ m_nNodeLength' = 0
                 ELSE /\ elem' = x_AdjustForNode(put.elem, m_iPosParent, put.before, Growth(put))
                      /\ m_iPos' = put.before /\ m_nNodeOffset' = put.start /\ m_nNodeLength' = Len(text)
        /\ m_iPosChild' = 0 /\ m_nNodeType' = type
        /\ told' = Told(m_iPosParent :> [told[m_iPosParent] EXCEPT !.data = UNKNOWN])
        /\ UNCHANGED <<m_iPosParent, slot>>

(* The node before one at n: from the end of the element before, or the
   beginning of the parent's content, to n.                                *)
RECURSIVE NodeBefore(_, _, _)
NodeBefore(k, n, last) ==
    IF k >= n THEN last
    ELSE LET node == ParseNode(m_strDoc, k)
         IN  NodeBefore(k + node.length, n, [at |-> k, type |-> node.type])

x_RemoveNode ==
    LET isElem == m_nNodeType = "element"
        start  == IF isElem THEN elem[m_iPos].nStart ELSE m_nNodeOffset
        length == IF isElem THEN elem[m_iPos].nLength ELSE m_nNodeLength
    IN  /\ x_DocChange(start, length, <<>>)
        /\ \E cut \in {IF isElem THEN x_UnlinkElem(elem, m_iPos) ELSE [elem |-> elem, prev |-> m_iPos]} :
           \E from \in {IF cut.prev /= 0 THEN StartAfter(elem[cut.prev])
                        ELSE IF m_iPosParent /= 0 THEN StartContent(elem[m_iPosParent]) ELSE 0} :
           \E before \in {NodeBefore(from, start, [at |-> from, type |-> "none"])} :
              /\ elem' = x_AdjustForNode(cut.elem, m_iPosParent, cut.prev, 0 - length)
              /\ m_nNodeType' = (IF before.at = start /\ cut.prev /= 0 THEN "element" ELSE before.type)
              /\ m_nNodeOffset' = (IF before.at = start THEN 0 ELSE before.at)
              /\ m_nNodeLength' = start - before.at
              /\ m_iPos' = cut.prev
              /\ IF isElem THEN x_CheckSavedPos(cut.elem) ELSE UNCHANGED slot
        /\ told' = Told((m_iPosParent :> [told[m_iPosParent] EXCEPT !.data = UNKNOWN])
                        @@ (IF isElem THEN [j \in Subtree(elem, m_iPos) |-> Unknown] ELSE <<>>))
        /\ UNCHANGED m_iPosParent

RemoveNode ==
    /\ m_iPos /= 0 \/ m_nNodeLength > 0
    /\ Editing
    /\ x_RemoveNode
    /\ m_iPosChild' = 0

(* RemoveElem and RemoveChildElem take the blanks up to the next tag along. *)
x_RemoveElem(i) ==
    \E length \in {WhitespaceToTag(m_strDoc, StartAfter(elem[i])) - elem[i].nStart} :
    \E cut \in {x_UnlinkElem(x_Adjust(elem, i, 0 - length, TRUE), i)} :
        /\ x_DocChange(elem[i].nStart, length, <<>>)
        /\ elem' = cut.elem
        /\ IF i = m_iPos THEN x_SetPos(m_iPosParent, cut.prev, 0)
           ELSE x_SetPos(m_iPosParent, m_iPos, cut.prev)
        /\ x_CheckSavedPos(cut.elem)
        /\ told' = Told([j \in Subtree(elem, i) |-> Unknown])

RemoveElem      == m_iPos /= 0 /\ m_nNodeType = "element" /\ Editing /\ x_RemoveElem(m_iPos)
RemoveChildElem == m_iPosChild /= 0 /\ Editing /\ x_RemoveElem(m_iPosChild)

-----------------------------------------------------------------------------
(* SetData of the main position, an element or another node, and
   SetChildData.                                                           *)
SetNodeData(data) ==
    LET text  == x_CreateNode(m_nNodeType, data)
        shift == Len(text) - m_nNodeLength
    IN  /\ NodeFits(m_nNodeType, data)
        /\ x_DocChange(m_nNodeOffset, m_nNodeLength, text)
        /\ elem' = x_AdjustForNode(elem, m_iPosParent, m_iPos, shift)
        /\ m_nNodeLength' = Len(text)
        /\ told' = Told(m_iPosParent :> [told[m_iPosParent] EXCEPT !.data = UNKNOWN])
        /\ UNCHANGED <<m_iPosParent, m_iPos, m_iPosChild, m_nNodeType, m_nNodeOffset, slot>>

SetElemData(i, data, cdata) ==
    /\ i /= 0 /\ elem[i].iElemChild = 0
    /\ \E put \in {x_InsertNew(elem, m_strDoc, i, 0, Replacing(Encoded(data, cdata)))} :
          /\ Change(put)
          /\ elem' = [x_Adjust(put.elem, i, Growth(put), FALSE) EXCEPT ![i].nLength = @ + Growth(put)]
    /\ told' = Told(i :> [told[i] EXCEPT !.data = data])
    /\ UNCHANGED <<pos, slot>>

SetData(data, cdata) ==
    Editing /\ IF m_nNodeLength > 0 THEN SetNodeData(data) ELSE SetElemData(m_iPos, data, cdata)
SetChildData(data, cdata) ==
    Editing /\ m_iPosChild /= 0 /\ SetElemData(m_iPosChild, data, cdata)

(* SetAttrib and SetChildAttrib, of an element or a processing instruction. *)
x_SetAttrib(i, attrib, data) ==
    LET isElem == i /= 0 /\ m_nNodeType = "element"
        start  == IF isElem THEN elem[i].nStart + 1 ELSE m_nNodeOffset + 2
        stop   == IF isElem THEN StartContent(elem[i]) - 1 ELSE m_nNodeOffset + m_nNodeLength - 1
        value  == <<Quote>> \o EscapeText(data, TRUE) \o <<Quote>>
    IN  /\ isElem \/ (i = m_iPos /\ m_nNodeLength > 0 /\ m_nNodeType = "pi")
        /\ Editing
        /\ \E there \in {FindAttrib(m_strDoc, start, attrib, stop)} :
           \E text \in {IF there.found THEN value ELSE <<" ">> \o attrib \o <<"=">> \o value} :
           \E replaced \in {IF there.found THEN there.length + 2 ELSE 0} :
              LET shift == Len(text) - replaced
              IN  /\ x_DocChange(IF there.found THEN there.left - 1 ELSE there.left, replaced, text)
                  /\ IF isElem
                     THEN /\ elem' = x_Adjust([elem EXCEPT ![i].nStartTagLen = @ + shift, ![i].nLength = @ + shift],
                                              i, shift, FALSE)
                          /\ told' = Told(i :> [told[i] EXCEPT !.attrib = data])
                          /\ UNCHANGED pos
                     ELSE /\ elem' = x_AdjustForNode(elem, m_iPosParent, m_iPos, shift)
                          /\ m_nNodeLength' = m_nNodeLength + shift
                          /\ UNCHANGED <<m_iPosParent, m_iPos, m_iPosChild, m_nNodeType, m_nNodeOffset, told>>
        /\ UNCHANGED slot

-----------------------------------------------------------------------------
(* A name has one entry, the first free one; a full slot grows.            *)
SavePos(name) ==
    LET saved == [name |-> name,
                  pos  |-> IF m_iPosChild /= 0 THEN m_iPosChild
                           ELSE IF m_iPos /= 0 THEN m_iPos ELSE m_iPosParent,
                  kind |-> IF m_iPosChild /= 0 THEN "child" ELSE IF m_iPos /= 0 THEN "main" ELSE "parent"]
        table == IF slot = <<>> THEN <<UNUSED, UNUSED>> ELSE slot
        at    == Min({k \in DOMAIN table : table[k] = UNUSED \/ table[k].name = name} \cup {Len(table) + 1})
        grown == IF at <= Len(table) THEN table
                 ELSE [k \in 1..((Len(table) + 5) * 2) |-> IF k <= Len(table) THEN table[k] ELSE UNUSED]
    IN  /\ Editing
        /\ slot' = [grown EXCEPT ![at] = saved]
        /\ UNCHANGED <<m_strDoc, elem, pos, told>>

RestorePos(name) ==
    \E k \in DOMAIN slot :
        /\ slot[k] /= UNUSED /\ slot[k].name = name
        /\ \A j \in 1..(k - 1) : slot[j] /= UNUSED /\ slot[j].name /= name
        /\ LET i == slot[k].pos
           IN  CASE slot[k].kind = "child" ->
                      x_SetPos(elem[elem[i].iElemParent].iElemParent, elem[i].iElemParent, i)
                 [] slot[k].kind = "main" -> x_SetPos(elem[i].iElemParent, i, 0)
                 [] slot[k].kind = "parent" -> x_SetPos(i, 0, 0)
        /\ Still

-----------------------------------------------------------------------------
Name == {<<"a">>, <<"b">>}

Navigate ==
    \/ \E name \in Name \cup {<<>>} : FindElem(name) \/ FindChildElem(name)
    \/ IntoElem \/ OutOfElem \/ ResetChildPos \/ ResetMainPos \/ ResetPos
    \/ \E type \in NodeType \cup {"any"} : FindNode(type)
    \/ \E name \in PosName : RestorePos(name)

(* An element without end tag is not put into one of its name.             *)
NotWithin(name, i) ==
    \A j \in {i} \cup Around(elem, i) : j /= 0 => NameAt(m_strDoc, elem[j].nStart + 1) /= name

Edit ==
    \/ \E name \in Tag, data \in Data, insert, child, nolines \in BOOLEAN :
          \E cdata \in IF data = <<>> THEN {FALSE} ELSE BOOLEAN :
             x_AddElem(name, data, insert, child, nolines, FALSE, cdata)
    \/ \E name \in NoEnd, insert, child, nolines \in BOOLEAN :
          /\ NotWithin(name, IF child THEN m_iPos ELSE m_iPosParent)
          /\ x_AddElem(name, <<>>, insert, child, nolines, TRUE, FALSE)
    \/ \E text \in SubDoc, insert, child \in BOOLEAN : x_AddSubDoc(text, insert, child)
    \/ \E text \in Content : x_SetElemContent(text)
    \/ \E type \in NodeType, insert \in BOOLEAN :
          \E data \in IF type \in {"element", "comment", "pi"} THEN {<<"b">>} ELSE Data \ {<<>>} :
             x_AddNode(type, data, insert)
    \/ RemoveNode \/ RemoveElem \/ RemoveChildElem
    \/ \E data \in Data, cdata \in BOOLEAN : SetData(data, cdata) \/ SetChildData(data, cdata)
    \/ \E data \in Data : x_SetAttrib(m_iPos, <<"b">>, data) \/ x_SetAttrib(m_iPosChild, <<"b">>, data)
    \/ \E name \in PosName : SavePos(name)

Next == (calls < MaxCalls /\ Navigate) \/ Edit

Spec == Init /\ [][Next]_vars

-----------------------------------------------------------------------------
(* What the caller reads.  An attribute has a value, in a start tag as in a
   processing instruction.                                                 *)
x_GetTagName(i) == IF i = 0 THEN <<>> ELSE NameAt(m_strDoc, elem[i].nStart + 1)

GetTagName ==
    IF m_nNodeLength = 0 THEN x_GetTagName(m_iPos)
    ELSE CASE m_nNodeType \in {"pi", "lone end tag"} -> NameAt(m_strDoc, m_nNodeOffset + 2)
           [] m_nNodeType = "comment" -> <<"#comment">>
           [] m_nNodeType = "cdata" -> <<"#cdata-section">>
           [] m_nNodeType \in {"text", "whitespace"} -> <<"#text">>
           [] OTHER -> <<>>

(* The names of the attributes between n and stop, in order.               *)
AttribNames(n, stop) ==
    LET Ends(k) == Until(m_strDoc, k, Special)
        at == {k \in (n + 1)..stop : /\ At(m_strDoc, k - 1) \in White /\ Ends(k) > k
                                     /\ Slice(m_strDoc, Ends(k), 2) = <<"=", Quote>>}
        inOrder == SetToSortSeq(at, <)
    IN  [k \in DOMAIN inOrder |-> Slice(m_strDoc, inOrder[k], Ends(inOrder[k]) - inOrder[k])]

GetAttribName(n) ==
    LET isElem == m_iPos /= 0 /\ m_nNodeType = "element"
        names  == IF isElem THEN AttribNames(elem[m_iPos].nStart + 1, StartContent(elem[m_iPos]) - 1)
                  ELSE IF m_nNodeLength > 0 /\ m_nNodeType = "pi"
                  THEN AttribNames(m_nNodeOffset + 2, m_nNodeOffset + m_nNodeLength - 1)
                  ELSE <<>>
    IN  IF n + 1 \in DOMAIN names THEN names[n + 1] ELSE <<>>

(* After any edits the table is what reading the text afresh would give
   (Markup.cpp:4588-4640, 4644-4790).                                      *)
TableIsOfText ==
    LET parsed == x_ParseDoc(m_strDoc)
    IN  /\ Shape(elem, 0) = Shape(parsed.elem, 0)
        /\ elem[0].nStart = 0 /\ elem[0].nLength = Len(m_strDoc)

(* The links agree: of each element's children the first says so and names
   the last, every other its predecessor (Markup.cpp:5083-5172).           *)
LinksAgree ==
    \A i \in DOMAIN elem : ~elem[i].deleted =>
        LET children == Siblings(elem, elem[i].iElemChild)
        IN  \A k \in DOMAIN children :
                LET e == elem[children[k]]
                IN  /\ ~e.deleted /\ e.iElemParent = i /\ (e.first <=> k = 1)
                    /\ e.iElemPrev = children[IF k = 1 THEN Len(children) ELSE k - 1]

(* No position, current or saved, is of a deleted element; the main one is a
   child of the parent, the child one of the main one (Markup.cpp:5226-5270). *)
PositionsLive ==
    /\ \A i \in {m_iPosParent, m_iPos, m_iPosChild} : i \in DOMAIN elem /\ ~elem[i].deleted
    /\ m_iPos /= 0 => elem[m_iPos].iElemParent = m_iPosParent
    /\ m_iPosChild /= 0 => elem[m_iPosChild].iElemParent = m_iPos
    /\ \A k \in DOMAIN slot : slot[k] /= UNUSED =>
          /\ ~elem[slot[k].pos].deleted
          /\ \A j \in 1..(k - 1) : slot[j] /= UNUSED /\ slot[j].name /= slot[k].name

x_GetData(i) ==
    LET content == Slice(m_strDoc, StartContent(elem[i]), ContentLen(elem[i]))
        nodes   == NodesFrom(content, 0)
        Text(n) == CASE n.type = "text" -> UnescapeText(Slice(content, n.start, n.length))
                     [] n.type = "cdata" -> Slice(content, n.start + 9, n.length - 12)
                     [] OTHER -> <<>>
    IN  IF elem[i].iElemChild /= 0 \/ IsEmptyElement(elem[i]) THEN <<>>
        ELSE IF \A k \in DOMAIN content : content[k] /= "<" THEN UnescapeText(content)
        ELSE FoldLeft(LAMBDA text, n : text \o Text(n), <<>>, nodes)

x_GetAttrib(i) ==
    LET there == FindAttrib(m_strDoc, elem[i].nStart + 1, <<"b">>, StartContent(elem[i]) - 1)
    IN  IF there.found THEN UnescapeText(Slice(m_strDoc, there.left, there.length)) ELSE <<>>

(* What the caller put into an element is there, whatever was changed
   elsewhere, in the document and in writing of any kind
   (Markup.cpp:4349-4420, 4423-4500).                                      *)
DataSurvives ==
    \A i \in DOMAIN elem : i /= 0 /\ ~elem[i].deleted =>
        /\ told[i].data \in {UNKNOWN, x_GetData(i)}
        /\ told[i].attrib \in {UNKNOWN, x_GetAttrib(i)}

(* The main position's node is there, whole and of the kind said, but for
   characters, which others may have joined and SetData changed; the tags of
   an element have one name; and no attribute is there twice
   (Markup.cpp:3483-3565, 3581-3666, 4222-4302).                           *)
NamesRight ==
    /\ m_nNodeLength > 0 => LET node == ParseNode(m_strDoc, m_nNodeOffset)
                            IN  \/ node.type = m_nNodeType /\ node.length = m_nNodeLength
                                \/ /\ {node.type, m_nNodeType} \subseteq {"text", "whitespace"}
                                   /\ node.length >= m_nNodeLength
    /\ \A i \in DOMAIN elem : i /= 0 /\ elem[i].nEndTagLen > 0 =>
          x_GetTagName(i) = NameAt(m_strDoc, StartAfter(elem[i]) - elem[i].nEndTagLen + 2)
    /\ m_nNodeLength = 0 => GetTagName = x_GetTagName(m_iPos)
    /\ \A j, k \in 0..3 : GetAttribName(j) = GetAttribName(k) /\ GetAttribName(j) /= <<>> => j = k

(* A text is said to be well-formed when its tags are nested and there is one
   element around all others (Markup.cpp:2616-2631).                       *)
RECURSIVE Nested(_)
Nested(tags) ==
    LET ends == {k \in DOMAIN tags : tags[k].type = "endTag"}
        k    == Min(ends)
    IN  IF ends = {} \/ k = 1 THEN tags = <<>>
        ELSE tags[k - 1].name = tags[k].name /\ Nested(SubSeq(tags, 1, k - 2) \o SubSeq(tags, k + 1, Len(tags)))

WellFormedIsNested ==
    LET nodes   == NodesFrom(m_strDoc, 0)
        starts  == {k \in DOMAIN nodes : nodes[k].type = "element"}
        Depth(k) == Cardinality({j \in starts : j < k /\ ~nodes[j].empty})
                    - Cardinality({j \in DOMAIN nodes : j < k /\ nodes[j].type = "endTag"})
        tags    == SelectSeq(nodes, LAMBDA node : node.type = "endTag" \/ (node.type = "element" /\ ~node.empty))
    IN  IsWellFormed(x_ParseDoc(m_strDoc))
        <=> /\ \A k \in DOMAIN nodes : nodes[k].type /= "bad"
            /\ Nested(tags)
            /\ Cardinality({k \in starts : Depth(k) = 0}) = 1
===============================================================================
