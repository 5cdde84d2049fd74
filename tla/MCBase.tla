-------------------------------- MODULE MCBase --------------------------------
(***************************************************************************)
(* Small instances of the sequential parts of src/base: TBuff, CString,    *)
(* Wildcard, Replace and Trim of CUtility, CTime and CTimeSpan (what they  *)
(* compute and what they show), CIPFinder, CFileEx, cJSON (its tree and    *)
(* its texts), CBHXml and CMarkup (documents, the files they are kept in,  *)
(* the elements' storage and paths).  They share nothing, so a behaviour   *)
(* is one part's, chosen at the start: while it is not TBuff the buffers   *)
(* stay as constructed, and the other parts keep their variables in x1, x2 *)
(* ... in the order the instances give, which hold IDLE when not used.     *)
(***************************************************************************)
EXTENDS TBuff, MCTools, Calendar

CONSTANTS
    Letter, STAR, ANYONE, Len1, Len2,                       \* Wildcard
    SPACE, LenStr, LenFind, LenReplacement, MinFind, IntBits,   \* Replace
    FRANCE, BEIJING, TELECOM, LAT, LNG,                     \* CIPFinder
    LeapCase,                                               \* Time
    Str,                                                    \* CString
    NONE, NULL, MaxItems, Key, MaxArray                     \* cJSON

above5  == <<x6, x7, x8, x9, x10, x11, x12>>
above6  == <<x7, x8, x9, x10, x11, x12>>
above7  == <<x8, x9, x10, x11, x12>>
allVars == <<part, vars, slots>>

(* Sixteen addresses, four to a prefix; up to three ranges, which end with,
   before and after a prefix.                                              *)
LastOfRange == {0, 3, 4, 6, 7, 11, 12, 15}
FieldsAt(x) ==
    CASE x % 5 = 0 -> <<CHINA, BEIJING, EMPTY, EMPTY, TELECOM, LAT, LNG>>
      [] x % 5 = 1 -> <<FRANCE, EMPTY, EMPTY, TELECOM, EMPTY, LAT, EMPTY>>
      [] x % 5 = 2 -> <<LAN, LAN, EMPTY, EMPTY, EMPTY, EMPTY, EMPTY>>
      [] x % 5 = 3 -> <<CHINA, EMPTY, EMPTY, EMPTY, EMPTY, EMPTY, EMPTY>>
      [] x % 5 = 4 -> <<RESERVED, RESERVED, EMPTY, TELECOM, TELECOM, EMPTY, LNG>>
Record(x) == [last |-> x, fields |-> FieldsAt(x)]
UpToThree ==
    {<<Record(x)>> : x \in LastOfRange}
    \cup {<<Record(x), Record(y)>> : <<x, y>> \in {z \in LastOfRange \X LastOfRange : z[1] < z[2]}}
    \cup {<<Record(z[1]), Record(z[2]), Record(z[3])>> :
             z \in {z \in LastOfRange \X LastOfRange \X LastOfRange : z[1] < z[2] /\ z[2] < z[3]}}

(* The first and the 28th of every month of a leap year, and of the months
   around the ends of February and of the year in years of every kind.     *)
Dates == {<<2000, mon, d>> : mon \in 1..12, d \in {1, 28}}
         \cup {<<y, mon, d>> : y \in LeapCase, mon \in {1, 2, 3, 12}, d \in {1, 28}}

W == INSTANCE Wildcard WITH
    pc <- x1, str1 <- x2, str2 <- x3, i <- x4, j <- x5, k <- x6, l <- x7, m <- x8, n <- x9,
    result <- x10
R == INSTANCE Replace WITH
    pc <- x1, str <- x2, find <- x3, replacement <- x4, pos <- x5, given <- x6, n <- x7

(* What the parts of MCTools are about; CIPFinder looks up four bits.      *)
Midnights   == {<<1900, 1, 1>>, <<2000, 2, 28>>}
TimesOfDay  == {<<0, 0, 0>>, <<23, 59, 59>>}
SpansGiven  == {<<0, 0, 0, 1>>, <<1, 0, 0, 0>>, <<2, 13, 46, 40>>, <<365, 23, 59, 59>>}
Clocks      == {<<<<2000, 2, 29>>, <<12, 0, 59>>>>}
FormatTexts == {<<>>, <<"x">>, <<"a", "A", "b", "B", "d", "H", "I">>,
                <<"j", "m", "M", "p", "S", "w", "Y">>, [k \in 1..8 |-> "x"]}
Nibbles     == [1..4 -> 0..1]
Quads       == Nibbles \cup {<<2, 0, 0, 1>>, <<-1, 0, 0, 0>>, <<0, 3, 0, 0>>, <<0, -1, 1, 0>>,
                            <<1, -1, 0, 1>>, <<0, 1, 3, -1>>}
Arguments   == {<<>>, <<SEP>>, <<DOT>>, <<"b">>, <<"a", SEP>>, <<"c:">>, <<"a", SEP, "b">>, <<SEP, "a">>,
                <<SEP, "a", SEP, "b">>}
OneTree     == {<<{<<>>, <<"a">>, <<"a", "a">>, <<"a", "a", "a">>}, {<<"a", "b">>}>>}

ASSUME TextConstants == W!Alphabet /\ W!LengthBounds /\ R!LengthBounds

(* Texts of up to three lexemes of JSON, and some longer ones.             *)
Quote == 34
Lexeme == {<<91>>, <<93>>, <<123>>, <<125>>, <<58>>, <<44>>, <<32>>, <<10>>, <<49>>, <<45, 49>>,
           <<110, 117, 108, 108>>, <<Quote, 97, Quote>>, <<Quote, Quote>>, <<Quote>>, <<92>>,
           <<47, 42>>, <<47, 47>>}
LongText == {
    <<Quote, 92, 117, 48, 48, 51, 49, Quote>>,
    <<Quote, 92, 117, 100, 56, 48, 48, 92, 117, 100, 99, 48, 48, Quote>>,
    <<Quote, 92, 117, Quote, 32, 32, 32, 32, 97, 97, 97, 97, Quote>>,
    <<Quote, 92, 117, 49, 50, Quote, 51, 52, 120, Quote>>,
    <<Quote, 92, 117, 49, 50, 51, 92, 92, Quote>>,
    <<Quote, 92, 117, 122, 122, 49, 50, Quote>>,
    <<Quote, 92, 117, 100, 56, 48, 48, 92, 117, 122, 122, 49, 50, Quote>>,
    <<91, 49, 47, 42, Quote, 42, 47, 44, 50, 93>>, <<47, 42, 47, 49>>,
    <<Quote, 92, 110, 92, Quote, 92, 92, Quote>>,
    <<48, 49, 46, 53, 101, 45, 49>>,
    <<91, 91, 93, 44, 123, Quote, 97, Quote, 58, 32, 91, 49, 44, 50, 93, 125, 93>>}
JsonTexts == {FlattenSeq(x) : x \in UNION {[1..y -> Lexeme] : y \in 0..3}} \cup LongText

(* Items of every kind, arrays and objects of one and two, and three deep. *)
Leaf == {<<"null">>, <<"true">>, <<"num", 0, 0>>, <<"num", -12, 0>>, <<"str", <<>>>>,
         <<"str", <<97, Quote, 1, 10>>>>, <<"arr", <<>>>>, <<"obj", <<>>>>}
JsonKey == {<<>>, <<97, 92>>}
Shallow ==
    Leaf \cup {<<"arr", <<x>>>> : x \in Leaf} \cup {<<"arr", <<x, y>>>> : x, y \in Leaf}
    \cup {<<"obj", <<<<key, x>>>>>> : key \in JsonKey, x \in Leaf}
    \cup {<<"obj", <<<<key, x>>, <<key, y>>>>>> : key \in JsonKey, x, y \in Leaf}
JsonItems ==
    Shallow \cup {<<"arr", <<x>>>> : x \in Shallow}
    \cup {<<"obj", <<<<key, x>>, <<key, x>>>>>> : key \in JsonKey, x \in Shallow}

S == INSTANCE CString WITH
    m_pData <- x1, m_nLength <- x2, m_nAllocLength <- x3, writing <- x4, value <- x5,
    Text <- {<<97>>, <<66, 97>>}, MaxLength <- 2
J == INSTANCE JsonTree WITH
    alive <- x1, next <- x2, prev <- x3, child <- x4, container <- x5, isReference <- x6,
    stringIsConst <- x7, string <- x8, origin <- x9, roots <- x10, kids <- x11, lost <- x12
P == INSTANCE JsonText WITH
    pc <- x1, text <- x2, item <- x3, meaning <- x4, whole <- x5, fits <- x6, inside <- x7,
    calls <- x8,
    Texts <- JsonTexts, Items <- JsonItems, Prebuffers <- {1, 5, 64}, MaxCalls <- 3

Writer == INSTANCE BHXml WITH
    m_nBufSize <- x1, m_nPos <- x2, m_nStatus <- x3, m_nLayer <- x4, m_pElem <- x5, text <- x6,
    written <- x7, refused <- x8,
    Name <- {"a", "bcd", "abcdefg"},
    Size <- LAMBDA name : CASE name = "a" -> 1 [] name = "bcd" -> 3 [] name = "abcdefg" -> 7,
    AttribSize <- 3, DocSize <- 5, InitialSize <- 12, Reserved <- {20, 64},
    MAX_LAYER <- 3, MAX_ELEM_SIZE <- 7, MaxCalls <- 7

(* Documents: none; an empty element; elements on lines of their own; text,
   a comment and blanks around one; a processing instruction and a CDATA
   section; attributes; and an element without an end tag.                  *)
Documents == {
    <<>>,
    <<"<", "a", "/", ">">>,
    <<"<", "a", ">", "<", "b", "/", ">", "cr", "lf", "<", "b", ">", "x", "<", "/", "b", ">", "<", "/", "a", ">">>,
    <<"<", "a", ">", "x", "<", "!", "-", "-", "-", "-", ">", "<", "b", "/", ">", " ", "<", "/", "a", ">">>,
    <<"<", "?", "a", "?", ">", "<", "a", ">", "<", "!", "[", "C", "D", "A", "T", "A", "[", "<", "]", "]", ">",
      "&amp;", "<", "/", "a", ">">>,
    <<"<", "a", " ", "b", "=", "\"", ">", "\"", ">", "<", "b", " ", "a", "=", "\"", "\"", "/", ">",
      "<", "/", "a", " ", ">">>,
    <<"<", "a", ">", "<", "b", ">", "<", "/", "a", ">">>}
TwoChildren == <<"<", "a", ">", "<", "b", "/", ">", "x", "<", "b", "/", ">", "<", "/", "a", ">">>
OneChild    == <<"<", "a", ">", "<", "b", "/", ">", "<", "/", "a", ">">>
Nested      == <<"<", "b", ">", "<", "a", "/", ">", "<", "/", "b", ">">>

MarkupOnce == INSTANCE Markup WITH
    m_strDoc <- x1, elem <- x2, m_iPosParent <- x3, m_iPos <- x4, m_iPosChild <- x5,
    m_nNodeType <- x6, m_nNodeOffset <- x7, m_nNodeLength <- x8, slot <- x9, told <- x10, calls <- x11,
    Document <- Documents,
    SubDoc <- {Nested, <<" ", "<", "a", "/", ">", "x", "<", "b", "/", ">">>},
    Content <- {<<"x", "<", "b", ">", "<", "a", "/", ">", "<", "/", "b", ">", "<", "a", "/", ">">>},
    Tag <- {<<"a">>}, NoEnd <- {<<"p">>}, Data <- {<<>>, <<"x">>, <<"<", "]", "]", ">">>},
    NodeType <- {"element", "text", "comment", "cdata", "pi"},
    PosName <- {"p"}, Unguarded <- {}, MaxCalls <- 1
MarkupLate == INSTANCE Markup WITH
    m_strDoc <- x1, elem <- x2, m_iPosParent <- x3, m_iPos <- x4, m_iPosChild <- x5,
    m_nNodeType <- x6, m_nNodeOffset <- x7, m_nNodeLength <- x8, slot <- x9, told <- x10, calls <- x11,
    Document <- {TwoChildren}, SubDoc <- {Nested},
    Content <- {<<"x", "<", "b", "/", ">">>},
    Tag <- {<<"a">>}, NoEnd <- {<<"p">>}, Data <- {<<"<">>}, NodeType <- {"text"},
    PosName <- {"p"}, Unguarded <- {}, MaxCalls <- 2
MarkupSaved == INSTANCE Markup WITH
    m_strDoc <- x1, elem <- x2, m_iPosParent <- x3, m_iPos <- x4, m_iPosChild <- x5,
    m_nNodeType <- x6, m_nNodeOffset <- x7, m_nNodeLength <- x8, slot <- x9, told <- x10, calls <- x11,
    Document <- {OneChild}, SubDoc <- {}, Content <- {}, Tag <- {}, NoEnd <- {}, Data <- {},
    NodeType <- {}, PosName <- {"p", "q"}, Unguarded <- {}, MaxCalls <- 4

(* Texts with and without a declaration, in an html head and past it, of
   markup and not, with characters that GB2312 does not have (233 and 65536)
   and with nulls.                                                         *)
Wei   == 20026
Zhong == 20013
FileTexts == {
    <<>>, <<97, Wei>>, <<60, 97, Zhong, Wei>>, <<60, 233, Wei>>, <<60, 65536, 97>>, <<1, 0, 97>>,
    <<2, 0, Wei, 0, 0, 97>>, <<3, Wei>>, <<4, Wei>>, <<5, 6, Wei>>, <<5, 8, 7, Wei>>, <<60, 7, Wei>>}
FileFlags == {{}, {"MDF_UTF16LEFILE"}, {"MDF_UTF16BEFILE"}, {"MDF_UTF8PREAMBLE"}}

XmlFile == INSTANCE MarkupFile WITH
    sameConverts <- x1, m_strDoc <- x2, parsed <- x3, m_nDocFlags <- x4, file <- x5, meant <- x6,
    meantFlags <- x7, own <- x8, last <- x9, stale <- x10, answer <- x11, calls <- x12,
    Document <- FileTexts, DocFlags <- FileFlags, MayFail <- {"open", "read", "write"},
    Unguarded <- {}, MaxCalls <- 3

Store == INSTANCE MarkupStore WITH
    tree <- x1, m_iPosFree <- x2, maps <- x3, elems <- x4, saved <- x5, calls <- x6,
    Doc <- {"m", "n"}, SegSize <- 4, MinSize <- 2, ParseSizes <- {2, 11}, PosName <- {},
    Hash <- <<>>, MapSizes <- {}, MaxMap <- 0, MaxElems <- 11, MaxCalls <- 2, JUNK <- NONE
StoreMaps == INSTANCE MarkupStore WITH
    tree <- x1, m_iPosFree <- x2, maps <- x3, elems <- x4, saved <- x5, calls <- x6,
    Doc <- {"m", "n"}, SegSize <- 4, MinSize <- 2, ParseSizes <- {2}, PosName <- {"p", "q"},
    Hash <- [name \in {"p", "q"} |-> IF name = "p" THEN 1 ELSE 3],
    MapSizes <- {2, 3}, MaxMap <- 1, MaxElems <- 2, MaxCalls <- 3, JUNK <- NONE

(* Every path of three symbols, words, predicates, values and slashes.     *)
PathParts ==
    {<<x>> : x \in {"a", "A", "b", "U", "1", "0", "/", "[", "]", "@", "=", "'", "\""}}
    \cup {<<"[", "1", "]">>, <<"/", "/">>, <<"[", "@", "a", "=">>, <<"'", "/", "]", "'">>}
XmlPath == INSTANCE MarkupPath WITH
    path <- x1, names <- x2, ignoreCase <- x3, before <- x4, iPos <- x5, told <- x6, calls <- x7,
    Paths <- {x \o y \o z : x, y, z \in PathParts \cup {<<>>}},
    Siblings <- {<<<<"A">>, <<"b">>, <<"a">>, <<"a", "b">>>>},
    Upper <- [x \in {"a", "b"} |-> IF x = "a" THEN "A" ELSE "B"], NonAscii <- {"U"}, MaxCalls <- 3

ASSUME XmlConstants == Writer!Sizes /\ XmlFile!Failures /\ XmlFile!FileBounds
ASSUME StoreConstants == Store!StoreSizes /\ StoreMaps!StoreSizes /\ XmlPath!PathBounds
ASSUME StringConstants == S!TextsAreStrings /\ S!LengthBound
ASSUME JsonConstants == J!Bounds /\ J!NullIsNoItem /\ P!Bounds

NoBuffer ==
    /\ m_nReserved = [b \in Buff |-> MIN_RESERVED] /\ m_nSize = [b \in Buff |-> 0]
    /\ block = m_nReserved /\ mem = [b \in Buff |-> Fill(MIN_RESERVED, GARBAGE)]
    /\ vec = [b \in Buff |-> <<>>]
Idle10 == x11 = IDLE /\ x12 = IDLE
Idle8  == x9 = IDLE /\ x10 = IDLE /\ Idle10
Idle7  == x8 = IDLE /\ Idle8
Idle6  == x7 = IDLE /\ Idle7
Idle5  == x6 = IDLE /\ Idle6
Idle0  == x1 = IDLE /\ x2 = IDLE /\ x3 = IDLE /\ x4 = IDLE /\ x5 = IDLE /\ Idle5

AnyInit ==
    \/ part = "buffer" /\ Init /\ Idle0
    \/ /\ NoBuffer
       /\ \/ part = "wildcard" /\ W!Init /\ Idle10
          \/ part = "replace" /\ R!Init /\ Idle7
          \/ part = "finder" /\ F!Init /\ x12 = IDLE
          \/ part = "time" /\ C!Init /\ Idle8
          \/ part = "string" /\ S!Init /\ Idle5
          \/ part = "tree" /\ J!Init
          \/ part = "files" /\ Folder!Init
          \/ part = "fields" /\ Shown!Init /\ Idle10
          \/ part = "json" /\ P!Init /\ Idle8
          \/ part = "writer" /\ Writer!Init /\ Idle8
          \/ part = "markup" /\ MarkupOnce!Init /\ x12 = IDLE
          \/ part = "markupLate" /\ MarkupLate!Init /\ x12 = IDLE
          \/ part = "markupSaved" /\ MarkupSaved!Init /\ x12 = IDLE
          \/ part = "xmlFile" /\ XmlFile!Init
          \/ part = "store" /\ Store!Init /\ Idle6
          \/ part = "storeMaps" /\ StoreMaps!Init /\ Idle6
          \/ part = "path" /\ XmlPath!Init /\ Idle7

Of(p) == part = p /\ UNCHANGED <<part, vars>>
BufferStep      == part = "buffer" /\ Next /\ UNCHANGED <<part, slots>>
WildcardStep(A) == Of("wildcard") /\ A /\ UNCHANGED above10
ReplaceStep(A)  == Of("replace") /\ A /\ UNCHANGED above7
FinderStep(A)   == Of("finder") /\ A /\ UNCHANGED x12
TimeStep(A)     == Of("time") /\ A /\ UNCHANGED above8
StringStep(A)   == Of("string") /\ A /\ UNCHANGED above5
FieldsStep(A)   == Of("fields") /\ A /\ UNCHANGED above10
FileStep(A)     == Of("files") /\ A
TreeStep(A)     == Of("tree") /\ A
JsonStep(A)     == Of("json") /\ A /\ UNCHANGED above8
WriterStep(A)   == Of("writer") /\ A /\ UNCHANGED above8
MarkupStep(p, A) == Of(p) /\ A /\ UNCHANGED x12
XmlFileStep(A)  == Of("xmlFile") /\ A
StoreStep(p, A) == Of(p) /\ A /\ UNCHANGED above6
PathStep(A)     == Of("path") /\ A /\ UNCHANGED above7

AnyNext ==
    \/ BufferStep
    \/ WildcardStep(W!Outer) \/ WildcardStep(W!SkipStar) \/ WildcardStep(W!BeginSegment)
    \/ WildcardStep(W!MatchOne) \/ WildcardStep(W!Mismatch) \/ WildcardStep(W!EndSegment)
    \/ ReplaceStep(R!Search) \/ ReplaceStep(R!Found)
    \/ ReplaceStep(R!TrimFront) \/ ReplaceStep(R!TrimBack)
    \/ \E f \in Finder : FinderStep(F!Construct(f)) \/ FinderStep(F!Destroy(f))
    \/ \E a \in Addresses \cup {NoAddress} : FinderStep(F!Find(a))
    \/ FinderStep(F!Scan) \/ FinderStep(F!Parse)
    \/ FinderStep(F!GetISPInfo) \/ FinderStep(F!GetLatLngInfo)
    \/ FinderStep(F!ParseLocation) \/ FinderStep(F!Done)
    \/ TimeStep(C!Add) \/ TimeStep(C!Subtract) \/ TimeStep(C!Difference) \/ TimeStep(C!Assign)
    \/ TimeStep(C!FindPercent) \/ TimeStep(C!ReplacePercent)
    \/ FieldsStep(Shown!Next) \/ FileStep(Folder!Next)
    \/ StringStep(S!Next) \/ TreeStep(J!Next) \/ JsonStep(P!Next)
    \/ WriterStep(Writer!Next) \/ MarkupStep("markup", MarkupOnce!Next)
    \/ MarkupStep("markupLate", MarkupLate!Next) \/ MarkupStep("markupSaved", MarkupSaved!Next)
    \/ XmlFileStep(XmlFile!Next) \/ StoreStep("store", Store!Next)
    \/ StoreStep("storeMaps", StoreMaps!Next) \/ PathStep(XmlPath!Next)

(* A call of Wildcard, Replace, Trim or Format goes on until it returns.   *)
AnySpec ==
    /\ AnyInit /\ [][AnyNext]_allVars
    /\ WF_allVars(WildcardStep(W!Next)) /\ WF_allVars(ReplaceStep(R!Next))
    /\ WF_allVars(TimeStep(C!Format)) /\ WF_allVars(FieldsStep(Shown!Fill))

-----------------------------------------------------------------------------
(* Wildcard is right about every str1 that is not empty, and at every step
   what it has read matches; Replace exchanges and counts every occurrence,
   Trim takes the spaces at both ends and no more (Utility.cpp:56-130); a
   CString holds its value in its memory and compares by it (String.cpp).  *)
TextRight ==
    /\ part = "wildcard" => W!TypeOK /\ W!ReadMatches /\ W!RightUnlessEmpty
    /\ part = "replace" => R!TypeOK /\ R!ReplacedAll /\ R!Trimmed
    /\ part = "string" => S!HoldsValue /\ S!AnswersRight

(* cJSON's tree is what the caller made and frees every item and name once;
   what is printed is parsed to the same item, within the memory allocated
   for it and without reading past the text (cJSON.c).                     *)
JsonRight ==
    /\ part = "tree" => J!FreedOnce /\ J!ListIsSequence
    /\ part = "json" => P!ItemSurvives /\ P!MemoryIsEnough

(* What CBHXml writes is well-formed and within its buffer; CMarkup's table
   and links are those of its text, its positions stay alive, and data that
   was put in is read back; what it saves it loads; its store keeps elements
   and positions while it grows and is copied, and a path finds the next
   element of its name (BHXml.cpp, Markup.cpp).                            *)
XmlRight ==
    /\ part = "writer" => Writer!WellFormed /\ Writer!WritesFit
    /\ part \in {"markup", "markupLate", "markupSaved"} =>
          /\ MarkupOnce!TableIsOfText /\ MarkupOnce!LinksAgree
          /\ MarkupOnce!PositionsLive /\ MarkupOnce!DataSurvives
          /\ MarkupOnce!NamesRight /\ MarkupOnce!WellFormedIsNested
    /\ part = "xmlFile" =>
          /\ XmlFile!LoadedAsMeant /\ XmlFile!FlagsOfFile
          /\ XmlFile!TableOfText /\ XmlFile!ConversionsRight
    /\ part = "store" => Store!IndexesAreInside /\ Store!ElementsStay
    /\ part = "storeMaps" => StoreMaps!ElementsStay /\ StoreMaps!PositionsRestored
    /\ part = "path" => XmlPath!PathsParsed /\ XmlPath!FindsNext

(* Wildcard's retries, Replace's search and that of CTimeSpan::Format come to
   an end, also when what is put in contains what is searched for, and
   CTime::Format's buffer grows to what fits or cannot be had.             *)
TextCallsEnd ==
    /\ <>(CASE part = "wildcard" -> W!Over [] part = "replace" -> R!Over
            [] part = "time" -> C!Over [] OTHER -> TRUE)
    /\ (part = "fields" /\ ~Shown!Over) ~> (part = "fields" /\ Shown!Over)
===============================================================================
