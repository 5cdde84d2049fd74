------------------------------- MODULE MarkupFile -------------------------------
(***************************************************************************)
(* Load and Save of CMarkup (src/base/Markup.cpp): the text in memory is   *)
(* GB2312, the file is in the encoding its byte order mark or its          *)
(* declaration names, and iconv is between them: UTF-8 and UTF-16 are      *)
(* converted by hand, and the rest through iconv, of which the model has   *)
(* GB2312 with a few of its characters and the "C" locale; with those      *)
(* between GBK and UTF-8 of CUtility (src/base/Utility.cpp).  Built with   *)
(* glibc (MARKUP_ICONV, char strings) on a little-endian host.             *)
(*                                                                         *)
(* Bytes and code points are numbers.  What the code reads an encoding     *)
(* from is one character each: 1 to 4 an XML declaration, 5 the element    *)
(* html, 6 and 7 a meta element with a charset, 8 the end of the head; "<" *)
(* (60) starts any other element.                                          *)
(***************************************************************************)
EXTENDS Integers, Sequences, SequencesExt, TLC

CONSTANTS
    Document,       \* texts the caller and others write, as code points
    DocFlags,       \* sets of flags the caller may set
    MayFail,        \* among "open", "read", "write", "close"
    Unguarded,      \* what the caller does not avoid: "other flag", "wide name"
    MaxCalls        \* bound: calls

VARIABLES
    sameConverts,   \* does iconv_open accept two equal names?
    m_strDoc,       \* the text in memory, bytes of GB2312
    parsed,         \* the text the table of elements was made of
    m_nDocFlags,    \* the flags of the file among LE, BE and PREAMBLE
    file,           \* the bytes of the file, or NOFILE
    meant,          \* the text the file stands for, bytes of GB2312, or UNKNOWN
    meantFlags,     \* the flags of its byte order mark
    own,            \* was it Save that wrote the file?
    last,           \* the last call, and whether it returned true
    stale,          \* has a Load failed, and the text not been set since?
    answer,         \* what a conversion gave, or NOTHING
    calls

vars == <<sameConverts, m_strDoc, parsed, m_nDocFlags, file, meant, meantFlags, own, last, stale,
          answer, calls>>

-----------------------------------------------------------------------------
(* The conversions; a UTF-16 buffer is its bytes, low byte first.          *)

MCD_ENC   == "GB2312"
Supported == {"UTF-8", "GB2312", "UTF-16", "UTF-16LE", "UTF-16BE", ""}

-----------------------------------------------------------------------------
(* By hand.                                                                *)

EncodeCharUTF8(c) ==
    IF c < 128 THEN <<c>>
    ELSE IF c < 2048 THEN <<192 + c \div 64, 128 + (c % 64)>>
    ELSE IF c < 65536 THEN <<224 + c \div 4096, 128 + ((c \div 64) % 64), 128 + (c % 64)>>
    ELSE <<240 + c \div 262144, 128 + ((c \div 4096) % 64), 128 + ((c \div 64) % 64), 128 + (c % 64)>>

EncodeCharUTF16(c) ==
    IF c < 65536 THEN <<c>>
    ELSE <<55296 + (c - 65536) \div 1024, 56320 + ((c - 65536) % 1024)>>

(* The code point at i, or -1, and how many bytes were taken.  A byte that
   continues a character is taken for the first of two.                    *)
ExtraChars(lead) ==
    IF lead < 128 THEN 0
    ELSE IF lead % 64 < 32 THEN 1
    ELSE IF lead % 32 < 16 THEN 2
    ELSE IF lead % 16 < 8 THEN 3 ELSE -1
High(lead) == <<lead, lead % 32, lead % 16, lead % 8>>[ExtraChars(lead) + 1]
RECURSIVE ExtraFrom(_, _, _, _, _)
ExtraFrom(b, i, code, n, extra) ==
    IF extra = 0 THEN [code |-> code, n |-> n]
    ELSE IF i > Len(b) \/ b[i] < 128 THEN [code |-> -1, n |-> n]
    ELSE ExtraFrom(b, i + 1, code * 64 + (b[i] % 64), n + 1, extra - 1)
DecodeCharUTF8(b, i) ==
    IF ExtraChars(b[i]) = -1 THEN [code |-> -1, n |-> 1]
    ELSE ExtraFrom(b, i + 1, High(b[i]), 1, ExtraChars(b[i]))

(* Either half of a pair is taken for the first.                           *)
DecodeCharUTF16(u, i) ==
    IF u[i] \div 2048 /= 27 THEN [code |-> u[i], n |-> 1]
    ELSE IF i = Len(u) THEN [code |-> -1, n |-> 1]
    ELSE [code |-> (u[i] % 1024) * 1024 + (u[i + 1] % 1024) + 65536, n |-> 2]

Mark(code) == IF code = -1 THEN 63 ELSE code

(* ok: only UTF-8 up to the first null; nonAscii: how many characters that
   are not ASCII, with the one that was wrong.                             *)
RECURSIVE DetectFrom(_, _, _), DetectChar(_, _, _, _)
DetectFrom(b, i, nonAscii) ==
    IF i > Len(b) \/ b[i] = 0 THEN [ok |-> TRUE, nonAscii |-> nonAscii]
    ELSE IF b[i] < 128 THEN DetectFrom(b, i + 1, nonAscii)
    ELSE DetectChar(b, i, nonAscii + 1, DecodeCharUTF8(b, i))
DetectChar(b, i, nonAscii, char) ==
    IF char.code = -1 THEN [ok |-> FALSE, nonAscii |-> nonAscii]
    ELSE DetectFrom(b, i + char.n, nonAscii)
DetectUTF8(b) == DetectFrom(b, 1, 0)

(* Into room bytes: whole characters, and a null if all of them fit and
   there is still room.                                                    *)
RECURSIVE UTF16To8From(_, _, _, _), UTF16To8Char(_, _, _, _, _)
UTF16To8From(u, i, out, room) ==
    IF i > Len(u) THEN [bytes |-> out, ended |-> Len(out) < room]
    ELSE UTF16To8Char(u, i, out, EncodeCharUTF8(Mark(DecodeCharUTF16(u, i).code)), room)
UTF16To8Char(u, i, out, put, room) ==
    IF Len(out \o put) > room THEN [bytes |-> out, ended |-> FALSE]
    ELSE UTF16To8From(u, i + DecodeCharUTF16(u, i).n, out \o put, room)
UTF16To8(u, room) == UTF16To8From(u, 1, <<>>, room)

(* Of count bytes, up to a null: the units and the bytes converted.        *)
RECURSIVE UTF8To16From(_, _, _), UTF8To16Char(_, _, _, _)
UTF8To16From(b, i, out) ==
    IF i > Len(b) THEN [units |-> out, n |-> Len(b)]
    ELSE UTF8To16Char(b, i, out, DecodeCharUTF8(b, i))
UTF8To16Char(b, i, out, char) ==
    IF char.code = 0 THEN [units |-> Append(out, 0), n |-> i]
    ELSE UTF8To16From(b, i + char.n, out \o EncodeCharUTF16(Mark(char.code)))
UTF8To16(b, count) == UTF8To16From(SubSeq(b, 1, count), 1, <<>>)

-----------------------------------------------------------------------------
(* iconv, as far as it is used.                                            *)

WEI    == 20026
ZHONG  == 20013
GB == (WEI :> <<206, 170>>) @@ (ZHONG :> <<214, 208>>)
      @@ (24418 :> <<208, 206>>) @@ (20804 :> <<208, 214>>) @@ (34892 :> <<208, 208>>)

Bytes(u, low) == IF low THEN <<u % 256, u \div 256>> ELSE <<u \div 256, u % 256>>
UnitBytes(units, low) == FlattenSeq([i \in DOMAIN units |-> Bytes(units[i], low)])
Units(c, low) == UnitBytes(EncodeCharUTF16(c), low)

EILSEQ == [code |-> -1, n |-> 0]
EINVAL == [code |-> -2, n |-> 0]

StrictUtf8(b, i, char) ==
    IF b[i] \in 128..193 \/ b[i] > 244 THEN EILSEQ
    ELSE IF char.code = -1 THEN IF i + char.n > Len(b) THEN EINVAL ELSE EILSEQ
    ELSE IF char.code \div 2048 = 27 \/ EncodeCharUTF8(char.code) /= SubSeq(b, i, i + char.n - 1)
    THEN EILSEQ ELSE char
IconvReadUtf8(b, i) == StrictUtf8(b, i, DecodeCharUTF8(b, i))
IconvReadGB(b, i) ==
    IF b[i] < 128 THEN [code |-> b[i], n |-> 1]
    ELSE IF b[i] <= 160 THEN EILSEQ
    ELSE IF i = Len(b) THEN EINVAL
    ELSE LET is == {c \in DOMAIN GB : GB[c] = <<b[i], b[i + 1]>>}
         IN  IF is = {} THEN EILSEQ ELSE [code |-> CHOOSE c \in is : TRUE, n |-> 2]
UnitAt(b, i, low) ==
    IF i + 1 > Len(b) THEN -1 ELSE IF low THEN b[i] + 256 * b[i + 1] ELSE 256 * b[i] + b[i + 1]
PairOf(first, second) ==
    IF first \div 2048 /= 27 THEN [code |-> first, n |-> 2]
    ELSE IF first >= 56320 THEN EILSEQ
    ELSE IF second = -1 THEN EINVAL
    ELSE IF second \div 1024 /= 55 THEN EILSEQ
    ELSE [code |-> (first % 1024) * 1024 + (second % 1024) + 65536, n |-> 4]
IconvReadUtf16(b, i, low) ==
    IF i = Len(b) THEN EINVAL ELSE PairOf(UnitAt(b, i, low), UnitAt(b, i + 2, low))
IconvRead(from, b, i) ==
    CASE from = "UTF-8"  -> IconvReadUtf8(b, i)
      [] from = "GB2312" -> IconvReadGB(b, i)
      [] from = ""       -> IF b[i] < 128 THEN [code |-> b[i], n |-> 1] ELSE EILSEQ
      [] OTHER           -> IconvReadUtf16(b, i, from = "UTF-16LE")

(* The bytes of a character, or none where it cannot be written.           *)
IconvWrite(to, c) ==
    CASE to = "UTF-8"  -> EncodeCharUTF8(c)
      [] to = "GB2312" -> IF c < 128 THEN <<c>> ELSE IF c \in DOMAIN GB THEN GB[c] ELSE <<>>
      [] to = ""       -> IF c < 128 THEN <<c>> ELSE <<>>
      [] OTHER         -> Units(c, to = "UTF-16LE")

-----------------------------------------------------------------------------
(* TextEncoding.                                                           *)

IConvName(enc) == IF enc = "UTF-16" THEN "UTF-16BE" ELSE enc

(* What cannot be read or written is passed over, fromSize bytes of it, and
   a question mark put in its place; what is not complete ends the text.   *)
RECURSIVE IConvFrom(_, _, _, _, _, _, _)
IConvStep(b, i, out, to, toSize, from, fromSize, char, put) ==
    IF put = <<>>
    THEN IConvFrom(b, i + fromSize, out \o (IF toSize = 1 THEN <<63>> ELSE <<63, 0>>),
                   to, toSize, from, fromSize)
    ELSE IConvFrom(b, i + char.n, out \o put, to, toSize, from, fromSize)
IConvChar(b, i, out, to, toSize, from, fromSize, char) ==
    IF char = EINVAL THEN out
    ELSE IConvStep(b, i, out, to, toSize, from, fromSize, char,
                   IF char = EILSEQ THEN <<>> ELSE IconvWrite(IConvName(to), char.code))
IConvFrom(b, i, out, to, toSize, from, fromSize) ==
    IF i > Len(b) THEN out
    ELSE IConvChar(b, i, out, to, toSize, from, fromSize, IconvRead(IConvName(from), b, i))
IConv(b, to, toSize, from, fromSize) == IConvFrom(b, 1, <<>>, to, toSize, from, fromSize)

(* Between GB2312 or the locale's and what UTF-16 and UTF-8 the callers use;
   a code page of 1200 is in units of two bytes, any other in bytes.       *)
EncodingNameTable ==
    ("UTF-8" :> 65001) @@ ("GB2312" :> 936) @@ ("UTF-16" :> 1200) @@ ("UTF-16LE" :> 1200)
    @@ ("UTF-16BE" :> 1201)
x_GetEncodingCodePage(enc) ==
    IF enc = "" THEN 0 ELSE IF enc \in DOMAIN EncodingNameTable THEN EncodingNameTable[enc] ELSE -1
CharSize(enc) == IF x_GetEncodingCodePage(enc) = 1200 THEN 2 ELSE 1
PerformConversion(from, to, b) == IConv(b, to, CharSize(to), from, CharSize(from))

UTF8ToA(b)      == PerformConversion("UTF-8", "", b)
AToUTF8(b)      == PerformConversion("", "UTF-8", b)
UTF8ToGB2312(b) == PerformConversion("UTF-8", "GB2312", b)
GB2312ToUTF8(b) == PerformConversion("GB2312", "UTF-8", b)

-----------------------------------------------------------------------------
(* CUtility's: all of it, or nothing, into room bytes.                     *)
RECURSIVE WholeFrom(_, _, _, _, _, _)
WholeFrom(b, i, out, from, to, room) ==
    LET char == IconvRead(from, b, i)
        put  == IF char \in {EILSEQ, EINVAL} THEN <<>> ELSE IconvWrite(to, char.code)
    IN  IF i > Len(b) THEN [ok |-> TRUE, bytes |-> out]
        ELSE IF put = <<>> \/ Len(out \o put) > room THEN [ok |-> FALSE, bytes |-> out]
        ELSE WholeFrom(b, i + char.n, out \o put, from, to, room)

(* GBK is of up to two bytes a character, in UTF-8 of up to three.         *)
ConverterRoom(b) == 2 * Len(b) + 1
Converter(b, str, from, to, opened) ==
    LET whole == WholeFrom(b, 1, <<>>, from, to, ConverterRoom(b))
    IN  IF opened /\ whole.ok THEN whole.bytes ELSE str
Gbk2Utf(b, str, opened) == Converter(b, str, "GB2312", "UTF-8", opened)
Utf2Gbk(b, str, opened) == Converter(b, str, "UTF-8", "GB2312", opened)

-----------------------------------------------------------------------------
(* For the properties: texts as code points.                               *)

Utf8(text)       == FlattenSeq([i \in DOMAIN text |-> EncodeCharUTF8(text[i])])
Utf16(text, low) == FlattenSeq([i \in DOMAIN text |-> Units(text[i], low)])
Utf16Units(text) == FlattenSeq([i \in DOMAIN text |-> EncodeCharUTF16(text[i])])
InGB(c)          == c < 128 \/ c \in DOMAIN GB
Representable(text) == \A i \in DOMAIN text : InGB(text[i])
Gb2312(text)     == FlattenSeq([i \in DOMAIN text |-> IconvWrite("GB2312", text[i])])

(* What stands in GB2312 for a text: a question mark for every byte, or
   every unit, of a character it does not have.                            *)
Marks(c, unit) == [i \in 1..(IF unit = 1 THEN Len(EncodeCharUTF8(c)) ELSE Len(EncodeCharUTF16(c))) |-> 63]
Shown(text, unit) ==
    FlattenSeq([i \in DOMAIN text |-> IF InGB(text[i]) THEN IconvWrite("GB2312", text[i])
                                      ELSE Marks(text[i], unit)])
Starts(text) == text /= <<>> /\ text[1] \in 1..8 \cup {60}

-----------------------------------------------------------------------------
NOFILE  == <<-1>>
UNKNOWN == <<-2>>
WRONGSIZE == <<-3>>
NOTHING == <<>>
NOTGIVEN == <<-4>>

LE == "MDF_UTF16LEFILE"
BE == "MDF_UTF16BEFILE"
PREAMBLE == "MDF_UTF8PREAMBLE"

Failures == MayFail \subseteq {"open", "read", "write", "close"}
FileBounds == MaxCalls \in Nat /\ DocFlags \subseteq SUBSET {LE, BE, PREAMBLE}

BomTable == <<[bom |-> <<239, 187, 191>>, enc |-> "UTF-8", flag |-> PREAMBLE],
              [bom |-> <<255, 254>>, enc |-> "UTF-16LE", flag |-> LE],
              [bom |-> <<254, 255>>, enc |-> "UTF-16BE", flag |-> BE]>>

(* What a text declares: its XML declaration, or else the first charset of
   a meta element in the head of an html document.                         *)
Charset(meta) == IF meta = <<>> \/ Head(meta) = 8 THEN "" ELSE IF Head(meta) = 6 THEN "UTF-8" ELSE "GB2312"
InHead(elements) ==
    IF elements = <<>> \/ Head(elements) /= 5 THEN ""
    ELSE Charset(SelectSeq(elements, LAMBDA c : c \in 6..8))
GetDeclaredEncoding(text) ==
    IF text = <<>> THEN ""
    ELSE IF text[1] \in 1..4 THEN <<"UTF-8", "GB2312", "UTF-16", "UNHEARD-OF">>[text[1]]
    ELSE InHead(SelectSeq(text, LAMBDA c : c \in 5..8 \/ c = 60))

CanConvert(from, to) ==
    /\ {from, to} \subseteq Supported
    /\ IConvName(from) /= IConvName(to) \/ sameConverts

-----------------------------------------------------------------------------
(* FilePos: the file while it is open.                                     *)

(* FileOpen to read: the byte order mark and, without one, the declaration.
   MDF_UTF16BEFILE is the one flag that is not cleared first.              *)
MarkOf(bytes) == {BomTable[i] : i \in {j \in DOMAIN BomTable : IsPrefix(BomTable[j].bom, bytes)}}
DeclaredIn(bytes, declared) ==
    IF declared = "" /\ bytes /= <<>> /\ Starts(bytes) THEN "UTF-8" ELSE declared
OpenToRead(bytes, flags) ==
    LET kept == IF bytes = <<>> THEN flags ELSE flags \ {LE, PREAMBLE}
    IN  IF MarkOf(bytes) = {}
        THEN [flags |-> kept, start |-> 0, unit |-> 1, enc |-> DeclaredIn(bytes, GetDeclaredEncoding(bytes))]
        ELSE CHOOSE f \in {[flags |-> kept \cup {mark.flag}, start |-> Len(mark.bom), enc |-> mark.enc,
                            unit |-> IF Len(mark.bom) = 2 THEN 2 ELSE 1] : mark \in MarkOf(bytes)} : TRUE

x_EndianSwapUTF16(bytes) ==
    [i \in DOMAIN bytes |-> IF i % 2 = 0 THEN bytes[i - 1]
                            ELSE IF i = Len(bytes) THEN bytes[i] ELSE bytes[i + 1]]
x_EndianSwapRequired(flags) == BE \in flags

(* FileRead: null characters are removed, then the bytes put in the order
   of the host, which is little-endian.                                    *)
RemoveNulls(bytes, unit) ==
    IF unit = 1 THEN SelectSeq(bytes, LAMBDA b : b /= 0)
    ELSE FlattenSeq(SelectSeq([i \in 1..(Len(bytes) \div 2) |-> <<bytes[2*i - 1], bytes[2*i]>>],
                              LAMBDA u : u /= <<0, 0>>))
Swapped(bytes, isSwap) == IF isSwap THEN x_EndianSwapUTF16(bytes) ELSE bytes
FileRead(bytes, f) ==
    Swapped(RemoveNulls(bytes, f.unit), f.unit > 1 /\ x_EndianSwapRequired(f.flags))

(* FileReadText: the rest of the file as GB2312.  UTF-16 that is taken for
   single bytes, or the other way round, is read past the buffer's end.    *)
Detected(found) == IF found.nonAscii = 0 THEN "none" ELSE IF found.ok THEN "UTF-8" ELSE ""
FromEncoding(text, f) ==
    IF f.flags \cap {LE, BE} /= {} THEN IF f.unit = 2 THEN "UTF-16" ELSE "wrong size"
    ELSE IF CanConvert(IF f.enc = "" THEN MCD_ENC ELSE f.enc, MCD_ENC)
    THEN IF f.enc = "" THEN MCD_ENC ELSE IF CharSize(f.enc) = 2 THEN "wrong size" ELSE f.enc
    ELSE IF f.enc = "" THEN Detected(DetectUTF8(text)) ELSE "none"
Converted(text, from) ==
    CASE from = "none" -> text
      [] from = "wrong size" -> WRONGSIZE
      [] OTHER -> PerformConversion(from, MCD_ENC, text)
FileReadText(rest, f) ==
    IF rest = <<>> THEN <<>> ELSE Converted(FileRead(rest, f), FromEncoding(FileRead(rest, f), f))

ReadOpened(bytes, f) ==
    [doc |-> FileReadText(SubSeq(bytes, f.start + 1, Len(bytes)), f), flags |-> f.flags]
ReadTextFile(bytes, flags) == ReadOpened(bytes, OpenToRead(bytes, flags))

(* FileOpen to write: the mark the flags ask for, the first of them, and the
   encoding of it, of the declaration, or UTF-8.                           *)
NoMark == [bom |-> <<>>, enc |-> "", flag |-> ""]
MarkFor(flags) ==
    LET marks == SelectSeq(BomTable, LAMBDA mark : mark.flag \in flags)
    IN  IF marks = <<>> THEN NoMark ELSE Head(marks)
EncodingFor(mark, declared) ==
    IF mark /= NoMark THEN mark.enc ELSE IF declared = "" THEN "UTF-8" ELSE declared

(* FileWriteText and FileWrite.  A buffer for UTF-16 the flags do not ask
   for has room for half of it.                                            *)
ToEncoding(flags, enc) ==
    IF flags \cap {LE, BE} /= {} THEN "UTF-16"
    ELSE IF ~CanConvert(enc, MCD_ENC) THEN "none"
    ELSE IF CharSize(enc) = 2 THEN "wrong size" ELSE enc
FileWriteText(doc, to) ==
    CASE to = "none" -> doc
      [] to = "wrong size" -> WRONGSIZE
      [] OTHER -> PerformConversion(MCD_ENC, to, doc)
FileWrite(bytes, flags) == Swapped(bytes, x_EndianSwapRequired(flags))
WriteTextFile(doc, flags) ==
    MarkFor(flags).bom \o
    (IF doc = <<>> THEN <<>>
     ELSE FileWrite(FileWriteText(doc, ToEncoding(flags, EncodingFor(MarkFor(flags), GetDeclaredEncoding(doc)))),
                    flags))

(* As WriteTextFile, with the bytes in the host's order whatever the flags.*)
WriteUnswapped(doc, flags) ==
    MarkFor(flags).bom \o
    (IF doc = <<>> THEN <<>>
     ELSE FileWriteText(doc, ToEncoding(flags, EncodingFor(MarkFor(flags), GetDeclaredEncoding(doc)))))

-----------------------------------------------------------------------------
(* The calls.                                                              *)

Counted == calls < MaxCalls /\ calls' = calls + 1 /\ answer' = NOTHING /\ UNCHANGED sameConverts

Has(text, c) == \E i \in DOMAIN text : text[i] = c

SetDocFlags(flags) ==
    /\ Counted /\ m_nDocFlags /= flags
    /\ m_nDocFlags' = flags /\ last' = <<"flags", TRUE>>
    /\ UNCHANGED <<m_strDoc, parsed, file, meant, meantFlags, own, stale>>

SetDoc(text) ==
    /\ Counted /\ Representable(text) /\ ~Has(text, 0)
    /\ m_strDoc' = Gb2312(text) /\ parsed' = m_strDoc'
    /\ last' = <<"setDoc", TRUE>> /\ stale' = FALSE
    /\ UNCHANGED <<m_nDocFlags, file, meant, meantFlags, own>>

(* Load: the text is cleared before the file is known to be there, and the
   table is made anew only when all of it was read.                        *)
NotOfAnotherFile ==
    \/ "other flag" \in Unguarded
    \/ BE \in m_nDocFlags => file = NOFILE \/ IsPrefix(BomTable[3].bom, file)
LoadFailed == last' = <<"load", FALSE>> /\ stale' = TRUE /\ UNCHANGED parsed
LoadOf(failure) ==
    /\ Counted /\ NotOfAnotherFile
    /\ UNCHANGED <<file, meant, meantFlags, own>>
    /\ IF file = NOFILE \/ failure = "open"
       THEN m_strDoc' = <<>> /\ LoadFailed /\ UNCHANGED m_nDocFlags
       ELSE /\ file /= UNKNOWN
            /\ \E read \in {ReadTextFile(file, m_nDocFlags)} :
                  IF failure = "read" /\ file /= <<>>
                  THEN LoadFailed /\ \/ m_strDoc' = <<>> /\ UNCHANGED m_nDocFlags
                                     \/ m_strDoc' = WRONGSIZE /\ m_nDocFlags' = read.flags
                  ELSE /\ m_strDoc' = read.doc /\ parsed' = read.doc /\ m_nDocFlags' = read.flags
                       /\ last' = <<"load", TRUE>> /\ stale' = FALSE
Load == \E failure \in (MayFail \ {"write", "close"}) \cup {"none"} : LoadOf(failure)

(* Save: the file is truncated when it is opened.  What fclose could not
   write is not noticed.                                                   *)
WideHasMark == "wide name" \in Unguarded \/ m_nDocFlags /= {}
               \/ GetDeclaredEncoding(m_strDoc) /= "UTF-16"
SaveOf(failure) ==
    /\ Counted /\ m_strDoc /= WRONGSIZE /\ WideHasMark
    /\ IF failure = "open"
       THEN last' = <<"save", FALSE>> /\ UNCHANGED <<file, meant, meantFlags, own>>
       ELSE IF failure \in {"write", "close"}
       THEN /\ file' = UNKNOWN /\ meant' = UNKNOWN /\ meantFlags' = {}
            /\ last' = <<"save", failure = "close">> /\ own' = TRUE
       ELSE /\ file' = WriteTextFile(m_strDoc, m_nDocFlags)
            /\ meant' = m_strDoc /\ meantFlags' = m_nDocFlags
            /\ last' = <<"save", TRUE>> /\ own' = TRUE
    /\ UNCHANGED <<m_strDoc, parsed, m_nDocFlags, stale>>
Save == \E failure \in (MayFail \ {"read"}) \cup {"none"} : SaveOf(failure)

(* Another program writes the file, with the mark or the declaration of its
   encoding; characters GB2312 does not have are shown as "?".             *)
Foreign(text, bom, bytes) ==
    /\ Counted
    /\ file' = bom \o bytes
    /\ meant' = Shown(SelectSeq(text, LAMBDA c : c /= 0), IF Len(bom) = 2 THEN 2 ELSE 1)
    /\ meantFlags' = {BomTable[i].flag : i \in {j \in DOMAIN BomTable : BomTable[j].bom = bom}}
    /\ last' = <<"other", TRUE>> /\ own' = FALSE
    /\ UNCHANGED <<m_strDoc, parsed, m_nDocFlags, stale>>
ForeignUtf8(text) ==
    \E bom \in {<<>>, BomTable[1].bom} :
        /\ bom = <<>> => GetDeclaredEncoding(text) \in {"UTF-8", ""} /\ Starts(text)
        /\ Foreign(text, bom, Utf8(text))
ForeignGb2312(text) ==
    GetDeclaredEncoding(text) = "GB2312" /\ Representable(text) /\ Foreign(text, <<>>, Gb2312(text))
ForeignUtf16(text) ==
    \E flag \in {LE, BE} :
        Foreign(text, BomTable[IF flag = LE THEN 2 ELSE 3].bom, Utf16(text, flag = LE))

Init ==
    /\ sameConverts \in BOOLEAN
    /\ m_strDoc = <<>> /\ parsed = <<>> /\ m_nDocFlags = {}
    /\ file = NOFILE /\ meant = UNKNOWN /\ meantFlags = {} /\ own = FALSE
    /\ last = <<"new", TRUE>> /\ stale = FALSE /\ answer = NOTHING /\ calls = 0

(* The conversions that are functions of their own, before anything else.  *)
Convert(text) ==
    /\ calls = 0 /\ answer = NOTHING /\ ~Has(text, 0)
    /\ \/ \E room \in 0..8 : answer' = <<"UTF16To8", text, room, UTF16To8(Utf16Units(text), room)>>
       \/ \E count \in 0..(Len(Utf8(text)) + 1) :
             answer' = <<"UTF8To16", text, count, UTF8To16(Append(Utf8(text), 0), count)>>
       \/ answer' = <<"GB2312", text, UTF8ToGB2312(Utf8(text)), GB2312ToUTF8(UTF8ToGB2312(Utf8(text)))>>
       \/ answer' = <<"A", text, UTF8ToA(Utf8(text)), AToUTF8(UTF8ToA(Utf8(text)))>>
       \/ \E count \in 0..Len(Gb2312(text)), opened \in BOOLEAN :
             /\ Representable(text)
             /\ answer' = <<"Gbk2Utf", text, count, opened,
                            Gbk2Utf(SubSeq(Gb2312(text), 1, count), NOTGIVEN, opened)>>
       \/ \E count \in 0..Len(Utf8(text)), opened \in BOOLEAN :
             answer' = <<"Utf2Gbk", text, count, opened,
                         Utf2Gbk(SubSeq(Utf8(text), 1, count), NOTGIVEN, opened)>>
    /\ UNCHANGED <<sameConverts, m_strDoc, parsed, m_nDocFlags, file, meant, meantFlags, own, last, stale, calls>>

Next ==
    \/ \E flags \in DocFlags : SetDocFlags(flags)
    \/ \E text \in Document :
          \/ Convert(text) \/ SetDoc(text)
          \/ ForeignUtf8(text) \/ ForeignGb2312(text) \/ ForeignUtf16(text)
    \/ Load \/ Save

Spec == Init /\ [][Next]_vars

-----------------------------------------------------------------------------
(* Properties.                                                             *)

(* A file that was saved is loaded as what was saved, and a file of others as
   the text it stands for, in UTF-8 or GB2312; a text that does not start
   with markup, when iconv converts between equal names, only if it is ASCII
   (Markup.cpp:1485-1930).                                                 *)
Loaded == last = <<"load", TRUE>> /\ meant /= UNKNOWN
LoadedAsMeant ==
    Loaded =>
        \/ m_strDoc = meant
        \/ ~own /\ meantFlags \cap {LE, BE} /= {}
        \/ sameConverts /\ meantFlags = {} /\ ~Starts(meant) /\ \E i \in DOMAIN meant : meant[i] > 127

(* After a load the flags are those of the file, so that a save keeps its
   encoding (Markup.cpp:1524-1550, 2748).                                  *)
FlagsOfFile == (Loaded /\ file /= <<>>) => m_nDocFlags = meantFlags

(* The table of the elements is of the text in memory, but after a Load
   that failed, until the next call that sets the text
   (Markup.cpp:2588-2614, 2720-2727).                                      *)
TableOfText == ~stale => parsed = m_strDoc

(* UTF16To8 writes whole characters, as many as there is room for; UTF8To16
   the characters up to the count, and a question mark for one that is cut;
   what is converted to GB2312 or the locale's encoding and back is the same
   but for the characters those do not have (Markup.cpp:3265-3403).  Gbk2Utf
   and Utf2Gbk convert the whole text, or leave the caller's string alone
   when it ends within a character or has one GBK does not
   (Utility.cpp:152-179).                                                  *)
ConversionsRight ==
    answer /= NOTHING =>
        LET text == answer[2]
            Fits(k, n) == Len(Utf8(SubSeq(text, 1, k))) <= n
            whole(n) == CHOOSE k \in 0..Len(text) : Fits(k, n) /\ (k = Len(text) \/ ~Fits(k + 1, n))
            bytes(n) == Utf8(SubSeq(text, 1, whole(n)))
        IN  CASE answer[1] = "UTF16To8" ->
                   answer[4] = [bytes |-> bytes(answer[3]),
                                ended |-> whole(answer[3]) = Len(text) /\ Len(Utf8(text)) < answer[3]]
              [] answer[1] = "UTF8To16" ->
                   answer[4] = [units |-> Utf16Units(SubSeq(text, 1, whole(answer[3])))
                                          \o (IF whole(answer[3]) = Len(text)
                                             THEN IF answer[3] > Len(Utf8(text)) THEN <<0>> ELSE <<>>
                                             ELSE IF Len(bytes(answer[3])) < answer[3] THEN <<63>> ELSE <<>>),
                                n |-> answer[3]]
              [] answer[1] = "GB2312" ->
                   /\ answer[3] = Shown(text, 1)
                   /\ Representable(text) => answer[4] = Utf8(text)
              [] answer[1] = "A" ->
                   /\ Len(answer[3]) = Len(Utf8(text)) /\ answer[4] = answer[3]
                   /\ (\A i \in DOMAIN text : text[i] < 128) => answer[3] = Utf8(text)
              [] answer[1] = "Gbk2Utf" ->
                   LET cut == {k \in 0..Len(text) : Len(Gb2312(SubSeq(text, 1, k))) = answer[3]}
                   IN  answer[5] \in IF answer[4] /\ cut /= {} THEN {Utf8(SubSeq(text, 1, k)) : k \in cut}
                                    ELSE {NOTGIVEN}
              [] answer[1] = "Utf2Gbk" ->
                   answer[5] = IF answer[4] /\ Len(bytes(answer[3])) = answer[3]
                                  /\ Representable(SubSeq(text, 1, whole(answer[3])))
                               THEN Gb2312(SubSeq(text, 1, whole(answer[3]))) ELSE NOTGIVEN

===============================================================================
