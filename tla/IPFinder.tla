------------------------------- MODULE IPFinder -------------------------------
(***************************************************************************)
(* CIPFinder (src/base/IPFinder.cpp) over the lookup of src/base/ipip.cpp. *)
(* Finders share the static IPInfo: init loads the database unless it is   *)
(* loaded, destroy frees it, and find scans the records from the one that  *)
(* flag gives for the first two octets to the first whose range ends at    *)
(* the address or later.  Find cuts the record's text at its tabs into the *)
(* members of an IPLocation, and ParseLocation normalises them; GetISPInfo *)
(* and GetLatLngInfo take some of the fields, from buffers they do not     *)
(* initialise.  Which of the three called find shows when find returns.    *)
(*                                                                         *)
(* An octet has Octets values, 256 in the code, and nobody checks that a   *)
(* number of the text is one: -1.0.0.0 and 300.1.1.1 are looked up, too,   *)
(* and may read flag outside its bounds.  A record has seven fields:       *)
(* country, province, city, company, ISP, latitude and longitude.  The     *)
(* database file is external and well formed: its ranges are sorted, and   *)
(* flag[p] is how many records end before prefix p.  Everything runs in    *)
(* one thread, as IPFinder.h:36 demands, and the process has one finder    *)
(* (main.cpp:84): the destructor of a second would free the database.      *)
(***************************************************************************)
EXTENDS Integers, Sequences, FiniteSets, SequencesExt

CONSTANTS
    Finder,         \* the object, if there is one
    Octets,
    Word,           \* the texts of fields
    Databases,      \* the files there may be: sequences of records [last, fields]
    Addresses,      \* what is looked up: sequences of four numbers
    NoAddress,      \* a text in which sscanf finds fewer than four numbers
    EMPTY, TAB,     \* "" as a member of an IPLocation, and the separator
    JUNK,           \* what an uninitialised buffer, or the caller's variable, held before
    CHINA, LAN, RESERVED, NOWHERE, OVERSEAS \* countries ParseLocation knows or writes

NFields == 7
FinderConstants ==
    /\ \A f, g \in Finder : f = g
    /\ Octets \in Nat \ {0, 1}
    /\ Addresses \subseteq [1..4 -> Int] /\ NoAddress \notin Addresses
    /\ EMPTY \in Word /\ TAB \notin Word /\ JUNK \notin Word
    /\ CHINA \notin {EMPTY, LAN, RESERVED} /\ OVERSEAS \notin {CHINA, NOWHERE}
    /\ \A d \in Databases :
          /\ d \in Seq([last : Nat, fields : [1..NFields -> Word]])
          /\ \A j, k \in 1..Len(d) : j < k => d[j].last < d[k].last

VARIABLES
    file,       \* the database on disk
    offset,     \* IPInfo.offset: 0 or, once loaded, the number of records + 1
    data,       \* what IPInfo points to: "none", "valid" or "freed"
    flag,       \* IPInfo.flag
    living,     \* the finders constructed and not destroyed
    pc, ip, start,  \* the call of Find in progress
    found,      \* the number of the record find took, or -1 for none
    loc,        \* the caller's IPLocation, empty before Find
    info        \* what GetISPInfo or GetLatLngInfo gave, or <<>>

vars == <<file, offset, data, flag, living, pc, ip, start, found, loc, info>>
IPInfo == <<offset, data, flag>>
Loaded == offset > 0

IsAddress(a) == a \in [1..4 -> 0..(Octets - 1)]
UINT == Octets * Octets * Octets * Octets    \* 2^32

(* The index into flag is of the numbers as they are, B2IU masks them.     *)
ip_prefix_value(a) == (a[1] * Octets + a[2]) % UINT
Masked(x) == x % Octets
ip2long_value(a) ==
    ((Masked(a[1]) * Octets + Masked(a[2])) * Octets + Masked(a[3])) * Octets + Masked(a[4])
Fresh == [x \in 1..NFields |-> EMPTY]

Init ==
    /\ file \in Databases
    /\ offset = 0 /\ data = "none" /\ flag = <<>>
    /\ living = {} /\ pc = "idle" /\ ip = NoAddress /\ start = 0 /\ found = -1 /\ loc = Fresh /\ info = <<>>

-----------------------------------------------------------------------------
init ==
    IF Loaded THEN UNCHANGED IPInfo
    ELSE /\ offset' = Len(file) + 1
         /\ data' = "valid"
         /\ flag' = [p \in 0..(Octets * Octets - 1) |->
                        Max({0} \cup {r \in 1..Len(file) : file[r].last < p * Octets * Octets})]

destroy ==
    IF Loaded THEN offset' = 0 /\ data' = "freed" /\ UNCHANGED flag ELSE UNCHANGED IPInfo

Construct(f) ==
    /\ pc = "idle" /\ f \notin living
    /\ init
    /\ living' = living \cup {f}
    /\ UNCHANGED <<file, pc, ip, start, found, loc, info>>

Destroy(f) ==
    /\ pc = "idle" /\ f \in living
    /\ destroy
    /\ living' = living \ {f}
    /\ UNCHANGED <<file, pc, ip, start, found, loc, info>>

(* find begins; without four numbers it leaves the caller's buffer alone.
   What lies outside flag is any number: of a record or behind the last, and
   the scan goes on from there; or of no record, or the read ends the
   process, and nothing is said of what follows.                           *)
Find(a) ==
    /\ pc = "idle" /\ living /= {}
    /\ ip' = a /\ found' = -1 /\ loc' = Fresh
    /\ \/ a = NoAddress /\ pc' = "parse" /\ start' = 0
       \/ /\ a /= NoAddress /\ ip_prefix_value(a) \in DOMAIN flag
          /\ pc' = "scan" /\ start' = flag[ip_prefix_value(a)]
       \/ /\ a /= NoAddress /\ ip_prefix_value(a) \notin DOMAIN flag
          /\ pc' \in {"scan", "astray"} /\ start' \in 0..Len(file)
    /\ UNCHANGED <<file, IPInfo, living, info>>

max_comp_len == offset - 1
EndsThereOrLater(r, a) == file[r + 1].last >= ip2long_value(a)

Scan ==
    /\ pc = "scan"
    /\ IF start >= max_comp_len
       THEN pc' = "parse" /\ UNCHANGED <<start, found>>
       ELSE IF EndsThereOrLater(start, ip)
            THEN pc' = "parse" /\ found' = start /\ UNCHANGED start
            ELSE start' = start + 1 /\ UNCHANGED <<pc, found>>
    /\ UNCHANGED <<file, IPInfo, living, ip, loc, info>>

(* The text of a record: its fields, a tab after each but the last, an
   empty field being nothing.                                              *)
Symbol(word) == IF word = EMPTY THEN <<>> ELSE <<word>>
TextOf(fields) == Front(FlattenSeq([x \in DOMAIN fields |-> Symbol(fields[x]) \o <<TAB>>]))
Text == IF found = -1 THEN <<>> ELSE TextOf(file[found + 1].fields)

(* strtok_r_2 gives empty fields too, unless one ends the text.            *)
Tabs(text) == {x \in DOMAIN text : text[x] = TAB}
TabAt(text, k) ==
    IF k = 0 THEN 0
    ELSE IF k > Cardinality(Tabs(text)) THEN Len(text) + 1
    ELSE CHOOSE p \in Tabs(text) : Cardinality({q \in Tabs(text) : q <= p}) = k    \* the k-th
Field(text, k) ==
    IF TabAt(text, k) = TabAt(text, k - 1) + 1 THEN EMPTY ELSE text[TabAt(text, k) - 1]
strtok_r(text) == SelectSeq(text, LAMBDA x : x /= TAB)
strtok_r_2(text) ==
    [k \in 1..(Cardinality(Tabs(text)) + (IF text = <<>> \/ Last(text) = TAB THEN 0 ELSE 1)) |-> Field(text, k)]

Parse ==
    /\ pc = "parse"
    /\ \E tokens \in {strtok_r_2(Text)} :
          loc' = [x \in 1..NFields |-> IF x <= Len(tokens) THEN tokens[x] ELSE loc[x]]
    /\ pc' = "found"
    /\ UNCHANGED <<file, IPInfo, living, ip, start, found, info>>

(* GetISPInfo: country, province, company and ISP, with "_" between them;
   sprintf writes onto what it reads, which an unoptimised build survives.  *)
Words(s) == FlattenSeq([k \in 1..Len(s) |-> IF s[k] \in {EMPTY, JUNK} THEN <<>> ELSE <<s[k]>>])
GetISPInfo ==
    /\ pc = "parse"
    /\ \E tokens \in {strtok_r_2(Text)} :
          info' = IF ip = NoAddress \/ tokens = <<>> THEN <<JUNK>>
                  ELSE <<tokens[1]>> \o
                       Words([k \in 1..Len(tokens) |-> IF k \in {2, 4, 5} THEN tokens[k] ELSE EMPTY])
    /\ pc' = "told"
    /\ UNCHANGED <<file, IPInfo, living, ip, start, found, loc>>

GetLatLngInfo ==
    /\ pc = "parse"
    /\ \E tokens \in {strtok_r_2(Text)} :
          info' = [k \in 1..2 |-> IF ip = NoAddress \/ Len(tokens) < 5 + k THEN JUNK ELSE tokens[5 + k]]
    /\ pc' = "where"
    /\ UNCHANGED <<file, IPInfo, living, ip, start, found, loc>>

(* ParseLocation, once for a location: country, province and ISP.          *)
Normalised(l) ==
    CASE l[1] \in {EMPTY, LAN, RESERVED} -> [x \in 1..NFields |-> IF x \in {1, 2, 5} THEN NOWHERE ELSE l[x]]
      [] l[1] = CHINA -> l
      [] OTHER -> [x \in 1..NFields |-> IF x \in {1, 2, 5} THEN OVERSEAS ELSE l[x]]

ParseLocation ==
    /\ pc = "found"
    /\ loc' = Normalised(loc)
    /\ pc' = "normal"
    /\ UNCHANGED <<file, IPInfo, living, ip, start, found, info>>

Done ==
    /\ pc \in {"normal", "told", "where"}
    /\ pc' = "idle" /\ ip' = NoAddress /\ start' = 0 /\ found' = -1 /\ loc' = Fresh /\ info' = <<>>
    /\ UNCHANGED <<file, IPInfo, living>>

Next ==
    \/ \E f \in Finder : Construct(f) \/ Destroy(f)
    \/ \E a \in Addresses \cup {NoAddress} : Find(a)
    \/ Scan \/ Parse \/ GetISPInfo \/ GetLatLngInfo \/ ParseLocation \/ Done

Spec == Init /\ [][Next]_vars

-----------------------------------------------------------------------------
(* The record whose range holds the address, without the help of flag.     *)
RecordOf(a) ==
    LET reach == {r \in 1..Len(file) : file[r].last >= ip2long_value(a)}
    IN  IF a = NoAddress \/ reach = {} THEN -1 ELSE Min(reach) - 1

Sought == ip = NoAddress \/ IsAddress(ip)
FieldsFound == IF found = -1 THEN Fresh ELSE file[found + 1].fields

TypeOK ==
    /\ offset \in {0, Len(file) + 1}
    /\ data \in {"none", "valid", "freed"} /\ living \subseteq Finder
    /\ pc \in {"idle", "scan", "parse", "found", "normal", "told", "where", "astray"}
    /\ start \in 0..Len(file) /\ found \in -1..(Len(file) - 1)
    /\ loc \in [1..NFields -> Word \cup {NOWHERE, OVERSEAS}]

(* Find gives the record of the range the address is in, field by field, and
   an empty one for what has fewer than four numbers or is in no range.  Of
   four numbers that are not all octets, it gives a record that ends at or
   behind what is left of them by the mask (ipip.cpp:86-117,
   IPFinder.cpp:43-73).                                                    *)
FindsItsRange ==
    pc = "found" =>
        /\ loc = FieldsFound
        /\ Sought => found = RecordOf(ip)
        /\ found /= -1 => EndsThereOrLater(found, ip)

(* What GetISPInfo and GetLatLngInfo give is of that range too: its fields
   that are not empty, in their order; and nothing, not even an empty text,
   for fewer than four numbers or in no range (IPFinder.cpp:111-158).      *)
InfoIsOfRange ==
    LET Only(set) == Words([x \in 1..NFields |-> IF x \in set THEN FieldsFound[x] ELSE EMPTY])
    IN  /\ pc \in {"told", "where"} /\ Sought => found = RecordOf(ip)
        /\ pc = "told" =>
              IF found = -1 THEN info = <<JUNK>> ELSE Words(info) = Only({1, 2, 4, 5})
        /\ pc = "where" => Words(info) = Only({6, 7})

(* While a lookup runs, the database it reads is there (ipip.cpp:24-34).   *)
LookupHasData == pc \in {"scan", "parse"} => data = "valid"

(* ParseLocation keeps Chinese locations and tells apart what is abroad
   from what is nowhere (IPFinder.cpp:75-110).                             *)
AbroadIsOverseas ==
    pc = "normal" =>
        /\ loc[1] = OVERSEAS <=> FieldsFound[1] \notin {EMPTY, CHINA, LAN, RESERVED}
        /\ FieldsFound[1] = CHINA => loc = FieldsFound
=============================================================================
