-------------------------------- MODULE MCTools --------------------------------
(***************************************************************************)
(* The parts of src/base that are proved about together: CTime and         *)
(* CTimeSpan (what they compute and what they show), CIPFinder and         *)
(* CFileEx.  They share nothing, so a behaviour is one part's, chosen at   *)
(* the start; a part keeps its variables in x1, x2 ... in the order its    *)
(* instance gives, and those it does not use hold IDLE.                    *)
(***************************************************************************)
EXTENDS Integers, Sequences

CONSTANTS
    Date, TimeOfDay, Reference, GivenSpan, Seconds,         \* CTime and CTimeSpan
    PERCENT, DAYS, HOURS, MINUTES, SECONDS, LETTER, LenPattern,
    Clock, Day, Second, Formats, YearDay, FirstRoom, MaxRoom,
    Finder, Octets, Word, Databases, Addresses, NoAddress,  \* CIPFinder
    EMPTY, TAB, CHINA, LAN, RESERVED, NOWHERE, OVERSEAS, JUNK,
    Entry, Colon, SEP, DOT, PARENT, Path, Trees, BuffSize, MaxChanges,  \* CFileEx
    MaxCalls, IDLE

VARIABLES
    part,       \* "time", "fields", "finder" or "files"
    x1, x2, x3, x4, x5, x6, x7, x8, x9, x10, x11, x12

C == INSTANCE Time WITH
    pc <- x1, t <- x2, u <- x3, span <- x4, pattern <- x5, strFormat <- x6, nIndex <- x7,
    calls <- x8, Span <- GivenSpan
Shown == INSTANCE TimeFields WITH
    t <- x1, u <- x2, span <- x3, other <- x4, format <- x5, room <- x6, tmTmp <- x7,
    strText <- x8, pc <- x9, calls <- x10, MaxCalls <- 1
F == INSTANCE IPFinder WITH
    pc <- x1, file <- x2, offset <- x3, data <- x4, flag <- x5, living <- x6, ip <- x7,
    start <- x8, found <- x9, loc <- x10, info <- x11
Folder == INSTANCE FileEx WITH
    folders <- x1, files <- x2, cwd <- x3, pc <- x4, call <- x5, strFolder <- x6, unread <- x7,
    vec <- x8, there <- x9, ever <- x10, calls <- x11, changes <- x12,
    Name <- Entry

ASSUME CalendarConstants == C!TimeConstants
ASSUME FieldConstants == Shown!FieldConstants
ASSUME FinderConstants == F!FinderConstants
ASSUME FileConstants == Folder!PathConstants /\ Folder!Bounds

above8  == <<x9, x10, x11, x12>>
above10 == <<x11, x12>>
slots   == <<x1, x2, x3, x4, x5, x6, x7, x8, above8>>

ToolsInit ==
    \/ part = "time" /\ C!Init /\ above8 = <<IDLE, IDLE, IDLE, IDLE>>
    \/ part = "fields" /\ Shown!Init /\ above10 = <<IDLE, IDLE>>
    \/ part = "finder" /\ F!Init /\ x12 = IDLE
    \/ part = "files" /\ Folder!Init

ToolsNext ==
    /\ UNCHANGED part
    /\ \/ part = "time" /\ C!Next /\ UNCHANGED above8
       \/ part = "fields" /\ Shown!Next /\ UNCHANGED above10
       \/ part = "finder" /\ F!Next /\ UNCHANGED x12
       \/ part = "files" /\ Folder!Next

ToolsSpec == ToolsInit /\ [][ToolsNext]_<<part, slots>>

-----------------------------------------------------------------------------
(* Times are those of the calendar and spans those between them, however they
   were computed; their fields, order and Format show them (Time.cpp,
   TimeSpan.cpp).                                                          *)
TimeRight ==
    /\ part = "time" =>
          C!Normalised /\ C!Inverses /\ C!CalendarRight /\ C!TotalsAgree /\ C!FormatRight
    /\ part = "fields" => Shown!FieldsRight /\ Shown!OrderRight /\ Shown!FormatShowsTime

(* A lookup gives the fields of the range the address is in, if its numbers
   are octets, and the database is there while it runs (ipip.cpp:86-117,
   IPFinder.cpp:43-158); a folder is listed, made and removed as named, while
   others change it (FileEx.cpp).                                          *)
FilesRight ==
    /\ part = "finder" =>
          F!TypeOK /\ F!FindsItsRange /\ F!InfoIsOfRange /\ F!LookupHasData /\ F!AbroadIsOverseas
    /\ part = "files" =>
          /\ Folder!IsTree /\ Folder!ListIsOfFolder /\ Folder!MakesWhatIsMeant
          /\ Folder!RemovesWhatIsNamed /\ Folder!FreeSpaceRight
===============================================================================
