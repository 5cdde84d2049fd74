\* Every text and pattern up to a length; every small database; two growing buffers
\* of alike elements (TBuffProofs has any); a year of each kind; CTime::Format once; 2 calls of
\* CFileEx on a tree of 4 folders, 1 change.  XML: 7 calls on a writer; 1 call on 7 documents, or
\* 2 or 4 on one; 3 calls on 12 files; 2 or 3 calls on the storage of 2 documents; every path of
\* 3 parts.
CONSTANTS
    Buff = {a, b}
    T = {x}
    GARBAGE = GARBAGE
    ANY = ANY
    SizeofT = 1
    MIN_RESERVED = 1
    SizeWords = 64
    MaxSize = 3
    Lengths = {0, 2}
    EraseLengths = {1, 5}
    AllocMayFail = FALSE
    Letter = {x, y}
    STAR = STAR
    ANYONE = ANYONE
    Len1 = 3
    Len2 = 4
    SPACE = SPACE
    LenStr = 5
    LenFind = 2
    LenReplacement = 2
    MinFind = 1
    IntBits = 3
    Finder = {f}
    Octets = 2
    Word = {EMPTY, CHINA, LAN, RESERVED, FRANCE, BEIJING, TELECOM, LAT, LNG}
    Databases <- UpToThree
    Addresses <- Quads
    NoAddress = NoAddress
    EMPTY = EMPTY
    TAB = TAB
    CHINA = CHINA
    LAN = LAN
    RESERVED = RESERVED
    NOWHERE = NOWHERE
    OVERSEAS = OVERSEAS
    FRANCE = FRANCE
    BEIJING = BEIJING
    TELECOM = TELECOM
    LAT = LAT
    LNG = LNG
    JUNK = JUNK
    LeapCase = {1900, 1904, 2000, 2100}
    Date <- Dates
    TimeOfDay <- TimesOfDay
    Reference <- Midnights
    GivenSpan <- SpansGiven
    Seconds = {86399, 200000}
    Clock <- Clocks
    Day = {0, 1, 60, 366, 36585, 73415}
    Second = {0, 3599, 43200, 86399}
    Formats <- FormatTexts
    YearDay = {0, 7}
    FirstRoom = 2
    MaxRoom = 8
    PERCENT = PERCENT
    DAYS = DAYS
    HOURS = HOURS
    MINUTES = MINUTES
    SECONDS = SECONDS
    LETTER = LETTER
    LenPattern = 4
    MaxCalls = 2
    Str = {s1, s2}
    Entry = {"a", "b", "c:"}
    Colon = {"c:"}
    Path <- Arguments
    Trees <- OneTree
    BuffSize = 6
    MaxChanges = 1
    SEP = SEP
    DOT = DOT
    PARENT = PARENT
    NONE = NONE
    NULL = NULL
    MaxItems = 3
    Key = {k1}
    MaxArray = 2
    IDLE = IDLE
SPECIFICATION AnySpec
INVARIANTS SizeWithinBlock ContentsAsVector TextRight FilesRight TimeRight JsonRight XmlRight
PROPERTIES TextCallsEnd
CHECK_DEADLOCK FALSE
