------------------------------ MODULE HttpMessage ------------------------------
(***************************************************************************)
(* The texts of HttpRequest and HttpResponse (src/base/WebServer.cpp):     *)
(* what one side builds with its constructor and Line and Packs, the other *)
(* Unpacks.  The server has a new HttpRequest and a new HttpResponse for   *)
(* every message; HttpClientSocket keeps m_request and m_response.         *)
(*                                                                         *)
(* A text is a sequence of symbols: the separators the code searches for,  *)
(* with "\r\n" as one, digits 0..9 and words.  Where a message ends is the *)
(* matter of HttpFraming and HttpClientSocket.                             *)
(***************************************************************************)
EXTENDS Integers, Sequences, SequencesExt

CONSTANTS
    NL, SPACE, COLON, QUERY, AMP, EQUALS, SLASH,    \* \r\n and " :?&=/"
    POST, HTTP10, OK,   \* the constructors' defaults
    LowerOf,            \* ToLower of the words that it changes
    Keys, Values,       \* what callers give Line, without outer spaces
    Numbers,            \* and with a number
    URIs,               \* what callers put into m_strURI, without spaces
    Statuses,           \* <<code, message>>
    MaxLines,           \* bound: calls of Line between two messages
    MaxMessages         \* bound: requests and responses

Bounds ==
    /\ MaxLines \in Nat /\ MaxMessages \in Nat /\ Numbers \subseteq Nat
    /\ \A u \in URIs : SPACE \notin {u[p] : p \in DOMAIN u}

VARIABLES
    m_request,      \* the client's, being built
    request,        \* the server's, after Unpack
    response,       \* the server's, being built
    m_response,     \* the client's, after Unpack
    requestLines, responseLines,    \* history: the calls of Line on either
    received,       \* history: the lines of all the responses that arrived
    turn            \* how many messages went, and what is done next

vars == <<m_request, request, response, m_response, requestLines, responseLines, received, turn>>

NewRequest ==
    [m_strMethod |-> <<POST>>, m_strURI |-> <<SLASH>>, m_strVersion |-> <<HTTP10>>,
     m_strURL |-> <<>>, m_mapArgs |-> <<>>, m_mapHeaderLine |-> <<>>]
NewResponse(code, msg) ==
    [m_nStatusCode |-> code, m_strStatusMsg |-> msg, m_strVersion |-> <<HTTP10>>,
     m_mapHeaderLine |-> <<>>]

Init ==
    /\ m_request = NewRequest /\ request = NewRequest
    /\ response = NewResponse(200, <<OK>>) /\ m_response = NewResponse(200, <<OK>>)
    /\ requestLines = <<>> /\ responseLines = <<>>
    /\ received = <<>>
    /\ turn = [messages |-> 0, next |-> "request"]

-----------------------------------------------------------------------------
Find(str, sym) == SelectInSeq(str, LAMBDA c : c = sym)
Has(str, sym)  == Find(str, sym) > 0
Before(str, sym) == SubSeq(str, 1, Find(str, sym) - 1)
After(str, sym)  == SubSeq(str, Find(str, sym) + 1, Len(str))

(* The parts of str between its occurrences of sym.                        *)
Split(str, sym) ==
    FoldLeft(LAMBDA parts, c : IF c = sym THEN Append(parts, <<>>)
                               ELSE [parts EXCEPT ![Len(parts)] = Append(@, c)],
             <<<<>>>>, str)

Trim(str) ==
    LET first == SelectInSeq(str, LAMBDA c : c /= SPACE)
    IN  IF first = 0 THEN <<>>
        ELSE SubSeq(str, first, SelectLastInSeq(str, LAMBDA c : c /= SPACE))

ToLower(str) == [p \in DOMAIN str |-> IF str[p] \in DOMAIN LowerOf THEN LowerOf[str[p]] ELSE str[p]]

(* sprintf "%d" of a number that is not negative, and atoi.                *)
Decimal(n) ==
    LET Digits[k \in Nat] == IF k < 10 THEN <<k>> ELSE Append(Digits[k \div 10], k % 10)
    IN  Digits[n]
atoi(str) ==
    FoldLeft(LAMBDA n, c : IF n.more /\ c \in 0..9 THEN [n EXCEPT !.value = 10 * @ + c]
                           ELSE [n EXCEPT !.more = FALSE],
             [value |-> 0, more |-> TRUE], str).value

LineAsGiven(map, key, val) == (key :> val) @@ map

Line(map, key, val) == (ToLower(key) :> val) @@ map
LineOf(map, key) == IF ToLower(key) \in DOMAIN map THEN map[ToLower(key)] ELSE <<>>

(* The lines in the order of the map, which no reader depends on.           *)
PackLines(map) ==
    FoldLeft(LAMBDA text, key : text \o key \o <<COLON, SPACE>> \o map[key] \o <<NL>>,
             <<>>, SetToSeq(DOMAIN map)) \o <<NL>>

PackRequest(req) ==
    req.m_strMethod \o <<SPACE>> \o req.m_strURI \o <<SPACE>> \o req.m_strVersion \o <<NL>>
    \o PackLines(req.m_mapHeaderLine)
PackResponse(res) ==
    res.m_strVersion \o <<SPACE>> \o Decimal(res.m_nStatusCode) \o <<SPACE>>
    \o res.m_strStatusMsg \o <<NL>> \o PackLines(res.m_mapHeaderLine)

(* The header up to the empty line; what has no colon is skipped.           *)
HeaderLines(text) ==
    LET end == CHOOSE p \in 1..(Len(text) - 1) :
                  /\ text[p] = NL /\ text[p + 1] = NL
                  /\ \A q \in 1..(p - 1) : text[q] /= NL \/ text[q + 1] /= NL
    IN  Split(SubSeq(text, 1, end), NL)
UnpackLines(map, text) ==
    FoldLeft(LAMBDA lines, line : IF Has(line, COLON)
                                  THEN Line(lines, Trim(Before(line, COLON)), Trim(After(line, COLON)))
                                  ELSE lines,
             map, Tail(HeaderLines(text)))

(* One argument behind '?': a piece without '=' is skipped.                 *)
ParseArgs(req) ==
    IF ~Has(req.m_strURI, QUERY) THEN [req EXCEPT !.m_strURL = req.m_strURI]
    ELSE [req EXCEPT
            !.m_strURL = Before(req.m_strURI, QUERY),
            !.m_mapArgs = FoldLeft(
                LAMBDA args, arg : IF Has(arg, EQUALS)
                                   THEN (Trim(Before(arg, EQUALS)) :> Trim(After(arg, EQUALS))) @@ args
                                   ELSE args,
                @, Split(After(req.m_strURI, QUERY), AMP))]

RequestLine(req, line) ==
    LET rest == After(line, SPACE)
    IN  [req EXCEPT !.m_strMethod = Before(line, SPACE), !.m_strURI = Before(rest, SPACE),
                    !.m_strVersion = After(rest, SPACE)]
StatusLine(res, line) ==
    LET rest == After(line, SPACE)
    IN  [res EXCEPT !.m_strVersion = Before(line, SPACE), !.m_nStatusCode = atoi(Before(rest, SPACE)),
                    !.m_strStatusMsg = After(rest, SPACE)]

UnpackRequest(req, text) ==
    ParseArgs([RequestLine(req, Head(HeaderLines(text)))
               EXCEPT !.m_mapHeaderLine = UnpackLines(req.m_mapHeaderLine, text)])
UnpackResponse(res, text) ==
    [StatusLine(res, Head(HeaderLines(text)))
     EXCEPT !.m_mapHeaderLine = UnpackLines(res.m_mapHeaderLine, text)]

-----------------------------------------------------------------------------
Value == Values \cup {Decimal(n) : n \in Numbers}

(* The client sets a line of its request, or what it asks for.             *)
SetRequestLine ==
    /\ turn.next = "request" /\ turn.messages < MaxMessages
    /\ Len(requestLines) < MaxLines * (turn.messages + 1)
    /\ \E key \in Keys, val \in Value :
          /\ m_request' = [m_request EXCEPT !.m_mapHeaderLine = Line(@, key, val)]
          /\ requestLines' = Append(requestLines, <<key, val>>)
    /\ UNCHANGED <<request, response, m_response, responseLines, received, turn>>

(* HttpClientSocket sends its request, and the handler Unpacks it into a
   new object.                                                             *)
SendRequest ==
    /\ turn.next = "request" /\ turn.messages < MaxMessages
    /\ \E uri \in URIs :
          /\ m_request' = [m_request EXCEPT !.m_strURI = uri]
          /\ request' = UnpackRequest(NewRequest, PackRequest(m_request'))
    /\ turn' = [messages |-> turn.messages + 1, next |-> "response"]
    /\ response' = NewResponse(200, <<OK>>) /\ responseLines' = <<>>
    /\ UNCHANGED <<m_response, requestLines, received>>

(* The servlet answers.                                                    *)
SetResponseLine ==
    /\ turn.next = "response" /\ Len(responseLines) < MaxLines
    /\ \E key \in Keys, val \in Value :
          /\ response' = [response EXCEPT !.m_mapHeaderLine = Line(@, key, val)]
          /\ responseLines' = Append(responseLines, <<key, val>>)
    /\ UNCHANGED <<m_request, request, m_response, requestLines, received, turn>>

SendResponse ==
    /\ turn.next = "response"
    /\ \E status \in Statuses :
          /\ response' = [response EXCEPT !.m_nStatusCode = status[1], !.m_strStatusMsg = status[2]]
          /\ m_response' = UnpackResponse(m_response, PackResponse(response'))
    /\ received' = received \o responseLines
    /\ turn' = [turn EXCEPT !.next = "request"]
    /\ UNCHANGED <<m_request, request, requestLines, responseLines>>

Next == SetRequestLine \/ SendRequest \/ SetResponseLine \/ SendResponse

Spec == Init /\ [][Next]_vars

-----------------------------------------------------------------------------
SameKey(key, other) == ToLower(key) = ToLower(other)

(* Every line set, however its key is written, is there with the value it
   was set to last, and there is no other.                                 *)
HoldsLines(map, set) ==
    /\ \A p \in DOMAIN set :
          (\A q \in (p + 1)..Len(set) : ~SameKey(set[p][1], set[q][1]))
             => LineOf(map, set[p][1]) = set[p][2]
    /\ \A key \in DOMAIN map : \E p \in DOMAIN set : SameKey(key, set[p][1])

(* An argument is a piece between '?' or '&' and '&' or the end of the URI
   with an '='; the last of a name counts.                                 *)
PieceEnd(uri, p) ==
    CHOOSE q \in (p + 1)..(Len(uri) + 1) :
        /\ q = Len(uri) + 1 \/ uri[q] = AMP
        /\ \A r \in (p + 1)..(q - 1) : uri[r] /= AMP
ArgsOf(uri) ==
    LET query  == SelectInSeq(uri, LAMBDA c : c = QUERY)
        starts == {p \in DOMAIN uri : query > 0 /\ (p = query \/ (p > query /\ uri[p] = AMP))}
        Sign(p) == SelectInSubSeq(uri, p + 1, PieceEnd(uri, p) - 1, LAMBDA c : c = EQUALS)
    IN  {<<SubSeq(uri, p + 1, Sign(p) - 1), SubSeq(uri, Sign(p) + 1, PieceEnd(uri, p) - 1), p>> :
            p \in {s \in starts : Sign(s) > 0}}

(* The request the servlet sees is the one the client built: start line,
   every header line and every argument, and nothing of an earlier request
   of the connection (WebServer.cpp:21-170, 402-405).                      *)
RequestArrives ==
    turn.next = "response" =>
        /\ \A field \in {"m_strMethod", "m_strURI", "m_strVersion"} : request[field] = m_request[field]
        /\ HoldsLines(request.m_mapHeaderLine, requestLines)
        /\ LET args == ArgsOf(request.m_strURI)
           IN  /\ \A a \in args :
                     (\A b \in args : b[1] = a[1] => b[3] <= a[3])
                        => a[1] \in DOMAIN request.m_mapArgs /\ request.m_mapArgs[a[1]] = a[2]
               /\ DOMAIN request.m_mapArgs = {a[1] : a \in args}
               /\ IsPrefix(request.m_strURL, request.m_strURI)
               /\ ~Has(request.m_strURL, QUERY)

(* What HttpClientSocket has received is the last response, with the lines
   of earlier ones, which it never empties, where the last has none
   (WebServer.cpp:176-288, 663).                                           *)
ResponseArrives ==
    turn.next = "request" /\ turn.messages > 0 =>
        /\ m_response.m_nStatusCode = response.m_nStatusCode
        /\ m_response.m_strStatusMsg = response.m_strStatusMsg
        /\ HoldsLines(m_response.m_mapHeaderLine, received)
        /\ \A key \in DOMAIN response.m_mapHeaderLine :
              m_response.m_mapHeaderLine[key] = response.m_mapHeaderLine[key]
===============================================================================
