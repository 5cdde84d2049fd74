----------------------------- MODULE HttpFraming -----------------------------
(***************************************************************************)
(* How ServletHandler::IOHandler (src/base/WebServer.cpp) cuts a byte      *)
(* stream into requests: a header that ends in an empty line, then as many *)
(* bytes of body as its Content-Length says, and, when the servlet asks    *)
(* for KeepAlive, the next request from what is already in the cache.      *)
(*                                                                         *)
(* Bytes are symbols: NL is a line end, X any other byte of a body, and    *)
(* the lines of a header are one symbol, the number of the message they    *)
(* belong to.  recv may return any non-empty prefix of what was sent, so   *)
(* every boundary, the middle of the empty line included, is tried.        *)
(***************************************************************************)
EXTENDS Integers, Sequences, FiniteSets, FiniteSetsExt, SequencesExt

CONSTANTS
    NL, X,          \* "\r\n" and any other byte
    MaxMessages,    \* bound: requests on one connection
    MaxLength,      \* bound: Content-Length
    BufSize         \* recv reads at most this much (4096)

Bounds ==
    /\ MaxMessages \in Nat /\ MaxLength \in Nat /\ BufSize \in Nat \ {0}
    /\ {NL, X} \cap Nat = {}       \* no byte of a body is a line of a header

SendResponse == "SendResponse"
KeepAlive    == "KeepAlive"

(* The length a header announces is that of the body, which may well contain
   what looks like the end of a header; or it is negative.                 *)
Body     == UNION {[1..n -> {NL, X}] : n \in 0..MaxLength}
Message  == {[length |-> Len(b), body |-> b] : b \in Body} \cup {[length |-> -1, body |-> <<>>]}
Messages == UNION {[1..n -> Message] : n \in 1..MaxMessages}

Encode(k, m) == <<k, NL, NL>> \o m.body
StreamTo(msgs) ==   \* the stream up to the k-th message
    LET s[k \in 0..Len(msgs)] == IF k = 0 THEN <<>> ELSE s[k - 1] \o Encode(k, msgs[k])
    IN  s
Stream(msgs) == StreamTo(msgs)[Len(msgs)]

VARIABLES
    sent,               \* the messages the client sends
    unread,             \* the part of the stream not yet received
    strCache, bHeaderCompleted, nContentLength,
    request,            \* [lines |-> header lines merged in, body |-> m_strBody]
    served,             \* history: the requests given to OnService
    answered,           \* history: how many responses went out
    running             \* IOHandler has not returned

vars == <<sent, unread, strCache, bHeaderCompleted, nContentLength, request,
          served, answered, running>>

EmptyRequest == [lines |-> {}, body |-> <<>>]

-----------------------------------------------------------------------------
(* strCache.find("\r\n\r\n"): where it ends, 0 when there is none.          *)
HeaderEnd(cache) ==
    LET ends == {p \in 2..Len(cache) : cache[p - 1] = NL /\ cache[p] = NL}
    IN  IF ends = {} THEN 0 ELSE CHOOSE p \in ends : \A q \in ends : p <= q

(* HttpRequest::Unpack adds the lines up to the first empty line to what
   the request already has; whatever is not a header line is skipped.      *)
Unpack(req, cache) ==
    [req EXCEPT !.lines = @ \cup {cache[p] : p \in {q \in 1..HeaderEnd(cache) : cache[q] \in Nat}}]

(* atoi of the Content-Length line: the header's own, 0 without one.       *)
ContentLength(req) ==
    IF req.lines = {} THEN 0
    ELSE sent[CHOOSE k \in req.lines : \A j \in req.lines : j <= k].length

(* substr(0, len) and erase(0, len): a negative length, as a size_t, is
   past every end.                                                         *)
Taken(rest, len) == IF len < 0 THEN Len(rest) ELSE len

(* "bAnother": a whole further header is already in the cache.             *)
Another == strCache /= <<>> /\ ~bHeaderCompleted /\ HeaderEnd(strCache) > 0

Init ==
    /\ sent \in Messages
    /\ unread = Stream(sent)
    /\ strCache = <<>> /\ bHeaderCompleted = FALSE /\ nContentLength = 0
    /\ request = EmptyRequest
    /\ served = <<>> /\ answered = 0
    /\ running = TRUE

(* KeepAlive: forget this request and go on with what is cached behind it. *)
NextRequestMerges(req, cache, len) ==
    /\ strCache' = SubSeq(cache, Taken(cache, len) + 1, Len(cache)) /\ request' = req
    /\ bHeaderCompleted' = FALSE /\ nContentLength' = 0
    /\ UNCHANGED running

NextRequest(req, cache, len) ==
    /\ strCache' = SubSeq(cache, Taken(cache, len) + 1, Len(cache)) /\ request' = EmptyRequest
    /\ bHeaderCompleted' = FALSE /\ nContentLength' = 0
    /\ UNCHANGED running

(* OnService was called with req; its result decides how the turn ends.    *)
Service(req, cache, len) ==
    /\ served' = Append(served, req)
    /\ \E n \in SUBSET {SendResponse, KeepAlive}, delivered \in BOOLEAN :
          /\ answered' = IF SendResponse \in n /\ delivered THEN answered + 1 ELSE answered
          /\ IF (SendResponse \in n => delivered) /\ KeepAlive \in n
             THEN NextRequest(req, cache, len)
             ELSE /\ strCache' = cache /\ request' = req
                  /\ bHeaderCompleted' = TRUE /\ nContentLength' = len
                  /\ running' = FALSE

(* The body is there: "(int)strCache.size() >= nContentLength".             *)
CompleteStrictly(rest, len) == Len(rest) > len

Complete(rest, len) == Len(rest) >= len

(* The part of the turn after recv: header first, then the body.           *)
Turn(cache) ==
    LET new    == ~bHeaderCompleted /\ HeaderEnd(cache) > 0
        header == bHeaderCompleted \/ new
        req    == IF new THEN Unpack(request, cache) ELSE request
        rest   == IF new THEN SubSeq(cache, HeaderEnd(cache) + 1, Len(cache)) ELSE cache
        len    == IF new THEN ContentLength(req) ELSE nContentLength
    IN  IF header /\ Complete(rest, len)
        THEN Service([req EXCEPT !.body = SubSeq(rest, 1, Taken(rest, len))], rest, len)
        ELSE /\ strCache' = rest
             /\ bHeaderCompleted' = header
             /\ nContentLength' = len
             /\ request' = req
             /\ UNCHANGED <<served, answered, running>>

(* One turn of the loop without recv ...                                   *)
TurnOnCache ==
    /\ running /\ Another
    /\ Turn(strCache)
    /\ UNCHANGED <<sent, unread>>

(* ... and with it.                                                        *)
TurnOnRecv ==
    /\ running /\ ~Another
    /\ \E n \in 1..BufSize :
          /\ n <= Len(unread)
          /\ unread' = SubSeq(unread, n + 1, Len(unread))
          /\ Turn(strCache \o SubSeq(unread, 1, n))
    /\ UNCHANGED sent

(* recv returns 0 or -1, or the handler is stopped: break.                 *)
Leave ==
    /\ running
    /\ running' = FALSE
    /\ UNCHANGED <<sent, unread, strCache, bHeaderCompleted, nContentLength,
                   request, served, answered>>

Next == TurnOnCache \/ TurnOnRecv \/ Leave

Spec == Init /\ [][Next]_vars
FairSpec == Spec /\ WF_vars(TurnOnCache) /\ WF_vars(TurnOnRecv)

-----------------------------------------------------------------------------
(* Reference: which messages a received prefix of n symbols completes.     *)
EndOf(k) == Len(StreamTo(sent)[k])
CompleteIn(n) == Cardinality({k \in 1..Len(sent) : EndOf(k) <= n})

Received == Len(Stream(sent)) - Len(unread)

(* The first k messages announce the length they have.                     *)
Sound(k) == \A j \in 1..k : sent[j].length >= 0

TypeOK ==
    /\ sent \in Messages
    /\ strCache \in Seq({NL, X} \cup 1..MaxMessages)
    /\ bHeaderCompleted \in BOOLEAN /\ running \in BOOLEAN
    /\ nContentLength \in -1..MaxLength
    /\ request.lines \subseteq 1..MaxMessages
    /\ request.body \in Seq({NL, X} \cup 1..MaxMessages)
    /\ answered \in 0..Len(served)
    /\ Sound(Len(sent)) => Len(served) <= Len(sent)

(* However the stream is cut, the servlet sees exactly the client's
   messages, in order, each with its own header lines and its own body, up
   to one whose length is negative: that one has its own lines, and as its
   body what came with it (IOHandler, WebServer.cpp:347-414).              *)
ServedAsSent ==
    \A k \in DOMAIN served \cap DOMAIN sent :
        /\ Sound(k) => served[k] = [lines |-> {k}, body |-> sent[k].body]
        /\ Sound(k - 1) /\ ~Sound(k) =>
              /\ served[k].lines = {k}
              /\ IsPrefix(served[k].body, SubSeq(Stream(sent), EndOf(k) + 1, Len(Stream(sent))))

(* The handler never waits in recv for data that would not change the
   outcome: every message it has received whole has been served.           *)
NoStall ==
    running /\ ~Another /\ Sound(Len(sent)) => Len(served) = CompleteIn(Received)

(* Received bytes are never kept twice, nor lost while lengths are not
   negative: what is cached is the tail of what was received.              *)
CacheIsTail ==
    running =>
      LET recvd == SubSeq(Stream(sent), 1, Received)
      IN  /\ IsSuffix(strCache, recvd)
          /\ Sound(Len(sent)) =>
                Len(recvd) - Len(strCache) = EndOf(Len(served)) + IF bHeaderCompleted THEN 3 ELSE 0

(* The connection was left, or every message served, or taken for the body
   of one whose length is negative.                                        *)
Over == ~running \/ Len(served) >= Len(sent) \/ (~Sound(Len(sent)) /\ unread = <<>> /\ ~Another)
=============================================================================
