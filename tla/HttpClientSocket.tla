--------------------------- MODULE HttpClientSocket ---------------------------
(***************************************************************************)
(* HttpClientSocket (src/base/WebServer.cpp): one object, whose owner      *)
(* calls IOHandler again and again, with or without Close() in between.    *)
(* The socket, once connected, stays connected, and m_response is never    *)
(* emptied.  recv returns any prefix of what the server has sent so far.   *)
(*                                                                         *)
(* Bytes are integers: LineEnd, k > 0 for the lines of the header of       *)
(* the k-th response and -k any other byte of its body.                    *)
(***************************************************************************)
EXTENDS Integers, Sequences, FiniteSets, SequencesExt

CONSTANTS
    MaxUses,        \* bound: calls of IOHandler
    MaxLength,      \* bound: length of a body
    BufSize,        \* recv reads at most this much (4096)
    MayFail         \* which of "create", "connect", "send" and "recv" may fail

Bounds == MaxUses \in Nat /\ MaxLength \in Nat /\ BufSize \in Nat \ {0}
Failures == MayFail \subseteq {"create", "connect", "send", "recv"}

LineEnd == 0
NoLine == -1        \* the header has no Content-Length line

(* What the server sends to the k-th request: a header that announces a
   length, or does not, and a body that may be shorter or longer than that.
   A negative length is not among them: with it the range RecvResponse
   appends to m_strBody is inverted, and the call does not succeed unless
   OnBody takes the body (WebServer.cpp:663-668).                          *)
Response(k) ==
    [length : 0..MaxLength \cup {NoLine},
     body   : UNION {[1..n -> {LineEnd, -k}] : n \in 0..MaxLength}]
Encode(k, r) == <<k, LineEnd, LineEnd>> \o r.body

VARIABLES
    pc,                     \* "idle", "connect", "send", "header", "body"
    sock,                   \* "invalid", "fresh" or "connected"
    unread, eof,            \* sent by the server and not received; no more will come
    use,                    \* calls of IOHandler so far
    sent,                   \* [1..MaxUses -> responses]: what the server answered
    lines, length, m_strBody,   \* m_response: its lines, their Content-Length
    consumes,               \* what OnBody of this class returns
    strCache, nRecv, nContentLength,    \* locals of RecvResponse
    given,                  \* history: the bytes OnBody got in this use
    ok                      \* what IOHandler returned last

connVars == <<sock, unread, eof>>
responseVars == <<lines, length, m_strBody>>
localVars == <<strCache, nRecv, nContentLength>>
vars == <<pc, connVars, use, sent, responseVars, consumes, localVars, given, ok>>

NoResponse == [length |-> NoLine, body |-> <<>>]

Init ==
    /\ pc = "idle" /\ sock = "invalid" /\ unread = <<>> /\ eof = FALSE
    /\ use = 0 /\ sent = [k \in 1..MaxUses |-> NoResponse]
    /\ lines = {} /\ length = NoLine /\ m_strBody = <<>>
    /\ consumes \in BOOLEAN
    /\ strCache = <<>> /\ nRecv = 0 /\ nContentLength = 0
    /\ given = <<>> /\ ok = FALSE

Return(b) == pc' = "idle" /\ ok' = b

-----------------------------------------------------------------------------
(* IOHandler: a socket is created only when there is none ...              *)
IOHandler ==
    /\ pc = "idle" /\ use < MaxUses
    /\ use' = use + 1
    /\ given' = <<>>
    /\ \/ /\ sock = "invalid" /\ "create" \in MayFail
          /\ Return(FALSE) /\ UNCHANGED sock
       \/ /\ sock' = IF sock = "invalid" THEN "fresh" ELSE sock
          /\ pc' = "connect" /\ UNCHANGED ok
    /\ UNCHANGED <<unread, eof, sent, responseVars, consumes, localVars>>

(* ... and connect fails on a socket that is connected already.            *)
ConnectUnlessConnected ==
    /\ pc = "connect"
    /\ \/ sock = "fresh" /\ sock' = "connected" /\ unread' = <<>> /\ eof' = FALSE
       \/ sock = "connected" /\ UNCHANGED connVars
    /\ pc' = "send"
    /\ UNCHANGED <<use, sent, responseVars, consumes, localVars, given, ok>>

Connect ==
    /\ pc = "connect" /\ sock = "fresh"
    /\ sock' = "connected" /\ unread' = <<>> /\ eof' = FALSE
    /\ pc' = "send"
    /\ UNCHANGED <<use, sent, responseVars, consumes, localVars, given, ok>>

ConnectFails ==
    /\ pc = "connect" /\ (sock = "connected" \/ "connect" \in MayFail)
    /\ Return(FALSE)
    /\ UNCHANGED <<connVars, use, sent, responseVars, consumes, localVars, given>>

(* SendRequest: the server has the request and sends its response.         *)
SendRequest ==
    /\ pc = "send"
    /\ \E r \in Response(use) :
          /\ sent' = [sent EXCEPT ![use] = r]
          /\ unread' = unread \o Encode(use, r)
    /\ strCache' = <<>>
    /\ pc' = "header"
    /\ UNCHANGED <<sock, eof, use, responseVars, consumes, nRecv, nContentLength, given, ok>>

SendFails ==
    /\ pc = "send" /\ "send" \in MayFail
    /\ Return(FALSE)
    /\ UNCHANGED <<connVars, use, sent, responseVars, consumes, localVars, given>>

-----------------------------------------------------------------------------
(* RecvResponse                                                            *)

HeaderEnd(cache) ==
    LET ends == {p \in 2..Len(cache) : cache[p - 1] = LineEnd /\ cache[p] = LineEnd}
    IN  IF ends = {} THEN 0 ELSE CHOOSE p \in ends : \A q \in ends : p <= q

(* The lines of a header are added to those m_response has; a Content-Length
   replaces the one it has, none leaves it.                                *)
HeadersIn(cache) == {cache[p] : p \in {q \in 1..HeaderEnd(cache) : cache[q] > 0}}
LengthAfter(cache) ==
    LET told == {k \in HeadersIn(cache) : sent[k].length /= NoLine}
    IN  IF told = {} THEN length ELSE sent[CHOOSE k \in told : TRUE].length

(* (long long)atof(Line("Content-Length")): 0 without one.                 *)
ContentLength(l) == IF l = NoLine THEN 0 ELSE l

(* OnBody(buf), or else m_strBody.append(buf).                             *)
Keep(bytes) ==
    /\ given' = given \o bytes
    /\ m_strBody' = IF consumes THEN m_strBody ELSE m_strBody \o bytes

(* min(nRecv, nContentLength), min(nContentLength - nRecv, ret)            *)
AtMost(n, limit) == IF n < limit THEN n ELSE limit

Chunk(n) == n \in 1..BufSize /\ n <= Len(unread) /\ unread' = SubSeq(unread, n + 1, Len(unread))

(* while (nRecv < nContentLength)                                          *)
Incomplete(n, len) == n < len

RecvHeader ==
    /\ pc = "header"
    /\ \E n \in 1..Len(unread) :
          /\ Chunk(n)
          /\ LET cache == strCache \o SubSeq(unread, 1, n)
                 rest  == SubSeq(cache, HeaderEnd(cache) + 1, Len(cache))
                 len   == ContentLength(LengthAfter(cache))
             IN  IF HeaderEnd(cache) = 0
                 THEN /\ strCache' = cache
                      /\ UNCHANGED <<pc, responseVars, nRecv, nContentLength, given, ok>>
                 ELSE /\ strCache' = rest
                      /\ lines' = lines \cup HeadersIn(cache)
                      /\ length' = LengthAfter(cache)
                      /\ Keep(SubSeq(rest, 1, AtMost(Len(rest), len)))
                      /\ nRecv' = Len(rest) /\ nContentLength' = len
                      /\ IF Incomplete(Len(rest), len) THEN pc' = "body" /\ UNCHANGED ok ELSE Return(TRUE)
    /\ UNCHANGED <<sock, eof, use, sent, consumes>>

RecvBody ==
    /\ pc = "body"
    /\ \E n \in 1..Len(unread) :
          /\ Chunk(n)
          /\ LET m == AtMost(n, nContentLength - nRecv)
             IN  /\ Keep(SubSeq(unread, 1, m))
                 /\ nRecv' = nRecv + m
                 /\ IF Incomplete(nRecv + m, nContentLength) THEN UNCHANGED <<pc, ok>> ELSE Return(TRUE)
    /\ UNCHANGED <<sock, eof, use, sent, lines, length, consumes, strCache, nContentLength>>

(* recv returns 0 or -1: what came so far stays in m_response.             *)
RecvEnds ==
    /\ pc \in {"header", "body"}
    /\ (eof /\ unread = <<>>) \/ "recv" \in MayFail
    /\ Return(FALSE)
    /\ UNCHANGED <<connVars, use, sent, responseVars, consumes, localVars, given>>

-----------------------------------------------------------------------------
(* The owner closes the socket between two uses ...                        *)
Close ==
    /\ pc = "idle" /\ sock /= "invalid"
    /\ sock' = "invalid" /\ unread' = <<>> /\ eof' = FALSE
    /\ UNCHANGED <<pc, use, sent, responseVars, consumes, localVars, given, ok>>

(* ... and the server closes the connection when it likes.                 *)
HangUp ==
    /\ sock = "connected" /\ ~eof
    /\ eof' = TRUE
    /\ UNCHANGED <<pc, sock, unread, use, sent, responseVars, consumes, localVars, given, ok>>

Call == Connect \/ ConnectFails \/ SendRequest \/ SendFails \/ RecvHeader \/ RecvBody \/ RecvEnds

Next == IOHandler \/ Call \/ Close \/ HangUp

Spec == Init /\ [][Next]_vars

(* The thread in IOHandler is scheduled.  It has no time limit: a server
   that neither sends nor closes would hold it, so the server closes in the
   end, as ServletHandler does after its answer.                           *)
FairSpec == Spec /\ WF_vars(Call) /\ WF_vars(HangUp)

-----------------------------------------------------------------------------
TypeOK ==
    /\ pc \in {"idle", "connect", "send", "header", "body"}
    /\ sock \in {"invalid", "fresh", "connected"}
    /\ pc \in {"send", "header", "body"} => sock = "connected"
    /\ eof \in BOOLEAN /\ ok \in BOOLEAN /\ consumes \in BOOLEAN
    /\ use \in 0..MaxUses /\ lines \subseteq 1..use
    /\ \A k \in 1..MaxUses : sent[k] \in Response(k) \cup {NoResponse}
    /\ length \in 0..MaxLength \cup {NoLine}
    /\ nContentLength \in 0..MaxLength /\ nRecv \in Nat
    /\ pc = "body" => nRecv < nContentLength

(* IOHandler returns true only with exactly the announced part of the body
   of the response to this very request, however it was cut and whatever
   earlier uses left in the socket; m_strBody ends with it unless OnBody
   took it.  A response without Content-Length that comes after one with it
   is not covered: the object still has the old line (WebServer.cpp:586-689). *)
BodyIsOfThisResponse ==
    pc = "idle" /\ ok /\ use > 0 /\ sent[use].length /= NoLine =>
        /\ Len(given) = sent[use].length
        /\ IsPrefix(given, sent[use].body)
        /\ ~consumes => IsSuffix(given, m_strBody)

(* What a use that failed put into m_strBody is not taken back, but never
   more than the announced length, and it is the beginning of that body.   *)
PartIsPrefix ==
    given /= <<>> /\ sent[use].length /= NoLine =>
        /\ Len(given) <= sent[use].length
        /\ IsPrefix(given, sent[use].body)

(* A call of IOHandler has not returned.                                   *)
InIOHandler == pc /= "idle"
=============================================================================
