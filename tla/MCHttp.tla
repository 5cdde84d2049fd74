-------------------------------- MODULE MCHttp --------------------------------
(***************************************************************************)
(* Small instances of the two ends of HTTP, ServletHandler as the server   *)
(* and HttpClientSocket as the client, and of the texts they exchange.     *)
(* They share nothing, so a behaviour is one's, chosen at the start; the   *)
(* variables it does not use hold IDLE.  Variables of the same name serve  *)
(* both ends, and the server's those of the texts.                         *)
(***************************************************************************)
EXTENDS Integers, Sequences, TLC

CONSTANTS NL, X, MaxMessages, MaxUses, MaxLength, BufSize, MayFail,
          SPACE, COLON, QUERY, AMP, EQUALS, SLASH, POST, HTTP10, OK,    \* of the texts
          KEY, LowerKEY, IDLE

VARIABLES
    end,                                            \* "server", "client" or "texts"
    sent, unread, strCache, nContentLength,         \* both ends
    bHeaderCompleted, request, served, answered, running,   \* the server
    pc, sock, eof, use, lines, length, m_strBody, consumes, nRecv, given, ok

serverOnly == <<bHeaderCompleted, request, served, answered, running>>
clientOnly == <<pc, sock, eof, use, lines, length, m_strBody, consumes, nRecv, given, ok>>
vars == <<end, sent, unread, strCache, nContentLength, serverOnly, clientOnly>>

Server == INSTANCE HttpFraming
Client == INSTANCE HttpClientSocket
Texts == INSTANCE HttpMessage WITH
    m_request <- sent, response <- unread, m_response <- strCache,
    requestLines <- nContentLength, responseLines <- bHeaderCompleted,
    received <- served, turn <- answered,
    LowerOf <- (KEY :> LowerKEY), Keys <- {<<KEY>>, <<LowerKEY>>, <<LowerKEY, X>>},
    Values <- {<<X, COLON, SPACE, X>>}, Numbers <- {207},
    URIs <- {<<SLASH, X>>,
             <<SLASH, X, QUERY, X, EQUALS, X, EQUALS, AMP, AMP, KEY, AMP, X, EQUALS, KEY>>},
    Statuses <- {<<404, <<X, SPACE, X>>>>},
    MaxLines <- 1, MaxMessages <- 2

ASSUME ServerBounds == Server!Bounds
ASSUME ClientBounds == Client!Bounds /\ Client!Failures
ASSUME TextBounds == Texts!Bounds

ServerStep(A) == end = "server" /\ A /\ UNCHANGED <<end, clientOnly>>
ClientStep(A) == end = "client" /\ A /\ UNCHANGED <<end, serverOnly>>
TextStep(A)   == end = "texts" /\ A /\ UNCHANGED <<end, running, clientOnly>>

ServerIdle ==
    /\ bHeaderCompleted = IDLE /\ request = IDLE /\ served = IDLE
    /\ answered = IDLE /\ running = IDLE
ClientIdle ==
    /\ pc = IDLE /\ sock = IDLE /\ eof = IDLE /\ use = IDLE /\ lines = IDLE
    /\ length = IDLE /\ m_strBody = IDLE /\ consumes = IDLE /\ nRecv = IDLE
    /\ given = IDLE /\ ok = IDLE

Init ==
    \/ end = "server" /\ Server!Init /\ ClientIdle
    \/ end = "client" /\ Client!Init /\ ServerIdle
    \/ end = "texts" /\ Texts!Init /\ running = IDLE /\ ClientIdle

Next ==
    \/ ServerStep(Server!TurnOnCache) \/ ServerStep(Server!TurnOnRecv) \/ ServerStep(Server!Leave)
    \/ ClientStep(Client!IOHandler) \/ ClientStep(Client!Call)
    \/ ClientStep(Client!Close) \/ ClientStep(Client!HangUp)
    \/ TextStep(Texts!Next)

(* The fairness of each end.                                               *)
Spec ==
    /\ Init /\ [][Next]_vars
    /\ WF_vars(ServerStep(Server!TurnOnCache)) /\ WF_vars(ServerStep(Server!TurnOnRecv))
    /\ WF_vars(ClientStep(Client!Call)) /\ WF_vars(ClientStep(Client!HangUp))

-----------------------------------------------------------------------------
(* However recv cuts the stream, the servlet sees the client's messages in
   order, each with its own header and body; the cache is the rest of what
   was received and holds no whole message when the handler waits for more
   (WebServer.cpp:347-414).                                                *)
ServedAsSent ==
    end = "server" =>
        Server!TypeOK /\ Server!ServedAsSent /\ Server!CacheIsTail /\ Server!NoStall

(* IOHandler of the client returns true only with the body of the response
   to this very request, and keeps a prefix of it, never more than was
   announced, also when recv fails (WebServer.cpp:586-689).                *)
BodyIsOfThisResponse ==
    end = "client" =>
        Client!TypeOK /\ Client!BodyIsOfThisResponse /\ Client!PartIsPrefix

(* Start line, header lines and arguments of what one side unpacks are
   those the other packed (WebServer.cpp:21-288).                          *)
TextsArrive == end = "texts" => Texts!RequestArrives /\ Texts!ResponseArrives

(* A connection kept alive is served to the last message, and the client's
   IOHandler returns when the server closes in the end.                    *)
ExchangesEnd ==
    /\ <>(end = "server" => Server!Over)
    /\ (end = "client" /\ Client!InIOHandler) ~> (end = "client" => ~Client!InIOHandler)
===============================================================================
