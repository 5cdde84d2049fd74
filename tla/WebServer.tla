------------------------------ MODULE WebServer ------------------------------
(***************************************************************************)
(* The thread pool of src/base/WebServer.cpp: the acceptor thread of a     *)
(* WebServer, the ServletHandler threads it hands connections to, the      *)
(* owner that starts and stops the server, and the descriptor table of the *)
(* process they share.  Every plain field (m_bIdle, m_bStop, m_hSocket,    *)
(* m_pServlet) is read and written without a lock in the code, so each     *)
(* access that another thread can observe is a step of its own.            *)
(*                                                                         *)
(* What a request says is left out (HttpFraming models it): a request is   *)
(* Chunks pieces of data, complete once all of them are received.          *)
(***************************************************************************)
EXTENDS Integers, Sequences, FiniteSets, TLC

CONSTANTS
    Handler,        \* addresses a ServletHandler can be allocated at
    Server,         \* the WebServer object
    Conn,           \* connections that clients open
    NONE,           \* null pointer, no connection
    Listening,      \* table entry: the server's own socket
    Foreign,        \* table entry: a file or socket of another component
    Free,           \* table entry: unused
    MaxFd,          \* bound: size of the descriptor table (RLIMIT_NOFILE)
    MaxForeign,     \* bound: descriptors other components hold at once
    m_nMaxThread,   \* WebServer(nMaxThread), 8 by default
    Chunks,         \* bound: pieces a request arrives in
    MaxStarts,      \* bound: calls of WebServer::Start
    MayFail         \* system calls other than accept may fail

ASSUME PoolSize == m_nMaxThread \in Nat
ASSUME TableSize == MaxFd \in Nat
ASSUME Objects == Server \notin Handler /\ NONE \notin Handler \cup Conn
ASSUME Entries == /\ {Listening, Foreign, Free} \cap Conn = {}
                  /\ Listening /= Foreign /\ Listening /= Free /\ Foreign /= Free
ASSUME Bounds == /\ Chunks \in Nat \ {0} /\ MaxStarts \in Nat /\ MaxForeign \in Nat
                 /\ MayFail \in BOOLEAN

INVALID_SOCKET == -1
FD     == 0..(MaxFd - 1)
SOCKET == FD \cup {INVALID_SOCKET}
Object == Handler \cup {Server}

VARIABLES
    m_bStop,        \* [Object -> BOOLEAN]
    m_hSocket,      \* [Object -> SOCKET], the Socket base of each object
    pc,             \* [Object -> label]: where the object's thread is; "none"
                    \* is m_hThread = NULL, "exit" a thread not yet joined
    m_bIdle,        \* [Handler -> BOOLEAN]
    m_pServlet,     \* [Handler -> BOOLEAN]: set to the servlet or still NULL
    cache,          \* [Handler -> 0..Chunks]: strCache of IOHandler
    rx,             \* [Handler -> Conn or NONE]: where strCache came from; the
                    \* kernel keeps it alive while the thread is in recv
    m_vecHandler,   \* Seq(Handler)
    s, i, cur,      \* acceptor: accepted socket, loop index, pHandler
    owner, d,       \* owner: where it is in Start/Stop, loop index of Stop
    starts,         \* calls of Start so far
    file,           \* [FD -> table entry]
    phase,          \* [Conn -> "new", "queued", "taken", "dropped"]
    togo, wire,     \* [Conn -> 0..Chunks]: not yet sent, sent but not received
    eof,            \* [Conn -> BOOLEAN]: the client closed its end
    answers         \* [Conn -> SUBSET Conn]: requests answered on it

objVars    == <<m_bStop, m_hSocket, m_bIdle, m_pServlet, m_vecHandler>>
cacheVars  == <<cache, rx>>
acceptVars == <<s, i, cur>>
ownerVars  == <<owner, d, starts>>
netVars    == <<phase, togo, wire, eof, answers>>
vars == <<pc, objVars, cacheVars, acceptVars, ownerVars, file, netVars>>

(* A step that only moves a thread on.                                     *)
OnlyPc == UNCHANGED <<objVars, cacheVars, acceptVars, ownerVars, file, netVars>>

Pool == {m_vecHandler[n] : n \in 1..Len(m_vecHandler)}

Goto(o, label) == pc' = [pc EXCEPT ![o] = label]

IsLowestFree(f) ==
    /\ f \in FD
    /\ file[f] = Free
    /\ \A g \in FD : g < f => file[g] /= Free

TableFull == \A f \in FD : file[f] /= Free

(* The connection a call on the handler's socket reaches, if any.          *)
Peer(h) == IF m_hSocket[h] \in FD /\ file[m_hSocket[h]] \in Conn
           THEN file[m_hSocket[h]] ELSE NONE

(* closesocket(f): an invalid or unused descriptor is EBADF and ignored.   *)
CloseFd(f) == file' = [g \in FD |-> IF g = f THEN Free ELSE file[g]]

-----------------------------------------------------------------------------
(* Clients and the other components of the process.                        *)

Connect(c) ==
    /\ phase[c] = "new"
    /\ \E f \in FD : file[f] = Listening
    /\ phase' = [phase EXCEPT ![c] = "queued"]
    /\ UNCHANGED <<pc, objVars, cacheVars, acceptVars, ownerVars, file, togo,
                   wire, eof, answers>>

Transmit(c) ==
    /\ phase[c] \in {"queued", "taken"}
    /\ togo[c] > 0 /\ ~eof[c]
    /\ togo' = [togo EXCEPT ![c] = @ - 1]
    /\ wire' = [wire EXCEPT ![c] = @ + 1]
    /\ UNCHANGED <<pc, objVars, cacheVars, acceptVars, ownerVars, file, phase,
                   eof, answers>>

HangUp(c) ==
    /\ phase[c] \in {"queued", "taken"}
    /\ ~eof[c]
    /\ eof' = [eof EXCEPT ![c] = TRUE]
    /\ UNCHANGED <<pc, objVars, cacheVars, acceptVars, ownerVars, file, phase,
                   togo, wire, answers>>

(* The log writer reopening its file, a UDP socket, a Redis connection.    *)
ForeignOpen ==
    /\ Cardinality({f \in FD : file[f] = Foreign}) < MaxForeign
    /\ \E f \in FD : IsLowestFree(f) /\ file' = [file EXCEPT ![f] = Foreign]
    /\ UNCHANGED <<pc, objVars, cacheVars, acceptVars, ownerVars, netVars>>

ForeignClose ==
    /\ \E f \in FD : file[f] = Foreign /\ CloseFd(f)
    /\ UNCHANGED <<pc, objVars, cacheVars, acceptVars, ownerVars, netVars>>

-----------------------------------------------------------------------------
(* The acceptor: WebServer::Routine, CWebService::OnAccept, JoinThread.    *)

AcceptorLoop ==
    /\ pc[Server] = "loop"
    /\ Goto(Server, IF m_bStop[Server] THEN "exit" ELSE "select")
    /\ OnlyPc

(* select: the 500 ms pass, a client is waiting, or the call is interrupted
   (SIGINT is handled, so it returns EINTR and the loop ends).             *)
Select ==
    /\ pc[Server] = "select"
    /\ \/ (\A c \in Conn : phase[c] /= "queued") /\ Goto(Server, "loop")
       \/ (\E c \in Conn : phase[c] = "queued") /\ Goto(Server, "accept")
       \/ MayFail /\ Goto(Server, "exit")
    /\ OnlyPc

(* Mutants of the next definitions, each a slip the code could contain; a
   property has to notice every one of them.                               *)
AcceptGivesUp ==
    /\ pc[Server] = "accept"
    /\ \/ \E c \in Conn, f \in FD :
             /\ phase[c] = "queued" /\ IsLowestFree(f)
             /\ phase' = [phase EXCEPT ![c] = "taken"]
             /\ file' = [file EXCEPT ![f] = c]
             /\ s' = f /\ i' = 1
             /\ Goto(Server, "scan")
       \/ TableFull /\ Goto(Server, "exit") /\ UNCHANGED <<s, i, file, phase>>
    /\ UNCHANGED <<objVars, cacheVars, cur, ownerVars, togo, wire, eof, answers>>

Accept ==
    /\ pc[Server] = "accept"
    /\ \/ \E c \in Conn, f \in FD :
             /\ phase[c] = "queued"
             /\ IsLowestFree(f)
             /\ phase' = [phase EXCEPT ![c] = "taken"]
             /\ file' = [file EXCEPT ![f] = c]
             /\ s' = f /\ i' = 1
             /\ Goto(Server, "scan")
       \/ /\ TableFull            \* EMFILE: OnAccept logs and returns
          /\ Goto(Server, "loop")
          /\ UNCHANGED <<s, i, file, phase>>
    /\ UNCHANGED <<objVars, cacheVars, cur, ownerVars, togo, wire, eof,
                   answers>>

ScanPastLimit ==        \* size() > m_nMaxThread
    /\ pc[Server] = "scan"
    /\ \/ /\ i <= Len(m_vecHandler) /\ m_bIdle[m_vecHandler[i]]
          /\ cur' = m_vecHandler[i]
          /\ Goto(Server, "attach") /\ UNCHANGED i
       \/ /\ i <= Len(m_vecHandler) /\ ~m_bIdle[m_vecHandler[i]]
          /\ i' = i + 1 /\ UNCHANGED <<pc, cur>>
       \/ /\ i > Len(m_vecHandler)
          /\ Goto(Server, IF Len(m_vecHandler) > m_nMaxThread THEN "reject" ELSE "new")
          /\ UNCHANGED <<i, cur>>
    /\ UNCHANGED <<objVars, cacheVars, s, ownerVars, file, netVars>>

ScanIgnoresIdle ==      \* the test of Idle() is missing
    /\ pc[Server] = "scan"
    /\ IF i <= Len(m_vecHandler)
       THEN cur' = m_vecHandler[i] /\ Goto(Server, "attach")
       ELSE cur' = cur /\ Goto(Server, "new")
    /\ UNCHANGED <<objVars, cacheVars, s, i, ownerVars, file, netVars>>

(* One turn of JoinThread's loop reads one handler's m_bIdle.              *)
Scan ==
    /\ pc[Server] = "scan"
    /\ \/ /\ i <= Len(m_vecHandler)
          /\ \/ /\ m_bIdle[m_vecHandler[i]]
                /\ cur' = m_vecHandler[i]
                /\ Goto(Server, "attach")
                /\ UNCHANGED i
             \/ /\ ~m_bIdle[m_vecHandler[i]]
                /\ i' = i + 1
                /\ UNCHANGED <<pc, cur>>
       \/ /\ i > Len(m_vecHandler)
          /\ Goto(Server, IF Len(m_vecHandler) >= m_nMaxThread THEN "reject" ELSE "new")
          /\ UNCHANGED <<i, cur>>
    /\ UNCHANGED <<objVars, cacheVars, s, ownerVars, file, netVars>>

RejectForgets ==        \* no `Socket tmp(s)`
    /\ pc[Server] = "reject"
    /\ s' = INVALID_SOCKET
    /\ Goto(Server, "loop")
    /\ UNCHANGED <<objVars, cacheVars, i, cur, ownerVars, file, netVars>>

(* JoinThread returned false: `Socket tmp(s)` closes the connection.       *)
Reject ==
    /\ pc[Server] = "reject"
    /\ CloseFd(s)
    /\ s' = INVALID_SOCKET
    /\ Goto(Server, "loop")
    /\ UNCHANGED <<objVars, cacheVars, i, cur, ownerVars, netVars>>

(* new ServletHandler: the constructor starts the thread and ignores what
   Run() returns.                                                          *)
NewHandler ==
    /\ pc[Server] = "new"
    /\ \E h \in Handler \ Pool :
          /\ pc[h] = "none"
          /\ cur' = h
          /\ m_bIdle' = [m_bIdle EXCEPT ![h] = TRUE]
          /\ m_pServlet' = [m_pServlet EXCEPT ![h] = FALSE]
          /\ m_bStop' = [m_bStop EXCEPT ![h] = FALSE]
          /\ m_hSocket' = [m_hSocket EXCEPT ![h] = INVALID_SOCKET]
          /\ \E started \in {TRUE} \cup {~MayFail} :
                pc' = [pc EXCEPT ![Server] = "attach", ![h] = IF started THEN "top" ELSE "none"]
    /\ UNCHANGED <<m_vecHandler, cacheVars, s, i, ownerVars, file, netVars>>

StartIdleFirst ==       \* m_bIdle = false stored before the rest
    /\ pc[Server] = "attach"
    /\ m_bIdle' = [m_bIdle EXCEPT ![cur] = FALSE]
    /\ m_hSocket' = [m_hSocket EXCEPT ![cur] = s]
    /\ s' = INVALID_SOCKET
    /\ Goto(Server, "servlet")
    /\ UNCHANGED <<m_bStop, m_pServlet, m_vecHandler, cacheVars, i, cur,
                   ownerVars, file, netVars>>

(* ServletHandler::Start, one store at a time.                             *)
StartAttach ==
    /\ pc[Server] = "attach"
    /\ m_hSocket' = [m_hSocket EXCEPT ![cur] = s]
    /\ s' = INVALID_SOCKET
    /\ Goto(Server, "servlet")
    /\ UNCHANGED <<m_bStop, m_bIdle, m_pServlet, m_vecHandler, cacheVars, i,
                   cur, ownerVars, file, netVars>>

StartServlet ==
    /\ pc[Server] = "servlet"
    /\ m_pServlet' = [m_pServlet EXCEPT ![cur] = TRUE]
    /\ Goto(Server, "busy")
    /\ UNCHANGED <<m_bStop, m_hSocket, m_bIdle, m_vecHandler, cacheVars,
                   acceptVars, ownerVars, file, netVars>>

StartBusy ==
    /\ pc[Server] = "busy"
    /\ m_bIdle' = [m_bIdle EXCEPT ![cur] = FALSE]
    /\ Goto(Server, "push")
    /\ UNCHANGED <<m_bStop, m_hSocket, m_pServlet, m_vecHandler, cacheVars,
                   acceptVars, ownerVars, file, netVars>>

(* Only a new handler is pushed; both ways the loop starts again.          *)
Push ==
    /\ pc[Server] = "push"
    /\ m_vecHandler' = IF cur \in Pool THEN m_vecHandler ELSE Append(m_vecHandler, cur)
    /\ cur' = NONE
    /\ Goto(Server, "loop")
    /\ UNCHANGED <<m_bStop, m_hSocket, m_bIdle, m_pServlet, cacheVars, s, i,
                   ownerVars, file, netVars>>

Acceptor ==
    \/ AcceptorLoop \/ Select \/ Accept \/ Scan \/ Reject \/ NewHandler
    \/ StartAttach \/ StartServlet \/ StartBusy \/ Push

-----------------------------------------------------------------------------
(* A pool thread: ServletHandler::Routine and IOHandler.                   *)

Top(h) ==
    /\ pc[h] = "top"
    /\ Goto(h, IF m_bStop[h] THEN "exit" ELSE "poll")
    /\ OnlyPc

Poll(h) ==
    /\ pc[h] = "poll"
    /\ \/ m_bIdle[h] /\ Goto(h, "top") /\ UNCHANGED cacheVars
       \/ /\ ~m_bIdle[h]
          /\ cache' = [cache EXCEPT ![h] = 0]
          /\ rx' = [rx EXCEPT ![h] = NONE]
          /\ Goto(h, "loop")
    /\ UNCHANGED <<objVars, acceptVars, ownerVars, file, netVars>>

IOLoop(h) ==
    /\ pc[h] = "loop"
    /\ Goto(h, IF m_bStop[h] THEN "close" ELSE "recv")
    /\ OnlyPc

(* Entering recv: the descriptor is looked up once; a later close of it
   does not wake the call.                                                 *)
RecvEnter(h) ==
    /\ pc[h] = "recv"
    /\ \/ /\ Peer(h) /= NONE
          /\ rx' = [rx EXCEPT ![h] = Peer(h)]
          /\ Goto(h, "blocked")
       \/ /\ Peer(h) = NONE
          /\ Goto(h, "close")
          /\ UNCHANGED rx
    /\ UNCHANGED <<objVars, cache, acceptVars, ownerVars, file, netVars>>

(* recv returns some of the data, or 0 or -1 once the client is gone.      *)
RecvReturn(h) ==
    /\ pc[h] = "blocked"
    /\ \/ \E n \in 1..wire[rx[h]] :
             /\ cache' = [cache EXCEPT ![h] = @ + n]
             /\ wire' = [wire EXCEPT ![rx[h]] = @ - n]
             /\ Goto(h, IF cache[h] + n >= Chunks THEN "service" ELSE "loop")
       \/ /\ eof[rx[h]]
          /\ Goto(h, "close")
          /\ UNCHANGED <<cache, wire>>
    /\ UNCHANGED <<objVars, rx, acceptVars, ownerVars, file, phase, togo, eof,
                   answers>>

(* CWebService::OnService returns SendResponse without KeepAlive, so the
   connection ends here whether the send succeeds or not.                  *)
Respond(h) ==
    /\ pc[h] = "service"
    /\ Goto(h, "close")
    /\ \/ /\ Peer(h) /= NONE
          /\ answers' = [answers EXCEPT ![Peer(h)] = @ \cup {rx[h]}]
       \/ /\ Peer(h) /= NONE => eof[Peer(h)]
          /\ UNCHANGED answers
    /\ UNCHANGED <<objVars, cacheVars, acceptVars, ownerVars, file, phase,
                   togo, wire, eof>>

IdleBeforeClose(h) ==   \* m_bIdle = true stored before Close()
    /\ pc[h] = "close"
    /\ Goto(h, IF m_hSocket[h] /= INVALID_SOCKET THEN "closesocket" ELSE "idle")
    /\ m_bIdle' = [m_bIdle EXCEPT ![h] = TRUE]
    /\ UNCHANGED <<m_bStop, m_hSocket, m_pServlet, m_vecHandler, cacheVars,
                   acceptVars, ownerVars, file, netVars>>

(* Socket::Close: the test, the system call and the store.                 *)
CloseTest(h) ==
    /\ pc[h] = "close"
    /\ Goto(h, IF m_hSocket[h] /= INVALID_SOCKET THEN "closesocket" ELSE "idle")
    /\ OnlyPc

CloseCall(h) ==
    /\ pc[h] = "closesocket"
    /\ CloseFd(m_hSocket[h])
    /\ Goto(h, "invalidate")
    /\ UNCHANGED <<objVars, cacheVars, acceptVars, ownerVars, netVars>>

CloseKeepsHandle(h) ==  \* Close() does not reset m_hSocket
    /\ pc[h] = "invalidate"
    /\ Goto(h, "idle")
    /\ OnlyPc

CloseStore(h) ==
    /\ pc[h] = "invalidate"
    /\ m_hSocket' = [m_hSocket EXCEPT ![h] = INVALID_SOCKET]
    /\ Goto(h, "idle")
    /\ UNCHANGED <<m_bStop, m_bIdle, m_pServlet, m_vecHandler, cacheVars,
                   acceptVars, ownerVars, file, netVars>>

BecomeIdle(h) ==
    /\ pc[h] = "idle"
    /\ m_bIdle' = [m_bIdle EXCEPT ![h] = TRUE]
    /\ Goto(h, "top")
    /\ UNCHANGED <<m_bStop, m_hSocket, m_pServlet, m_vecHandler, cacheVars,
                   acceptVars, ownerVars, file, netVars>>

Routine(h) ==
    \/ Top(h) \/ Poll(h) \/ IOLoop(h) \/ RecvEnter(h) \/ RecvReturn(h) \/ Respond(h)
    \/ CloseTest(h) \/ CloseCall(h) \/ CloseStore(h) \/ BecomeIdle(h)

-----------------------------------------------------------------------------
(* The owner of the server: WebServer::Start and Stop.                     *)

(* The thread may fail to start, or a call before it: the owner ignores
   what Start returns, and the socket stays open until Stop.               *)
Start ==
    /\ owner = "down"
    /\ starts < MaxStarts
    /\ starts' = starts + 1
    /\ owner' = "up"
    /\ \/ \E f \in FD :
             /\ IsLowestFree(f)
             /\ file' = [file EXCEPT ![f] = Listening]
             /\ m_hSocket' = [m_hSocket EXCEPT ![Server] = f]
             /\ m_bStop' = [m_bStop EXCEPT ![Server] = FALSE]
             /\ \/ Goto(Server, "loop")
                \/ MayFail /\ UNCHANGED pc
       \/ TableFull /\ UNCHANGED <<pc, m_bStop, m_hSocket, file>>
    /\ UNCHANGED <<m_bIdle, m_pServlet, m_vecHandler, cacheVars, acceptVars,
                   d, netVars>>

StopFlag ==
    /\ owner = "up"
    /\ m_bStop' = [m_bStop EXCEPT ![Server] = TRUE]
    /\ owner' = "join"
    /\ UNCHANGED <<pc, m_hSocket, m_bIdle, m_pServlet, m_vecHandler,
                   cacheVars, acceptVars, d, starts, file, netVars>>

StopWithoutJoin ==
    /\ owner = "join"
    /\ CloseFd(m_hSocket[Server])
    /\ m_hSocket' = [m_hSocket EXCEPT ![Server] = INVALID_SOCKET]
    /\ phase' = [c \in Conn |-> IF phase[c] = "queued" THEN "dropped" ELSE phase[c]]
    /\ owner' = "delete" /\ d' = 1
    /\ UNCHANGED <<pc, m_bStop, m_bIdle, m_pServlet, m_vecHandler, cacheVars,
                   acceptVars, starts, togo, wire, eof, answers>>

StopWithoutClose ==
    /\ owner = "join"
    /\ pc[Server] \in {"none", "exit"}
    /\ Goto(Server, "none")
    /\ owner' = "delete" /\ d' = 1
    /\ UNCHANGED <<objVars, cacheVars, acceptVars, starts, file, netVars>>

(* Join(this), then Close(): closing the listener resets the connections
   nobody has accepted.                                                    *)
StopJoin ==
    /\ owner = "join"
    /\ pc[Server] \in {"none", "exit"}
    /\ Goto(Server, "none")
    /\ CloseFd(m_hSocket[Server])
    /\ m_hSocket' = [m_hSocket EXCEPT ![Server] = INVALID_SOCKET]
    /\ phase' = [c \in Conn |-> IF phase[c] = "queued" THEN "dropped" ELSE phase[c]]
    /\ owner' = "delete" /\ d' = 1
    /\ UNCHANGED <<m_bStop, m_bIdle, m_pServlet, m_vecHandler, cacheVars,
                   acceptVars, starts, togo, wire, eof, answers>>

(* delete m_vecHandler[i]: the destructor closes the socket while the
   handler's thread may still be using it, then stops and joins it.        *)
DeleteTest ==
    /\ owner = "delete" /\ d <= Len(m_vecHandler)
    /\ owner' = IF m_hSocket[m_vecHandler[d]] /= INVALID_SOCKET THEN "closesocket" ELSE "flag"
    /\ UNCHANGED <<pc, objVars, cacheVars, acceptVars, d, starts, file,
                   netVars>>

DeleteClose ==
    /\ owner = "closesocket"
    /\ CloseFd(m_hSocket[m_vecHandler[d]])
    /\ owner' = "invalidate"
    /\ UNCHANGED <<pc, objVars, cacheVars, acceptVars, d, starts, netVars>>

DeleteStore ==
    /\ owner = "invalidate"
    /\ m_hSocket' = [m_hSocket EXCEPT ![m_vecHandler[d]] = INVALID_SOCKET]
    /\ owner' = "flag"
    /\ UNCHANGED <<pc, m_bStop, m_bIdle, m_pServlet, m_vecHandler, cacheVars,
                   acceptVars, d, starts, file, netVars>>

DeleteNoFlag ==         \* m_bStop = true missing in the destructor
    /\ owner = "flag"
    /\ owner' = "joinhandler"
    /\ UNCHANGED <<pc, objVars, cacheVars, acceptVars, d, starts, file, netVars>>

DeleteFlag ==
    /\ owner = "flag"
    /\ m_bStop' = [m_bStop EXCEPT ![m_vecHandler[d]] = TRUE]
    /\ owner' = "joinhandler"
    /\ UNCHANGED <<pc, m_hSocket, m_bIdle, m_pServlet, m_vecHandler,
                   cacheVars, acceptVars, d, starts, file, netVars>>

DeleteJoin ==
    /\ owner = "joinhandler"
    /\ pc[m_vecHandler[d]] \in {"none", "exit"}
    /\ Goto(m_vecHandler[d], "none")
    /\ CloseFd(m_hSocket[m_vecHandler[d]])      \* ~Socket
    /\ m_hSocket' = [m_hSocket EXCEPT ![m_vecHandler[d]] = INVALID_SOCKET]
    /\ owner' = "delete" /\ d' = d + 1
    /\ UNCHANGED <<m_bStop, m_bIdle, m_pServlet, m_vecHandler, cacheVars,
                   acceptVars, starts, netVars>>

StopClear ==
    /\ owner = "delete" /\ d > Len(m_vecHandler)
    /\ m_vecHandler' = <<>>
    /\ owner' = "down"
    /\ UNCHANGED <<pc, m_bStop, m_hSocket, m_bIdle, m_pServlet, cacheVars,
                   acceptVars, d, starts, file, netVars>>

StopRest == \/ StopJoin \/ DeleteTest \/ DeleteClose \/ DeleteStore \/ DeleteFlag
            \/ DeleteJoin \/ StopClear

-----------------------------------------------------------------------------
Init ==
    /\ m_bStop = [o \in Object |-> FALSE]
    /\ m_hSocket = [o \in Object |-> INVALID_SOCKET]
    /\ pc = [o \in Object |-> "none"]
    /\ m_bIdle = [h \in Handler |-> TRUE]
    /\ m_pServlet = [h \in Handler |-> FALSE]
    /\ cache = [h \in Handler |-> 0]
    /\ rx = [h \in Handler |-> NONE]
    /\ m_vecHandler = <<>>
    /\ s = INVALID_SOCKET /\ i = 1 /\ cur = NONE
    /\ owner = "down" /\ d = 1 /\ starts = 0
    /\ file = [f \in FD |-> Free]
    /\ phase = [c \in Conn |-> "new"]
    /\ togo = [c \in Conn |-> Chunks]
    /\ wire = [c \in Conn |-> 0]
    /\ eof = [c \in Conn |-> FALSE]
    /\ answers = [c \in Conn |-> {}]

Next ==
    \/ \E c \in Conn : Connect(c) \/ Transmit(c) \/ HangUp(c)
    \/ ForeignOpen \/ ForeignClose
    \/ Acceptor
    \/ \E h \in Handler : Routine(h)
    \/ Start \/ StopFlag \/ StopRest

Spec == Init /\ [][Next]_vars

(* Threads are scheduled; a client does not keep a connection for ever.
   Nobody is obliged to start or to stop the server.                       *)
Fairness ==
    /\ WF_vars(Acceptor)
    /\ \A h \in Handler : WF_vars(Routine(h))
    /\ WF_vars(StopRest)
    /\ \A c \in Conn : WF_vars(HangUp(c))

FairSpec == Spec /\ Fairness

-----------------------------------------------------------------------------
(* Properties.                                                             *)

AcceptorLabel == {"none", "exit", "loop", "select", "accept", "scan", "reject",
                  "new", "attach", "servlet", "busy", "push"}
HandlerLabel  == {"none", "exit", "top", "poll", "loop", "recv", "blocked",
                  "service", "close", "closesocket", "invalidate", "idle"}
OwnerLabel    == {"down", "up", "join", "delete", "closesocket", "invalidate",
                  "flag", "joinhandler"}

(* The variables keep their types (fields of WebServer and ServletHandler,
   WebServer.h:100-144, and the kernel's tables).                          *)
TypeOK ==
    /\ m_bStop \in [Object -> BOOLEAN]
    /\ m_hSocket \in [Object -> SOCKET]
    /\ pc \in [Object -> AcceptorLabel \cup HandlerLabel]
    /\ pc[Server] \in AcceptorLabel
    /\ \A h \in Handler : pc[h] \in HandlerLabel
    /\ m_bIdle \in [Handler -> BOOLEAN] /\ m_pServlet \in [Handler -> BOOLEAN]
    /\ cache \in [Handler -> Nat]
    /\ rx \in [Handler -> Conn \cup {NONE}]
    /\ m_vecHandler \in Seq(Handler)
    /\ s \in SOCKET /\ i \in Nat \ {0} /\ cur \in Handler \cup {NONE}
    /\ owner \in OwnerLabel /\ d \in Nat \ {0} /\ starts \in Nat
    /\ file \in [FD -> Conn \cup {Listening, Foreign, Free}]
    /\ phase \in [Conn -> {"new", "queued", "taken", "dropped"}]
    /\ togo \in [Conn -> Nat] /\ wire \in [Conn -> Nat]
    /\ eof \in [Conn -> BOOLEAN]
    /\ answers \in [Conn -> SUBSET Conn]

IOLabel  == {"loop", "recv", "blocked", "service", "close", "closesocket",
             "invalidate", "idle"}
Deleting == owner \in {"delete", "closesocket", "invalidate", "flag", "joinhandler"}

(* Threads run only for handlers of the pool and the one JoinThread is
   adding, and together they are never more than m_nMaxThread (the size
   test of JoinThread, WebServer.cpp:510).                                 *)
PoolBounded ==
    /\ \A h \in Handler : pc[h] /= "none" => h \in Pool \cup {cur}
    /\ Len(m_vecHandler) <= m_nMaxThread
    /\ cur \in Handler \ Pool => Len(m_vecHandler) < m_nMaxThread

(* Two handlers never work on one descriptor, and neither does the
   acceptor with a handler: JoinThread hands a socket over exactly once, and
   a handler forgets its socket before it offers itself again
   (WebServer.cpp:341-343, 499-506).  A handler that has closed its socket
   but not yet stored INVALID_SOCKET no longer counts.                     *)
Holds(h, f) == m_hSocket[h] = f /\ pc[h] /= "invalidate"
SoleOwner ==
    \A f \in FD, h \in Handler :
        Holds(h, f) => /\ s /= f
                       /\ \A g \in Handler \ {h} : ~Holds(g, f)

(* Every accepted connection that is still in the descriptor table can be
   reached by somebody who will close it: the acceptor's local variable or
   a handler of the pool (or the one about to be pushed).                  *)
NoDescriptorLeak ==
    \A f \in FD : file[f] \in Conn =>
        \/ s = f /\ pc[Server] \in {"scan", "new", "attach", "reject"}
        \/ \E h \in Pool \cup {cur} : h \in Handler /\ m_hSocket[h] = f

(* A handler that has left its idle loop finds everything Start() stored:
   the servlet and, until Stop deletes it, the descriptor of the connection
   it is serving, never another's or a foreign file (the order of the three
   stores in WebServer.cpp:315-317 and of Close() and m_bIdle in 342-343). *)
HandoffReady ==
    \A h \in Handler : pc[h] \in IOLabel =>
        /\ m_pServlet[h]
        /\ (pc[h] \notin {"invalidate", "idle"} /\ ~Deleting) =>
              /\ m_hSocket[h] \in FD
              /\ file[m_hSocket[h]] \in Conn
              /\ rx[h] /= NONE => file[m_hSocket[h]] = rx[h]

(* Bytes sent on a connection answer the request that was received on it,
   also while Stop closes descriptors under running threads.               *)
AnswerGoesHome == \A c \in Conn : answers[c] \subseteq {c}

(* When Stop has returned no thread of the server runs, no descriptor of it
   is open, and no connection is left queued (WebServer.cpp:461-472).      *)
StopLeavesNothing ==
    owner = "down" =>
        /\ \A o \in Object : pc[o] = "none" /\ m_hSocket[o] = INVALID_SOCKET
        /\ \A f \in FD : file[f] \in {Free, Foreign}
        /\ \A c \in Conn : phase[c] /= "queued"

(* The acceptor is out of JoinThread before a handler is deleted, so it
   never scans or starts a handler that is being destroyed.                *)
AcceptorGoneBeforeDelete == Deleting => pc[Server] = "none" /\ cur = NONE

(* What a client sees of its connection: closed once no descriptor refers
   to it and no recv holds on to it.                                       *)
Pinned(c) == \/ \E f \in FD : file[f] = c
             \/ \E h \in Handler : pc[h] = "blocked" /\ rx[h] = c
ConnState(c) == IF phase[c] /= "taken" THEN phase[c]
                ELSE IF Pinned(c) THEN "open" ELSE "closed"

(* The server implements the service it promises its clients.              *)
Service == INSTANCE ConnectionService WITH
    Capacity <- m_nMaxThread,
    up       <- owner /= "down",
    state    <- [c \in Conn |-> ConnState(c)],
    answered <- [c \in Conn |-> answers[c] /= {}]

ImplementsService == Service!Spec

(* A client waiting in the backlog is accepted, or reset by Stop.          *)
BacklogDrains == \A c \in Conn : phase[c] = "queued" ~> phase[c] /= "queued"

(* Stop returns.                                                           *)
StopReturns == owner \notin {"down", "up"} ~> owner = "down"

(* The handlers differ in nothing, nor do the connections: for runs of
   invariants.                                                             *)
Symmetry == Permutations(Handler) \cup Permutations(Conn)
=============================================================================
