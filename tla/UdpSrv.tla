-------------------------------- MODULE UdpSrv --------------------------------
(***************************************************************************)
(* CUdpSrv (src/base/UdpSrv.cpp): users Join and Leave UDP sockets, which  *)
(* are spread over PerThread threads of at most nMaxSockPerThread each;    *)
(* a thread waits for its sockets in select and calls back with what it    *)
(* receives.  CUdpSrv::m_cs orders the users; PerThread::m_cs, here lock,  *)
(* orders users and the thread, but select runs without it, on descriptor  *)
(* numbers that may be closed or reused meanwhile.                         *)
(*                                                                         *)
(* A callback may call Join, Leave or SendTo itself: it runs with its      *)
(* thread's lock held, and both mutexes are recursive.  A datagram is a    *)
(* unit of pending; its contents and the addresses are left out.           *)
(***************************************************************************)
EXTENDS Integers, Sequences, FiniteSets, SequencesExt, TLC

CONSTANTS
    User,                   \* threads that call the public methods
    Worker,                 \* addresses of PerThread objects
    NONE,
    nMaxSockPerThread,      \* CUdpSrv(nMaxSockPerThread), 64 by default
    MaxJoins,               \* bound: sockets ever created
    MaxFd,                  \* bound: size of the descriptor table
    MaxData,                \* bound: datagrams in a socket's buffer
    MayFail,                \* which of "bind", "run" and "select" may fail
    Sender,                 \* the user that calls SetSendInfo, or NONE
    CallbackMay             \* the calls callbacks make: "join", "leave", "sendto"

ASSUME SocketsPerThread == nMaxSockPerThread \in Nat
ASSUME Bounds == MaxJoins \in Nat /\ MaxFd \in Nat /\ MaxData \in Nat
ASSUME Distinct == NONE \notin User \cup Worker \cup Nat /\ User \cap Worker = {}
ASSUME Failures == MayFail \subseteq {"bind", "run", "select"}
ASSUME Callers == Sender \in User \cup {NONE} /\ CallbackMay \subseteq {"join", "leave", "sendto"}

FD   == 0..(MaxFd - 1)
Sock == 1..MaxJoins         \* sockets in the order of their creation
Caller == User \cup Worker  \* a thread calls from its callback

VARIABLES
    m_cs,           \* CUdpSrv::m_cs: the caller that holds it, or NONE
    m_vecThread,    \* Seq(Worker)
    m_vecSock,      \* [Worker -> Seq(Sock)]
    lock,           \* [Worker -> holder of PerThread::m_cs or NONE]
    m_bStop,        \* [Worker -> BOOLEAN]
    tpc,            \* [Worker -> label]: where Routine is; "none" no thread
    rfds,           \* [Worker -> SUBSET FD]: the set given to and got from select
    watched,        \* [Worker -> SUBSET Sock]: what select found behind it
    i,              \* [Worker -> Nat]: loop index of Routine
    upc,            \* [Caller -> label]: where its call is
    sock,           \* [Caller -> Sock or NONE]: the socket the call is about
    w,              \* [Caller -> Worker or NONE]: the thread the call is at
    handles,        \* sockets Join has returned and nobody has left yet
    m_sock,         \* the socket of SetSendInfo, or NONE
    fd,             \* [Sock -> FD or -1]
    file,           \* [FD -> Sock or NONE]: the descriptor table
    pending         \* [Sock -> 0..MaxData]: datagrams in the socket's buffer

loopVars == <<lock, m_bStop, rfds, watched, i>>
workVars == <<loopVars, tpc>>
userVars == <<upc, sock, w>>
descVars == <<handles, m_sock, fd, file, pending>>
vars == <<m_cs, m_vecThread, m_vecSock, workVars, userVars, descVars>>

(* What the constructor makes of its argument: 65 becomes 0, and a thread
   then takes one socket, the one it is created for.                        *)
m_nMaxSockPerThread == nMaxSockPerThread % 65

Threads == ToSet(m_vecThread)
Created == {p \in Sock : fd[p] /= -1}
Open    == {p \in Created : file[fd[p]] = p}

At(u, label) == upc' = [upc EXCEPT ![u] = label]
Goto(t, label) == tpc' = [tpc EXCEPT ![t] = label]

CloseAll(socks) ==
    /\ file' = [f \in FD |-> IF file[f] \in socks THEN NONE ELSE file[f]]
    /\ pending' = [p \in Sock |-> IF p \in socks THEN 0 ELSE pending[p]]

Init ==
    /\ m_cs = NONE /\ m_vecThread = <<>>
    /\ m_vecSock = [t \in Worker |-> <<>>] /\ lock = [t \in Worker |-> NONE]
    /\ m_bStop = [t \in Worker |-> FALSE] /\ tpc = [t \in Worker |-> "none"]
    /\ rfds = [t \in Worker |-> {}] /\ watched = [t \in Worker |-> {}]
    /\ i = [t \in Worker |-> 1]
    /\ upc = [u \in Caller |-> "idle"] /\ sock = [u \in Caller |-> NONE]
    /\ w = [u \in Caller |-> NONE]
    /\ handles = {} /\ m_sock = NONE
    /\ fd = [p \in Sock |-> -1] /\ file = [f \in FD |-> NONE]
    /\ pending = [p \in Sock |-> 0]

Arrive(p) ==
    /\ p \in Open /\ pending[p] < MaxData
    /\ pending' = [pending EXCEPT ![p] = @ + 1]
    /\ UNCHANGED <<m_cs, m_vecThread, m_vecSock, workVars, userVars, handles, fd, file, m_sock>>

-----------------------------------------------------------------------------
(* Join.                                                                   *)

(* A user calls when it likes, a callback once, if CallbackMay says so.    *)
Begin(u, call, label) ==
    /\ upc[u] = "idle"
    /\ At(u, label)
    /\ IF u \in Worker
       THEN tpc[u] = "callback" /\ call \in CallbackMay /\ Goto(u, "called")
       ELSE UNCHANGED tpc

(* The locks are recursive.                                                *)
Free(holder, u) == holder \in {NONE, u}

(* Socket::Create: the kernel gives the lowest free descriptor.            *)
NewSocket(p) ==
    /\ p = Cardinality(Created) + 1 /\ p \in Sock
    /\ \E f \in FD :
          /\ file[f] = NONE
          /\ \A g \in FD : g < f => file[g] /= NONE
          /\ file' = [file EXCEPT ![f] = p]
          /\ fd' = [fd EXCEPT ![p] = f]

NoSocket == Cardinality(Created) = MaxJoins \/ \A f \in FD : file[f] /= NONE

Create(u) ==
    /\ Begin(u, "join", "bind")
    /\ \E p \in Sock : NewSocket(p) /\ sock' = [sock EXCEPT ![u] = p]
    /\ UNCHANGED <<m_cs, m_vecThread, m_vecSock, loopVars, w, handles, m_sock, pending>>

(* ReuseAddr, Bind or AddMembership fails: return, ~Socket closes.         *)
BindFailureLeaks(u) ==
    /\ upc[u] = "bind" /\ "bind" \in MayFail
    /\ sock' = [sock EXCEPT ![u] = NONE]
    /\ At(u, "idle")
    /\ UNCHANGED <<m_cs, m_vecThread, m_vecSock, workVars, w, descVars>>

BindFailure(u) ==
    /\ upc[u] = "bind" /\ "bind" \in MayFail
    /\ CloseAll({sock[u]})
    /\ sock' = [sock EXCEPT ![u] = NONE]
    /\ At(u, "idle")
    /\ UNCHANGED <<m_cs, m_vecThread, m_vecSock, workVars, w, handles, fd, m_sock>>

JoinLock(u) ==
    /\ upc[u] = "bind" /\ Free(m_cs, u)
    /\ m_cs' = u
    /\ At(u, "place")
    /\ UNCHANGED <<m_vecThread, m_vecSock, workVars, sock, w, descVars>>

HasRoom(t) == Len(m_vecSock[t]) < m_nMaxSockPerThread

(* The first thread with room ...                                          *)
Place(u) ==
    /\ upc[u] = "place"
    /\ \E k \in 1..Len(m_vecThread) :
          /\ HasRoom(m_vecThread[k])
          /\ \A j \in 1..(k - 1) : ~HasRoom(m_vecThread[j])
          /\ w' = [w EXCEPT ![u] = m_vecThread[k]]
    /\ At(u, "insert")
    /\ UNCHANGED <<m_cs, m_vecThread, m_vecSock, workVars, sock, descVars>>

(* ... or new PerThread() in m_vecThread, whose constructor starts the thread and does not
   look whether it started.                                                 *)
NewThread(u) ==
    /\ upc[u] = "place"
    /\ \A t \in Threads : ~HasRoom(t)
    /\ \E t \in Worker \ Threads :
          /\ w' = [w EXCEPT ![u] = t]
          /\ m_vecThread' = Append(m_vecThread, t)
          /\ m_bStop' = [m_bStop EXCEPT ![t] = FALSE]
          /\ \/ Goto(t, "top")
             \/ "run" \in MayFail /\ UNCHANGED tpc
    /\ At(u, "insert")
    /\ UNCHANGED <<m_cs, m_vecSock, lock, rfds, watched, i, sock, descVars>>

Insert(u) ==
    /\ upc[u] = "insert" /\ Free(lock[w[u]], u)
    /\ m_vecSock' = [m_vecSock EXCEPT ![w[u]] = Append(@, sock[u])]
    /\ handles' = handles \cup {sock[u]}
    /\ m_cs' = NONE
    /\ sock' = [sock EXCEPT ![u] = NONE] /\ w' = [w EXCEPT ![u] = NONE]
    /\ At(u, "idle")
    /\ UNCHANGED <<m_vecThread, workVars, fd, file, pending, m_sock>>

-----------------------------------------------------------------------------
(* Leave(s): callers leave a socket once, with the handle Join gave them; a
   callback leaves its own thread a socket, since ~PerThread would have the
   thread join itself and then free what it is working on.                  *)

KeepsOwnThread(u, p) == u \in Worker => ToSet(m_vecSock[u]) \ {p} /= {}

LeaveCall(u) ==
    /\ Begin(u, "leave", "leave")
    /\ \E p \in handles :
          /\ KeepsOwnThread(u, p)
          /\ handles' = handles \ {p}
          /\ sock' = [sock EXCEPT ![u] = p]
    /\ UNCHANGED <<m_cs, m_vecThread, m_vecSock, loopVars, w, m_sock, fd, file, pending>>

LeaveLock(u) ==
    /\ upc[u] = "leave" /\ Free(m_cs, u)
    /\ m_cs' = u
    /\ w' = [w EXCEPT ![u] = IF m_vecThread = <<>> THEN NONE ELSE Head(m_vecThread)]
    /\ At(u, "remove")
    /\ UNCHANGED <<m_vecThread, m_vecSock, workVars, sock, descVars>>

Return(u) ==
    /\ m_cs' = NONE
    /\ sock' = [sock EXCEPT ![u] = NONE] /\ w' = [w EXCEPT ![u] = NONE]
    /\ At(u, "idle")

(* Where t is in m_vecThread, and the thread after it, NONE after the last. *)
Position(t) == CHOOSE k \in 1..Len(m_vecThread) : m_vecThread[k] = t
After(t) ==
    IF Position(t) = Len(m_vecThread) THEN NONE ELSE m_vecThread[Position(t) + 1]

(* Remove(s) compares descriptors, the first match is closed and erased.   *)
Holds(t, f) == {k \in 1..Len(m_vecSock[t]) : fd[m_vecSock[t][k]] = f}

LeaveRemove(u) ==
    /\ upc[u] = "remove" /\ w[u] /= NONE /\ Free(lock[w[u]], u)
    /\ LET t == w[u]
           ks == Holds(t, fd[sock[u]])
       IN  IF ks = {}
           THEN /\ w' = [w EXCEPT ![u] = After(t)]
                /\ UNCHANGED <<m_cs, m_vecSock, upc, sock, file, pending>>
           ELSE LET k == CHOOSE n \in ks : \A m \in ks : n <= m
                IN  /\ CloseAll({m_vecSock[t][k]})
                    /\ m_vecSock' = [m_vecSock EXCEPT ![t] = RemoveAt(@, k)]
                    /\ IF Len(m_vecSock[t]) = 1
                       THEN At(u, "delete") /\ UNCHANGED <<m_cs, sock, w>>
                       ELSE Return(u)
    /\ UNCHANGED <<m_vecThread, workVars, handles, fd, m_sock>>

LeaveNotFound(u) ==
    /\ upc[u] = "remove" /\ w[u] = NONE
    /\ Return(u)
    /\ UNCHANGED <<m_vecThread, m_vecSock, workVars, descVars>>

(* delete pThread: m_bStop, Join, then the sockets that are left.          *)
DeleteWithoutStop(u) ==
    /\ upc[u] \in {"delete", "stopall"} /\ w[u] /= NONE
    /\ At(u, IF upc[u] = "delete" THEN "join" ELSE "joinall")
    /\ UNCHANGED <<m_cs, m_vecThread, m_vecSock, workVars, sock, w, descVars>>

Delete(u) ==
    /\ upc[u] \in {"delete", "stopall"} /\ w[u] /= NONE
    /\ m_bStop' = [m_bStop EXCEPT ![w[u]] = TRUE]
    /\ At(u, IF upc[u] = "delete" THEN "join" ELSE "joinall")
    /\ UNCHANGED <<m_cs, m_vecThread, m_vecSock, lock, tpc, rfds, watched, i, sock, w,
                   descVars>>

Joined(t) == tpc[t] \in {"none", "exit"}

(* Leave erases the thread from m_vecThread and returns.                   *)
LeaveJoin(u) ==
    /\ upc[u] = "join" /\ Joined(w[u])
    /\ Goto(w[u], "none")
    /\ m_vecThread' = RemoveAt(m_vecThread, Position(w[u]))
    /\ Return(u)
    /\ UNCHANGED <<m_vecSock, lock, m_bStop, rfds, watched, i, descVars>>

StopAll(u) ==
    /\ u \in User /\ upc[u] = "idle" /\ m_cs = NONE
    /\ m_cs' = u
    /\ w' = [w EXCEPT ![u] = IF m_vecThread = <<>> THEN NONE ELSE Head(m_vecThread)]
    /\ At(u, "stopall")
    /\ UNCHANGED <<m_vecThread, m_vecSock, workVars, sock, descVars>>

(* The next thread; whoever had a socket there knows it is gone.           *)
StopAllJoin(u) ==
    /\ upc[u] = "joinall" /\ Joined(w[u])
    /\ Goto(w[u], "none")
    /\ CloseAll(ToSet(m_vecSock[w[u]]))
    /\ handles' = handles \ ToSet(m_vecSock[w[u]])
    /\ m_vecSock' = [m_vecSock EXCEPT ![w[u]] = <<>>]
    /\ w' = [w EXCEPT ![u] = After(w[u])]
    /\ At(u, "stopall")
    /\ UNCHANGED <<m_cs, m_vecThread, lock, m_bStop, rfds, watched, i, sock, fd, m_sock>>

StopAllClear(u) ==
    /\ upc[u] = "stopall" /\ w[u] = NONE
    /\ m_vecThread' = <<>>
    /\ Return(u)
    /\ UNCHANGED <<m_vecSock, workVars, descVars>>

-----------------------------------------------------------------------------
(* Sending.                                                                *)

(* SendTo has a socket of its own, closed at the end by ~Socket; ReuseAddr,
   called on m_sock where s is meant (UdpSrv.cpp:245), and a failing Bind
   change nothing here.                                                     *)
SendTo(u) ==
    /\ Begin(u, "sendto", "sendto")
    /\ \E p \in Sock : NewSocket(p) /\ sock' = [sock EXCEPT ![u] = p]
    /\ UNCHANGED <<m_cs, m_vecThread, m_vecSock, loopVars, w, handles, m_sock, pending>>

SendToReturn(u) ==
    /\ upc[u] = "sendto"
    /\ CloseAll({sock[u]})
    /\ sock' = [sock EXCEPT ![u] = NONE]
    /\ At(u, "idle")
    /\ UNCHANGED <<m_cs, m_vecThread, m_vecSock, workVars, w, handles, m_sock, fd>>

(* SetSendInfo closes the socket of an earlier call and makes a new one.
   Nothing guards m_sock: one user calls it and Send.                       *)
SetSendInfo(u) ==
    /\ u = Sender /\ upc[u] = "idle"
    /\ IF m_sock = NONE THEN UNCHANGED <<file, pending>> ELSE CloseAll({m_sock})
    /\ m_sock' = NONE
    /\ At(u, "setsend")
    /\ UNCHANGED <<m_cs, m_vecThread, m_vecSock, workVars, sock, w, handles, fd>>

SetSendCreate(u) ==
    /\ upc[u] = "setsend"
    /\ \/ \E p \in Sock : NewSocket(p) /\ m_sock' = p
       \/ NoSocket /\ UNCHANGED <<m_sock, fd, file>>
    /\ At(u, "idle")
    /\ UNCHANGED <<m_cs, m_vecThread, m_vecSock, workVars, sock, w, handles, pending>>

-----------------------------------------------------------------------------
(* PerThread::Routine.                                                     *)

(* An empty thread sleeps; m_vecSock.empty() is read without the lock.     *)
Top(t) ==
    /\ tpc[t] = "top"
    /\ m_bStop[t] \/ m_vecSock[t] /= <<>>
    /\ Goto(t, IF m_bStop[t] THEN "exit" ELSE "build")
    /\ UNCHANGED <<m_cs, m_vecThread, m_vecSock, lock, m_bStop, rfds, watched, i,
                   userVars, descVars>>

Build(t) ==
    /\ tpc[t] = "build" /\ lock[t] = NONE
    /\ rfds' = [rfds EXCEPT ![t] = {fd[p] : p \in ToSet(m_vecSock[t])}]
    /\ Goto(t, "select")
    /\ UNCHANGED <<m_cs, m_vecThread, m_vecSock, lock, m_bStop, watched, i, userVars,
                   descVars>>

(* The locals of the loop body end with it.                                *)
EndRound(t, label) ==
    /\ rfds' = [rfds EXCEPT ![t] = {}]
    /\ watched' = [watched EXCEPT ![t] = {}]
    /\ i' = [i EXCEPT ![t] = 1]
    /\ Goto(t, label)

(* select fails with EBADF when a descriptor of the set was closed: break.
   Any other error, such as EINTR: continue.                                *)
SelectEnter(t) ==
    /\ tpc[t] = "select"
    /\ \/ /\ \E f \in rfds[t] : file[f] = NONE
          /\ EndRound(t, "exit")
       \/ /\ "select" \in MayFail
          /\ EndRound(t, "top")
       \/ /\ \A f \in rfds[t] : file[f] /= NONE
          /\ watched' = [watched EXCEPT ![t] = {file[f] : f \in rfds[t]}]
          /\ Goto(t, "wait")
          /\ UNCHANGED <<rfds, i>>
    /\ UNCHANGED <<m_cs, m_vecThread, m_vecSock, lock, m_bStop, userVars,
                   descVars>>

Readable(t) == {p \in watched[t] : p \in Open /\ pending[p] > 0}

SelectReturn(t) ==
    /\ tpc[t] = "wait" /\ Readable(t) /= {}
    /\ rfds' = [rfds EXCEPT ![t] = {fd[p] : p \in Readable(t)}]
    /\ watched' = [watched EXCEPT ![t] = {}]
    /\ Goto(t, "lock")
    /\ UNCHANGED <<m_cs, m_vecThread, m_vecSock, lock, m_bStop, i, userVars,
                   descVars>>

SelectTimeout(t) ==
    /\ tpc[t] = "wait"
    /\ Readable(t) = {}
    /\ EndRound(t, "top")
    /\ UNCHANGED <<m_cs, m_vecThread, m_vecSock, lock, m_bStop,
                   userVars, descVars>>

Lock(t) ==
    /\ tpc[t] = "lock" /\ lock[t] = NONE
    /\ lock' = [lock EXCEPT ![t] = t]
    /\ Goto(t, "scan")
    /\ UNCHANGED <<m_cs, m_vecThread, m_vecSock, m_bStop, rfds, watched, i, userVars,
                   descVars>>

Current(t) == m_vecSock[t][i[t]]

InRangeButLast(t) == i[t] < Len(m_vecSock[t])

InRange(t) == i[t] <= Len(m_vecSock[t])

ScanEnd(t) ==
    /\ tpc[t] = "scan"
    /\ ~InRange(t) \/ m_bStop[t]
    /\ lock' = [lock EXCEPT ![t] = NONE]
    /\ EndRound(t, "top")
    /\ UNCHANGED <<m_cs, m_vecThread, m_vecSock, m_bStop, userVars,
                   descVars>>

(* FD_ISSET.                                                               *)
Scan(t) ==
    /\ tpc[t] = "scan" /\ InRange(t) /\ ~m_bStop[t]
    /\ IF fd[Current(t)] \in rfds[t]
       THEN Goto(t, "recv") /\ UNCHANGED i
       ELSE UNCHANGED tpc /\ i' = [i EXCEPT ![t] = @ + 1]
    /\ UNCHANGED <<m_cs, m_vecThread, m_vecSock, lock, m_bStop, rfds, watched, userVars,
                   descVars>>

(* RecvFrom on a blocking socket.                                          *)
RecvUnlocked(t) ==
    /\ tpc[t] = "recv" /\ pending[Current(t)] > 0
    /\ pending' = [pending EXCEPT ![Current(t)] = @ - 1]
    /\ lock' = [lock EXCEPT ![t] = NONE]
    /\ Goto(t, "callback")
    /\ UNCHANGED <<m_cs, m_vecThread, m_vecSock, m_bStop, rfds, watched, i, userVars,
                   handles, fd, file, m_sock>>

Recv(t) ==
    /\ tpc[t] = "recv" /\ pending[Current(t)] > 0
    /\ pending' = [pending EXCEPT ![Current(t)] = @ - 1]
    /\ Goto(t, "callback")
    /\ UNCHANGED <<m_cs, m_vecThread, m_vecSock, lock, m_bStop, rfds, watched, i,
                   userVars, handles, fd, file, m_sock>>

(* pfn(param, ...) runs under the lock, may make one call, and returns.    *)
Callback(t) ==
    /\ tpc[t] \in {"callback", "called"} /\ upc[t] = "idle"
    /\ i' = [i EXCEPT ![t] = @ + 1]
    /\ Goto(t, "scan")
    /\ UNCHANGED <<m_cs, m_vecThread, m_vecSock, lock, m_bStop, rfds, watched, userVars,
                   descVars>>

-----------------------------------------------------------------------------
Routine(t) ==
    \/ Top(t) \/ Build(t) \/ SelectEnter(t) \/ SelectReturn(t) \/ SelectTimeout(t)
    \/ Lock(t) \/ Scan(t) \/ ScanEnd(t) \/ Recv(t) \/ Callback(t)

(* The steps of a call that has begun.                                     *)
Proceed(u) ==
    \/ BindFailure(u) \/ JoinLock(u) \/ Place(u) \/ NewThread(u) \/ Insert(u)
    \/ LeaveLock(u) \/ LeaveRemove(u) \/ LeaveNotFound(u) \/ Delete(u) \/ LeaveJoin(u)
    \/ StopAllJoin(u) \/ StopAllClear(u) \/ SendToReturn(u) \/ SetSendCreate(u)

Next ==
    \/ \E p \in Sock : Arrive(p)
    \/ \E u \in Caller : Create(u) \/ LeaveCall(u) \/ SendTo(u) \/ Proceed(u)
    \/ \E u \in User : StopAll(u) \/ SetSendInfo(u)
    \/ \E t \in Worker : Routine(t)

Spec == Init /\ [][Next]_vars

(* Threads run and get the locks they wait for in the end; nobody has to
   call and no datagram has to arrive.                                      *)
FairSpec ==
    /\ Spec
    /\ \A u \in Caller : SF_vars(Proceed(u))
    /\ \A t \in Worker : SF_vars(Routine(t))

-----------------------------------------------------------------------------
Label ==
    {"idle", "bind", "place", "insert", "leave", "remove", "delete", "join",
     "stopall", "joinall", "sendto", "setsend"}
ThreadLabel ==
    {"none", "top", "build", "select", "wait", "lock", "scan", "recv", "callback",
     "called", "exit"}

TypeOK ==
    /\ m_cs \in Caller \cup {NONE} /\ m_vecThread \in Seq(Worker)
    /\ m_vecSock \in [Worker -> Seq(Sock)]
    /\ lock \in [Worker -> Worker \cup {NONE}] /\ \A t \in Worker : lock[t] \in {t, NONE}
    /\ m_bStop \in [Worker -> BOOLEAN]
    /\ tpc \in [Worker -> ThreadLabel]
    /\ rfds \in [Worker -> SUBSET FD] /\ watched \in [Worker -> SUBSET Sock]
    /\ i \in [Worker -> 1..(MaxJoins + 1)]
    /\ upc \in [Caller -> Label]
    /\ sock \in [Caller -> Sock \cup {NONE}] /\ w \in [Caller -> Worker \cup {NONE}]
    /\ handles \subseteq Sock /\ m_sock \in Sock \cup {NONE}
    /\ fd \in [Sock -> FD \cup {-1}] /\ file \in [FD -> Sock \cup {NONE}]
    /\ pending \in [Sock -> 0..MaxData]

(* "Maximal number of sockets one thread handles" (UdpSrv.h:62), although
   Join reads Size() without PerThread::m_cs (UdpSrv.cpp:190).              *)
SocketsBounded == \A t \in Worker : Len(m_vecSock[t]) <= nMaxSockPerThread \/ Len(m_vecSock[t]) <= 1

(* No callback after Leave: the socket whose callback runs is still joined,
   open and its own thread's, so its param is still valid, unless that very
   callback has left it; and its thread is there and has the lock, whatever
   the callback called (UdpSrv.cpp:85-96 against Remove and ~PerThread).    *)
CallbackIsJoined ==
    \A t \in Worker :
        /\ tpc[t] \in {"recv", "callback"} => i[t] <= Len(m_vecSock[t]) /\ Current(t) \in Open
        /\ tpc[t] \in {"recv", "callback", "called"} => t \in Threads /\ lock[t] = t

(* Every open socket is served by exactly one thread, or the one of Send, or
   still in the hands of the Join or SendTo that created it: none is leaked,
   none is closed under its thread (UdpSrv.cpp:134-205, 207-268).           *)
SocketsAccounted ==
    \A p \in Sock :
        LET at == {t \in Worker : p \in ToSet(m_vecSock[t])}
        IN  /\ p \in Open <=>
                   \/ at /= {} \/ p = m_sock
                   \/ \E u \in Caller : sock[u] = p /\ upc[u] \in {"bind", "place", "insert", "sendto"}
            /\ Cardinality(at) <= 1

(* No thread without a socket, and no thread that m_vecThread does not
   know, once the calls are over (Leave, UdpSrv.cpp:214-220).               *)
ThreadsAreNeeded ==
    m_cs = NONE => \A t \in Worker : /\ t \in Threads <=> m_vecSock[t] /= <<>>
                                     /\ tpc[t] /= "none" => t \in Threads

(* The bookkeeping of Join, Leave and StopAll as a whole: what m_vecThread
   and the vectors of its threads hold fits the sockets and threads there
   are, whatever fails on the way (UdpSrv.cpp:134-237).                     *)
SocketsInOrder == TypeOK /\ SocketsBounded /\ SocketsAccounted /\ ThreadsAreNeeded

(* "Stop listening" (UdpSrv.h:74, :77): Join, Leave and StopAll return.    *)
CallsReturn == \A u \in User : upc[u] /= "idle" ~> upc[u] = "idle"

(* "Start listening" (UdpSrv.h:67): what arrives on a joined socket reaches
   the callback unless the socket is left.                                  *)
JoinedIsServed ==
    \A p \in Sock : p \in handles /\ pending[p] > 0 ~> p \notin handles \/ pending[p] = 0

(* The threads differ in nothing, the users only in who sends: for runs of
   invariants.                                                             *)
Symmetry == Permutations(User \ {Sender}) \cup Permutations(Worker)
=============================================================================
