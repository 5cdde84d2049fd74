--------------------------- MODULE WebServerProofs ---------------------------
(* Theorems about WebServer for every value of its constants. *)
EXTENDS WebServer, TLAPS, FiniteSetTheorems

-----------------------------------------------------------------------------
(* The inductive invariant: TypeOK and the four parts below.               *)

Live     == {h \in Handler : h \in Pool \/ h = cur}
Starting == pc[Server] \in {"attach", "servlet", "busy", "push"}

(* Where the acceptor is fixes what its locals mean.                       *)
AcceptorInv ==
    /\ Starting <=> cur \in Handler
    /\ s \in FD <=> pc[Server] \in {"scan", "new", "attach", "reject"}
    /\ pc[Server] \in {"none", "exit"} \/ owner \in {"up", "join"}
    /\ pc[Server] = "new" => Len(m_vecHandler) < m_nMaxThread

(* Handlers outside the pool have no thread and no socket, and only the
   destructor stops a handler.                                             *)
StopInv ==
    /\ Deleting => pc[Server] = "none"
    /\ owner \in {"closesocket", "invalidate", "flag", "joinhandler"} => d <= Len(m_vecHandler)
    /\ owner = "down" => pc[Server] = "none" /\ m_vecHandler = <<>>
    /\ ~Deleting => \A h \in Live : ~m_bStop[h] /\ pc[h] /= "exit"
    /\ \A h \in Handler \ Live : pc[h] = "none" /\ m_hSocket[h] = INVALID_SOCKET
    /\ Deleting => \A n \in 1..Len(m_vecHandler) :
          n < d => /\ pc[m_vecHandler[n]] = "none"
                   /\ m_hSocket[m_vecHandler[n]] = INVALID_SOCKET

(* The idle flag and the program counter of a handler.                     *)
IdleOf(h) ==
    /\ m_bIdle[h] => pc[h] \in {"none", "exit", "top", "poll"}
    /\ ~m_bIdle[h] => m_pServlet[h]
    /\ (h = cur /\ pc[Server] \in {"attach", "servlet", "busy"}) => m_bIdle[h]
    /\ (h = cur /\ pc[Server] = "busy") => m_pServlet[h]
IdleInv == \A h \in Handler : IdleOf(h)

(* While nothing is being deleted a handler holds the open descriptor of
   one connection exactly as long as it is not idle.                       *)
HoldOf(h) ==
    /\ m_bIdle[h] => \/ m_hSocket[h] = INVALID_SOCKET
                     \/ h = cur /\ pc[Server] \in {"servlet", "busy"}
    /\ (h = cur /\ pc[Server] \in {"servlet", "busy"}) => m_hSocket[h] \in FD
    /\ (~m_bIdle[h] /\ pc[h] \notin {"invalidate", "idle"}) => m_hSocket[h] \in FD
    /\ pc[h] = "idle" => m_hSocket[h] = INVALID_SOCKET
    /\ (m_hSocket[h] \in FD /\ pc[h] /= "invalidate") => file[m_hSocket[h]] \in Conn
HoldInv ==
    /\ s \in FD => file[s] \in Conn
    /\ ~Deleting => \A h \in Live : HoldOf(h)

(* What a handler has received came from the connection it still holds.    *)
RxOf(h) ==
    /\ pc[h] \in {"blocked", "service"} => rx[h] \in Conn
    /\ pc[h] \in IOLabel \ {"invalidate", "idle"} =>
          (rx[h] \in Conn /\ Peer(h) \in Conn => Peer(h) = rx[h])
RxInv == \A h \in Handler : RxOf(h)

IInv == TypeOK /\ AcceptorInv /\ StopInv /\ PoolBounded /\ IdleInv /\ SoleOwner
        /\ HoldInv /\ RxInv /\ AnswerGoesHome
-----------------------------------------------------------------------------
(* Type correctness.                                                       *)

LEMMA InitType == Init => TypeOK
  BY PoolSize, TableSize, Objects, Entries, Bounds
     DEF Init, TypeOK, Object, SOCKET, FD, INVALID_SOCKET, AcceptorLabel,
         HandlerLabel, OwnerLabel

PcType == /\ pc \in [Object -> AcceptorLabel \cup HandlerLabel]
          /\ pc[Server] \in AcceptorLabel
          /\ \A h \in Handler : pc[h] \in HandlerLabel

LEMMA GotoServer ==
    ASSUME PcType, NEW label \in AcceptorLabel, Goto(Server, label)
    PROVE  PcType'
  BY Objects DEF PcType, Goto, Object

LEMMA GotoHandler ==
    ASSUME PcType, NEW h \in Handler, NEW label \in HandlerLabel, Goto(h, label)
    PROVE  PcType'
  BY Objects DEF PcType, Goto, Object

(* The steps of Next, so that every proof by cases names them once.        *)
LEMMA NextCases ==
    ASSUME Next
    PROVE  \/ \E c \in Conn : Connect(c) \/ Transmit(c) \/ HangUp(c)
           \/ ForeignOpen \/ ForeignClose
           \/ AcceptorLoop \/ Select \/ Accept \/ Scan \/ Reject \/ NewHandler
           \/ StartAttach \/ StartServlet \/ StartBusy \/ Push
           \/ \E h \in Handler : 
                 \/ Top(h) \/ Poll(h) \/ IOLoop(h) \/ RecvEnter(h) \/ RecvReturn(h)
                 \/ Respond(h) \/ CloseTest(h) \/ CloseCall(h) \/ CloseStore(h)
                 \/ BecomeIdle(h)
           \/ Start \/ StopFlag \/ StopJoin \/ DeleteTest \/ DeleteClose
           \/ DeleteStore \/ DeleteFlag \/ DeleteJoin \/ StopClear
  BY DEF Next, Acceptor, Routine, StopRest

LEMMA TypeStep == TypeOK /\ AcceptorInv /\ StopInv /\ RxInv /\ [Next]_vars => TypeOK'
<1> SUFFICES ASSUME TypeOK, AcceptorInv, StopInv, RxInv, [Next]_vars PROVE TypeOK'
    OBVIOUS
<1> USE PoolSize, TableSize, Objects, Entries, Bounds DEF TypeOK, Object, SOCKET, FD, INVALID_SOCKET
<1>1. ASSUME NEW c \in Conn, Connect(c) \/ Transmit(c) \/ HangUp(c) PROVE TypeOK'
  <2>1. CASE Connect(c)
    BY <2>1 DEF Connect, objVars, cacheVars, acceptVars, ownerVars
  <2>2. CASE Transmit(c)
    <3>1. togo[c] - 1 \in Nat /\ wire[c] + 1 \in Nat
      BY <2>2 DEF Transmit
    <3>. QED  BY <2>2, <3>1 DEF Transmit, objVars, cacheVars, acceptVars, ownerVars
  <2>3. CASE HangUp(c)
    BY <2>3 DEF HangUp, objVars, cacheVars, acceptVars, ownerVars
  <2>. QED  BY <1>1, <2>1, <2>2, <2>3
<1>2. CASE ForeignOpen \/ ForeignClose
    BY <1>2 DEF ForeignOpen, ForeignClose, CloseFd, IsLowestFree, objVars, cacheVars,
             acceptVars, ownerVars, netVars
<1>3. CASE AcceptorLoop
    BY <1>3 DEF AcceptorLoop, Goto, OnlyPc, CloseFd, IsLowestFree, AcceptorInv, AcceptorLabel,
             Starting, Pool, objVars, cacheVars, acceptVars, ownerVars, netVars
<1>4. CASE Select
    BY <1>4 DEF Select, Goto, OnlyPc, CloseFd, IsLowestFree, AcceptorInv, AcceptorLabel,
             Starting, Pool, objVars, cacheVars, acceptVars, ownerVars, netVars
<1>5. CASE Accept
  <2>1. PcType'
    BY <1>5, GotoServer DEF Accept, PcType, AcceptorLabel
  <2>2. /\ file' \in [FD -> Conn \cup {Listening, Foreign, Free}]
        /\ phase' \in [Conn -> {"new", "queued", "taken", "dropped"}]
        /\ s' \in SOCKET /\ i' \in Nat \ {0}
    <3>1. CASE \E c \in Conn, f \in FD :
                  /\ phase' = [phase EXCEPT ![c] = "taken"]
                  /\ file' = [file EXCEPT ![f] = c]
                  /\ s' = f /\ i' = 1
      BY <3>1
    <3>2. CASE UNCHANGED <<s, i, file, phase>>
      BY <3>2
    <3>. QED  BY <1>5, <3>1, <3>2 DEF Accept, IsLowestFree
  <2>. QED  BY <1>5, <2>1, <2>2 DEF Accept, PcType, objVars, cacheVars, ownerVars
<1>6. CASE Scan
  <2>1. PcType'
    BY <1>6, GotoServer DEF Scan, PcType, AcceptorLabel
  <2>2. i' \in Nat \ {0} /\ cur' \in Handler \cup {NONE}
    BY <1>6 DEF Scan
  <2>. QED  BY <1>6, <2>1, <2>2 DEF Scan, PcType, objVars, cacheVars, ownerVars, netVars
<1>7. CASE Reject
    BY <1>7 DEF Reject, Goto, OnlyPc, CloseFd, IsLowestFree, AcceptorInv, AcceptorLabel,
             Starting, Pool, objVars, cacheVars, acceptVars, ownerVars, netVars
<1>8. CASE NewHandler
  <2>1. PICK h \in Handler, started \in BOOLEAN :
           /\ cur' = h
           /\ m_bIdle' = [m_bIdle EXCEPT ![h] = TRUE]
           /\ m_pServlet' = [m_pServlet EXCEPT ![h] = FALSE]
           /\ m_bStop' = [m_bStop EXCEPT ![h] = FALSE]
           /\ m_hSocket' = [m_hSocket EXCEPT ![h] = INVALID_SOCKET]
           /\ pc' = [pc EXCEPT ![Server] = "attach", ![h] = IF started THEN "top" ELSE "none"]
    BY <1>8 DEF NewHandler
  <2>2. PcType'
    BY <2>1 DEF PcType, AcceptorLabel, HandlerLabel
  <2>. QED  BY <1>8, <2>1, <2>2 DEF NewHandler, PcType, cacheVars, ownerVars, netVars
<1>9. CASE StartAttach
    BY <1>9 DEF StartAttach, Goto, OnlyPc, CloseFd, IsLowestFree, AcceptorInv, AcceptorLabel,
             Starting, Pool, objVars, cacheVars, acceptVars, ownerVars, netVars
<1>10. CASE StartServlet
    BY <1>10 DEF StartServlet, Goto, OnlyPc, CloseFd, IsLowestFree, AcceptorInv, AcceptorLabel,
             Starting, Pool, objVars, cacheVars, acceptVars, ownerVars, netVars
<1>11. CASE StartBusy
    BY <1>11 DEF StartBusy, Goto, OnlyPc, CloseFd, IsLowestFree, AcceptorInv, AcceptorLabel,
             Starting, Pool, objVars, cacheVars, acceptVars, ownerVars, netVars
<1>12. CASE Push
    BY <1>12 DEF Push, Goto, OnlyPc, CloseFd, IsLowestFree, AcceptorInv, AcceptorLabel,
             Starting, Pool, objVars, cacheVars, acceptVars, ownerVars, netVars
<1>13. ASSUME NEW h \in Handler, Top(h) PROVE TypeOK'
    BY <1>13 DEF Top, Goto, OnlyPc, CloseFd, Peer, HandlerLabel, RxInv, objVars,
             cacheVars, acceptVars, ownerVars, netVars
<1>14. ASSUME NEW h \in Handler, Poll(h) PROVE TypeOK'
  <2>1. PcType'
    BY <1>14, GotoHandler DEF Poll, PcType, HandlerLabel
  <2>2. cache' \in [Handler -> Nat] /\ rx' \in [Handler -> Conn \cup {NONE}]
    <3>1. CASE UNCHANGED cacheVars
      BY <3>1 DEF cacheVars
    <3>2. CASE cache' = [cache EXCEPT ![h] = 0] /\ rx' = [rx EXCEPT ![h] = NONE]
      BY <3>2
    <3>. QED  BY <1>14, <3>1, <3>2 DEF Poll
  <2>. QED  BY <1>14, <2>1, <2>2 DEF Poll, PcType, objVars, acceptVars, ownerVars, netVars
<1>15. ASSUME NEW h \in Handler, IOLoop(h) PROVE TypeOK'
    BY <1>15 DEF IOLoop, Goto, OnlyPc, CloseFd, Peer, HandlerLabel, RxInv, objVars,
             cacheVars, acceptVars, ownerVars, netVars
<1>16. ASSUME NEW h \in Handler, RecvEnter(h) PROVE TypeOK'
  <2>1. PcType'
    BY <1>16, GotoHandler DEF RecvEnter, PcType, HandlerLabel
  <2>2. rx' \in [Handler -> Conn \cup {NONE}]
    BY <1>16 DEF RecvEnter, Peer
  <2>. QED  BY <1>16, <2>1, <2>2 DEF RecvEnter, PcType, objVars, acceptVars, ownerVars, netVars
<1>17. ASSUME NEW h \in Handler, RecvReturn(h) PROVE TypeOK'
  <2>1. PcType'
    BY <1>17, GotoHandler DEF RecvReturn, PcType, HandlerLabel
  <2>2. cache' \in [Handler -> Nat] /\ wire' \in [Conn -> Nat]
    <3>1. CASE UNCHANGED <<cache, wire>>
      BY <3>1
    <3>2. ASSUME NEW n \in 1..wire[rx[h]], cache' = [cache EXCEPT ![h] = @ + n],
                 wire' = [wire EXCEPT ![rx[h]] = @ - n]
          PROVE  cache' \in [Handler -> Nat] /\ wire' \in [Conn -> Nat]
      <4>1. rx[h] \in Conn
        BY <1>17 DEF RecvReturn, RxInv, RxOf
      <4>2. wire[rx[h]] \in Nat /\ n \in Nat /\ n <= wire[rx[h]] /\ cache[h] \in Nat
        BY <4>1
      <4>3. wire[rx[h]] - n \in Nat /\ cache[h] + n \in Nat
        BY <4>2
      <4>. QED  BY <3>2, <4>1, <4>3
    <3>. QED  BY <1>17, <3>1, <3>2 DEF RecvReturn
  <2>. QED  BY <1>17, <2>1, <2>2 DEF RecvReturn, PcType, objVars, acceptVars, ownerVars, netVars
<1>18. ASSUME NEW h \in Handler, Respond(h) PROVE TypeOK'
  <2>1. PcType'
    BY <1>18, GotoHandler DEF Respond, PcType, HandlerLabel
  <2>2. answers' \in [Conn -> SUBSET Conn]
    <3>1. rx[h] \in Conn
      BY <1>18 DEF Respond, RxInv, RxOf
    <3>2. CASE Peer(h) /= NONE /\ answers' = [answers EXCEPT ![Peer(h)] = @ \cup {rx[h]}]
      <4>1. Peer(h) \in Conn
        BY <3>2 DEF Peer
      <4>2. answers[Peer(h)] \cup {rx[h]} \in SUBSET Conn
        BY <3>1, <4>1
      <4>. QED  BY <3>2, <4>1, <4>2
    <3>. QED  BY <1>18, <3>2 DEF Respond
  <2>. QED
    BY <1>18, <2>1, <2>2 DEF Respond, PcType, objVars, cacheVars, acceptVars, ownerVars
<1>19. ASSUME NEW h \in Handler, CloseTest(h) PROVE TypeOK'
    BY <1>19 DEF CloseTest, Goto, OnlyPc, CloseFd, Peer, HandlerLabel, RxInv, objVars,
             cacheVars, acceptVars, ownerVars, netVars
<1>20. ASSUME NEW h \in Handler, CloseCall(h) PROVE TypeOK'
    BY <1>20 DEF CloseCall, Goto, OnlyPc, CloseFd, Peer, HandlerLabel, RxInv, objVars,
             cacheVars, acceptVars, ownerVars, netVars
<1>21. ASSUME NEW h \in Handler, CloseStore(h) PROVE TypeOK'
    BY <1>21 DEF CloseStore, Goto, OnlyPc, CloseFd, Peer, HandlerLabel, RxInv, objVars,
             cacheVars, acceptVars, ownerVars, netVars
<1>22. ASSUME NEW h \in Handler, BecomeIdle(h) PROVE TypeOK'
    BY <1>22 DEF BecomeIdle, Goto, OnlyPc, CloseFd, Peer, HandlerLabel, RxInv, objVars,
             cacheVars, acceptVars, ownerVars, netVars
<1>23. CASE Start
  <2>1. /\ file' \in [FD -> Conn \cup {Listening, Foreign, Free}]
        /\ m_hSocket' \in [Object -> SOCKET]
        /\ m_bStop' \in [Object -> BOOLEAN]
    <3>1. CASE \E f \in FD :
                  /\ file' = [file EXCEPT ![f] = Listening]
                  /\ m_hSocket' = [m_hSocket EXCEPT ![Server] = f]
                  /\ m_bStop' = [m_bStop EXCEPT ![Server] = FALSE]
      BY <3>1
    <3>2. CASE UNCHANGED <<file, m_hSocket, m_bStop>>
      BY <3>2
    <3>. QED  BY <1>23, <3>1, <3>2 DEF Start, IsLowestFree
  <2>2. PcType'
    BY <1>23, GotoServer DEF Start, PcType, AcceptorLabel
  <2>. QED
    BY <1>23, <2>1, <2>2 DEF Start, OwnerLabel, PcType, cacheVars, acceptVars, netVars
<1>24. CASE StopFlag
    BY <1>24 DEF StopFlag, Goto, OnlyPc, CloseFd, IsLowestFree, StopInv, AcceptorLabel,
             HandlerLabel, OwnerLabel, objVars, cacheVars, acceptVars, ownerVars, netVars
<1>25. CASE StopJoin
    BY <1>25 DEF StopJoin, Goto, OnlyPc, CloseFd, IsLowestFree, StopInv, AcceptorLabel,
             HandlerLabel, OwnerLabel, objVars, cacheVars, acceptVars, ownerVars, netVars
<1>26. CASE DeleteTest
    BY <1>26 DEF DeleteTest, Goto, OnlyPc, CloseFd, IsLowestFree, StopInv, AcceptorLabel,
             HandlerLabel, OwnerLabel, objVars, cacheVars, acceptVars, ownerVars, netVars
<1>27. CASE DeleteClose
    BY <1>27 DEF DeleteClose, Goto, OnlyPc, CloseFd, IsLowestFree, StopInv, AcceptorLabel,
             HandlerLabel, OwnerLabel, objVars, cacheVars, acceptVars, ownerVars, netVars
<1>28. CASE DeleteStore
    BY <1>28 DEF DeleteStore, Goto, OnlyPc, CloseFd, IsLowestFree, StopInv, AcceptorLabel,
             HandlerLabel, OwnerLabel, objVars, cacheVars, acceptVars, ownerVars, netVars
<1>29. CASE DeleteFlag
    BY <1>29 DEF DeleteFlag, Goto, OnlyPc, CloseFd, IsLowestFree, StopInv, AcceptorLabel,
             HandlerLabel, OwnerLabel, objVars, cacheVars, acceptVars, ownerVars, netVars
<1>30. CASE DeleteJoin
    BY <1>30 DEF DeleteJoin, Goto, OnlyPc, CloseFd, IsLowestFree, StopInv, AcceptorLabel,
             HandlerLabel, OwnerLabel, objVars, cacheVars, acceptVars, ownerVars, netVars
<1>31. CASE StopClear
    BY <1>31 DEF StopClear, Goto, OnlyPc, CloseFd, IsLowestFree, StopInv, AcceptorLabel,
             HandlerLabel, OwnerLabel, objVars, cacheVars, acceptVars, ownerVars, netVars
<1>32. CASE UNCHANGED vars
    BY <1>32 DEF vars, objVars, cacheVars, acceptVars, ownerVars, netVars
<1>. QED  BY <1>1, <1>2, <1>3, <1>4, <1>5, <1>6, <1>7, <1>8, <1>9, <1>10, <1>11, <1>12, <1>13, <1>14, <1>15, <1>16, <1>17, <1>18, <1>19, <1>20, <1>21, <1>22, <1>23, <1>24, <1>25, <1>26, <1>27, <1>28, <1>29, <1>30, <1>31, <1>32, NextCases

-----------------------------------------------------------------------------
(* Frames: what the steps of one kind of actor leave alone.                *)

LEMMA HandlerFrame ==
    ASSUME TypeOK, NEW h \in Handler, Routine(h)
    PROVE  /\ pc[h] \notin {"none", "exit"}
           /\ \E label \in HandlerLabel \ {"none"} :
                 /\ Goto(h, label)
                 /\ label = "exit" => m_bStop[h]
           /\ UNCHANGED <<m_bStop, m_pServlet, m_vecHandler, acceptVars, ownerVars>>
           /\ \/ UNCHANGED m_hSocket
              \/ m_hSocket' = [m_hSocket EXCEPT ![h] = INVALID_SOCKET]
<1> USE DEF objVars, cacheVars, OnlyPc, HandlerLabel
<1>1. CASE Top(h)  BY <1>1 DEF Top
<1>2. CASE Poll(h)  BY <1>2 DEF Poll
<1>3. CASE IOLoop(h)  BY <1>3 DEF IOLoop
<1>4. CASE RecvEnter(h)  BY <1>4 DEF RecvEnter
<1>5. CASE RecvReturn(h)  BY <1>5 DEF RecvReturn
<1>6. CASE Respond(h)  BY <1>6 DEF Respond
<1>7. CASE CloseTest(h)  BY <1>7 DEF CloseTest
<1>8. CASE CloseCall(h)  BY <1>8 DEF CloseCall
<1>9. CASE CloseStore(h)  BY <1>9 DEF CloseStore
<1>10. CASE BecomeIdle(h)  BY <1>10 DEF BecomeIdle
<1>. QED
  BY <1>1, <1>2, <1>3, <1>4, <1>5, <1>6, <1>7, <1>8, <1>9, <1>10 DEF Routine

Environment == (\E c \in Conn : Connect(c) \/ Transmit(c) \/ HangUp(c))
               \/ ForeignOpen \/ ForeignClose

LEMMA EnvironmentFrame ==
    ASSUME Environment
    PROVE  UNCHANGED <<pc, objVars, cacheVars, acceptVars, ownerVars, answers>>
  BY DEF Environment, Connect, Transmit, HangUp, ForeignOpen, ForeignClose, netVars

-----------------------------------------------------------------------------
(* Control: AcceptorInv, StopInv and PoolBounded.                          *)

LEMMA AcceptorStep ==
    TypeOK /\ AcceptorInv /\ StopInv /\ [Next]_vars => AcceptorInv'
<1> SUFFICES ASSUME TypeOK, AcceptorInv, StopInv, [Next]_vars PROVE AcceptorInv'
    OBVIOUS
<1> USE Objects DEF AcceptorInv, Starting, Goto, OnlyPc, objVars, acceptVars, ownerVars
<1>1. CASE Environment
    BY <1>1, EnvironmentFrame
<1>2. ASSUME NEW h \in Handler, Routine(h) PROVE AcceptorInv'
    BY <1>2, HandlerFrame DEF TypeOK, Object
<1>3. CASE AcceptorLoop
    BY <1>3 DEF AcceptorLoop, TypeOK, Object
<1>4. CASE Select
    BY <1>4 DEF Select, TypeOK, Object
<1>5. CASE Accept
    BY <1>5 DEF Accept, TypeOK, Object, IsLowestFree, SOCKET, INVALID_SOCKET
<1>6. CASE Scan
  <2>1. i <= Len(m_vecHandler) => m_vecHandler[i] \in Handler
    BY DEF TypeOK
  <2>2. m_nMaxThread \in Nat /\ Len(m_vecHandler) \in Nat
    BY PoolSize DEF TypeOK
  <2>. QED  BY <1>6, <2>1, <2>2 DEF Scan, TypeOK, Object
<1>7. CASE Reject
    BY <1>7 DEF Reject, TypeOK, Object, FD, INVALID_SOCKET
<1>8. CASE NewHandler
    BY <1>8 DEF NewHandler, TypeOK, Object
<1>9. CASE StartAttach
    BY <1>9 DEF StartAttach, TypeOK, Object, FD, INVALID_SOCKET
<1>10. CASE StartServlet
    BY <1>10 DEF StartServlet, TypeOK, Object
<1>11. CASE StartBusy
    BY <1>11 DEF StartBusy, TypeOK, Object
<1>12. CASE Push
    BY <1>12 DEF Push, TypeOK, Object
<1>13. CASE Start
    BY <1>13 DEF Start, TypeOK, Object, StopInv, Deleting
<1>14. CASE StopFlag
    BY <1>14 DEF StopFlag, TypeOK, Object, StopInv, Deleting
<1>15. CASE StopJoin
    BY <1>15 DEF StopJoin, TypeOK, Object, StopInv, Deleting
<1>16. CASE DeleteTest
    BY <1>16 DEF DeleteTest, TypeOK, Object, StopInv, Deleting
<1>17. CASE DeleteClose
    BY <1>17 DEF DeleteClose, TypeOK, Object, StopInv, Deleting
<1>18. CASE DeleteStore
    BY <1>18 DEF DeleteStore, TypeOK, Object, StopInv, Deleting
<1>19. CASE DeleteFlag
    BY <1>19 DEF DeleteFlag, TypeOK, Object, StopInv, Deleting
<1>20. CASE DeleteJoin
    BY <1>20 DEF DeleteJoin, TypeOK, Object, StopInv, Deleting
<1>21. CASE StopClear
    BY <1>21 DEF StopClear, TypeOK, Object, StopInv, Deleting
<1>22. CASE UNCHANGED vars
    BY <1>22 DEF vars
<1>. QED
  BY <1>1, <1>2, <1>3, <1>4, <1>5, <1>6, <1>7, <1>8, <1>9, <1>10, <1>11, <1>12, <1>13, <1>14, <1>15, <1>16, <1>17, <1>18, <1>19, <1>20, <1>21, <1>22, NextCases
     DEF Environment, Routine

LEMMA LiveFrame ==
    ASSUME UNCHANGED <<m_vecHandler, cur>>
    PROVE  Pool' = Pool /\ Live' = Live
  BY DEF Pool, Live

(* Pool threads are never the acceptor's.                                  *)
LEMMA PoolHandlers == TypeOK => Pool \subseteq Handler /\ Server \notin Pool
  BY Objects DEF TypeOK, Pool

LEMMA PushPool ==
    ASSUME m_vecHandler \in Seq(Handler), NEW h \in Handler,
           m_vecHandler' = IF h \in Pool THEN m_vecHandler ELSE Append(m_vecHandler, h)
    PROVE  Pool' = Pool \cup {h}
<1>1. CASE h \in Pool
  BY <1>1 DEF Pool
<1>2. CASE h \notin Pool
  <2>1. /\ Len(m_vecHandler') = Len(m_vecHandler) + 1
        /\ m_vecHandler'[Len(m_vecHandler) + 1] = h
        /\ \A n \in 1..Len(m_vecHandler) : m_vecHandler'[n] = m_vecHandler[n]
    BY <1>2
  <2>2. 1..Len(m_vecHandler') = 1..Len(m_vecHandler) \cup {Len(m_vecHandler) + 1}
    BY <2>1
  <2>. QED  BY <2>1, <2>2 DEF Pool
<1>. QED  BY <1>1, <1>2

LEMMA AcceptorFrame ==
    ASSUME TypeOK, AcceptorInv, Acceptor
    PROVE  /\ owner \in {"up", "join"}
           /\ UNCHANGED <<ownerVars, cacheVars, togo, wire, eof, answers>>
<1>1. pc[Server] \notin {"none", "exit"}
  BY DEF Acceptor, AcceptorLoop, Select, Accept, Scan, Reject, NewHandler,
         StartAttach, StartServlet, StartBusy, Push
<1>2. UNCHANGED <<ownerVars, cacheVars, togo, wire, eof, answers>>
  BY DEF Acceptor, AcceptorLoop, Select, Accept, Scan, Reject, NewHandler,
         StartAttach, StartServlet, StartBusy, Push, OnlyPc, netVars
<1>. QED  BY <1>1, <1>2 DEF AcceptorInv

(* Steps of the acceptor that change no handler but, perhaps, its flags.   *)
QuietAcceptor == AcceptorLoop \/ Select \/ Accept \/ Reject \/ StartServlet \/ StartBusy

LEMMA QuietFrame ==
    ASSUME TypeOK, QuietAcceptor
    PROVE  /\ UNCHANGED <<m_vecHandler, cur, m_bStop, m_hSocket>>
           /\ \A h \in Handler : pc'[h] = pc[h]
<1> USE Objects DEF TypeOK, Object, Goto, OnlyPc, objVars, acceptVars
<1>1. CASE AcceptorLoop  BY <1>1 DEF AcceptorLoop
<1>2. CASE Select  BY <1>2 DEF Select
<1>3. CASE Accept  BY <1>3 DEF Accept
<1>4. CASE Reject  BY <1>4 DEF Reject
<1>5. CASE StartServlet  BY <1>5 DEF StartServlet
<1>6. CASE StartBusy  BY <1>6 DEF StartBusy
<1>. QED  BY <1>1, <1>2, <1>3, <1>4, <1>5, <1>6 DEF QuietAcceptor

LEMMA StopStep ==
    TypeOK /\ AcceptorInv /\ StopInv /\ [Next]_vars => StopInv'
<1> SUFFICES ASSUME TypeOK, AcceptorInv, StopInv, [Next]_vars PROVE StopInv'
    OBVIOUS
<1>1. CASE Environment
    BY <1>1, EnvironmentFrame, LiveFrame
       DEF StopInv, Deleting, objVars, acceptVars, ownerVars
<1>2. ASSUME NEW h \in Handler, Routine(h) PROVE StopInv'
  <2>1. PICK label \in HandlerLabel \ {"none"} :
              Goto(h, label) /\ (label = "exit" => m_bStop[h])
    BY <1>2, HandlerFrame
  <2>2. /\ pc[h] \notin {"none", "exit"}
        /\ UNCHANGED <<m_bStop, m_vecHandler, cur, d, owner>>
        /\ \/ UNCHANGED m_hSocket
           \/ m_hSocket' = [m_hSocket EXCEPT ![h] = INVALID_SOCKET]
    BY <1>2, HandlerFrame DEF acceptVars, ownerVars
  <2>3. /\ pc'[Server] = pc[Server] /\ pc'[h] = label
        /\ \A g \in Handler \ {h} : pc'[g] = pc[g] /\ m_hSocket'[g] = m_hSocket[g]
    BY <2>1, <2>2, Objects DEF Goto, TypeOK, Object
  <2>4. h \in Live /\ Live' = Live
    BY <2>2, LiveFrame DEF StopInv
  <2>5. ~Deleting => \A g \in Live : ~m_bStop'[g] /\ pc'[g] /= "exit"
    BY <2>1, <2>2, <2>3, <2>4 DEF StopInv, Live
  <2>6. \A g \in Handler \ Live : pc'[g] = "none" /\ m_hSocket'[g] = INVALID_SOCKET
    BY <2>3, <2>4 DEF StopInv
  <2>7. ASSUME Deleting, NEW n \in 1..Len(m_vecHandler), n < d
        PROVE  pc'[m_vecHandler[n]] = "none" /\ m_hSocket'[m_vecHandler[n]] = INVALID_SOCKET
    <3>1. m_vecHandler[n] \in Handler /\ m_vecHandler[n] /= h
      BY <2>2, <2>7 DEF StopInv, TypeOK
    <3>. QED  BY <2>3, <2>7, <3>1 DEF StopInv
  <2>. QED  BY <2>2, <2>3, <2>4, <2>5, <2>6, <2>7 DEF StopInv, Deleting
<1>3. CASE Acceptor
  <2>1. owner \in {"up", "join"} /\ owner' = owner
    BY <1>3, AcceptorFrame DEF ownerVars
  <2>2. SUFFICES /\ \A h \in Live' : ~m_bStop'[h] /\ pc'[h] /= "exit"
                 /\ \A h \in Handler \ Live' : pc'[h] = "none" /\ m_hSocket'[h] = INVALID_SOCKET
    BY <2>1 DEF StopInv, Deleting
  <2>3. /\ \A h \in Live : ~m_bStop[h] /\ pc[h] /= "exit"
        /\ \A h \in Handler \ Live : pc[h] = "none" /\ m_hSocket[h] = INVALID_SOCKET
    BY <2>1 DEF StopInv, Deleting
  <2>4. CASE QuietAcceptor
    BY <2>3, <2>4, QuietFrame, LiveFrame DEF Live
  <2>5. CASE Scan
    <3>1. UNCHANGED <<m_vecHandler, m_bStop, m_hSocket>> /\ (cur' = cur \/ cur' \in Pool)
      BY <2>5, PoolHandlers DEF Scan, objVars, Pool, TypeOK
    <3>2. \A h \in Handler : pc'[h] = pc[h]
      BY <2>5, Objects DEF Scan, Goto, TypeOK, Object
    <3>3. Live' = Live
      <4>1. Pool' = Pool  BY <3>1 DEF Pool
      <4>2. CASE cur' = cur  BY <4>1, <4>2 DEF Live
      <4>3. CASE cur' /= cur
        BY <2>5, <4>1, <4>3, <3>1 DEF Live, AcceptorInv, Starting, Scan
      <4>. QED  BY <4>2, <4>3
    <3>. QED  BY <2>3, <3>1, <3>2, <3>3 DEF Live
  <2>6. CASE NewHandler
    <3>1. PICK h \in Handler :
             /\ cur' = h /\ m_bStop' = [m_bStop EXCEPT ![h] = FALSE]
             /\ m_hSocket' = [m_hSocket EXCEPT ![h] = INVALID_SOCKET]
             /\ pc'[h] \in {"top", "none"}
             /\ \A g \in Handler \ {h} : pc'[g] = pc[g]
      <4>1. PICK h \in Handler, started \in BOOLEAN :
               /\ cur' = h /\ m_bStop' = [m_bStop EXCEPT ![h] = FALSE]
               /\ m_hSocket' = [m_hSocket EXCEPT ![h] = INVALID_SOCKET]
               /\ pc' = [pc EXCEPT ![Server] = "attach", ![h] = IF started THEN "top" ELSE "none"]
        BY <2>6 DEF NewHandler
      <4>2. pc'[h] \in {"top", "none"} /\ \A g \in Handler \ {h} : pc'[g] = pc[g]
        BY <4>1, Objects DEF TypeOK, Object
      <4>. QED  BY <4>1, <4>2
    <3>2. cur \notin Handler /\ Pool' = Pool
      BY <2>6 DEF NewHandler, AcceptorInv, Starting, Pool
    <3>3. Live' = Live \cup {h}
      BY <3>1, <3>2 DEF Live
    <3>. QED  BY <2>3, <3>1, <3>3 DEF Live, TypeOK, Object
  <2>7. CASE StartAttach
    <3>1. UNCHANGED <<m_vecHandler, cur, m_bStop>> /\ cur \in Live
      BY <2>7 DEF StartAttach, AcceptorInv, Starting, Live
    <3>2. \A h \in Handler : pc'[h] = pc[h] /\ (h /= cur => m_hSocket'[h] = m_hSocket[h])
      BY <2>7, Objects DEF StartAttach, Goto, TypeOK, Object
    <3>. QED  BY <2>3, <3>1, <3>2, LiveFrame DEF Live
  <2>8. CASE Push
    <3>1. UNCHANGED <<m_bStop, m_hSocket>> /\ \A h \in Handler : pc'[h] = pc[h]
      BY <2>8, Objects DEF Push, Goto, TypeOK, Object
    <3>2. Live' = Live
      <4>1. cur \in Handler /\ cur' \notin Handler
        BY <2>8, Objects DEF Push, AcceptorInv, Starting
      <4>2. Pool' = Pool \cup {cur}
        BY <2>8, <4>1, PushPool DEF Push, TypeOK
      <4>. QED  BY <4>1, <4>2 DEF Live
    <3>. QED  BY <2>3, <3>1, <3>2 DEF Live
  <2>. QED
    BY <1>3, <2>4, <2>5, <2>6, <2>7, <2>8 DEF Acceptor, QuietAcceptor
<1>4. CASE Start \/ StopFlag
  <2>1. owner \in {"down", "up"} /\ owner' \in {"up", "join"}
    BY <1>4 DEF Start, StopFlag
  <2>2. UNCHANGED <<m_vecHandler, cur>>
    BY <1>4 DEF Start, StopFlag, acceptVars
  <2>3. \A h \in Handler : m_bStop'[h] = m_bStop[h] /\ pc'[h] = pc[h] /\ m_hSocket'[h] = m_hSocket[h]
    <3>1. CASE StopFlag
      BY <3>1, Objects DEF StopFlag, TypeOK, Object
    <3>2. CASE Start
      <4>1. /\ pc' = pc \/ pc' = [pc EXCEPT ![Server] = "loop"]
            /\ m_bStop' = m_bStop \/ m_bStop' = [m_bStop EXCEPT ![Server] = FALSE]
            /\ \/ m_hSocket' = m_hSocket
               \/ \E f \in FD : m_hSocket' = [m_hSocket EXCEPT ![Server] = f]
        BY <3>2 DEF Start, Goto
      <4>. QED  BY <4>1, Objects DEF TypeOK, Object
    <3>. QED  BY <1>4, <3>1, <3>2
  <2>. QED  BY <2>1, <2>2, <2>3, LiveFrame DEF StopInv, Deleting, Live
<1>6. CASE StopJoin
    BY <1>6, LiveFrame, Objects
       DEF StopJoin, StopInv, Deleting, Goto, TypeOK, Object, AcceptorInv, Starting, objVars, acceptVars
<1>7. CASE DeleteTest
    BY <1>7, LiveFrame, Objects
       DEF DeleteTest, StopInv, Deleting, Goto, TypeOK, Object, AcceptorInv, Starting, objVars, acceptVars
<1>8. CASE DeleteClose
    BY <1>8, LiveFrame, Objects
       DEF DeleteClose, StopInv, Deleting, Goto, TypeOK, Object, AcceptorInv, Starting, objVars, acceptVars
<1>9. CASE DeleteStore
    BY <1>9, LiveFrame, Objects
       DEF DeleteStore, StopInv, Deleting, Goto, TypeOK, Object, AcceptorInv, Starting, objVars, acceptVars
<1>10. CASE DeleteFlag
    BY <1>10, LiveFrame, Objects
       DEF DeleteFlag, StopInv, Deleting, Goto, TypeOK, Object, AcceptorInv, Starting, objVars, acceptVars
<1>11. CASE DeleteJoin
    BY <1>11, LiveFrame, Objects
       DEF DeleteJoin, StopInv, Deleting, Goto, TypeOK, Object, AcceptorInv, Starting, objVars, acceptVars
<1>12. CASE StopClear
  <2>1. /\ Deleting /\ ~Deleting' /\ owner' = "down"
        /\ d > Len(m_vecHandler) /\ m_vecHandler' = <<>>
        /\ UNCHANGED <<pc, m_bStop, m_hSocket, cur>>
    BY <1>12 DEF StopClear, Deleting, acceptVars
  <2>2. pc[Server] = "none" /\ cur \notin Handler
    BY <2>1 DEF StopInv, AcceptorInv, Starting
  <2>3. Live' = {}
    BY <2>1, <2>2 DEF Live, Pool
  <2>4. ASSUME NEW h \in Handler PROVE pc[h] = "none" /\ m_hSocket[h] = INVALID_SOCKET
    <3>1. CASE h \in Pool
      <4>1. PICK n \in 1..Len(m_vecHandler) : h = m_vecHandler[n]
        BY <3>1 DEF Pool
      <4>2. n < d
        BY <2>1, <4>1 DEF TypeOK
      <4>. QED  BY <2>1, <4>1, <4>2 DEF StopInv
    <3>2. CASE h \notin Pool
      BY <2>2, <3>2 DEF StopInv, Live
    <3>. QED  BY <3>1, <3>2
  <2>. QED  BY <2>1, <2>2, <2>3, <2>4 DEF StopInv
<1>13. CASE UNCHANGED vars
    BY <1>13, LiveFrame DEF StopInv, Deleting, objVars, acceptVars, ownerVars, vars
<1>. QED
  BY <1>1, <1>2, <1>3, <1>4, <1>6, <1>7, <1>8, <1>9, <1>10, <1>11, <1>12, <1>13
     DEF Next, StopRest, Environment

(* The size bound; the threads are those of live handlers by StopInv.      *)
LEMMA PoolStep ==
    TypeOK /\ AcceptorInv /\ StopInv /\ StopInv' /\ PoolBounded /\ [Next]_vars => PoolBounded'
<1> SUFFICES ASSUME TypeOK, AcceptorInv, StopInv, StopInv', PoolBounded, [Next]_vars
             PROVE  PoolBounded'
    OBVIOUS
<1>1. \A h \in Handler : pc'[h] /= "none" => h \in Pool' \cup {cur'}
  BY DEF StopInv, Live
<1>2. CASE UNCHANGED <<m_vecHandler, cur>>
  BY <1>1, <1>2, LiveFrame DEF PoolBounded
<1>3. CASE Scan
  <2>1. m_vecHandler' = m_vecHandler /\ Pool' = Pool
    BY <1>3 DEF Scan, objVars, Pool
  <2>2. cur' = cur \/ cur' \in Pool
    BY <1>3 DEF Scan, Pool, TypeOK
  <2>. QED  BY <1>1, <2>1, <2>2 DEF PoolBounded
<1>4. CASE NewHandler
  <2>1. m_vecHandler' = m_vecHandler /\ Len(m_vecHandler) < m_nMaxThread
    BY <1>4 DEF NewHandler, AcceptorInv
  <2>. QED  BY <1>1, <2>1 DEF PoolBounded
<1>5. CASE Push
  <2>1. cur \in Handler /\ cur' \notin Handler
    BY <1>5, Objects DEF Push, AcceptorInv, Starting
  <2>2. Len(m_vecHandler') <= m_nMaxThread
    <3>1. CASE cur \in Pool
      BY <1>5, <3>1 DEF Push, PoolBounded
    <3>2. CASE cur \notin Pool
      <4>1. Len(m_vecHandler) < m_nMaxThread
        BY <2>1, <3>2 DEF PoolBounded
      <4>2. Len(m_vecHandler') = Len(m_vecHandler) + 1
        BY <1>5, <2>1, <3>2 DEF Push, TypeOK
      <4>. QED  BY <4>1, <4>2, PoolSize DEF TypeOK
    <3>. QED  BY <3>1, <3>2
  <2>. QED  BY <1>1, <2>1, <2>2 DEF PoolBounded
<1>6. CASE StopClear
  <2>1. m_vecHandler' = <<>> /\ cur' = cur /\ cur \notin Handler
    BY <1>6 DEF StopClear, StopInv, AcceptorInv, Starting, Deleting, acceptVars
  <2>. QED  BY <1>1, <2>1, PoolSize DEF PoolBounded
<1>7. ASSUME NEW h \in Handler, Routine(h) PROVE UNCHANGED <<m_vecHandler, cur>>
  BY <1>7, HandlerFrame DEF acceptVars
<1>8. CASE Environment
  BY <1>2, <1>8, EnvironmentFrame DEF objVars, acceptVars
<1>9. CASE QuietAcceptor \/ StartAttach
  <2>1. UNCHANGED <<m_vecHandler, cur>>
    BY <1>9, QuietFrame DEF StartAttach
  <2>. QED  BY <1>2, <2>1
<1>10. CASE Start \/ StopFlag \/ StopJoin \/ DeleteTest \/ DeleteClose \/ DeleteStore
            \/ DeleteFlag \/ DeleteJoin \/ UNCHANGED vars
  <2>1. UNCHANGED <<m_vecHandler, cur>>
    BY <1>10 DEF Start, StopFlag, StopJoin, DeleteTest, DeleteClose, DeleteStore,
                 DeleteFlag, DeleteJoin, vars, objVars, acceptVars
  <2>. QED  BY <1>2, <2>1
<1>. QED
  BY <1>2, <1>3, <1>4, <1>5, <1>6, <1>7, <1>8, <1>9, <1>10
     DEF Next, StopRest, Environment, Acceptor, QuietAcceptor

-----------------------------------------------------------------------------
(* A handler's idle flag, its thread and its servlet: IdleInv.             *)

LEMMA IdleStep ==
    TypeOK /\ AcceptorInv /\ IdleInv /\ [Next]_vars => IdleInv'
<1> SUFFICES ASSUME TypeOK, AcceptorInv, IdleInv, [Next]_vars, NEW h \in Handler
             PROVE  IdleOf(h)'
    BY DEF IdleInv
<1>1. CASE Environment
  BY <1>1, EnvironmentFrame DEF IdleInv, IdleOf, objVars, acceptVars
<1>2. ASSUME NEW g \in Handler, Routine(g), g /= h PROVE IdleOf(h)'
  <2>1. m_bIdle' = m_bIdle \/ m_bIdle' = [m_bIdle EXCEPT ![g] = TRUE]
    BY <1>2 DEF Routine, Top, Poll, IOLoop, RecvEnter, RecvReturn, Respond, CloseTest,
                CloseCall, CloseStore, BecomeIdle, OnlyPc, objVars
  <2>2. UNCHANGED <<m_pServlet, cur>> /\ pc'[h] = pc[h] /\ pc'[Server] = pc[Server]
    BY <1>2, HandlerFrame, Objects DEF Goto, TypeOK, Object, acceptVars
  <2>. QED  BY <1>2, <2>1, <2>2 DEF IdleInv, IdleOf, TypeOK
<1>3. CASE Routine(h)
  <2>1. UNCHANGED <<m_pServlet, cur>> /\ pc'[Server] = pc[Server]
    BY <1>3, HandlerFrame, Objects DEF Goto, TypeOK, Object, acceptVars
  <2>2. \/ m_bIdle' = m_bIdle /\ (m_bIdle[h] => pc'[h] \in {"exit", "top", "poll"})
        \/ m_bIdle' = [m_bIdle EXCEPT ![h] = TRUE] /\ pc'[h] = "top"
    BY <1>3 DEF Routine, Top, Poll, IOLoop, RecvEnter, RecvReturn, Respond, CloseTest,
                CloseCall, CloseStore, BecomeIdle, OnlyPc, objVars, Goto, IdleInv, IdleOf,
                TypeOK, Object
  <2>3. m_bIdle[h] => m_bIdle'[h]
    BY <2>2 DEF TypeOK
  <2>. QED  BY <2>1, <2>2, <2>3 DEF IdleInv, IdleOf, TypeOK
<1>4. CASE Acceptor
  <2> USE Objects DEF IdleInv, IdleOf, AcceptorInv, Starting, TypeOK, Object, Goto, OnlyPc,
          objVars, acceptVars
  <2>1. CASE AcceptorLoop \/ Select \/ Accept \/ Reject
    <3>1. UNCHANGED <<m_bIdle, m_pServlet, cur>> /\ pc'[h] = pc[h]
          /\ pc'[Server] \in {"exit", "select", "loop", "accept", "scan"}
      BY <2>1 DEF AcceptorLoop, Select, Accept, Reject
    <3>. QED  BY <3>1
  <2>2. CASE Scan
    <3>1. UNCHANGED <<m_bIdle, m_pServlet>> /\ pc'[h] = pc[h]
          /\ \/ pc'[Server] \in {"scan", "reject", "new"}
             \/ pc'[Server] = "attach" /\ m_bIdle[cur']
      BY <2>2 DEF Scan
    <3>. QED  BY <3>1
  <2>3. CASE NewHandler
    <3>1. PICK g \in Handler, started \in BOOLEAN :
             /\ cur' = g
             /\ m_bIdle' = [m_bIdle EXCEPT ![g] = TRUE]
             /\ m_pServlet' = [m_pServlet EXCEPT ![g] = FALSE]
             /\ pc' = [pc EXCEPT ![Server] = "attach", ![g] = IF started THEN "top" ELSE "none"]
      BY <2>3 DEF NewHandler
    <3>. QED  BY <3>1
  <2>4. CASE StartAttach  BY <2>4 DEF StartAttach
  <2>5. CASE StartServlet  BY <2>5 DEF StartServlet
  <2>6. CASE StartBusy  BY <2>6 DEF StartBusy
  <2>7. CASE Push  BY <2>7 DEF Push
  <2>. QED  BY <1>4, <2>1, <2>2, <2>3, <2>4, <2>5, <2>6, <2>7 DEF Acceptor
<1>5. CASE Start \/ StopFlag \/ StopRest
  <2>1. UNCHANGED <<m_bIdle, m_pServlet, cur>>
    BY <1>5 DEF Start, StopFlag, StopRest, StopJoin, DeleteTest, DeleteClose, DeleteStore,
                DeleteFlag, DeleteJoin, StopClear, objVars, acceptVars
  <2>2. /\ pc'[h] = pc[h] \/ pc'[h] = "none"
        /\ pc'[Server] = pc[Server] \/ pc'[Server] \in {"loop", "none"}
    <3> USE Objects DEF TypeOK, Object, Goto, objVars
    <3>1. CASE Start
      <4>1. pc' = pc \/ pc' = [pc EXCEPT ![Server] = "loop"]
        BY <3>1 DEF Start
      <4>. QED  BY <4>1
    <3>2. CASE StopJoin  BY <3>2 DEF StopJoin
    <3>3. CASE DeleteJoin
      <4>1. pc' = [pc EXCEPT ![m_vecHandler[d]] = "none"]
        BY <3>3 DEF DeleteJoin
      <4>. QED  BY <4>1
    <3>4. CASE StopFlag \/ DeleteTest \/ DeleteClose \/ DeleteStore \/ DeleteFlag \/ StopClear
      BY <3>4 DEF StopFlag, DeleteTest, DeleteClose, DeleteStore, DeleteFlag, StopClear
    <3>. QED  BY <1>5, <3>1, <3>2, <3>3, <3>4 DEF StopRest
  <2>. QED  BY <2>1, <2>2 DEF IdleInv, IdleOf
<1>6. CASE UNCHANGED vars
  BY <1>6 DEF vars, objVars, acceptVars, IdleInv, IdleOf
<1>. QED
  BY <1>1, <1>2, <1>3, <1>4, <1>5, <1>6 DEF Next, Environment

-----------------------------------------------------------------------------
(* Descriptors: SoleOwner and HoldInv.                                     *)

LEMMA Distinct == INVALID_SOCKET \notin FD
  BY TableSize DEF INVALID_SOCKET, FD

(* A step that gives nobody a descriptor keeps SoleOwner.                  *)
LEMMA OwnerShrinks ==
    ASSUME SoleOwner, s' = s \/ s' \notin FD,
           \A f \in FD, h \in Handler : Holds(h, f)' => Holds(h, f)
    PROVE  SoleOwner'
  BY DEF SoleOwner

(* A descriptor that a live handler is using is in the table as a
   connection, so accept never returns it.                                 *)
LEMMA HeldIsConn ==
    ASSUME TypeOK, StopInv, HoldInv, ~Deleting, NEW h \in Handler, NEW f \in FD, Holds(h, f)
    PROVE  h \in Live /\ file[f] \in Conn
<1>1. h \in Live
  BY Distinct DEF StopInv, Holds
<1>. QED  BY <1>1 DEF HoldInv, HoldOf, Holds

LEMMA OwnerStep ==
    TypeOK /\ AcceptorInv /\ StopInv /\ SoleOwner /\ HoldInv /\ [Next]_vars => SoleOwner'
<1> SUFFICES ASSUME TypeOK, AcceptorInv, StopInv, SoleOwner, HoldInv, [Next]_vars
             PROVE  SoleOwner'
    OBVIOUS
<1>1. CASE Environment
  <2>1. UNCHANGED <<s, m_hSocket, pc>>
    BY <1>1, EnvironmentFrame DEF objVars, acceptVars
  <2>. QED  BY <2>1, OwnerShrinks DEF Holds
<1>2. ASSUME NEW h \in Handler, Routine(h) PROVE SoleOwner'
  <2>1. s' = s /\ \A g \in Handler \ {h} : pc'[g] = pc[g] /\ m_hSocket'[g] = m_hSocket[g]
    BY <1>2, HandlerFrame DEF Goto, TypeOK, Object, acceptVars
  <2>2. \/ m_hSocket'[h] = INVALID_SOCKET
        \/ m_hSocket'[h] = m_hSocket[h] /\ pc[h] /= "invalidate"
    <3>1. CASE CloseStore(h)
      BY <3>1 DEF CloseStore, TypeOK, Object
    <3>2. CASE ~CloseStore(h)
      BY <1>2, <3>2 DEF Routine, Top, Poll, IOLoop, RecvEnter, RecvReturn, Respond, CloseTest,
                CloseCall, BecomeIdle, OnlyPc, objVars
    <3>. QED  BY <3>1, <3>2
  <2>. QED  BY <2>1, <2>2, Distinct, OwnerShrinks DEF Holds
<1>3. CASE AcceptorLoop \/ Select \/ Scan \/ Reject \/ StartServlet \/ StartBusy \/ Push
  <2>1. s' = s \/ s' = INVALID_SOCKET
    BY <1>3 DEF AcceptorLoop, Select, Scan, Reject, StartServlet, StartBusy, Push, OnlyPc,
                acceptVars
  <2>2. m_hSocket' = m_hSocket
    BY <1>3 DEF AcceptorLoop, Select, Scan, Reject, StartServlet, StartBusy, Push, OnlyPc,
                objVars
  <2>3. \A h \in Handler : pc'[h] = pc[h]
    BY <1>3, Objects DEF AcceptorLoop, Select, Scan, Reject, StartServlet, StartBusy, Push,
                Goto, TypeOK, Object
  <2>. QED  BY <2>1, <2>2, <2>3, Distinct, OwnerShrinks DEF Holds
<1>4. CASE Accept
  <2>1. m_hSocket' = m_hSocket /\ \A h \in Handler : pc'[h] = pc[h]
    BY <1>4, Objects DEF Accept, Goto, TypeOK, Object, objVars
  <2>2. ~Deleting
    BY <1>4 DEF Accept, StopInv
  <2>3. s' = s \/ (s' \in FD /\ file[s'] = Free)
    BY <1>4 DEF Accept, IsLowestFree
  <2>4. CASE s' = s
    BY <2>1, <2>4, OwnerShrinks DEF Holds
  <2>5. CASE s' \in FD /\ file[s'] = Free
    <3>1. \A h \in Handler : ~Holds(h, s')
      BY <2>2, <2>5, HeldIsConn, Entries
    <3>. QED  BY <2>1, <3>1 DEF SoleOwner, Holds
  <2>. QED  BY <2>3, <2>4, <2>5
<1>5. CASE NewHandler
  <2>1. PICK h \in Handler, started \in BOOLEAN :
           /\ m_hSocket' = [m_hSocket EXCEPT ![h] = INVALID_SOCKET]
           /\ pc' = [pc EXCEPT ![Server] = "attach", ![h] = IF started THEN "top" ELSE "none"]
           /\ s' = s
    BY <1>5 DEF NewHandler
  <2>2. m_hSocket'[h] = INVALID_SOCKET
        /\ \A g \in Handler \ {h} : pc'[g] = pc[g] /\ m_hSocket'[g] = m_hSocket[g]
    BY <2>1, Objects DEF TypeOK, Object
  <2>. QED  BY <2>1, <2>2, Distinct, OwnerShrinks DEF Holds
<1>6. CASE StartAttach
  <2>1. cur \in Handler /\ s \in FD /\ s' = INVALID_SOCKET
    BY <1>6 DEF StartAttach, AcceptorInv, Starting
  <2>2. /\ m_hSocket'[cur] = s
        /\ \A h \in Handler \ {cur} : m_hSocket'[h] = m_hSocket[h]
        /\ \A h \in Handler : pc'[h] = pc[h]
    BY <1>6, <2>1, Objects DEF StartAttach, Goto, TypeOK, Object
  <2>3. ASSUME NEW f \in FD, NEW h \in Handler, NEW g \in Handler \ {h},
               Holds(h, f)', Holds(g, f)'
        PROVE  FALSE
    <3>1. CASE h /= cur /\ g /= cur
      BY <2>2, <2>3, <3>1 DEF SoleOwner, Holds
    <3>2. CASE h = cur
      BY <2>2, <2>3, <3>2 DEF SoleOwner, Holds
    <3>3. CASE g = cur
      BY <2>2, <2>3, <3>3 DEF SoleOwner, Holds
    <3>. QED  BY <3>1, <3>2, <3>3
  <2>. QED  BY <2>1, <2>3, Distinct DEF SoleOwner
<1>7. CASE Start \/ StopFlag \/ StopRest
  <2>1. s' = s
    BY <1>7 DEF Start, StopFlag, StopRest, StopJoin, DeleteTest, DeleteClose, DeleteStore,
                DeleteFlag, DeleteJoin, StopClear, acceptVars
  <2>2. \A h \in Handler : \/ pc'[h] = pc[h] /\ m_hSocket'[h] = m_hSocket[h]
                           \/ m_hSocket'[h] = INVALID_SOCKET
    <3> USE Objects DEF TypeOK, Object, Goto, objVars
    <3>1. CASE Start
      <4>1. /\ pc' = pc \/ pc' = [pc EXCEPT ![Server] = "loop"]
            /\ \/ m_hSocket' = m_hSocket
               \/ \E f \in FD : m_hSocket' = [m_hSocket EXCEPT ![Server] = f]
        BY <3>1 DEF Start
      <4>. QED  BY <4>1
    <3>2. CASE StopJoin  BY <3>2 DEF StopJoin
    <3>3. CASE DeleteJoin
      <4>1. /\ pc' = [pc EXCEPT ![m_vecHandler[d]] = "none"]
            /\ m_hSocket' = [m_hSocket EXCEPT ![m_vecHandler[d]] = INVALID_SOCKET]
        BY <3>3 DEF DeleteJoin
      <4>. QED  BY <4>1
    <3>4. CASE DeleteStore
      <4>1. pc' = pc /\ m_hSocket' = [m_hSocket EXCEPT ![m_vecHandler[d]] = INVALID_SOCKET]
        BY <3>4 DEF DeleteStore
      <4>. QED  BY <4>1
    <3>5. CASE StopFlag \/ DeleteTest \/ DeleteClose \/ DeleteFlag \/ StopClear
      BY <3>5 DEF StopFlag, DeleteTest, DeleteClose, DeleteFlag, StopClear
    <3>. QED  BY <1>7, <3>1, <3>2, <3>3, <3>4, <3>5 DEF StopRest
  <2>. QED  BY <2>1, <2>2, Distinct, OwnerShrinks DEF Holds
<1>8. CASE UNCHANGED vars
  BY <1>8, OwnerShrinks DEF vars, objVars, acceptVars, Holds
<1>. QED
  BY <1>1, <1>2, <1>3, <1>4, <1>5, <1>6, <1>7, <1>8 DEF Next, Acceptor, Environment

(* No step but accept and Start's socket() puts anything of ours in the
   table, and only the owner of a descriptor takes it out.                 *)
LEMMA FileKept ==
    ASSUME TypeOK, AcceptorInv, StopInv, SoleOwner, HoldInv, [Next]_vars,
           ~Deleting, ~Deleting', NEW f \in FD, file[f] \in Conn,
           ~Reject \/ f /= s,
           \A h \in Handler : CloseCall(h) => f /= m_hSocket[h]
    PROVE  file'[f] \in Conn
<1> USE Entries DEF CloseFd, IsLowestFree, TypeOK
<1>1. CASE Environment
  BY <1>1 DEF Environment, Connect, Transmit, HangUp, ForeignOpen, ForeignClose
<1>2. ASSUME NEW h \in Handler, Routine(h) PROVE file'[f] \in Conn
  <2>1. CASE CloseCall(h)
    BY <2>1 DEF CloseCall
  <2>2. CASE ~CloseCall(h)
    BY <1>2, <2>2 DEF Routine, Top, Poll, IOLoop, RecvEnter, RecvReturn, Respond, CloseTest,
              CloseStore, BecomeIdle, OnlyPc
  <2>. QED  BY <2>1, <2>2
<1>3. CASE Acceptor
  <2>1. CASE Accept
    BY <2>1 DEF Accept
  <2>2. CASE Reject
    BY <2>2 DEF Reject
  <2>3. CASE ~Accept /\ ~Reject
    BY <1>3, <2>3 DEF Acceptor, AcceptorLoop, Select, Scan, NewHandler, StartAttach,
              StartServlet, StartBusy, Push, OnlyPc
  <2>. QED  BY <2>1, <2>2, <2>3
<1>4. CASE Start
  BY <1>4 DEF Start
<1>5. CASE StopFlag \/ StopRest
  <2>1. CASE StopFlag  BY <2>1 DEF StopFlag
  <2>2. CASE StopRest
    BY <2>2 DEF StopRest, StopJoin, DeleteTest, DeleteClose, DeleteStore, DeleteFlag,
                DeleteJoin, StopClear, Deleting
  <2>. QED  BY <1>5, <2>1, <2>2
<1>6. CASE UNCHANGED vars
  BY <1>6 DEF vars
<1>. QED
  BY <1>1, <1>2, <1>3, <1>4, <1>5, <1>6 DEF Next, Environment

(* The acceptor's socket stays open until it is handed over or rejected.   *)
LEMMA AcceptedStep ==
    ASSUME TypeOK, AcceptorInv, StopInv, SoleOwner, HoldInv, [Next]_vars, AcceptorInv', StopInv'
    PROVE  s' \in FD => file'[s'] \in Conn
<1> SUFFICES ASSUME s' \in FD PROVE file'[s'] \in Conn
    OBVIOUS
<1>1. ~Deleting'
  BY DEF AcceptorInv, StopInv
<1>2. CASE Accept
  BY <1>2 DEF Accept, TypeOK, HoldInv
<1>3. CASE ~Accept
  <2>1. s' = s /\ ~Reject /\ ~StopClear
    BY <1>1, <1>3, Distinct DEF Next, Connect, Transmit, HangUp, ForeignOpen, ForeignClose,
       Acceptor, AcceptorLoop, Select, Scan, Reject, NewHandler, StartAttach, StartServlet,
       StartBusy, Push, Routine, Top, Poll, IOLoop, RecvEnter, RecvReturn, Respond, CloseTest,
       CloseCall, CloseStore, BecomeIdle, Start, StopFlag, StopRest, StopJoin, DeleteTest,
       DeleteClose, DeleteStore, DeleteFlag, DeleteJoin, StopClear, OnlyPc, acceptVars, vars,
       AcceptorInv, StopInv, Deleting
  <2>2. ~Deleting
    BY <2>1 DEF AcceptorInv, StopInv
  <2>3. \A h \in Handler : CloseCall(h) => s /= m_hSocket[h]
    BY <2>1 DEF CloseCall, SoleOwner, Holds
  <2>. QED  BY <1>1, <2>1, <2>2, <2>3, FileKept DEF HoldInv
<1>. QED  BY <1>2, <1>3

(* The descriptor of a handler other than the one that closes it.          *)
LEMMA HeldKept ==
    ASSUME TypeOK, AcceptorInv, StopInv, SoleOwner, HoldInv, [Next]_vars,
           ~Deleting, ~Deleting', NEW h \in Live, ~CloseCall(h),
           m_hSocket[h] \in FD, pc[h] /= "invalidate"
    PROVE  file'[m_hSocket[h]] \in Conn
<1>1. h \in Handler /\ Holds(h, m_hSocket[h])
  BY DEF Live, Holds
<1>2. file[m_hSocket[h]] \in Conn
  BY <1>1, HeldIsConn
<1>3. m_hSocket[h] /= s
  BY <1>1 DEF SoleOwner
<1>4. \A g \in Handler : CloseCall(g) => m_hSocket[h] /= m_hSocket[g]
  BY <1>1 DEF CloseCall, SoleOwner, Holds
<1>. QED  BY <1>2, <1>3, <1>4, FileKept

LEMMA HoldStep ==
    TypeOK /\ AcceptorInv /\ StopInv /\ IdleInv /\ SoleOwner /\ HoldInv /\ [Next]_vars
    /\ TypeOK' /\ AcceptorInv' /\ StopInv' => HoldInv'
<1> SUFFICES ASSUME TypeOK, AcceptorInv, StopInv, IdleInv, SoleOwner, HoldInv, [Next]_vars,
                    TypeOK', AcceptorInv', StopInv', ~Deleting', NEW h \in Live'
             PROVE  HoldOf(h)'
    BY AcceptedStep DEF HoldInv
<1>0. h \in Handler
  BY DEF Live
<1> SUFFICES ASSUME ~Deleting PROVE HoldOf(h)'
  <2>1. Deleting => StopClear
    BY DEF Deleting, Next, Connect, Transmit, HangUp, ForeignOpen, ForeignClose,
       Acceptor, AcceptorLoop, Select, Accept, Scan, Reject, NewHandler, StartAttach,
       StartServlet, StartBusy, Push, Routine, Top, Poll, IOLoop, RecvEnter, RecvReturn,
       Respond, CloseTest, CloseCall, CloseStore, BecomeIdle, Start, StopFlag, StopRest,
       StopJoin, DeleteTest, DeleteClose, DeleteStore, DeleteFlag, DeleteJoin, OnlyPc,
       ownerVars, vars
  <2>2. Deleting => h \notin Live'
    BY <2>1, Objects DEF StopClear, StopInv, AcceptorInv, Starting, Live, Pool, acceptVars
  <2>. QED  BY <2>2
(* A handler that nothing of importance happened to.                       *)
<1>1. ASSUME h \in Live, pc'[h] = pc[h], m_bIdle'[h] = m_bIdle[h],
             m_hSocket'[h] = m_hSocket[h], ~CloseCall(h),
             (cur' = h /\ pc'[Server] \in {"servlet", "busy"})
                <=> (cur = h /\ pc[Server] \in {"servlet", "busy"})
      PROVE  HoldOf(h)'
  <2>1. HoldOf(h)
    BY <1>1 DEF HoldInv
  <2>2. (m_hSocket[h] \in FD /\ pc[h] /= "invalidate") => file'[m_hSocket[h]] \in Conn
    BY <1>1, HeldKept
  <2>. QED  BY <1>1, <2>1, <2>2 DEF HoldOf
<1>2. CASE Environment
  <2>1. UNCHANGED <<pc, m_bIdle, m_hSocket, cur, m_vecHandler>> /\ ~CloseCall(h)
    BY <1>2, EnvironmentFrame, <1>0 DEF objVars, acceptVars, CloseCall, Goto, TypeOK, Object
  <2>. QED  BY <1>1, <2>1, LiveFrame
<1>3. ASSUME NEW g \in Handler, Routine(g), g /= h PROVE HoldOf(h)'
  <2>1. m_bIdle' = m_bIdle \/ m_bIdle' = [m_bIdle EXCEPT ![g] = TRUE]
    BY <1>3 DEF Routine, Top, Poll, IOLoop, RecvEnter, RecvReturn, Respond, CloseTest,
                CloseCall, CloseStore, BecomeIdle, OnlyPc, objVars
  <2>2. /\ UNCHANGED <<m_vecHandler, cur>> /\ pc'[h] = pc[h] /\ pc'[Server] = pc[Server]
        /\ m_hSocket'[h] = m_hSocket[h]
    <3>1. PICK label \in HandlerLabel : pc' = [pc EXCEPT ![g] = label]
      BY <1>3, HandlerFrame DEF Goto
    <3>2. /\ UNCHANGED <<m_vecHandler, cur>>
          /\ \/ UNCHANGED m_hSocket
             \/ m_hSocket' = [m_hSocket EXCEPT ![g] = INVALID_SOCKET]
      BY <1>3, HandlerFrame DEF acceptVars
    <3>. QED  BY <1>0, <1>3, <3>1, <3>2, Objects DEF TypeOK, Object
  <2>3. ~CloseCall(h)
    BY <1>0, <2>2 DEF CloseCall, Goto, TypeOK, Object
  <2>. QED  BY <1>0, <1>1, <1>3, <2>1, <2>2, <2>3, LiveFrame DEF TypeOK
<1>4. CASE Routine(h)
  <2>1. /\ UNCHANGED <<m_vecHandler, cur>> /\ pc'[Server] = pc[Server] /\ h \in Live
        /\ HoldOf(h) /\ IdleOf(h)
    <3>1. UNCHANGED <<m_vecHandler, cur>> /\ pc'[Server] = pc[Server]
      BY <1>0, <1>4, HandlerFrame, Objects DEF Goto, TypeOK, Object, acceptVars
    <3>. QED  BY <1>0, <3>1, LiveFrame DEF HoldInv, IdleInv
  <2>2. CASE CloseCall(h)
    <3>1. UNCHANGED <<m_bIdle, m_hSocket>> /\ pc[h] = "closesocket" /\ pc'[h] = "invalidate"
      BY <1>0, <2>2 DEF CloseCall, Goto, TypeOK, Object, objVars
    <3>. QED  BY <2>1, <3>1 DEF HoldOf, IdleOf
  <2>3. CASE CloseStore(h)
    BY <1>0, <2>1, <2>3, Distinct
       DEF CloseStore, HoldOf, IdleOf, Goto, TypeOK, Object
  <2>4. CASE BecomeIdle(h)
    BY <1>0, <2>1, <2>4, Distinct DEF BecomeIdle, HoldOf, IdleOf, Goto, TypeOK, Object
  <2>5. CASE ~CloseCall(h) /\ ~CloseStore(h) /\ ~BecomeIdle(h)
    <3>1. UNCHANGED <<m_bIdle, m_hSocket>> /\ pc[h] \notin {"invalidate", "idle"}
      BY <1>4, <2>5 DEF Routine, Top, Poll, IOLoop, RecvEnter, RecvReturn, Respond,
                CloseTest, OnlyPc, objVars
    <3>2. pc'[h] /= "invalidate" /\ (pc'[h] = "idle" => m_hSocket[h] = INVALID_SOCKET)
      BY <1>0, <1>4, <2>5, SMTT(40) DEF Routine, Top, Poll, IOLoop, RecvEnter, RecvReturn, Respond,
                CloseTest, Goto, TypeOK, Object
    <3>3. m_hSocket[h] \in FD => file'[m_hSocket[h]] \in Conn
      BY <2>1, <2>5, <3>1, HeldKept
    <3>. QED  BY <2>1, <3>1, <3>2, <3>3 DEF HoldOf
  <2>. QED  BY <2>2, <2>3, <2>4, <2>5
<1>5. CASE Acceptor
  <2>0. ~CloseCall(h)
    <3>1. pc[Server] /= pc'[Server] \/ UNCHANGED pc
      BY <1>5 DEF Acceptor, AcceptorLoop, Select, Accept, Scan, Reject, NewHandler,
         StartAttach, StartServlet, StartBusy, Push, Goto, TypeOK, Object
    <3>. QED  BY <1>0, <3>1, Objects DEF CloseCall, Goto, TypeOK, Object
  <2>1. CASE QuietAcceptor /\ ~StartServlet /\ ~StartBusy
    <3>1. UNCHANGED <<m_vecHandler, cur, m_bIdle>>
      BY <2>1 DEF QuietAcceptor, AcceptorLoop, Select, Accept, Reject, OnlyPc, objVars, acceptVars
    <3>2. pc[Server] \notin {"servlet", "busy"} /\ pc'[Server] \notin {"servlet", "busy"}
      BY <2>1 DEF QuietAcceptor, AcceptorLoop, Select, Accept, Reject, Goto, TypeOK, Object
    <3>. QED  BY <1>0, <1>1, <2>0, <2>1, <3>1, <3>2, QuietFrame, LiveFrame
  <2>2. CASE StartServlet
    <3>1. UNCHANGED <<m_vecHandler, cur, m_bIdle>>
      BY <2>2 DEF StartServlet, acceptVars
    <3>2. pc[Server] = "servlet" /\ pc'[Server] = "busy"
      BY <2>2 DEF StartServlet, Goto, TypeOK, Object
    <3>. QED  BY <1>0, <1>1, <2>0, <2>2, <3>1, <3>2, QuietFrame, LiveFrame DEF QuietAcceptor
  <2>3. CASE StartBusy
    <3>1. /\ UNCHANGED <<m_vecHandler, cur, m_hSocket>> /\ h \in Live /\ pc'[h] = pc[h]
          /\ m_bIdle' = [m_bIdle EXCEPT ![cur] = FALSE]
          /\ pc[Server] = "busy" /\ pc'[Server] = "push"
      BY <1>0, <2>3, QuietFrame, LiveFrame
         DEF QuietAcceptor, StartBusy, Goto, TypeOK, Object, acceptVars
    <3>2. HoldOf(h) /\ IdleOf(h)
      BY <1>0, <3>1 DEF HoldInv, IdleInv
    <3>3. (m_hSocket[h] \in FD /\ pc[h] /= "invalidate") => file'[m_hSocket[h]] \in Conn
      BY <2>0, <3>1, HeldKept
    <3>. QED  BY <1>0, <3>1, <3>2, <3>3 DEF HoldOf, IdleOf, TypeOK
  <2>4. CASE Scan
    <3>1. /\ UNCHANGED <<m_vecHandler, m_bIdle, m_hSocket>> /\ pc'[h] = pc[h]
          /\ pc[Server] = "scan" /\ pc'[Server] \notin {"servlet", "busy"}
      BY <1>0, <2>4, Objects DEF Scan, Goto, TypeOK, Object, objVars
    <3>2. h \in Live
      <4>1. cur' = cur \/ cur' \in Pool
        BY <2>4 DEF Scan, Pool, TypeOK
      <4>. QED  BY <3>1, <4>1 DEF Live, Pool
    <3>. QED  BY <1>1, <2>0, <3>1, <3>2
  <2>5. CASE NewHandler
    <3>1. PICK g \in Handler, started \in BOOLEAN :
             /\ cur' = g
             /\ m_bIdle' = [m_bIdle EXCEPT ![g] = TRUE]
             /\ m_hSocket' = [m_hSocket EXCEPT ![g] = INVALID_SOCKET]
             /\ pc' = [pc EXCEPT ![Server] = "attach", ![g] = IF started THEN "top" ELSE "none"]
             /\ UNCHANGED m_vecHandler
      BY <2>5 DEF NewHandler
    <3>2. CASE h = g
      <4>1. m_hSocket'[h] = INVALID_SOCKET /\ m_bIdle'[h] /\ pc'[Server] = "attach"
            /\ pc'[h] \in {"top", "none"}
        BY <3>1, <3>2, Objects DEF TypeOK, Object
      <4>. QED  BY <4>1, Distinct DEF HoldOf
    <3>3. CASE h /= g
      <4>1. /\ pc'[h] = pc[h] /\ m_bIdle'[h] = m_bIdle[h] /\ m_hSocket'[h] = m_hSocket[h]
            /\ pc[Server] = "new" /\ pc'[Server] = "attach"
        BY <1>0, <2>5, <3>1, <3>3, Objects DEF NewHandler, TypeOK, Object
      <4>2. h \in Live
        BY <3>1, <3>3 DEF Live, Pool
      <4>. QED  BY <1>1, <2>0, <4>1, <4>2
    <3>. QED  BY <3>2, <3>3
  <2>6. CASE StartAttach
    <3>1. /\ UNCHANGED <<m_vecHandler, cur, m_bIdle>> /\ pc'[h] = pc[h] /\ h \in Live
          /\ m_hSocket' = [m_hSocket EXCEPT ![cur] = s]
          /\ pc[Server] = "attach" /\ pc'[Server] = "servlet"
          /\ file' = file
      BY <1>0, <2>6, LiveFrame, Objects DEF StartAttach, Goto, TypeOK, Object
    <3>2. CASE h /= cur
      BY <1>0, <1>1, <2>0, <3>1, <3>2 DEF TypeOK, Object
    <3>3. CASE h = cur
      <4>1. m_hSocket'[h] = s /\ s \in FD /\ file[s] \in Conn
        BY <1>0, <3>1, <3>3 DEF AcceptorInv, HoldInv, TypeOK, Object
      <4>2. m_bIdle[h] /\ pc[h] \in {"none", "exit", "top", "poll"}
        BY <1>0, <3>1, <3>3 DEF IdleInv, IdleOf
      <4>. QED  BY <3>1, <3>3, <4>1, <4>2 DEF HoldOf
    <3>. QED  BY <3>2, <3>3
  <2>7. CASE Push
    <3>1. /\ UNCHANGED <<m_bIdle, m_hSocket>> /\ pc'[h] = pc[h]
          /\ pc[Server] = "push" /\ pc'[Server] = "loop"
      BY <1>0, <2>7, Objects DEF Push, Goto, TypeOK, Object
    <3>2. h \in Live
      <4>1. cur \in Handler /\ cur' \notin Handler
        BY <2>7, Objects DEF Push, AcceptorInv, Starting
      <4>2. Pool' = Pool \cup {cur}
        BY <2>7, <4>1, PushPool DEF Push, TypeOK
      <4>. QED  BY <1>0, <4>1, <4>2 DEF Live
    <3>. QED  BY <1>1, <2>0, <3>1, <3>2
  <2>. QED
    BY <1>5, <2>1, <2>2, <2>3, <2>4, <2>5, <2>6, <2>7 DEF Acceptor, QuietAcceptor
<1>6. CASE Start
  <2>1. m_vecHandler' = <<>> /\ cur' = cur /\ pc[Server] = "none"
    BY <1>6 DEF Start, StopInv, acceptVars
  <2>2. cur \notin Handler
    BY <2>1 DEF AcceptorInv, Starting
  <2>. QED  BY <2>1, <2>2 DEF Live, Pool
<1>7. CASE StopFlag
  <2>1. /\ UNCHANGED <<m_vecHandler, cur, m_bIdle, m_hSocket, pc>>
    BY <1>7 DEF StopFlag, acceptVars
  <2>2. ~CloseCall(h)
    BY <1>0, <2>1 DEF CloseCall, Goto, TypeOK, Object
  <2>. QED  BY <1>1, <2>1, <2>2, LiveFrame
<1>8. CASE StopRest
  BY <1>8 DEF StopRest, StopJoin, DeleteTest, DeleteClose, DeleteStore, DeleteFlag,
              DeleteJoin, StopClear, Deleting
<1>9. CASE UNCHANGED vars
  <2>1. UNCHANGED <<m_vecHandler, cur, m_bIdle, m_hSocket, pc>>
    BY <1>9 DEF vars, objVars, acceptVars
  <2>2. ~CloseCall(h)
    BY <1>0, <2>1 DEF CloseCall, Goto, TypeOK, Object
  <2>. QED  BY <1>1, <2>1, <2>2, LiveFrame
<1>. QED
  BY <1>2, <1>3, <1>4, <1>5, <1>6, <1>7, <1>8, <1>9 DEF Next, Environment

-----------------------------------------------------------------------------
(* Data: RxInv and AnswerGoesHome.                                         *)

(* Only accept adds a connection to the table.                             *)
LEMMA NoNewConn ==
    ASSUME TypeOK, [Next]_vars, ~Accept, NEW f \in FD, file'[f] \in Conn
    PROVE  file'[f] = file[f]
<1> USE Entries DEF CloseFd, IsLowestFree, TypeOK
<1>1. CASE Environment
  BY <1>1 DEF Environment, Connect, Transmit, HangUp, ForeignOpen, ForeignClose
<1>2. ASSUME NEW h \in Handler, Routine(h) PROVE file'[f] = file[f]
  <2>1. CASE CloseCall(h)
    BY <2>1 DEF CloseCall
  <2>2. CASE ~CloseCall(h)
    BY <1>2, <2>2 DEF Routine, Top, Poll, IOLoop, RecvEnter, RecvReturn, Respond, CloseTest,
              CloseStore, BecomeIdle, OnlyPc
  <2>. QED  BY <2>1, <2>2
<1>3. CASE Acceptor
  <2>1. CASE Reject
    BY <2>1 DEF Reject
  <2>2. CASE ~Reject
    BY <1>3, <2>2 DEF Acceptor, AcceptorLoop, Select, Scan, NewHandler, StartAttach,
              StartServlet, StartBusy, Push, OnlyPc
  <2>. QED  BY <2>1, <2>2
<1>4. CASE Start
  BY <1>4 DEF Start
<1>5. CASE StopFlag \/ StopRest
  BY <1>5 DEF StopFlag, StopRest, StopJoin, DeleteTest, DeleteClose, DeleteStore, DeleteFlag,
              DeleteJoin, StopClear
<1>6. CASE UNCHANGED vars
  BY <1>6 DEF vars
<1>. QED
  BY <1>1, <1>2, <1>3, <1>4, <1>5, <1>6 DEF Next, Environment

LEMMA RxStep ==
    TypeOK /\ AcceptorInv /\ StopInv /\ IdleInv /\ HoldInv /\ RxInv /\ [Next]_vars /\ TypeOK'
    => RxInv'
<1> SUFFICES ASSUME TypeOK, AcceptorInv, StopInv, IdleInv, HoldInv, RxInv, [Next]_vars, TypeOK',
                    NEW h \in Handler
             PROVE  RxOf(h)'
    BY DEF RxInv
<1>0. RxOf(h) /\ IdleOf(h) /\ Object = Handler \cup {Server} /\ h /= Server
  BY Objects DEF RxInv, IdleInv, Object
<1> DEFINE Talking == pc[h] \in IOLabel \ {"invalidate", "idle"}
(* A step that leaves the handler's thread and data alone, and its socket
   too or gives it up.                                                     *)
<1>1. ASSUME rx'[h] = rx[h], pc'[h] = pc[h] \/ ~Talking',
             m_hSocket'[h] = m_hSocket[h] \/ m_hSocket'[h] = INVALID_SOCKET
      PROVE  RxOf(h)'
  <2>1. CASE ~Talking'
    BY <2>1 DEF RxOf, IOLabel
  <2>2. CASE Talking' /\ ~Accept
    <3>1. ASSUME Peer(h)' \in Conn PROVE Peer(h)' = Peer(h)
      <4>1. m_hSocket'[h] = m_hSocket[h] /\ m_hSocket[h] \in FD
            /\ file'[m_hSocket[h]] \in Conn /\ Peer(h)' = file'[m_hSocket[h]]
        BY <1>1, <3>1, Objects, Distinct DEF Peer
      <4>2. file'[m_hSocket[h]] = file[m_hSocket[h]]
        BY <2>2, <4>1, NoNewConn
      <4>. QED  BY <4>1, <4>2 DEF Peer
    <3>. QED  BY <1>0, <1>1, <2>2, <3>1 DEF RxOf
  <2>3. CASE Talking' /\ Accept
    <3>1. ~Deleting /\ m_hSocket' = m_hSocket /\ Talking /\ pc'[h] = pc[h] /\ h \in Live
      BY <1>1, <2>3 DEF Accept, StopInv, objVars, IOLabel
    <3>2. HoldOf(h) /\ ~m_bIdle[h]
      BY <1>0, <3>1 DEF HoldInv, IdleOf, IOLabel
    <3>3. m_hSocket[h] \in FD /\ file[m_hSocket[h]] \in Conn
      BY <3>1, <3>2 DEF HoldOf
    <3>4. \A f \in FD : file[f] /= Free => file'[f] = file[f]
      BY <2>3 DEF Accept, IsLowestFree, TypeOK
    <3>5. Peer(h)' = Peer(h)
      BY <3>1, <3>3, <3>4, Entries DEF Peer
    <3>. QED  BY <1>0, <1>1, <3>1, <3>5 DEF RxOf
  <2>. QED  BY <2>1, <2>2, <2>3
<1>2. CASE Environment
  BY <1>1, <1>2, EnvironmentFrame DEF objVars, cacheVars
<1>3. ASSUME NEW g \in Handler, Routine(g), g /= h PROVE RxOf(h)'
  <2>1. rx'[h] = rx[h]
    <3>1. rx' = rx \/ \E x : rx' = [rx EXCEPT ![g] = x]
      BY <1>3 DEF Routine, Top, Poll, IOLoop, RecvEnter, RecvReturn, Respond, CloseTest,
                CloseCall, CloseStore, BecomeIdle, OnlyPc, cacheVars
    <3>. QED  BY <1>3, <3>1 DEF TypeOK
  <2>2. pc'[h] = pc[h]
    BY <1>3, HandlerFrame DEF Goto, TypeOK, Object
  <2>3. m_hSocket'[h] = m_hSocket[h]
    BY <1>3, HandlerFrame DEF TypeOK, Object
  <2>. QED  BY <1>1, <2>1, <2>2, <2>3
<1>4. CASE Routine(h)
  <2>0. m_hSocket'[h] = m_hSocket[h] \/ m_hSocket'[h] = INVALID_SOCKET
    BY <1>4, HandlerFrame DEF TypeOK, Object
  <2>1. CASE Poll(h)
    <3>1. CASE m_bIdle[h]
      BY <1>1, <2>0, <2>1, <3>1 DEF Poll, Goto, cacheVars, TypeOK, Object, IOLabel
    <3>2. CASE ~m_bIdle[h]
      BY <2>1, <3>2, Objects DEF Poll, Goto, TypeOK, Object, RxOf
    <3>. QED  BY <3>1, <3>2
  <2>2. CASE RecvEnter(h)
    <3>1. m_hSocket' = m_hSocket /\ file' = file /\ Peer(h)' = Peer(h)
      BY <2>2 DEF RecvEnter, Peer, objVars
    <3>2. CASE Peer(h) /= NONE
      BY <2>2, <3>1, <3>2 DEF RecvEnter, RxOf, Peer, TypeOK
    <3>3. CASE Peer(h) = NONE
      BY <2>2, <3>1, <3>3, Objects DEF RecvEnter, RxOf, Goto, TypeOK, Object
    <3>. QED  BY <3>2, <3>3
  <2>3. CASE RecvReturn(h) \/ IOLoop(h) \/ Respond(h) \/ CloseTest(h)
    <3>1. UNCHANGED <<rx, m_hSocket, file>> /\ pc[h] \in IOLabel \ {"invalidate", "idle"}
      BY <2>3 DEF RecvReturn, IOLoop, Respond, CloseTest, OnlyPc, objVars, cacheVars, IOLabel
    <3>2. pc'[h] \in {"blocked", "service"} => rx[h] \in Conn
      BY <1>0, <2>3 DEF RecvReturn, IOLoop, Respond, CloseTest, Goto, TypeOK, Object, RxOf
    <3>3. Peer(h)' = Peer(h)
      BY <3>1 DEF Peer
    <3>. QED  BY <1>0, <3>1, <3>2, <3>3 DEF RxOf
  <2>4. CASE Top(h) \/ CloseCall(h) \/ CloseStore(h) \/ BecomeIdle(h)
    <3>1. rx' = rx /\ ~Talking'
      BY <2>4 DEF Top, CloseCall, CloseStore, BecomeIdle, Goto, TypeOK, Object, IOLabel,
                OnlyPc, cacheVars
    <3>. QED  BY <1>1, <2>0, <3>1
  <2>. QED  BY <1>4, <2>1, <2>2, <2>3, <2>4 DEF Routine
<1>5. CASE Acceptor
  <2>1. rx' = rx
    BY <1>5, AcceptorFrame DEF cacheVars
  <2>2. CASE StartAttach
    <3>1. pc'[h] = pc[h]
      BY <1>0, <2>2 DEF StartAttach, Goto, TypeOK
    <3>2. CASE h = cur
      <4>1. ~Talking'
        BY <1>0, <2>2, <3>1, <3>2 DEF StartAttach, IdleOf, IOLabel
      <4>. QED  BY <4>1 DEF RxOf, IOLabel
    <3>3. CASE h /= cur
      <4>1. m_hSocket'[h] = m_hSocket[h]
        BY <1>0, <2>2, <3>3 DEF StartAttach, TypeOK
      <4>. QED  BY <1>1, <2>1, <3>1, <4>1
    <3>. QED  BY <3>2, <3>3
  <2>3. CASE NewHandler
    <3>1. PICK g \in Handler, started \in BOOLEAN :
             /\ m_hSocket' = [m_hSocket EXCEPT ![g] = INVALID_SOCKET]
             /\ pc' = [pc EXCEPT ![Server] = "attach", ![g] = IF started THEN "top" ELSE "none"]
      BY <2>3 DEF NewHandler
    <3>2. /\ m_hSocket'[h] = m_hSocket[h] \/ m_hSocket'[h] = INVALID_SOCKET
          /\ pc'[h] = pc[h] \/ pc'[h] \in {"top", "none"}
      BY <1>0, <3>1 DEF TypeOK
    <3>. QED  BY <1>1, <2>1, <3>2 DEF IOLabel
  <2>4. CASE QuietAcceptor \/ Scan \/ Push
    <3>1. m_hSocket' = m_hSocket /\ pc'[h] = pc[h]
      <4>1. CASE QuietAcceptor  BY <4>1, QuietFrame
      <4>2. CASE Scan  BY <1>0, <4>2 DEF Scan, Goto, TypeOK, objVars
      <4>3. CASE Push  BY <1>0, <4>3 DEF Push, Goto, TypeOK
      <4>. QED  BY <2>4, <4>1, <4>2, <4>3
    <3>. QED  BY <1>1, <2>1, <3>1
  <2>. QED  BY <1>5, <2>2, <2>3, <2>4 DEF Acceptor, QuietAcceptor
<1>6. CASE Start \/ StopFlag \/ StopRest
  <2>1. rx' = rx
    BY <1>6 DEF Start, StopFlag, StopRest, StopJoin, DeleteTest, DeleteClose, DeleteStore,
                DeleteFlag, DeleteJoin, StopClear, cacheVars
  <2>2. /\ pc'[h] = pc[h] \/ pc'[h] = "none"
        /\ m_hSocket'[h] = m_hSocket[h] \/ m_hSocket'[h] = INVALID_SOCKET
    <3> USE <1>0 DEF TypeOK, Goto, objVars
    <3>1. CASE Start
      <4>1. /\ pc' = pc \/ pc' = [pc EXCEPT ![Server] = "loop"]
            /\ \/ m_hSocket' = m_hSocket
               \/ \E f \in FD : m_hSocket' = [m_hSocket EXCEPT ![Server] = f]
        BY <3>1 DEF Start
      <4>. QED  BY <4>1
    <3>2. CASE StopJoin  BY <3>2 DEF StopJoin
    <3>3. CASE DeleteJoin
      <4>1. /\ pc' = [pc EXCEPT ![m_vecHandler[d]] = "none"]
            /\ m_hSocket' = [m_hSocket EXCEPT ![m_vecHandler[d]] = INVALID_SOCKET]
        BY <3>3 DEF DeleteJoin
      <4>. QED  BY <4>1
    <3>4. CASE DeleteStore
      <4>1. pc' = pc /\ m_hSocket' = [m_hSocket EXCEPT ![m_vecHandler[d]] = INVALID_SOCKET]
        BY <3>4 DEF DeleteStore
      <4>. QED  BY <4>1
    <3>5. CASE StopFlag \/ DeleteTest \/ DeleteClose \/ DeleteFlag \/ StopClear
      BY <3>5 DEF StopFlag, DeleteTest, DeleteClose, DeleteFlag, StopClear
    <3>. QED  BY <1>6, <3>1, <3>2, <3>3, <3>4, <3>5 DEF StopRest
  <2>. QED  BY <1>1, <2>1, <2>2 DEF IOLabel
<1>7. CASE UNCHANGED vars
  BY <1>1, <1>7 DEF vars, objVars, cacheVars
<1>. QED
  BY <1>2, <1>3, <1>4, <1>5, <1>6, <1>7 DEF Next, Environment

LEMMA AnswerStep ==
    TypeOK /\ AcceptorInv /\ RxInv /\ AnswerGoesHome /\ [Next]_vars => AnswerGoesHome'
<1> SUFFICES ASSUME TypeOK, AcceptorInv, RxInv, AnswerGoesHome, [Next]_vars,
                    NEW c \in Conn
             PROVE  answers'[c] \subseteq {c}
    BY DEF AnswerGoesHome
<1>1. ASSUME NEW h \in Handler, Respond(h), answers' /= answers
      PROVE  answers'[c] \subseteq {c}
  <2>1. Peer(h) \in Conn /\ answers' = [answers EXCEPT ![Peer(h)] = @ \cup {rx[h]}]
    BY <1>1 DEF Respond, Peer
  <2>2. rx[h] = Peer(h)
    BY <1>1, <2>1 DEF Respond, RxInv, RxOf, IOLabel
  <2>. QED  BY <2>1, <2>2 DEF AnswerGoesHome, TypeOK
<1>2. (\A h \in Handler : ~Respond(h)) => answers' = answers
  BY AcceptorFrame, EnvironmentFrame
     DEF Next, Environment, Routine, Top, Poll, IOLoop, RecvEnter, RecvReturn, CloseTest,
         CloseCall, CloseStore, BecomeIdle, Start, StopFlag, StopRest, StopJoin, DeleteTest,
         DeleteClose, DeleteStore, DeleteFlag, DeleteJoin, StopClear, OnlyPc, netVars, vars
<1>. QED  BY <1>1, <1>2 DEF AnswerGoesHome

-----------------------------------------------------------------------------
(* The theorems.                                                           *)

LEMMA InitInv == Init => IInv
<1> SUFFICES ASSUME Init PROVE IInv
    OBVIOUS
<1>1. TypeOK  BY InitType
<1>2. Pool = {} /\ Live = {}
  BY Objects DEF Init, Pool, Live
<1>3. AcceptorInv /\ StopInv /\ PoolBounded
  BY <1>2, Objects, PoolSize, Distinct
     DEF Init, AcceptorInv, Starting, StopInv, PoolBounded, Deleting, Object
<1>4. IdleInv /\ SoleOwner /\ HoldInv /\ RxInv /\ AnswerGoesHome
  BY <1>2, Objects, Distinct
     DEF Init, IdleInv, IdleOf, SoleOwner, Holds, HoldInv, HoldOf, RxInv, RxOf,
         AnswerGoesHome, Deleting, Object, IOLabel
<1>. QED  BY <1>1, <1>3, <1>4 DEF IInv

LEMMA NextInv == IInv /\ [Next]_vars => IInv'
  BY TypeStep, AcceptorStep, StopStep, PoolStep, IdleStep, OwnerStep, HoldStep, RxStep,
     AnswerStep DEF IInv

THEOREM Invariance == Spec => []IInv
  BY InitInv, NextInv, PTL DEF Spec

(* The variables keep their types.                                         *)
THEOREM TypeCorrect == Spec => []TypeOK
  BY Invariance, PTL DEF IInv

(* JoinThread never makes the pool larger than m_nMaxThread, whatever the
   number of connections and however often the server is restarted.        *)
THEOREM PoolIsBounded == Spec => []PoolBounded
  BY Invariance, PTL DEF IInv

(* No descriptor is ever worked on by two threads of the pool.             *)
THEOREM OneOwner == Spec => []SoleOwner
  BY Invariance, PTL DEF IInv

(* An answer reaches the client that asked, also while Stop is racing with
   the handlers.                                                           *)
THEOREM AnswersGoHome == Spec => []AnswerGoesHome
  BY Invariance, PTL DEF IInv

(* What Start() stores is complete before the handler's thread uses it.    *)
THEOREM HandoffIsReady == Spec => []HandoffReady
<1>1. IInv => HandoffReady
  <2> SUFFICES ASSUME IInv, NEW h \in Handler, pc[h] \in IOLabel
               PROVE  /\ m_pServlet[h]
                      /\ (pc[h] \notin {"invalidate", "idle"} /\ ~Deleting) =>
                            /\ m_hSocket[h] \in FD
                            /\ file[m_hSocket[h]] \in Conn
                            /\ rx[h] /= NONE => file[m_hSocket[h]] = rx[h]
      BY DEF HandoffReady
  <2>1. ~m_bIdle[h] /\ m_pServlet[h]
    BY DEF IInv, IdleInv, IdleOf, IOLabel
  <2>2. h \in Live
    BY DEF IInv, StopInv, IOLabel
  <2>3. ASSUME ~Deleting, pc[h] \notin {"invalidate", "idle"}
        PROVE  /\ m_hSocket[h] \in FD /\ file[m_hSocket[h]] \in Conn
               /\ rx[h] /= NONE => file[m_hSocket[h]] = rx[h]
    <3>1. m_hSocket[h] \in FD /\ file[m_hSocket[h]] \in Conn
      BY <2>1, <2>2, <2>3 DEF IInv, HoldInv, HoldOf
    <3>2. rx[h] /= NONE => rx[h] \in Conn
      BY DEF IInv, TypeOK
    <3>. QED  BY <2>3, <3>1, <3>2 DEF IInv, RxInv, RxOf, Peer
  <2>. QED  BY <2>1, <2>3
<1>. QED  BY <1>1, Invariance, PTL

(* The acceptor is joined before the first handler is deleted.             *)
THEOREM AcceptorIsGone == Spec => []AcceptorGoneBeforeDelete
<1>1. IInv => AcceptorGoneBeforeDelete
  BY DEF IInv, StopInv, AcceptorInv, Starting, AcceptorGoneBeforeDelete, TypeOK
<1>. QED  BY <1>1, Invariance, PTL

-----------------------------------------------------------------------------
(* What is open is known: on top of IInv, the descriptors of connections,
   of the listener, and of the handler being deleted.                      *)

(* Somebody will close it; a handler between close and the store of
   INVALID_SOCKET has only the number, which may be another's by now.      *)
Reachable(f) == s = f \/ \E h \in Live : Holds(h, f)

LeakInv ==
    /\ \A f \in FD : file[f] \in Conn => Reachable(f)
    /\ owner = "invalidate" /\ m_hSocket[m_vecHandler[d]] \in FD
          => file[m_hSocket[m_vecHandler[d]]] \notin Conn

ListenInv ==
    /\ owner \in {"up", "join"} \/ m_hSocket[Server] = INVALID_SOCKET
    /\ \A f \in FD : file[f] = Listening => m_hSocket[Server] = f
    /\ owner \in {"up", "join"} \/ \A c \in Conn : phase[c] /= "queued"

(* Only the owner moves the owner, and nobody opens a socket while it
   deletes the handlers.                                                   *)
LEMMA ClosedStep ==
    ASSUME IInv, LeakInv, [Next]_vars, owner' = "invalidate", (m_hSocket[m_vecHandler[d]])' \in FD
    PROVE  (file[m_hSocket[m_vecHandler[d]]])' \notin Conn
<1> DEFINE x == m_vecHandler[d]
<1> USE DEF IInv
<1>1. CASE owner /= "invalidate"
  <2>1. DeleteClose
    <3>1. ~Environment /\ ~Acceptor /\ \A h \in Handler : ~Routine(h)
      BY <1>1, EnvironmentFrame, AcceptorFrame, HandlerFrame DEF ownerVars
    <3>. QED
      BY <1>1, <3>1 DEF Next, Environment, Start, StopFlag, StopRest, StopJoin, DeleteTest,
                        DeleteStore, DeleteFlag, DeleteJoin, StopClear, vars, ownerVars
  <2>2. UNCHANGED <<m_hSocket, m_vecHandler, d>> /\ file'[m_hSocket[x]] = Free
    BY <2>1 DEF DeleteClose, CloseFd, objVars
  <2>. QED  BY <2>2, Entries
<1>2. CASE owner = "invalidate"
  <2>1. x \in Handler /\ x /= Server /\ pc[Server] = "none" /\ ~Accept /\ ~Acceptor
    BY <1>2, Objects, AcceptorFrame DEF StopInv, Deleting, TypeOK, Accept
  <2>2. UNCHANGED <<m_vecHandler, d>> /\ m_hSocket'[x] \in {m_hSocket[x], INVALID_SOCKET}
    <3>1. CASE Environment \/ UNCHANGED vars
      BY <3>1, EnvironmentFrame DEF objVars, ownerVars, vars
    <3>2. ASSUME NEW h \in Handler, Routine(h)
          PROVE  UNCHANGED <<m_vecHandler, d>> /\ m_hSocket'[x] \in {m_hSocket[x], INVALID_SOCKET}
      BY <2>1, <3>2, HandlerFrame DEF ownerVars, TypeOK, Object
    <3>3. ~Start /\ ~StopFlag /\ ~StopRest
      BY <1>2 DEF Start, StopFlag, StopRest, StopJoin, DeleteTest, DeleteClose, DeleteStore,
                  DeleteFlag, DeleteJoin, StopClear
    <3>. QED  BY <2>1, <3>1, <3>2, <3>3 DEF Next, Environment
  <2>3. m_hSocket'[x] = m_hSocket[x] /\ m_hSocket[x] \in FD
    BY <2>2, Distinct
  <2>4. file'[m_hSocket[x]] \in Conn => file'[m_hSocket[x]] = file[m_hSocket[x]]
    BY <2>1, <2>3, NoNewConn
  <2>. QED  BY <1>2, <2>2, <2>3, <2>4 DEF LeakInv
<1>. QED  BY <1>1, <1>2

LEMMA LeakStep ==
    ASSUME IInv, LeakInv, [Next]_vars, NEW f \in FD, file'[f] \in Conn
    PROVE  Reachable(f)'
<1> USE DEF IInv
<1>0. Objects /\ f /= INVALID_SOCKET /\ Object = Handler \cup {Server} /\ Server \notin Handler
  BY Objects, Distinct DEF Object
(* A step that lets every holder of f be.                                  *)
<1>1. ASSUME file[f] \in Conn, s' = s,
             \A h \in Live : Holds(h, f) => h \in Live' /\ Holds(h, f)'
      PROVE  Reachable(f)'
  BY <1>1 DEF LeakInv, Reachable
<1>2. CASE Accept
  <2>1. UNCHANGED <<m_hSocket, Live>> /\ \A h \in Handler : pc'[h] = pc[h]
    BY <1>2, QuietFrame, LiveFrame DEF QuietAcceptor
  <2>2. s' = f \/ (file'[f] = file[f] /\ s' = s) \/ (file'[f] = file[f] /\ s \notin FD)
    BY <1>2 DEF Accept, AcceptorInv, TypeOK
  <2>3. \A h \in Live : Holds(h, f) => h \in Live' /\ Holds(h, f)'
    BY <2>1 DEF Holds, Live
  <2>. QED  BY <2>2, <2>3 DEF LeakInv, Reachable
<1>3. ASSUME ~Accept PROVE file'[f] = file[f]
  BY <1>3, NoNewConn
<1>4. CASE ~Accept /\ (Environment \/ UNCHANGED vars)
  <2>1. UNCHANGED <<pc, m_hSocket, m_vecHandler, cur, s>>
    BY <1>4, EnvironmentFrame DEF objVars, acceptVars, vars
  <2>. QED  BY <1>1, <1>3, <1>4, <2>1, LiveFrame DEF Holds
<1>5. ASSUME NEW g \in Handler, Routine(g) PROVE Reachable(f)'
  <2>1. UNCHANGED <<m_vecHandler, cur, s, Live>>
    BY <1>5, HandlerFrame, LiveFrame DEF acceptVars
  <2>2. file'[f] = file[f]
    <3>1. CASE CloseCall(g)
      BY <3>1, Entries DEF CloseCall, CloseFd
    <3>2. CASE ~CloseCall(g)
      BY <1>5, <3>2 DEF Routine, Top, Poll, IOLoop, RecvEnter, RecvReturn, Respond, CloseTest,
                CloseStore, BecomeIdle, OnlyPc
    <3>. QED  BY <3>1, <3>2
  <2>3. ASSUME NEW h \in Live, Holds(h, f), h /= g PROVE Holds(h, f)'
    <3>1. h \in Handler /\ pc'[h] = pc[h]
      BY <1>0, <1>5, <2>3, HandlerFrame DEF Goto, TypeOK, Live
    <3>2. m_hSocket'[h] = m_hSocket[h]
      <4>1. m_hSocket' = m_hSocket \/ m_hSocket' = [m_hSocket EXCEPT ![g] = INVALID_SOCKET]
        BY <1>5, HandlerFrame
      <4>2. DOMAIN m_hSocket = Object
        BY DEF TypeOK
      <4>3. \A x \in Handler \ {g} : m_hSocket'[x] = m_hSocket[x]
        BY <1>0, <4>1, <4>2
      <4>. QED  BY <2>3, <3>1, <4>3
    <3>. QED  BY <2>3, <3>1, <3>2 DEF Holds
  <2>4. ASSUME Holds(g, f) PROVE Holds(g, f)'
    <3>1. CASE CloseCall(g)
      BY <2>4, <3>1, Entries DEF CloseCall, CloseFd, Holds
    <3>2. CASE CloseStore(g)
      BY <2>4, <3>2 DEF CloseStore, Holds
    <3>3. CASE Top(g) \/ Poll(g) \/ IOLoop(g) \/ RecvEnter(g) \/ RecvReturn(g) \/ Respond(g)
               \/ CloseTest(g) \/ BecomeIdle(g)
      BY <1>0, <2>4, <3>3 DEF Top, Poll, IOLoop, RecvEnter, RecvReturn, Respond, CloseTest,
                BecomeIdle, OnlyPc, objVars, Goto, TypeOK, Holds
    <3>. QED  BY <1>5, <3>1, <3>2, <3>3 DEF Routine
  <2>. QED  BY <1>1, <2>1, <2>2, <2>3, <2>4
<1>6. CASE Acceptor /\ ~Accept
  <2>1. CASE QuietAcceptor /\ ~Reject
    <3>1. s' = s
      BY <1>6, <2>1 DEF QuietAcceptor, AcceptorLoop, Select, StartServlet, StartBusy, OnlyPc,
                acceptVars
    <3>. QED  BY <1>1, <1>3, <1>6, <2>1, <3>1, QuietFrame, LiveFrame DEF Holds, Live
  <2>2. CASE Reject
    <3>1. s /= f /\ file'[f] = file[f]
      BY <1>3, <1>6, <2>2, Entries DEF Reject, CloseFd
    <3>. QED
      BY <2>2, <3>1, QuietFrame, LiveFrame DEF QuietAcceptor, LeakInv, Reachable, Holds, Live
  <2>3. CASE Scan
    <3>1. cur \notin Handler /\ UNCHANGED <<s, m_vecHandler, m_hSocket>>
          /\ \A h \in Handler : pc'[h] = pc[h]
      BY <1>0, <2>3 DEF Scan, AcceptorInv, Starting, objVars, Goto, TypeOK
    <3>. QED  BY <1>1, <1>3, <1>6, <3>1 DEF Holds, Live, Pool
  <2>4. CASE NewHandler
    <3>1. PICK g \in Handler \ Pool, started \in BOOLEAN :
             /\ m_hSocket' = [m_hSocket EXCEPT ![g] = INVALID_SOCKET]
             /\ pc' = [pc EXCEPT ![Server] = "attach", ![g] = IF started THEN "top" ELSE "none"]
      BY <2>4 DEF NewHandler
    <3>2. cur \notin Handler /\ UNCHANGED <<s, m_vecHandler>>
      BY <2>4 DEF NewHandler, AcceptorInv, Starting
    <3>3. \A h \in Live : h \in Pool /\ h \in Handler /\ h /= g
      BY <3>1, <3>2 DEF Live
    <3>. QED  BY <1>0, <1>1, <1>3, <1>6, <3>1, <3>2, <3>3 DEF Holds, Live, Pool, TypeOK
  <2>5. CASE StartAttach
    <3>1. /\ cur \in Live /\ m_bIdle[cur] /\ m_hSocket[cur] = INVALID_SOCKET
          /\ pc[cur] /= "invalidate" /\ cur /= Server
      <4>1. cur \in Live /\ ~Deleting
        BY <1>6, <2>5, AcceptorFrame DEF StartAttach, AcceptorInv, Starting, Live, Deleting
      <4>2. IdleOf(cur) /\ HoldOf(cur)
        BY <4>1 DEF IdleInv, HoldInv, Live
      <4>. QED  BY <1>0, <2>5, <4>1, <4>2 DEF StartAttach, IdleOf, HoldOf, Live
    <3>2. /\ m_hSocket' = [m_hSocket EXCEPT ![cur] = s] /\ UNCHANGED <<cur, m_vecHandler, Live>>
          /\ \A h \in Handler : pc'[h] = pc[h]
      BY <1>0, <2>5, LiveFrame DEF StartAttach, Goto, TypeOK
    <3>3. CASE s = f
      BY <1>0, <3>1, <3>2, <3>3 DEF Reachable, Holds, Live, TypeOK
    <3>4. CASE s /= f
      <4>1. PICK h \in Live : Holds(h, f)
        BY <1>3, <1>6, <3>4 DEF LeakInv, Reachable
      <4>2. h \in Live' /\ Holds(h, f)'
        BY <1>0, <3>1, <3>2, <4>1 DEF Holds, Live, TypeOK
      <4>. QED  BY <4>2 DEF Reachable
    <3>. QED  BY <3>3, <3>4
  <2>6. CASE Push
    <3>1. cur \in Handler /\ Pool' = Pool \cup {cur}
      BY <2>6, PushPool DEF Push, AcceptorInv, Starting, TypeOK
    <3>2. UNCHANGED <<s, m_hSocket>> /\ \A h \in Handler : pc'[h] = pc[h]
      BY <1>0, <2>6 DEF Push, Goto, TypeOK
    <3>. QED  BY <1>1, <1>3, <1>6, <3>1, <3>2 DEF Holds, Live
  <2>. QED
    BY <1>6, <2>1, <2>2, <2>3, <2>4, <2>5, <2>6 DEF Acceptor, QuietAcceptor
<1>7. CASE Start \/ StopFlag \/ StopJoin
  <2>1. /\ UNCHANGED <<s, m_vecHandler, cur, Live>> /\ ~Accept
        /\ \A h \in Handler : pc'[h] = pc[h] /\ m_hSocket'[h] = m_hSocket[h]
    <3>0. UNCHANGED <<s, m_vecHandler, cur>>
      BY <1>7 DEF Start, StopFlag, StopJoin, acceptVars
    <3>1. CASE Start
      <4>1. /\ pc' = pc \/ pc' = [pc EXCEPT ![Server] = "loop"]
            /\ \/ m_hSocket' = m_hSocket
               \/ \E g \in FD : m_hSocket' = [m_hSocket EXCEPT ![Server] = g]
        BY <3>1 DEF Start, Goto
      <4>. QED  BY <1>0, <3>0, <3>1, <4>1, LiveFrame DEF TypeOK, Start, Accept, ownerVars
    <3>2. CASE StopFlag
      BY <1>0, <3>0, <3>2, LiveFrame DEF StopFlag, Accept, ownerVars
    <3>3. CASE StopJoin
      BY <1>0, <3>0, <3>3, LiveFrame DEF StopJoin, Goto, TypeOK, Accept, ownerVars
    <3>. QED  BY <1>7, <3>1, <3>2, <3>3
  <2>. QED  BY <1>1, <1>3, <2>1 DEF Holds, Live
<1>8. CASE DeleteTest \/ DeleteClose \/ DeleteFlag
  <2>1. UNCHANGED <<s, pc, m_hSocket, m_vecHandler, cur, Live>> /\ ~Accept
    BY <1>8, LiveFrame DEF DeleteTest, DeleteClose, DeleteFlag, objVars, acceptVars, Accept,
              ownerVars
  <2>. QED  BY <1>1, <1>3, <2>1 DEF Holds
<1>9. CASE DeleteStore \/ DeleteJoin
  <2>1. /\ UNCHANGED <<s, m_vecHandler, cur, Live>> /\ ~Accept
        /\ m_hSocket' = [m_hSocket EXCEPT ![m_vecHandler[d]] = INVALID_SOCKET]
        /\ \A h \in Handler : h /= m_vecHandler[d] => pc'[h] = pc[h]
    BY <1>0, <1>9, LiveFrame DEF DeleteStore, DeleteJoin, Goto, acceptVars, Accept, ownerVars,
              TypeOK
  <2>2. ~(m_hSocket[m_vecHandler[d]] = f)
    <3>1. CASE DeleteStore
      BY <1>3, <2>1, <3>1 DEF DeleteStore, LeakInv
    <3>2. CASE DeleteJoin
      BY <3>2, Entries DEF DeleteJoin, CloseFd
    <3>. QED  BY <1>9, <3>1, <3>2
  <2>. QED  BY <1>0, <1>1, <1>3, <2>1, <2>2 DEF Holds, Live, TypeOK
<1>10. CASE StopClear
  <2>1. s \notin FD /\ cur \notin Handler
    BY <1>10 DEF StopClear, StopInv, Deleting, AcceptorInv, Starting
  <2>2. \A h \in Live : m_hSocket[h] = INVALID_SOCKET
    BY <1>10, <2>1 DEF StopClear, StopInv, Deleting, Live, Pool, TypeOK
  <2>3. file'[f] = file[f]
    BY <1>10 DEF StopClear
  <2>. QED  BY <1>0, <2>1, <2>2, <2>3 DEF LeakInv, Reachable, Holds
<1>. QED
  BY <1>2, <1>4, <1>5, <1>6, <1>7, <1>8, <1>9, <1>10 DEF Next, Environment, StopRest

LEMMA ListenStep ==
    ASSUME IInv, ListenInv, [Next]_vars
    PROVE  ListenInv'
<1> USE Objects, Entries, Distinct DEF IInv, ListenInv
<1>0. Object = Handler \cup {Server} /\ Server \notin Handler
  BY DEF Object
(* A step that opens no listener, moves neither the owner nor his socket.  *)
<1>1. ASSUME owner' = owner, m_hSocket'[Server] = m_hSocket[Server],
             \A f \in FD : file'[f] = Listening => file[f] = Listening,
             \A c \in Conn : phase'[c] = "queued" => phase[c] = "queued" \/ owner \in {"up", "join"}
      PROVE  ListenInv'
  BY <1>1
<1>2. CASE Environment
  <2>1. ASSUME NEW c \in Conn, Connect(c) PROVE ListenInv'
    <3>1. owner \in {"up", "join"}
      BY <2>1 DEF Connect
    <3>. QED  BY <2>1, <3>1 DEF Connect, objVars, ownerVars
  <2>2. ASSUME NEW c \in Conn, Transmit(c) \/ HangUp(c) PROVE ListenInv'
    BY <2>2 DEF Transmit, HangUp, objVars, ownerVars
  <2>3. CASE ForeignOpen \/ ForeignClose
    BY <1>1, <2>3 DEF ForeignOpen, ForeignClose, CloseFd, IsLowestFree, objVars, ownerVars, netVars,
                      TypeOK
  <2>. QED  BY <1>2, <2>1, <2>2, <2>3 DEF Environment
<1>3. ASSUME NEW h \in Handler, Routine(h) PROVE ListenInv'
  <2>1. owner' = owner /\ m_hSocket'[Server] = m_hSocket[Server]
    BY <1>0, <1>3, HandlerFrame DEF ownerVars, TypeOK
  <2>2. phase' = phase /\ \A f \in FD : file'[f] = Listening => file[f] = Listening
    BY <1>3 DEF Routine, Top, Poll, IOLoop, RecvEnter, RecvReturn, Respond, CloseTest, CloseCall,
              CloseStore, BecomeIdle, CloseFd, OnlyPc, netVars
  <2>. QED  BY <1>1, <2>1, <2>2
<1>4. CASE Acceptor
  <2>1. owner' = owner /\ owner \in {"up", "join"}
    BY <1>4, AcceptorFrame DEF ownerVars
  <2>2. m_hSocket'[Server] = m_hSocket[Server]
    <3>1. CASE QuietAcceptor
      BY <3>1, QuietFrame
    <3>2. CASE Scan \/ Push
      BY <3>2 DEF Scan, Push, objVars
    <3>3. CASE NewHandler
      BY <1>0, <3>3 DEF NewHandler, TypeOK
    <3>4. CASE StartAttach
      BY <1>0, <3>4 DEF StartAttach, AcceptorInv, Starting, TypeOK
    <3>. QED  BY <1>4, <3>1, <3>2, <3>3, <3>4 DEF Acceptor, QuietAcceptor
  <2>3. ASSUME NEW f \in FD, file'[f] = Listening PROVE file[f] = Listening
    <3>1. CASE Accept
      BY <2>3, <3>1 DEF Accept, TypeOK
    <3>2. CASE Reject
      BY <2>3, <3>2 DEF Reject, CloseFd
    <3>3. CASE ~Accept /\ ~Reject
      BY <1>4, <2>3, <3>3 DEF Acceptor, AcceptorLoop, Select, Scan, NewHandler, StartAttach,
                StartServlet, StartBusy, Push, OnlyPc
    <3>. QED  BY <3>1, <3>2, <3>3
  <2>. QED  BY <2>1, <2>2, <2>3
<1>5. CASE Start
  <2>1. owner' = "up" /\ \A f \in FD : file[f] /= Listening
    BY <1>5 DEF Start
  <2>2. \A f \in FD : file'[f] = Listening => m_hSocket'[Server] = f
    <3>1. CASE UNCHANGED <<file, m_hSocket>>
      BY <2>1, <3>1
    <3>2. ASSUME NEW g \in FD, file' = [file EXCEPT ![g] = Listening],
                 m_hSocket' = [m_hSocket EXCEPT ![Server] = g]
          PROVE  \A f \in FD : file'[f] = Listening => m_hSocket'[Server] = f
      BY <1>0, <2>1, <3>2 DEF TypeOK
    <3>. QED  BY <1>5, <3>1, <3>2 DEF Start
  <2>. QED  BY <2>1, <2>2
<1>6. CASE StopFlag
  BY <1>6 DEF StopFlag, netVars
<1>7. CASE StopJoin
  <2>1. m_hSocket'[Server] = INVALID_SOCKET /\ \A f \in FD : file'[f] /= Listening
    BY <1>0, <1>7 DEF StopJoin, CloseFd, TypeOK
  <2>2. \A c \in Conn : phase'[c] /= "queued"
    BY <1>7 DEF StopJoin
  <2>. QED  BY <2>1, <2>2
<1>8. CASE DeleteTest \/ DeleteClose \/ DeleteStore \/ DeleteFlag \/ DeleteJoin \/ StopClear
  <2>1. owner \notin {"up", "join"} /\ phase' = phase
    BY <1>8 DEF DeleteTest, DeleteClose, DeleteStore, DeleteFlag, DeleteJoin, StopClear, netVars
  <2>2. m_hSocket'[Server] = m_hSocket[Server]
    <3>1. CASE DeleteStore \/ DeleteJoin
      <4>1. m_vecHandler[d] /= Server
        BY <1>0, <3>1 DEF DeleteStore, DeleteJoin, StopInv, Deleting, TypeOK
      <4>. QED  BY <1>0, <3>1, <4>1 DEF DeleteStore, DeleteJoin, TypeOK
    <3>2. CASE DeleteTest \/ DeleteClose \/ DeleteFlag \/ StopClear
      BY <3>2 DEF DeleteTest, DeleteClose, DeleteFlag, StopClear, objVars
    <3>. QED  BY <1>8, <3>1, <3>2
  <2>3. \A f \in FD : file'[f] = Listening => file[f] = Listening
    BY <1>8 DEF DeleteTest, DeleteClose, DeleteStore, DeleteFlag, DeleteJoin, StopClear, CloseFd
  <2>. QED  BY <2>1, <2>2, <2>3
<1>9. CASE UNCHANGED vars
  BY <1>9 DEF vars, objVars, ownerVars, netVars
<1>. QED
  BY <1>2, <1>3, <1>4, <1>5, <1>6, <1>7, <1>8, <1>9 DEF Next, Environment, StopRest

LEMMA Accounted == Spec => [](LeakInv /\ ListenInv)
<1>1. Init => LeakInv /\ ListenInv
  BY Entries DEF Init, LeakInv, ListenInv, Object
<1>2. IInv /\ LeakInv /\ ListenInv /\ [Next]_vars => (LeakInv /\ ListenInv)'
  BY ClosedStep, LeakStep, ListenStep DEF LeakInv
<1>. QED  BY <1>1, <1>2, Invariance, PTL DEF Spec

(* Whatever accept returned will be closed: by the acceptor itself or by
   the handler it gave it to (WebServer.cpp:483-522, 341).                 *)
THEOREM NothingLeaks == Spec => []NoDescriptorLeak
<1>1. IInv /\ LeakInv => NoDescriptorLeak
  BY DEF IInv, AcceptorInv, LeakInv, Reachable, Holds, Live, NoDescriptorLeak
<1>. QED  BY <1>1, Invariance, Accounted, PTL

(* Stop leaves no thread, no descriptor and no waiting client behind
   (WebServer.cpp:461-472), however its steps and the handlers' interleave. *)
THEOREM StopIsClean == Spec => []StopLeavesNothing
<1>1. IInv /\ LeakInv /\ ListenInv => StopLeavesNothing
  <2> SUFFICES ASSUME IInv, LeakInv, ListenInv, owner = "down"
               PROVE  /\ \A o \in Object : pc[o] = "none" /\ m_hSocket[o] = INVALID_SOCKET
                      /\ \A f \in FD : file[f] \in {Free, Foreign}
                      /\ \A c \in Conn : phase[c] /= "queued"
      BY DEF StopLeavesNothing
  <2>1. Live = {} /\ s \notin FD /\ pc[Server] = "none"
    BY DEF IInv, StopInv, AcceptorInv, Starting, Live, Pool
  <2>2. \A o \in Object : pc[o] = "none" /\ m_hSocket[o] = INVALID_SOCKET
    BY <2>1 DEF IInv, StopInv, ListenInv, Object
  <2>3. ASSUME NEW f \in FD PROVE file[f] \in {Free, Foreign}
    <3>1. file[f] \notin Conn /\ file[f] /= Listening
      BY <2>1, <2>2, Distinct DEF LeakInv, Reachable, ListenInv, Object
    <3>. QED  BY <3>1 DEF IInv, TypeOK
  <2>. QED  BY <2>2, <2>3 DEF ListenInv
<1>. QED  BY <1>1, Invariance, Accounted, PTL

-----------------------------------------------------------------------------
(* The service: every step of the server is one of ConnectionService's or
   leaves what it speaks of alone.  What is pinned was taken, and the
   listener's number is the listener's.                                     *)

TakenInv ==
    /\ \A f \in FD : file[f] \in Conn => phase[file[f]] = "taken"
    /\ \A h \in Handler : rx[h] \in Conn => phase[rx[h]] = "taken"
    /\ m_hSocket[Server] \in FD => file[m_hSocket[Server]] = Listening

LEMMA PhaseStays ==
    ASSUME TypeOK, [Next]_vars, NEW c \in Conn, phase[c] = "taken"
    PROVE  phase'[c] = "taken"
<1> USE DEF TypeOK
<1>1. CASE Environment
  BY <1>1 DEF Environment, Connect, Transmit, HangUp, ForeignOpen, ForeignClose, netVars
<1>2. ASSUME NEW h \in Handler, Routine(h) PROVE phase' = phase
  BY <1>2 DEF Routine, Top, Poll, IOLoop, RecvEnter, RecvReturn, Respond, CloseTest, CloseCall, CloseStore,
              BecomeIdle, OnlyPc, netVars
<1>3. CASE Acceptor
  <2>1. CASE Accept
    BY <2>1 DEF Accept
  <2>2. CASE ~Accept
    BY <1>3, <2>2 DEF Acceptor, AcceptorLoop, Select, Scan, Reject, NewHandler, StartAttach, StartServlet,
                      StartBusy, Push, OnlyPc, netVars
  <2>. QED  BY <2>1, <2>2
<1>4. CASE Start \/ StopFlag
  BY <1>4 DEF Start, StopFlag, netVars
<1>5. CASE StopRest
  BY <1>5 DEF StopRest, StopJoin, DeleteTest, DeleteClose, DeleteStore, DeleteFlag, DeleteJoin, StopClear, netVars
<1>6. CASE UNCHANGED vars
  BY <1>6 DEF vars, netVars
<1>. QED  BY <1>1, <1>2, <1>3, <1>4, <1>5, <1>6 DEF Next, Environment

(* Nobody but Start and Stop touches the listener's number or its entry.   *)
LEMMA ListenerStays ==
    ASSUME IInv, ListenInv, TakenInv, [Next]_vars, m_hSocket'[Server] \in FD
    PROVE  file'[m_hSocket'[Server]] = Listening
<1> USE Entries, Objects DEF IInv, TypeOK, CloseFd
<1>0. Server \in Object /\ Handler \subseteq Object /\ INVALID_SOCKET \notin FD
  BY Distinct DEF Object
<1>1. CASE Start
  <2>1. CASE TableFull /\ UNCHANGED <<pc, m_bStop, m_hSocket, file>>
    BY <2>1 DEF TakenInv
  <2>2. CASE ~(TableFull /\ UNCHANGED <<pc, m_bStop, m_hSocket, file>>)
    <3>1. PICK f \in FD : file' = [file EXCEPT ![f] = Listening] /\ m_hSocket' = [m_hSocket EXCEPT ![Server] = f]
      BY <1>1, <2>2 DEF Start
    <3>. QED  BY <1>0, <3>1
  <2>. QED  BY <2>1, <2>2
<1>2. CASE StopJoin
  BY <1>0, <1>2 DEF StopJoin
<1>3. CASE ~Start /\ ~StopJoin
  <2>1. m_hSocket'[Server] = m_hSocket[Server]
    <3>1. CASE Environment \/ UNCHANGED vars
      BY <3>1, EnvironmentFrame DEF objVars, vars
    <3>2. ASSUME NEW h \in Handler, Routine(h) PROVE m_hSocket'[Server] = m_hSocket[Server]
      BY <1>0, <3>2, HandlerFrame
    <3>3. CASE Acceptor
      <4>1. CASE QuietAcceptor
        BY <4>1, QuietFrame
      <4>2. CASE Scan \/ Push
        BY <4>2 DEF Scan, Push, objVars
      <4>3. CASE NewHandler
        BY <1>0, <4>3 DEF NewHandler
      <4>4. CASE StartAttach
        <5>1. cur \in Handler /\ m_hSocket' = [m_hSocket EXCEPT ![cur] = s]
          BY <4>4 DEF StartAttach, AcceptorInv, Starting
        <5>. QED  BY <1>0, <5>1
      <4>. QED  BY <3>3, <4>1, <4>2, <4>3, <4>4 DEF Acceptor, QuietAcceptor
    <3>4. CASE StopFlag \/ DeleteTest \/ DeleteClose \/ DeleteFlag \/ StopClear
      BY <3>4 DEF StopFlag, DeleteTest, DeleteClose, DeleteFlag, StopClear, objVars
    <3>5. CASE DeleteStore \/ DeleteJoin
      <4>1. m_vecHandler[d] \in Handler
        BY <3>5 DEF DeleteStore, DeleteJoin, StopInv
      <4>2. m_hSocket' = [m_hSocket EXCEPT ![m_vecHandler[d]] = INVALID_SOCKET]
        BY <3>5 DEF DeleteStore, DeleteJoin
      <4>. QED  BY <1>0, <4>1, <4>2
    <3>. QED  BY <1>3, <3>1, <3>2, <3>3, <3>4, <3>5 DEF Next, Environment, StopRest
  <2> DEFINE x == m_hSocket[Server]
  <2>2. x \in FD /\ file[x] = Listening /\ owner \in {"up", "join"} /\ ~Deleting
    BY <1>0, <2>1 DEF TakenInv, ListenInv, Deleting
  <2>3. file'[x] = Listening
    <3>1. CASE Environment \/ UNCHANGED vars
      BY <2>2, <3>1 DEF Environment, Connect, Transmit, HangUp, ForeignOpen, ForeignClose, IsLowestFree, vars
    <3>2. ASSUME NEW h \in Handler, Routine(h) PROVE file'[x] = Listening
      <4>1. CASE CloseCall(h)
        <5>1. h \in Live /\ pc[h] = "closesocket"
          BY <4>1 DEF CloseCall, StopInv
        <5>2. m_hSocket[h] \in FD => file[m_hSocket[h]] \in Conn
          BY <2>2, <5>1 DEF HoldInv, HoldOf
        <5>3. m_hSocket[h] /= x
          BY <2>2, <5>2
        <5>. QED  BY <2>2, <4>1, <5>3 DEF CloseCall
      <4>2. CASE ~CloseCall(h)
        BY <2>2, <3>2, <4>2 DEF Routine, Top, Poll, IOLoop, RecvEnter, RecvReturn, Respond, CloseTest,
                  CloseStore, BecomeIdle, OnlyPc
      <4>. QED  BY <4>1, <4>2
    <3>3. CASE Accept
      BY <2>2, <3>3 DEF Accept, IsLowestFree
    <3>4. CASE Reject
      <4>1. s \in FD /\ file[s] \in Conn
        BY <3>4 DEF Reject, AcceptorInv, HoldInv
      <4>. QED  BY <2>2, <3>4, <4>1 DEF Reject
    <3>5. CASE Acceptor /\ ~Accept /\ ~Reject
      BY <2>2, <3>5 DEF Acceptor, AcceptorLoop, Select, Scan, NewHandler, StartAttach, StartServlet,
                        StartBusy, Push, OnlyPc
    <3>6. CASE StopFlag \/ DeleteTest \/ DeleteStore \/ DeleteFlag \/ StopClear
      BY <2>2, <3>6 DEF StopFlag, DeleteTest, DeleteStore, DeleteFlag, StopClear
    <3>7. ~DeleteClose /\ ~DeleteJoin
      BY <2>2 DEF DeleteClose, DeleteJoin
    <3>. QED  BY <1>3, <3>1, <3>2, <3>3, <3>4, <3>5, <3>6, <3>7 DEF Next, Environment, StopRest
  <2>. QED  BY <2>1, <2>3
<1>. QED  BY <1>1, <1>2, <1>3

LEMMA TakenStep ==
    ASSUME IInv, ListenInv, TakenInv, [Next]_vars
    PROVE  TakenInv'
<1>1. TypeOK
  BY DEF IInv
<1>2. ASSUME NEW f \in FD, file'[f] \in Conn PROVE phase'[file'[f]] = "taken"
  <2>1. CASE Accept /\ file'[f] /= file[f]
    BY <1>1, <1>2, <2>1 DEF Accept, TypeOK
  <2>2. CASE file'[f] = file[f]
    BY <1>1, <1>2, <2>2, PhaseStays DEF TakenInv
  <2>. QED  BY <1>1, <1>2, <2>1, <2>2, NoNewConn
<1>3. ASSUME NEW h \in Handler, rx'[h] \in Conn PROVE phase'[rx'[h]] = "taken"
  <2>1. rx'[h] = rx[h] \/ \E f \in FD : file[f] = rx'[h]
    <3> USE <1>1, <1>3, Objects DEF TypeOK
    <3>1. ASSUME NEW g \in Handler, Routine(g) PROVE rx'[h] = rx[h] \/ \E f \in FD : file[f] = rx'[h]
      <4>1. CASE RecvEnter(g)
        BY <4>1 DEF RecvEnter, Peer
      <4>2. CASE Poll(g)
        BY <4>2 DEF Poll, cacheVars
      <4>3. CASE ~RecvEnter(g) /\ ~Poll(g)
        BY <3>1, <4>3 DEF Routine, Top, IOLoop, RecvReturn, Respond, CloseTest, CloseCall, CloseStore,
                          BecomeIdle, OnlyPc, cacheVars
      <4>. QED  BY <4>1, <4>2, <4>3
    <3>2. CASE Environment \/ Acceptor \/ UNCHANGED vars
      BY <3>2, EnvironmentFrame, AcceptorFrame DEF IInv, cacheVars, vars
    <3>3. CASE Start \/ StopFlag \/ StopRest
      BY <3>3 DEF Start, StopFlag, StopRest, StopJoin, DeleteTest, DeleteClose, DeleteStore, DeleteFlag,
                  DeleteJoin, StopClear, cacheVars
    <3>. QED  BY <3>1, <3>2, <3>3 DEF Next, Environment
  <2>2. phase[rx'[h]] = "taken"
    BY <1>3, <2>1 DEF TakenInv
  <2>. QED  BY <1>1, <1>3, <2>2, PhaseStays
<1>. QED  BY <1>2, <1>3, ListenerStays DEF TakenInv

-----------------------------------------------------------------------------
(* The service stays up, or down.                                          *)
SameUp == owner' = "down" <=> owner = "down"

LEMMA Unseen ==
    ASSUME SameUp, UNCHANGED <<phase, answers>>, \A c \in Conn : Pinned(c)' <=> Pinned(c)
    PROVE  UNCHANGED Service!vars
<1>1. \A c \in Conn : ConnState(c)' = ConnState(c)
  BY DEF ConnState
<1>2. [c \in Conn |-> ConnState(c)]' = [c \in Conn |-> ConnState(c)]
  BY <1>1
<1>3. [c \in Conn |-> answers[c] /= {}]' = [c \in Conn |-> answers[c] /= {}]
  OBVIOUS
<1>4. (owner /= "down")' = (owner /= "down")
  BY DEF SameUp
<1>. QED  BY <1>2, <1>3, <1>4 DEF Service!vars

(* Only p may be pinned no more: it is closed.                             *)
LEMMA Unpinned ==
    ASSUME TypeOK, TakenInv, SameUp, UNCHANGED <<phase, answers>>, NEW p,
           \A c \in Conn : Pinned(c)' => Pinned(c), \A c \in Conn \ {p} : Pinned(c) => Pinned(c)'
    PROVE  Service!Next \/ UNCHANGED Service!vars
<1>1. CASE p \notin Conn \/ (Pinned(p) => Pinned(p)')
  BY <1>1, Unseen
<1>2. CASE p \in Conn /\ Pinned(p) /\ ~Pinned(p)'
  <2>1. phase[p] = "taken"
    BY <1>2 DEF Pinned, TakenInv
  <2>2. ConnState(p) = "open" /\ ConnState(p)' = "closed"
    BY <1>2, <2>1 DEF ConnState
  <2>3. \A c \in Conn \ {p} : ConnState(c)' = ConnState(c)
    BY DEF ConnState
  <2>4. [c \in Conn |-> ConnState(c)]' = [[c \in Conn |-> ConnState(c)] EXCEPT ![p] = "closed"]
    BY <1>2, <2>2, <2>3
  <2>5. [c \in Conn |-> answers[c] /= {}]' = [c \in Conn |-> answers[c] /= {}]
    OBVIOUS
  <2>6. (owner /= "down")' = (owner /= "down")
    BY DEF SameUp
  <2>7. Service!Close(p)
    BY <1>2, <2>2, <2>4, <2>5, <2>6 DEF Service!Close
  <2>. QED  BY <1>2, <2>7 DEF Service!Next
<1>. QED  BY <1>1, <1>2

(* Nobody enters or leaves recv.                                           *)
SameRecv == \A h \in Handler : /\ pc'[h] = "blocked" <=> pc[h] = "blocked"
                               /\ pc[h] = "blocked" => rx'[h] = rx[h]

(* Steps that close the descriptor x, or none.                             *)
LEMMA Closing ==
    ASSUME TypeOK, TakenInv, SameUp, SameRecv, UNCHANGED <<phase, answers>>, NEW x,
           \A f \in FD : \/ file'[f] = file[f]
                         \/ file'[f] \notin Conn /\ (f = x \/ file[f] \notin Conn)
    PROVE  Service!Next \/ UNCHANGED Service!vars
<1> DEFINE p == IF x \in FD THEN file[x] ELSE NONE
<1>1. \A c \in Conn : Pinned(c)' => Pinned(c)
  BY DEF Pinned, SameRecv
<1>2. ASSUME NEW c \in Conn, c /= p, Pinned(c) PROVE Pinned(c)'
  <2>1. CASE \E f \in FD : file[f] = c
    <3>1. PICK f \in FD : file[f] = c
      BY <2>1
    <3>2. file'[f] = c
      BY <1>2, <3>1
    <3>. QED  BY <3>2 DEF Pinned
  <2>2. CASE \E h \in Handler : pc[h] = "blocked" /\ rx[h] = c
    BY <2>2 DEF Pinned, SameRecv
  <2>. QED  BY <1>2, <2>1, <2>2 DEF Pinned
<1> HIDE DEF p
<1>. QED  BY <1>1, <1>2, Unpinned

(* ConnectionService has FiniteSets of its own.                             *)
LEMMA SameCardinality == \A S : Service!Cardinality(S) = Cardinality(S)
BY DEF Service!Cardinality, Cardinality

(* Before accept returns, every open connection has a handler of the pool
   to itself.                                                               *)
LEMMA RoomForOne ==
    ASSUME IInv, LeakInv, HandoffReady, pc[Server] = "accept"
    PROVE  Cardinality(Service!Held) <= m_nMaxThread
<1> DEFINE n == Len(m_vecHandler)
           g == [k \in 1..n |-> file[m_hSocket[m_vecHandler[k]]]]
           T == {g[k] : k \in 1..n}
<1>1. n \in Nat /\ n <= m_nMaxThread /\ m_nMaxThread \in Nat
  BY PoolSize DEF IInv, TypeOK, PoolBounded
<1>2. s \notin FD /\ cur \notin Handler /\ ~Deleting
  BY DEF IInv, AcceptorInv, Starting, StopInv
<1>3. ASSUME NEW h \in Handler, h \in Live PROVE \E k \in 1..n : m_vecHandler[k] = h
  BY <1>2, <1>3 DEF Live, Pool
<1>4. ASSUME NEW c \in Conn, Pinned(c) PROVE \E h \in Live : m_hSocket[h] \in FD /\ file[m_hSocket[h]] = c
  <2>1. CASE \E f \in FD : file[f] = c
    BY <1>2, <1>4, <2>1 DEF LeakInv, Reachable, Holds
  <2>2. ASSUME NEW h \in Handler, pc[h] = "blocked", rx[h] = c
        PROVE  h \in Live /\ m_hSocket[h] \in FD /\ file[m_hSocket[h]] = c
    <3>1. h \in Live
      BY <2>2 DEF IInv, StopInv
    <3>2. rx[h] /= NONE
      BY <1>4, <2>2, Objects
    <3>. QED  BY <1>2, <2>2, <3>1, <3>2 DEF HandoffReady, IOLabel
  <2>. QED  BY <1>4, <2>1, <2>2 DEF Pinned
<1>5. Service!Held \subseteq T
  <2>1. ASSUME NEW c \in Service!Held PROVE c \in T
    <3>1. c \in Conn /\ Pinned(c)
      BY DEF Service!Held, ConnState, IInv, TypeOK
    <3>2. PICK h \in Live : file[m_hSocket[h]] = c
      BY <1>4, <3>1
    <3>3. PICK k \in 1..n : m_vecHandler[k] = h
      BY <1>3 DEF Live
    <3>. QED  BY <3>2, <3>3
  <2>. QED  BY <2>1
<1>6. g \in [1..n -> T] /\ \A t \in T : \E k \in 1..n : g[k] = t
  OBVIOUS
<1> HIDE DEF n, g, T
<1>7. IsFiniteSet(1..n) /\ Cardinality(1..n) = n
  <2>1. IsFiniteSet(1..n) /\ Cardinality(1..n) = IF 1 > n THEN 0 ELSE n-1+1
    BY <1>1, FS_Interval
  <2>. QED  BY <1>1, <2>1
<1>8. IsFiniteSet(T) /\ Cardinality(T) <= n
  <2>1. g \in Surjection(1..n, T)
    BY <1>6 DEF Surjection
  <2>2. IsFiniteSet(T) /\ Cardinality(T) <= Cardinality(1..n)
    BY <1>7, <2>1, FS_Surjection
  <2>. QED  BY <1>7, <2>2
<1>9. Cardinality(Service!Held) <= Cardinality(T) /\ Cardinality(Service!Held) \in Nat /\ Cardinality(T) \in Nat
  BY <1>5, <1>8, FS_Subset, FS_CardinalityType
<1>. QED  BY <1>1, <1>8, <1>9

LEMMA ConnectMaps ==
    ASSUME TypeOK, StopLeavesNothing, NEW c \in Conn, Connect(c)
    PROVE  Service!Queue(c)
<1> USE DEF TypeOK
<1>1. owner /= "down" /\ owner' = owner
  BY Entries DEF Connect, StopLeavesNothing, ownerVars
<1>2. ConnState(c) = "new" /\ ConnState(c)' = "queued"
  BY DEF Connect, ConnState
<1>3. \A e \in Conn : Pinned(e)' <=> Pinned(e)
  BY DEF Connect, Pinned, cacheVars
<1>4. \A e \in Conn \ {c} : ConnState(e)' = ConnState(e)
  BY <1>3 DEF Connect, ConnState
<1>5. [e \in Conn |-> ConnState(e)]' = [[e \in Conn |-> ConnState(e)] EXCEPT ![c] = "queued"]
  BY <1>2, <1>4
<1>6. [e \in Conn |-> answers[e] /= {}]' = [e \in Conn |-> answers[e] /= {}]
  BY DEF Connect
<1>. QED  BY <1>1, <1>2, <1>5, <1>6 DEF Service!Queue

LEMMA AcceptMaps ==
    ASSUME IInv, LeakInv, HandoffReady, StopLeavesNothing, Accept, ~TableFull
    PROVE  \E c \in Conn : Service!Take(c)
<1>0. TypeOK
  BY DEF IInv
<1>1. PICK c \in Conn, f \in FD :
          /\ phase[c] = "queued" /\ file[f] = Free
          /\ phase' = [phase EXCEPT ![c] = "taken"] /\ file' = [file EXCEPT ![f] = c]
  BY DEF Accept, IsLowestFree
<1>2. owner /= "down" /\ owner' = owner /\ UNCHANGED <<rx, answers>>
  BY <1>1 DEF Accept, StopLeavesNothing, ownerVars, cacheVars
<1>3. \A h \in Handler : pc'[h] = pc[h]
  BY <1>0, Objects DEF Accept, Goto, TypeOK, Object
<1>4. ConnState(c) = "queued" /\ ConnState(c)' = "open"
  <2>1. file'[f] = c /\ phase'[c] = "taken"
    BY <1>0, <1>1 DEF TypeOK
  <2>. QED  BY <1>1, <2>1 DEF ConnState, Pinned
<1>5. ASSUME NEW e \in Conn \ {c} PROVE ConnState(e)' = ConnState(e)
  <2>1. phase'[e] = phase[e]
    BY <1>0, <1>1 DEF TypeOK
  <2>2. (\E k \in FD : file'[k] = e) <=> \E k \in FD : file[k] = e
    BY <1>0, <1>1, Entries DEF TypeOK
  <2>3. Pinned(e)' <=> Pinned(e)
    BY <1>2, <1>3, <2>2 DEF Pinned
  <2>. QED  BY <2>1, <2>3 DEF ConnState
<1>6. [e \in Conn |-> ConnState(e)]' = [[e \in Conn |-> ConnState(e)] EXCEPT ![c] = "open"]
  BY <1>4, <1>5
<1>7. [e \in Conn |-> answers[e] /= {}]' = [e \in Conn |-> answers[e] /= {}]
  BY <1>2
<1>8. Service!Cardinality(Service!Held) <= m_nMaxThread
  BY RoomForOne, SameCardinality DEF Accept
<1>9. Service!Take(c)
  <2>1. [e \in Conn |-> ConnState(e)][c] = "queued"
    BY <1>4
  <2>2. (owner /= "down") /\ (owner /= "down")' = (owner /= "down")
    BY <1>2
  <2>. QED  BY <1>6, <1>7, <1>8, <2>1, <2>2 DEF Service!Take
<1>. QED  BY <1>9

(* An answer is sent on a connection whose descriptor the handler has.     *)
LEMMA RespondMaps ==
    ASSUME TypeOK, TakenInv, NEW h \in Handler, Respond(h)
    PROVE  Service!Next \/ UNCHANGED Service!vars
<1>1. SameUp /\ owner' = owner /\ UNCHANGED <<phase, file, rx>>
  BY DEF Respond, SameUp, ownerVars, cacheVars
<1>2. \A k \in Handler : pc'[k] = "blocked" <=> pc[k] = "blocked"
  BY Objects DEF Respond, Goto, TypeOK, Object
<1>3. \A c \in Conn : Pinned(c)' <=> Pinned(c)
  BY <1>1, <1>2 DEF Pinned
<1>4. CASE UNCHANGED answers
  BY <1>1, <1>3, <1>4, Unseen
<1>5. CASE Peer(h) /= NONE /\ answers' = [answers EXCEPT ![Peer(h)] = @ \cup {rx[h]}]
  <2>1. PICK c \in Conn : c = Peer(h) /\ \E f \in FD : file[f] = c
    BY <1>5 DEF Peer
  <2>2. answers' = [answers EXCEPT ![c] = answers[c] \cup {rx[h]}]
    BY <1>5, <2>1 DEF TypeOK
  <2>3. ConnState(c) = "open"
    BY <2>1 DEF ConnState, Pinned, TakenInv
  <2>4. [e \in Conn |-> ConnState(e)]' = [e \in Conn |-> ConnState(e)]
    <3>1. \A e \in Conn : ConnState(e)' = ConnState(e)
      BY <1>1, <1>3 DEF ConnState
    <3>. QED  BY <3>1
  <2>5. [e \in Conn |-> answers[e] /= {}]' = [[e \in Conn |-> answers[e] /= {}] EXCEPT ![c] = TRUE]
    <3>1. answers'[c] /= {} /\ \A e \in Conn \ {c} : answers'[e] = answers[e]
      BY <2>1, <2>2 DEF TypeOK
    <3>. QED  BY <2>1, <3>1
  <2>6. CASE answers[c] = {}
    <3>1. Service!Answer(c)
      <4>1. [e \in Conn |-> ConnState(e)][c] = "open" /\ ~[e \in Conn |-> answers[e] /= {}][c]
        BY <2>1, <2>3, <2>6
      <4>2. (owner /= "down")' = (owner /= "down")
        BY <1>1
      <4>. QED  BY <2>4, <2>5, <4>1, <4>2 DEF Service!Answer
    <3>. QED  BY <2>1, <3>1 DEF Service!Next
  <2>7. CASE answers[c] /= {}
    <3>1. [e \in Conn |-> answers[e] /= {}]' = [e \in Conn |-> answers[e] /= {}]
      BY <2>1, <2>5, <2>7
    <3>. QED  BY <1>1, <2>4, <3>1 DEF Service!vars
  <2>. QED  BY <2>6, <2>7
<1>. QED  BY <1>4, <1>5 DEF Respond

LEMMA StartMaps ==
    ASSUME TypeOK, Start
    PROVE  Service!GoUp
<1>1. owner = "down" /\ owner' /= "down" /\ UNCHANGED <<phase, answers, rx>>
  BY DEF Start, cacheVars, netVars
<1>2. \A c \in Conn : (\E f \in FD : file'[f] = c) <=> \E f \in FD : file[f] = c
  <2>1. CASE file' = file
    BY <2>1
  <2>2. ASSUME NEW g \in FD, file[g] = Free, file' = [file EXCEPT ![g] = Listening]
        PROVE  \A c \in Conn : (\E f \in FD : file'[f] = c) <=> \E f \in FD : file[f] = c
    BY <2>2, Entries DEF TypeOK
  <2>. QED  BY <2>1, <2>2 DEF Start, IsLowestFree
<1>3. \A h \in Handler : pc'[h] = pc[h]
  BY Objects DEF Start, Goto, TypeOK, Object
<1>4. \A c \in Conn : ConnState(c)' = ConnState(c)
  BY <1>1, <1>2, <1>3 DEF ConnState, Pinned
<1>5. [c \in Conn |-> ConnState(c)]' = [c \in Conn |-> ConnState(c)]
  BY <1>4
<1>6. [c \in Conn |-> answers[c] /= {}]' = [c \in Conn |-> answers[c] /= {}]
  BY <1>1
<1>. QED  BY <1>1, <1>5, <1>6 DEF Service!GoUp

LEMMA StopJoinMaps ==
    ASSUME TypeOK, TakenInv, StopJoin
    PROVE  Service!Drop
<1>1. owner /= "down" /\ (owner /= "down")' = (owner /= "down") /\ UNCHANGED <<rx, answers>>
  BY DEF StopJoin, cacheVars
<1>2. \A c \in Conn : phase'[c] = IF phase[c] = "queued" THEN "dropped" ELSE phase[c]
  BY DEF StopJoin
<1>3. \A c \in Conn : (\E f \in FD : file'[f] = c) <=> \E f \in FD : file[f] = c
  <2>1. ASSUME NEW f \in FD
        PROVE  \/ file'[f] = file[f]
               \/ file'[f] = Free /\ file[f] = Listening
    BY <2>1 DEF StopJoin, CloseFd, TakenInv
  <2>. QED  BY <2>1, Entries
<1>4. \A h \in Handler : pc'[h] = pc[h]
  BY Objects DEF StopJoin, Goto, TypeOK, Object
<1>5. \A c \in Conn : Pinned(c)' <=> Pinned(c)
  BY <1>1, <1>3, <1>4 DEF Pinned
<1>6. \A c \in Conn : ConnState(c)' = IF ConnState(c) = "queued" THEN "dropped" ELSE ConnState(c)
  BY <1>2, <1>5 DEF ConnState
<1>7. [c \in Conn |-> ConnState(c)]' =
          [c \in Conn |-> IF [e \in Conn |-> ConnState(e)][c] = "queued" THEN "dropped"
                          ELSE [e \in Conn |-> ConnState(e)][c]]
  BY <1>6
<1>8. [c \in Conn |-> answers[c] /= {}]' = [c \in Conn |-> answers[c] /= {}]
  BY <1>1
<1>. QED  BY <1>1, <1>7, <1>8 DEF Service!Drop

LEMMA StopClearMaps ==
    ASSUME TypeOK, StopClear, StopLeavesNothing'
    PROVE  Service!GoDown
<1>1. owner /= "down" /\ owner' = "down" /\ UNCHANGED <<pc, rx, file, phase, answers>>
  BY DEF StopClear, cacheVars, netVars
<1>2. /\ \A h \in Handler : pc[h] = "none"
      /\ \A f \in FD : file[f] \in {Free, Foreign}
      /\ \A c \in Conn : phase[c] /= "queued"
  BY <1>1 DEF StopLeavesNothing, Object
<1>3. \A c \in Conn : ~Pinned(c)
  BY <1>2, Entries DEF Pinned
<1>4. \A c \in Conn : ConnState(c) /= "open" /\ ConnState(c) /= "queued"
  BY <1>2, <1>3 DEF ConnState, TypeOK
<1>5. Service!Held = {}
  BY <1>4 DEF Service!Held
<1>6. \A c \in Conn : ConnState(c)' = ConnState(c)
  BY <1>1 DEF ConnState, Pinned
<1>7. [c \in Conn |-> ConnState(c)]' = [c \in Conn |-> ConnState(c)]
  BY <1>6
<1>8. [c \in Conn |-> answers[c] /= {}]' = [c \in Conn |-> answers[c] /= {}]
  BY <1>1
<1>. QED  BY <1>1, <1>4, <1>5, <1>7, <1>8 DEF Service!GoDown

(* The other steps close one descriptor at most.                           *)
LEMMA RoutineMaps ==
    ASSUME TypeOK, TakenInv, NEW g \in Handler, Routine(g)
    PROVE  Service!Next \/ UNCHANGED Service!vars
<1> USE Objects DEF TypeOK, Object
<1>1. owner' = owner /\ SameUp /\ phase' = phase
  BY DEF Routine, Top, Poll, IOLoop, RecvEnter, RecvReturn, Respond, CloseTest, CloseCall, CloseStore,
         BecomeIdle, OnlyPc, netVars, ownerVars, SameUp
<1>2. CASE Respond(g)
  BY <1>2, RespondMaps
<1>3. CASE RecvEnter(g)
  <2>1. UNCHANGED <<answers, file>>
    BY <1>3 DEF RecvEnter, netVars
  <2>2. \A h \in Handler \ {g} : pc'[h] = pc[h] /\ rx'[h] = rx[h]
    BY <1>3 DEF RecvEnter, Goto
  <2>3. pc[g] /= "blocked" /\ (pc'[g] = "blocked" => \E f \in FD : file[f] = rx'[g])
    BY <1>3 DEF RecvEnter, Goto, Peer
  <2>4. \A c \in Conn : Pinned(c)' <=> Pinned(c)
    BY <2>1, <2>2, <2>3 DEF Pinned
  <2>. QED  BY <1>1, <2>1, <2>4, Unseen
<1>4. CASE RecvReturn(g)
  <2>1. UNCHANGED <<answers, file, rx>>
    BY <1>4 DEF RecvReturn
  <2>2. \A h \in Handler \ {g} : pc'[h] = pc[h]
    BY <1>4 DEF RecvReturn, Goto
  <2>3. pc'[g] /= "blocked"
    BY <1>4 DEF RecvReturn, Goto
  <2>4. \A c \in Conn : Pinned(c)' => Pinned(c)
    BY <2>1, <2>2, <2>3 DEF Pinned
  <2>5. \A c \in Conn \ {rx[g]} : Pinned(c) => Pinned(c)'
    BY <2>1, <2>2 DEF Pinned
  <2>. QED  BY <1>1, <2>1, <2>4, <2>5, Unpinned
<1>5. CASE Top(g) \/ Poll(g) \/ IOLoop(g) \/ CloseTest(g) \/ CloseCall(g) \/ CloseStore(g) \/ BecomeIdle(g)
  <2>1. answers' = answers
    BY <1>5 DEF Top, Poll, IOLoop, CloseTest, CloseCall, CloseStore, BecomeIdle, OnlyPc, netVars
  <2>2. SameRecv
    <3>1. ASSUME NEW h \in Handler, h /= g PROVE pc'[h] = pc[h] /\ rx'[h] = rx[h]
      BY <1>5, <3>1 DEF Top, Poll, IOLoop, CloseTest, CloseCall, CloseStore, BecomeIdle, OnlyPc, Goto, cacheVars
    <3>2. pc[g] /= "blocked" /\ pc'[g] /= "blocked"
      BY <1>5 DEF Top, Poll, IOLoop, CloseTest, CloseCall, CloseStore, BecomeIdle, Goto
    <3>. QED  BY <3>1, <3>2 DEF SameRecv
  <2>3. ASSUME NEW f \in FD PROVE file'[f] = file[f] \/ (file'[f] = Free /\ f = m_hSocket[g])
    <3>1. CASE CloseCall(g)
      BY <3>1 DEF CloseCall, CloseFd
    <3>2. CASE file' = file
      BY <3>2
    <3>. QED  BY <1>5, <3>1, <3>2 DEF Top, Poll, IOLoop, CloseTest, CloseStore, BecomeIdle, OnlyPc
  <2>4. \A f \in FD : file'[f] = file[f] \/ (file'[f] \notin Conn /\ (f = m_hSocket[g] \/ file[f] \notin Conn))
    BY <2>3, Entries
  <2>. QED  BY <1>1, <2>1, <2>2, <2>4, Closing
<1>. QED  BY <1>2, <1>3, <1>4, <1>5 DEF Routine

LEMMA AcceptorMaps ==
    ASSUME TypeOK, TakenInv, Acceptor, ~Accept \/ TableFull
    PROVE  Service!Next \/ UNCHANGED Service!vars
<1> USE Objects DEF TypeOK, Object
<1>1. owner' = owner /\ UNCHANGED <<rx, answers>>
  BY DEF Acceptor, AcceptorLoop, Select, Accept, Scan, Reject, NewHandler, StartAttach, StartServlet, StartBusy,
         Push, OnlyPc, cacheVars, ownerVars, netVars
<1>2. phase' = phase
  <2>1. CASE Accept
    BY <2>1 DEF Accept, IsLowestFree, TableFull
  <2>2. CASE ~Accept
    BY <2>2 DEF Acceptor, AcceptorLoop, Select, Scan, Reject, NewHandler, StartAttach, StartServlet,
                StartBusy, Push, OnlyPc, netVars
  <2>. QED  BY <2>1, <2>2
<1>3. ASSUME NEW f \in FD PROVE file'[f] = file[f] \/ (file'[f] = Free /\ f = s)
  <2>1. CASE Reject
    BY <2>1 DEF Reject, CloseFd
  <2>2. CASE Accept
    BY <2>2 DEF Accept, IsLowestFree, TableFull
  <2>3. CASE ~Reject /\ ~Accept
    BY <2>3 DEF Acceptor, AcceptorLoop, Select, Scan, NewHandler, StartAttach, StartServlet, StartBusy, Push,
                OnlyPc
  <2>. QED  BY <2>1, <2>2, <2>3
<1>4. SameRecv
  <2>1. ASSUME NEW h \in Handler PROVE pc'[h] = "blocked" <=> pc[h] = "blocked"
    <3>1. CASE NewHandler
      BY <3>1 DEF NewHandler
    <3>2. CASE ~NewHandler
      BY <3>2 DEF Acceptor, AcceptorLoop, Select, Accept, Scan, Reject, StartAttach, StartServlet, StartBusy,
                  Push, Goto
    <3>. QED  BY <3>1, <3>2
  <2>. QED  BY <1>1, <2>1 DEF SameRecv
<1>5. \A f \in FD : file'[f] = file[f] \/ (file'[f] \notin Conn /\ (f = s \/ file[f] \notin Conn))
  BY <1>3, Entries
<1>. QED  BY <1>1, <1>2, <1>4, <1>5, Closing DEF SameUp

LEMMA OwnerMaps ==
    ASSUME TypeOK, StopInv, TakenInv, StopFlag \/ DeleteTest \/ DeleteClose \/ DeleteStore \/ DeleteFlag \/ DeleteJoin
    PROVE  Service!Next \/ UNCHANGED Service!vars
<1> USE Objects DEF TypeOK, Object
<1> DEFINE x == m_hSocket[m_vecHandler[d]]
<1>1. SameUp /\ UNCHANGED <<rx, phase, answers>>
  BY DEF StopFlag, DeleteTest, DeleteClose, DeleteStore, DeleteFlag, DeleteJoin, cacheVars, netVars, SameUp
<1>2. ASSUME NEW f \in FD PROVE file'[f] = file[f] \/ (file'[f] = Free /\ f = x)
  BY DEF StopFlag, DeleteTest, DeleteClose, DeleteStore, DeleteFlag, DeleteJoin, CloseFd
<1>3. \A f \in FD : file'[f] = file[f] \/ (file'[f] \notin Conn /\ (f = x \/ file[f] \notin Conn))
  BY <1>2, Entries
<1>4. \A h \in Handler : pc'[h] = "blocked" <=> pc[h] = "blocked"
  <2>1. CASE DeleteJoin
    BY <2>1 DEF DeleteJoin, Goto
  <2>2. CASE ~DeleteJoin
    BY <2>2 DEF StopFlag, DeleteTest, DeleteClose, DeleteStore, DeleteFlag
  <2>. QED  BY <2>1, <2>2
<1>5. SameRecv
  BY <1>1, <1>4 DEF SameRecv
<1> HIDE DEF x
<1>. QED  BY <1>1, <1>3, <1>5, Closing

LEMMA EnvironmentMaps ==
    ASSUME TypeOK, TakenInv, Environment, \A c \in Conn : ~Connect(c)
    PROVE  Service!Next \/ UNCHANGED Service!vars
<1>1. SameUp /\ UNCHANGED <<pc, rx, phase, answers>>
  BY DEF Environment, Transmit, HangUp, ForeignOpen, ForeignClose, cacheVars, ownerVars, netVars, SameUp
<1>2. ASSUME NEW f \in FD
      PROVE  file'[f] = file[f] \/ (file'[f] \notin Conn /\ (f = INVALID_SOCKET \/ file[f] \notin Conn))
  <2>1. CASE ForeignOpen
    BY <2>1, Entries DEF ForeignOpen, IsLowestFree, TypeOK
  <2>2. CASE ForeignClose
    BY <2>2, Entries DEF ForeignClose, CloseFd, TypeOK
  <2>3. CASE file' = file
    BY <2>3
  <2>. QED  BY <2>1, <2>2, <2>3 DEF Environment, Transmit, HangUp
<1>3. SameRecv
  BY <1>1 DEF SameRecv
<1>. QED  BY <1>1, <1>2, <1>3, Closing

LEMMA StepMaps ==
    ASSUME IInv, LeakInv, HandoffReady, StopLeavesNothing, TakenInv, [Next]_vars, StopLeavesNothing'
    PROVE  Service!Next \/ UNCHANGED Service!vars
<1>1. TypeOK /\ StopInv
  BY DEF IInv
<1>2. CASE Environment
  <2>1. ASSUME NEW c \in Conn, Connect(c) PROVE Service!Next
    BY <1>1, <2>1, ConnectMaps DEF Service!Next
  <2>. QED  BY <1>1, <1>2, <2>1, EnvironmentMaps
<1>3. CASE Acceptor
  <2>1. CASE Accept /\ ~TableFull
    <3>1. \E c \in Conn : Service!Take(c)
      BY <2>1, AcceptMaps
    <3>. QED  BY <3>1 DEF Service!Next
  <2>. QED  BY <1>1, <1>3, <2>1, AcceptorMaps
<1>4. ASSUME NEW h \in Handler, Routine(h) PROVE Service!Next \/ UNCHANGED Service!vars
  BY <1>1, <1>4, RoutineMaps
<1>5. CASE Start
  BY <1>1, <1>5, StartMaps DEF Service!Next
<1>6. CASE StopFlag \/ StopRest
  <2>1. CASE StopJoin
    BY <1>1, <2>1, StopJoinMaps DEF Service!Next
  <2>2. CASE StopClear
    BY <1>1, <2>2, StopClearMaps DEF Service!Next
  <2>. QED  BY <1>1, <1>6, <2>1, <2>2, OwnerMaps DEF StopRest
<1>7. CASE UNCHANGED vars
  <2>1. SameUp /\ UNCHANGED <<phase, answers>> /\ \A c \in Conn : Pinned(c)' <=> Pinned(c)
    BY <1>7 DEF vars, SameUp, ownerVars, netVars, cacheVars, Pinned
  <2>. QED  BY <2>1, Unseen
<1>. QED  BY <1>2, <1>3, <1>4, <1>5, <1>6, <1>7 DEF Next, Environment

LEMMA InitMaps == Init => TakenInv /\ Service!Init
<1> SUFFICES ASSUME Init PROVE TakenInv /\ Service!Init
  OBVIOUS
<1>1. TakenInv
  BY Entries, Objects DEF Init, TakenInv, INVALID_SOCKET, FD, Object
<1>2. \A c \in Conn : ConnState(c) = "new"
  BY DEF Init, ConnState
<1>3. [c \in Conn |-> ConnState(c)] = [c \in Conn |-> "new"]
  BY <1>2
<1>4. [c \in Conn |-> answers[c] /= {}] = [c \in Conn |-> FALSE]
  BY DEF Init
<1>5. owner = "down"
  BY DEF Init
<1>. QED  BY <1>1, <1>3, <1>4, <1>5 DEF Service!Init

(* What ConnectionService promises holds of every step of the server: a
   connection is taken once, while there is room, answered only while it is
   open, and closed for good; Stop resets those that wait, and a server that
   is down holds none.  That every connection is closed in the end, the
   fairness of ConnectionService, is left to TLC.                          *)
THEOREM KeepsService == Spec => Service!Init /\ [][Service!Next]_(Service!vars)
<1>1. Init => TakenInv /\ Service!Init
  BY InitMaps
<1>2. IInv /\ LeakInv /\ ListenInv /\ TakenInv /\ [Next]_vars => TakenInv'
  BY TakenStep
<1>3. /\ IInv /\ LeakInv /\ ListenInv /\ TakenInv /\ HandoffReady /\ StopLeavesNothing
      /\ [Next]_vars /\ StopLeavesNothing'
      => [Service!Next]_(Service!vars)
  BY StepMaps
<1>. QED  BY <1>1, <1>2, <1>3, Invariance, Accounted, HandoffIsReady, StopIsClean, PTL DEF Spec

=============================================================================
