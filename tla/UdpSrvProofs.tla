----------------------------- MODULE UdpSrvProofs -----------------------------
(***************************************************************************)
(* Proofs about UdpSrv, for any number of users, threads, sockets and      *)
(* descriptors: CallbackIsJoined and SocketsInOrder.                       *)
(*                                                                         *)
(* Both are about vectors, a descriptor table and callers in the middle of *)
(* calls that change them.  The invariant says who may be inside the       *)
(* server (LockInv), which thread object its caller is at (WInv, StopInv), *)
(* which threads there are (ThreadInv), and that a socket is open exactly  *)
(* while one of a vector, m_sock and a caller has it (OpenInv, OneHolder,  *)
(* Held).                                                                  *)
(***************************************************************************)
EXTENDS UdpSrv, FiniteSetTheorems, SequenceTheorems, TLAPS

Inside == {"place", "insert", "remove", "delete", "join", "stopall", "joinall"}
Hands  == {"bind", "place", "insert", "sendto"}

(* m_cs is its caller's, from the lock to the return.                      *)
LockInv == \A u \in Caller : m_cs = u <=> upc[u] \in Inside

(* A thread has its own lock while it scans and while a callback runs, and
   calls only from its callback.                                            *)
OwnInv ==
    \A t \in Worker :
        /\ lock[t] = t <=> tpc[t] \in {"scan", "recv", "callback", "called"}
        /\ upc[t] /= "idle" => tpc[t] = "called"

(* The thread object a caller is at.                                       *)
WInv ==
    \A u \in Caller :
        /\ upc[u] \in {"insert", "delete", "join", "joinall"} => w[u] \in Threads
        /\ upc[u] \in {"remove", "stopall"} => w[u] \in Threads \cup {NONE}
        /\ upc[u] \in {"delete", "join"} => m_vecSock[w[u]] = <<>>
        /\ upc[u] = "insert" => HasRoom(w[u]) \/ m_vecSock[w[u]] = <<>>

(* A thread without a socket is being filled, or being deleted.            *)
Emptied(t) ==
    \E u \in Caller : \/ upc[u] \in {"insert", "delete", "join"} /\ w[u] = t
                      \/ upc[u] \in {"stopall", "joinall"}

ThreadInv ==
    /\ \A k, j \in 1..Len(m_vecThread) : m_vecThread[k] = m_vecThread[j] => k = j
    /\ \A t \in Worker : tpc[t] /= "none" \/ m_vecSock[t] /= <<>> => t \in Threads
    /\ \A t \in Threads : m_vecSock[t] = <<>> => Emptied(t)

(* StopAll has ended the threads before the one it is at.                  *)
Passed(u, k) == w[u] = NONE \/ \E j \in 1..Len(m_vecThread) : k < j /\ w[u] = m_vecThread[j]

StopInv ==
    \A u \in Caller : upc[u] \in {"stopall", "joinall"} =>
        \A k \in 1..Len(m_vecThread) :
            Passed(u, k) => tpc[m_vecThread[k]] = "none" /\ m_vecSock[m_vecThread[k]] = <<>>

(* Sockets are created in the order of their numbers.                      *)
CreatedInv == \E n \in 0..MaxJoins : Created = 1..n

(* What the server holds is open ...                                       *)
OpenInv ==
    /\ \A t \in Worker : \A k \in 1..Len(m_vecSock[t]) : m_vecSock[t][k] \in Open
    /\ m_sock /= NONE => m_sock \in Open
    /\ \A u \in Caller : upc[u] \in Hands => sock[u] \in Open

(* ... in one place ...                                                    *)
OneHolder ==
    /\ \A s, t \in Worker : \A k \in 1..Len(m_vecSock[s]), j \in 1..Len(m_vecSock[t]) :
          m_vecSock[s][k] = m_vecSock[t][j] => s = t /\ k = j
    /\ \A t \in Worker : \A k \in 1..Len(m_vecSock[t]) :
          /\ m_vecSock[t][k] /= m_sock
          /\ \A u \in Caller : upc[u] \in Hands => m_vecSock[t][k] /= sock[u]
    /\ \A u \in Caller : upc[u] \in Hands => sock[u] /= m_sock
    /\ \A u, v \in Caller : upc[u] \in Hands /\ upc[v] \in Hands /\ sock[u] = sock[v] => u = v

(* ... and nothing else is.                                                *)
Held ==
    \A p \in Open : \/ p = m_sock
                    \/ \E t \in Worker : \E k \in 1..Len(m_vecSock[t]) : m_vecSock[t][k] = p
                    \/ \E u \in Caller : upc[u] \in Hands /\ sock[u] = p

(* SetSendInfo has closed m_sock before it makes a new one.                *)
SendInv == \A u \in Caller : upc[u] = "setsend" => u = Sender /\ m_sock = NONE

(* Routine's index is within the vector where it uses it.                  *)
IndexInv ==
    \A t \in Worker :
        /\ tpc[t] \in {"recv", "callback"} => i[t] <= Len(m_vecSock[t])
        /\ tpc[t] \in {"recv", "callback", "called"} => i[t] <= MaxJoins

SockInv == CreatedInv /\ OpenInv /\ OneHolder /\ Held /\ SendInv

IInv ==
    /\ TypeOK /\ LockInv /\ OwnInv /\ WInv /\ ThreadInv /\ StopInv
    /\ SockInv /\ SocketsBounded /\ IndexInv

-----------------------------------------------------------------------------
(* Sequences.                                                              *)

LEMMA RemovedAt ==
    ASSUME NEW S, NEW s \in Seq(S), NEW k \in 1..Len(s)
    PROVE  /\ RemoveAt(s, k) \in Seq(S) /\ Len(RemoveAt(s, k)) = Len(s) - 1
           /\ \A j \in 1..(Len(s) - 1) : RemoveAt(s, k)[j] = IF j < k THEN s[j] ELSE s[j + 1]
<1> DEFINE a == SubSeq(s, 1, k - 1)
           b == SubSeq(s, k + 1, Len(s))
<1>1. Len(s) \in Nat /\ \A j \in 1..Len(s) : s[j] \in S
  BY LenProperties
<1>2. a \in Seq(S) /\ Len(a) = k - 1 /\ \A j \in 1..(k - 1) : a[j] = s[j]
  <2>1. \A j \in 1..(k - 1) : s[j] \in S
    BY <1>1
  <2>2. /\ a \in Seq(S)
        /\ Len(a) = IF 1 <= k - 1 THEN k - 1 - 1 + 1 ELSE 0
        /\ \A j \in 1..(k - 1 - 1 + 1) : a[j] = s[1 + j - 1]
    BY <1>1, <2>1, SubSeqProperties, 1 \in Int, k - 1 \in Int
  <2> QED
    BY <1>1, <2>2
<1>3. b \in Seq(S) /\ Len(b) = Len(s) - k /\ \A j \in 1..(Len(s) - k) : b[j] = s[k + j]
  <2>1. \A j \in (k + 1)..Len(s) : s[j] \in S
    BY <1>1
  <2>2. /\ b \in Seq(S)
        /\ Len(b) = IF k + 1 <= Len(s) THEN Len(s) - (k + 1) + 1 ELSE 0
        /\ \A j \in 1..(Len(s) - (k + 1) + 1) : b[j] = s[k + 1 + j - 1]
    BY <1>1, <2>1, SubSeqProperties, k + 1 \in Int, Len(s) \in Int
  <2> QED
    BY <1>1, <2>2
<1>4. /\ a \o b \in Seq(S) /\ Len(a \o b) = Len(a) + Len(b)
      /\ \A j \in 1..(Len(a) + Len(b)) : (a \o b)[j] = IF j <= Len(a) THEN a[j] ELSE b[j - Len(a)]
  BY <1>2, <1>3, ConcatProperties
<1>5. RemoveAt(s, k) = a \o b
  BY DEF RemoveAt
<1> HIDE DEF a, b
<1> QED
  <2>1. ASSUME NEW j \in 1..(Len(s) - 1)
        PROVE  (a \o b)[j] = IF j < k THEN s[j] ELSE s[j + 1]
    <3>1. CASE j < k
      BY <1>1, <1>2, <1>3, <1>4, <3>1
    <3>2. CASE ~(j < k)
      <4>1. (a \o b)[j] = b[j - (k - 1)]
        BY <1>1, <1>2, <1>3, <1>4, <3>2
      <4>2. j - (k - 1) \in 1..(Len(s) - k) /\ k + (j - (k - 1)) = j + 1
        BY <1>1, <3>2
      <4> QED
        BY <1>3, <3>2, <4>1, <4>2
    <3> QED
      BY <3>1, <3>2
  <2> QED
    BY <1>1, <1>2, <1>3, <1>4, <1>5, <2>1, Len(a) + Len(b) = Len(s) - 1

(* ToSet by the indices the vectors are used with.                         *)
LEMMA InVector ==
    ASSUME NEW S, NEW s \in Seq(S), NEW x
    PROVE  x \in ToSet(s) <=> \E k \in 1..Len(s) : s[k] = x
BY LenProperties DEF ToSet

LEMMA EmptyVector ==
    ASSUME NEW S, NEW s \in Seq(S)
    PROVE  Len(s) \in Nat /\ (s = <<>> <=> Len(s) = 0)
BY LenProperties, EmptySeq

LEMMA ThreadPosition ==
    ASSUME TypeOK, NEW t \in Threads
    PROVE  Position(t) \in 1..Len(m_vecThread) /\ m_vecThread[Position(t)] = t
BY InVector DEF TypeOK, Threads, Position

LEMMA ThreadAt ==
    ASSUME TypeOK
    PROVE  /\ Threads \subseteq Worker /\ Len(m_vecThread) \in Nat
           /\ \A k \in 1..Len(m_vecThread) : m_vecThread[k] \in Threads
           /\ \A t \in Threads : \E k \in 1..Len(m_vecThread) : m_vecThread[k] = t
<1>1. m_vecThread \in Seq(Worker)
  BY DEF TypeOK
<1> QED
  BY <1>1, InVector, ElementOfSeq, LenProperties DEF Threads
-----------------------------------------------------------------------------
(* The initial state.                                                      *)

LEMMA InitInv == Init => IInv
<1> SUFFICES ASSUME Init PROVE IInv
  OBVIOUS
<1> USE Distinct, Bounds
<1>1. TypeOK
  BY EmptySeq DEF Init, TypeOK, Label, ThreadLabel, Caller, FD, Sock
<1>2. LockInv /\ OwnInv /\ WInv
  BY DEF Init, LockInv, OwnInv, WInv, Caller, Inside
<1>3. ThreadInv /\ StopInv
  BY EmptySeq DEF Init, ThreadInv, StopInv, Threads, ToSet
<1>4. SockInv
  <2>1. Created = 1..0
    BY DEF Init, Created
  <2>2. CreatedInv
    BY <2>1 DEF CreatedInv
  <2>3. Open = {}
    BY DEF Init, Open, Created
  <2> QED
    BY <2>2, <2>3 DEF Init, SockInv, OpenInv, OneHolder, Held, SendInv, Hands, Caller
<1>5. SocketsBounded /\ IndexInv
  BY EmptySeq DEF Init, SocketsBounded, IndexInv
<1> QED
  BY <1>1, <1>2, <1>3, <1>4, <1>5 DEF IInv

-----------------------------------------------------------------------------
(* One lemma per part of the invariant: a step preserves it.               *)

(* The types the following lemmas need.                                    *)
LEMMA TypeFacts ==
    ASSUME TypeOK
    PROVE  /\ upc \in [Caller -> Label] /\ tpc \in [Worker -> ThreadLabel]
           /\ m_cs \in Caller \cup {NONE} /\ NONE \notin Caller /\ User \subseteq Caller
           /\ lock \in [Worker -> Worker \cup {NONE}]
           /\ \A t \in Worker : t \in Caller /\ t \notin User /\ t /= NONE /\ lock[t] \in {t, NONE}
BY Distinct DEF TypeOK, Caller

LEMMA LockStep == ASSUME TypeOK, LockInv, [Next]_vars PROVE LockInv'
<1>1. upc \in [Caller -> Label] /\ m_cs \in Caller \cup {NONE} /\ NONE \notin Caller /\ User \subseteq Caller
  BY TypeFacts
<1> USE <1>1 DEF LockInv, Inside, At, Free
<1>2. ASSUME NEW u \in Caller, Create(u) \/ LeaveCall(u) \/ SendTo(u) PROVE LockInv'
  BY <1>2 DEF Create, LeaveCall, SendTo, Begin
<1>3. ASSUME NEW u \in Caller, BindFailure(u) PROVE LockInv'
  BY <1>3 DEF BindFailure
<1>4. ASSUME NEW u \in Caller, JoinLock(u) PROVE LockInv'
  BY <1>4 DEF JoinLock
<1>5. ASSUME NEW u \in Caller, Place(u) \/ NewThread(u) PROVE LockInv'
  BY <1>5 DEF Place, NewThread
<1>6. ASSUME NEW u \in Caller, Insert(u) PROVE LockInv'
  BY <1>6 DEF Insert
<1>7. ASSUME NEW u \in Caller, LeaveLock(u) PROVE LockInv'
  BY <1>7 DEF LeaveLock
<1>8. ASSUME NEW u \in Caller, LeaveNotFound(u) \/ LeaveJoin(u) \/ StopAllClear(u) PROVE LockInv'
  BY <1>8 DEF LeaveNotFound, LeaveJoin, StopAllClear, Return
<1>9. ASSUME NEW u \in Caller, Delete(u) PROVE LockInv'
  BY <1>9 DEF Delete
<1>10. ASSUME NEW u \in Caller, LeaveRemove(u) PROVE LockInv'
  BY <1>10 DEF LeaveRemove, Return
<1>11. ASSUME NEW u \in Caller, StopAllJoin(u) PROVE LockInv'
  BY <1>11 DEF StopAllJoin
<1>12. ASSUME NEW u \in Caller, SendToReturn(u) \/ SetSendCreate(u) PROVE LockInv'
  BY <1>12 DEF SendToReturn, SetSendCreate
<1>13. ASSUME NEW u \in User, StopAll(u) PROVE LockInv'
  BY <1>13 DEF StopAll
<1>14. ASSUME NEW u \in User, SetSendInfo(u) PROVE LockInv'
  BY <1>14 DEF SetSendInfo
<1>15. CASE UNCHANGED <<m_cs, upc>>
  BY <1>15
<1>16. ASSUME (\E p \in Sock : Arrive(p)) \/ (\E t \in Worker : Routine(t)) \/ UNCHANGED vars
      PROVE  UNCHANGED <<m_cs, upc>>
  BY <1>16 DEF Arrive, vars, userVars, Routine, Top, Build, SelectEnter, SelectReturn, SelectTimeout, Lock,
               Scan, ScanEnd, Recv, Callback
<1> QED
  BY <1>2, <1>3, <1>4, <1>5, <1>6, <1>7, <1>8, <1>9, <1>10, <1>11, <1>12, <1>13, <1>14, <1>15, <1>16
     DEF Next, Proceed

LEMMA OwnStep == ASSUME TypeOK, OwnInv, ThreadInv, [Next]_vars PROVE OwnInv'
<1>1. /\ upc \in [Caller -> Label] /\ tpc \in [Worker -> ThreadLabel] /\ lock \in [Worker -> Worker \cup {NONE}]
      /\ \A t \in Worker : t \in Caller /\ t \notin User /\ t /= NONE /\ lock[t] \in {t, NONE}
      /\ User \subseteq Caller
  BY TypeFacts
<1> USE <1>1 DEF OwnInv, At, Goto
<1>2. ASSUME NEW u \in Caller, Create(u) \/ LeaveCall(u) \/ SendTo(u) PROVE OwnInv'
  BY <1>2 DEF Create, LeaveCall, SendTo, Begin, loopVars
<1>3. ASSUME NEW u \in Caller, BindFailure(u) \/ JoinLock(u) \/ Place(u) \/ Insert(u) PROVE OwnInv'
  BY <1>3 DEF BindFailure, JoinLock, Place, Insert, workVars, loopVars
<1>4. ASSUME NEW u \in Caller, NewThread(u) PROVE OwnInv'
  <2>1. ASSUME NEW t \in Worker \ Threads PROVE tpc[t] = "none"
    BY DEF ThreadInv
  <2> QED
    BY <1>4, <2>1 DEF NewThread
<1>5. ASSUME NEW u \in Caller, LeaveLock(u) \/ LeaveNotFound(u) \/ LeaveRemove(u) \/ Delete(u) PROVE OwnInv'
  BY <1>5 DEF LeaveLock, LeaveNotFound, LeaveRemove, Delete, Return, workVars, loopVars
<1>6. ASSUME NEW u \in Caller, LeaveJoin(u) \/ StopAllJoin(u) PROVE OwnInv'
  BY <1>6 DEF LeaveJoin, StopAllJoin, Joined, Return
<1>7. ASSUME NEW u \in Caller, StopAllClear(u) \/ SendToReturn(u) \/ SetSendCreate(u) PROVE OwnInv'
  BY <1>7 DEF StopAllClear, Return, SendToReturn, SetSendCreate, workVars, loopVars
<1>8. ASSUME NEW u \in User, StopAll(u) \/ SetSendInfo(u) PROVE OwnInv'
  BY <1>8 DEF StopAll, SetSendInfo, workVars, loopVars
<1>9. ASSUME NEW t \in Worker, Top(t) \/ Build(t) \/ SelectEnter(t) \/ SelectReturn(t) \/ SelectTimeout(t)
      PROVE  OwnInv'
  BY <1>9 DEF Top, Build, SelectEnter, SelectReturn, SelectTimeout, EndRound, userVars
<1>10. ASSUME NEW t \in Worker, Lock(t) \/ Scan(t) \/ ScanEnd(t) \/ Recv(t) \/ Callback(t) PROVE OwnInv'
  BY <1>10 DEF Lock, Scan, ScanEnd, Recv, Callback, EndRound, userVars
<1>11. ASSUME (\E p \in Sock : Arrive(p)) \/ UNCHANGED vars PROVE OwnInv'
  BY <1>11 DEF Arrive, vars, workVars, loopVars, userVars
<1> QED
  BY <1>2, <1>3, <1>4, <1>5, <1>6, <1>7, <1>8, <1>9, <1>10, <1>11 DEF Next, Proceed, Routine

-----------------------------------------------------------------------------
(* WInv, ThreadInv and StopInv change only while somebody is inside, and
   there is one at most: the steps that enter, those inside, and the others.  *)

EnterStep(u) == JoinLock(u) \/ LeaveLock(u) \/ StopAll(u)

InsideStep(u) ==
    \/ Place(u) \/ NewThread(u) \/ Insert(u) \/ LeaveRemove(u) \/ LeaveNotFound(u)
    \/ Delete(u) \/ LeaveJoin(u) \/ StopAllJoin(u) \/ StopAllClear(u)

(* Nothing that those inside rely on changes.                              *)
OtherStep ==
    /\ UNCHANGED <<m_vecThread, m_vecSock>>
    /\ \A t \in Worker : tpc'[t] = "none" <=> tpc[t] = "none"
    /\ \A u \in Caller : /\ upc'[u] \in Inside <=> upc[u] \in Inside
                         /\ upc[u] \in Inside => upc'[u] = upc[u] /\ w'[u] = w[u]

LEMMA StepCases ==
    ASSUME TypeOK, [Next]_vars
    PROVE  (\E u \in Caller : EnterStep(u) \/ InsideStep(u)) \/ OtherStep
<1>1. /\ upc \in [Caller -> Label] /\ tpc \in [Worker -> ThreadLabel] /\ w \in [Caller -> Worker \cup {NONE}]
      /\ User \subseteq Caller
  BY TypeFacts DEF TypeOK
<1> USE <1>1 DEF OtherStep, Inside, At, Goto
<1>2. ASSUME NEW u \in Caller, Create(u) \/ LeaveCall(u) \/ SendTo(u) PROVE OtherStep
  BY <1>2 DEF Create, LeaveCall, SendTo, Begin, loopVars
<1>3. ASSUME NEW u \in Caller, BindFailure(u) \/ SendToReturn(u) \/ SetSendCreate(u) PROVE OtherStep
  BY <1>3 DEF BindFailure, SendToReturn, SetSendCreate, workVars, loopVars
<1>4. ASSUME NEW u \in User, SetSendInfo(u) PROVE OtherStep
  BY <1>4 DEF SetSendInfo, workVars, loopVars
<1>5. ASSUME NEW t \in Worker, Top(t) \/ Build(t) \/ SelectEnter(t) \/ SelectReturn(t) \/ SelectTimeout(t)
      PROVE  OtherStep
  BY <1>5 DEF Top, Build, SelectEnter, SelectReturn, SelectTimeout, EndRound, userVars
<1>6. ASSUME NEW t \in Worker, Lock(t) \/ Scan(t) \/ ScanEnd(t) \/ Recv(t) \/ Callback(t) PROVE OtherStep
  BY <1>6 DEF Lock, Scan, ScanEnd, Recv, Callback, EndRound, userVars
<1>7. ASSUME (\E p \in Sock : Arrive(p)) \/ UNCHANGED vars PROVE OtherStep
  BY <1>7 DEF Arrive, vars, workVars, loopVars, userVars
<1> QED
  BY <1>2, <1>3, <1>4, <1>5, <1>6, <1>7 DEF Next, Proceed, Routine, EnterStep, InsideStep

LEMMA Alone ==
    ASSUME TypeOK, LockInv, NEW u \in Caller, EnterStep(u) \/ InsideStep(u)
    PROVE  \A v \in Caller \ {u} : upc[v] \notin Inside /\ upc'[v] = upc[v]
<1>1. upc \in [Caller -> Label] /\ NONE \notin Caller
  BY TypeFacts
<1>2. m_cs \in {u, NONE}
  BY <1>1 DEF EnterStep, InsideStep, JoinLock, LeaveLock, StopAll, Free, LockInv, Inside, Place, NewThread,
              Insert, LeaveRemove, LeaveNotFound, Delete, LeaveJoin, StopAllJoin, StopAllClear
<1>3. \A v \in Caller \ {u} : upc[v] \notin Inside
  BY <1>1, <1>2 DEF LockInv
<1>4. \A v \in Caller \ {u} : upc'[v] = upc[v]
  BY <1>1 DEF EnterStep, InsideStep, JoinLock, LeaveLock, StopAll, Place, NewThread, Insert, LeaveRemove,
              LeaveNotFound, Delete, LeaveJoin, StopAllJoin, StopAllClear, Return, At
<1> QED
  BY <1>3, <1>4

(* The vector of threads after NewThread and LeaveJoin.                    *)
LEMMA ThreadAppended ==
    ASSUME TypeOK, NEW t \in Worker, m_vecThread' = Append(m_vecThread, t)
    PROVE  /\ m_vecThread' \in Seq(Worker) /\ Len(m_vecThread') = Len(m_vecThread) + 1
           /\ \A k \in 1..Len(m_vecThread) : m_vecThread'[k] = m_vecThread[k]
           /\ m_vecThread'[Len(m_vecThread) + 1] = t
           /\ Threads' = Threads \cup {t}
<1>1. m_vecThread \in Seq(Worker)
  BY DEF TypeOK
<1>2. /\ m_vecThread' \in Seq(Worker) /\ Len(m_vecThread') = Len(m_vecThread) + 1
      /\ \A k \in 1..Len(m_vecThread) : m_vecThread'[k] = m_vecThread[k]
      /\ m_vecThread'[Len(m_vecThread) + 1] = t
  BY <1>1, AppendProperties
<1>3. \A x : x \in ToSet(m_vecThread') <=> \E k \in 1..Len(m_vecThread') : m_vecThread'[k] = x
  BY <1>2, InVector
<1>4. \A x : x \in ToSet(m_vecThread) <=> \E k \in 1..Len(m_vecThread) : m_vecThread[k] = x
  BY <1>1, InVector
<1>5. Len(m_vecThread) \in Nat
  BY <1>1, LenProperties
<1> QED
  BY <1>2, <1>3, <1>4, <1>5 DEF Threads

LEMMA ThreadRemoved ==
    ASSUME TypeOK, ThreadInv, NEW t \in Threads, m_vecThread' = RemoveAt(m_vecThread, Position(t))
    PROVE  /\ m_vecThread' \in Seq(Worker) /\ Threads' = Threads \ {t}
           /\ \A k, j \in 1..Len(m_vecThread') : m_vecThread'[k] = m_vecThread'[j] => k = j
<1> DEFINE q == Position(t)
<1>1. m_vecThread \in Seq(Worker) /\ Len(m_vecThread) \in Nat
  BY LenProperties DEF TypeOK
<1>2. q \in 1..Len(m_vecThread) /\ m_vecThread[q] = t
  BY ThreadPosition
<1> HIDE DEF q
<1>3. /\ m_vecThread' \in Seq(Worker) /\ Len(m_vecThread') = Len(m_vecThread) - 1
      /\ \A j \in 1..(Len(m_vecThread) - 1) :
             m_vecThread'[j] = IF j < q THEN m_vecThread[j] ELSE m_vecThread[j + 1]
  BY <1>1, <1>2, RemovedAt DEF q
<1>4. \A x : x \in ToSet(m_vecThread') <=> \E k \in 1..Len(m_vecThread') : m_vecThread'[k] = x
  BY <1>3, InVector
<1>5. \A x : x \in ToSet(m_vecThread) <=> \E k \in 1..Len(m_vecThread) : m_vecThread[k] = x
  BY <1>1, InVector
<1>6. \A k, j \in 1..Len(m_vecThread) : m_vecThread[k] = m_vecThread[j] => k = j
  BY DEF ThreadInv
<1>7. \A k, j \in 1..Len(m_vecThread') : m_vecThread'[k] = m_vecThread'[j] => k = j
  BY <1>1, <1>2, <1>3, <1>6
<1>8. ASSUME NEW x PROVE x \in Threads' <=> x \in Threads \ {t}
  <2>1. ASSUME x \in Threads' PROVE x \in Threads \ {t}
    <3>1. PICK j \in 1..(Len(m_vecThread) - 1) : m_vecThread'[j] = x
      BY <2>1, <1>3, <1>4 DEF Threads
    <3>2. CASE j < q
      BY <3>1, <3>2, <1>1, <1>2, <1>3, <1>5, <1>6 DEF Threads
    <3>3. CASE ~(j < q)
      BY <3>1, <3>3, <1>1, <1>2, <1>3, <1>5, <1>6 DEF Threads
    <3> QED
      BY <3>2, <3>3
  <2>2. ASSUME x \in Threads \ {t} PROVE x \in Threads'
    <3>1. PICK k \in 1..Len(m_vecThread) : m_vecThread[k] = x
      BY <2>2, <1>5 DEF Threads
    <3>2. CASE k < q
      <4>1. k \in 1..(Len(m_vecThread) - 1) /\ m_vecThread'[k] = x
        BY <3>1, <3>2, <1>1, <1>2, <1>3
      <4> QED
        BY <4>1, <1>3, <1>4 DEF Threads
    <3>3. CASE k > q
      <4>1. k - 1 \in 1..(Len(m_vecThread) - 1) /\ m_vecThread'[k - 1] = x
        BY <3>1, <3>3, <1>1, <1>2, <1>3
      <4> QED
        BY <4>1, <1>3, <1>4 DEF Threads
    <3>4. k /= q
      BY <3>1, <2>2, <1>2
    <3> QED
      BY <3>1, <3>2, <3>3, <3>4, <1>1, <1>2
  <2> QED
    BY <2>1, <2>2
<1> QED
  BY <1>3, <1>7, <1>8

(* The next thread of a walk through m_vecThread.                          *)
LEMMA NextThread ==
    ASSUME TypeOK, NEW t \in Threads
    PROVE  /\ After(t) \in Threads \cup {NONE}
           /\ \/ After(t) = NONE /\ Position(t) = Len(m_vecThread)
              \/ Position(t) + 1 \in 1..Len(m_vecThread) /\ After(t) = m_vecThread[Position(t) + 1]
<1>1. Position(t) \in 1..Len(m_vecThread) /\ Len(m_vecThread) \in Nat
  BY ThreadPosition, ThreadAt
<1>2. \A k \in 1..Len(m_vecThread) : m_vecThread[k] \in Threads
  BY ThreadAt
<1> QED
  BY <1>1, <1>2 DEF After

LEMMA FirstThread ==
    ASSUME TypeOK
    PROVE  /\ Head(m_vecThread) = m_vecThread[1]
           /\ m_vecThread /= <<>> => 1 \in 1..Len(m_vecThread) /\ Head(m_vecThread) \in Threads
           /\ m_vecThread = <<>> <=> Len(m_vecThread) = 0
<1>1. m_vecThread \in Seq(Worker)
  BY DEF TypeOK
<1>2. Len(m_vecThread) \in Nat /\ (m_vecThread = <<>> <=> Len(m_vecThread) = 0)
  BY <1>1, EmptyVector
<1>3. Head(m_vecThread) = m_vecThread[1]
  BY <1>1
<1> QED
  BY <1>2, <1>3, ThreadAt

(* What LeaveRemove does: it goes on, or it removes the one socket that has
   the descriptor.                                                          *)
Removes(u, k) ==
    /\ CloseAll({m_vecSock[w[u]][k]})
    /\ m_vecSock' = [m_vecSock EXCEPT ![w[u]] = RemoveAt(@, k)]
    /\ IF Len(m_vecSock[w[u]]) = 1 THEN At(u, "delete") /\ UNCHANGED <<m_cs, sock, w>> ELSE Return(u)

LEMMA Removal ==
    ASSUME TypeOK, OpenInv, OneHolder, NEW u \in Caller, LeaveRemove(u), w[u] \in Worker
    PROVE  \/ w' = [w EXCEPT ![u] = After(w[u])] /\ UNCHANGED <<m_cs, m_vecSock, upc, sock, file, pending>>
           \/ \E k \in 1..Len(m_vecSock[w[u]]) : Removes(u, k)
<1> DEFINE t == w[u]
           ks == Holds(t, fd[sock[u]])
           first == CHOOSE n \in ks : \A m \in ks : n <= m
<1>1. CASE ks = {}
  BY <1>1 DEF LeaveRemove
<1>2. CASE ks /= {}
  <2>1. ks \subseteq 1..Len(m_vecSock[t]) /\ Len(m_vecSock[t]) \in Nat
    BY LenProperties DEF Holds, TypeOK
  <2>2. ASSUME NEW n \in ks, NEW m \in ks PROVE n = m
    <3>1. m_vecSock[t][n] \in Open /\ m_vecSock[t][m] \in Open
      BY <2>1 DEF OpenInv
    <3>2. fd[m_vecSock[t][n]] = fd[m_vecSock[t][m]]
      BY DEF Holds
    <3>3. m_vecSock[t][n] = m_vecSock[t][m]
      BY <3>1, <3>2 DEF Open
    <3> QED
      BY <2>1, <3>3 DEF OneHolder
  <2>3. PICK k \in ks : TRUE
    BY <1>2
  <2>4. k \in Nat /\ \A m \in ks : k <= m
    BY <2>1, <2>2, <2>3
  <2>5. first \in ks
    BY <2>4
  <2>6. Removes(u, first)
    BY <1>2 DEF LeaveRemove, Removes
  <2> QED
    BY <2>1, <2>5, <2>6
<1> QED
  BY <1>1, <1>2

LEMMA WStep ==
    ASSUME TypeOK, LockInv, WInv, ThreadInv, OpenInv, OneHolder, [Next]_vars
    PROVE  WInv'
<1>1. /\ upc \in [Caller -> Label] /\ w \in [Caller -> Worker \cup {NONE}]
      /\ m_vecSock \in [Worker -> Seq(Sock)] /\ Threads \subseteq Worker
  BY TypeFacts, ThreadAt DEF TypeOK
<1>2. CASE OtherStep
  BY <1>1, <1>2 DEF OtherStep, WInv, Threads, HasRoom, Inside
<1>3. ASSUME NEW u \in Caller, EnterStep(u) \/ InsideStep(u) PROVE WInv'
  <2> USE <1>1 DEF At
  <2>1. ASSUME NEW v \in Caller \ {u}
        PROVE  upc'[v] \notin Inside
    BY <1>3, <2>1, Alone
  <2>2. SUFFICES ASSUME upc'[u] \in Inside
                 PROVE  /\ upc'[u] \in {"insert", "delete", "join", "joinall"} => w'[u] \in Threads'
                        /\ upc'[u] \in {"remove", "stopall"} => w'[u] \in Threads' \cup {NONE}
                        /\ upc'[u] \in {"delete", "join"} => m_vecSock'[w'[u]] = <<>>
                        /\ upc'[u] = "insert" => HasRoom(w[u])' \/ m_vecSock'[w'[u]] = <<>>
    BY <2>1 DEF WInv, Inside
  <2>3. CASE JoinLock(u)
    BY <2>3 DEF JoinLock
  <2>4. CASE Place(u)
    <3>1. PICK k \in 1..Len(m_vecThread) : HasRoom(m_vecThread[k]) /\ w' = [w EXCEPT ![u] = m_vecThread[k]]
      BY <2>4 DEF Place
    <3>2. m_vecThread[k] \in Threads
      BY ThreadAt
    <3> QED
      BY <2>4, <3>1, <3>2 DEF Place, Threads, HasRoom
  <2>5. CASE NewThread(u)
    <3>1. PICK t \in Worker \ Threads : w' = [w EXCEPT ![u] = t] /\ m_vecThread' = Append(m_vecThread, t)
      BY <2>5 DEF NewThread
    <3>2. t \in Threads'
      BY <3>1, ThreadAppended
    <3>3. m_vecSock[t] = <<>>
      BY DEF ThreadInv
    <3> QED
      BY <2>5, <3>1, <3>2, <3>3 DEF NewThread
  <2>6. CASE Insert(u) \/ LeaveNotFound(u) \/ LeaveJoin(u) \/ StopAllClear(u)
    BY <2>2, <2>6 DEF Insert, LeaveNotFound, LeaveJoin, StopAllClear, Return, Inside
  <2>7. CASE LeaveLock(u)
    BY <2>7, FirstThread DEF LeaveLock, Threads
  <2>8. CASE StopAll(u)
    BY <2>8, FirstThread DEF StopAll, Threads
  <2>9. CASE LeaveRemove(u)
    <3>1. w[u] \in Threads /\ upc[u] = "remove" /\ m_vecThread' = m_vecThread
      BY <2>9 DEF WInv, LeaveRemove
    <3>2. After(w[u]) \in Threads \cup {NONE}
      BY <3>1, NextThread
    <3>3. CASE w' = [w EXCEPT ![u] = After(w[u])] /\ UNCHANGED <<m_cs, m_vecSock, upc, sock, file, pending>>
      BY <3>1, <3>2, <3>3 DEF Threads
    <3>4. ASSUME NEW k \in 1..Len(m_vecSock[w[u]]), Removes(u, k), Len(m_vecSock[w[u]]) = 1
          PROVE  w'[u] = w[u] /\ m_vecSock'[w[u]] = <<>> /\ upc'[u] = "delete"
      <4>1. w[u] \in Worker /\ m_vecSock[w[u]] \in Seq(Sock)
        BY <3>1
      <4>2. RemoveAt(m_vecSock[w[u]], k) \in Seq(Sock) /\ Len(RemoveAt(m_vecSock[w[u]], k)) = 1 - 1
        BY <3>4, <4>1, RemovedAt
      <4>3. RemoveAt(m_vecSock[w[u]], k) = <<>>
        BY <4>2, EmptyVector
      <4> QED
        BY <3>4, <4>1, <4>3 DEF Removes
    <3>5. ASSUME NEW k \in 1..Len(m_vecSock[w[u]]), Removes(u, k), Len(m_vecSock[w[u]]) /= 1
          PROVE  upc'[u] = "idle"
      BY <3>5 DEF Removes, Return
    <3> QED
      BY <2>2, <2>9, <3>1, <3>3, <3>4, <3>5, Removal DEF Threads, Inside
  <2>10. CASE Delete(u)
    BY <2>10 DEF Delete, WInv, Threads
  <2>11. CASE StopAllJoin(u)
    <3>1. w[u] \in Threads
      BY <2>11 DEF StopAllJoin, WInv
    <3> QED
      BY <2>11, <3>1, NextThread DEF StopAllJoin, Threads
  <2> QED
    BY <1>3, <2>3, <2>4, <2>5, <2>6, <2>7, <2>8, <2>9, <2>10, <2>11 DEF EnterStep, InsideStep
<1> QED
  BY <1>2, <1>3, StepCases

(* Who inside has a thread without a socket.                               *)
LEMMA EmptiedByMe ==
    ASSUME TypeOK, LockInv, ThreadInv, NEW u \in Caller, EnterStep(u) \/ InsideStep(u)
    PROVE  \A t \in Threads : m_vecSock[t] = <<>> =>
               \/ upc[u] \in {"insert", "delete", "join"} /\ w[u] = t
               \/ upc[u] \in {"stopall", "joinall"}
BY Alone DEF ThreadInv, Emptied, Inside

LEMMA ThreadStep ==
    ASSUME TypeOK, LockInv, WInv, ThreadInv, StopInv, OpenInv, OneHolder, [Next]_vars
    PROVE  ThreadInv'
<1>1. /\ upc \in [Caller -> Label] /\ w \in [Caller -> Worker \cup {NONE}]
      /\ tpc \in [Worker -> ThreadLabel] /\ m_vecSock \in [Worker -> Seq(Sock)]
      /\ Threads \subseteq Worker
  BY TypeFacts, ThreadAt DEF TypeOK
<1>2. CASE OtherStep
  <2>1. Threads' = Threads
    BY <1>2 DEF OtherStep, Threads
  <2>2. \A t \in Worker : Emptied(t) => Emptied(t)'
    BY <1>2 DEF OtherStep, Emptied, Inside
  <2> QED
    BY <1>1, <1>2, <2>1, <2>2 DEF OtherStep, ThreadInv
<1>3. ASSUME NEW u \in Caller, EnterStep(u) \/ InsideStep(u) PROVE ThreadInv'
  <2> DEFINE Mine(t) == \/ upc[u] \in {"insert", "delete", "join"} /\ w[u] = t
                        \/ upc[u] \in {"stopall", "joinall"}
  <2> USE <1>1 DEF At, Goto
  <2>1. \A t \in Threads : m_vecSock[t] = <<>> => Mine(t)
    BY <1>3, EmptiedByMe
  <2>2. \A t \in Worker : Mine(t)' => Emptied(t)'
    BY DEF Emptied
  <2>3. ASSUME UNCHANGED <<m_vecThread, m_vecSock>>, \A t \in Worker : tpc'[t] = "none" <=> tpc[t] = "none",
               \A t \in Worker : Mine(t) => Mine(t)'
        PROVE  ThreadInv'
    BY <2>1, <2>2, <2>3 DEF ThreadInv, Threads
  <2>4. CASE JoinLock(u) \/ LeaveLock(u) \/ StopAll(u)
    BY <2>3, <2>4 DEF JoinLock, LeaveLock, StopAll, workVars, loopVars
  <2>5. CASE Place(u) \/ LeaveNotFound(u)
    BY <2>3, <2>5 DEF Place, LeaveNotFound, workVars, loopVars
  <2>6. CASE NewThread(u)
    <3>1. PICK t \in Worker \ Threads :
             /\ w' = [w EXCEPT ![u] = t] /\ m_vecThread' = Append(m_vecThread, t)
             /\ Goto(t, "top") \/ UNCHANGED tpc
      BY <2>6 DEF NewThread
    <3>2. /\ Len(m_vecThread') = Len(m_vecThread) + 1 /\ Threads' = Threads \cup {t}
          /\ \A k \in 1..Len(m_vecThread) : m_vecThread'[k] = m_vecThread[k]
          /\ m_vecThread'[Len(m_vecThread) + 1] = t
      BY <3>1, ThreadAppended
    <3>3. \A k, j \in 1..Len(m_vecThread') : m_vecThread'[k] = m_vecThread'[j] => k = j
      <4>1. Len(m_vecThread) \in Nat /\ \A k \in 1..Len(m_vecThread) : m_vecThread[k] /= t
        BY <3>1, ThreadAt
      <4> QED
        BY <3>2, <4>1 DEF ThreadInv
    <3>4. \A s \in Worker : tpc'[s] /= "none" \/ m_vecSock'[s] /= <<>> => s \in Threads'
      BY <2>6, <3>1, <3>2 DEF NewThread, ThreadInv
    <3>5. \A s \in Threads : m_vecSock[s] /= <<>>
      BY <2>1, <2>6 DEF NewThread
    <3>6. Mine(t)'
      BY <2>6, <3>1 DEF NewThread
    <3>7. \A s \in Threads' : m_vecSock'[s] = <<>> => Emptied(s)'
      BY <2>2, <2>6, <3>1, <3>2, <3>5, <3>6 DEF NewThread
    <3> QED
      BY <3>3, <3>4, <3>7 DEF ThreadInv
  <2>7. CASE Insert(u)
    <3>1. w[u] \in Threads /\ upc[u] = "insert"
      BY <2>7 DEF Insert, WInv
    <3>2. m_vecSock'[w[u]] /= <<>> /\ \A t \in Worker \ {w[u]} : m_vecSock'[t] = m_vecSock[t]
      <4>1. m_vecSock[w[u]] \in Seq(Sock) /\ m_vecSock'[w[u]] = Append(m_vecSock[w[u]], sock[u])
        BY <2>7, <3>1 DEF Insert
      <4> QED
        BY <2>7, <3>1, <4>1 DEF Insert
    <3> QED
      BY <2>1, <2>7, <3>1, <3>2 DEF Insert, ThreadInv, Threads, workVars
  <2>8. CASE LeaveRemove(u)
    <3>1. w[u] \in Threads /\ upc[u] = "remove" /\ UNCHANGED <<m_vecThread, tpc>>
      BY <2>8 DEF WInv, LeaveRemove, workVars
    <3>2. \A t \in Threads : m_vecSock[t] /= <<>>
      BY <2>1, <3>1
    <3>3. CASE w' = [w EXCEPT ![u] = After(w[u])] /\ UNCHANGED <<m_cs, m_vecSock, upc, sock, file, pending>>
      BY <3>1, <3>2, <3>3 DEF ThreadInv, Threads
    <3>4. ASSUME NEW k \in 1..Len(m_vecSock[w[u]]), Removes(u, k) PROVE ThreadInv'
      <4>1. w[u] \in Worker /\ m_vecSock[w[u]] \in Seq(Sock)
        BY <3>1
      <4>2. /\ RemoveAt(m_vecSock[w[u]], k) \in Seq(Sock)
            /\ Len(RemoveAt(m_vecSock[w[u]], k)) = Len(m_vecSock[w[u]]) - 1
        BY <4>1, RemovedAt
      <4>3. /\ m_vecSock'[w[u]] = RemoveAt(m_vecSock[w[u]], k)
            /\ \A t \in Worker \ {w[u]} : m_vecSock'[t] = m_vecSock[t]
        BY <3>4, <4>1 DEF Removes
      <4>4. CASE Len(m_vecSock[w[u]]) = 1
        <5>1. ASSUME NEW t \in Threads, t = w[u] PROVE Emptied(t)'
          BY <3>4, <4>4, <4>1, <5>1 DEF Removes, Emptied
        <5>2. \A t \in Threads : m_vecSock'[t] = <<>> => t = w[u]
          BY <3>2, <4>3
        <5>3. Threads' = Threads
          BY <3>1 DEF Threads
        <5> QED
          BY <3>1, <3>2, <4>1, <4>3, <5>1, <5>2, <5>3 DEF ThreadInv
      <4>5. CASE Len(m_vecSock[w[u]]) /= 1
        <5>1. m_vecSock'[w[u]] /= <<>>
          BY <4>1, <4>2, <4>3, <4>5, EmptyVector
        <5> QED
          BY <3>1, <3>2, <4>1, <4>3, <5>1 DEF ThreadInv, Threads
      <4> QED
        BY <4>4, <4>5
    <3> QED
      BY <2>8, <3>1, <3>3, <3>4, Removal
  <2>9. CASE Delete(u)
    BY <2>3, <2>9 DEF Delete
  <2>10. CASE LeaveJoin(u)
    <3>1. w[u] \in Threads /\ m_vecSock[w[u]] = <<>> /\ upc[u] = "join"
      BY <2>10 DEF LeaveJoin, WInv
    <3>2. /\ Threads' = Threads \ {w[u]}
          /\ \A k, j \in 1..Len(m_vecThread') : m_vecThread'[k] = m_vecThread'[j] => k = j
      BY <2>10, <3>1, ThreadRemoved DEF LeaveJoin
    <3>3. tpc' = [tpc EXCEPT ![w[u]] = "none"] /\ m_vecSock' = m_vecSock
      BY <2>10 DEF LeaveJoin
    <3>4. \A s \in Threads' : m_vecSock'[s] /= <<>>
      BY <2>1, <3>1, <3>2, <3>3
    <3> QED
      BY <3>1, <3>2, <3>3, <3>4 DEF ThreadInv
  <2>11. CASE StopAllJoin(u)
    <3>1. \A t \in Worker : Mine(t)'
      BY <2>11 DEF StopAllJoin
    <3>2. /\ tpc' = [tpc EXCEPT ![w[u]] = "none"] /\ m_vecSock' = [m_vecSock EXCEPT ![w[u]] = <<>>]
          /\ m_vecThread' = m_vecThread
      BY <2>11 DEF StopAllJoin
    <3> QED
      BY <2>2, <3>1, <3>2 DEF ThreadInv, Threads
  <2>12. CASE StopAllClear(u)
    <3>1. \A t \in Threads : tpc[t] = "none" /\ m_vecSock[t] = <<>>
      BY <2>12, ThreadAt DEF StopAllClear, StopInv, Passed
    <3>2. m_vecThread' = <<>> /\ UNCHANGED <<tpc, m_vecSock>>
      BY <2>12 DEF StopAllClear, workVars
    <3>3. Threads' = {} /\ Len(m_vecThread') = 0
      BY <3>2 DEF Threads, ToSet
    <3> QED
      BY <3>1, <3>2, <3>3 DEF ThreadInv
  <2> QED
    BY <1>3, <2>4, <2>5, <2>6, <2>7, <2>8, <2>9, <2>10, <2>11, <2>12 DEF EnterStep, InsideStep
<1> QED
  BY <1>2, <1>3, StepCases

LEMMA StopStep ==
    ASSUME TypeOK, LockInv, WInv, ThreadInv, StopInv, [Next]_vars
    PROVE  StopInv'
<1>1. /\ upc \in [Caller -> Label] /\ w \in [Caller -> Worker \cup {NONE}]
      /\ tpc \in [Worker -> ThreadLabel] /\ m_vecSock \in [Worker -> Seq(Sock)]
      /\ Threads \subseteq Worker /\ Len(m_vecThread) \in Nat
      /\ \A k \in 1..Len(m_vecThread) : m_vecThread[k] \in Threads
  BY TypeFacts, ThreadAt DEF TypeOK
<1>2. CASE OtherStep
  BY <1>1, <1>2 DEF OtherStep, StopInv, Passed, Inside
<1>3. ASSUME NEW u \in Caller, EnterStep(u) \/ InsideStep(u) PROVE StopInv'
  <2> USE <1>1 DEF At, Goto
  <2>1. ASSUME NEW v \in Caller \ {u}
        PROVE  upc'[v] \notin Inside
    BY <1>3, <2>1, Alone
  <2>2. SUFFICES ASSUME upc'[u] \in {"stopall", "joinall"},
                        NEW k \in 1..Len(m_vecThread'), Passed(u, k)'
                 PROVE  tpc'[m_vecThread'[k]] = "none" /\ m_vecSock'[m_vecThread'[k]] = <<>>
    BY <2>1 DEF StopInv, Inside
  <2>3. CASE StopAll(u)
    <3>1. m_vecThread' = m_vecThread
      BY <2>3 DEF StopAll
    <3>2. w'[u] = m_vecThread[1] /\ w'[u] /= NONE /\ 1 \in 1..Len(m_vecThread)
      BY <2>2, <2>3, <3>1, FirstThread, Distinct DEF StopAll
    <3>3. PICK j \in 1..Len(m_vecThread) : k < j /\ w'[u] = m_vecThread[j]
      BY <2>2, <3>1, <3>2 DEF Passed
    <3>4. j = 1
      BY <3>2, <3>3 DEF ThreadInv
    <3> QED
      BY <3>1, <3>3, <3>4
  <2>4. CASE Delete(u)
    BY <2>2, <2>4 DEF Delete, StopInv, Passed
  <2>5. CASE StopAllJoin(u)
    <3> DEFINE t == w[u]
               q == Position(t)
    <3>1. t \in Threads
      BY <2>5 DEF StopAllJoin, WInv
    <3>2. q \in 1..Len(m_vecThread) /\ m_vecThread[q] = t
      BY <3>1, ThreadPosition
    <3>3. /\ m_vecThread' = m_vecThread /\ w'[u] = After(t) /\ upc[u] = "joinall"
          /\ tpc' = [tpc EXCEPT ![t] = "none"] /\ m_vecSock' = [m_vecSock EXCEPT ![t] = <<>>]
      BY <2>5 DEF StopAllJoin
    <3>4. \/ After(t) = NONE /\ q = Len(m_vecThread)
          \/ q + 1 \in 1..Len(m_vecThread) /\ After(t) = m_vecThread[q + 1]
      BY <3>1, NextThread
    <3> HIDE DEF q
    <3>5. k <= q
      <4>1. CASE After(t) = NONE /\ q = Len(m_vecThread)
        BY <3>3, <4>1
      <4>2. CASE q + 1 \in 1..Len(m_vecThread) /\ After(t) = m_vecThread[q + 1]
        <5>1. After(t) /= NONE
          BY <4>2, Distinct
        <5>2. PICK j \in 1..Len(m_vecThread) : k < j /\ w'[u] = m_vecThread[j]
          BY <2>2, <3>3, <5>1 DEF Passed
        <5>3. j = q + 1
          BY <3>3, <4>2, <5>2 DEF ThreadInv
        <5> QED
          BY <3>2, <3>3, <5>2, <5>3
      <4> QED
        BY <3>4, <4>1, <4>2
    <3>6. CASE k = q
      BY <3>1, <3>2, <3>3, <3>6
    <3>7. CASE k < q
      <4>1. tpc[m_vecThread[k]] = "none" /\ m_vecSock[m_vecThread[k]] = <<>>
        BY <3>2, <3>3, <3>7 DEF StopInv, Passed
      <4> QED
        BY <3>1, <3>3, <4>1
    <3> QED
      BY <3>2, <3>3, <3>5, <3>6, <3>7
  <2>6. CASE JoinLock(u) \/ LeaveLock(u) \/ Place(u) \/ NewThread(u) \/ Insert(u) \/ LeaveNotFound(u)
             \/ LeaveJoin(u) \/ StopAllClear(u)
    BY <2>2, <2>6 DEF JoinLock, LeaveLock, Place, NewThread, Insert, LeaveNotFound, LeaveJoin,
                      StopAllClear, Return
  <2>7. CASE LeaveRemove(u)
    BY <2>2, <2>7 DEF LeaveRemove, Return
  <2> QED
    BY <1>3, <2>3, <2>4, <2>5, <2>6, <2>7 DEF EnterStep, InsideStep
<1> QED
  BY <1>2, <1>3, StepCases

-----------------------------------------------------------------------------
(* Sockets: what Create and Close do to the descriptor table.              *)

LEMMA Opened ==
    ASSUME TypeOK, CreatedInv, NEW p \in Sock, NewSocket(p)
    PROVE  Open' = Open \cup {p} /\ p \notin Open /\ CreatedInv'
<1>1. PICK f \in FD : file[f] = NONE /\ file' = [file EXCEPT ![f] = p] /\ fd' = [fd EXCEPT ![p] = f]
  BY DEF NewSocket
<1>2. fd \in [Sock -> FD \cup {-1}] /\ file \in [FD -> Sock \cup {NONE}] /\ NONE \notin Sock /\ f /= -1
  BY Distinct, Bounds DEF TypeOK, FD, Sock
<1>3. PICK n \in 0..MaxJoins : Created = 1..n
  BY DEF CreatedInv
<1>4. Cardinality(Created) = n
  BY <1>3, FS_Interval
<1>5. p = n + 1 /\ n + 1 \in 0..MaxJoins /\ p \notin Created
  BY <1>3, <1>4, Bounds DEF NewSocket, Sock
<1>6. Created' = Created \cup {p}
  BY <1>1, <1>2 DEF Created
<1>7. Created' = 1..(n + 1)
  BY <1>3, <1>5, <1>6
<1>8. fd[p] = -1 /\ p \notin Open
  BY <1>5 DEF Open, Created
<1>9. ASSUME NEW q \in Sock PROVE q \in Open' <=> q \in Open \cup {p}
  <2>1. CASE q = p
    BY <1>1, <1>2, <1>6, <2>1 DEF Open
  <2>2. CASE q /= p
    BY <1>1, <1>2, <1>6, <2>2 DEF Open, Created
  <2> QED
    BY <2>1, <2>2
<1> QED
  BY <1>5, <1>7, <1>8, <1>9 DEF CreatedInv, Open, Created

LEMMA Closed ==
    ASSUME TypeOK, NEW S \in SUBSET Sock, CloseAll(S), fd' = fd
    PROVE  Open' = Open \ S
<1>1. fd \in [Sock -> FD \cup {-1}] /\ NONE \notin Sock
  BY Distinct DEF TypeOK, Sock
<1>2. ASSUME NEW p \in Created PROVE file'[fd[p]] = p <=> file[fd[p]] = p /\ p \notin S
  BY <1>1 DEF CloseAll, Created
<1>3. Created' = Created
  BY DEF Created
<1> QED
  BY <1>2, <1>3 DEF Open

-----------------------------------------------------------------------------
(* Sockets: who has them.                                                  *)

SameHands(us) ==
    \A u \in us : /\ upc'[u] \in Hands <=> upc[u] \in Hands
                  /\ upc[u] \in Hands => sock'[u] = sock[u]

LEMMA NothingMoves ==
    ASSUME OpenInv, OneHolder, Held, UNCHANGED <<m_vecSock, m_sock>>, Open' = Open, SameHands(Caller)
    PROVE  OpenInv' /\ OneHolder' /\ Held'
<1>1. OpenInv'
  BY DEF OpenInv, SameHands
<1>2. OneHolder'
  BY DEF OneHolder, SameHands
<1>3. Held'
  BY DEF Held, SameHands
<1> QED
  BY <1>1, <1>2, <1>3

LEMMA HandTakes ==
    ASSUME OpenInv, OneHolder, Held, UNCHANGED <<m_vecSock, m_sock>>, NEW p, Open' = Open \cup {p}, p \notin Open,
           p /= NONE, NEW u \in Caller, upc[u] \notin Hands, upc'[u] \in Hands, sock'[u] = p, SameHands(Caller \ {u})
    PROVE  OpenInv' /\ OneHolder' /\ Held'
<1>1. OpenInv'
  BY DEF OpenInv, SameHands
<1>2. OneHolder'
  BY DEF OneHolder, OpenInv, SameHands
<1>3. Held'
  BY DEF Held, SameHands
<1> QED
  BY <1>1, <1>2, <1>3

LEMMA HandDrops ==
    ASSUME OpenInv, OneHolder, Held, UNCHANGED <<m_vecSock, m_sock>>, NEW u \in Caller, Open' = Open \ {sock[u]},
           upc[u] \in Hands, upc'[u] \notin Hands, SameHands(Caller \ {u})
    PROVE  OpenInv' /\ OneHolder' /\ Held'
<1>1. OpenInv'
  BY DEF OpenInv, OneHolder, SameHands
<1>2. OneHolder'
  BY DEF OneHolder, SameHands
<1>3. Held'
  BY DEF Held, SameHands
<1> QED
  BY <1>1, <1>2, <1>3

LEMMA SenderDrops ==
    ASSUME OpenInv, OneHolder, Held, m_vecSock' = m_vecSock, m_sock' = NONE, NONE \notin Open, Open' = Open \ {m_sock},
           SameHands(Caller)
    PROVE  OpenInv' /\ OneHolder' /\ Held'
<1>1. OpenInv'
  BY DEF OpenInv, OneHolder, SameHands
<1>2. OneHolder'
  BY DEF OneHolder, OpenInv, SameHands
<1>3. Held'
  BY DEF Held, SameHands
<1> QED
  BY <1>1, <1>2, <1>3

LEMMA SenderTakes ==
    ASSUME OpenInv, OneHolder, Held, m_vecSock' = m_vecSock, m_sock = NONE, NEW p, m_sock' = p, p \notin Open,
           Open' = Open \cup {p}, NONE \notin Open, SameHands(Caller)
    PROVE  OpenInv' /\ OneHolder' /\ Held'
<1>1. OpenInv'
  BY DEF OpenInv, SameHands
<1>2. OneHolder'
  BY DEF OneHolder, OpenInv, SameHands
<1>3. Held'
  BY DEF Held, SameHands
<1> QED
  BY <1>1, <1>2, <1>3

(* Insert: from the hand into a vector.                                    *)
LEMMA VectorTakes ==
    ASSUME OpenInv, OneHolder, Held, m_vecSock \in [Worker -> Seq(Sock)], NEW u \in Caller, NEW t \in Worker,
           sock[u] \in Sock, m_vecSock' = [m_vecSock EXCEPT ![t] = Append(@, sock[u])], m_sock' = m_sock, Open' = Open,
           upc[u] \in Hands, upc'[u] \notin Hands, SameHands(Caller \ {u})
    PROVE  OpenInv' /\ OneHolder' /\ Held'
<1> DEFINE s == m_vecSock[t]
           n == Len(s)
<1>1. n \in Nat /\ s \in Seq(Sock) /\ \A x \in Worker : Len(m_vecSock[x]) \in Nat
  BY LenProperties
<1>2. /\ Len(m_vecSock'[t]) = n + 1 /\ m_vecSock'[t][n + 1] = sock[u]
      /\ \A k \in 1..n : m_vecSock'[t][k] = s[k]
      /\ \A x \in Worker \ {t} : m_vecSock'[x] = m_vecSock[x]
  BY <1>1, AppendProperties
<1> HIDE DEF n
<1>3. ASSUME NEW x \in Worker, NEW k \in 1..Len(m_vecSock'[x])
      PROVE  \/ x = t /\ k = n + 1 /\ m_vecSock'[x][k] = sock[u]
             \/ k \in 1..Len(m_vecSock[x]) /\ m_vecSock'[x][k] = m_vecSock[x][k]
  BY <1>1, <1>2 DEF n
<1>4. ASSUME NEW x \in Worker, NEW k \in 1..Len(m_vecSock[x])
      PROVE  k \in 1..Len(m_vecSock'[x]) /\ m_vecSock'[x][k] = m_vecSock[x][k]
  BY <1>1, <1>2 DEF n
<1>5. OpenInv'
  BY <1>3 DEF OpenInv, SameHands
<1>6. OneHolder'
  <2>1. ASSUME NEW x \in Worker, NEW y \in Worker, NEW k \in 1..Len(m_vecSock'[x]),
               NEW j \in 1..Len(m_vecSock'[y]),
               m_vecSock'[x][k] = m_vecSock'[y][j]
        PROVE  x = y /\ k = j
    BY <1>3, <2>1 DEF OneHolder
  <2>2. ASSUME NEW x \in Worker, NEW k \in 1..Len(m_vecSock'[x])
        PROVE  /\ m_vecSock'[x][k] /= m_sock'
               /\ \A v \in Caller : upc'[v] \in Hands => m_vecSock'[x][k] /= sock'[v]
    <3>1. CASE m_vecSock'[x][k] = sock[u]
      BY <3>1 DEF OneHolder, SameHands
    <3>2. CASE k \in 1..Len(m_vecSock[x]) /\ m_vecSock'[x][k] = m_vecSock[x][k]
      <4>1. /\ m_vecSock[x][k] /= m_sock
            /\ \A v \in Caller : upc[v] \in Hands => m_vecSock[x][k] /= sock[v]
        BY <3>2 DEF OneHolder
      <4>2. \A v \in Caller : upc'[v] \in Hands => upc[v] \in Hands /\ sock'[v] = sock[v]
        BY DEF SameHands
      <4> QED
        BY <3>2, <4>1, <4>2
    <3> QED
      BY <1>3, <3>1, <3>2
  <2>3. /\ \A v \in Caller : upc'[v] \in Hands => sock'[v] /= m_sock'
        /\ \A v, v2 \in Caller : upc'[v] \in Hands /\ upc'[v2] \in Hands /\ sock'[v] = sock'[v2] => v = v2
    BY DEF OneHolder, SameHands
  <2> QED
    BY <2>1, <2>2, <2>3 DEF OneHolder
<1>7. Held'
  <2>1. n + 1 \in 1..Len(m_vecSock'[t])
    BY <1>1, <1>2 DEF n
  <2>2. ASSUME NEW p \in Open', p /= m_sock', ~\E v \in Caller : upc'[v] \in Hands /\ sock'[v] = p
        PROVE  \E x \in Worker : \E k \in 1..Len(m_vecSock'[x]) : m_vecSock'[x][k] = p
    <3>1. CASE p = sock[u]
      BY <1>2, <2>1, <3>1
    <3>2. CASE p /= sock[u]
      <4>1. ~\E v \in Caller : upc[v] \in Hands /\ sock[v] = p
        BY <2>2, <3>2 DEF SameHands
      <4>2. PICK x \in Worker : \E k \in 1..Len(m_vecSock[x]) : m_vecSock[x][k] = p
        BY <2>2, <4>1 DEF Held
      <4> QED
        BY <1>4, <4>2
    <3> QED
      BY <3>1, <3>2
  <2> QED
    BY <2>2 DEF Held
<1> QED
  BY <1>5, <1>6, <1>7

(* LeaveRemove and StopAllJoin: out of a vector and closed.                *)
LEMMA VectorDrops ==
    ASSUME OpenInv, OneHolder, Held, m_vecSock \in [Worker -> Seq(Sock)], NEW t \in Worker,
           NEW k \in 1..Len(m_vecSock[t]), m_vecSock' = [m_vecSock EXCEPT ![t] = RemoveAt(@, k)],
           m_sock' = m_sock, Open' = Open \ {m_vecSock[t][k]}, SameHands(Caller)
    PROVE  OpenInv' /\ OneHolder' /\ Held'
<1> DEFINE s == m_vecSock[t]
           n == Len(s)
           From(x, j) == IF x = t /\ j >= k THEN j + 1 ELSE j
<1>1. n \in Nat /\ s \in Seq(Sock) /\ \A x \in Worker : Len(m_vecSock[x]) \in Nat
  BY LenProperties
<1>2. /\ Len(m_vecSock'[t]) = n - 1
      /\ \A j \in 1..(n - 1) : m_vecSock'[t][j] = IF j < k THEN s[j] ELSE s[j + 1]
      /\ \A x \in Worker \ {t} : m_vecSock'[x] = m_vecSock[x]
  BY <1>1, RemovedAt
<1>3. ASSUME NEW x \in Worker, NEW j \in 1..Len(m_vecSock'[x])
      PROVE  /\ From(x, j) \in 1..Len(m_vecSock[x]) /\ m_vecSock'[x][j] = m_vecSock[x][From(x, j)]
             /\ x = t => From(x, j) /= k
  BY <1>1, <1>2
<1>4. ASSUME NEW x \in Worker, NEW j \in 1..Len(m_vecSock[x]), m_vecSock[x][j] /= s[k]
      PROVE  \E l \in 1..Len(m_vecSock'[x]) : m_vecSock'[x][l] = m_vecSock[x][j]
  <2>1. CASE x /= t
    BY <1>2, <2>1
  <2>2. CASE x = t /\ j < k
    <3>1. j \in 1..Len(m_vecSock'[x]) /\ m_vecSock'[x][j] = m_vecSock[x][j]
      BY <1>1, <1>2, <2>2
    <3> QED
      BY <3>1
  <2>3. CASE x = t /\ j > k
    <3>1. j - 1 \in 1..Len(m_vecSock'[x]) /\ m_vecSock'[x][j - 1] = m_vecSock[x][j]
      BY <1>1, <1>2, <2>3
    <3> QED
      BY <3>1
  <2> QED
    BY <1>1, <1>4, <2>1, <2>2, <2>3
<1>5. OpenInv'
  <2>1. ASSUME NEW x \in Worker, NEW j \in 1..Len(m_vecSock'[x]) PROVE m_vecSock'[x][j] \in Open'
    <3>1. m_vecSock[x][From(x, j)] \in Open
      BY <1>3 DEF OpenInv
    <3>2. m_vecSock[x][From(x, j)] /= s[k]
      BY <1>3 DEF OneHolder
    <3> QED
      BY <1>3, <3>1, <3>2
  <2> QED
    BY <2>1 DEF OpenInv, OneHolder, SameHands
<1>6. OneHolder'
  <2>1. ASSUME NEW x \in Worker, NEW y \in Worker, NEW l \in 1..Len(m_vecSock'[x]), NEW j \in 1..Len(m_vecSock'[y]),
               m_vecSock'[x][l] = m_vecSock'[y][j]
        PROVE  x = y /\ l = j
    <3>1. x = y /\ From(x, l) = From(y, j)
      <4>1. From(x, l) \in 1..Len(m_vecSock[x]) /\ m_vecSock'[x][l] = m_vecSock[x][From(x, l)]
        BY <1>3
      <4>2. From(y, j) \in 1..Len(m_vecSock[y]) /\ m_vecSock'[y][j] = m_vecSock[y][From(y, j)]
        BY <1>3
      <4> HIDE DEF From
      <4> QED
        BY <2>1, <4>1, <4>2 DEF OneHolder
    <3>2. l \in Int /\ j \in Int /\ k \in Int
      OBVIOUS
    <3> QED
      BY <3>1, <3>2
  <2>2. ASSUME NEW x \in Worker, NEW j \in 1..Len(m_vecSock'[x])
        PROVE  /\ m_vecSock'[x][j] /= m_sock'
               /\ \A v \in Caller : upc'[v] \in Hands => m_vecSock'[x][j] /= sock'[v]
    BY <1>3 DEF OneHolder, SameHands
  <2>3. /\ \A v \in Caller : upc'[v] \in Hands => sock'[v] /= m_sock'
        /\ \A v, v2 \in Caller : upc'[v] \in Hands /\ upc'[v2] \in Hands /\ sock'[v] = sock'[v2] => v = v2
    BY DEF OneHolder, SameHands
  <2> QED
    BY <2>1, <2>2, <2>3 DEF OneHolder
<1>7. Held'
  <2>1. ASSUME NEW p \in Open', p /= m_sock', ~\E v \in Caller : upc'[v] \in Hands /\ sock'[v] = p
        PROVE  \E x \in Worker : \E l \in 1..Len(m_vecSock'[x]) : m_vecSock'[x][l] = p
    <3>1. p \in Open /\ p /= s[k] /\ ~\E v \in Caller : upc[v] \in Hands /\ sock[v] = p
      BY <2>1 DEF SameHands
    <3>2. PICK x \in Worker : \E j \in 1..Len(m_vecSock[x]) : m_vecSock[x][j] = p
      BY <2>1, <3>1 DEF Held
    <3> QED
      BY <1>4, <3>1, <3>2
  <2> QED
    BY <2>1 DEF Held
<1> QED
  BY <1>5, <1>6, <1>7

LEMMA VectorEmptied ==
    ASSUME OpenInv, OneHolder, Held, m_vecSock \in [Worker -> Seq(Sock)], NEW t \in Worker,
           m_vecSock' = [m_vecSock EXCEPT ![t] = <<>>],
           m_sock' = m_sock, Open' = Open \ ToSet(m_vecSock[t]), SameHands(Caller)
    PROVE  OpenInv' /\ OneHolder' /\ Held'
<1>1. Len(m_vecSock'[t]) = 0 /\ \A x \in Worker \ {t} : m_vecSock'[x] = m_vecSock[x]
  OBVIOUS
<1>2. \A p : p \in ToSet(m_vecSock[t]) <=> \E k \in 1..Len(m_vecSock[t]) : m_vecSock[t][k] = p
  BY InVector
<1>3. ASSUME NEW x \in Worker, NEW j \in 1..Len(m_vecSock'[x])
      PROVE  x /= t /\ j \in 1..Len(m_vecSock[x]) /\ m_vecSock'[x][j] = m_vecSock[x][j]
  BY <1>1
<1>4. OpenInv'
  <2>1. ASSUME NEW x \in Worker, NEW j \in 1..Len(m_vecSock'[x]) PROVE m_vecSock'[x][j] \in Open'
    <3>1. x /= t /\ j \in 1..Len(m_vecSock[x]) /\ m_vecSock'[x][j] = m_vecSock[x][j]
      BY <1>3
    <3>2. m_vecSock[x][j] \in Open /\ \A k \in 1..Len(m_vecSock[t]) : m_vecSock[t][k] /= m_vecSock[x][j]
      BY <3>1 DEF OpenInv, OneHolder
    <3> QED
      BY <1>2, <3>1, <3>2
  <2>2. m_sock /= NONE => m_sock' \in Open'
    BY <1>2 DEF OpenInv, OneHolder
  <2>3. ASSUME NEW u \in Caller, upc'[u] \in Hands PROVE sock'[u] \in Open'
    <3>1. upc[u] \in Hands /\ sock'[u] = sock[u]
      BY <2>3 DEF SameHands
    <3>2. sock[u] \in Open /\ \A k \in 1..Len(m_vecSock[t]) : m_vecSock[t][k] /= sock[u]
      BY <3>1 DEF OpenInv, OneHolder
    <3> QED
      BY <1>2, <3>1, <3>2
  <2> QED
    BY <2>1, <2>2, <2>3 DEF OpenInv
<1>5. OneHolder'
  BY <1>3 DEF OneHolder, SameHands
<1>6. Held'
  BY <1>1, <1>2 DEF Held, SameHands
<1> QED
  BY <1>4, <1>5, <1>6

-----------------------------------------------------------------------------
LEMMA SockStep ==
    ASSUME TypeOK, WInv, SockInv, [Next]_vars
    PROVE  SockInv'
<1>1. /\ upc \in [Caller -> Label] /\ sock \in [Caller -> Sock \cup {NONE}] /\ w \in [Caller -> Worker \cup {NONE}]
      /\ m_vecSock \in [Worker -> Seq(Sock)] /\ Threads \subseteq Worker
      /\ NONE \notin Sock /\ NONE \notin Open /\ Open \subseteq Sock /\ User \subseteq Caller
  BY TypeFacts, ThreadAt, Distinct DEF TypeOK, Sock, Open, Created
<1> USE <1>1 DEF At
<1>2. CreatedInv /\ OpenInv /\ OneHolder /\ Held /\ SendInv
  BY DEF SockInv
<1>3. ASSUME UNCHANGED <<m_vecSock, m_sock, fd, file>>, SameHands(Caller),
             \A u \in Caller : upc'[u] = "setsend" => upc[u] = "setsend"
      PROVE  SockInv'
  <2>1. Open' = Open /\ Created' = Created
    BY <1>3 DEF Open, Created
  <2>2. OpenInv' /\ OneHolder' /\ Held'
    BY <1>2, <1>3, <2>1, NothingMoves
  <2> QED
    BY <1>2, <1>3, <2>1, <2>2 DEF SockInv, CreatedInv, SendInv
<1>4. ASSUME NEW u \in Caller, Create(u) \/ SendTo(u) PROVE SockInv'
  <2>1. PICK p \in Sock : NewSocket(p) /\ sock' = [sock EXCEPT ![u] = p]
    BY <1>4 DEF Create, SendTo
  <2>2. Open' = Open \cup {p} /\ p \notin Open /\ CreatedInv'
    BY <1>2, <2>1, Opened
  <2>3. /\ UNCHANGED <<m_vecSock, m_sock>> /\ upc[u] \notin Hands /\ upc'[u] \in Hands /\ upc'[u] /= "setsend"
        /\ \A v \in Caller \ {u} : upc'[v] = upc[v]
    BY <1>4 DEF Create, SendTo, Begin, Hands
  <2>4. SameHands(Caller \ {u}) /\ sock'[u] = p
    BY <2>1, <2>3 DEF SameHands
  <2>5. OpenInv' /\ OneHolder' /\ Held'
    BY <1>2, <2>2, <2>3, <2>4, HandTakes
  <2> QED
    BY <1>2, <2>2, <2>3, <2>5 DEF SockInv, SendInv
<1>5. ASSUME NEW u \in Caller, BindFailure(u) \/ SendToReturn(u) PROVE SockInv'
  <2>1. /\ CloseAll({sock[u]}) /\ upc[u] \in Hands /\ upc'[u] = "idle"
        /\ \A v \in Caller \ {u} : upc'[v] = upc[v] /\ sock'[v] = sock[v]
        /\ UNCHANGED <<m_vecSock, m_sock, fd>>
    BY <1>5 DEF BindFailure, SendToReturn, Hands
  <2>2. sock[u] \in Sock
    BY <1>2, <2>1 DEF OpenInv
  <2>3. Open' = Open \ {sock[u]} /\ Created' = Created
    BY <2>1, <2>2, Closed DEF Created
  <2>4. SameHands(Caller \ {u}) /\ upc'[u] \notin Hands
    BY <2>1 DEF SameHands, Hands
  <2>5. OpenInv' /\ OneHolder' /\ Held'
    BY <1>2, <2>1, <2>3, <2>4, HandDrops
  <2> QED
    BY <1>2, <2>1, <2>3, <2>5 DEF SockInv, CreatedInv, SendInv
<1>6. ASSUME NEW u \in Caller, Insert(u) PROVE SockInv'
  <2>1. w[u] \in Worker /\ upc[u] \in Hands /\ sock[u] \in Sock
    BY <1>2, <1>6 DEF Insert, WInv, OpenInv, Hands
  <2>2. /\ m_vecSock' = [m_vecSock EXCEPT ![w[u]] = Append(@, sock[u])] /\ UNCHANGED <<m_sock, fd, file>>
        /\ upc'[u] = "idle" /\ \A v \in Caller \ {u} : upc'[v] = upc[v] /\ sock'[v] = sock[v]
    BY <1>6 DEF Insert
  <2>3. Open' = Open /\ Created' = Created
    BY <2>2 DEF Open, Created
  <2>4. SameHands(Caller \ {u}) /\ upc'[u] \notin Hands
    BY <2>2 DEF SameHands, Hands
  <2>5. OpenInv' /\ OneHolder' /\ Held'
    BY <1>2, <2>1, <2>2, <2>3, <2>4, VectorTakes
  <2> QED
    BY <1>2, <2>2, <2>3, <2>5 DEF SockInv, CreatedInv, SendInv
<1>7. ASSUME NEW u \in Caller, LeaveRemove(u) PROVE SockInv'
  <2>1. w[u] \in Worker /\ upc[u] = "remove" /\ UNCHANGED <<m_sock, fd>>
    BY <1>7 DEF LeaveRemove, WInv
  <2>2. CASE w' = [w EXCEPT ![u] = After(w[u])] /\ UNCHANGED <<m_cs, m_vecSock, upc, sock, file, pending>>
    BY <1>3, <2>1, <2>2 DEF SameHands
  <2>3. ASSUME NEW k \in 1..Len(m_vecSock[w[u]]), Removes(u, k) PROVE SockInv'
    <3>1. /\ CloseAll({m_vecSock[w[u]][k]})
          /\ m_vecSock' = [m_vecSock EXCEPT ![w[u]] = RemoveAt(@, k)]
      BY <2>3 DEF Removes
    <3>2. /\ upc'[u] \in {"delete", "idle"}
          /\ \A v \in Caller \ {u} : upc'[v] = upc[v] /\ sock'[v] = sock[v]
      BY <2>3 DEF Removes, Return
    <3>3. m_vecSock[w[u]][k] \in Sock
      BY <2>1, <1>2 DEF OpenInv
    <3>4. Open' = Open \ {m_vecSock[w[u]][k]} /\ Created' = Created
      BY <2>1, <3>1, <3>3, Closed DEF Created
    <3>5. SameHands(Caller)
      BY <2>1, <3>2 DEF SameHands, Hands
    <3>6. OpenInv' /\ OneHolder' /\ Held'
      BY <1>2, <2>1, <3>1, <3>4, <3>5, VectorDrops
    <3> QED
      BY <1>2, <2>1, <3>2, <3>4, <3>6 DEF SockInv, CreatedInv, SendInv
  <2> QED
    BY <1>2, <1>7, <2>1, <2>2, <2>3, Removal
<1>8. ASSUME NEW u \in Caller, StopAllJoin(u) PROVE SockInv'
  <2>1. w[u] \in Worker /\ upc[u] = "joinall" /\ UNCHANGED <<m_sock, fd>>
    BY <1>8 DEF StopAllJoin, WInv
  <2>2. /\ CloseAll(ToSet(m_vecSock[w[u]])) /\ m_vecSock' = [m_vecSock EXCEPT ![w[u]] = <<>>]
        /\ upc'[u] = "stopall" /\ sock' = sock /\ \A v \in Caller \ {u} : upc'[v] = upc[v]
    BY <1>8 DEF StopAllJoin
  <2>3. ToSet(m_vecSock[w[u]]) \subseteq Sock
    <3>1. \A p \in ToSet(m_vecSock[w[u]]) : \E k \in 1..Len(m_vecSock[w[u]]) : m_vecSock[w[u]][k] = p
      BY <2>1, InVector
    <3> QED
      BY <1>2, <2>1, <3>1 DEF OpenInv
  <2>4. Open' = Open \ ToSet(m_vecSock[w[u]]) /\ Created' = Created
    BY <2>1, <2>2, <2>3, Closed DEF Created
  <2>5. SameHands(Caller)
    BY <2>1, <2>2 DEF SameHands, Hands
  <2>6. OpenInv' /\ OneHolder' /\ Held'
    BY <1>2, <2>1, <2>2, <2>4, <2>5, VectorEmptied
  <2> QED
    BY <1>2, <2>1, <2>2, <2>4, <2>6 DEF SockInv, CreatedInv, SendInv
<1>9. ASSUME NEW u \in User, SetSendInfo(u) PROVE SockInv'
  <2>1. /\ u = Sender /\ m_sock' = NONE /\ upc[u] = "idle" /\ upc' = [upc EXCEPT ![u] = "setsend"]
        /\ UNCHANGED <<m_vecSock, sock, fd>>
    BY <1>9 DEF SetSendInfo
  <2>2. Open' = Open \ {m_sock} /\ Created' = Created
    <3>1. CASE m_sock = NONE
      BY <1>9, <2>1, <3>1 DEF SetSendInfo, Open, Created
    <3>2. CASE m_sock /= NONE
      <4>1. {m_sock} \in SUBSET Sock /\ CloseAll({m_sock})
        BY <1>2, <1>9, <3>2 DEF SetSendInfo, OpenInv
      <4> QED
        BY <2>1, <4>1, Closed DEF Created
    <3> QED
      BY <3>1, <3>2
  <2>3. SameHands(Caller)
    BY <2>1 DEF SameHands, Hands
  <2>4. OpenInv' /\ OneHolder' /\ Held'
    BY <1>2, <2>1, <2>2, <2>3, SenderDrops
  <2> QED
    BY <1>2, <2>1, <2>2, <2>4 DEF SockInv, CreatedInv, SendInv
<1>10. ASSUME NEW u \in Caller, SetSendCreate(u) PROVE SockInv'
  <2>1. /\ upc[u] = "setsend" /\ u = Sender /\ m_sock = NONE /\ upc' = [upc EXCEPT ![u] = "idle"]
        /\ UNCHANGED <<m_vecSock, sock>>
    BY <1>2, <1>10 DEF SetSendCreate, SendInv
  <2>2. SameHands(Caller)
    BY <2>1 DEF SameHands, Hands
  <2>3. CASE UNCHANGED <<m_sock, fd, file>>
    BY <1>3, <2>1, <2>2, <2>3
  <2>4. ASSUME NEW p \in Sock, NewSocket(p), m_sock' = p PROVE SockInv'
    <3>1. Open' = Open \cup {p} /\ p \notin Open /\ CreatedInv'
      BY <1>2, <2>4, Opened
    <3>2. OpenInv' /\ OneHolder' /\ Held'
      BY <1>2, <2>1, <2>2, <2>4, <3>1, SenderTakes
    <3>3. SendInv'
      BY <1>2, <2>1 DEF SendInv
    <3> QED
      BY <3>1, <3>2, <3>3 DEF SockInv
  <2> QED
    BY <1>10, <2>3, <2>4 DEF SetSendCreate
<1>11. ASSUME NEW u \in Caller, JoinLock(u) \/ Place(u) \/ NewThread(u) PROVE SockInv'
  <2>1. /\ UNCHANGED <<m_vecSock, m_sock, fd, file, sock>> /\ upc[u] \in Hands /\ upc'[u] \in {"place", "insert"}
        /\ \A v \in Caller \ {u} : upc'[v] = upc[v]
    BY <1>11 DEF JoinLock, Place, NewThread, descVars, Hands
  <2> QED
    BY <1>3, <2>1 DEF SameHands, Hands
<1>12. ASSUME NEW u \in Caller, LeaveCall(u) \/ LeaveLock(u) \/ LeaveNotFound(u) \/ Delete(u) \/ LeaveJoin(u)
              \/ StopAll(u) \/ StopAllClear(u)
       PROVE  SockInv'
  <2>1. /\ UNCHANGED <<m_vecSock, m_sock, fd, file>> /\ upc[u] \notin Hands /\ upc'[u] \notin Hands \cup {"setsend"}
        /\ \A v \in Caller \ {u} : upc'[v] = upc[v] /\ sock'[v] = sock[v]
    BY <1>12 DEF LeaveCall, Begin, LeaveLock, LeaveNotFound, Delete, LeaveJoin, StopAll, StopAllClear, Return,
                 descVars, Hands
  <2> QED
    BY <1>3, <2>1 DEF SameHands
<1>13. ASSUME (\E p \in Sock : Arrive(p)) \/ (\E t \in Worker : Routine(t)) \/ UNCHANGED vars
       PROVE  SockInv'
  <2>1. UNCHANGED <<m_vecSock, m_sock, fd, file, upc, sock>>
    BY <1>13 DEF Arrive, vars, userVars, descVars, Routine, Top, Build, SelectEnter, SelectReturn, SelectTimeout,
                 Lock, Scan, ScanEnd, Recv, Callback
  <2> QED
    BY <1>3, <2>1 DEF SameHands
<1> QED
  BY <1>4, <1>5, <1>6, <1>7, <1>8, <1>9, <1>10, <1>11, <1>12, <1>13 DEF Next, Proceed

-----------------------------------------------------------------------------
(* No vector has more sockets than there are.                              *)
LEMMA VectorsFit ==
    ASSUME TypeOK, OneHolder, NEW t \in Worker
    PROVE  Len(m_vecSock[t]) \in Nat /\ Len(m_vecSock[t]) <= MaxJoins
<1> DEFINE n == Len(m_vecSock[t])
<1>1. m_vecSock[t] \in Seq(Sock) /\ n \in Nat /\ m_vecSock[t] \in [1..n -> Sock]
  BY LenProperties DEF TypeOK
<1>2. \A k, j \in 1..n : m_vecSock[t][k] = m_vecSock[t][j] => k = j
  BY DEF OneHolder
<1>3. m_vecSock[t] \in Injection(1..n, Sock)
  BY <1>1, <1>2 DEF Injection, IsInjective
<1>4. IsFiniteSet(Sock) /\ Cardinality(Sock) = MaxJoins
  BY FS_Interval, Bounds DEF Sock
<1>5. Cardinality(1..n) <= Cardinality(Sock)
  BY <1>3, <1>4, FS_Injection
<1>6. Cardinality(1..n) = n
  BY <1>1, FS_Interval
<1> QED
  BY <1>1, <1>4, <1>5, <1>6

LEMMA BoundStep ==
    ASSUME TypeOK, WInv, OpenInv, OneHolder, SocketsBounded, [Next]_vars
    PROVE  SocketsBounded'
<1>1. /\ m_vecSock \in [Worker -> Seq(Sock)] /\ Threads \subseteq Worker
      /\ \A t \in Worker : Len(m_vecSock[t]) \in Nat
  BY ThreadAt, LenProperties DEF TypeOK
<1>2. CASE m_vecSock' = m_vecSock
  BY <1>2 DEF SocketsBounded
<1>3. ASSUME NEW u \in Caller, Insert(u) PROVE SocketsBounded'
  <2> DEFINE t == w[u]
  <2>1. t \in Worker /\ sock[u] \in Sock /\ (HasRoom(t) \/ m_vecSock[t] = <<>>)
    BY <1>1, <1>3 DEF Insert, WInv, OpenInv, Hands, Open, Created
  <2>2. m_vecSock' = [m_vecSock EXCEPT ![t] = Append(@, sock[u])]
    BY <1>3 DEF Insert
  <2>3. Len(m_vecSock'[t]) = Len(m_vecSock[t]) + 1
    BY <1>1, <2>1, <2>2, AppendProperties
  <2>4. HasRoom(t) => Len(m_vecSock[t]) + 1 <= nMaxSockPerThread
    <3>1. nMaxSockPerThread % 65 \in Nat
      BY SocketsPerThread
    <3>2. nMaxSockPerThread % 65 <= nMaxSockPerThread
      BY SocketsPerThread
    <3>3. Len(m_vecSock[t]) \in Nat
      BY <1>1, <2>1
    <3> HIDE DEF t
    <3> QED
      BY <3>1, <3>2, <3>3, SocketsPerThread DEF HasRoom, m_nMaxSockPerThread
  <2>5. m_vecSock[t] = <<>> => Len(m_vecSock[t]) = 0
    OBVIOUS
  <2> HIDE DEF t
  <2>6. \A x \in Worker \ {t} : m_vecSock'[x] = m_vecSock[x]
    BY <1>1, <2>1, <2>2
  <2>7. Len(m_vecSock'[t]) <= nMaxSockPerThread \/ Len(m_vecSock'[t]) <= 1
    BY <2>1, <2>3, <2>4, <2>5
  <2> QED
    BY <2>6, <2>7 DEF SocketsBounded
<1>4. ASSUME NEW u \in Caller, LeaveRemove(u) PROVE SocketsBounded'
  <2>1. w[u] \in Worker
    BY <1>1, <1>4 DEF LeaveRemove, WInv
  <2>2. ASSUME NEW k \in 1..Len(m_vecSock[w[u]]), Removes(u, k) PROVE SocketsBounded'
    <3>1. Len(RemoveAt(m_vecSock[w[u]], k)) = Len(m_vecSock[w[u]]) - 1
      BY <1>1, <2>1, RemovedAt
    <3>2. m_vecSock' = [m_vecSock EXCEPT ![w[u]] = RemoveAt(@, k)]
      BY <2>2 DEF Removes
    <3> QED
      BY <1>1, <2>1, <3>1, <3>2, SocketsPerThread DEF SocketsBounded
  <2> QED
    BY <1>2, <1>4, <2>1, <2>2, Removal
<1>5. ASSUME NEW u \in Caller, StopAllJoin(u) PROVE SocketsBounded'
  <2>1. m_vecSock' = [m_vecSock EXCEPT ![w[u]] = <<>>]
    BY <1>5 DEF StopAllJoin
  <2> QED
    BY <1>1, <2>1 DEF SocketsBounded
<1>6. ASSUME NEW u \in Caller,
             Create(u) \/ LeaveCall(u) \/ SendTo(u) \/ BindFailure(u) \/ JoinLock(u) \/ Place(u) \/ NewThread(u)
             \/ LeaveLock(u) \/ LeaveNotFound(u) \/ Delete(u) \/ LeaveJoin(u) \/ StopAllClear(u)
             \/ SendToReturn(u) \/ SetSendCreate(u) \/ StopAll(u) \/ SetSendInfo(u)
      PROVE  m_vecSock' = m_vecSock
  BY <1>6 DEF Create, LeaveCall, SendTo, BindFailure, JoinLock, Place, NewThread, LeaveLock, LeaveNotFound, Delete,
              LeaveJoin, StopAllClear, SendToReturn, SetSendCreate, StopAll, SetSendInfo
<1>7. ASSUME (\E p \in Sock : Arrive(p)) \/ (\E t \in Worker : Routine(t)) \/ UNCHANGED vars
      PROVE  m_vecSock' = m_vecSock
  BY <1>7 DEF Arrive, vars, Routine, Top, Build, SelectEnter, SelectReturn, SelectTimeout, Lock, Scan, ScanEnd,
              Recv, Callback
<1> QED
  BY <1>2, <1>3, <1>4, <1>5, <1>6, <1>7, TypeFacts DEF Next, Proceed

LEMMA IndexStep ==
    ASSUME TypeOK, OwnInv, WInv, ThreadInv, OpenInv, OneHolder, IndexInv, [Next]_vars
    PROVE  IndexInv'
<1>1. /\ m_vecSock \in [Worker -> Seq(Sock)] /\ Threads \subseteq Worker /\ i \in [Worker -> 1..(MaxJoins + 1)]
      /\ tpc \in [Worker -> ThreadLabel] /\ MaxJoins \in Nat
      /\ \A t \in Worker : Len(m_vecSock[t]) \in Nat /\ Len(m_vecSock[t]) <= MaxJoins
  BY ThreadAt, VectorsFit, Bounds DEF TypeOK
<1> DEFINE Busy == {"recv", "callback"}
<1> USE <1>1 DEF Goto
<1>2. ASSUME i' = i,
             \A t \in Worker : /\ tpc'[t] \in Busy => tpc[t] \in Busy
                               /\ tpc'[t] = "called" => tpc[t] \in Busy \cup {"called"}
                               /\ tpc[t] \in Busy => m_vecSock'[t] = m_vecSock[t]
      PROVE  IndexInv'
  BY <1>2 DEF IndexInv
<1>3. ASSUME NEW u \in Caller, Create(u) \/ LeaveCall(u) \/ SendTo(u) PROVE IndexInv'
  BY <1>2, <1>3 DEF Create, LeaveCall, SendTo, Begin, loopVars
<1>4. ASSUME NEW u \in Caller, Insert(u) PROVE IndexInv'
  <2>1. /\ i' = i /\ tpc' = tpc /\ w[u] \in Worker /\ upc[u] = "insert"
        /\ Free(lock[w[u]], u) /\ \A t \in Worker \ {w[u]} : m_vecSock'[t] = m_vecSock[t]
    BY <1>4 DEF Insert, WInv, workVars, loopVars
  <2>2. tpc[w[u]] \notin Busy
    BY <2>1, TypeFacts DEF OwnInv, Free
  <2> QED
    BY <1>2, <2>1, <2>2
<1>5. ASSUME NEW u \in Caller, LeaveRemove(u) PROVE IndexInv'
  <2>1. /\ i' = i /\ tpc' = tpc /\ w[u] \in Worker /\ upc[u] = "remove" /\ Free(lock[w[u]], u)
    BY <1>5 DEF LeaveRemove, WInv, workVars, loopVars
  <2>2. tpc[w[u]] \notin Busy
    BY <2>1, TypeFacts DEF OwnInv, Free
  <2>3. \A t \in Worker \ {w[u]} : m_vecSock'[t] = m_vecSock[t]
    BY <1>5, <2>1, Removal DEF Removes
  <2> QED
    BY <1>2, <2>1, <2>2, <2>3
<1>6. ASSUME NEW u \in Caller, StopAllJoin(u) PROVE IndexInv'
  BY <1>2, <1>6 DEF StopAllJoin, Joined
<1>7. ASSUME NEW u \in Caller, NewThread(u) PROVE IndexInv'
  BY <1>2, <1>7 DEF NewThread
<1>8. ASSUME NEW u \in Caller, LeaveJoin(u) PROVE IndexInv'
  BY <1>2, <1>8 DEF LeaveJoin
<1>9. ASSUME NEW u \in Caller,
             BindFailure(u) \/ JoinLock(u) \/ Place(u) \/ LeaveLock(u) \/ LeaveNotFound(u) \/ Delete(u)
             \/ StopAllClear(u) \/ SendToReturn(u) \/ SetSendCreate(u) \/ StopAll(u) \/ SetSendInfo(u)
      PROVE  UNCHANGED <<i, tpc, m_vecSock>>
  BY <1>9 DEF BindFailure, JoinLock, Place, LeaveLock, LeaveNotFound, Delete, StopAllClear, SendToReturn,
              SetSendCreate, StopAll, SetSendInfo, workVars, loopVars
<1>10. ASSUME (\E p \in Sock : Arrive(p)) \/ UNCHANGED vars PROVE UNCHANGED <<i, tpc, m_vecSock>>
  BY <1>10 DEF Arrive, vars, workVars, loopVars
<1>11. ASSUME NEW t \in Worker, Scan(t) PROVE IndexInv'
  BY <1>11 DEF Scan, InRange, IndexInv
<1>12. ASSUME NEW t \in Worker, Recv(t) PROVE IndexInv'
  BY <1>12 DEF Recv, IndexInv
<1>13. ASSUME NEW t \in Worker, Callback(t) PROVE IndexInv'
  BY <1>13 DEF Callback, IndexInv
<1>14. ASSUME NEW t \in Worker, SelectEnter(t) \/ SelectTimeout(t) \/ ScanEnd(t) PROVE IndexInv'
  <2>1. /\ \A s \in Worker \ {t} : tpc'[s] = tpc[s] /\ i'[s] = i[s]
        /\ tpc'[t] \in {"exit", "top", "wait"} /\ m_vecSock' = m_vecSock
    BY <1>14 DEF SelectEnter, SelectTimeout, ScanEnd, EndRound
  <2> QED
    BY <2>1 DEF IndexInv
<1>15. ASSUME NEW t \in Worker, Top(t) \/ Build(t) \/ SelectReturn(t) \/ Lock(t) PROVE IndexInv'
  BY <1>2, <1>15 DEF Top, Build, SelectReturn, Lock
<1> QED
  BY <1>2, <1>3, <1>4, <1>5, <1>6, <1>7, <1>8, <1>9, <1>10, <1>11, <1>12, <1>13, <1>14, <1>15, TypeFacts
     DEF Next, Proceed, Routine

(* Types.                                                                  *)
LEMMA TypeStep == ASSUME IInv, [Next]_vars PROVE TypeOK'
<1>1. /\ TypeOK /\ OwnInv /\ WInv /\ ThreadInv /\ OpenInv /\ OneHolder /\ SendInv /\ IndexInv
  BY DEF IInv, SockInv
<1>2. /\ User \subseteq Caller /\ Worker \subseteq Caller /\ Threads \subseteq Worker /\ Open \subseteq Sock
      /\ MaxJoins \in Nat /\ MaxData \in Nat
      /\ \A t \in Worker : Len(m_vecSock[t]) \in Nat /\ Len(m_vecSock[t]) <= MaxJoins
  BY <1>1, ThreadAt, VectorsFit, Bounds DEF Caller, Open, Created
<1>3. /\ m_cs \in Caller \cup {NONE} /\ m_vecThread \in Seq(Worker) /\ m_vecSock \in [Worker -> Seq(Sock)]
      /\ lock \in [Worker -> Worker \cup {NONE}] /\ \A t \in Worker : lock[t] \in {t, NONE}
      /\ m_bStop \in [Worker -> BOOLEAN] /\ tpc \in [Worker -> ThreadLabel]
      /\ rfds \in [Worker -> SUBSET FD] /\ watched \in [Worker -> SUBSET Sock]
      /\ i \in [Worker -> 1..(MaxJoins + 1)] /\ upc \in [Caller -> Label]
      /\ sock \in [Caller -> Sock \cup {NONE}] /\ w \in [Caller -> Worker \cup {NONE}]
      /\ handles \subseteq Sock /\ m_sock \in Sock \cup {NONE}
      /\ fd \in [Sock -> FD \cup {-1}] /\ file \in [FD -> Sock \cup {NONE}] /\ pending \in [Sock -> 0..MaxData]
  BY <1>1 DEF TypeOK
<1> USE <1>2, <1>3
<1>4. ASSUME NEW p \in Sock, Arrive(p) PROVE TypeOK'
  BY <1>4 DEF Arrive, TypeOK, workVars, loopVars, userVars
<1> DEFINE FilesOK == /\ fd' \in [Sock -> FD \cup {-1}] /\ file' \in [FD -> Sock \cup {NONE}]
                     /\ pending' \in [Sock -> 0..MaxData]
<1>5. ASSUME NEW p \in Sock, NewSocket(p), pending' = pending PROVE FilesOK
  BY <1>5 DEF NewSocket
<1>6. ASSUME NEW S, CloseAll(S), fd' = fd PROVE FilesOK
  <2>1. file' \in [FD -> Sock \cup {NONE}] /\ pending' \in [Sock -> 0..MaxData]
    BY <1>6 DEF CloseAll
  <2> QED
    BY <1>6, <2>1
<1>7. ASSUME NEW u \in Caller, NEW call, NEW label \in Label, Begin(u, call, label)
       PROVE  upc' \in [Caller -> Label] /\ tpc' \in [Worker -> ThreadLabel]
  BY <1>7 DEF Begin, At, Goto, ThreadLabel
<1>8. ASSUME NEW u \in Caller, Create(u) \/ SendTo(u) PROVE TypeOK'
  <2>1. PICK p \in Sock : NewSocket(p) /\ sock' = [sock EXCEPT ![u] = p]
    BY <1>8 DEF Create, SendTo
  <2>2. upc' \in [Caller -> Label] /\ tpc' \in [Worker -> ThreadLabel]
    BY <1>8, <1>7 DEF Create, SendTo, Label
  <2>3. UNCHANGED <<m_cs, m_vecThread, m_vecSock, loopVars, w, handles, m_sock, pending>>
    BY <1>8 DEF Create, SendTo
  <2>4. FilesOK
    BY <1>5, <2>1, <2>3
  <2> QED
    BY <2>1, <2>2, <2>3, <2>4 DEF TypeOK, loopVars
<1>9. ASSUME NEW u \in Caller, LeaveCall(u) PROVE TypeOK'
  <2>1. upc' \in [Caller -> Label] /\ tpc' \in [Worker -> ThreadLabel]
    BY <1>9, <1>7 DEF LeaveCall, Label
  <2>2. /\ handles' \subseteq Sock /\ sock' \in [Caller -> Sock \cup {NONE}]
        /\ UNCHANGED <<m_cs, m_vecThread, m_vecSock, loopVars, w, m_sock, fd, file, pending>>
    BY <1>9 DEF LeaveCall
  <2> QED
    BY <2>1, <2>2 DEF TypeOK, loopVars
<1>10. ASSUME NEW u \in Caller, BindFailure(u) \/ SendToReturn(u) PROVE TypeOK'
  <2>1. /\ CloseAll({sock[u]}) /\ sock' = [sock EXCEPT ![u] = NONE] /\ upc' = [upc EXCEPT ![u] = "idle"]
        /\ UNCHANGED <<m_cs, m_vecThread, m_vecSock, workVars, w, handles, m_sock, fd>>
    BY <1>10 DEF BindFailure, SendToReturn, At
  <2>2. FilesOK
    BY <1>6, <2>1
  <2> QED
    BY <2>1, <2>2 DEF TypeOK, workVars, loopVars, Label
<1>11. ASSUME NEW u \in Caller, JoinLock(u) PROVE TypeOK'
  BY <1>11 DEF JoinLock, At, TypeOK, workVars, loopVars, descVars, Label
<1>12. ASSUME NEW u \in Caller, Place(u) PROVE TypeOK'
  <2>1. \A k \in 1..Len(m_vecThread) : m_vecThread[k] \in Worker
    BY <1>1, ThreadAt
  <2> QED
    BY <1>12, <2>1 DEF Place, At, TypeOK, workVars, loopVars, descVars, Label
<1>13. ASSUME NEW u \in Caller, NewThread(u) PROVE TypeOK'
  <2>1. m_vecThread' \in Seq(Worker)
    BY <1>13, <1>1, ThreadAppended DEF NewThread
  <2> QED
    BY <1>13, <2>1 DEF NewThread, Goto, At, TypeOK, descVars, Label, ThreadLabel
<1>14. ASSUME NEW u \in Caller, Insert(u) PROVE TypeOK'
  <2>1. w[u] \in Worker /\ sock[u] \in Sock
    BY <1>1, <1>14 DEF Insert, WInv, OpenInv, Hands
  <2>2. Append(m_vecSock[w[u]], sock[u]) \in Seq(Sock)
    BY <2>1, AppendProperties
  <2>3. m_vecSock' \in [Worker -> Seq(Sock)]
    BY <1>14, <2>1, <2>2 DEF Insert
  <2> QED
    BY <1>14, <2>1, <2>3 DEF Insert, At, TypeOK, workVars, loopVars, Label
<1>15. ASSUME NEW u \in Caller, LeaveLock(u) \/ StopAll(u) PROVE TypeOK'
  <2>1. (IF m_vecThread = <<>> THEN NONE ELSE Head(m_vecThread)) \in Worker \cup {NONE}
    BY <1>1, FirstThread
  <2>2. w' \in [Caller -> Worker \cup {NONE}]
    <3> DEFINE first == IF m_vecThread = <<>> THEN NONE ELSE Head(m_vecThread)
    <3>1. w' = [w EXCEPT ![u] = first]
      BY <1>15 DEF LeaveLock, StopAll
    <3>2. first \in Worker \cup {NONE}
      BY <2>1
    <3> HIDE DEF first
    <3> QED
      BY <3>1, <3>2
  <2>3. /\ upc' \in [Caller -> Label] /\ m_cs' \in Caller \cup {NONE}
        /\ UNCHANGED <<m_vecThread, m_vecSock, workVars, sock, descVars>>
    BY <1>15 DEF LeaveLock, StopAll, At, Label
  <2> QED
    BY <2>2, <2>3 DEF TypeOK, workVars, loopVars, descVars
<1>16. ASSUME NEW u \in Caller, LeaveRemove(u) PROVE TypeOK'
  <2>1. w[u] \in Threads /\ upc[u] = "remove"
    BY <1>1, <1>16 DEF LeaveRemove, WInv
  <2>2. UNCHANGED <<m_vecThread, workVars, handles, fd, m_sock>>
    BY <1>16 DEF LeaveRemove
  <2>3. CASE w' = [w EXCEPT ![u] = After(w[u])] /\ UNCHANGED <<m_cs, m_vecSock, upc, sock, file, pending>>
    <3>1. After(w[u]) \in Worker \cup {NONE}
      BY <1>1, <2>1, NextThread
    <3> QED
      BY <2>2, <2>3, <3>1 DEF TypeOK, workVars, loopVars
  <2>4. ASSUME NEW k \in 1..Len(m_vecSock[w[u]]), Removes(u, k) PROVE TypeOK'
    <3>1. m_vecSock[w[u]] \in Seq(Sock)
      BY <2>1
    <3>2. RemoveAt(m_vecSock[w[u]], k) \in Seq(Sock)
      BY <3>1, RemovedAt
    <3>3. m_vecSock' = [m_vecSock EXCEPT ![w[u]] = RemoveAt(@, k)]
      BY <2>4 DEF Removes
    <3>4. m_vecSock' \in [Worker -> Seq(Sock)]
      BY <2>1, <3>2, <3>3
    <3>5. file' \in [FD -> Sock \cup {NONE}] /\ pending' \in [Sock -> 0..MaxData]
      BY <2>4 DEF Removes, CloseAll
    <3>6. /\ upc' \in [Caller -> Label] /\ m_cs' \in Caller \cup {NONE}
          /\ sock' \in [Caller -> Sock \cup {NONE}] /\ w' \in [Caller -> Worker \cup {NONE}]
      BY <2>4 DEF Removes, Return, At, Label
    <3> QED
      BY <2>2, <3>4, <3>5, <3>6 DEF TypeOK, workVars, loopVars
  <2> QED
    BY <1>1, <1>16, <2>1, <2>3, <2>4, Removal
<1>17. ASSUME NEW u \in Caller, LeaveNotFound(u) PROVE TypeOK'
  BY <1>17 DEF LeaveNotFound, Return, At, TypeOK, workVars, loopVars, descVars, Label
<1>18. ASSUME NEW u \in Caller, Delete(u) PROVE TypeOK'
  BY <1>18 DEF Delete, At, TypeOK, descVars, Label
<1>19. ASSUME NEW u \in Caller, LeaveJoin(u) PROVE TypeOK'
  <2>1. m_vecThread' \in Seq(Worker)
    BY <1>1, <1>19, ThreadRemoved DEF LeaveJoin, WInv
  <2> QED
    BY <1>19, <2>1 DEF LeaveJoin, Goto, Return, At, TypeOK, descVars, Label, ThreadLabel
<1>20. ASSUME NEW u \in Caller, StopAllJoin(u) PROVE TypeOK'
  <2>1. w[u] \in Threads /\ After(w[u]) \in Worker \cup {NONE}
    BY <1>1, <1>20, NextThread DEF StopAllJoin, WInv
  <2>2. m_vecSock' \in [Worker -> Seq(Sock)]
    BY <1>20, <2>1, EmptySeq DEF StopAllJoin
  <2>3. handles' \subseteq Sock
    BY <1>20 DEF StopAllJoin
  <2>4. file' \in [FD -> Sock \cup {NONE}] /\ pending' \in [Sock -> 0..MaxData]
    BY <1>20 DEF StopAllJoin, CloseAll
  <2> QED
    BY <1>20, <2>1, <2>2, <2>3, <2>4 DEF StopAllJoin, Goto, At, TypeOK, Label, ThreadLabel
<1>21. ASSUME NEW u \in Caller, StopAllClear(u) PROVE TypeOK'
  BY <1>21, EmptySeq DEF StopAllClear, Return, At, TypeOK, workVars, loopVars, descVars, Label
<1>22. ASSUME NEW u \in Caller, SetSendInfo(u) \/ SetSendCreate(u) PROVE TypeOK'
  <2>1. /\ upc' \in [Caller -> Label] /\ m_sock' \in Sock \cup {NONE}
        /\ UNCHANGED <<m_cs, m_vecThread, m_vecSock, workVars, sock, w, handles>>
    BY <1>22 DEF SetSendInfo, SetSendCreate, At, Label
  <2>2. FilesOK
    <3>1. CASE SetSendInfo(u) /\ m_sock /= NONE
      BY <1>6, <3>1 DEF SetSendInfo
    <3>2. CASE SetSendCreate(u) /\ \E p \in Sock : NewSocket(p)
      BY <1>5, <3>2 DEF SetSendCreate
    <3>3. CASE UNCHANGED <<fd, file, pending>>
      BY <3>3
    <3> QED
      BY <1>22, <3>1, <3>2, <3>3 DEF SetSendInfo, SetSendCreate
  <2> QED
    BY <2>1, <2>2 DEF TypeOK, workVars, loopVars
<1>23. ASSUME NEW t \in Worker, NEW label \in ThreadLabel, EndRound(t, label)
       PROVE  /\ rfds' \in [Worker -> SUBSET FD] /\ watched' \in [Worker -> SUBSET Sock]
              /\ i' \in [Worker -> 1..(MaxJoins + 1)] /\ tpc' \in [Worker -> ThreadLabel]
  <2>1. rfds' \in [Worker -> SUBSET FD] /\ watched' \in [Worker -> SUBSET Sock]
    BY <1>23 DEF EndRound
  <2>2. i' \in [Worker -> 1..(MaxJoins + 1)] /\ tpc' \in [Worker -> ThreadLabel]
    BY <1>23 DEF EndRound, Goto
  <2> QED
    BY <2>1, <2>2
<1>24. ASSUME NEW t \in Worker, SelectTimeout(t) \/ ScanEnd(t) PROVE TypeOK'
  <2>1. /\ EndRound(t, "top") /\ UNCHANGED <<m_cs, m_vecThread, m_vecSock, m_bStop, userVars, descVars>>
        /\ lock' = lock \/ lock' = [lock EXCEPT ![t] = NONE]
    BY <1>24 DEF SelectTimeout, ScanEnd
  <2> QED
    BY <1>23, <2>1 DEF TypeOK, userVars, descVars, ThreadLabel
<1>25. ASSUME NEW t \in Worker, Top(t) PROVE TypeOK'
  BY <1>25 DEF Top, Goto, TypeOK, userVars, descVars, ThreadLabel
<1>26. ASSUME NEW t \in Worker, Lock(t) PROVE TypeOK'
  BY <1>26 DEF Lock, Goto, TypeOK, userVars, descVars, ThreadLabel
<1>27. ASSUME NEW t \in Worker, Build(t) PROVE TypeOK'
  <2>1. {fd[p] : p \in ToSet(m_vecSock[t])} \subseteq FD
    <3>1. \A p \in ToSet(m_vecSock[t]) : p \in Open
      BY <1>1, InVector DEF OpenInv
    <3> QED
      BY <3>1 DEF Open, Created
  <2> QED
    BY <1>27, <2>1 DEF Build, Goto, TypeOK, userVars, descVars, ThreadLabel
<1>28. ASSUME NEW t \in Worker, SelectEnter(t) PROVE TypeOK'
  <2>1. UNCHANGED <<m_cs, m_vecThread, m_vecSock, lock, m_bStop, userVars, descVars>>
    BY <1>28 DEF SelectEnter
  <2>2. CASE EndRound(t, "exit") \/ EndRound(t, "top")
    BY <1>23, <2>1, <2>2 DEF TypeOK, userVars, descVars, ThreadLabel
  <2>3. CASE /\ \A f \in rfds[t] : file[f] /= NONE
             /\ watched' = [watched EXCEPT ![t] = {file[f] : f \in rfds[t]}]
             /\ Goto(t, "wait") /\ UNCHANGED <<rfds, i>>
    <3>1. {file[f] : f \in rfds[t]} \subseteq Sock
      BY <2>3
    <3> QED
      BY <2>1, <2>3, <3>1 DEF Goto, TypeOK, userVars, descVars, ThreadLabel
  <2> QED
    BY <1>28, <2>2, <2>3 DEF SelectEnter
<1>29. ASSUME NEW t \in Worker, SelectReturn(t) PROVE TypeOK'
  <2>1. {fd[p] : p \in Readable(t)} \subseteq FD
    BY DEF Readable, Open, Created
  <2> QED
    BY <1>29, <2>1 DEF SelectReturn, Goto, TypeOK, userVars, descVars, ThreadLabel
<1>30. ASSUME NEW t \in Worker, Scan(t) PROVE TypeOK'
  <2>1. /\ UNCHANGED <<m_cs, m_vecThread, m_vecSock, lock, m_bStop, rfds, watched, userVars, descVars>>
        /\ tpc' \in [Worker -> ThreadLabel]
    BY <1>30 DEF Scan, Goto, ThreadLabel
  <2>2. i[t] + 1 \in 1..(MaxJoins + 1)
    BY <1>30 DEF Scan, InRange
  <2>3. i' \in [Worker -> 1..(MaxJoins + 1)]
    BY <1>30, <2>2 DEF Scan
  <2> QED
    BY <2>1, <2>3 DEF TypeOK, userVars, descVars
<1>31. ASSUME NEW t \in Worker, Recv(t) PROVE TypeOK'
  <2>1. Current(t) \in Sock
    BY <1>1, <1>31 DEF Recv, IndexInv, OpenInv, Current
  <2> QED
    BY <1>31, <2>1 DEF Recv, Goto, TypeOK, userVars, ThreadLabel
<1>32. ASSUME NEW t \in Worker, Callback(t) PROVE TypeOK'
  <2>1. i[t] <= MaxJoins
    BY <1>1, <1>32 DEF Callback, IndexInv
  <2> QED
    BY <1>32, <2>1 DEF Callback, Goto, TypeOK, userVars, descVars, ThreadLabel
<1>33. CASE UNCHANGED vars
  BY <1>33 DEF vars, workVars, loopVars, userVars, descVars, TypeOK
<1> QED
  BY <1>4, <1>8, <1>9, <1>10, <1>11, <1>12, <1>13, <1>14, <1>15, <1>16, <1>17, <1>18, <1>19, <1>20, <1>21, <1>22,
     <1>24, <1>27, <1>28, <1>29, <1>30, <1>31, <1>32, <1>33, <1>25, <1>26 DEF Next, Proceed, Routine

LEMMA Inductive == IInv /\ [Next]_vars => IInv'
<1> SUFFICES ASSUME IInv, [Next]_vars PROVE IInv'
  OBVIOUS
<1>1. /\ TypeOK /\ LockInv /\ OwnInv /\ WInv /\ ThreadInv /\ StopInv /\ SockInv /\ SocketsBounded /\ IndexInv
      /\ OpenInv /\ OneHolder
  BY DEF IInv, SockInv
<1>2. TypeOK' /\ LockInv' /\ OwnInv' /\ WInv'
  BY <1>1, TypeStep, LockStep, OwnStep, WStep
<1>3. ThreadInv' /\ StopInv' /\ SockInv' /\ SocketsBounded' /\ IndexInv'
  BY <1>1, ThreadStep, StopStep, SockStep, BoundStep, IndexStep
<1> QED
  BY <1>2, <1>3 DEF IInv

-----------------------------------------------------------------------------
(* The properties.                                                         *)

LEMMA JoinedFollows == IInv => CallbackIsJoined
<1> SUFFICES ASSUME IInv, NEW t \in Worker
             PROVE  /\ tpc[t] \in {"recv", "callback"} => i[t] <= Len(m_vecSock[t]) /\ Current(t) \in Open
                    /\ tpc[t] \in {"recv", "callback", "called"} => t \in Threads /\ lock[t] = t
  BY DEF CallbackIsJoined
<1>1. /\ TypeOK /\ OwnInv /\ ThreadInv /\ OpenInv /\ IndexInv
  BY DEF IInv, SockInv
<1>2. i[t] \in 1..(MaxJoins + 1) /\ Len(m_vecSock[t]) \in Nat
  BY <1>1, LenProperties DEF TypeOK
<1>3. tpc[t] \in {"recv", "callback"} => i[t] <= Len(m_vecSock[t]) /\ Current(t) \in Open
  BY <1>1, <1>2, Bounds DEF IndexInv, OpenInv, Current
<1>4. tpc[t] \in {"recv", "callback", "called"} => t \in Threads /\ lock[t] = t
  BY <1>1 DEF ThreadInv, OwnInv
<1> QED
  BY <1>3, <1>4

LEMMA AccountedFollows == IInv => SocketsAccounted
<1> SUFFICES ASSUME IInv, NEW p \in Sock
             PROVE  LET at == {t \in Worker : p \in ToSet(m_vecSock[t])}
                    IN  /\ p \in Open <=>
                               \/ at /= {} \/ p = m_sock
                               \/ \E u \in Caller : sock[u] = p /\ upc[u] \in {"bind", "place", "insert", "sendto"}
                        /\ Cardinality(at) <= 1
  BY DEF SocketsAccounted
<1> DEFINE at == {t \in Worker : p \in ToSet(m_vecSock[t])}
<1>1. TypeOK /\ OpenInv /\ OneHolder /\ Held /\ NONE \notin Sock
  BY Distinct DEF IInv, SockInv, Sock
<1>2. \A t \in Worker : t \in at <=> \E k \in 1..Len(m_vecSock[t]) : m_vecSock[t][k] = p
  BY <1>1, InVector DEF TypeOK
<1>3. /\ at /= {} => p \in Open
      /\ p = m_sock => p \in Open
      /\ \A u \in Caller : sock[u] = p /\ upc[u] \in Hands => p \in Open
  BY <1>1, <1>2 DEF OpenInv
<1>4. p \in Open => at /= {} \/ p = m_sock \/ \E u \in Caller : sock[u] = p /\ upc[u] \in Hands
  BY <1>1, <1>2 DEF Held
<1>5. \A s, t \in at : s = t
  BY <1>1, <1>2 DEF OneHolder
<1>6. Cardinality(at) <= 1
  <2>1. CASE at = {}
    BY <2>1, FS_EmptySet
  <2>2. CASE at /= {}
    <3>1. PICK t \in at : TRUE
      BY <2>2
    <3>2. at = {t}
      BY <1>5, <3>1
    <3>3. Cardinality({t}) = 1
      BY FS_Singleton
    <3> HIDE DEF at
    <3> QED
      BY <3>2, <3>3
  <2> QED
    BY <2>1, <2>2
<1> QED
  BY <1>3, <1>4, <1>6 DEF Hands

LEMMA NeededFollows == IInv => ThreadsAreNeeded
<1> SUFFICES ASSUME IInv, m_cs = NONE, NEW t \in Worker
             PROVE  (t \in Threads <=> m_vecSock[t] /= <<>>) /\ (tpc[t] /= "none" => t \in Threads)
  BY DEF ThreadsAreNeeded
<1>1. LockInv /\ ThreadInv /\ NONE \notin Caller
  BY Distinct, TypeFacts DEF IInv
<1>2. \A u \in Caller : upc[u] \notin Inside
  BY <1>1 DEF LockInv
<1>3. ~Emptied(t)
  BY <1>2 DEF Emptied, Inside
<1> QED
  BY <1>1, <1>3 DEF ThreadInv

(* The callback of a socket runs only while the socket is joined and open,
   in a thread that exists and has its lock: PerThread::Routine against
   Remove and ~PerThread, for any number of users and threads.              *)
THEOREM CallbacksAreJoined == Spec => []CallbackIsJoined
<1>1. Init => IInv
  BY InitInv
<1>2. IInv /\ [Next]_vars => IInv'
  BY Inductive
<1>3. IInv => CallbackIsJoined
  BY JoinedFollows
<1> QED
  BY <1>1, <1>2, <1>3, PTL DEF Spec

(* Join, Leave and StopAll keep the books: every open socket has one holder,
   no vector holds a socket too many, and there is no thread without a
   socket once the calls are over.                                          *)
THEOREM BooksInOrder == Spec => []SocketsInOrder
<1>1. Init => IInv
  BY InitInv
<1>2. IInv /\ [Next]_vars => IInv'
  BY Inductive
<1>3. IInv => SocketsInOrder
  BY AccountedFollows, NeededFollows DEF IInv, SocketsInOrder
<1> QED
  BY <1>1, <1>2, <1>3, PTL DEF Spec

=============================================================================
