----------------------------- MODULE LogSrvProofs -----------------------------
(***************************************************************************)
(* Theorems about LogSrv, for any number of threads, any capacity and any  *)
(* number of calls and restarts of the writer.                             *)
(***************************************************************************)
EXTENDS LogSrv, SequenceTheorems, TLAPS

-----------------------------------------------------------------------------
(* The inductive invariant.  Fifo and LossIsNoticed speak of the sequence  *)
(* disk \o vec \o m_vecMsg; the invariant takes it apart.                   *)

Increasing(q) == \A j, k \in 1..Len(q) : j < k => q[j].id < q[k].id
Before(p, q)  == \A j \in 1..Len(p), k \in 1..Len(q) : p[j].id < q[k].id
UpTo(q, n)    == \A k \in 1..Len(q) : q[k].id <= n

OrderInv ==
    /\ Increasing(disk) /\ Increasing(vec) /\ Increasing(m_vecMsg)
    /\ Before(disk, vec) /\ Before(disk, m_vecMsg) /\ Before(vec, m_vecMsg)
    /\ UpTo(disk, pushed) /\ UpTo(vec, pushed) /\ UpTo(m_vecMsg, pushed)

(* Numbers that are not lost without a trace.                              *)
Known == dropped \cup Ids(disk) \cup Ids(vec) \cup Ids(m_vecMsg)

Traced(q) == \A k \in 1..Len(q) : q[k].id = 1 \/ q[k].notice \/ (q[k].id - 1) \in Known

NoticeInv ==
    /\ Traced(disk) /\ Traced(vec) /\ Traced(m_vecMsg)
    /\ m_cs = NOBODY => pushed = 0 \/ pushed \in Known

(* The batch is empty but between swap and fflush.                         *)
BatchInv == wpc /= "write" => vec = <<>>

LockInv == \A l \in Logger : lpc[l] = "notice" => m_cs = l /\ m_vecMsg = <<>>

WriterInv ==
    /\ ctl \in {"drop", "run", "gone"} => wpc = "none"
    /\ ctl = "idle" /\ ~m_bFile => wpc = "none"
    /\ ctl = "run" => m_bFile
    /\ ctl = "drop" => ~m_bFile

(* Within one day the hour of the day names the file.                      *)
FileInv ==
    /\ fp /= NoFile => nHour = fp % HoursPerDay
    /\ MaxHour < HoursPerDay => OneFilePerHour

IInv ==
    /\ TypeOK
    /\ LockInv /\ WriterInv /\ BatchInv /\ FileInv
    /\ QueueBounded /\ OrderInv /\ NoticeInv

-----------------------------------------------------------------------------
(* Lemmas about sequences of messages.                                     *)

LEMMA JoinOrder ==
    ASSUME NEW p \in Seq(Message), NEW q \in Seq(Message),
           Increasing(p), Increasing(q), Before(p, q)
    PROVE  Increasing(p \o q)
<1>1. Len(p) \in Nat /\ Len(q) \in Nat /\ Len(p \o q) = Len(p) + Len(q)
  OBVIOUS
<1>2. \A k \in 1..Len(p \o q) : \/ k \in 1..Len(p) /\ (p \o q)[k] = p[k]
                                \/ k - Len(p) \in 1..Len(q) /\ (p \o q)[k] = q[k - Len(p)]
  BY <1>1
<1>3. SUFFICES ASSUME NEW j \in 1..Len(p \o q), NEW k \in 1..Len(p \o q), j < k
               PROVE  (p \o q)[j].id < (p \o q)[k].id
  BY DEF Increasing
<1>4. CASE k \in 1..Len(p)
  BY <1>1, <1>2, <1>3, <1>4 DEF Increasing
<1>5. CASE j \in 1..Len(p) /\ k \notin 1..Len(p)
  BY <1>1, <1>2, <1>3, <1>5 DEF Before
<1>6. CASE j \notin 1..Len(p) /\ k \notin 1..Len(p)
  <2>1. j - Len(p) \in 1..Len(q) /\ k - Len(p) \in 1..Len(q) /\ j - Len(p) < k - Len(p)
    BY <1>1, <1>2, <1>3, <1>6
  <2>2. QED
    BY <2>1, <1>2, <1>6 DEF Increasing
<1>7. QED
  BY <1>1, <1>3, <1>4, <1>5, <1>6

LEMMA JoinElements ==
    ASSUME NEW p \in Seq(Message), NEW q \in Seq(Message), NEW k \in 1..Len(p \o q)
    PROVE  (\E j \in 1..Len(p) : (p \o q)[k] = p[j]) \/ (\E j \in 1..Len(q) : (p \o q)[k] = q[j])
<1>1. Len(p) \in Nat /\ Len(q) \in Nat /\ Len(p \o q) = Len(p) + Len(q)
  OBVIOUS
<1>2. CASE k \in 1..Len(p)
  BY <1>1, <1>2
<1>3. CASE k \notin 1..Len(p)
  <2>1. k - Len(p) \in 1..Len(q) /\ (p \o q)[k] = q[k - Len(p)]
    BY <1>1, <1>3
  <2>2. QED
    BY <2>1
<1>4. QED
  BY <1>2, <1>3

LEMMA JoinIds ==
    ASSUME NEW p \in Seq(Message), NEW q \in Seq(Message)
    PROVE  Ids(p \o q) = Ids(p) \cup Ids(q)
<1>1. Len(p) \in Nat /\ Len(q) \in Nat /\ Len(p \o q) = Len(p) + Len(q)
  OBVIOUS
<1>2. Ids(p \o q) \subseteq Ids(p) \cup Ids(q)
  BY JoinElements DEF Ids
<1>3. Ids(p) \subseteq Ids(p \o q)
  BY <1>1 DEF Ids
<1>4. Ids(q) \subseteq Ids(p \o q)
  <2>1. SUFFICES ASSUME NEW j \in 1..Len(q)
                 PROVE  q[j].id \in Ids(p \o q)
    BY DEF Ids
  <2>2. j + Len(p) \in 1..Len(p \o q) /\ (p \o q)[j + Len(p)] = q[j]
    BY <1>1
  <2>3. QED
    BY <2>2 DEF Ids
<1>5. QED
  BY <1>2, <1>3, <1>4

LEMMA AppendElements ==
    ASSUME NEW q \in Seq(Message), NEW m \in Message
    PROVE  /\ Append(q, m) \in Seq(Message)
           /\ Len(Append(q, m)) = Len(q) + 1
           /\ \A k \in 1..Len(Append(q, m)) :
                 \/ k \in 1..Len(q) /\ Append(q, m)[k] = q[k]
                 \/ k = Len(q) + 1 /\ Append(q, m)[k] = m
           /\ Ids(Append(q, m)) = Ids(q) \cup {m.id}
<1>1. Len(q) \in Nat /\ Len(Append(q, m)) = Len(q) + 1
  OBVIOUS
<1>2. \A k \in 1..Len(Append(q, m)) :
         \/ k \in 1..Len(q) /\ Append(q, m)[k] = q[k]
         \/ k = Len(q) + 1 /\ Append(q, m)[k] = m
  BY <1>1
<1>3. Ids(Append(q, m)) \subseteq Ids(q) \cup {m.id}
  BY <1>2 DEF Ids
<1>4. Ids(q) \cup {m.id} \subseteq Ids(Append(q, m))
  <2>1. \A k \in 1..Len(q) : k \in 1..Len(Append(q, m)) /\ Append(q, m)[k] = q[k]
    BY <1>1
  <2>2. Len(q) + 1 \in 1..Len(Append(q, m)) /\ Append(q, m)[Len(q) + 1] = m
    BY <1>1
  <2>3. QED
    BY <2>1, <2>2 DEF Ids
<1>5. QED
  BY <1>1, <1>2, <1>3, <1>4

LEMMA IdsAreNumbers ==
    /\ \A m \in Message : m.id \in Nat
    /\ \A q \in Seq(Message) : \A k \in 1..Len(q) : q[k] \in Message /\ q[k].id \in Nat
<1>1. \A m \in Message : m.id \in Nat
  BY DEF Message
<1>2. \A q \in Seq(Message) : \A k \in 1..Len(q) : q[k] \in Message
  OBVIOUS
<1>3. QED
  BY <1>1, <1>2

LEMMA ShortSequences ==
    ASSUME NEW x \in Message, NEW y \in Message
    PROVE  Append(<<>>, x) = <<x>> /\ Append(<<x>>, y) = <<x, y>>
<1>1. /\ Append(<<>>, x) \in Seq(Message) /\ <<x>> \in Seq(Message)
      /\ Append(<<x>>, y) \in Seq(Message) /\ <<x, y>> \in Seq(Message)
  OBVIOUS
<1>2. Len(Append(<<>>, x)) = Len(<<x>>) /\ \A k \in 1..Len(<<x>>) : Append(<<>>, x)[k] = <<x>>[k]
  OBVIOUS
<1>3. /\ Len(Append(<<x>>, y)) = Len(<<x, y>>)
      /\ \A k \in 1..Len(<<x, y>>) : Append(<<x>>, y)[k] = <<x, y>>[k]
  OBVIOUS
<1>4. Append(<<>>, x) = <<x>>
  BY <1>1, <1>2, SeqEqual
<1>5. Append(<<x>>, y) = <<x, y>>
  BY <1>1, <1>3, SeqEqual
<1>6. QED
  BY <1>4, <1>5

(* Appending a message with a number above all others keeps every order.   *)
LEMMA AppendOrder ==
    ASSUME NEW p \in Seq(Message), NEW q \in Seq(Message), NEW m \in Message,
           NEW n \in Nat, n < m.id, UpTo(p, n), UpTo(q, n), Increasing(q), Before(p, q)
    PROVE  Increasing(Append(q, m)) /\ Before(p, Append(q, m)) /\ UpTo(Append(q, m), m.id)
<1> DEFINE r == Append(q, m)
<1>1. /\ Len(q) \in Nat
      /\ \A k \in 1..Len(r) : \/ k \in 1..Len(q) /\ r[k] = q[k]
                              \/ k = Len(q) + 1 /\ r[k] = m
  BY AppendElements
<1>2. \A k \in 1..Len(q) : q[k].id \in Nat /\ q[k].id < m.id
  BY IdsAreNumbers DEF UpTo
<1>3. \A k \in 1..Len(p) : p[k].id \in Nat /\ p[k].id < m.id
  BY IdsAreNumbers DEF UpTo
<1> HIDE DEF r
<1>4. Increasing(r)
  <2>1. SUFFICES ASSUME NEW j \in 1..Len(r), NEW k \in 1..Len(r), j < k
                 PROVE  r[j].id < r[k].id
    BY DEF Increasing
  <2>2. CASE k \in 1..Len(q)
    <3>1. j \in 1..Len(q)
      BY <1>1, <2>1, <2>2
    <3>2. r[j] = q[j] /\ r[k] = q[k]
      BY <1>1, <2>2, <3>1
    <3>3. QED
      BY <2>1, <2>2, <3>1, <3>2 DEF Increasing
  <2>3. CASE k = Len(q) + 1
    <3>1. j \in 1..Len(q) /\ r[j] = q[j] /\ r[k] = m
      BY <1>1, <2>1, <2>3
    <3>2. QED
      BY <1>2, <3>1
  <2>4. QED
    BY <1>1, <2>2, <2>3
<1>5. Before(p, r)
  BY <1>1, <1>3 DEF Before
<1>6. UpTo(r, m.id)
  <2>1. m.id \in Nat
    BY DEF Message
  <2>2. QED
    BY <1>1, <1>2, <2>1 DEF UpTo
<1>7. QED
  BY <1>4, <1>5, <1>6 DEF r

LEMMA EmptyOrder ==
    ASSUME NEW p, NEW n
    PROVE  /\ Increasing(<<>>) /\ Before(p, <<>>) /\ Before(<<>>, p) /\ UpTo(<<>>, n)
           /\ Ids(<<>>) = {}
BY DEF Increasing, Before, UpTo, Ids
-----------------------------------------------------------------------------
(* A step is one of these; the proofs below go through them one by one.    *)
Steps ==
    \/ Tick
    \/ \E l \in Logger : \/ Log(l) \/ Format(l) \/ TestFile(l)
                         \/ Push(l) \/ Clear(l) \/ Notice(l)
    \/ \E v \in Request : SetLevel(v)
    \/ \E f \in BOOLEAN : Enable(f)
    \/ EnableStop \/ EnableJoin \/ EnableRun \/ EnableDrop \/ Destroy \/ DestroyJoin
    \/ Top \/ Wake \/ Test \/ Time \/ Swap \/ Write

LEMMA NextIsSteps == Next => Steps
BY DEF Next, Steps, LogCall, Control, Finish, Routine

LEMMA TypeStep == TypeOK /\ [Next]_vars => TypeOK'
<1> USE Capacity, Levels, Free, Bounds, Day
<1> SUFFICES ASSUME TypeOK, [Next]_vars
             PROVE  TypeOK'
  OBVIOUS
<1>1. /\ \A q \in Seq(Message), m \in Message : Append(q, m) \in Seq(Message)
      /\ \A p, q \in Seq(Message) : p \o q \in Seq(Message)
      /\ <<>> \in Seq(Message)
  OBVIOUS
<1>2. ASSUME Tick PROVE TypeOK'
  BY <1>1, <1>2 DEF TypeOK, Tick, logVars, fileVars, ctlVars
<1>3. ASSUME NEW l \in Logger, Log(l) PROVE TypeOK'
  BY <1>1, <1>3 DEF TypeOK, LogPc, Log, logVars, fileVars, ctlVars
<1>4. ASSUME NEW l \in Logger, Format(l) PROVE TypeOK'
  BY <1>1, <1>4 DEF TypeOK, LogPc, Format, logVars, fileVars, ctlVars
<1>5. ASSUME NEW l \in Logger, TestFile(l) PROVE TypeOK'
  BY <1>1, <1>5 DEF TypeOK, LogPc, TestFile, logVars, fileVars, ctlVars
<1>6. ASSUME NEW l \in Logger, Clear(l) PROVE TypeOK'
  BY <1>1, <1>6 DEF TypeOK, LogPc, Clear, logVars, fileVars, ctlVars
<1>7. ASSUME NEW f \in BOOLEAN, Enable(f) PROVE TypeOK'
  BY <1>1, <1>7 DEF TypeOK, Enable, logVars, fileVars, ctlVars
<1>8. ASSUME EnableStop PROVE TypeOK'
  BY <1>1, <1>8 DEF TypeOK, EnableStop, logVars, fileVars, ctlVars
<1>9. ASSUME EnableJoin PROVE TypeOK'
  BY <1>1, <1>9 DEF TypeOK, EnableJoin, logVars, fileVars, ctlVars
<1>10. ASSUME EnableRun PROVE TypeOK'
  <2>1. nHour' \in -1..(HoursPerDay - 1)
    BY <1>10 DEF EnableRun
  <2>2. wpc' \in {"none", "top", "sleep", "test", "time", "swap", "write", "done"}
    BY <1>10 DEF TypeOK, EnableRun
  <2>3. QED
    BY <1>10, <2>1, <2>2 DEF TypeOK, EnableRun, logVars, ctlVars
<1>11. ASSUME EnableDrop PROVE TypeOK'
  <2>1. Ids(m_vecMsg) \subseteq Nat
    BY IdsAreNumbers DEF TypeOK, Ids
  <2>2. QED
    BY <1>1, <1>11, <2>1 DEF TypeOK, EnableDrop, logVars, fileVars, ctlVars
<1>12. ASSUME Destroy PROVE TypeOK'
  BY <1>1, <1>12 DEF TypeOK, Destroy, logVars, fileVars, ctlVars
<1>13. ASSUME DestroyJoin PROVE TypeOK'
  BY <1>1, <1>13 DEF TypeOK, DestroyJoin, logVars, fileVars, ctlVars
<1>14. ASSUME Top PROVE TypeOK'
  BY <1>1, <1>14 DEF TypeOK, Top, logVars, fileVars, ctlVars
<1>15. ASSUME Wake PROVE TypeOK'
  BY <1>1, <1>15 DEF TypeOK, Wake, logVars, fileVars, ctlVars
<1>16. ASSUME Test PROVE TypeOK'
  BY <1>1, <1>16 DEF TypeOK, Test, logVars, fileVars, ctlVars
<1>17. ASSUME Swap PROVE TypeOK'
  BY <1>1, <1>17 DEF TypeOK, Swap, logVars, fileVars, ctlVars
<1>18. ASSUME Write PROVE TypeOK'
  BY <1>1, <1>18 DEF TypeOK, Write, logVars, fileVars, ctlVars
<1>19. ASSUME NEW v \in Request, SetLevel(v) PROVE TypeOK'
  <2>1. Clamp(v) \in 1..4
    BY DEF Clamp
  <2>2. QED
    BY <1>19, <2>1 DEF TypeOK, SetLevel, logVars, fileVars, ctlVars
<1>20. ASSUME NEW l \in Logger, Push(l) PROVE TypeOK'
  <2>1. [id |-> pushed + 1, level |-> level[l], notice |-> FALSE] \in Message
    BY DEF TypeOK, Message
  <2>2. m_vecMsg' \in Seq(Message)
    BY <1>1, <1>20, <2>1 DEF TypeOK, Push
  <2>3. QED
    BY <1>20, <2>2 DEF TypeOK, Push, LogPc, logVars, fileVars, ctlVars
<1>21. ASSUME NEW l \in Logger, Notice(l) PROVE TypeOK'
  <2> DEFINE said == NoticeLevel >= m_nLevel /\ m_bFile
             next == IF said THEN pushed + 2 ELSE pushed + 1
  <2>1. next \in Nat
    BY DEF TypeOK
  <2>2. /\ [id |-> next, level |-> level[l], notice |-> FALSE] \in Message
        /\ [id |-> pushed + 1, level |-> NoticeLevel, notice |-> TRUE] \in Message
    BY DEF TypeOK, Message, NoticeLevel
  <2>3. m_vecMsg' \in Seq(Message)
    BY <1>1, <1>21, <2>2 DEF TypeOK, Notice
  <2>4. pushed' \in Nat /\ dropped' \subseteq Nat
    BY <1>21, <2>1 DEF TypeOK, Notice
  <2>5. QED
    BY <1>21, <2>3, <2>4 DEF TypeOK, Notice, LogPc, logVars, fileVars, ctlVars
<1>22. ASSUME Time PROVE TypeOK'
  <2>1. clock % HoursPerDay \in 0..(HoursPerDay - 1)
    BY DEF TypeOK
  <2>2. fp' \in 0..MaxHour \cup {NoFile}
    BY <1>22 DEF TypeOK, Time
  <2>3. QED
    BY <1>22, <2>1, <2>2 DEF TypeOK, Time, logVars, fileVars, ctlVars
<1>23. CASE UNCHANGED vars
  BY <1>23 DEF TypeOK, vars, logVars, fileVars, ctlVars
<1>24. QED
  BY NextIsSteps, <1>2, <1>3, <1>4, <1>5, <1>6, <1>7, <1>8, <1>9, <1>10, <1>11, <1>12, <1>13, <1>14, <1>15, <1>16, <1>17, <1>18, <1>19, <1>20, <1>21, <1>22, <1>23 DEF Steps
-----------------------------------------------------------------------------
(* The mutex and the bound of the queue.                                   *)

LEMMA LockStep == TypeOK /\ LockInv /\ [Next]_vars => LockInv'
<1> SUFFICES ASSUME TypeOK, LockInv, [Next]_vars
             PROVE  LockInv'
  OBVIOUS
<1> USE Free DEF LockInv, TypeOK
<1>1. ASSUME NEW l \in Logger, Log(l) \/ Format(l) \/ TestFile(l) PROVE LockInv'
  BY <1>1 DEF Log, Format, TestFile, LogPc
<1>2. ASSUME NEW l \in Logger, Push(l) PROVE LockInv'
  BY <1>2 DEF Push, LogPc
<1>3. ASSUME NEW l \in Logger, Clear(l) PROVE LockInv'
  BY <1>3 DEF Clear, LogPc
<1>4. ASSUME NEW l \in Logger, Notice(l) PROVE LockInv'
  <2>1. lpc' = [lpc EXCEPT ![l] = "idle"] /\ lpc[l] = "notice"
    BY <1>4 DEF Notice, LogPc
  <2>2. \A k \in Logger : lpc'[k] /= "notice"
    BY <1>4, <2>1 DEF Notice
  <2>3. QED
    BY <2>2
<1>5. CASE EnableDrop
  BY <1>5 DEF EnableDrop, logVars
<1>6. CASE Swap
  BY <1>6 DEF Swap, logVars
<1>7. ASSUME NEW v \in Request, SetLevel(v) PROVE LockInv'
  BY <1>7 DEF SetLevel, logVars
<1>8. ASSUME NEW f \in BOOLEAN, Enable(f) PROVE LockInv'
  BY <1>8 DEF Enable, logVars
<1>9. CASE \/ Tick \/ EnableStop \/ EnableJoin \/ EnableRun \/ Destroy \/ DestroyJoin
           \/ Top \/ Wake \/ Test \/ Time \/ Write \/ UNCHANGED vars
  BY <1>9 DEF Tick, EnableStop, EnableJoin, EnableRun, Destroy, DestroyJoin, Top, Wake,
              Test, Time, Write, vars, logVars
<1>10. QED
  BY NextIsSteps, <1>1, <1>2, <1>3, <1>4, <1>5, <1>6, <1>7, <1>8, <1>9 DEF Steps

LEMMA BoundStep == TypeOK /\ LockInv /\ QueueBounded /\ [Next]_vars => QueueBounded'
<1> SUFFICES ASSUME TypeOK, LockInv, QueueBounded, [Next]_vars
             PROVE  QueueBounded'
  OBVIOUS
<1> USE Capacity DEF QueueBounded
<1>1. ASSUME NEW l \in Logger, Push(l) PROVE QueueBounded'
  <2>1. Len(m_vecMsg) \in Nat /\ Len(m_vecMsg) <= Cap
    BY <1>1 DEF Push, Full, TypeOK
  <2>2. Len(m_vecMsg') = Len(m_vecMsg) + 1
    BY <1>1 DEF Push, TypeOK
  <2>3. QED
    BY <2>1, <2>2
<1>2. ASSUME NEW l \in Logger, Notice(l) PROVE QueueBounded'
  <2>1. m_vecMsg = <<>>
    BY <1>2 DEF Notice, LockInv
  <2>2. Len(m_vecMsg') \in {1, 2}
    BY <1>2, <2>1 DEF Notice
  <2>3. Cap \in Int /\ Cap >= 1
    BY Capacity
  <2>4. \A n \in {1, 2} : n <= Cap + 1
    BY <2>3
  <2>5. QED
    BY <2>2, <2>4
<1>3. CASE (\E l \in Logger : Clear(l)) \/ EnableDrop \/ Swap
  <2>1. m_vecMsg' = <<>>
    BY <1>3 DEF Clear, EnableDrop, Swap
  <2>2. QED
    BY <2>1
<1>4. CASE UNCHANGED m_vecMsg
  BY <1>4
<1>5. ASSUME NEW l \in Logger, Log(l) \/ Format(l) \/ TestFile(l) PROVE UNCHANGED m_vecMsg
  BY <1>5 DEF Log, Format, TestFile
<1>6. ASSUME \/ \E v \in Request : SetLevel(v)
             \/ \E f \in BOOLEAN : Enable(f)
             \/ Tick \/ EnableStop \/ EnableJoin \/ EnableRun \/ Destroy \/ DestroyJoin
             \/ Top \/ Wake \/ Test \/ Time \/ Write \/ UNCHANGED vars
      PROVE  UNCHANGED m_vecMsg
  BY <1>6 DEF SetLevel, Enable, Tick, EnableStop, EnableJoin, EnableRun, Destroy,
              DestroyJoin, Top, Wake, Test, Time, Write, vars
<1>7. QED
  BY NextIsSteps, <1>1, <1>2, <1>3, <1>4, <1>5, <1>6 DEF Steps

-----------------------------------------------------------------------------
(* The writer thread is there exactly while the controller wants it.       *)

LEMMA WriterStep == TypeOK /\ WriterInv /\ [Next]_vars => WriterInv'
<1> SUFFICES ASSUME TypeOK, WriterInv, [Next]_vars
             PROVE  WriterInv'
  OBVIOUS
<1> USE DEF WriterInv
<1>1. ASSUME NEW l \in Logger,
             \/ Log(l) \/ Format(l) \/ TestFile(l) \/ Push(l) \/ Clear(l) \/ Notice(l)
      PROVE  WriterInv'
  BY <1>1 DEF Log, Format, TestFile, Push, Clear, Notice, ctlVars
<1>2. ASSUME NEW v \in Request, SetLevel(v) PROVE WriterInv'
  BY <1>2 DEF SetLevel
<1>3. ASSUME NEW f \in BOOLEAN, Enable(f) PROVE WriterInv'
  BY <1>3 DEF Enable
<1>4. CASE EnableStop \/ EnableJoin \/ EnableRun \/ EnableDrop \/ Destroy \/ DestroyJoin
  BY <1>4 DEF EnableStop, EnableJoin, EnableRun, EnableDrop, Destroy, DestroyJoin, TypeOK
<1>5. CASE Top \/ Wake \/ Test \/ Time \/ Swap \/ Write
  BY <1>5 DEF Top, Wake, Test, Time, Swap, Write, ctlVars
<1>6. CASE Tick \/ UNCHANGED vars
  BY <1>6 DEF Tick, vars, ctlVars
<1>7. QED
  BY NextIsSteps, <1>1, <1>2, <1>3, <1>4, <1>5, <1>6 DEF Steps

-----------------------------------------------------------------------------
(* The file of the writer.                                                 *)

LEMMA FileStep == TypeOK /\ WriterInv /\ FileInv /\ [Next]_vars => FileInv'
<1> SUFFICES ASSUME TypeOK, WriterInv, FileInv, [Next]_vars
             PROVE  FileInv'
  OBVIOUS
<1> USE DEF FileInv, OneFilePerHour
<1>1. ASSUME Time PROVE FileInv'
  <2>1. nHour' = clock % HoursPerDay /\ now' = clock
    BY <1>1 DEF Time
  <2>2. fp' = clock \/ fp' = NoFile \/ (fp' = fp /\ nHour = nHour')
    BY <1>1 DEF Time
  <2>3. fp' /= NoFile => nHour' = fp' % HoursPerDay
    BY <2>1, <2>2
  <2>4. ASSUME MaxHour < HoursPerDay, wpc' \in {"swap", "write"} PROVE fp' = now'
    <3>1. fp' /= NoFile
      BY <1>1, <2>4 DEF Time
    <3>2. fp' \in 0..MaxHour /\ clock \in 0..MaxHour
      BY <1>1, <3>1 DEF Time, TypeOK
    <3>3. \A h \in 0..MaxHour : h % HoursPerDay = h
      BY <2>4, Bounds, Day
    <3>4. fp' % HoursPerDay = clock % HoursPerDay
      BY <2>1, <2>3, <3>1
    <3>5. QED
      BY <2>1, <3>2, <3>3, <3>4
  <2>5. QED
    BY <2>3, <2>4
<1>2. CASE Top \/ Wake \/ Test \/ Swap \/ Write
  BY <1>2 DEF Top, Wake, Test, Swap, Write, fileVars
<1>3. CASE EnableRun
  BY <1>3 DEF EnableRun, TypeOK, WriterInv
<1>4. CASE EnableJoin \/ DestroyJoin
  BY <1>4 DEF EnableJoin, DestroyJoin, fileVars
<1>5. CASE UNCHANGED <<wpc, fileVars>>
  BY <1>5 DEF fileVars
<1>6. ASSUME NEW l \in Logger,
             \/ Log(l) \/ Format(l) \/ TestFile(l) \/ Push(l) \/ Clear(l) \/ Notice(l)
      PROVE  UNCHANGED <<wpc, fileVars>>
  BY <1>6 DEF Log, Format, TestFile, Push, Clear, Notice
<1>7. ASSUME \/ \E v \in Request : SetLevel(v)
             \/ \E f \in BOOLEAN : Enable(f)
             \/ Tick \/ EnableStop \/ EnableDrop \/ Destroy \/ UNCHANGED vars
      PROVE  UNCHANGED <<wpc, fileVars>>
  BY <1>7 DEF SetLevel, Enable, Tick, EnableStop, EnableDrop, Destroy, vars
<1>8. QED
  BY NextIsSteps, <1>1, <1>2, <1>3, <1>4, <1>5, <1>6, <1>7 DEF Steps
-----------------------------------------------------------------------------
(* The messages.  Only six steps move one.                                 *)

msgVars == <<disk, vec, m_vecMsg, pushed, dropped, m_cs>>

LEMMA MessageSteps ==
    [Next]_vars => \/ \E l \in Logger : Push(l) \/ Clear(l) \/ Notice(l)
                   \/ EnableDrop \/ Swap \/ Write
                   \/ UNCHANGED msgVars
<1> SUFFICES ASSUME [Next]_vars
             PROVE  \/ \E l \in Logger : Push(l) \/ Clear(l) \/ Notice(l)
                    \/ EnableDrop \/ Swap \/ Write
                    \/ UNCHANGED msgVars
  OBVIOUS
<1> USE DEF msgVars
<1>1. ASSUME NEW l \in Logger, Log(l) \/ Format(l) \/ TestFile(l) PROVE UNCHANGED msgVars
  BY <1>1 DEF Log, Format, TestFile
<1>2. ASSUME (\E v \in Request : SetLevel(v)) \/ (\E f \in BOOLEAN : Enable(f))
      PROVE  UNCHANGED msgVars
  BY <1>2 DEF SetLevel, Enable
<1>3. ASSUME Tick \/ EnableStop \/ EnableJoin \/ EnableRun \/ Destroy \/ DestroyJoin
      PROVE  UNCHANGED msgVars
  BY <1>3 DEF Tick, EnableStop, EnableJoin, EnableRun, Destroy, DestroyJoin
<1>4. ASSUME Top \/ Wake \/ Test \/ Time \/ UNCHANGED vars PROVE UNCHANGED msgVars
  BY <1>4 DEF Top, Wake, Test, Time, vars
<1>5. QED
  BY NextIsSteps, <1>1, <1>2, <1>3, <1>4 DEF Steps

LEMMA BatchStep == WriterInv /\ BatchInv /\ [Next]_vars => BatchInv'
<1> SUFFICES ASSUME WriterInv, BatchInv, [Next]_vars
             PROVE  BatchInv'
  OBVIOUS
<1> USE DEF BatchInv
<1>1. CASE Top \/ Wake \/ Test \/ Time \/ Swap \/ Write
  BY <1>1 DEF Top, Wake, Test, Time, Swap, Write
<1>2. CASE EnableJoin \/ EnableRun \/ DestroyJoin
  BY <1>2 DEF EnableJoin, EnableRun, DestroyJoin, WriterInv
<1>3. CASE UNCHANGED <<wpc, vec>>
  BY <1>3
<1>4. ASSUME NEW l \in Logger,
             \/ Log(l) \/ Format(l) \/ TestFile(l) \/ Push(l) \/ Clear(l) \/ Notice(l)
      PROVE  UNCHANGED <<wpc, vec>>
  BY <1>4 DEF Log, Format, TestFile, Push, Clear, Notice
<1>5. ASSUME \/ \E v \in Request : SetLevel(v)
             \/ \E f \in BOOLEAN : Enable(f)
             \/ Tick \/ EnableStop \/ EnableDrop \/ Destroy \/ UNCHANGED vars
      PROVE  UNCHANGED <<wpc, vec>>
  BY <1>5 DEF SetLevel, Enable, Tick, EnableStop, EnableDrop, Destroy, vars
<1>6. QED
  BY NextIsSteps, <1>1, <1>2, <1>3, <1>4, <1>5 DEF Steps

(* q may be the queue while n messages have been pushed.                   *)
QueueOrder(q, n) ==
    /\ Increasing(q) /\ Before(disk, q) /\ Before(vec, q)
    /\ UpTo(disk, n) /\ UpTo(vec, n) /\ UpTo(q, n)

LEMMA AppendQueueOrder ==
    ASSUME TypeOK, NEW q \in Seq(Message), NEW m \in Message, NEW n \in Nat, n < m.id,
           QueueOrder(q, n)
    PROVE  QueueOrder(Append(q, m), m.id) /\ Append(q, m) \in Seq(Message)
<1>1. Increasing(q) /\ Before(disk, q) /\ Before(vec, q) /\ UpTo(disk, n) /\ UpTo(vec, n) /\ UpTo(q, n)
  BY DEF QueueOrder
<1>2. disk \in Seq(Message) /\ vec \in Seq(Message) /\ m.id \in Nat
  BY IdsAreNumbers DEF TypeOK
<1>3. Increasing(Append(q, m)) /\ Before(disk, Append(q, m)) /\ UpTo(Append(q, m), m.id)
  BY <1>1, <1>2, AppendOrder
<1>4. Before(vec, Append(q, m))
  BY <1>1, <1>2, AppendOrder
<1>5. UpTo(disk, m.id) /\ UpTo(vec, m.id)
  BY <1>1, <1>2, IdsAreNumbers DEF UpTo
<1>6. QED
  BY <1>3, <1>4, <1>5, AppendElements DEF QueueOrder

LEMMA OrderStep == TypeOK /\ LockInv /\ OrderInv /\ [Next]_vars => OrderInv'
<1> SUFFICES ASSUME TypeOK, LockInv, OrderInv, [Next]_vars
             PROVE  OrderInv'
  OBVIOUS
<1>1. /\ Increasing(disk) /\ Increasing(vec) /\ Increasing(m_vecMsg)
      /\ Before(disk, vec) /\ Before(disk, m_vecMsg) /\ Before(vec, m_vecMsg)
      /\ UpTo(disk, pushed) /\ UpTo(vec, pushed) /\ UpTo(m_vecMsg, pushed)
  BY DEF OrderInv
<1>2. /\ disk \in Seq(Message) /\ vec \in Seq(Message) /\ m_vecMsg \in Seq(Message)
      /\ pushed \in Nat
  BY DEF TypeOK
<1>3. QueueOrder(m_vecMsg, pushed) /\ QueueOrder(<<>>, pushed) /\ <<>> \in Seq(Message)
  BY <1>1, EmptyOrder DEF QueueOrder
<1>4. ASSUME UNCHANGED <<disk, vec>>, QueueOrder(m_vecMsg', pushed')
      PROVE  OrderInv'
  BY <1>1, <1>4 DEF OrderInv, QueueOrder, Increasing, Before, UpTo
<1>5. ASSUME NEW l \in Logger, Push(l) PROVE OrderInv'
  <2> DEFINE m == [id |-> pushed + 1, level |-> level[l], notice |-> FALSE]
  <2>1. m \in Message /\ m.id = pushed + 1
    BY <1>2 DEF TypeOK, Message
  <2> HIDE DEF m
  <2>2. QueueOrder(Append(m_vecMsg, m), pushed + 1)
    BY <1>2, <1>3, <2>1, AppendQueueOrder
  <2>3. UNCHANGED <<disk, vec>> /\ m_vecMsg' = Append(m_vecMsg, m) /\ pushed' = pushed + 1
    BY <1>5 DEF Push, m
  <2>4. QED
    BY <1>4, <2>2, <2>3
<1>6. ASSUME NEW l \in Logger, Clear(l) PROVE OrderInv'
  BY <1>3, <1>4, <1>6 DEF Clear
<1>7. ASSUME NEW l \in Logger, Notice(l) PROVE OrderInv'
  <2> DEFINE said == NoticeLevel >= m_nLevel /\ m_bFile
             n    == IF said THEN pushed + 2 ELSE pushed + 1
             m    == [id |-> n, level |-> level[l], notice |-> FALSE]
             m0   == [id |-> pushed + 1, level |-> NoticeLevel, notice |-> TRUE]
  <2>1. m \in Message /\ m.id = n /\ m0 \in Message /\ m0.id = pushed + 1
    BY <1>2 DEF TypeOK, Message, NoticeLevel
  <2>2. m_vecMsg' = (IF said THEN Append(Append(m_vecMsg, m0), m) ELSE Append(m_vecMsg, m))
    BY <1>7 DEF Notice
  <2>3. UNCHANGED <<disk, vec>> /\ pushed' = n
    BY <1>7 DEF Notice
  <2>4. said => n = pushed + 2
    OBVIOUS
  <2>5. ~said => n = pushed + 1
    OBVIOUS
  <2> HIDE DEF m, m0, n, said
  <2>6. CASE said
    <3>1. QueueOrder(Append(m_vecMsg, m0), pushed + 1) /\ Append(m_vecMsg, m0) \in Seq(Message)
      BY <1>2, <1>3, <2>1, AppendQueueOrder
    <3>2. pushed + 1 \in Nat /\ pushed + 1 < m.id
      BY <1>2, <2>1, <2>4, <2>6
    <3>3. QueueOrder(Append(Append(m_vecMsg, m0), m), m.id)
      BY <2>1, <3>1, <3>2, AppendQueueOrder
    <3>4. QED
      BY <1>4, <2>1, <2>2, <2>3, <2>6, <3>3
  <2>7. CASE ~said
    <3>1. pushed < m.id
      BY <1>2, <2>1, <2>5, <2>7
    <3>2. QueueOrder(Append(m_vecMsg, m), m.id)
      BY <1>2, <1>3, <2>1, <3>1, AppendQueueOrder
    <3>3. QED
      BY <1>4, <2>1, <2>2, <2>3, <2>7, <3>2
  <2>8. QED
    BY <2>6, <2>7
<1>8. CASE EnableDrop
  BY <1>3, <1>4, <1>8 DEF EnableDrop
<1>9. CASE Swap
  <2>1. vec' = m_vecMsg /\ m_vecMsg' = <<>> /\ disk' = disk /\ pushed' = pushed
    BY <1>9 DEF Swap
  <2>2. QED
    BY <1>1, <2>1, EmptyOrder DEF OrderInv
<1>10. CASE Write
  <2>1. disk' = disk \o vec /\ vec' = <<>> /\ m_vecMsg' = m_vecMsg /\ pushed' = pushed
    BY <1>10 DEF Write
  <2>2. Increasing(disk \o vec)
    BY <1>1, <1>2, JoinOrder
  <2>3. Before(disk \o vec, m_vecMsg)
    BY <1>1, <1>2, JoinElements DEF Before
  <2>4. UpTo(disk \o vec, pushed)
    BY <1>1, <1>2, JoinElements DEF UpTo
  <2>5. QED
    BY <1>1, <2>1, <2>2, <2>3, <2>4, EmptyOrder DEF OrderInv
<1>11. CASE UNCHANGED msgVars
  BY <1>3, <1>4, <1>11 DEF msgVars
<1>12. QED
  BY MessageSteps, <1>5, <1>6, <1>7, <1>8, <1>9, <1>10, <1>11
LEMMA NoticeStep ==
    TypeOK /\ LockInv /\ BatchInv /\ OrderInv /\ NoticeInv /\ [Next]_vars => NoticeInv'
<1> SUFFICES ASSUME TypeOK, LockInv, BatchInv, OrderInv, NoticeInv, [Next]_vars
             PROVE  NoticeInv'
  OBVIOUS
<1>1. /\ disk \in Seq(Message) /\ vec \in Seq(Message) /\ m_vecMsg \in Seq(Message)
      /\ pushed \in Nat
  BY DEF TypeOK
<1>2. /\ Traced(disk) /\ Traced(vec) /\ Traced(m_vecMsg)
      /\ m_cs = NOBODY => pushed = 0 \/ pushed \in Known
  BY DEF NoticeInv
<1>3. ASSUME UNCHANGED <<disk, vec>>, Known \subseteq Known'
      PROVE  Traced(disk)' /\ Traced(vec)'
  BY <1>2, <1>3 DEF Traced
<1>4. ASSUME NEW l \in Logger, Push(l) PROVE NoticeInv'
  <2> DEFINE m == [id |-> pushed + 1, level |-> level[l], notice |-> FALSE]
  <2>1. m \in Message /\ m.id = pushed + 1
    BY <1>1 DEF TypeOK, Message
  <2> HIDE DEF m
  <2>2. /\ UNCHANGED <<disk, vec, dropped>> /\ m_vecMsg' = Append(m_vecMsg, m)
        /\ pushed' = pushed + 1 /\ m_cs = NOBODY
    BY <1>4 DEF Push, m
  <2>3. Ids(m_vecMsg') = Ids(m_vecMsg) \cup {pushed + 1}
    BY <1>1, <2>1, <2>2, AppendElements
  <2>4. Known' = Known \cup {pushed + 1}
    BY <2>2, <2>3 DEF Known, Ids
  <2>5. Traced(m_vecMsg)'
    <3>1. SUFFICES ASSUME NEW k \in 1..Len(Append(m_vecMsg, m))
                   PROVE  LET e == Append(m_vecMsg, m)[k]
                          IN  e.id = 1 \/ e.notice \/ (e.id - 1) \in Known'
      BY <2>2 DEF Traced
    <3>2. CASE k \in 1..Len(m_vecMsg) /\ Append(m_vecMsg, m)[k] = m_vecMsg[k]
      BY <1>2, <2>4, <3>2 DEF Traced
    <3>3. CASE Append(m_vecMsg, m)[k] = m
      BY <1>1, <1>2, <2>1, <2>2, <2>4, <3>3
    <3>4. QED
      BY <1>1, <2>1, <3>2, <3>3, AppendElements
  <2>6. QED
    BY <1>3, <2>2, <2>4, <2>5 DEF NoticeInv
<1>5. ASSUME NEW l \in Logger, Clear(l) PROVE NoticeInv'
  <2>1. /\ UNCHANGED <<disk, vec, dropped, pushed>> /\ m_vecMsg' = <<>> /\ m_cs' = l
    BY <1>5 DEF Clear
  <2>2. \A n \in Known : n \in Known' \/ n \in Ids(m_vecMsg)
    BY <2>1 DEF Known, Ids
  <2>3. ASSUME NEW q \in Seq(Message), Before(q, m_vecMsg), Traced(q),
               NEW k \in 1..Len(q), ~(q[k].id = 1 \/ q[k].notice)
        PROVE  (q[k].id - 1) \in Known'
    <3>1. (q[k].id - 1) \in Known
      BY <2>3 DEF Traced
    <3>2. \A j \in 1..Len(m_vecMsg) : q[k].id < m_vecMsg[j].id
      BY <2>3 DEF Before
    <3>3. q[k].id \in Nat /\ \A j \in 1..Len(m_vecMsg) : m_vecMsg[j].id \in Nat
      BY <1>1, <2>3, IdsAreNumbers
    <3>4. (q[k].id - 1) \notin Ids(m_vecMsg)
      BY <3>2, <3>3 DEF Ids
    <3>5. QED
      BY <2>2, <3>1, <3>4
  <2>4. Traced(disk)'
    BY <1>1, <1>2, <2>1, <2>3 DEF Traced, OrderInv
  <2>5. Traced(vec)'
    BY <1>1, <1>2, <2>1, <2>3 DEF Traced, OrderInv
  <2>6. Traced(m_vecMsg)'
    BY <2>1 DEF Traced
  <2>7. m_cs' /= NOBODY
    BY <2>1, Free
  <2>8. QED
    BY <2>4, <2>5, <2>6, <2>7 DEF NoticeInv
<1>6. ASSUME NEW l \in Logger, Notice(l) PROVE NoticeInv'
  <2> DEFINE n  == IF m_bFile THEN pushed + 2 ELSE pushed + 1
             m  == [id |-> n, level |-> level[l], notice |-> FALSE]
             m0 == [id |-> pushed + 1, level |-> NoticeLevel, notice |-> TRUE]
  <2>1. m \in Message /\ m.id = n /\ m0 \in Message /\ m0.id = pushed + 1 /\ m0.notice
    BY <1>1 DEF TypeOK, Message, NoticeLevel
  <2>2. m_vecMsg = <<>>
    BY <1>6 DEF Notice, LockInv
  <2>3. NoticeLevel >= m_nLevel
    BY DEF TypeOK, NoticeLevel
  <2>4. m_vecMsg' = (IF m_bFile THEN <<m0, m>> ELSE <<m>>)
    <3>1. m_vecMsg' = (IF m_bFile THEN Append(Append(m_vecMsg, m0), m) ELSE Append(m_vecMsg, m))
      BY <1>6, <2>3 DEF Notice
    <3> HIDE DEF m, m0, n
    <3>2. Append(<<>>, m) = <<m>> /\ Append(<<>>, m0) = <<m0>> /\ Append(<<m0>>, m) = <<m0, m>>
      BY <2>1, ShortSequences
    <3>3. QED
      BY <2>2, <3>1, <3>2
  <2>5. /\ UNCHANGED <<disk, vec>> /\ pushed' = n
        /\ dropped' = (IF m_bFile THEN dropped ELSE dropped \cup {pushed})
    BY <1>6, <2>3 DEF Notice
  <2>6. m_bFile => n = pushed + 2
    OBVIOUS
  <2>7. ~m_bFile => n = pushed + 1
    OBVIOUS
  <2> HIDE DEF m, m0, n
  <2>8. Ids(m_vecMsg) = {}
    BY <2>2, EmptyOrder
  <2>9. Known \subseteq Known'
    BY <2>5, <2>8 DEF Known, Ids
  <2>10. CASE m_bFile
    <3>1. m_vecMsg' = <<m0, m>>
      BY <2>4, <2>10
    <3>2. Ids(m_vecMsg)' = {pushed + 1, n}
      BY <2>1, <3>1 DEF Ids
    <3>3. pushed + 1 \in Known' /\ pushed' \in Known'
      BY <2>5, <3>2 DEF Known
    <3>4. \A k \in 1..Len(m_vecMsg') :
             m_vecMsg'[k] = m0 \/ (m_vecMsg'[k] = m /\ m_vecMsg'[k].id - 1 = pushed + 1)
      BY <1>1, <2>1, <2>6, <2>10, <3>1
    <3>5. Traced(m_vecMsg)'
      BY <2>1, <3>3, <3>4 DEF Traced
    <3>6. QED
      BY <1>3, <2>5, <2>9, <3>3, <3>5 DEF NoticeInv
  <2>11. CASE ~m_bFile
    <3>1. m_vecMsg' = <<m>>
      BY <2>4, <2>11
    <3>2. Ids(m_vecMsg)' = {n}
      BY <2>1, <3>1 DEF Ids
    <3>3. pushed \in Known' /\ pushed' \in Known'
      BY <2>5, <2>11, <3>2 DEF Known
    <3>4. \A k \in 1..Len(m_vecMsg') : m_vecMsg'[k] = m /\ m_vecMsg'[k].id - 1 = pushed
      <4>1. m.id - 1 = pushed
        BY <1>1, <2>1, <2>7, <2>11
      <4>2. \A k \in 1..Len(<<m>>) : <<m>>[k] = m
        OBVIOUS
      <4>3. QED
        BY <3>1, <4>1, <4>2
    <3>5. Traced(m_vecMsg)'
      BY <3>3, <3>4 DEF Traced
    <3>6. QED
      BY <1>3, <2>5, <2>9, <3>3, <3>5 DEF NoticeInv
  <2>12. QED
    BY <2>10, <2>11
<1>7. CASE EnableDrop
  <2>1. /\ UNCHANGED <<disk, vec, pushed, m_cs>> /\ m_vecMsg' = <<>>
        /\ dropped' = dropped \cup Ids(m_vecMsg)
    BY <1>7 DEF EnableDrop
  <2>2. Known' = Known
    BY <2>1 DEF Known, Ids
  <2>3. QED
    BY <1>2, <1>3, <2>1, <2>2 DEF NoticeInv, Traced
<1>8. CASE Swap
  <2>1. /\ UNCHANGED <<disk, pushed, dropped, m_cs>> /\ vec' = m_vecMsg /\ m_vecMsg' = <<>>
    BY <1>8 DEF Swap
  <2>2. vec = <<>>
    BY <1>8 DEF Swap, BatchInv
  <2>3. Known' = Known
    BY <2>1, <2>2, EmptyOrder DEF Known, Ids
  <2>4. QED
    BY <1>2, <2>1, <2>3 DEF NoticeInv, Traced
<1>9. CASE Write
  <2>1. /\ UNCHANGED <<m_vecMsg, pushed, dropped, m_cs>> /\ disk' = disk \o vec /\ vec' = <<>>
    BY <1>9 DEF Write
  <2>2. Ids(disk') = Ids(disk) \cup Ids(vec)
    BY <1>1, <2>1, JoinIds
  <2>3. Known' = Known
    BY <2>1, <2>2, EmptyOrder DEF Known, Ids
  <2>4. \A k \in 1..Len(disk \o vec) :
           LET e == (disk \o vec)[k] IN e.id = 1 \/ e.notice \/ (e.id - 1) \in Known
    BY <1>1, <1>2, JoinElements DEF Traced
  <2>5. QED
    BY <1>2, <2>1, <2>3, <2>4 DEF NoticeInv, Traced
<1>10. CASE UNCHANGED msgVars
  <2>1. Known' = Known /\ UNCHANGED <<disk, vec, m_vecMsg, pushed, m_cs>>
    BY <1>10 DEF msgVars, Known, Ids
  <2>2. QED
    BY <1>2, <2>1 DEF NoticeInv, Traced
<1>11. QED
  BY MessageSteps, <1>4, <1>5, <1>6, <1>7, <1>8, <1>9, <1>10

-----------------------------------------------------------------------------
LEMMA InitInv == Init => IInv
<1> SUFFICES ASSUME Init
             PROVE  IInv
  OBVIOUS
<1> USE Capacity, Levels, Free, Bounds, Day DEF Init
<1>1. TypeOK
  <2>1. <<>> \in Seq(Message)
    OBVIOUS
  <2>2. -1 \in -1..(HoursPerDay - 1) /\ 0 \in 0..MaxHour /\ 0 \in 0..MaxCalls
    OBVIOUS
  <2>3. /\ lpc \in [Logger -> {"idle", "format", "test", "lock", "notice"}]
        /\ level \in [Logger -> 1..4]
    OBVIOUS
  <2>4. m_bFile \in BOOLEAN /\ m_bStop \in BOOLEAN
    OBVIOUS
  <2>5. /\ m_nLevel \in 1..4 /\ m_cs \in Logger \cup {NOBODY}
        /\ fp \in 0..MaxHour \cup {NoFile}
        /\ pushed \in Nat /\ dropped \subseteq Nat
    OBVIOUS
  <2>6. QED
    BY <2>1, <2>2, <2>3, <2>4, <2>5 DEF TypeOK
<1>2. LockInv /\ WriterInv /\ BatchInv /\ FileInv
  BY DEF LockInv, WriterInv, BatchInv, FileInv, OneFilePerHour
<1>3. QueueBounded
  BY DEF QueueBounded
<1>4. OrderInv
  BY EmptyOrder DEF OrderInv
<1>5. NoticeInv
  BY DEF NoticeInv, Traced
<1>6. QED
  BY <1>1, <1>2, <1>3, <1>4, <1>5 DEF IInv

(* IInv is inductive; every theorem below is read off it.                  *)
THEOREM Invariance == Spec => []IInv
<1>1. IInv /\ [Next]_vars => IInv'
  BY TypeStep, LockStep, WriterStep, BatchStep, FileStep, BoundStep, OrderStep, NoticeStep
     DEF IInv
<1>2. QED
  BY InitInv, <1>1, PTL DEF Spec

(* The variables keep their types: the mutex has at most one holder, the
   level stays within 1..4 whatever SetLevel is asked for.                  *)
THEOREM TypeCorrect == Spec => []TypeOK
<1>1. IInv => TypeOK
  BY DEF IInv
<1>2. QED
  BY <1>1, Invariance, PTL

(* The queue never exceeds its limit by more than one message.             *)
THEOREM QueueIsBounded == Spec => []QueueBounded
<1>1. IInv => QueueBounded
  BY DEF IInv
<1>2. QED
  BY <1>1, Invariance, PTL

(* After Enable(_, false) no thread writes.                                *)
THEOREM OffIsFinal == Spec => []OffMeansOff
<1>1. IInv => OffMeansOff
  BY DEF IInv, WriterInv, OffMeansOff
<1>2. QED
  BY <1>1, Invariance, PTL

(* The writer uses the file of the hour while less than a day has passed.  *)
THEOREM HourlyFile == MaxHour < HoursPerDay => (Spec => []OneFilePerHour)
<1>1. SUFFICES ASSUME MaxHour < HoursPerDay
               PROVE  Spec => []OneFilePerHour
  OBVIOUS
<1>2. IInv => OneFilePerHour
  BY <1>1 DEF IInv, FileInv
<1>3. QED
  BY <1>2, Invariance, PTL

LEMMA ChainParts ==
    ASSUME TypeOK
    PROVE  /\ disk \in Seq(Message) /\ vec \in Seq(Message) /\ m_vecMsg \in Seq(Message)
           /\ disk \o vec \in Seq(Message)
BY DEF TypeOK

(* Messages reach the file in the order of their pushes, none twice.       *)
THEOREM FifoOrder == Spec => []Fifo
<1>1. IInv => Fifo
  <2>1. SUFFICES ASSUME IInv
                 PROVE  Fifo
    OBVIOUS
  <2>2. TypeOK /\ OrderInv
    BY <2>1 DEF IInv
  <2>3. Increasing(disk \o vec)
    BY <2>2, ChainParts, JoinOrder DEF OrderInv
  <2>4. Before(disk \o vec, m_vecMsg)
    BY <2>2, ChainParts, JoinElements DEF OrderInv, Before
  <2>5. Increasing(m_vecMsg)
    BY <2>2 DEF OrderInv
  <2>6. Increasing(Chain)
    BY <2>2, <2>3, <2>4, <2>5, ChainParts, JoinOrder DEF Chain
  <2>7. QED
    BY <2>6 DEF Increasing, Fifo
<1>2. QED
  BY <1>1, Invariance, PTL

(* A lost message leaves a notice, unless file output was being turned off. *)
THEOREM LossLeavesNotice == Spec => []LossIsNoticed
<1>1. IInv => LossIsNoticed
  <2>1. SUFFICES ASSUME IInv
                 PROVE  LossIsNoticed
    OBVIOUS
  <2>2. TypeOK /\ NoticeInv
    BY <2>1 DEF IInv
  <2>3. Ids(Chain) = Ids(disk) \cup Ids(vec) \cup Ids(m_vecMsg)
    BY <2>2, ChainParts, JoinIds DEF Chain
  <2>4. Known = dropped \cup Ids(Chain)
    BY <2>3 DEF Known
  <2>5. \A k \in 1..Len(disk \o vec) :
           LET e == (disk \o vec)[k] IN e.id = 1 \/ e.notice \/ (e.id - 1) \in Known
    BY <2>2, ChainParts, JoinElements DEF Traced, NoticeInv
  <2>6. \A k \in 1..Len(Chain) :
           LET e == Chain[k] IN e.id = 1 \/ e.notice \/ (e.id - 1) \in Known
    BY <2>2, <2>5, ChainParts, JoinElements DEF Traced, NoticeInv, Chain
  <2>7. QED
    BY <2>4, <2>6 DEF LossIsNoticed
<1>2. QED
  BY <1>1, Invariance, PTL
=============================================================================
