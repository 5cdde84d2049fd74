-------------------------------- MODULE LogSrv --------------------------------
(***************************************************************************)
(* CLogSrv (src/base/Log.cpp): any thread appends messages to m_vecMsg     *)
(* under m_cs, a writer thread wakes once a second and moves them to the   *)
(* file of the hour, and a controller switches file output on and off,     *)
(* which stops and restarts the writer.  m_bFile, m_bStop, m_nLevel and    *)
(* m_vecMsg.empty() are read without the lock, each in a step of its own.  *)
(*                                                                         *)
(* A message is its number in the order of the pushes; its text, and what  *)
(* printf shows on the console, are left out.                              *)
(***************************************************************************)
EXTENDS Integers, Sequences, FiniteSets, TLC

CONSTANTS
    Logger,         \* threads that log
    NOBODY,         \* m_cs is free
    Cap,            \* 500000: a longer queue is cleared
    Level,          \* levels messages are logged at, within 1..4
    Request,        \* bound: arguments SetLevel is called with
    MaxMsgs,        \* bound: messages pushed
    MaxCalls,       \* bound: calls of Enable and SetLevel
    MaxHour,        \* bound: hours that pass
    HoursPerDay,    \* 24
    MayFail         \* which of "fopen" and "run" (pthread_create) may fail

ASSUME Capacity == Cap \in Nat \ {0}
ASSUME Levels == Level \subseteq 1..4 /\ Request \subseteq Nat
ASSUME Free == NOBODY \notin Logger
ASSUME Bounds == MaxMsgs \in Nat /\ MaxCalls \in Nat /\ MaxHour \in Nat
ASSUME Day == HoursPerDay \in Nat \ {0}
ASSUME Failures == MayFail \subseteq {"fopen", "run"}

NoFile == -1

VARIABLES
    m_bFile, m_bStop, m_nLevel,
    m_cs,           \* the thread that holds the mutex, or NOBODY
    m_vecMsg,
    lpc, level,     \* [Logger -> ...]: place in WriteLog, the message's level
    wpc,            \* writer: "none" is m_hThread = NULL, "done" not yet joined
    fp, nHour,      \* writer: the hour its file is for or NoFile, nHour
    now, vec,       \* writer: the hour it last read, its batch
    ctl, calls,     \* controller: place in Enable, calls made
    clock,          \* hours since the start of day 0
    pushed,         \* history: messages pushed so far
    dropped,        \* history: messages given up because file output went off
    disk            \* history: what was written, in order

logVars  == <<lpc, level>>
fileVars == <<fp, nHour, now>>
ctlVars  == <<m_bFile, m_bStop, m_nLevel, ctl, calls>>
vars == <<m_cs, m_vecMsg, logVars, wpc, fileVars, vec, ctlVars, clock, pushed,
          dropped, disk>>

Message == [id : Nat \ {0}, level : 1..4, notice : BOOLEAN]
Ids(q)  == {q[k].id : k \in 1..Len(q)}

TypeOK ==
    /\ m_bFile \in BOOLEAN /\ m_bStop \in BOOLEAN /\ m_nLevel \in 1..4
    /\ m_cs \in Logger \cup {NOBODY}
    /\ m_vecMsg \in Seq(Message) /\ vec \in Seq(Message) /\ disk \in Seq(Message)
    /\ lpc \in [Logger -> {"idle", "format", "test", "lock", "notice"}]
    /\ level \in [Logger -> 1..4]
    /\ wpc \in {"none", "top", "sleep", "test", "time", "swap", "write", "done"}
    /\ fp \in 0..MaxHour \cup {NoFile} /\ nHour \in -1..(HoursPerDay - 1)
    /\ now \in 0..MaxHour /\ clock \in 0..MaxHour
    /\ ctl \in {"idle", "stop", "join", "run", "drop", "bye", "gone"}
    /\ calls \in 0..MaxCalls
    /\ pushed \in Nat /\ dropped \subseteq Nat

Init ==
    /\ m_bFile = FALSE /\ m_bStop = TRUE /\ m_nLevel = 3
    /\ m_cs = NOBODY /\ m_vecMsg = <<>>
    /\ lpc = [l \in Logger |-> "idle"] /\ level = [l \in Logger |-> 1]
    /\ wpc = "none" /\ fp = NoFile /\ nHour = -1 /\ now = 0 /\ vec = <<>>
    /\ ctl = "idle" /\ calls = 0
    /\ clock = 0
    /\ pushed = 0 /\ dropped = {} /\ disk = <<>>

Tick ==
    /\ clock < MaxHour
    /\ clock' = clock + 1
    /\ UNCHANGED <<m_cs, m_vecMsg, logVars, wpc, fileVars, vec, ctlVars, pushed,
                   dropped, disk>>

-----------------------------------------------------------------------------
(* A thread that logs.                                                     *)

LogPc(l, label) == lpc' = [lpc EXCEPT ![l] = label]

(* CLogObj::operator(): below the level nothing happens.  A call may push
   two messages, so it starts only while MaxMsgs leaves room for them.      *)
Log(l) ==
    /\ lpc[l] = "idle" /\ ctl /= "gone"
    /\ pushed + 2 * Cardinality({k \in Logger : lpc[k] /= "idle"}) + 2 <= MaxMsgs
    /\ \E v \in Level :
          /\ v >= m_nLevel
          /\ level' = [level EXCEPT ![l] = v]
    /\ LogPc(l, "format")
    /\ UNCHANGED <<m_cs, m_vecMsg, wpc, fileVars, vec, ctlVars, clock, pushed,
                   dropped, disk>>

(* WriteLog tests the level again ...                                      *)
Format(l) ==
    /\ lpc[l] = "format"
    /\ LogPc(l, IF level[l] < m_nLevel THEN "idle" ELSE "test")
    /\ UNCHANGED <<level, m_cs, m_vecMsg, wpc, fileVars, vec, ctlVars, clock,
                   pushed, dropped, disk>>

(* ... and after printf whether to go on to the queue.                     *)
TestFile(l) ==
    /\ lpc[l] = "test"
    /\ LogPc(l, IF m_bFile THEN "lock" ELSE "idle")
    /\ UNCHANGED <<level, m_cs, m_vecMsg, wpc, fileVars, vec, ctlVars, clock,
                   pushed, dropped, disk>>

(* m_vecMsg.size() > 500000.                                               *)
FullNever == FALSE

Full == Len(m_vecMsg) > Cap

(* The usual case, lock to unlock.                                         *)
Push(l) ==
    /\ lpc[l] = "lock" /\ m_cs = NOBODY
    /\ ~Full
    /\ m_vecMsg' = Append(m_vecMsg, [id |-> pushed + 1, level |-> level[l], notice |-> FALSE])
    /\ pushed' = pushed + 1
    /\ LogPc(l, "idle")
    /\ UNCHANGED <<level, m_cs, wpc, fileVars, vec, ctlVars, clock, dropped, disk>>

(* A full queue is cleared ...                                             *)
Clear(l) ==
    /\ lpc[l] = "lock" /\ m_cs = NOBODY
    /\ Full
    /\ m_vecMsg' = <<>>
    /\ m_cs' = l
    /\ LogPc(l, "notice")
    /\ UNCHANGED <<level, wpc, fileVars, vec, ctlVars, clock, pushed, dropped, disk>>

NoticeLevelWarn == 3

NoticeLevel == 4

(* ... and WriteLog calls itself at level 4, still holding the recursive
   mutex, to say so; the message that met the full queue comes after it.    *)
Notice(l) ==
    LET said == NoticeLevel >= m_nLevel /\ m_bFile
        next == IF said THEN pushed + 2 ELSE pushed + 1
        msg  == [id |-> next, level |-> level[l], notice |-> FALSE]
    IN  /\ lpc[l] = "notice"
        /\ m_vecMsg' = IF said
                       THEN Append(Append(m_vecMsg, [id |-> pushed + 1, level |-> NoticeLevel, notice |-> TRUE]), msg)
                       ELSE Append(m_vecMsg, msg)
        /\ dropped' = IF m_bFile THEN dropped ELSE dropped \cup {pushed}
        /\ pushed' = next
        /\ m_cs' = NOBODY
        /\ LogPc(l, "idle")
        /\ UNCHANGED <<level, wpc, fileVars, vec, ctlVars, clock, disk>>

-----------------------------------------------------------------------------
(* The controller: SetLevel, Enable(p, f) and the destructor.              *)

Clamp(v) == IF v < 1 THEN 1 ELSE IF v > 4 THEN 4 ELSE v

SetLevel(v) ==
    /\ ctl = "idle" /\ calls < MaxCalls
    /\ calls' = calls + 1
    /\ m_nLevel' = Clamp(v)
    /\ UNCHANGED <<m_cs, m_vecMsg, logVars, wpc, fileVars, vec, m_bFile, m_bStop,
                   ctl, clock, pushed, dropped, disk>>

Enable(f) ==
    /\ ctl = "idle" /\ calls < MaxCalls
    /\ calls' = calls + 1
    /\ m_bFile' = f
    /\ ctl' = "stop"
    /\ UNCHANGED <<m_cs, m_vecMsg, logVars, wpc, fileVars, vec, m_bStop, m_nLevel,
                   clock, pushed, dropped, disk>>

EnableForgetsStop ==
    /\ ctl = "stop"
    /\ ctl' = "join"
    /\ UNCHANGED <<m_cs, m_vecMsg, logVars, wpc, fileVars, vec, m_bFile, m_bStop,
                   m_nLevel, calls, clock, pushed, dropped, disk>>

EnableStop ==
    /\ ctl = "stop"
    /\ m_bStop' = TRUE
    /\ ctl' = "join"
    /\ UNCHANGED <<m_cs, m_vecMsg, logVars, wpc, fileVars, vec, m_bFile, m_nLevel,
                   calls, clock, pushed, dropped, disk>>

EnableWithoutJoin ==
    /\ ctl = "join"
    /\ ctl' = IF m_bFile THEN "run" ELSE "drop"
    /\ UNCHANGED <<m_cs, m_vecMsg, logVars, wpc, fileVars, vec, m_bFile, m_bStop,
                   m_nLevel, calls, clock, pushed, dropped, disk>>

EnableJoin ==
    /\ ctl = "join" /\ wpc \in {"none", "done"}
    /\ wpc' = "none"
    /\ ctl' = IF m_bFile THEN "run" ELSE "drop"
    /\ UNCHANGED <<m_cs, m_vecMsg, logVars, fileVars, vec, m_bFile, m_bStop,
                   m_nLevel, calls, clock, pushed, dropped, disk>>

(* Run() starts Routine, whose locals are new; its result is not looked at. *)
EnableRunStopped ==
    /\ ctl = "run"
    /\ \/ wpc' = "top"
       \/ "run" \in MayFail /\ wpc' = wpc
    /\ fp' = NoFile /\ nHour' = -1
    /\ ctl' = "idle"
    /\ UNCHANGED <<m_cs, m_vecMsg, logVars, now, vec, m_bFile, m_bStop, m_nLevel,
                   calls, clock, pushed, dropped, disk>>

EnableRun ==
    /\ ctl = "run"
    /\ m_bStop' = FALSE
    /\ \/ wpc' = "top"
       \/ "run" \in MayFail /\ wpc' = wpc
    /\ fp' = NoFile /\ nHour' = -1
    /\ ctl' = "idle"
    /\ UNCHANGED <<m_cs, m_vecMsg, logVars, now, vec, m_bFile, m_nLevel, calls,
                   clock, pushed, dropped, disk>>

EnableDrop ==
    /\ ctl = "drop" /\ m_cs = NOBODY
    /\ dropped' = dropped \cup Ids(m_vecMsg)
    /\ m_vecMsg' = <<>>
    /\ ctl' = "idle"
    /\ UNCHANGED <<m_cs, logVars, wpc, fileVars, vec, m_bFile, m_bStop, m_nLevel,
                   calls, clock, pushed, disk>>

(* ~CLogSrv at the end of the process: what is queued is not written.      *)
Destroy ==
    /\ ctl = "idle" /\ \A l \in Logger : lpc[l] = "idle"
    /\ m_bStop' = TRUE
    /\ ctl' = "bye"
    /\ UNCHANGED <<m_cs, m_vecMsg, logVars, wpc, fileVars, vec, m_bFile, m_nLevel,
                   calls, clock, pushed, dropped, disk>>

DestroyJoin ==
    /\ ctl = "bye" /\ wpc \in {"none", "done"} /\ \A l \in Logger : lpc[l] = "idle"
    /\ wpc' = "none"
    /\ ctl' = "gone"
    /\ UNCHANGED <<m_cs, m_vecMsg, logVars, fileVars, vec, m_bFile, m_bStop,
                   m_nLevel, calls, clock, pushed, dropped, disk>>

-----------------------------------------------------------------------------
(* The writer thread, Routine.                                             *)

Top ==
    /\ wpc = "top"
    /\ IF m_bStop THEN wpc' = "done" /\ fp' = NoFile
                  ELSE wpc' = "sleep" /\ fp' = fp
    /\ UNCHANGED <<m_cs, m_vecMsg, logVars, nHour, now, vec, ctlVars, clock, pushed,
                   dropped, disk>>

(* After Sleep(1000): m_vecMsg.empty() without the lock.                   *)
Wake ==
    /\ wpc = "sleep"
    /\ wpc' = IF m_vecMsg = <<>> THEN "top" ELSE "test"
    /\ UNCHANGED <<m_cs, m_vecMsg, logVars, fileVars, vec, ctlVars, clock, pushed,
                   dropped, disk>>

Test ==
    /\ wpc = "test"
    /\ IF m_bStop THEN wpc' = "done" /\ fp' = NoFile
                  ELSE wpc' = "time" /\ fp' = fp
    /\ UNCHANGED <<m_cs, m_vecMsg, logVars, nHour, now, vec, ctlVars, clock, pushed,
                   dropped, disk>>

(* The hour of the day decides whether to reopen; the name of the new file
   has the date too.  nHour is set even when fopen fails.                   *)
TimeReopensNever ==
    /\ wpc = "time"
    /\ now' = clock
    /\ nHour' = clock % HoursPerDay
    /\ fp' = IF fp = NoFile THEN clock ELSE fp
    /\ wpc' = IF fp' = NoFile THEN "top" ELSE "swap"
    /\ UNCHANGED <<m_cs, m_vecMsg, logVars, vec, ctlVars, clock, pushed, dropped, disk>>

Time ==
    /\ wpc = "time"
    /\ now' = clock
    /\ nHour' = clock % HoursPerDay
    /\ IF nHour = nHour' THEN fp' = fp
       ELSE \/ fp' = clock
            \/ "fopen" \in MayFail /\ fp' = NoFile
    /\ wpc' = IF fp' = NoFile THEN "top" ELSE "swap"
    /\ UNCHANGED <<m_cs, m_vecMsg, logVars, vec, ctlVars, clock, pushed, dropped, disk>>

SwapCopies ==
    /\ wpc = "swap" /\ m_cs = NOBODY
    /\ vec' = m_vecMsg
    /\ wpc' = "write"
    /\ UNCHANGED <<m_cs, m_vecMsg, logVars, fileVars, ctlVars, clock, pushed, dropped,
                   disk>>

Swap ==
    /\ wpc = "swap" /\ m_cs = NOBODY
    /\ vec' = m_vecMsg /\ m_vecMsg' = <<>>
    /\ wpc' = "write"
    /\ UNCHANGED <<m_cs, logVars, fileVars, ctlVars, clock, pushed, dropped, disk>>

Write ==
    /\ wpc = "write"
    /\ disk' = disk \o vec /\ vec' = <<>>
    /\ wpc' = "top"
    /\ UNCHANGED <<m_cs, m_vecMsg, logVars, fileVars, ctlVars, clock, pushed, dropped>>

-----------------------------------------------------------------------------
LogCall(l) == Format(l) \/ TestFile(l) \/ Push(l) \/ Clear(l) \/ Notice(l)
Finish == EnableStop \/ EnableJoin \/ EnableRun \/ EnableDrop \/ DestroyJoin
Control == (\E v \in Request : SetLevel(v)) \/ (\E f \in BOOLEAN : Enable(f)) \/ Destroy \/ Finish
Routine == Top \/ Wake \/ Test \/ Time \/ Swap \/ Write

Next ==
    \/ Tick
    \/ \E l \in Logger : Log(l) \/ LogCall(l)
    \/ Control
    \/ Routine

Spec == Init /\ [][Next]_vars

(* Threads run; a thread that waits for m_cs gets it in the end.  Nothing
   obliges anybody to log, to call Enable or to end the process.            *)
FairSpec ==
    /\ Spec
    /\ \A l \in Logger : SF_vars(LogCall(l))
    /\ SF_vars(Finish) /\ SF_vars(Routine)

-----------------------------------------------------------------------------
Chain == disk \o vec \o m_vecMsg

(* The queue stays at most one longer than the limit WriteLog tests, 500001
   messages, also while the writer cannot open its file (Log.cpp:107).      *)
QueueBounded == Len(m_vecMsg) <= Cap + 1

(* File, batch and queue together hold the messages in the order they were
   pushed and none twice, over any number of restarts of the writer
   (the swap under the lock, Log.cpp:185-188).                              *)
Fifo == \A j, k \in 1..Len(Chain) : j < k => Chain[j].id < Chain[k].id

(* Whoever reads the log can tell where it has a hole: a message whose
   predecessor was cleared away follows the "cache full" notice, unless
   file output was being switched off (Log.cpp:107-111).                    *)
LossIsNoticed ==
    \A k \in 1..Len(Chain) :
        LET m == Chain[k]
        IN  m.id = 1 \/ m.notice \/ (m.id - 1) \in dropped \cup Ids(Chain)

(* Enable(_, false) is final: once it has returned no thread writes to the
   file, however late the writer noticed m_bStop (Log.cpp:58-60).           *)
OffMeansOff == ctl = "idle" /\ ~m_bFile => wpc = "none"

(* "One FILE per hour" (Log.cpp:150): the writer appends only to the file of
   the date and hour it has just read from the clock.                       *)
OneFilePerHour == wpc \in {"swap", "write"} => fp = now

(* A queued message is taken by the writer (or by an overflow), while file
   output is on, the file can be opened and the process goes on.            *)
QueueDrains ==
    \A n \in 1..MaxMsgs :
        n \in Ids(m_vecMsg) ~> n \notin Ids(m_vecMsg) \/ ~m_bFile \/ ctl = "gone"

(* Enable always returns: its Join waits for a writer that sees m_bStop.   *)
EnableReturns == ctl \in {"stop", "join", "run", "drop"} ~> ctl = "idle"

(* The loggers differ in nothing, for runs of invariants.                  *)
Symmetry == Permutations(Logger)
=============================================================================
