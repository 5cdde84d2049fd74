------------------------------ MODULE SystemInfo ------------------------------
(***************************************************************************)
(* CSystemInfo (src/public/SystemInfo.cpp): GetInstance makes the one      *)
(* object without any lock, and the object caches the host name, the       *)
(* number of processors and, for two seconds, the load.  The load of a     *)
(* second is that second; 0 is the name, the number or the load that has   *)
(* not been read.  A thread that has an instance uses it from then on, one *)
(* method at a time (two at once would race on the members).               *)
(***************************************************************************)
EXTENDS Integers, FiniteSets

CONSTANTS
    Thread,         \* callers
    NONE,           \* the null pointer
    Start, MaxTime, \* the clock's first and last second
    MayFail         \* which of "name", "cpu" and "load" may fail to be read

Times == Start \in Nat \ {0, 1} /\ MaxTime \in Nat /\ Start <= MaxTime
Failures == MayFail \subseteq {"name", "cpu", "load"}
Callers == IsFiniteSet(Thread) /\ NONE \notin Thread

VARIABLES
    s_pSystem,      \* the object, named after the thread that made it, or NONE
    objects,        \* the objects made
    pc,             \* [Thread -> "idle", "test", "new" or "read"]
    mine,           \* [Thread -> what its GetInstance returned, or NONE]
    now,            \* cur.tv_sec
    m_nCpuNum, m_sHostName,                 \* [Thread -> 0 or 1]: of its object
    m_fCurLoadAverage, m_nLastTimestamp,    \* [Thread -> second or 0]: of its object
    failed          \* the last time GetCurLoad looked for a load, it found none

cached == <<m_nCpuNum, m_sHostName, m_fCurLoadAverage, m_nLastTimestamp, failed>>
vars == <<s_pSystem, objects, pc, mine, now, cached>>

Goto(h, label) == pc' = [pc EXCEPT ![h] = label]

Init ==
    /\ s_pSystem = NONE /\ objects = {} /\ now = Start
    /\ pc = [h \in Thread |-> "idle"] /\ mine = [h \in Thread |-> NONE]
    /\ m_nCpuNum = [h \in Thread |-> 0] /\ m_sHostName = [h \in Thread |-> 0]
    /\ m_fCurLoadAverage = [h \in Thread |-> 0] /\ m_nLastTimestamp = [h \in Thread |-> 0]
    /\ failed = [h \in Thread |-> FALSE]

Tick ==
    /\ now < MaxTime
    /\ now' = now + 1
    /\ UNCHANGED <<s_pSystem, objects, pc, mine, cached>>

-----------------------------------------------------------------------------
(* GetInstance: test, make, and read again what is returned.               *)

Test(h) ==
    /\ pc[h] = "idle" /\ mine[h] = NONE
    /\ Goto(h, IF s_pSystem = NONE THEN "new" ELSE "read")
    /\ UNCHANGED <<s_pSystem, objects, mine, now, cached>>

New(h) ==
    /\ pc[h] = "new"
    /\ objects' = objects \cup {h} /\ s_pSystem' = h
    /\ Goto(h, "read")
    /\ UNCHANGED <<mine, now, cached>>

Read(h) ==
    /\ pc[h] = "read"
    /\ mine' = [mine EXCEPT ![h] = s_pSystem]
    /\ Goto(h, "idle")
    /\ UNCHANGED <<s_pSystem, objects, now, cached>>

-----------------------------------------------------------------------------
(* The methods, of the object o of the calling thread.                     *)

Holds(h, o) == pc[h] = "idle" /\ mine[h] = o /\ o /= NONE

GetHostName(h, o) ==
    /\ Holds(h, o) /\ m_sHostName[o] = 0
    /\ \/ m_sHostName' = [m_sHostName EXCEPT ![o] = 1]
       \/ "name" \in MayFail /\ UNCHANGED m_sHostName
    /\ UNCHANGED <<s_pSystem, objects, pc, mine, now, m_nCpuNum, m_fCurLoadAverage, m_nLastTimestamp, failed>>

(* popen, fgets or sscanf may fail; then it is tried again the next time.
   GetMaxLoad is GetCpuNum.                                                 *)
GetCpuNum(h, o) ==
    /\ Holds(h, o) /\ m_nCpuNum[o] <= 0
    /\ \/ m_nCpuNum' = [m_nCpuNum EXCEPT ![o] = 1]
       \/ "cpu" \in MayFail /\ UNCHANGED m_nCpuNum
    /\ UNCHANGED <<s_pSystem, objects, pc, mine, now, m_sHostName, m_fCurLoadAverage, m_nLastTimestamp, failed>>

FreshTwo(o) == now - m_nLastTimestamp[o] <= 2

Fresh(o) == now - m_nLastTimestamp[o] < 2

(* A file that is open but empty also makes the old load good for two
   seconds more.                                                            *)
GetCurLoad(h, o) ==
    /\ Holds(h, o) /\ ~Fresh(o)
    /\ \/ /\ m_fCurLoadAverage' = [m_fCurLoadAverage EXCEPT ![o] = now]
          /\ m_nLastTimestamp' = [m_nLastTimestamp EXCEPT ![o] = now]
          /\ failed' = [failed EXCEPT ![o] = FALSE]
       \/ /\ "load" \in MayFail
          /\ failed' = [failed EXCEPT ![o] = TRUE]
          /\ \/ UNCHANGED m_nLastTimestamp
             \/ m_nLastTimestamp' = [m_nLastTimestamp EXCEPT ![o] = now]
          /\ UNCHANGED m_fCurLoadAverage
    /\ UNCHANGED <<s_pSystem, objects, pc, mine, now, m_nCpuNum, m_sHostName>>

Next ==
    \/ Tick
    \/ \E h \in Thread : Test(h) \/ New(h) \/ Read(h)
    \/ \E h, o \in Thread : GetHostName(h, o) \/ GetCpuNum(h, o) \/ GetCurLoad(h, o)

Spec == Init /\ [][Next]_vars

-----------------------------------------------------------------------------
TypeOK ==
    /\ s_pSystem \in objects \cup {NONE} /\ objects \subseteq Thread
    /\ pc \in [Thread -> {"idle", "new", "read"}] /\ now \in Start..MaxTime
    /\ m_nCpuNum \in [Thread -> 0..1] /\ m_sHostName \in [Thread -> 0..1]

(* GetInstance returns a constructed object, and once no call of it is under way, the
   next callers all get the same: threads that came together may hold two,
   and only they do (SystemInfo.cpp:5-12).                                  *)
InstanceIsMade ==
    \A h \in Thread :
        /\ pc[h] = "read" => s_pSystem \in objects
        /\ mine[h] /= NONE => mine[h] \in objects
        /\ Cardinality(objects) <= Cardinality({g \in Thread : pc[g] /= "idle" \/ mine[g] /= NONE})

(* What GetCurLoad returns without looking is the load of this second or of
   the one before, unless the last look failed (SystemInfo.cpp:62-85).      *)
LoadIsRecent ==
    \A o \in objects :
        Fresh(o) /\ ~failed[o] => m_fCurLoadAverage[o] \in {now - 1, now}
=============================================================================
