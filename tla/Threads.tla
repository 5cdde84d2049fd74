-------------------------------- MODULE Threads --------------------------------
(***************************************************************************)
(* Thread, Mutex, CRWLock and the scoped locks of src/base/Thread.cpp: users *)
(* of one Mutex and one CRWLock, and the owner of a Thread, which runs and *)
(* joins it again and again.  POSIX threads are external.                  *)
(*                                                                         *)
(* Nobody asks for the CRWLock in a scope that has it for writing, or to   *)
(* write in a scope that reads: the system refuses or waits for ever, and  *)
(* CRWLock looks at no result.                                             *)
(***************************************************************************)
EXTENDS Integers, Sequences, FiniteSetsExt

CONSTANTS
    User,               \* threads of the program that use the locks
    NONE,
    MaxNest,            \* bound: scopes within one another
    MaxRuns             \* bound: calls of Run

ThreadConstants ==
    NONE \notin User \cup {"lock", "read", "write", "null"} /\ MaxNest \in Nat /\ MaxRuns \in Nat

VARIABLES
    mutex,              \* [holder, count]: a recursive mutex
    readers, writer,    \* User -> count, and a user or NONE: CRWLock::m_lock
    scopes,             \* User -> the locks it has, the innermost last
    asks,               \* User -> what it waits for, or NONE
    m_hThread,          \* 0 for NULL, the number of a run, or -1: a handle of no thread
    alive, unjoined,    \* runs whose Routine has not returned; that were not joined
    pc,                 \* of the owner: "idle", "join" or "crashed"
    runs, failed        \* calls of Run; history: one could not make a thread

lockVars == <<mutex, readers, writer, scopes, asks>>
threadVars == <<m_hThread, alive, unjoined, pc, runs, failed>>
vars == <<lockVars, threadVars>>

FREE == [holder |-> NONE, count |-> 0]

Init ==
    /\ mutex = FREE
    /\ readers = [u \in User |-> 0] /\ writer = NONE
    /\ scopes = [u \in User |-> <<>>] /\ asks = [u \in User |-> NONE]
    /\ m_hThread = 0 /\ alive = {} /\ unjoined = {} /\ pc = "idle"
    /\ runs = 0 /\ failed = FALSE

-----------------------------------------------------------------------------
(* The system's locks.  A mutex is taken again by its holder.              *)
MayLock(u)   == mutex.holder \in {u, NONE}
MayRead(u)   == writer = NONE
MayWrite(u)  == writer = NONE /\ \A v \in User : readers[v] = 0

Lock(u)   == mutex' = [holder |-> u, count |-> mutex.count + 1] /\ UNCHANGED <<readers, writer>>
Unlock(u) ==
    /\ mutex' = IF mutex.count = 1 THEN FREE ELSE [mutex EXCEPT !.count = @ - 1]
    /\ UNCHANGED <<readers, writer>>
rlock(u)  == readers' = [readers EXCEPT ![u] = @ + 1] /\ UNCHANGED <<mutex, writer>>
wlock(u)  == writer' = u /\ UNCHANGED <<mutex, readers>>
unlock(u) ==
    /\ UNCHANGED mutex
    /\ IF writer = u THEN writer' = NONE /\ UNCHANGED readers
       ELSE readers' = [readers EXCEPT ![u] = @ - 1] /\ UNCHANGED writer

(* A scope: AutoLock, CAutoRWLock that reads or writes, CAutoRWLock(NULL). *)
Scopes == {"lock", "read", "write", "null"}
Has(u, kind) == kind \in Range(scopes[u])
MayAsk(u, kind) ==
    /\ kind \in {"read", "write"} => ~Has(u, "write")
    /\ kind = "write" => ~Has(u, "read")

Ask(u, kind) ==
    /\ asks[u] = NONE /\ Len(scopes[u]) < MaxNest /\ MayAsk(u, kind)
    /\ asks' = [asks EXCEPT ![u] = kind]
    /\ UNCHANGED <<mutex, readers, writer, scopes, threadVars>>
AutoRWLock(u, bRLock) == IF bRLock THEN MayRead(u) /\ rlock(u) ELSE MayWrite(u) /\ wlock(u)
Enter(u) ==
    /\ \/ asks[u] = "lock" /\ MayLock(u) /\ Lock(u)
       \/ asks[u] \in {"read", "write"} /\ AutoRWLock(u, asks[u] = "read")
       \/ asks[u] = "null" /\ UNCHANGED <<mutex, readers, writer>>
    /\ scopes' = [scopes EXCEPT ![u] = Append(@, asks[u])]
    /\ asks' = [asks EXCEPT ![u] = NONE]
    /\ UNCHANGED threadVars

(* try_rlock and try_wlock do not wait; without the lock there is no scope. *)
Try(u, kind) ==
    /\ asks[u] = NONE /\ Len(scopes[u]) < MaxNest /\ MayAsk(u, kind)
    /\ \/ kind = "read" /\ MayRead(u) /\ rlock(u)
       \/ kind = "write" /\ MayWrite(u) /\ wlock(u)
    /\ scopes' = [scopes EXCEPT ![u] = Append(@, kind)]
    /\ UNCHANGED <<asks, threadVars>>

Innermost(u) == scopes[u][Len(scopes[u])]
Leave(u) ==
    /\ asks[u] = NONE /\ scopes[u] # <<>>
    /\ \/ Innermost(u) = "lock" /\ Unlock(u)
       \/ Innermost(u) \in {"read", "write"} /\ unlock(u)
       \/ Innermost(u) = "null" /\ UNCHANGED <<mutex, readers, writer>>
    /\ scopes' = [scopes EXCEPT ![u] = SubSeq(@, 1, Len(@) - 1)]
    /\ UNCHANGED <<asks, threadVars>>

-----------------------------------------------------------------------------
(* Run.  pthread_create that fails may have written the handle.            *)
Run ==
    /\ pc = "idle" /\ runs < MaxRuns /\ runs' = runs + 1
    /\ \/ m_hThread /= 0 /\ UNCHANGED <<m_hThread, alive, unjoined, failed>>
       \/ /\ m_hThread = 0
          /\ m_hThread' = runs' /\ alive' = alive \cup {runs'} /\ unjoined' = unjoined \cup {runs'}
          /\ UNCHANGED failed
       \/ /\ m_hThread = 0
          /\ failed' = TRUE /\ m_hThread' \in {0, -1} /\ UNCHANGED <<alive, unjoined>>
    /\ UNCHANGED <<pc, lockVars>>

(* The thread's Routine returns, whenever it does.                         *)
Routine ==
    /\ alive # {} /\ alive' = alive \ {Min(alive)}
    /\ UNCHANGED <<m_hThread, unjoined, pc, runs, failed, lockVars>>

Join ==
    /\ pc = "idle" /\ m_hThread /= 0
    /\ pc' = IF m_hThread \in unjoined THEN "join" ELSE "crashed"
    /\ UNCHANGED <<m_hThread, alive, unjoined, runs, failed, lockVars>>
Joined ==
    /\ pc = "join" /\ m_hThread \notin alive
    /\ unjoined' = unjoined \ {m_hThread} /\ m_hThread' = 0 /\ pc' = "idle"
    /\ UNCHANGED <<alive, runs, failed, lockVars>>

Next ==
    \/ \E u \in User :
          \/ \E kind \in Scopes : Ask(u, kind)
          \/ \E kind \in {"read", "write"} : Try(u, kind)
          \/ Enter(u) \/ Leave(u)
    \/ Run \/ Routine \/ Join \/ Joined

Spec == Init /\ [][Next]_vars

-----------------------------------------------------------------------------
(* Who is in a scope that locks is there alone, or with readers if it reads,
   and nobody waits for a mutex it has itself (Thread.cpp:9-110).          *)
ScopesExclude ==
    /\ \A u, v \in User : u # v =>
          /\ ~(Has(u, "lock") /\ Has(v, "lock"))
          /\ ~(Has(u, "write") /\ (Has(v, "read") \/ Has(v, "write")))
    /\ \A u \in User : asks[u] = "lock" /\ Has(u, "lock") => MayLock(u)

(* A lock is taken as often as there are scopes that have it: after the last
   has ended it is free, whatever ended in between.                        *)
Count(u, kind) == Cardinality({k \in 1..Len(scopes[u]) : scopes[u][k] = kind})
LocksAreScopes ==
    \A u \in User :
        /\ readers[u] = Count(u, "read")
        /\ writer = u <=> Has(u, "write")
        /\ (IF mutex.holder = u THEN mutex.count ELSE 0) = Count(u, "lock")

(* A Thread runs one Routine at a time; when it has no handle every one that
   it started has returned and was joined.  A join of no thread follows only
   on a thread that could not be made (Thread.cpp:131-176).                *)
JoinedBeforeRun ==
    /\ Cardinality(alive) <= 1 /\ alive \subseteq unjoined
    /\ m_hThread = 0 => unjoined = {}
    /\ pc = "crashed" => failed
=============================================================================
