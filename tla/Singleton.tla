------------------------------ MODULE Singleton ------------------------------
(***************************************************************************)
(* Singleton<T> (src/base/singleton.h): GetInstance tests s_instance       *)
(* without the lock and creates the instance, under the lock m_cs, when    *)
(* there is none; Destroy deletes it under the lock.  The base class's     *)
(* constructor stores s_instance before T's own has run, and its           *)
(* destructor clears it while the object is still there.                   *)
(***************************************************************************)
EXTENDS Integers, FiniteSets

CONSTANTS
    User,           \* threads that call GetInstance and Destroy
    NONE,           \* the null pointer, and no holder of the lock
    NOTYET,         \* a thread that has not asked yet
    MaxInstances    \* bound: objects ever constructed

Distinct == NONE \notin User \cup Nat /\ NOTYET \notin Nat \cup {NONE}
InstanceBound == MaxInstances \in Nat

VARIABLES
    s_instance,     \* an object or NONE
    holder,         \* who has m_cs for writing
    living,         \* objects allocated and not yet freed
    built,          \* those of them whose constructor has run to the end
    made,           \* number of objects ever allocated
    destroys,       \* has Destroy been called?
    pc,             \* [User -> label]
    got             \* [User -> what its last GetInstance returned]

vars == <<s_instance, holder, living, built, made, destroys, pc, got>>

Goto(u, label) == pc' = [pc EXCEPT ![u] = label]

Init ==
    /\ s_instance = NONE /\ holder = NONE
    /\ living = {} /\ built = {} /\ made = 0 /\ destroys = FALSE
    /\ pc = [u \in User |-> "idle"] /\ got = [u \in User |-> NOTYET]

-----------------------------------------------------------------------------
(* GetInstance; Instance and getInstance are the same.                     *)

Test(u) ==
    /\ pc[u] = "idle"
    /\ Goto(u, IF s_instance = NONE THEN "wlock" ELSE "read")
    /\ UNCHANGED <<s_instance, holder, living, built, made, destroys, got>>

WLock(u, from, to) ==
    /\ pc[u] = from /\ holder = NONE
    /\ holder' = u
    /\ Goto(u, to)
    /\ UNCHANGED <<s_instance, living, built, made, destroys, got>>

(* The test again, now with the lock: somebody else was first.             *)
Retest(u) ==
    /\ pc[u] = "create" /\ s_instance /= NONE
    /\ Goto(u, "unlock")
    /\ UNCHANGED <<s_instance, holder, living, built, made, destroys, got>>

(* new T: the allocation and Singleton(), which publishes the object.      *)
NewUntested(u) ==
    /\ pc[u] = "create" /\ made < MaxInstances
    /\ made' = made + 1 /\ living' = living \cup {made + 1} /\ s_instance' = made + 1
    /\ Goto(u, "build")
    /\ UNCHANGED <<holder, built, destroys, got>>

New(u) ==
    /\ pc[u] = "create" /\ s_instance = NONE /\ made < MaxInstances
    /\ made' = made + 1 /\ living' = living \cup {made + 1} /\ s_instance' = made + 1
    /\ Goto(u, "build")
    /\ UNCHANGED <<holder, built, destroys, got>>

(* The rest of the constructor, and the assignment of CreateInstance.      *)
Build(u) ==
    /\ pc[u] = "build"
    /\ built' = built \cup {made} /\ s_instance' = made
    /\ Goto(u, "unlock")
    /\ UNCHANGED <<holder, living, made, destroys, got>>

Unlock(u, from, to) ==
    /\ pc[u] = from
    /\ holder' = NONE
    /\ Goto(u, to)
    /\ UNCHANGED <<s_instance, living, built, made, destroys, got>>

(* s_instance is read again to be returned.                                *)
Read(u) ==
    /\ pc[u] = "read"
    /\ got' = [got EXCEPT ![u] = s_instance]
    /\ Goto(u, "idle")
    /\ UNCHANGED <<s_instance, holder, living, built, made, destroys>>

GetInstance(u) ==
    \/ Test(u) \/ WLock(u, "wlock", "create") \/ Retest(u) \/ New(u) \/ Build(u)
    \/ Unlock(u, "unlock", "read") \/ Read(u)

-----------------------------------------------------------------------------
(* Destroy.                                                                *)

DestroyCall(u) ==
    /\ pc[u] = "idle"
    /\ destroys' = TRUE
    /\ Goto(u, "dlock")
    /\ UNCHANGED <<s_instance, holder, living, built, made, got>>

DestroyNothing(u) ==
    /\ pc[u] = "destroy" /\ s_instance = NONE
    /\ Goto(u, "dunlock")
    /\ UNCHANGED <<s_instance, holder, living, built, made, destroys, got>>

(* DestroyInstance: T's destructor, then ~Singleton, then the memory.      *)
Delete(u) ==
    /\ pc[u] = "destroy" /\ s_instance /= NONE
    /\ built' = built \ {s_instance}
    /\ Goto(u, "free")
    /\ UNCHANGED <<s_instance, holder, living, made, destroys, got>>

Free(u) ==
    /\ pc[u] = "free"
    /\ living' = living \ {s_instance} /\ s_instance' = NONE
    /\ Goto(u, "dunlock")
    /\ UNCHANGED <<holder, built, made, destroys, got>>

Destroy(u) ==
    \/ DestroyCall(u) \/ WLock(u, "dlock", "destroy")
    \/ DestroyNothing(u) \/ Delete(u) \/ Free(u) \/ Unlock(u, "dunlock", "idle")

Next == \E u \in User : GetInstance(u) \/ Destroy(u)

Spec == Init /\ [][Next]_vars

-----------------------------------------------------------------------------
Inside == {"create", "build", "unlock", "destroy", "free", "dunlock"}
Outside == {"idle", "wlock", "dlock", "read"}

(* The types; the lock is held by the one thread that is between wlock and
   unlock (Thread.cpp:72-80).                                              *)
TypeOK ==
    /\ made \in Nat /\ living \subseteq 1..made /\ built \subseteq living
    /\ s_instance \in living \cup {NONE}
    /\ destroys \in BOOLEAN
    /\ pc \in [User -> Inside \cup Outside]
    /\ got \in [User -> (1..made) \cup {NONE, NOTYET}]
    /\ \A u \in User : pc[u] \in Inside <=> holder = u

(* There is never a second instance, and s_instance is the living one; the
   lock is released only over a whole instance or none (singleton.h:38-63). *)
OneInstance ==
    /\ living = (IF s_instance = NONE THEN {} ELSE {s_instance})
    /\ (\A u \in User : pc[u] \notin {"build", "free"}) => built = living

(* As long as nobody calls Destroy, GetInstance returns the one instance to
   every thread, though it reads s_instance without the lock.              *)
SameForAll ==
    destroys \/ \A u \in User :
        /\ got[u] /= NOTYET => got[u] = s_instance /\ s_instance /= NONE
        /\ pc[u] = "read" => s_instance /= NONE
=============================================================================
