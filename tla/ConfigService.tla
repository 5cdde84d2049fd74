---------------------------- MODULE ConfigService ----------------------------
(***************************************************************************)
(* What the HTTP interfaces of the process promise a client: between its   *)
(* request and its answer there is a moment at which a call is looked up   *)
(* among the interfaces registered then, and, when it was found, one after *)
(* that at which it reads or sets the configured log level.                *)
(***************************************************************************)
EXTENDS Integers

CONSTANTS Caller, Request, URL, NONE

VARIABLES
    registered,     \* SUBSET URL
    level,          \* the configured log level
    call,           \* [Caller -> Request \cup {NONE}]
    looked,         \* SUBSET Caller: found, and not yet served
    reply           \* [Caller -> answer or NONE]: of the current call

vars == <<registered, level, call, looked, reply>>

Init ==
    /\ registered = {}
    /\ level \in Int
    /\ call = [c \in Caller |-> NONE] /\ looked = {}
    /\ reply = [c \in Caller |-> NONE]

(* Interfaces come and go, one at a time.                                  *)
Register(u) == registered' = registered \cup {u} /\ UNCHANGED <<level, call, looked, reply>>
Withdraw(u) == registered' = registered \ {u} /\ UNCHANGED <<level, call, looked, reply>>

Call(c, r) ==
    /\ call[c] = NONE
    /\ call' = [call EXCEPT ![c] = r]
    /\ UNCHANGED <<registered, level, looked, reply>>

NotFound == [status |-> 404, body |-> <<>>]

Look(c) ==
    /\ call[c] /= NONE /\ reply[c] = NONE /\ c \notin looked
    /\ IF call[c].url \in registered
       THEN looked' = looked \cup {c} /\ UNCHANGED reply
       ELSE reply' = [reply EXCEPT ![c] = NotFound] /\ UNCHANGED looked
    /\ UNCHANGED <<registered, level, call>>

(* A call that does not name this service is told what one to an unknown
   interface is told, and changes nothing.                                 *)
SetsLevel(r) == r.url = "/interface/set/config" /\ r.type = "LogLevel"
Content(r) ==
    CASE r.url = "/interface/ping"                -> <<"ec", 200>>
      [] SetsLevel(r)                             -> <<"ec", 200>>
      [] r.url = "/interface/set/config" /\ ~SetsLevel(r) -> <<"ec", 603>>
      [] r.url = "/interface/get/config"          -> <<"LogLevel", level>>
      [] r.url = "/interface/exit/process"        -> <<>>
Reply(r) == IF r.named THEN [status |-> 200, body |-> Content(r)] ELSE NotFound

Serve(c) ==
    /\ c \in looked
    /\ looked' = looked \ {c}
    /\ level' = IF call[c].named /\ SetsLevel(call[c]) THEN call[c].value ELSE level
    /\ reply' = [reply EXCEPT ![c] = Reply(call[c])]
    /\ UNCHANGED <<registered, call>>

Return(c) ==
    /\ reply[c] /= NONE
    /\ call' = [call EXCEPT ![c] = NONE]
    /\ reply' = [reply EXCEPT ![c] = NONE]
    /\ UNCHANGED <<registered, level, looked>>

Next ==
    \/ \E u \in URL : Register(u) \/ Withdraw(u)
    \/ \E c \in Caller : Look(c) \/ Serve(c) \/ Return(c) \/ \E r \in Request : Call(c, r)

Spec == Init /\ [][Next]_vars
=============================================================================
