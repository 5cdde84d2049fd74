----------------------------- MODULE WebInterface -----------------------------
(***************************************************************************)
(* The process above the web server: main brings up configuration, log     *)
(* and CWebService and then registers the interfaces of CWebModule, while  *)
(* the threads of the pool already answer requests: CWebService::OnService *)
(* looks the URL up in CWebInterface's map, under a lock it has released   *)
(* when it calls the module, and the module reads or sets CConfigModule    *)
(* without one.  What a client makes of an answer is what                  *)
(* HttpClientSocket::RecvResponse stores of it.                            *)
(*                                                                         *)
(* A critical section of s_mapLock holds one access to the map and is one  *)
(* step.  The servicename argument is the name of this service or not; of  *)
(* the JSON bodies the number that matters is kept.                        *)
(***************************************************************************)
EXTENDS Integers, Sequences, FiniteSets, SequencesExt

CONSTANTS
    Handler,        \* threads of the pool
    NONE,
    Level,          \* LogLevel in the file, and the values sent to set/config
    MaxCalls,       \* bound: requests received
    Withdrawn,      \* URLs DelInterface may be called for (no caller in src/)
    MayFail         \* which of "config" (ParseConfig) and "start" may fail

ASSUME Levels == Level \subseteq Int /\ Level /= {}
ASSUME Bound == MaxCalls \in Nat
ASSUME Failures == MayFail \subseteq {"config", "start"}

Ping      == "/interface/ping"
SetConfig == "/interface/set/config"
GetConfig == "/interface/get/config"
Exit      == "/interface/exit/process"
Elsewhere == "/favicon.ico"

Interfaces == <<Ping, SetConfig, GetConfig, Exit>>     \* in OnRegisterInterface's order
URL == ToSet(Interfaces)

(* A request: its URL, whether its servicename is ours, config_type and
   atoi(config_value), which matter to set/config only.                    *)
Request ==
    [url : (URL \cup {Elsewhere}) \ {SetConfig}, named : BOOLEAN] \cup
    [url : {SetConfig}, named : BOOLEAN, type : {"LogLevel", "LogPath"}, value : Level]

VARIABLES
    mpc,            \* where main is
    next,           \* the interface main registers next
    g_exit,
    s_mapInterface, \* SUBSET URL: those with a module
    m_nBaseLogLevel,
    m_nLevel,       \* g_DefaultLogSrv's
    hpc,            \* [Handler -> "idle", "find", "execute", "send"]
    request,        \* [Handler -> Request or NONE]
    response,       \* [Handler -> answer or NONE]
    calls           \* requests received so far

mainVars == <<mpc, next, g_exit>>
handlerVars == <<hpc, request, response, calls>>
vars == <<mainVars, s_mapInterface, m_nBaseLogLevel, m_nLevel, handlerVars>>

Init ==
    /\ mpc = "config" /\ next = 1 /\ g_exit = FALSE
    /\ s_mapInterface = {}
    /\ m_nBaseLogLevel \in Level \cup {0}      \* what the file says, 0 when it does not
    /\ m_nLevel = 3                            \* CLogSrv()
    /\ hpc = [h \in Handler |-> "idle"]
    /\ request = [h \in Handler |-> NONE]
    /\ response = [h \in Handler |-> NONE]
    /\ calls = 0

-----------------------------------------------------------------------------
(* main                                                                    *)

ConfigFails ==
    /\ mpc = "config" /\ "config" \in MayFail
    /\ mpc' = "gone"
    /\ UNCHANGED <<next, g_exit, s_mapInterface, m_nBaseLogLevel, m_nLevel, handlerVars>>

ParseConfig ==
    /\ mpc = "config"
    /\ mpc' = "log"
    /\ UNCHANGED <<next, g_exit, s_mapInterface, m_nBaseLogLevel, m_nLevel, handlerVars>>

(* SetLevel takes an unsigned: a negative level is above 4.                *)
Clamp(l) == IF l < 0 \/ l > 4 THEN 4 ELSE IF l < 1 THEN 1 ELSE l

StartLogModule ==
    /\ mpc = "log"
    /\ m_nLevel' = Clamp(m_nBaseLogLevel)
    /\ mpc' = "start"
    /\ UNCHANGED <<next, g_exit, s_mapInterface, m_nBaseLogLevel, handlerVars>>

(* CWebService::Start, its result not looked at: without a listener the
   process goes on and no request ever comes.                              *)
Start ==
    /\ mpc = "start"
    /\ \/ mpc' = "find" /\ UNCHANGED calls
       \/ "start" \in MayFail /\ mpc' = "find" /\ calls' = MaxCalls
    /\ UNCHANGED <<next, g_exit, s_mapInterface, m_nBaseLogLevel, m_nLevel, hpc,
                   request, response>>

(* AddInterface(Interfaces[next], this): first FindInterface ...           *)
AddFind ==
    /\ mpc = "find"
    /\ IF Interfaces[next] \in s_mapInterface
       THEN mpc' = "next"
       ELSE mpc' = "insert"
    /\ UNCHANGED <<next, g_exit, s_mapInterface, m_nBaseLogLevel, m_nLevel, handlerVars>>

(* ... then, under the lock again, the insertion.                          *)
AddInsert ==
    /\ mpc = "insert"
    /\ s_mapInterface' = s_mapInterface \cup {Interfaces[next]}
    /\ mpc' = "next"
    /\ UNCHANGED <<next, g_exit, m_nBaseLogLevel, m_nLevel, handlerVars>>

OnRegisterInterface ==
    /\ mpc = "next"
    /\ next' = next + 1
    /\ mpc' = IF next < Len(Interfaces) THEN "find" ELSE "loop"
    /\ UNCHANGED <<g_exit, s_mapInterface, m_nBaseLogLevel, m_nLevel, handlerVars>>

(* SIGINT, at any moment after signal().                                   *)
sig_handle ==
    /\ ~g_exit /\ mpc /= "gone"
    /\ g_exit' = TRUE
    /\ UNCHANGED <<mpc, next, s_mapInterface, m_nBaseLogLevel, m_nLevel, handlerVars>>

(* while (!g_exit) sleep(5); return 0: the threads of the pool end with the
   process, wherever they are.                                             *)
Return ==
    /\ mpc = "loop" /\ g_exit
    /\ mpc' = "gone"
    /\ UNCHANGED <<next, g_exit, s_mapInterface, m_nBaseLogLevel, m_nLevel, handlerVars>>

DelInterface(u) ==
    /\ mpc = "loop" /\ u \in s_mapInterface
    /\ s_mapInterface' = s_mapInterface \ {u}
    /\ UNCHANGED <<mainVars, m_nBaseLogLevel, m_nLevel, handlerVars>>

-----------------------------------------------------------------------------
(* The answers.  A body without Content-Length is sent all the same.       *)

Answer(status, length, body) == [status |-> status, length |-> length, body |-> body]

(* OnServiceExecute filled sRes: OnService puts its length in the header.  *)
Ok(body) == Answer(200, TRUE, body)
(* OnServiceExecute or OnProcessService returned false.                    *)
NotFound(body) == Answer(404, FALSE, body)

Nothing       == <<>>
ResponseMsg(ec) == <<"ec", ec>>
BaseConfig(l) == <<"LogLevel", l>>

(* CWebModule::OnServiceExecute on a configuration with level l.           *)
ExecuteAnswer(r, l) ==
    IF ~r.named THEN NotFound(ResponseMsg(601))
    ELSE CASE r.url = Ping -> Ok(ResponseMsg(200))
           [] r.url = SetConfig -> Ok(ResponseMsg(IF r.type = "LogLevel" THEN 200 ELSE 603))
           [] r.url = GetConfig -> Ok(BaseConfig(l))
           [] r.url = Exit -> Ok(Nothing)

(* CConfigBase::SetBaseConfig changes nothing but LogLevel.                *)
SetBaseConfigAny(r, l) == IF r.named /\ r.url = SetConfig THEN r.value ELSE l

SetBaseConfig(r, l) ==
    IF r.named /\ r.url = SetConfig /\ r.type = "LogLevel" THEN r.value ELSE l

(* What RecvResponse appends to m_strBody: as much as Content-Length says,
   nothing without one.                                                    *)
RecvResponse(a) == [status |-> a.status, body |-> IF a.length THEN a.body ELSE Nothing]

(* A handler has a whole request: OnService begins.                        *)
OnService(h) ==
    /\ mpc \in {"find", "insert", "next", "loop"}
    /\ hpc[h] = "idle" /\ calls < MaxCalls
    /\ calls' = calls + 1
    /\ hpc' = [hpc EXCEPT ![h] = "find"]
    /\ \E r \in Request : request' = [request EXCEPT ![h] = r]
    /\ UNCHANGED <<mainVars, s_mapInterface, m_nBaseLogLevel, m_nLevel, response>>

(* it != end(): found; the lock is released before the module is called.   *)
Found(u) == u \in s_mapInterface

FindInterface(h) ==
    /\ mpc /= "gone" /\ hpc[h] = "find"
    /\ IF Found(request[h].url)
       THEN hpc' = [hpc EXCEPT ![h] = "execute"] /\ UNCHANGED response
       ELSE /\ hpc' = [hpc EXCEPT ![h] = "send"]
            /\ response' = [response EXCEPT ![h] = NotFound(Nothing)]
    /\ UNCHANGED <<mainVars, s_mapInterface, m_nBaseLogLevel, m_nLevel, request, calls>>

OnServiceExecute(h) ==
    /\ mpc /= "gone" /\ hpc[h] = "execute"
    /\ m_nBaseLogLevel' = SetBaseConfig(request[h], m_nBaseLogLevel)
    /\ response' = [response EXCEPT ![h] = ExecuteAnswer(request[h], m_nBaseLogLevel)]
    /\ hpc' = [hpc EXCEPT ![h] = "send"]
    /\ UNCHANGED <<mainVars, s_mapInterface, m_nLevel, request, calls>>

(* SendResponse; the connection is closed and the handler is idle again.   *)
SendResponseStays(h) ==
    /\ mpc /= "gone" /\ hpc[h] = "send"
    /\ hpc' = [hpc EXCEPT ![h] = "find"]
    /\ response' = [response EXCEPT ![h] = NONE]
    /\ UNCHANGED <<mainVars, s_mapInterface, m_nBaseLogLevel, m_nLevel, request, calls>>

SendResponse(h) ==
    /\ mpc /= "gone" /\ hpc[h] = "send"
    /\ hpc' = [hpc EXCEPT ![h] = "idle"]
    /\ request' = [request EXCEPT ![h] = NONE]
    /\ response' = [response EXCEPT ![h] = NONE]
    /\ UNCHANGED <<mainVars, s_mapInterface, m_nBaseLogLevel, m_nLevel, calls>>

-----------------------------------------------------------------------------
(* What response holds, and what a client sees of it.                      *)
Body  == {Nothing} \cup {ResponseMsg(ec) : ec \in {200, 601, 603}} \cup {BaseConfig(l) : l \in Level \cup {0}}
Sent  == [status : {200, 404}, length : BOOLEAN, body : Body]
Seen  == [status : {200, 404}, body : Body]

ASSUME Names == NONE \notin Handler \cup Request \cup Sent \cup Seen

-----------------------------------------------------------------------------
MainStep ==
    \/ ConfigFails \/ ParseConfig \/ StartLogModule \/ Start
    \/ AddFind \/ AddInsert \/ OnRegisterInterface \/ Return
HandlerStep(h) == FindInterface(h) \/ OnServiceExecute(h) \/ SendResponse(h)

Next ==
    \/ MainStep \/ sig_handle
    \/ \E u \in Withdrawn : DelInterface(u)
    \/ \E h \in Handler : OnService(h) \/ HandlerStep(h)

Spec == Init /\ [][Next]_vars

(* Every thread is scheduled; nothing makes requests or signals come.      *)
FairSpec == Spec /\ WF_vars(MainStep) /\ \A h \in Handler : WF_vars(HandlerStep(h))

-----------------------------------------------------------------------------
(* Each client sees its calls as if the process handled them in at most two
   moments, although registration, lookup, SetBaseConfig and GetBaseConfig
   run in different threads and the lookup's lock is released before the
   module is called (WebService.cpp:7-65, WebModule.cpp:29-70): an interface
   withdrawn in between is still called.                                   *)
Service == INSTANCE ConfigService WITH
    Caller     <- Handler,
    registered <- s_mapInterface,
    level      <- m_nBaseLogLevel,
    call       <- request,
    looked     <- {h \in Handler : hpc[h] = "execute"},
    reply      <- [h \in Handler |-> IF response[h] = NONE THEN NONE ELSE RecvResponse(response[h])]

ImplementsService == Service!Spec

(* A request that came in is answered unless the process ends.             *)
AnsweredOrGone == \A h \in Handler : request[h] /= NONE ~> request[h] = NONE \/ mpc = "gone"
=============================================================================
