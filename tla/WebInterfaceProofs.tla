-------------------------- MODULE WebInterfaceProofs --------------------------
(***************************************************************************)
(* WebInterface implements ConfigService, for any number of handlers and   *)
(* any set of levels.                                                      *)
(*                                                                         *)
(* The mapping takes registered, level and call from the variables as they *)
(* are; a call is looked up when its handler is at "execute", and its      *)
(* reply is what the client will read of the response.  IInv says what a   *)
(* handler has at each label, which is all the mapping needs.              *)
(***************************************************************************)
EXTENDS WebInterface, TLAPS

TypeOK ==
    /\ mpc \in {"config", "log", "start", "find", "insert", "next", "loop", "gone"}
    /\ next \in Nat \ {0} /\ g_exit \in BOOLEAN
    /\ s_mapInterface \subseteq URL
    /\ m_nBaseLogLevel \in Level \cup {0}
    /\ hpc \in [Handler -> {"idle", "find", "execute", "send"}]
    /\ request \in [Handler -> Request \cup {NONE}]
    /\ response \in [Handler -> Sent \cup {NONE}]

(* main registers no more than there is.                                   *)
NextInv == mpc \in {"config", "log", "start", "find", "insert", "next"} => next <= Len(Interfaces)

(* What a handler has.                                                     *)
HandlerInv ==
    \A h \in Handler :
        /\ hpc[h] = "idle" <=> request[h] = NONE
        /\ hpc[h] = "send" <=> response[h] /= NONE
        /\ hpc[h] = "execute" => request[h].url \in URL

IInv == TypeOK /\ NextInv /\ HandlerInv

-----------------------------------------------------------------------------
LEMMA Registered ==
    /\ Len(Interfaces) = 4 /\ URL = {Ping, SetConfig, GetConfig, Exit}
    /\ \A k \in 1..4 : Interfaces[k] \in URL
BY DEF Interfaces, URL, ToSet

LEMMA Distinguished ==
    /\ NONE \notin Request /\ NONE \notin Sent /\ NONE \notin Seen
    /\ \A a \in Sent : RecvResponse(a) \in Seen
BY Names DEF Sent, Seen, RecvResponse, Body

(* A request to a registered interface, carried out at once.               *)
LEMMA Execution ==
    ASSUME NEW r \in Request, r.url \in URL, NEW l \in Level \cup {0}
    PROVE  /\ ExecuteAnswer(r, l) \in Sent
           /\ SetBaseConfig(r, l) \in Level \cup {0}
<1>1. r.named \in BOOLEAN /\ (r.url = SetConfig => r.value \in Level)
  BY DEF Request, SetConfig
<1>2. SetBaseConfig(r, l) \in Level \cup {0}
  BY <1>1 DEF SetBaseConfig
<1>3. /\ Nothing \in Body /\ BaseConfig(l) \in Body
      /\ \A ec \in {200, 601, 603} : ResponseMsg(ec) \in Body
  BY DEF Body
<1>4. \A b \in Body : Ok(b) \in Sent /\ NotFound(b) \in Sent
  BY DEF Ok, NotFound, Answer, Sent
<1>5. ExecuteAnswer(r, l) \in Sent
  BY <1>3, <1>4, Registered DEF ExecuteAnswer, Ping, SetConfig, GetConfig, Exit
<1> QED
  BY <1>2, <1>5

LEMMA InitInv == Init => IInv
<1> SUFFICES ASSUME Init PROVE IInv
  OBVIOUS
<1>1. TypeOK
  <2>1. /\ hpc \in [Handler -> {"idle", "find", "execute", "send"}]
        /\ request \in [Handler -> Request \cup {NONE}] /\ response \in [Handler -> Sent \cup {NONE}]
    BY DEF Init
  <2>2. g_exit \in BOOLEAN
    BY DEF Init
  <2>3. mpc = "config" /\ next = 1 /\ s_mapInterface = {} /\ m_nBaseLogLevel \in Level \cup {0}
    BY DEF Init
  <2> QED
    BY <2>1, <2>2, <2>3 DEF TypeOK
<1>2. NextInv /\ HandlerInv
  BY Registered DEF Init, NextInv, HandlerInv
<1> QED
  BY <1>1, <1>2 DEF IInv

LEMMA StepInv == IInv /\ [Next]_vars => IInv'
<1> SUFFICES ASSUME IInv, [Next]_vars PROVE IInv'
  OBVIOUS
<1> USE DEF IInv
<1>1. CASE MainStep
  <2>1. UNCHANGED <<m_nBaseLogLevel, hpc, request, response, g_exit>>
    BY <1>1 DEF MainStep, ConfigFails, ParseConfig, StartLogModule, Start, AddFind, AddInsert, OnRegisterInterface,
                Return, handlerVars
  <2>2. TypeOK'
    BY <1>1, <2>1, Registered DEF TypeOK, NextInv, MainStep, ConfigFails, ParseConfig, StartLogModule, Start, AddFind,
                AddInsert, OnRegisterInterface, Return, handlerVars
  <2>3. NextInv'
    BY <1>1, Registered DEF TypeOK, NextInv, MainStep, ConfigFails, ParseConfig, StartLogModule, Start, AddFind,
                AddInsert, OnRegisterInterface, Return
  <2>4. HandlerInv'
    BY <2>1 DEF HandlerInv
  <2> QED
    BY <2>2, <2>3, <2>4
<1>2. CASE sig_handle \/ \E u \in Withdrawn : DelInterface(u)
  BY <1>2 DEF sig_handle, DelInterface, mainVars, handlerVars, TypeOK, NextInv, HandlerInv
<1>3. ASSUME NEW h \in Handler, OnService(h) PROVE IInv'
  <2>1. PICK r \in Request : request' = [request EXCEPT ![h] = r]
    BY <1>3 DEF OnService
  <2>2. TypeOK' /\ NextInv'
    BY <1>3, <2>1 DEF OnService, mainVars, TypeOK, NextInv
  <2>3. HandlerInv'
    BY <1>3, <2>1, Distinguished DEF OnService, TypeOK, HandlerInv
  <2> QED
    BY <2>2, <2>3
<1>4. ASSUME NEW h \in Handler, FindInterface(h) PROVE IInv'
  <2>1. NotFound(Nothing) \in Sent
    BY DEF NotFound, Answer, Sent, Body
  <2>2. TypeOK' /\ NextInv'
    BY <1>4, <2>1 DEF FindInterface, mainVars, TypeOK, NextInv
  <2>3. HandlerInv'
    BY <1>4, <2>1, Distinguished DEF FindInterface, Found, TypeOK, HandlerInv
  <2> QED
    BY <2>2, <2>3
<1>5. ASSUME NEW h \in Handler, OnServiceExecute(h) PROVE IInv'
  <2>1. request[h] \in Request /\ request[h].url \in URL /\ m_nBaseLogLevel \in Level \cup {0}
    BY <1>5 DEF OnServiceExecute, TypeOK, HandlerInv
  <2>2. /\ ExecuteAnswer(request[h], m_nBaseLogLevel) \in Sent
        /\ SetBaseConfig(request[h], m_nBaseLogLevel) \in Level \cup {0}
    BY <2>1, Execution
  <2>3. TypeOK' /\ NextInv'
    BY <1>5, <2>2 DEF OnServiceExecute, mainVars, TypeOK, NextInv
  <2>4. HandlerInv'
    BY <1>5, <2>2, Distinguished DEF OnServiceExecute, TypeOK, HandlerInv
  <2> QED
    BY <2>3, <2>4
<1>6. ASSUME NEW h \in Handler, SendResponse(h) PROVE IInv'
  BY <1>6 DEF SendResponse, mainVars, TypeOK, NextInv, HandlerInv
<1>7. CASE UNCHANGED vars
  BY <1>7 DEF vars, mainVars, handlerVars, TypeOK, NextInv, HandlerInv
<1> QED
  BY <1>1, <1>2, <1>3, <1>4, <1>5, <1>6, <1>7 DEF Next, HandlerStep

-----------------------------------------------------------------------------
(* The mapped variables, and a step that leaves them alone.                *)
Looked == {h \in Handler : hpc[h] = "execute"}
Read   == [h \in Handler |-> IF response[h] = NONE THEN NONE ELSE RecvResponse(response[h])]

LEMMA Mapped ==
    /\ Service!vars = <<s_mapInterface, m_nBaseLogLevel, request, Looked, Read>>
    /\ Service!vars' = <<s_mapInterface', m_nBaseLogLevel', request', Looked', Read'>>
BY DEF Service!vars, Looked, Read

LEMMA InitMaps == Init => Service!Init
<1> SUFFICES ASSUME Init PROVE Service!Init
  OBVIOUS
<1>1. m_nBaseLogLevel \in Int
  BY Levels DEF Init
<1>2. {h \in Handler : hpc[h] = "execute"} = {}
  BY DEF Init
<1>3. [h \in Handler |-> IF response[h] = NONE THEN NONE ELSE RecvResponse(response[h])] = [h \in Handler |-> NONE]
  BY DEF Init
<1> QED
  BY <1>1, <1>2, <1>3 DEF Init, Service!Init

(* The answer of a module is the one the service promises.                 *)
LEMMA Promised ==
    ASSUME NEW r \in Request, r.url \in URL
    PROVE  /\ RecvResponse(ExecuteAnswer(r, m_nBaseLogLevel)) = Service!Reply(r)
           /\ SetBaseConfig(r, m_nBaseLogLevel) =
                  IF r.named /\ Service!SetsLevel(r) THEN r.value ELSE m_nBaseLogLevel
<1>1. r.url \in {Ping, SetConfig, GetConfig, Exit}
  BY Registered
<1> USE DEF Service!Reply, Service!Content, Service!SetsLevel, Service!NotFound, SetBaseConfig, ExecuteAnswer,
            RecvResponse, Ok, NotFound, Answer, Nothing, ResponseMsg, BaseConfig, Ping, SetConfig, GetConfig, Exit
<1>2. CASE ~r.named
  BY <1>2
<1>3. CASE r.named /\ r.url = Ping
  BY <1>3
<1>4. CASE r.named /\ r.url = SetConfig
  BY <1>4
<1>5. CASE r.named /\ r.url = GetConfig
  BY <1>5
<1>6. CASE r.named /\ r.url = Exit
  BY <1>6
<1> QED
  BY <1>1, <1>2, <1>3, <1>4, <1>5, <1>6

LEMMA StepMaps == IInv /\ [Next]_vars => [Service!Next]_(Service!vars)
<1> SUFFICES ASSUME IInv, [Next]_vars PROVE Service!Next \/ UNCHANGED Service!vars
  OBVIOUS
<1> USE DEF IInv
<1>1. /\ hpc \in [Handler -> {"idle", "find", "execute", "send"}] /\ request \in [Handler -> Request \cup {NONE}]
      /\ response \in [Handler -> Sent \cup {NONE}] /\ NONE \notin Request
      /\ \A a \in Sent : a /= NONE /\ RecvResponse(a) /= NONE
  BY Distinguished DEF TypeOK
(* A step that only registers or withdraws an interface, or nothing.       *)
<1>2. ASSUME UNCHANGED <<m_nBaseLogLevel, hpc, request, response>>,
             \/ s_mapInterface' = s_mapInterface
             \/ \E u \in URL : s_mapInterface' = s_mapInterface \cup {u} \/ s_mapInterface' = s_mapInterface \ {u}
      PROVE  Service!Next \/ UNCHANGED Service!vars
  <2>1. Looked' = Looked /\ Read' = Read
    BY <1>2 DEF Looked, Read
  <2>2. CASE s_mapInterface' = s_mapInterface
    BY <1>2, <2>1, <2>2, Mapped
  <2>3. ASSUME NEW u \in URL, s_mapInterface' = s_mapInterface \cup {u} PROVE Service!Register(u)
    BY <1>2, <2>1, <2>3 DEF Service!Register, Looked, Read
  <2>4. ASSUME NEW u \in URL, s_mapInterface' = s_mapInterface \ {u} PROVE Service!Withdraw(u)
    BY <1>2, <2>1, <2>4 DEF Service!Withdraw, Looked, Read
  <2> QED
    BY <1>2, <2>2, <2>3, <2>4 DEF Service!Next
<1>3. CASE MainStep \/ sig_handle \/ UNCHANGED vars
  <2>1. UNCHANGED <<m_nBaseLogLevel, hpc, request, response>>
    BY <1>3 DEF MainStep, ConfigFails, ParseConfig, StartLogModule, Start, AddFind, AddInsert, OnRegisterInterface,
                Return, sig_handle, vars, handlerVars
  <2>2. s_mapInterface' = s_mapInterface \/ AddInsert
    BY <1>3 DEF MainStep, ConfigFails, ParseConfig, StartLogModule, Start, AddFind, OnRegisterInterface,
                Return, sig_handle, vars
  <2>3. AddInsert => Interfaces[next] \in URL
    BY Registered DEF AddInsert, TypeOK, NextInv
  <2> QED
    BY <1>2, <2>1, <2>2, <2>3 DEF AddInsert
<1>4. ASSUME NEW u \in Withdrawn, DelInterface(u) PROVE Service!Next \/ UNCHANGED Service!vars
  <2>1. u \in URL
    BY <1>4 DEF DelInterface, TypeOK
  <2> QED
    BY <1>2, <1>4, <2>1 DEF DelInterface, handlerVars
<1>5. ASSUME NEW h \in Handler, OnService(h) PROVE Service!Next
  <2>1. PICK r \in Request : request' = [request EXCEPT ![h] = r]
    BY <1>5 DEF OnService
  <2>2. request[h] = NONE /\ UNCHANGED <<s_mapInterface, m_nBaseLogLevel, response>>
    BY <1>5 DEF OnService, HandlerInv
  <2>3. Looked' = Looked /\ Read' = Read
    BY <1>1, <1>5, <2>2 DEF OnService, Looked, Read
  <2>4. Service!Call(h, r)
    BY <2>1, <2>2, <2>3 DEF Service!Call, Looked, Read
  <2> QED
    BY <2>4 DEF Service!Next
<1>6. ASSUME NEW h \in Handler, FindInterface(h) PROVE Service!Next
  <2>1. /\ request[h] /= NONE /\ response[h] = NONE /\ h \notin Looked
        /\ UNCHANGED <<s_mapInterface, m_nBaseLogLevel, request>>
    BY <1>6 DEF FindInterface, HandlerInv, Looked
  <2>2. CASE request[h].url \in s_mapInterface
    <3>1. Looked' = Looked \cup {h} /\ Read' = Read
      BY <1>1, <1>6, <2>2 DEF FindInterface, Found, Looked, Read
    <3>2. Service!Look(h)
      BY <2>1, <2>2, <3>1 DEF Service!Look, Looked, Read
    <3> QED
      BY <3>2 DEF Service!Next
  <2>3. CASE request[h].url \notin s_mapInterface
    <3>1. NotFound(Nothing) \in Sent
      BY DEF NotFound, Answer, Sent, Body
    <3>2. Looked' = Looked
      BY <1>1, <1>6, <2>3 DEF FindInterface, Found, Looked
    <3>3. response' = [response EXCEPT ![h] = NotFound(Nothing)]
      BY <1>6, <2>3 DEF FindInterface, Found
    <3>4. RecvResponse(NotFound(Nothing)) = Service!NotFound
      BY DEF RecvResponse, NotFound, Answer, Nothing, Service!NotFound
    <3>5. Read' = [Read EXCEPT ![h] = Service!NotFound]
      BY <1>1, <3>1, <3>3, <3>4 DEF Read
    <3>6. Service!Look(h)
      BY <2>1, <2>3, <3>2, <3>5 DEF Service!Look, Looked, Read
    <3> QED
      BY <3>6 DEF Service!Next
  <2> QED
    BY <2>2, <2>3
<1>7. ASSUME NEW h \in Handler, OnServiceExecute(h) PROVE Service!Next
  <2> DEFINE a == ExecuteAnswer(request[h], m_nBaseLogLevel)
  <2>1. request[h] \in Request /\ request[h].url \in URL /\ m_nBaseLogLevel \in Level \cup {0} /\ h \in Looked
    BY <1>7 DEF OnServiceExecute, TypeOK, HandlerInv, Looked
  <2>2. a \in Sent /\ RecvResponse(a) = Service!Reply(request[h])
    BY <2>1, Execution, Promised
  <2>3. /\ response' = [response EXCEPT ![h] = a] /\ hpc' = [hpc EXCEPT ![h] = "send"]
        /\ m_nBaseLogLevel' = SetBaseConfig(request[h], m_nBaseLogLevel) /\ UNCHANGED <<s_mapInterface, request>>
    BY <1>7 DEF OnServiceExecute
  <2> HIDE DEF a
  <2>4. Looked' = Looked \ {h}
    BY <1>1, <2>3 DEF Looked
  <2>5. Read' = [Read EXCEPT ![h] = Service!Reply(request[h])]
    BY <1>1, <2>2, <2>3 DEF Read
  <2>6. m_nBaseLogLevel' = IF request[h].named /\ Service!SetsLevel(request[h]) THEN request[h].value
                           ELSE m_nBaseLogLevel
    BY <2>1, <2>3, Promised
  <2>7. Service!Serve(h)
    BY <2>1, <2>3, <2>4, <2>5, <2>6 DEF Service!Serve, Looked, Read
  <2> QED
    BY <2>7 DEF Service!Next
<1>8. ASSUME NEW h \in Handler, SendResponse(h) PROVE Service!Next
  <2>1. /\ response[h] \in Sent /\ UNCHANGED <<s_mapInterface, m_nBaseLogLevel>>
        /\ request' = [request EXCEPT ![h] = NONE] /\ response' = [response EXCEPT ![h] = NONE]
    BY <1>1, <1>8 DEF SendResponse, HandlerInv
  <2>2. Looked' = Looked
    BY <1>1, <1>8 DEF SendResponse, Looked
  <2>3. Read[h] /= NONE /\ Read' = [Read EXCEPT ![h] = NONE]
    BY <1>1, <2>1 DEF Read
  <2>4. Service!Return(h)
    BY <2>1, <2>2, <2>3 DEF Service!Return, Looked, Read
  <2> QED
    BY <2>4 DEF Service!Next
<1> QED
  BY <1>3, <1>4, <1>5, <1>6, <1>7, <1>8 DEF Next, HandlerStep

(* Every call behaves as if it were looked up at one moment and carried out
   at another, although the lookup's lock is released before the module is
   called (WebService.cpp:7-65, WebModule.cpp:29-82).                        *)
THEOREM Implements == Spec => ImplementsService
<1>1. Init => IInv /\ Service!Init
  BY InitInv, InitMaps
<1>2. IInv /\ [Next]_vars => IInv' /\ [Service!Next]_(Service!vars)
  BY StepInv, StepMaps
<1> QED
  BY <1>1, <1>2, PTL DEF Spec, ImplementsService, Service!Spec

=============================================================================
