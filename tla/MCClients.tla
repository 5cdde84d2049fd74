------------------------------ MODULE MCClients ------------------------------
(***************************************************************************)
(* Small instances of the classes in src/public, CRedisClient,             *)
(* CKafkaConsumer, CKafkaProducer, CHttpClient and SystemInfo, and of some *)
(* in src/base, Singleton, Socket, the threads and the locks.  They share  *)
(* nothing, so a behaviour is one's, chosen at the start; the variables of *)
(* the others hold IDLE, and variables of the same name serve several.     *)
(***************************************************************************)
EXTENDS Integers, Sequences

CONSTANTS
    NULL, NONE, EMPTY,
    Method, Value, RedisCalls, MaxContexts,             \* of Redis
    PartitionLists, ConsumerCalls,                      \* of the consumer
    Msg, NoMsg, MaxQueue, MaxInits,                     \* of the producer
    CaPath, HttpCalls, MaxLength,                       \* of CHttpClient
    Thread, Start, MaxTime,                             \* of SystemInfo
    User, NOTYET, MaxInstances,                         \* of Singleton and the locks
    MaxNest, MaxRuns,                                   \* of the locks and of Thread
    Obj, Descriptors, Ip, ANY, NOIP, BAD, Port, BYTE,
    Milliseconds, Sizes, SocketCalls,                   \* of Socket and SockAddr
    IDLE

VARIABLES
    client,     \* "redis", "consumer", "producer", "http", "system", "singleton", "socket" or "thread"
    pc, ret, calls, call, created, usable, living, failed,  \* of several
    m_pContext, err, contexts, wire, replies, db, effect,
    wanted, elems, m_bRun, i, consuming,
    m, unsent, queue, frees, inits,
    curl, strResponse, before, length,
    s_pSystem, objects, mine, now, m_nCpuNum, m_sHostName, m_fCurLoadAverage, m_nLastTimestamp,
    s_instance, holder, built, made, destroys, got,
    m_hSocket, hand, socket, told,
    mutex, readers, writer, scopes, asks, m_hThread, alive, unjoined, runs

redisOnly     == <<m_pContext, err, contexts, wire, replies, db, effect>>
consumerOnly  == <<wanted, elems, m_bRun, i, consuming>>
producerOnly  == <<m, unsent, queue, frees, inits>>
httpOnly      == <<curl, strResponse, before, length>>
systemOnly    == <<s_pSystem, objects, mine, now, m_nCpuNum, m_sHostName, m_fCurLoadAverage,
                   m_nLastTimestamp>>
singletonOnly == <<s_instance, holder, built, made, destroys, got>>
socketOnly    == <<m_hSocket, hand, socket, told>>
threadOnly    == <<mutex, readers, writer, scopes, asks, m_hThread, alive, unjoined, runs>>
publicOnly    == <<redisOnly, consumerOnly, producerOnly, httpOnly, systemOnly>>
baseOnly      == <<singletonOnly, socketOnly, threadOnly>>
vars == <<client, pc, ret, calls, call, created, usable, living, failed, publicOnly, baseOnly>>

Redis == INSTANCE RedisClient WITH MaxCalls <- RedisCalls, MayFail <- {"connect", "reply"}
Consumer == INSTANCE KafkaConsumer WITH
    MaxCalls <- ConsumerCalls,
    MayFail <- {"conf", "topicConf", "handle", "brokers", "topic", "start"}
Producer == INSTANCE KafkaProducer WITH
    OwnedByObject <- {},
    MayFail <- {"conf", "topicConf", "handle", "brokers", "topic", "produce"}
Http == INSTANCE HttpClient WITH MaxCalls <- HttpCalls, MayFail <- {"init", "perform"}
System == INSTANCE SystemInfo WITH MayFail <- {"name", "cpu", "load"}
Single == INSTANCE Singleton
Sock == INSTANCE Sockets WITH MaxCalls <- SocketCalls
Threading == INSTANCE Threads

ASSUME RedisConstants == Redis!Methods /\ Redis!Bounds /\ Redis!Strings /\ Redis!Failures
ASSUME ConsumerConstants == Consumer!Lists /\ ConsumerCalls \in Nat /\ Consumer!Failures
ASSUME ProducerConstants == Producer!Owned /\ Producer!Queue /\ MaxInits \in Nat /\ Producer!Failures
ASSUME HttpConstants == Http!Bounds /\ Http!Failures /\ Http!CaIsNotNull
ASSUME SystemConstants == System!Times /\ System!Failures /\ System!Callers
ASSUME SingleConstants == Single!Distinct /\ Single!InstanceBound
ASSUME SocketConstants == Sock!AddressConstants /\ Sock!SocketBounds
ASSUME LockConstants == Threading!ThreadConstants

NoRedis ==
    /\ m_pContext = IDLE /\ err = IDLE /\ contexts = IDLE /\ wire = IDLE
    /\ replies = IDLE /\ db = IDLE /\ effect = IDLE
NoConsumer == wanted = IDLE /\ elems = IDLE /\ m_bRun = IDLE /\ i = IDLE /\ consuming = IDLE
NoProducer == m = IDLE /\ unsent = IDLE /\ queue = IDLE /\ frees = IDLE /\ inits = IDLE
NoKafka == NoConsumer /\ NoProducer /\ created = IDLE /\ usable = IDLE
NoHttp == curl = IDLE /\ strResponse = IDLE /\ before = IDLE /\ length = IDLE
NoSystem ==
    /\ s_pSystem = IDLE /\ objects = IDLE /\ mine = IDLE /\ now = IDLE /\ m_nCpuNum = IDLE
    /\ m_sHostName = IDLE /\ m_fCurLoadAverage = IDLE /\ m_nLastTimestamp = IDLE
NoSingleton ==
    /\ s_instance = IDLE /\ holder = IDLE /\ built = IDLE
    /\ made = IDLE /\ destroys = IDLE /\ got = IDLE
NoSocket == m_hSocket = IDLE /\ hand = IDLE /\ socket = IDLE /\ told = IDLE
NoThread ==
    /\ mutex = IDLE /\ readers = IDLE /\ writer = IDLE /\ scopes = IDLE /\ asks = IDLE
    /\ m_hThread = IDLE /\ alive = IDLE /\ unjoined = IDLE /\ runs = IDLE
NoBase == NoSingleton /\ NoSocket /\ NoThread /\ living = IDLE
NoPublic == NoRedis /\ NoKafka /\ NoHttp
NoCall == ret = IDLE /\ calls = IDLE /\ call = IDLE

Init ==
    \/ client = "redis" /\ Redis!Init /\ NoKafka /\ NoHttp /\ NoSystem /\ NoBase /\ failed = IDLE
    \/ /\ client = "consumer" /\ Consumer!Init /\ NoRedis /\ NoProducer /\ NoHttp /\ NoSystem /\ NoBase
       /\ call = IDLE /\ failed = IDLE
    \/ /\ client = "producer" /\ Producer!Init /\ NoRedis /\ NoConsumer /\ NoHttp /\ NoSystem /\ NoBase
       /\ call = IDLE /\ calls = IDLE /\ failed = IDLE
    \/ client = "http" /\ Http!Init /\ NoRedis /\ NoKafka /\ NoSystem /\ NoBase /\ failed = IDLE
    \/ client = "system" /\ System!Init /\ NoPublic /\ NoBase /\ NoCall
    \/ /\ client = "singleton" /\ Single!Init /\ NoPublic /\ NoSystem /\ NoSocket /\ NoThread /\ NoCall
       /\ failed = IDLE
    \/ /\ client = "socket" /\ Sock!Init /\ NoPublic /\ NoSystem /\ NoSingleton /\ NoThread
       /\ pc = IDLE /\ ret = IDLE /\ call = IDLE /\ failed = IDLE
    \/ /\ client = "thread" /\ Threading!Init /\ NoPublic /\ NoSystem /\ NoSingleton /\ NoSocket /\ NoCall
       /\ living = IDLE

RedisStep(A) ==
    /\ client = "redis" /\ A
    /\ UNCHANGED <<client, created, usable, living, failed, consumerOnly, producerOnly, httpOnly,
                   systemOnly, baseOnly>>
ConsumerStep(A) ==
    /\ client = "consumer" /\ A
    /\ UNCHANGED <<client, call, living, failed, redisOnly, producerOnly, httpOnly, systemOnly, baseOnly>>
ProducerStep(A) ==
    /\ client = "producer" /\ A
    /\ UNCHANGED <<client, calls, call, living, failed, redisOnly, consumerOnly, httpOnly, systemOnly,
                   baseOnly>>
HttpStep(A) ==
    /\ client = "http" /\ A
    /\ UNCHANGED <<client, created, usable, living, failed, redisOnly, consumerOnly, producerOnly,
                   systemOnly, baseOnly>>
SystemStep(A) ==
    /\ client = "system" /\ A
    /\ UNCHANGED <<client, ret, calls, call, created, usable, living, redisOnly, consumerOnly,
                   producerOnly, httpOnly, baseOnly>>
SingletonStep(A) ==
    /\ client = "singleton" /\ A
    /\ UNCHANGED <<client, ret, calls, call, created, usable, failed, publicOnly, socketOnly, threadOnly>>
SocketStep(A) ==
    /\ client = "socket" /\ A
    /\ UNCHANGED <<client, pc, ret, call, created, usable, failed, publicOnly, singletonOnly, threadOnly>>
ThreadStep(A) ==
    /\ client = "thread" /\ A
    /\ UNCHANGED <<client, ret, calls, call, created, usable, living, publicOnly, singletonOnly, socketOnly>>

Next ==
    \/ RedisStep(Redis!Next) \/ ConsumerStep(Consumer!Next) \/ ProducerStep(Producer!Next)
    \/ HttpStep(Http!Next) \/ SystemStep(System!Next) \/ SingletonStep(Single!Next)
    \/ SocketStep(Sock!Next) \/ ThreadStep(Threading!Next)

Spec == Init /\ [][Next]_vars

-----------------------------------------------------------------------------
(* A Redis method that succeeds was carried out by the server and returns
   what the server answered to it; one that fails on a context that can
   still be used has changed nothing, so it may be repeated
   (RedisClient.cpp).                                                      *)
ResultMeansEffect ==
    client = "redis" => Redis!SuccessMeansDone /\ Redis!FailureIsRepeatable

(* A reply is never taken for the reply to another call, however late it
   comes (RedisClient.cpp:92-95 and its like).                             *)
ContextIsClean ==
    client = "redis" => Redis!TypeOK /\ Redis!ContextIsClean

(* The consumer consumes what was asked for while it polls, and leaves
   nothing consumed when Start returns 0; every buffer given to the producer
   is freed once and only once, by librdkafka or by the caller Send's result
   sends it back to; and neither calls librdkafka with a NULL object after an
   Init that succeeded (KafkaConsumer.cpp:82-231, KafkaProducer.cpp:125-176). *)
KafkaSafe ==
    /\ client = "consumer" =>
          /\ Consumer!TypeOK /\ Consumer!UsableNeverCrashes
          /\ Consumer!LoopServesAll /\ Consumer!StartStopsAll
    /\ client = "producer" =>
          /\ Producer!TypeOK /\ Producer!UsableNeverCrashes
          /\ Producer!FreedOnce /\ Producer!AllReleased

(* CHttpClient appends the response to what the caller's string held, whole
   when the call returns CURLE_OK, and every request goes out on a handle
   with the options of its own call (HttpClient.cpp:48-274); a Socket's
   descriptor has one holder, addresses and options are what was asked for,
   and an address comes with what was received (Socket.cpp).               *)
NetworkSafe ==
    /\ client = "http" => Http!ResponseIsBehind /\ Http!HandleIsRight
    /\ client = "socket" =>
          /\ Sock!OneHolder /\ Sock!DeadHoldNothing
          /\ Sock!AddressesRight /\ Sock!AnswersRight

(* Singleton never has a second instance and, until Destroy is called, gives
   every thread the same; SystemInfo, which takes no lock, gives whole
   objects and loads no older than a second (singleton.h, SystemInfo.cpp);
   scoped locks exclude and end with their scopes, and a Thread is joined
   before it runs again (Thread.cpp).                                      *)
ThreadsSafe ==
    /\ client = "singleton" => Single!TypeOK /\ Single!OneInstance /\ Single!SameForAll
    /\ client = "system" => System!TypeOK /\ System!InstanceIsMade /\ System!LoadIsRecent
    /\ client = "thread" =>
          Threading!ScopesExclude /\ Threading!LocksAreScopes /\ Threading!JoinedBeforeRun

(* The partition lists the consumer is tried with, and the timeouts.       *)
SomeLists == {<<0>>, <<0, 1>>, <<1, 0, 2>>, <<1, 2>>, <<0, 1, 2, 3, 4, 5, 6, 7, 8, 9, 10>>}
SomeTimes == {-1, 1500}
=============================================================================
