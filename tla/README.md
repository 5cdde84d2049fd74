# ProjectDemo in TLA+

This directory holds TLA+ specifications of ProjectDemo, a small C++ service
framework (`src/src`), TLC configurations that check them on small instances,
and TLAPS proofs of the properties that matter most. The code is the reference:
every definition that models code is listed under `map` in `PROJECT.json` with
the lines it translates. Line numbers below are those of the files in `src/src`.

## 1. The system

`main.cpp` reads `profile.xml` into `CConfigModule` (45-51), starts the log with
the level found there (`StartLogModule`), starts `CWebService` (a `WebServer`
with its pool of `ServletHandler` threads) and then registers the four
interfaces of `CWebModule`; it looks up one address with `CIPFinder` and sleeps
until SIGINT. The rest of the repository is a library for such services: a UDP
server, clients for HTTP, Redis and Kafka, threads, sockets, strings, a growing
buffer, text, time, file, XML and JSON helpers. `main` uses them in lines that
are commented out (59-82).

| Component | State | Operations | Threads and partners |
| --- | --- | --- | --- |
| Web server pool (`base/WebServer.cpp`, `Socket.cpp`, `Thread.cpp`, `WebService.cpp:88-106`) | listener, `m_vecHandler`, per handler socket, servlet, `m_bIdle`, `m_bStop` | Start, Stop, accept, JoinThread, ServletHandler::Start, Routine, Close, destructor | acceptor, one thread per handler, the owner; all share the descriptor table, no lock |
| HTTP request framing (`WebServer.cpp:347-429`) | `strCache`, `bHeaderCompleted`, `nContentLength`, the request | one turn of IOHandler's loop | the handler thread and a client's byte stream |
| HTTP message text (`WebServer.cpp:21-288`) | method, URI, arguments, header lines, status | constructors, Line, Pack, Unpack | sender and receiver of one message |
| HTTP client socket (`WebServer.cpp:525-690`) | socket, `m_response`, body | IOHandler, SendRequest, RecvResponse, Close | one thread, a server's byte stream |
| Interfaces, configuration, start-up (`WebService`, `WebModule`, `ConfigModule`, `LogModule`, `main`) | interface map (locked), `m_nBaseLogLevel` (not locked), log level, `g_exit` | AddInterface, DelInterface, FindInterface, OnService, OnServiceExecute, Set/GetBaseConfig, start-up and exit | main, the handlers, the signal handler |
| Log server (`base/Log.cpp`) | `m_vecMsg` under `m_cs`, `m_bFile`, `m_nLevel`, `m_bStop`, the writer's file | WriteLog, Enable, SetLevel, writer Routine, destructor | every thread, the writer, whoever calls Enable |
| UDP server (`base/UdpSrv.cpp`) | `m_vecThread` under `m_cs`, per thread `m_vecSock` under its own lock, `m_sock` | Join, Leave, StopAll, SendTo, SetSendInfo, Send, PerThread::Routine with its callbacks | users, one thread per group of sockets, callbacks that call back |
| Threads and locks (`base/Thread.cpp`, `singleton.h`) | a mutex, a read-write lock, `m_hThread`, `s_instance` | Lock, Unlock, Try..., the scoped locks, Run, Join, GetInstance, Destroy | all threads |
| Sockets and addresses (`base/Socket.cpp`) | `m_hSocket`, address | Create, Attach, Detach, Close, Bind, Connect, Accept, RecvFrom, options; SockAddr | one owner at a time |
| Redis client (`public/RedisClient.cpp`) | `m_pContext` | 23 commands, GetRedisConnect, destructor | one thread, a server that may answer late |
| Kafka consumer, producer (`public/Kafka*.cpp`) | handles, partition list, `m_bRun` / the ownership of message buffers | Init, Start, Stop, destructor, sig_stop / Init, Send, destructor | a thread in Start, another in Stop; librdkafka |
| HTTP client (`public/HttpClient.cpp`) | the caller's string, a curl handle per call | Get, Post, Gets, Posts, OnWriteData | libcurl, a transfer that may break off |
| System information (`public/SystemInfo.cpp`) | `s_pSystem` (no lock), cached name, CPUs, load | GetInstance and the getters | any threads |
| TBuff (`base/TBuff.h`) | block, `m_nSize`, `m_nReserved` | resize, append, swap, clear, erase | none |
| Strings (`base/String.cpp`) | `m_pData`, `m_nLength`, `m_nAllocLength` | every operation of CString | none |
| Text utilities (`base/Utility.cpp`) | none | Wildcard, Replace, Trim, conversions between GBK and UTF-8 | none |
| Times and spans (`base/Time.cpp`, `TimeSpan.cpp`) | days and seconds | construction, comparison, +, -, date, weekday, fields, both Formats | none |
| Files (`base/FileEx.cpp`) | the tree of folders and files, the current directory | listing, making, removing, asking | another process changes the tree |
| XML files (`base/BHXml.cpp`, `Markup.cpp`) | a buffer with its open layers / the text, the table of elements, saved positions, document flags | the writer's calls / parse, find, edit, save positions, Load, Save | none; the files are others' too |
| JSON (`base/cJSON.c`) | linked items, their flags and names; text buffers | add, detach, replace, refer, duplicate, delete; parse, print, minify | none |
| IP finder (`base/ipip.cpp`, `IPFinder.cpp`) | one database shared by all finders | init, destroy, find, Find, GetISPInfo, GetLatLngInfo, ParseLocation | one finder in `main` |

What is hard, and what makes each part correct (`hazards` in `PROJECT.json` has
each at its line):

- **Pool.** Hand-over of a descriptor through three plain stores, descriptor
  numbers that are reused at once, Stop closing sockets under running threads.
  Correct when a descriptor has one owner, an answer goes out on the connection
  its request came from, nothing leaks, the pool stays within its size, queued
  clients are served and Stop returns and leaves nothing.
- **HTTP streams and texts.** `recv` cuts anywhere; objects are reused; a length
  may be negative. Correct when what is handed on is what was sent, in order and
  with its header lines, and nobody waits for what has come.
- **Interfaces.** Handlers run while `main` is still registering, and a module is
  called after the lock is gone. Correct when each call looks as if it had been
  looked up at one moment and carried out at a later one, and is answered.
- **Log.** Overflow, Enable racing loggers and writer, file failures. Correct when
  the queue is bounded, the order is kept, losses are announced, off means off,
  and a file holds one hour.
- **UDP.** `select` reports on sockets of an earlier moment; callbacks call the
  server with their thread's lock held. Correct when every open socket belongs to
  one thread, no callback runs for a socket that was left, calls return and joined
  sockets are served.
- **Threads, locks, sockets.** A double-checked singleton, scopes in scopes, thread
  creation that fails, descriptors handed between objects. Correct when there is
  one instance, scopes exclude, a thread is joined before it runs again and a
  descriptor has one holder.
- **Clients.** Late replies, requests and transfers that fail half-way, buffers with
  two possible owners. Correct when success means done, a failure on a usable
  context may be repeated, what is started is stopped, and each buffer is freed once.
- **Documents.** CMarkup edits text under a table of offsets; cJSON links items the
  caller owns; both count room before they write. Correct when the table is that of
  the text, positions stay alive, each item is freed once, and what is written is
  read back, also through a file in another encoding.
- **Files.** Another process makes and removes entries between two calls. Correct when
  what is listed was there, and made and removed is what is named.
- **Sequential parts.** Boundaries, growth, wrap-around, termination.

## 2. Modules

| Module | Models | Checked by |
| --- | --- | --- |
| `WebServer` | the pool; an action for each access another thread can observe | itself; proofs in `WebServerProofs` |
| `ConnectionService` | abstract: what the pool promises about connections | refined by `WebServer` |
| `HttpFraming` | IOHandler's cache, header, length (negative ones too), body, KeepAlive | `MCHttp`; proofs in `HttpProofs` |
| `HttpMessage` | HttpRequest and HttpResponse, built, packed and unpacked | `MCHttp` |
| `HttpClientSocket` | one client object over several uses | `MCHttp`; proofs in `HttpProofs` |
| `WebInterface` | main, interface map, web module, configuration, log level | itself; proofs in `WebInterfaceProofs` |
| `ConfigService` | abstract: what the interfaces promise a caller | refined by `WebInterface` |
| `LogSrv` | loggers, queue, writer, Enable, SetLevel, destructor | itself; proofs in `LogSrvProofs` |
| `UdpSrv` | all public calls, by users and from callbacks, the threads and the descriptor table | itself; proofs in `UdpSrvProofs` |
| `Singleton` | GetInstance with its two tests, Destroy | `MCClients`; proofs in `ClientsProofs` |
| `Threads` | Mutex, CRWLock, scoped and trying locks, Run and Join | `MCClients`; proofs in `ClientsProofs` |
| `Sockets` | SockAddr and Socket over a table of descriptors | `MCClients`; proofs in `ClientsProofs` |
| `RedisClient` | every method, connection, time-out, the server's side of the wire | `MCClients`; proofs in `ClientsProofs` |
| `KafkaConsumer`, `KafkaProducer` | the two classes and what librdkafka does for them | `MCClients`; proofs in `ClientsProofs` |
| `HttpClient`, `SystemInfo` | the class over libcurl; the unlocked singleton and its cache | `MCClients`; proofs in `ClientsProofs` |
| `BHXml` | CBHXml's buffer, layers and states | `MCBase` |
| `MarkupText`, `Markup` | how CMarkup reads a text; the edited document with its table | `MCBase` |
| `MarkupStore`, `MarkupPath` | the segments, saved positions and hash tables behind CMarkup, and operator=; FindElem's paths | `MCBase` |
| `MarkupFile` | the conversions between encodings; Load and Save with marks, declarations, flags | `MCBase` |
| `TBuff` | every operation on two buffers and their blocks | `MCBase`; proofs in `TBuffProofs` |
| `CString` | every operation on two strings and their memory | `MCBase` |
| `Wildcard`, `Replace` | the algorithms, one action per turn of a loop | `MCBase` |
| `Calendar`, `Time` | dates as counts of days; times, spans and their arithmetic | `MCTools`, `MCBase`; proofs in `ToolsProofs` |
| `TimeFields` | fields, order, GetCurrentTime, Format's growing buffer | `MCTools`, `MCBase`; proofs in `ToolsProofs` |
| `IPFinder` | the shared database, the scan turn by turn, the three functions that take its result apart | `MCTools`, `MCBase`; proofs in `ToolsProofs` |
| `FileEx` | every function over a tree somebody else changes | `MCTools`, `MCBase`; proofs in `ToolsProofs` |
| `MCTools` | the sum of the four modules above, apart from the others because all of it is proved about | `MCBase` extends it |
| `JsonTree`, `JsonText` | items and their ownership; parsing, printing, Minify | `MCBase` |

Names are the code's: variables are its fields and locals, actions its functions
or the part of one up to the next access another thread can see. Within one
program counter the labels (`pc`, `upc`, `tpc`, `wpc`, `hpc`) say between which
two such accesses a thread is. A critical section that contains a single access
to the shared state is one step; where the code reads a flag without the lock it
writes it under, the read is a step of its own. Mutexes are variables that name
their holder; `Run` and `Join` of `CThread` are the labels "none" (`m_hThread` is
NULL), running, and "exit" or "done" (ended, not joined). In the sequential
classes a call is a step, except where somebody else can act inside it
(`FileEx`) or it must be shown to end.

`MCHttp`, `MCClients` and `MCBase` each check several components that share
nothing in the code. A behaviour belongs to one component, chosen in the initial
state and named by a variable (`end`, `client`, `part`); the variables of the others
hold `IDLE` (the buffers of `MCBase` stay as constructed). This is the sum of the
separate state spaces, not their product, and it adds no behaviour to any of
them: that each behaviour of `MCClients` is one of the class it names is itself
proved (`RedisOnly` and its like in `ClientsProofs`), so that what is proved of a class
alone holds in the run that checks it. Components that are instantiated with variables `x1`, `x2`, ... use the same
variables at different choices. Properties guard each component's formula with the
choice, and one property of the run conjoins the formulas that answer one question:
`ThreadsSafe` is `Singleton!OneInstance`, `SystemInfo!LoadIsRecent`,
`Threads!ScopesExclude` and so on; each formula is stated and explained where it is
defined.

Abstractions worth knowing:

- In `WebServer` a request is `Chunks` pieces of data; `HttpFraming` says what a
  request is. `Handler` is the set of *addresses* a handler can live at, so that a
  handler deleted and one allocated in its place are told apart only as the code
  can. The kernel keeps a connection alive while a thread is in `recv` on it,
  even when its number has been closed (`rx`).
- Bytes in the two framing modules are line ends, header lines tagged with their
  message, and body symbols, one of which looks like a line end. `HttpMessage` has
  the separators the code searches for, digits and words.
- `WebInterface` keeps of a body the number it carries, and of an XML file its level
  or the failure to read it.
- `LogSrv` numbers messages in the order of their pushes; text and console are left out.
- `UdpSrv` lets a callback make one call. A callback does not leave the last socket of
  its own thread: section 6.
- `RedisClient` works on one key and one hash field; `lrem` has count 0. A time-out
  is possible whenever the reply has not come, and what was sent may be carried
  out later or never.
- `KafkaProducer` gives every buffer to the object; the use in which the caller
  frees its buffer too (`OwnedByObject`) is discussed in section 6.
- `TBuff`'s `size_t` has 64 values and `new` does not throw in the run.
- The text `IPFinder` reads fits the result buffer, and one finder lives at a time. What
  it looks up is any four numbers, as `%d` reads them. Numbers that are not octets may
  read `flag` outside its bounds: the record the scan then begins at is any, or the
  behaviour ends (`astray`), and nothing is claimed after it.
- A path of `FileEx` is a sequence of names, dots and separators; arguments have no
  `..` in them. A current directory that another process removed is `Nowhere`, below
  which nothing can be found or made.
- `JsonTree` leaves values out and `JsonText` sharing; both count every byte of memory
  that matters to them (ownership there, room here).
- `Markup` works on symbols, an entity reference being one; `MarkupFile` has of
  GB2312 a few characters and two that are not in it. Both let the caller avoid what
  the code does not survive; `Unguarded` names those uses and is empty in the runs.
  Section 6 says what they are.

## 3. Runs

Distinct states are those of two workers; every run takes less than three
minutes on two cores.

| Run | Bounds | Shows |
| --- | --- | --- |
| `web_pool` (441k states) | 2 handler addresses, pool of 1, 2 connections, 4 descriptors, 1 foreign descriptor, 2 starts, failing calls | `PoolBounded`, `NoDescriptorLeak`, `HandoffReady`, `StopLeavesNothing` |
| `web_handoff` (2.0M) | 2 handlers, pool of 2, 3 connections, 4 descriptors | `SoleOwner`, `AnswerGoesHome`, `AcceptorGoneBeforeDelete` |
| `web_liveness` (164k) | 1 handler, 2 connections, 3 descriptors, fairness | `ImplementsService` (refinement of `ConnectionService`, with its liveness), `BacklogDrains`, `StopReturns` |
| `http` (215k) | server: 3 pipelined requests, lengths from -1; client: 2 uses, every call may fail; bodies up to 2 symbols, `recv` of up to 5; texts: 2 requests and responses, a line to each | `ServedAsSent`, `BodyIsOfThisResponse`, `TextsArrive`, `ExchangesEnd` |
| `log_safety` (753k) | 2 loggers, queue limit 2, 6 messages, 3 calls of Enable and SetLevel, 1 change of hour, fopen and pthread_create may fail | `QueueBounded`, `Fifo`, `LossIsNoticed`, `OffMeansOff`, `OneFilePerHour` |
| `log_liveness` (34k) | 2 loggers, queue limit 1, 4 messages, 3 calls, no failures, fairness | `QueueDrains`, `EnableReturns` |
| `udp_safety` (1.3M) | 2 users (one also sends), callbacks that join, leave and send, 2 threads, 2 sockets to a thread, 3 sockets created, 3 descriptors; bind, pthread_create and select may fail | `SocketsInOrder`, `CallbackIsJoined` |
| `udp_liveness` (48k) | 1 socket to a thread, 2 sockets created, bind may fail, fairness | `CallsReturn`, `JoinedIsServed` |
| `udp_stale_set` (violation) | 1 user, 2 sockets to a thread | `CallsReturn` fails: section 6 |
| `web_interface` (255k) | 2 handlers, 2 calls, levels 3 and 7, get/config may be withdrawn, config and start may fail, fairness | `ImplementsService` (refinement of `ConfigService`), `AnsweredOrGone` |
| `clients` (1.7M) | below | `ResultMeansEffect`, `ContextIsClean`, `KafkaSafe`, `NetworkSafe`, `ThreadsSafe` |
| `base` (470k) | below | `SizeWithinBlock`, `ContentsAsVector`, `TextRight`, `TimeRight`, `FilesRight`, `JsonRight`, `XmlRight`, `TextCallsEnd` |

The bounds of `clients`. Redis: all methods, each with two values or none, 3 calls over 2 contexts. Consumer: 4 calls,
lists of 1, 2, 3 and 11 partitions, one not starting at 0. Producer: 3 messages, queue of 2, 2 Inits. HTTP client: 3 calls, bodies of
2 pieces. SystemInfo: 2 threads, 5 seconds. Singleton: 3 threads, 2 objects. Sockets: 2
objects, 2 descriptors, 5 calls. Threads: 3 users, scopes 2 deep, a Thread run twice.

The bounds of `base`. Two buffers of up to 3 elements of one value (what they hold in
which order is proved for every value, section 5); strings up to 2 bytes; texts of up
to 3 letters of two under patterns of up to 4 (Wildcard), and of up to 5 (Replace, Trim);
every database of up to 3 ranges that end at one of 8 of the 16 addresses, looked up by
each address, by six texts with a number that is no octet, and by one with too few; the
first and 28th of every month of 2000 and of December to March of 1900, 1904 and 2100, 6
spans, 2 operations, formats of spans up to 4 characters, of times up to 8 with a buffer
that grows from 2; a tree of 4 folders, 2 calls of CFileEx and 1 change by another
process; JSON trees of 3 items at a time, texts of up to 3 lexemes and 12 longer ones,
items up to 3 deep. CBHXml: 7 calls, names of 1, 3 and 7 bytes, layers of 3, a first
buffer of 12. CMarkup: 1 call on 7 documents that have each kind of node, 2 calls on one with
two children, 4 calls with 2 saved positions; 3 of Load, Save, SetDoc and conversions on 12
texts and 4 sets of flags, where open, read and write may fail. Its store: 2 documents copied
onto each other, segments of 4 elements, up to 11 elements, 2 calls; 2 saved positions that
share a slot in the smaller of 2 tables and not in the larger, 3 calls. Paths: every one of 3
parts out of 17, 3 calls on one.

Why the bounds are enough to be interesting: a pool of one with two clients is
the smallest that must reject; two handler addresses allow a handler to be
deleted and another allocated; two handlers with three connections and four
descriptors (one is the listener) make every number be closed by one thread while
another takes it. A queue limit of 2 and 6 messages overflow twice with messages
left in between, and three calls switch the file output on, off and on. Three
sockets with three numbers, two sockets to a thread, give full threads, a second
thread, reused numbers, and a callback that leaves its neighbour's or its own
socket. Three pipelined requests leave one on each side of the one being parsed; a
buffer of 5 holds more than a header and less than two messages. Three calls over
two Redis contexts let a late command of the first reach the server after a reconnection
and between two calls of the second. Wildcard needs two stars with a retry between them
(a pattern of four letters, a text of three); Replace needs a replacement that contains what is searched for (find of 1 or 2,
replacement of up to 2). The years are each kind of leap rule and both ends of the
loop over years; spans of a second, a day and almost a year lead from the 1st and the
28th over the ends of months and years. Two edits of a document with two children
shift each child's position by the other's edit; one of two saved positions is
lost with its element and the other kept. Three calls on a file are SetDoc, Save,
Load, or Load, Save, Load. Three JSON items are a parent, a child and what replaces it
or refers to it. `MaxCalls`, `MaxStarts`, `MaxJoins`, `MaxMsgs`, `MaxUses`, `MaxHour`,
`MaxForeign`, `MaxChanges`, `MaxItems` and their like cap what the environment does; they
are in the guards of the actions and named in the CONSTANTS of each module.
`CHECK_DEADLOCK` is FALSE everywhere because every one of these systems may stop:
the server is stopped for good, calls return, the process ends.

The properties that relate most:

- `SoleOwner` speaks of the acceptor's local variable, the handlers' fields and
  where each thread is; a handler that has called `close` and not yet stored
  `INVALID_SOCKET` no longer counts, since the acceptor may have got its number.
- `AnswerGoesHome` holds although `~ServletHandler` closes a descriptor under a
  running handler: the acceptor was joined before, so no connection can get the
  number while a handler is about to answer on it. The mutant that lets the
  acceptor overwrite a busy handler breaks it.
- `Fifo` and `LossIsNoticed` speak of file, batch and queue put together, so a swap
  that copies or an overflow that forgets its notice is seen wherever it happens.
- `ServedAsSent` holds for lengths that are negative as far as it can: what such a
  request is served with is what `Taken` says the code takes, and the connection is
  *sound*, its messages those of the sender, until the first of them.
- `SocketsInOrder` is the books of the UDP server: every open socket is one thread's,
  `m_sock`, or in the hands of the call that made it, and threads are those with sockets.
- `FailureIsRepeatable` (in `ResultMeansEffect`) names its two exceptions (`rpop` and
  `spop` of the empty element), `BodyIsOfThisResponse` its one (a response without a length).
- `TimeRight` compares the day counts the loops of `_SetDate` and `_GetDate` arrive at
  with the Julian day number, a formula without loops, after any two operations.
- `XmlRight` parses the text again: the table that all edits have kept up to date is the
  table `x_ParseElem` makes of what they left (`TableIsOfText`), and what the caller put
  into an element is read back (`DataSurvives`). What was saved is what the next Load
  finds, whatever the flags of the reading before (`LoadedAsMeant`).
- `JsonRight` counts: an item and its name are freed once, no sooner than the last
  reader (`FreedOnce`); each of the three printers has at every moment as much room as
  it writes, and no parser reads or writes past the end of its text or its block
  (`MemoryIsEnough`). Exempt are names that are mixed, after which the behaviour ends
  (`Mixed`), a `\u` with a quote or a backslash among its four bytes, and for Minify a
  string or a block comment that is not closed: section 6.
- `FilesRight` says of a lookup of four octets which record it finds. Of other numbers it
  says no more than that what is found ends at the masked address or behind it.
- `KafkaSafe` asks Start to stop every partition only for lists 0..n-1, and
  `TextRight` is about a `str1` that is not empty: section 6 says why.

Each property has a mutant in `PROJECT.json`: a plausible bug in one mapped
definition with which TLC finds the property violated in the same run. The
mutated forms stand next to the definitions they replace.

## 4. Fairness

Weak fairness means: a thread that can go on does. It is assumed for the acceptor,
each handler and the owner inside Stop (`WebServer`), for the handlers and `main`
(`WebInterface`), for a turn of IOHandler and a call of the client (`MCHttp`), and
for the sequential loops of `Wildcard`, `Replace`, and the two Formats (`MCBase`): all
are ordinary threads of an operating system. Strong fairness is assumed for
threads that compete for a mutex (`LogSrv`, `UdpSrv`): they can go on only while it
is free, and get it in the end; holders release it after a bounded amount of work,
except as in section 6.

Of the environment only one thing is assumed: a peer does not keep a connection
open for ever (`HangUp`). Without it neither Stop (it joins a thread in `recv`;
`close` does not wake it) nor the client's IOHandler (no receive time-out) need
return, as the code has it. Nobody is assumed to call, connect, log or send.
`clients` has safety properties only and no fairness. Liveness is checked where
system calls do not fail: with a failed `pthread_create` there is no thread to
do the work, and the code does not notice. In `udp_liveness` callbacks do not call
the server: with such calls two mutexes are taken in both orders (section 6).

## 5. Proofs

TLAPS proves for every value of the constants what the runs show on small ones.
The assumptions are the named ASSUMEs of each module: pool size and bounds are
natural numbers, names are distinct, the queue limit is at least 1.

**`WebServerProofs`.** The inductive invariant is

    IInv == TypeOK /\ AcceptorInv /\ StopInv /\ PoolBounded /\ IdleInv
            /\ SoleOwner /\ HoldInv /\ RxInv /\ AnswerGoesHome

`SoleOwner` is not inductive: that a handler the acceptor chooses holds no
descriptor follows only from what `m_bIdle` means at each label (`IdleInv`); that
nothing is handed over once Stop has joined the acceptor, from `AcceptorInv` and
`StopInv`; that a number a handler holds is that connection's, from `HoldInv`
(the table entry) and `RxInv` (what is in its cache came from there). One lemma
per conjunct shows that a step preserves it, with frame lemmas by actor
(`NextCases`, `HandlerFrame`, `AcceptorFrame`, `EnvironmentFrame`, `QuietFrame`) for
the actions that leave it alone. Theorems: `TypeCorrect`, `PoolIsBounded`,
`OneOwner`, `HandoffIsReady`, `AnswersGoHome`, `AcceptorIsGone`.

On top of it, `LeakInv` and `ListenInv` account for what is open. `NoDescriptorLeak` is
not inductive: a handler that has closed its number but not yet stored
`INVALID_SOCKET` may have the number of somebody else's connection, and forgets it;
`LeakInv` counts only those that *hold* a number, and says that what the destructor has
closed (`owner = "invalidate"`) is not a connection again, because nobody accepts any
more. Theorems: `NothingLeaks`, `StopIsClean`.

`KeepsService` is the safety part of `WebServer => ConnectionService`: Init implies
`Service!Init`, and every step is a step of `Service!Next` or leaves the service's variables
alone. Most steps close one descriptor or none and map to `Close` or a stutter
(`Closing`); the hard step is Accept, which the service allows only while at most
`m_nMaxThread` connections are open: before accept returns every open connection is
some handler's of the pool, and no two are the same one's (`RoomForOne`, by a map from
the pool's places onto the open connections). That a connection Connect queues finds
the service up, and that StopClear finds nothing open, is `StopLeavesNothing`. `TakenInv`
adds that what is open or in `recv` was taken, and that the listener's number is the
listener's.

**`LogSrvProofs`.** `Fifo` and `LossIsNoticed` are about `disk \o vec \o m_vecMsg`; the
invariant takes the three apart (`OrderInv`: each is ordered and what is behind is
larger; `NoticeInv`: what precedes the first message of each) because a step
changes two of them at once. `LockInv` says who may be in the critical section,
`WriterInv` where a writer can be for each place of Enable, `BatchInv` that the
batch is empty outside `write`, `FileInv` that the file is of the hour just read.
Lemmas about order and appending (`JoinOrder`, `AppendOrder`, ...) carry the
sequence reasoning. Theorems: `TypeCorrect`, `QueueIsBounded`, `OffIsFinal`,
`HourlyFile` (under `MaxHour < HoursPerDay`, needed: section 6), `FifoOrder`,
`LossLeavesNotice`.

**`UdpSrvProofs`.** For any number of users, threads, sockets and descriptors. The
inductive invariant is

    IInv == TypeOK /\ LockInv /\ OwnInv /\ WInv /\ ThreadInv /\ StopInv
            /\ SockInv /\ SocketsBounded /\ IndexInv

`CallbackIsJoined` and `SocketsInOrder` are about vectors, a table of descriptors and
callers in the middle of a call, and none of the three says enough alone. `LockInv` says
who can be inside the server (one, since the lock is recursive but a callback's call is its
thread's own), `OwnInv` when a thread has its own lock, `WInv` which thread object a caller
is at, `ThreadInv` that an empty thread is being filled or deleted, `StopInv` that
StopAll leaves ended, empty threads behind it. `SockInv` says that what a vector,
`m_sock` or a caller has is open (`OpenInv`), in one place (`OneHolder`), and that
nothing else is open (`Held`). That is why Leave, which compares *descriptors*, removes the
socket that was meant: two sockets of a vector are open, and so have different ones
(`Removal`). `SocketsBounded` rests on `WInv`, because Join tests the room in one step and
inserts in another; `IndexInv` keeps Routine's index within a vector that others
change whenever the thread has no lock. Theorems: `CallbacksAreJoined`, `BooksInOrder`.

**`WebInterfaceProofs`.** `Implements`: `WebInterface` implements `ConfigService`, for any
number of handlers and any levels. The service takes the interface map, the level and
the calls as they are; a call is looked up while its handler is at `execute`, and has its
reply while it is at `send`. The invariant says what a handler has at each label
(`HandlerInv`) and that main registers no more interfaces than there are (`NextInv`);
`Promised` is the heart of it: what a module answers, and does to the level, is what the
service says, although the lookup's lock is released before the module is called.

**`TBuffProofs`.** `SizeFits`: the elements stay within the block, for every element
size and minimum. The invariant adds that the block is as long as `m_nReserved`.
The premises are that `new` does not throw and that no length given to `erase`
wraps around (section 6).
`HoldsContents`: after any calls the buffer holds what a standard container would, for
elements of one byte (section 6). `ContentInv` adds to the invariant that the block is a
sequence of `m_nReserved` cells and that each of the first `m_nSize` is the vector's.
One lemma follows `resize` with what `append` writes behind the old end
(`ResizeContents`), one the `memmove` of `erase` (`EraseContents`).

**`ToolsProofs`.** About all that `MCTools` puts together: `TimeRight` and `FilesRight`
in every state, for all dates, spans, formats, databases, addresses, trees and paths. Its
assumptions are `TimeConstants`, `FieldConstants`, `FinderConstants` and `PathConstants`:
hours, minutes and seconds in range and counts of seconds that are not negative (section 6),
databases whose ranges are sorted, trees in which every entry has its folder around it.

- *Arithmetic* (`SubtractUndoesAdd`, `AddUndoesSubtract`, `OrderIsSign`). They rest on `Carry`,
  what C's division makes of the sum of two counts of seconds within a day.
- *The calendar* (`TimeAlwaysRight`). `_SetDate` and `_GetDate` add up and take off
  years and months in loops, which are recursive functions here. That the days before
  a year are what quotients by 4, 100 and 400 count, as the Julian day number does, is an
  induction, done first-order: if it fails for some year there is a first one (`Least`),
  and the step from the year before refutes it (`YearsAre`). From that,
  date to count and back are inverse, the weekday is the day number's, and the months of
  both kinds of year are twelve cases.
- *Format.* `TimeInv` says of CTimeSpan's loop what has been dealt with: left of `nIndex` is
  what the conversions of the pattern stand for, right of it the pattern untouched; that a
  replacement may contain a percent sign does not matter because the search goes on behind
  it. `FieldsInv` says of CTime's that the text it works on is made of the fields of the
  time it was called on, and that what does not fit is the empty text or longer than half
  the buffer that could not be had.
- *Files* (`FilesAlwaysRight`, first half). `FilesInv` keeps the tree a tree, says what the last
  call has made and removed as long as nobody acts (`MadeRight`, `GoneRight`), and of a listing
  in progress (`Listing`): what was there all the time is still to be read or has been put in
  once; what has been put in has been there. The caller's paths are resolved from the
  directory of the call, the code's from the present one: they agree unless that was
  removed, and then nothing below it is left (`Where`).
- *Lookups* (second half). `FinderInv`: while there is a finder, `flag` counts the records that end
  before each prefix (`Stored`), so that those the scan skips, and those it has passed, end
  before the address (`Search`); the first that does not is the record. What `strtok_r_2`
  cuts out between the k-th and the next tab is the k-th field of the record, empty ones
  included (`Given`), by counting the tabs of the text of the first k fields.

**`HttpProofs`.** `ServesAsSent` and `KeepsBody`, for any number of requests, uses, lengths
and sizes of the cuts. A stream is a recursive function of the messages
(`StreamTo`), so what is at its places is shown by induction (`SetInduction`: a set of
numbers with 0, and with n + 1 whenever n, has them all; it is first-order and needs no
theorem of the library that takes an operator). The notion everything turns on is "`c` is the
part of the stream from `a` to `b`" (`IsPart`). The server's invariant is

    ServerInv == TypesInv /\ PartsInv /\ StepInv /\ FewInv /\ Server!ServedAsSent

`PartsInv` says that what is unread and what is cached lie one behind the other at the
end of the stream, whatever happened; `StepInv` that, until a negative length comes, the
cache begins exactly where the next message does, or its body when the header was read: only
then is `ServedAsSent` inductive. That the handler does not wait for what it has
(`NoStall`) then follows. The client's invariant says what cache, body and the unread rest
make together at each step of a call (`StreamInv`).

**`ClientsProofs`.** First each class alone, for every value of its constants; then
`MCClients`, whose behaviours are those of one class.

- *Redis* (`RedisSafe`). `CleanInv`: a call that times out or breaks leaves `err` set, so
  the context its late reply will be in is never used again, and one that can be used
  has the command of the call in progress, or its reply, and nothing else. `DoneInv`:
  what a method makes of no reply is always its failure (`NoReplyFails`, method by
  method), a command is on one wire only and is carried out before it is answered.
  `MoreInv`: a command whose answer means failure changed nothing (`Harmless`, for each
  of the 23 methods, from what `Perform` says of the server), which is `FailureIsRepeatable`.
- *Kafka consumer* (`ConsumerSafe`). `TurnInv` follows the loops of Start: those before
  turn `i` are consumed while it starts them, and when the list is 0 .. n - 1 only those
  from `i` on while it stops them. `ReadsBack`: the list Init cuts out of the text at its
  commas is the list the text was made of, for every list of numbers below 100.
  It is the one result here about what a recursive function computes for every
  input: what is left of the text after k turns is the text of what is left of the list.
- *Kafka producer* (`ProducerSafe`). `BuffersInv`: a buffer is unsent, queued once, with the
  caller whose Send was refused, or was freed once.
- *HTTP client* (`HttpSafe`). `CallInv`: behind what the string held are so many pieces of this
  call's body, and no others.
- *SystemInfo, Singleton* (`SystemSafe`, `SingletonSafe`). `SameForAll` rests on `LastOrNone`:
  what the test without the lock can see is the last object made, or none. It does
  *not* say that the instance is built when a thread gets it: the base class's constructor
  stores `s_instance` before `T`'s own has run (section 6). Of `SystemInfo` it is
  shown that whoever is past the test finds an object, and that a load was read
  no longer than a second ago, or the last reading failed.
- *Sockets* (`SocketsSafe`). `HandleInv`: the objects' handles, what the caller has
  detached and the open descriptors of the system are the same set, and no two are equal.
- *Locks and threads* (`LocksExclude`, `RunsAreJoined`). `OfUser`: what the locks count for a
  user is what its nested scopes are, of each kind; that scopes exclude each other follows from
  counts, not from who asked. `RunInv`: the handle, when there is one, is that of the only
  run that has not been joined.

`ResultsAreEffects`, `ContextsAreClean`, `KafkaIsSafe`, `NetworkIsSafe` and `ThreadsAreSafe`
are the run's five invariants. Each class's `Init` and steps are found in those of
`MCClients` (`RedisOnly`, `ConsumerOnly`, ...), and no step changes whose behaviour it is
(`SameClient`); the temporal prover puts the two together. The assumptions are the named
ASSUMEs of `MCClients`: bounds are natural numbers, markers such as `NULL` are none of
the values, partitions are lists of numbers up to 99, and the methods are those of the
class.

Only model-checked:

- Liveness, and that the connections of `ConnectionService` are closed in the end: TLAPS has
  neither liveness under fairness nor ENABLED.
- `TextsArrive`, `TextRight`, `JsonRight` and `XmlRight`: what parsers, printers and searches
  compute, compared with references over bounded inputs. They are recursive operators,
  in modules about which TLAPS proves nothing with its SMT prover, or folds over data,
  whose induction needs theorems the installed provers cannot instantiate. `StreamTo`,
  `Partitions` and the loops of the calendar were within reach because they are functions
  on numbers, for which an induction can be written out first-order.

## 6. Where the code and its comments disagree

Each of these was met while modelling, the first one in a run that is kept
(`udp_stale_set`). The others are premises or exceptions of the properties named, or
uses the models leave to the caller to avoid; this list says which.

**UDP server**

- *Stale set.* `UdpSrv.h:74,77` "stop listening". The scan tests the sockets
  the thread has *now* (`UdpSrv.cpp:89`) against the set `select` filled before the
  lock was taken. If a socket was left and a new one got its number in between,
  `RecvFrom` (94) blocks on the new socket under `m_cs`, and Join, Leave and StopAll
  wait for a datagram that may never come. `CallsReturn` holds with one socket to
  a thread.
- *Dead thread.* `UdpSrv.h:67` "start listening". If Leave closes a socket
  between the build of the set (77) and `select` (80), `select` fails with EBADF and
  the Linux branch (110-115) ends the thread for its other sockets, where the
  Windows branch (106-108) goes on. `JoinedIsServed` holds with one socket to a thread.
- *Calls from a callback.* The callback runs under `PerThread::m_cs` (95). If it leaves
  the last socket of its own thread, the thread joins itself. If it calls Join while
  a user inside Join, Leave or StopAll (with the server's `m_cs`) waits for its
  thread's lock, each waits for the other. The model's callbacks do not make the
  first call; the second is why `udp_liveness` has callbacks that call nothing.
- *Wrong socket.* `Send` sets ReuseAddr on `m_sock` (245) where the local `s` is bound.

**Log, configuration, web server**

- *A day of silence.* `Log.cpp:150` "one FILE per hour". 148 compares the hour
  of the day, and only when something is queued: after 24 hours without a message
  the next goes to the file of the day before. Premise of `HourlyFile`; `MaxHour` is
  1 in `log_safety`.
- *Log level.* `Log.h:44` says SetLevel outputs the logs `<= level`; `Log.cpp:76`
  outputs those at or above it.
- *Configured level.* `set/config` answers success (`WebModule.cpp:54`) and
  `get/config` calls the number the log level (`ConfigModule.cpp:170`), but
  `SetBaseConfig` (116) only stores it; nothing calls `SetLogLevel`.
- *Negative length, client.* `HttpClientSocket` reads the length with `atof` (`WebServer.cpp:663`):
  a negative one makes the end of the range it appends (668) lie before its beginning. The
  lengths of the model's responses are not negative.
- *Negative length, server.* `Content-Length` goes through `atoi` unchecked
  (`WebServer.cpp:377`): a negative one makes the test of the size true, and `substr`
  and `erase` take all that has arrived. `ServedAsSent` is about the stream up to it.

**Clients**

- *Redis, hdel.* `int nRet;` (`RedisClient.cpp:527`) is returned uninitialised without
  an integer reply, so 1 ("deleting one field returns 1", `RedisClient.h:91`) can
  come back for a field that was not deleted; every other method returns -1.
  `ResultMeansEffect` excepts it.
- *Redis, default constructor.* `CRedisClient()` (`RedisClient.h:15`) leaves `m_pContext`
  unset, and the destructor frees what is there. The model's object is made with host and port.
- *Kafka consumer, partitions.* Start stops partition `i`, the number of the turn
  (`KafkaConsumer.cpp:220`), where it started `elems[i].partition` (198): of 1 and 2 it
  stops 0 and 1. `KafkaSafe` asks it for lists 0..n-1.
- *Kafka consumer, early Stop.* Start sets `m_bRun = true` itself (180): a Stop from
  another thread before that line is forgotten (`KafkaConsumer.h:26` "stop").
- *Kafka producer, documented use.* `KafkaProducer.h:6-7` sends the buffer of a
  `std::string`; Send gives it to librdkafka to free (`KafkaProducer.cpp:150`), so it is
  freed twice. `KafkaSafe` is about buffers given away.

**Threads, singletons, sockets**

- *Singleton.* The base class's constructor stores `s_instance`, before the body of
  `T`'s constructor has run; the test without the lock (`singleton.h:25`) then hands
  out an object that is still being built. `OneInstance` and `SameForAll` do not
  depend on it; that what a thread gets is whole does not hold.
- *SystemInfo.* `GetInstance` (`SystemInfo.cpp:7`) tests without a lock: two threads
  may each get an object of their own, and one is never freed. `ThreadsSafe` says of it
  what holds of each object.
- *Thread.* `pthread_create` may store a handle although it fails (`Thread.cpp:150`): then
  Run answers -1 for ever, and Join joins a thread that does not exist.
- *Socket.* RecvFrom and Accept write the peer's address even when they fail (157). An
  address that is no number is `inet_addr`'s error, which is the broadcast address.
  A negative time-out is passed on as it is.

**Text, buffers, times, files**

- *TBuff.* `append` of one element passes `sizeof(t)` for the number of elements
  (`TBuff.h:104`): right for elements of one byte only, the size in the run. `erase` to
  the end with the largest length wraps around (142). `m_nReserved` is stored (83)
  before `new` (84) can throw, after which it is not the block's length (152).
- *CString.* `s += s`, and InputData with a part of the string itself, read the block
  they have just freed when it had to grow (`String.cpp:486`, 133). The model's
  arguments point elsewhere, or the block is large enough.
- *Wildcard, Replace.* `Wildcard("", "*")` is false (`Utility.cpp:127`). `Replace` of an
  empty `find` does not return (69-71); finds in the run have at least one letter.
- *Times.* Nothing validates an hour, a minute or a second, and `CTimeSpan(nSec)` of a
  negative `nSec` keeps negative seconds (`TimeSpan.cpp:59-60`): `+` then gives a time
  with negative seconds (`Time.cpp:389-391`), and the equal span that a difference
  gives, (-1, 86399), is not `==` to it. `TimeConstants` excludes both. After 2100 the
  loop stops (658) and the days pile up in December 2100. `CTime()` is day 0, which
  prints as 1899-00-00.
- *Formats.* `CTime::Format("")` (519) waits for `strftime` to return other than 0 and
  doubles its buffer until there is no memory. `%I` of `_GetValue` gives 0 to 11,
  not padded, where its comment says 01-12. `tm_yday` is not set.
- *IP finder.* `find` takes four numbers as `%d` reads them (`ipip.cpp:89`) and indexes `flag` with the
  first two (97): 300.1.1.1 and -1.0.0.0 read outside its 65536 entries. Octets that are in range
  for the index are masked only for the comparison (95), so 1.2.300.4 finds the record of
  1.2.44.4. `FindsItsRange` says which record is found for octets only.
- *Files.* `erase(length(), 1)` (`FileEx.cpp:193`, 263), meant to drop a trailing
  separator, erases nothing. `CreateFolderForFile` of a path without a separator makes
  a folder of the file's name. With an unknown current directory a relative folder is
  made at the root (136). `DelFile` also removes an empty folder.
  `GetFreeDiskSpace` divides before it multiplies (384): 4 GB are a step.

**XML and JSON**

- *Edits that break the table* (`Unguarded` in `Markup`, empty in the runs): an element
  inserted without line ends into `<a></a>`; AddSubDoc and SetElemContent of a text
  without an element; ill-formed text given to them; FindChildElem without a main
  position. Afterwards positions are stale, and the table is not that of the text.
- *UTF-16.* `IConvName` makes "UTF-16BE" of "UTF-16" (`Markup.cpp:386`) while the text in
  memory is little-endian. Opening (1524) does not clear `MDF_UTF16BEFILE`, so the
  flag of an earlier file can decide how a later one is read. `encoding="UTF-16"` in a
  declaration without the flag writes a wrong size (1918-1925).
- *Characters that cannot be converted.* `m_nFailedChars` (475) is not raised by the iconv
  branch, so no "conversion_loss" is reported. The pass that only counts uses a
  buffer of 2048 bytes and runs over it by what a question mark takes (424-439).
- *Declarations.* A text without a declaration that is not UTF-8 is read as GB2312.
- *Failures.* Load that fails leaves the table of the old document over an empty text
  (2724), and a Save after it empties the file. Save truncates before it writes, and
  its result does not tell of an `fclose` that failed (1936).
- *JSON, names.* `cJSON_ReplaceItemInObject` (`cJSON.c:969`) gives the new item a copy of the name
  without freeing the name it has, the same or another: it leaks. A constant name given to
  an item that owns its name, or the other way round, leaks or frees it. In `JsonTree` both set
  `lost` to "mixed", where `FreedOnce` stops asking and the behaviour ends; replacing by
  index (951) leaves the name alone and is not exempt.
- *JSON, a string cut short.* `parse_string` counts the bytes up to the closing quote, two for one
  behind a backslash (`cJSON.c:225`), and then reads the four behind `\u` as they are (252). If a quote
  or a backslash is among them, the two passes disagree about where the string ends, and the
  second can read and write past the block. So can both, when an unclosed string ends in a
  backslash.
- *JSON, Minify.* In a string or a block comment that is not closed it steps over the final 0
  and goes on (1134-1145). Of the texts of the run 1372 are of this or the kind before, and
  exempt; all but one of them do read past the end, and no other text does.
- *JSON, NULL.* `print_string_ptr` reads the string (301) before it tests it (315), so an item without a
  text is not printed as an empty one. Items of the model have texts.

## 7. Not modelled

- *Whom the second close hits.* `~ServletHandler` calls `Socket::Close` while the
  handler's own thread may be between the test and the close of its own
  (`Socket.cpp:113`). `WebServer` has the double close and its server's descriptors;
  the descriptors of other components are `Foreign` entries, which no property
  protects, since the code does not.
- *The signal handler* (`main.cpp:22`) logs, with `printf` and the log's mutex. A signal
  that interrupts a thread inside that critical section stops it for good. A handler
  runs on an interrupted thread, which none of the models has; `WebInterface` has its
  effect, `g_exit`.
- *What threads do after `main` returned*, while destructors of globals run.
- *CMarkup's file mode* is dead here: `m_pFilePos` is NULL (`Markup.cpp:3836`). Document
  type declarations and tags so long that
  the 22 and 10 bits of `nStartTagLen` and `nEndTagLen` do not hold them are left out.
- *IP finder:* a database that cannot be opened, several finders at once over the database
  they share, and what the process does after it has read outside `flag` and gone on to
  memory that holds no record.
- *Text:* ToUpper and ToLower of `CUtility`, one library call each (the conversions between GBK
  and UTF-8 are modelled by what they do, in `MarkupFile`); the copy of a `TBuff` and
  its append to itself; cJSON without memory and its floating-point formats; the text of log
  lines and the console; the URL parser of the HTTP client; layout of numbers.
- *Configurations and dead code:* the Windows branches; `KafkaConsumer.cpp:307-554`, which is
  `#if 0`; `src/tmp`, superseded classes that no build file names.
- *Vendored code:* the headers of curl, hiredis and librdkafka declare what the models
  take as external; of libcurl, hiredis and librdkafka there is no source here, and the
  models have of them what the code sees (`external` in `map`). These headers are
  about half of the lines under `src`, and the mapped lines are of the other half.

## 8. Plan

Done, in this order: the pool with its proofs, request framing, the log with its
proofs, the UDP server, interfaces and configuration, the clients, the sequential
parts with the proofs about TBuff and times; then messages, strings, sockets,
threads, files, documents, and callbacks that call the UDP server, with the proofs
about the UDP server's books, what the pool leaves open, and the two refinements; then
the proofs about both ends of HTTP and about every class of `clients`, and those about
the calendar, Format, CFileEx and the IP finder.

Next, to extend: the composition of `WebServer` with `WebInterface` (a handler's
request is served by OnService) and of the log with its callers in the pool; several
IP finders over the shared database; failures of the file in the middle of a Save.

Next, to prove: that Wildcard's two indices keep what has been matched (part of `TextRight`), and
that Replace's text is always the exchanged part in front of the rest (another).
