---------------------------- MODULE KafkaConsumer ----------------------------
(***************************************************************************)
(* CKafkaConsumer (src/public/KafkaConsumer.cpp): Init parses the list of  *)
(* partitions and creates the librdkafka objects; Start begins to consume  *)
(* every partition, hands messages to the callback until Stop clears       *)
(* m_bRun, and ends the consumption; Stop comes from another thread or     *)
(* from the callback.                                                      *)
(*                                                                         *)
(* librdkafka is external: it may refuse any request, and a call with a    *)
(* NULL object ends the process.  The messages themselves are left out:    *)
(* msg_consume passes each to the callback.                                *)
(***************************************************************************)
EXTENDS Integers, Sequences, FiniteSetsExt

CONSTANTS
    PartitionLists, \* the lists of partitions the user may want
    MaxCalls,       \* bound: calls of Init and Start
    MayFail         \* which requests librdkafka may refuse

Lists == \A l \in PartitionLists : l \in Seq(0..99) /\ l /= <<>>
Failures == MayFail \subseteq {"conf", "topicConf", "handle", "brokers", "topic", "start"}

VARIABLES
    wanted,     \* the partitions the user asks for, in the text given to Init
    created,    \* the members that are not NULL
    elems,      \* m_kafka_topic_partition_list
    m_bRun,
    pc,         \* where the thread of the owner is
    i,          \* the loop variable of Start
    ret,        \* what Init or Start returned last
    usable,     \* history: Init returned 0 and had its topic
    calls,
    consuming   \* librdkafka: the partitions being consumed

vars == <<wanted, created, elems, m_bRun, pc, i, ret, usable, calls, consuming>>

-----------------------------------------------------------------------------
(* The text of a list: decimal digits, and COMMA between the numbers.      *)
COMMA == -1
Digits(n) == IF n < 10 THEN <<n>> ELSE <<n \div 10, n % 10>>
TextOf(list) ==
    LET UpTo[n \in 0..Len(list)] == IF n = 0 THEN <<>> ELSE UpTo[n - 1] \o <<COMMA>> \o Digits(list[n])
    IN  Tail(UpTo[Len(list)])

atoi(text) ==
    LET UpTo[n \in 0..Len(text)] == IF n = 0 THEN 0 ELSE 10 * UpTo[n - 1] + text[n]
    IN  UpTo[Len(text)]

(* A turn of Init's loop reads up to the next comma, or the rest when there
   is none, and the loop ends when nothing is left.                        *)
Commas(text) == {k \in DOMAIN text : text[k] = COMMA}
Turn(s) ==
    IF s.pTemp = <<>> THEN s
    ELSE IF Commas(s.pTemp) = {}
    THEN [pTemp |-> <<>>, list |-> Append(s.list, atoi(s.pTemp))]
    ELSE LET k == Min(Commas(s.pTemp))
         IN  [pTemp |-> SubSeq(s.pTemp, k + 1, Len(s.pTemp)),
              list  |-> Append(s.list, atoi(SubSeq(s.pTemp, 1, k - 1)))]
Partitions(text) ==
    LET After[n \in 0..Len(text)] == IF n = 0 THEN [pTemp |-> text, list |-> <<>>] ELSE Turn(After[n - 1])
    IN  After[Len(text)].list

Members == {"conf", "topicConf", "list", "handle", "topic", "queue"}
AtRest == {"new", "idle"}
InStart == {"called", "starting", "loop", "poll", "stopping"}

Init ==
    /\ wanted \in PartitionLists
    /\ created = {} /\ elems = <<>>
    /\ m_bRun \in BOOLEAN           \* the constructor leaves it as it is
    /\ pc = "new" /\ i = 0 /\ ret = 0 /\ usable = FALSE /\ calls = 0
    /\ consuming = {}

-----------------------------------------------------------------------------
(* Init up to the request that fails, or to the end: a topic that could not
   be created is not noticed.                                              *)
InitOutcome(failure) ==
    \/ failure = "none"      /\ created' = created \cup Members /\ ret' = 0
    \/ failure = "topic"     /\ created' = (created \cup Members) \ {"topic"} /\ ret' = 0
    \/ failure = "brokers"   /\ created' = created \cup {"conf", "topicConf", "list", "handle"} /\ ret' = -2
    \/ failure = "handle"    /\ created' = (created \cup {"conf", "topicConf", "list"}) \ {"handle"} /\ ret' = -1
    \/ failure = "topicConf" /\ created' = created \cup {"conf", "topicConf"} /\ ret' = -1
    \/ failure = "conf"      /\ created' = created \cup {"conf"} /\ ret' = -1

InitCall(failure) ==
    /\ pc = "new" /\ calls < MaxCalls /\ ~usable
    /\ failure \in MayFail \cup {"none"} /\ failure /= "start"
    /\ InitOutcome(failure)
    /\ elems' = IF failure \in {"conf", "topicConf"} THEN elems ELSE Partitions(TextOf(wanted))
    /\ usable' = (ret' = 0 /\ "topic" \in created')
    /\ calls' = calls + 1
    /\ UNCHANGED <<wanted, m_bRun, pc, i, consuming>>

StartCall ==
    /\ pc \in AtRest /\ calls < MaxCalls
    /\ pc' = "called" /\ calls' = calls + 1
    /\ UNCHANGED <<wanted, created, elems, m_bRun, i, ret, usable, consuming>>

(* m_bRun = true, and the list is read.                                    *)
StartRun ==
    /\ pc = "called"
    /\ m_bRun' = TRUE
    /\ pc' = IF "list" \in created THEN "starting" ELSE "crashed"
    /\ i' = 1
    /\ UNCHANGED <<wanted, created, elems, ret, usable, calls, consuming>>

StartPartition ==
    /\ pc = "starting" /\ i <= Len(elems)
    /\ \/ /\ {"topic", "queue"} \subseteq created
          /\ consuming' = consuming \cup {elems[i]} /\ i' = i + 1
          /\ UNCHANGED <<pc, ret>>
       \/ /\ {"topic", "queue"} \subseteq created /\ "start" \in MayFail
          /\ pc' = "idle" /\ ret' = -1
          /\ UNCHANGED <<i, consuming>>
       \/ /\ ~({"topic", "queue"} \subseteq created)
          /\ pc' = "crashed"
          /\ UNCHANGED <<i, ret, consuming>>
    /\ UNCHANGED <<wanted, created, elems, m_bRun, usable, calls>>

EnterLoop ==
    /\ pc = "starting" /\ i > Len(elems)
    /\ pc' = "loop"
    /\ UNCHANGED <<wanted, created, elems, m_bRun, i, ret, usable, calls, consuming>>

(* while (m_bRun)                                                          *)
Loop ==
    /\ pc = "loop"
    /\ IF m_bRun THEN pc' = "poll" /\ UNCHANGED i ELSE pc' = "stopping" /\ i' = 0
    /\ UNCHANGED <<wanted, created, elems, m_bRun, ret, usable, calls, consuming>>

(* At most a second in librdkafka, with or without a message.              *)
Poll ==
    /\ pc = "poll"
    /\ pc' = "loop"
    /\ UNCHANGED <<wanted, created, elems, m_bRun, i, ret, usable, calls, consuming>>

(* rd_kafka_consume_stop is given the number of the turn.                  *)
StopPartitionFromOne ==
    /\ pc = "stopping"
    /\ IF i < Len(elems)
       THEN consuming' = consuming \ {i + 1} /\ i' = i + 1 /\ UNCHANGED <<pc, ret>>
       ELSE pc' = "idle" /\ ret' = 0 /\ UNCHANGED <<i, consuming>>
    /\ UNCHANGED <<wanted, created, elems, m_bRun, usable, calls>>

StopPartition ==
    /\ pc = "stopping"
    /\ IF i < Len(elems)
       THEN consuming' = consuming \ {i} /\ i' = i + 1 /\ UNCHANGED <<pc, ret>>
       ELSE pc' = "idle" /\ ret' = 0 /\ UNCHANGED <<i, consuming>>
    /\ UNCHANGED <<wanted, created, elems, m_bRun, usable, calls>>

(* Stop, by the callback or by another thread.                             *)
Stop ==
    /\ pc \in AtRest \cup InStart
    /\ m_bRun' = FALSE
    /\ UNCHANGED <<wanted, created, elems, pc, i, ret, usable, calls, consuming>>

(* The destructor, once no call is in progress.                            *)
Destroy ==
    /\ pc \in AtRest
    /\ m_bRun' = FALSE
    /\ IF {"handle", "queue", "topic", "list"} \subseteq created
       THEN pc' = "gone" /\ consuming' = {}
       ELSE pc' = "crashed" /\ UNCHANGED consuming
    /\ UNCHANGED <<wanted, created, elems, i, ret, usable, calls>>

(* SIGINT, once Start has installed sig_stop, which exits.                 *)
sig_stop ==
    /\ pc \in {"starting", "loop", "poll", "stopping", "idle"}
    /\ pc' = "exited"
    /\ UNCHANGED <<wanted, created, elems, m_bRun, i, ret, usable, calls, consuming>>

StartSteps == StartRun \/ StartPartition \/ EnterLoop \/ Loop \/ Poll \/ StopPartition

Next ==
    \/ \E failure \in MayFail \cup {"none"} : InitCall(failure)
    \/ StartCall \/ StartSteps \/ Stop \/ Destroy \/ sig_stop

Spec == Init /\ [][Next]_vars

-----------------------------------------------------------------------------
TypeOK ==
    /\ wanted \in PartitionLists /\ created \subseteq Members
    /\ elems \in {<<>>} \cup PartitionLists
    /\ m_bRun \in BOOLEAN /\ usable \in BOOLEAN
    /\ pc \in AtRest \cup InStart \cup {"gone", "exited", "crashed"}
    /\ ret \in {0, -1, -2} /\ calls \in 0..MaxCalls
    /\ i \in 0..(Len(elems) + 1)
    /\ consuming \subseteq {wanted[k] : k \in DOMAIN wanted}

(* The process does not end in librdkafka once Init has returned 0 with a
   topic: Init checks what the later calls use (KafkaConsumer.cpp:127-142),
   except for the topic (:148).                                            *)
UsableNeverCrashes == pc = "crashed" => ~usable

(* While Start polls it consumes every partition asked for.                *)
LoopServesAll ==
    pc \in {"loop", "poll"} => \A k \in DOMAIN wanted : wanted[k] \in consuming

(* "Stop consuming" (KafkaConsumer.cpp:218): when Start returns 0, nothing
   is consumed any more.  Only for lists that hold the numbers from 0 on:
   Start stops the number of the turn (:220), not the partition it began.  *)
StartStopsAll ==
    /\ pc = "idle" /\ ret = 0
    /\ {wanted[k] : k \in DOMAIN wanted} = 0..(Len(wanted) - 1)
    => consuming = {}
=============================================================================
