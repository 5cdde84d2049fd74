---------------------------- MODULE KafkaProducer ----------------------------
(***************************************************************************)
(* CKafkaProducer (src/public/KafkaProducer.cpp): Send gives a message to  *)
(* librdkafka with RD_KAFKA_MSG_F_FREE, so that librdkafka frees the       *)
(* caller's buffer when it is done with it, and leaves it to the caller    *)
(* when it refuses the message.  The destructor waits for the queue for a  *)
(* while and drops what is left.                                           *)
(*                                                                         *)
(* A message is its buffer.  The caller frees what Send refused, as the    *)
(* return value tells it; a buffer in OwnedByObject belongs to an object,  *)
(* such as the std::string of the example in KafkaProducer.h, which frees  *)
(* it in its destructor whatever Send returned.  librdkafka is external.   *)
(***************************************************************************)
EXTENDS Integers, Sequences, FiniteSets, Functions

CONSTANTS
    Msg, NoMsg,
    OwnedByObject,
    MaxQueue,       \* queue.buffering.max.messages
    MaxInits,       \* bound: calls of Init
    MayFail         \* which requests librdkafka may refuse

Owned == OwnedByObject \subseteq Msg /\ NoMsg \notin Msg
Queue == MaxQueue \in Nat \ {0}
Failures == MayFail \subseteq {"conf", "topicConf", "handle", "brokers", "topic", "produce"}

VARIABLES
    created,    \* the members that are not NULL
    pc,         \* "idle", "returned" (from Send), "flush", "gone" or "crashed"
    m, ret,     \* the message of the last Send, and what it returned
    unsent,     \* messages not yet given to Send
    queue,      \* librdkafka: messages it holds
    frees,      \* [Msg -> how often the buffer was freed]
    usable,     \* history: Init returned 0 and had its topic
    inits

vars == <<created, pc, m, ret, unsent, queue, frees, usable, inits>>

Members == {"conf", "topicConf", "list", "handle", "topic"}

Init ==
    /\ created = {} /\ pc = "idle" /\ m = NoMsg /\ ret = 0
    /\ unsent = Msg /\ queue = <<>> /\ frees = [x \in Msg |-> 0]
    /\ usable = FALSE /\ inits = 0

-----------------------------------------------------------------------------
(* Init up to the request that fails, or to the end: a topic that could not
   be created is not noticed.                                              *)
InitOutcome(failure) ==
    \/ failure = "none"    /\ created' = created \cup Members /\ ret' = 0 /\ usable' = TRUE
    \/ failure = "topic"   /\ created' = (created \cup Members) \ {"topic"} /\ ret' = 0 /\ usable' = FALSE
    \/ failure = "brokers" /\ created' = created \cup (Members \ {"topic"}) /\ ret' = -2 /\ usable' = FALSE
    \/ failure = "handle"  /\ created' = (created \cup {"conf", "topicConf", "list"}) \ {"handle"}
                           /\ ret' = -1 /\ usable' = FALSE
    \/ failure = "topicConf" /\ created' = created \cup {"conf", "topicConf"} /\ ret' = -1 /\ usable' = FALSE
    \/ failure = "conf"    /\ created' = created \cup {"conf"} /\ ret' = -1 /\ usable' = FALSE

InitCall(failure) ==
    /\ pc = "idle" /\ inits < MaxInits /\ ~usable
    /\ failure \in MayFail \cup {"none"} /\ failure /= "produce"
    /\ InitOutcome(failure)
    /\ inits' = inits + 1
    /\ UNCHANGED <<pc, m, unsent, queue, frees>>

(* rd_kafka_produce takes the message, or refuses it.                      *)
SendFreesToo(x) ==
    /\ {"list", "topic"} \subseteq created
    /\ pc' = "returned"
    /\ \/ Len(queue) < MaxQueue /\ queue' = Append(queue, x) /\ ret' = 0
       \/ (Len(queue) = MaxQueue \/ "produce" \in MayFail) /\ ret' = -2 /\ UNCHANGED queue
    /\ frees' = [frees EXCEPT ![x] = @ + 1]

SendOutcome(x) ==
    \/ /\ {"list", "topic"} \subseteq created
       /\ pc' = "returned"
       /\ \/ Len(queue) < MaxQueue /\ queue' = Append(queue, x) /\ ret' = 0
          \/ (Len(queue) = MaxQueue \/ "produce" \in MayFail) /\ ret' = -2 /\ UNCHANGED queue
       /\ UNCHANGED frees
    \/ /\ ~({"list", "topic"} \subseteq created)
       /\ pc' = "crashed"
       /\ UNCHANGED <<queue, ret, frees>>

Send(x) ==
    /\ pc = "idle" /\ x \in unsent
    /\ m' = x /\ unsent' = unsent \ {x}
    /\ SendOutcome(x)
    /\ UNCHANGED <<created, usable, inits>>

(* The caller goes on: it frees what was refused, and an object's buffer
   goes with the object.                                                   *)
GoOn ==
    /\ pc = "returned"
    /\ pc' = "idle"
    /\ frees' = IF ret /= 0 \/ m \in OwnedByObject THEN [frees EXCEPT ![m] = @ + 1] ELSE frees
    /\ UNCHANGED <<created, m, ret, unsent, queue, usable, inits>>

(* librdkafka has sent the oldest message, or given up after its retries:
   nobody is told, for Init sets no delivery callback.                     *)
Delivered ==
    /\ pc /= "crashed" /\ queue /= <<>>
    /\ queue' = Tail(queue)
    /\ frees' = [frees EXCEPT ![Head(queue)] = @ + 1]
    /\ UNCHANGED <<created, pc, m, ret, unsent, usable, inits>>

(* The destructor: flush, which may time out, and destroy.                 *)
Flush ==
    /\ pc = "idle"
    /\ pc' = IF "handle" \in created THEN "flush" ELSE "crashed"
    /\ UNCHANGED <<created, m, ret, unsent, queue, frees, usable, inits>>

Destroy ==
    /\ pc = "flush"
    /\ pc' = IF "topic" \in created THEN "gone" ELSE "crashed"
    /\ queue' = <<>>
    /\ frees' = [x \in Msg |-> IF x \in Range(queue) THEN frees[x] + 1 ELSE frees[x]]
    /\ UNCHANGED <<created, m, ret, unsent, usable, inits>>

Next ==
    \/ \E failure \in MayFail \cup {"none"} : InitCall(failure)
    \/ \E x \in Msg : Send(x)
    \/ GoOn \/ Delivered \/ Flush \/ Destroy

Spec == Init /\ [][Next]_vars

-----------------------------------------------------------------------------
TypeOK ==
    /\ created \subseteq Members /\ usable \in BOOLEAN /\ inits \in 0..MaxInits
    /\ pc \in {"idle", "returned", "flush", "gone", "crashed"}
    /\ m \in Msg \cup {NoMsg} /\ ret \in {0, -1, -2}
    /\ unsent \subseteq Msg
    /\ queue \in Seq(Msg \ unsent) /\ Len(queue) <= MaxQueue
    /\ frees \in [Msg -> 0..2]

(* No buffer is freed twice: what RD_KAFKA_MSG_F_FREE (KafkaProducer.cpp:150)
   makes librdkafka free, nobody else frees.                               *)
FreedOnce == \A x \in Msg : frees[x] <= 1

(* Every buffer given to Send has been freed once the producer is gone:
   the return value tells the caller which buffers are left to it.         *)
AllReleased ==
    pc = "gone" => \A x \in Msg \ unsent : frees[x] >= 1

(* After an Init that returned 0 and had its topic, no call ends the
   process in librdkafka.                                                  *)
UsableNeverCrashes == pc = "crashed" => ~usable
=============================================================================
