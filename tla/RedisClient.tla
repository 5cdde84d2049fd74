----------------------------- MODULE RedisClient -----------------------------
(***************************************************************************)
(* CRedisClient (src/public/RedisClient.cpp): one owner calls its methods, *)
(* each of which sends one command over m_pContext and turns the reply, or *)
(* the missing reply, into a number or a string.  After a timeout or a     *)
(* broken connection hiredis answers NULL to everything on that context;   *)
(* the owner may call GetRedisConnect again, which takes a new context and *)
(* forgets the old one, whose commands the server may still carry out.     *)
(*                                                                         *)
(* The keys hold strings, sets, lists and hashes as far as the methods     *)
(* tell them apart.  A string is one of Value, or for append a sequence of *)
(* them; EMPTY is the string "".  RedisConnect is private and never called.*)
(***************************************************************************)
EXTENDS Integers, Sequences, FiniteSets, SequencesExt, Functions

CONSTANTS
    Method,         \* the methods the owner calls
    Value, EMPTY,   \* strings stored; EMPTY is the one of length 0
    NULL,
    MaxCalls,       \* bound: method calls
    MaxContexts,    \* bound: contexts ever created
    MayFail         \* which of "connect" and "reply" may fail

Known ==
    {"ping", "set", "setex", "get", "append", "sadd", "srem", "sismember", "scard", "spop", "srandmember",
     "smembers", "hset", "hdel", "del", "hget", "hgetall", "rpush", "lpush", "lrem", "rpop", "llen", "hmget"}
(* The methods called with a value, beyond the key and the field.          *)
TakesValue == {"set", "setex", "append", "sadd", "srem", "sismember", "hset", "rpush", "lpush", "lrem"}
Methods == Method \subseteq Known
Bounds == MaxCalls \in Nat /\ MaxContexts \in Nat \ {0}
Strings == EMPTY \in Value /\ NULL \notin Value
Failures == MayFail \subseteq {"connect", "reply"}

Context == 1..MaxContexts
Command == [id : 1..MaxCalls, method : Method, arg : Value, on : Context \cup {NULL}]

VARIABLES
    m_pContext,     \* Context or NULL
    err,            \* SUBSET Context: those with context->err set
    contexts,       \* contexts created so far
    pc,             \* "idle", "wait" or "gone"
    calls, call,    \* method calls so far, and the current one
    ret,            \* what the last method returned
    wire, replies,  \* [Context -> Seq]: commands not yet carried out, replies not yet read
    db,             \* the value of the key: [type, val]
    effect          \* history, [ids carried out -> [reply, changed]]

clientVars == <<m_pContext, err, contexts, pc, calls, call, ret>>
serverVars == <<wire, replies, db, effect>>
vars == <<clientVars, serverVars>>

-----------------------------------------------------------------------------
(* The server, as far as the methods show it: one key, and within it one
   field "f" of a hash.                                                    *)

None == [type |-> "none", val |-> <<>>]
Put(type, val) == IF val = <<>> THEN None ELSE [type |-> type, val |-> val]
StringOf(seq) == [type |-> "string", val |-> seq]

Status      == [type |-> "status", n |-> 0, strs |-> <<>>]
Integer(n)  == [type |-> "integer", n |-> n, strs |-> <<>>]
Bulk(str)   == [type |-> "string", n |-> 0, strs |-> <<str>>]
Nil         == [type |-> "nil", n |-> 0, strs |-> <<>>]
Array(strs) == [type |-> "array", n |-> Len(strs), strs |-> strs]
WrongType   == [type |-> "error", n |-> 0, strs |-> <<>>]

Number(b) == IF b THEN 1 ELSE 0
Keep(reply) == {[db |-> db, reply |-> reply]}
Store(d, reply) == {[db |-> d, reply |-> reply]}
WithOut(f, x) == Restrict(f, DOMAIN f \ {x})
Without(seq, x) ==
    LET Kept[n \in 0..Len(seq)] ==
            IF n = 0 THEN <<>> ELSE IF seq[n] = x THEN Kept[n - 1] ELSE Append(Kept[n - 1], seq[n])
    IN  Kept[Len(seq)]
WithIn(f, x, y) == [z \in DOMAIN f \cup {x} |-> IF z = x THEN y ELSE f[z]]
Members(S) == SetToSeq(S)

Kind(method) ==
    CASE method \in {"get", "append"} -> "string"
      [] method \in {"sadd", "srem", "sismember", "scard", "spop", "srandmember", "smembers"} -> "set"
      [] method \in {"rpush", "lpush", "lrem", "rpop", "llen"} -> "list"
      [] method \in {"hset", "hdel", "hget", "hgetall", "hmget"} -> "hash"
      [] OTHER -> "any"

(* The outcomes of a command: the value after it and the reply.            *)
Perform(method, a) ==
    LET v == db.val
    IN  IF Kind(method) /= "any" /\ db.type \notin {"none", Kind(method)} THEN Keep(WrongType) ELSE
        CASE method = "ping"        -> Keep(Status)
          [] method \in {"set", "setex"} -> Store(StringOf(<<a>>), Status)
          [] method = "del"         -> Store(None, Integer(Number(db /= None)))
          [] method = "get"         -> Keep(IF db = None THEN Nil ELSE Bulk(v))
          [] method = "append"      -> LET s == IF a = EMPTY THEN v ELSE Without(v, EMPTY) \o <<a>>
                                       IN  Store(StringOf(s), Integer(Len(s)))
          [] method = "sadd"        -> Store(Put("set", WithIn(v, a, TRUE)), Integer(Number(a \notin DOMAIN v)))
          [] method = "srem"        -> Store(Put("set", WithOut(v, a)), Integer(Number(a \in DOMAIN v)))
          [] method = "sismember"   -> Keep(Integer(Number(a \in DOMAIN v)))
          [] method = "scard"       -> Keep(Integer(Cardinality(DOMAIN v)))
          [] method = "spop"        -> IF db = None THEN Keep(Nil) ELSE
                                       {[db |-> Put("set", WithOut(v, x)), reply |-> Bulk(<<x>>)] : x \in DOMAIN v}
          [] method = "srandmember" -> IF db = None THEN Keep(Nil) ELSE
                                       {[db |-> db, reply |-> Bulk(<<x>>)] : x \in DOMAIN v}
          [] method = "smembers"    -> Keep(Array(Members(DOMAIN v)))
          [] method = "rpush"       -> Store(Put("list", v \o <<a>>), Integer(Len(v) + 1))
          [] method = "lpush"       -> Store(Put("list", <<a>> \o v), Integer(Len(v) + 1))
          [] method = "lrem"        -> LET s == Without(v, a)
                                       IN  Store(Put("list", s), Integer(Len(v) - Len(s)))
          [] method = "rpop"        -> IF db = None THEN Keep(Nil)
                                       ELSE Store(Put("list", Front(v)), Bulk(<<Last(v)>>))
          [] method = "llen"        -> Keep(Integer(Len(v)))
          [] method = "hset"        -> Store(Put("hash", WithIn(v, "f", a)), Integer(Number("f" \notin DOMAIN v)))
          [] method = "hdel"        -> Store(Put("hash", WithOut(v, "f")), Integer(Number("f" \in DOMAIN v)))
          [] method = "hget"        -> Keep(IF db = None THEN Nil ELSE Bulk(<<v["f"]>>))
          [] method = "hgetall"     -> Keep(Array(IF db = None THEN <<>> ELSE <<"f", v["f"]>>))
          [] method = "hmget"       -> Keep(Array(IF db = None THEN <<NULL>> ELSE <<v["f"]>>))

(* The server carries out the oldest command of some connection.           *)
Serve(c) ==
    /\ wire[c] /= <<>>
    /\ wire' = [wire EXCEPT ![c] = Tail(@)]
    /\ \E o \in Perform(Head(wire[c]).method, Head(wire[c]).arg) :
          /\ db' = o.db
          /\ replies' = [replies EXCEPT ![c] = Append(@, [id |-> Head(wire[c]).id, reply |-> o.reply])]
          /\ effect' = WithIn(effect, Head(wire[c]).id, [reply |-> o.reply, changed |-> o.db /= db])
    /\ UNCHANGED clientVars

-----------------------------------------------------------------------------
(* What the methods make of a reply: the values they may return.  Strings
   are sequences without EMPTY, so that "" is <<>>; strings and numbers are
   told apart by kind.                                                     *)

Text(strs) == Without(strs, EMPTY)
Num(n) == [kind |-> "int", n |-> n, str |-> <<>>]
Str(s) == [kind |-> "str", n |-> 0, str |-> s]
List(n, s) == [kind |-> "list", n |-> n, str |-> s]

IntegerOr(r, default) == IF r.type = "integer" THEN {Num(r.n)} ELSE {Num(n) : n \in default}
StatusText(r) == {Str(IF r.type = "status" THEN <<"OK">> ELSE <<>>)}
(* str of a reply of type STRING, with len >= 0 or len > 0: "" either way. *)
StringText(r) == {Str(IF r.type = "string" THEN Text(r.strs[1]) ELSE <<>>)}
(* A nil element is pushed as "".                                          *)
Elements(r) == {IF r.type = "array" THEN List(r.n, [i \in 1..r.n |-> IF r.strs[i] = NULL THEN EMPTY ELSE r.strs[i]])
                                    ELSE List(-1, <<>>)}

ping(r) == {Num(Number(r.type = "status"))}
set(r) == StatusText(r)
setex(r) == StatusText(r)
get(r) == StringText(r)
append(r) == IntegerOr(r, {-1})
sadd(r) == IntegerOr(r, {-1})
sremFromZero(r) == IntegerOr(r, {0})
srem(r) == IntegerOr(r, {-1})
sismember(r) == IntegerOr(r, {-1})
scard(r) == IntegerOr(r, {-1})
spop(r) == StringText(r)
srandmember(r) == StringText(r)
smembers(r) == Elements(r)
hsetNewOnly(r) == IF r.type = "integer" /\ r.n = 0 THEN {Num(-1)} ELSE IntegerOr(r, {-1})
hset(r) == IntegerOr(r, {-1})
(* nRet is not initialised: any number when there is no integer reply.     *)
hdel(r) == IntegerOr(r, {-1, 0, 1})
del(r) == IntegerOr(r, {-1})
hget(r) == StringText(r)
hgetall(r) == {IF r.type = "array" THEN List(r.n \div 2, r.strs) ELSE List(-1, <<>>)}
rpush(r) == IntegerOr(r, {-1})
lpush(r) == IntegerOr(r, {-1})
lrem(r) == IntegerOr(r, {-1})
rpop(r) == StringText(r)
llen(r) == IntegerOr(r, {-1})
hmget(r) == Elements(r)

Result(method, r) ==
    CASE method = "ping" -> ping(r)        [] method = "set" -> set(r)
      [] method = "setex" -> setex(r)      [] method = "get" -> get(r)
      [] method = "append" -> append(r)    [] method = "sadd" -> sadd(r)
      [] method = "srem" -> srem(r)        [] method = "sismember" -> sismember(r)
      [] method = "scard" -> scard(r)      [] method = "spop" -> spop(r)
      [] method = "srandmember" -> srandmember(r) [] method = "smembers" -> smembers(r)
      [] method = "hset" -> hset(r)        [] method = "hdel" -> hdel(r)
      [] method = "del" -> del(r)          [] method = "hget" -> hget(r)
      [] method = "hgetall" -> hgetall(r)  [] method = "rpush" -> rpush(r)
      [] method = "lpush" -> lpush(r)      [] method = "lrem" -> lrem(r)
      [] method = "rpop" -> rpop(r)        [] method = "llen" -> llen(r)
      [] method = "hmget" -> hmget(r)

(* No context, or redisCommand returned NULL.                              *)
NoReply == [type |-> "none", n |-> 0, strs |-> <<>>]

-----------------------------------------------------------------------------
NoCall == [id |-> 0, method |-> "none", arg |-> EMPTY, on |-> NULL]

Init ==
    /\ m_pContext = NULL /\ err = {} /\ contexts = 0
    /\ pc = "idle" /\ calls = 0 /\ call = NoCall /\ ret = Num(0)
    /\ wire = [c \in Context |-> <<>>] /\ replies = [c \in Context |-> <<>>]
    /\ db = None /\ effect = <<>>

Usable == m_pContext /= NULL /\ m_pContext \notin err

(* A new context, or NULL; the one m_pContext had is not freed.            *)
GetRedisConnect ==
    /\ pc = "idle" /\ contexts < MaxContexts
    /\ contexts' = contexts + 1
    /\ \/ m_pContext' = contexts + 1
       \/ "connect" \in MayFail /\ m_pContext' = NULL
    /\ UNCHANGED <<err, pc, calls, call, ret, serverVars>>

Send(m, a) ==
    /\ pc = "idle" /\ calls < MaxCalls
    /\ calls' = calls + 1
    /\ call' = [id |-> calls + 1, method |-> m, arg |-> a, on |-> m_pContext]
    /\ IF Usable
       THEN /\ wire' = [wire EXCEPT ![m_pContext] = Append(@, call')]
            /\ pc' = "wait" /\ UNCHANGED ret
       ELSE /\ ret' \in Result(m, NoReply)
            /\ UNCHANGED <<pc, wire>>
    /\ UNCHANGED <<m_pContext, err, contexts, replies, db, effect>>

(* The reply came in time.                                                 *)
Receive ==
    /\ pc = "wait" /\ replies[m_pContext] /= <<>>
    /\ ret' \in Result(call.method, Head(replies[m_pContext]).reply)
    /\ replies' = [replies EXCEPT ![m_pContext] = Tail(@)]
    /\ pc' = "idle"
    /\ UNCHANGED <<m_pContext, err, contexts, calls, call, wire, db, effect>>

(* Nothing came within 500 ms, or the connection broke.                    *)
TimeoutKeepsContext ==
    /\ pc = "wait" /\ "reply" \in MayFail
    /\ ret' \in Result(call.method, NoReply)
    /\ pc' = "idle"
    /\ UNCHANGED <<m_pContext, err, contexts, calls, call, serverVars>>

Timeout ==
    /\ pc = "wait" /\ "reply" \in MayFail
    /\ err' = err \cup {m_pContext}
    /\ ret' \in Result(call.method, NoReply)
    /\ pc' = "idle"
    /\ UNCHANGED <<m_pContext, contexts, calls, call, serverVars>>

(* ~CRedisClient frees the context it has; forgotten ones stay.            *)
Destroy ==
    /\ pc = "idle"
    /\ pc' = "gone"
    /\ UNCHANGED <<m_pContext, err, contexts, calls, call, ret, serverVars>>

Next ==
    \/ GetRedisConnect
    \/ \E m \in Method, a \in Value : (m \notin TakesValue => a = EMPTY) /\ Send(m, a)
    \/ Receive \/ Timeout \/ Destroy
    \/ \E c \in Context : Serve(c)

Spec == Init /\ [][Next]_vars

-----------------------------------------------------------------------------
TypeOK ==
    /\ m_pContext \in (1..contexts) \cup {NULL}
    /\ err \subseteq Context /\ contexts \in 0..MaxContexts
    /\ pc \in {"idle", "wait", "gone"} /\ calls \in 0..MaxCalls
    /\ call \in Command \cup {NoCall} /\ call.id = calls
    /\ ret.kind \in {"int", "str", "list"} /\ ret.n >= -1
    /\ \A c \in Context : wire[c] \in Seq(Command)
    /\ DOMAIN effect \subseteq 1..calls
    /\ pc = "wait" => Usable

(* A reply is never taken for the reply to another call: in a context the
   methods still use there is nothing but the call in progress, however
   late the replies to calls that were given up are (the m_pReply == NULL
   branches, e.g. RedisClient.cpp:92-95).                                  *)
ContextIsClean ==
    Usable =>
        LET pending == wire[m_pContext] \o replies[m_pContext]
        IN  IF pc = "wait" THEN Len(pending) = 1 /\ pending[1].id = call.id
                           ELSE pending = <<>>

Failed == ret.n = -1 \/ (ret.kind = "str" /\ ret.str = <<>>)

(* A method that succeeds was carried out by the server, and the number or
   string it returned is the one the server gave for it; hdel's
   uninitialised result (RedisClient.cpp:527) may be any.                  *)
SuccessMeansDone ==
    pc = "idle" /\ calls > 0 /\ ~Failed /\ call.method \notin {"hdel", "ping"} =>
        /\ call.id \in DOMAIN effect
        /\ ret \in Result(call.method, effect[call.id].reply)

(* When a method fails and its context can still be used, its command has
   changed nothing, so it may be repeated.  Not so for an element "" that
   rpop or spop has removed (RedisClient.cpp:379, 779).                    *)
FailureIsRepeatable ==
    pc = "idle" /\ calls > 0 /\ Failed /\ Usable /\ call.on = m_pContext /\ call.id \in DOMAIN effect =>
        \/ ~effect[call.id].changed
        \/ call.method \in {"rpop", "spop"} /\ effect[call.id].reply = Bulk(<<EMPTY>>)

=============================================================================
