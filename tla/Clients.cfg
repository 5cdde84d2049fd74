\* Redis: 3 calls, 2 contexts. Kafka: 4 calls, or 3 messages and a queue of 2.
\* CHttpClient: 3 calls. SystemInfo: 2 threads, 5 seconds. Singleton and locks: 3 threads, 2 objects,
\* 2 scopes; a Thread run twice. Socket: 5 calls on 2 objects, 2 descriptors.
CONSTANTS
    NULL = NULL
    NONE = NONE
    EMPTY = E
    Method = {"ping", "set", "setex", "get", "append", "sadd", "srem", "sismember", "scard", "spop", "srandmember",
              "smembers", "hset", "hdel", "del", "hget", "hgetall", "rpush", "lpush", "lrem", "rpop", "llen", "hmget"}
    Value = {a, E}
    RedisCalls = 3
    MaxContexts = 2
    PartitionLists <- SomeLists
    ConsumerCalls = 4
    Msg = {m1, m2, m3}
    NoMsg = NoMsg
    MaxQueue = 2
    MaxInits = 2
    CaPath = CaPath
    HttpCalls = 3
    MaxLength = 2
    Thread = {h1, h2}
    Start = 2
    MaxTime = 6
    User = {u1, u2, u3}
    NOTYET = NOTYET
    MaxInstances = 2
    MaxNest = 2
    MaxRuns = 2
    Obj = {o, p}
    Descriptors = 2
    Ip = {ip}
    ANY = ANY
    NOIP = NOIP
    BAD = BAD
    Port = {14}
    BYTE = 4
    Milliseconds <- SomeTimes
    Sizes = {8}
    SocketCalls = 5
    IDLE = IDLE
SPECIFICATION Spec
INVARIANTS ResultMeansEffect ContextIsClean KafkaSafe NetworkSafe ThreadsSafe
CHECK_DEADLOCK FALSE
