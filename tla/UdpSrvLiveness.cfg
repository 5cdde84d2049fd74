\* One socket to a thread: two users, two sockets.
CONSTANTS
    User = {u1, u2}
    u1 = u1
    u2 = u2
    Worker = {t1, t2}
    t1 = t1
    t2 = t2
    NONE = NONE
    nMaxSockPerThread = 1
    MaxJoins = 2
    MaxFd = 2
    MaxData = 1
    MayFail = {"bind"}
    Sender = NONE
    CallbackMay = {}
SPECIFICATION FairSpec
PROPERTIES CallsReturn JoinedIsServed
CHECK_DEADLOCK FALSE
