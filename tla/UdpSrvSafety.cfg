\* Two users join, leave and send, and so do callbacks; three sockets, two to a thread; descriptors are reused.
CONSTANTS
    User = {u1, u2}
    u1 = u1
    u2 = u2
    Worker = {t1, t2}
    t1 = t1
    t2 = t2
    t3 = t3
    NONE = NONE
    nMaxSockPerThread = 2
    MaxJoins = 3
    MaxFd = 3
    MaxData = 1
    MayFail = {"bind", "run", "select"}
    Sender = u1
    CallbackMay = {"join", "leave", "sendto"}
SPECIFICATION Spec
SYMMETRY Symmetry
INVARIANTS SocketsInOrder CallbackIsJoined
CHECK_DEADLOCK FALSE
