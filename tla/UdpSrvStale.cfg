\* One user, two sockets to a thread, a descriptor reused between select and the scan.
CONSTANTS
    User = {u1}
    u1 = u1
    Worker = {t1}
    t1 = t1
    NONE = NONE
    nMaxSockPerThread = 2
    MaxJoins = 3
    MaxFd = 2
    MaxData = 1
    MayFail = {}
    Sender = NONE
    CallbackMay = {}
SPECIFICATION FairSpec
PROPERTIES CallsReturn
CHECK_DEADLOCK FALSE
