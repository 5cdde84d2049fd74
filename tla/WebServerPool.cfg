\* A pool of one thread: rejection, reuse, system calls that fail, a restart.
CONSTANTS
    Handler = {h1, h2}
    Server = server
    Conn = {c1, c2}
    NONE = NONE
    Listening = Listening
    Foreign = Foreign
    Free = Free
    MaxFd = 4
    MaxForeign = 1
    m_nMaxThread = 1
    Chunks = 1
    MaxStarts = 2
    MayFail = TRUE
SPECIFICATION Spec
SYMMETRY Symmetry
INVARIANTS PoolBounded NoDescriptorLeak HandoffReady StopLeavesNothing
\* The owner may stop the server for good.
CHECK_DEADLOCK FALSE
