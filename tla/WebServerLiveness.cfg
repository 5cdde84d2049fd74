\* Liveness and refinement: threads always start, clients hang up in the end.
CONSTANTS
    Handler = {h1}
    Server = server
    Conn = {c1, c2}
    NONE = NONE
    Listening = Listening
    Foreign = Foreign
    Free = Free
    MaxFd = 3
    MaxForeign = 1
    m_nMaxThread = 1
    Chunks = 1
    MaxStarts = 1
    MayFail = FALSE
SPECIFICATION FairSpec
PROPERTIES ImplementsService BacklogDrains StopReturns
CHECK_DEADLOCK FALSE
