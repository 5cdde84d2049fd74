\* Two pool threads and three connections: hand-over, reuse, racing closes.
CONSTANTS
    Handler = {h1, h2}
    Server = server
    Conn = {c1, c2, c3}
    NONE = NONE
    Listening = Listening
    Foreign = Foreign
    Free = Free
    MaxFd = 4
    MaxForeign = 0
    m_nMaxThread = 2
    Chunks = 1
    MaxStarts = 1
    MayFail = FALSE
SPECIFICATION Spec
SYMMETRY Symmetry
INVARIANTS SoleOwner AnswerGoesHome AcceptorGoneBeforeDelete
\* The owner may stop the server for good.
CHECK_DEADLOCK FALSE
