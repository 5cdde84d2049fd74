\* Server: up to three pipelined requests. Client: two uses of one object, every failure.
\* Texts: two requests and responses, a line to each.
CONSTANTS
    NL = NL
    X = X
    SPACE = SPACE
    COLON = COLON
    QUERY = QUERY
    AMP = AMP
    EQUALS = EQUALS
    SLASH = SLASH
    POST = POST
    HTTP10 = HTTP10
    OK = OK
    KEY = KEY
    LowerKEY = LowerKEY
    IDLE = IDLE
    MaxMessages = 3
    MaxUses = 2
    MaxLength = 2
    BufSize = 5
    MayFail = {"create", "connect", "send", "recv"}
SPECIFICATION Spec
INVARIANTS ServedAsSent BodyIsOfThisResponse TextsArrive
PROPERTIES ExchangesEnd
CHECK_DEADLOCK FALSE
