\* Two handlers, two calls, while main registers and interfaces may be withdrawn.
CONSTANTS
    Handler = {h1, h2}
    NONE = NONE
    Level = {3, 7}
    MaxCalls = 2
    Withdrawn = {"/interface/get/config"}
    MayFail = {"config", "start"}
SPECIFICATION FairSpec
PROPERTIES ImplementsService AnsweredOrGone
CHECK_DEADLOCK FALSE
