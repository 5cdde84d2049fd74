\* Two threads, an overflow, file output switched on, off and on again; nothing fails.
CONSTANTS
    Logger = {l1, l2}
    l1 = l1
    l2 = l2
    NOBODY = NOBODY
    Cap = 1
    Level = {4}
    Request = {}
    MaxMsgs = 4
    MaxCalls = 3
    MaxHour = 1
    HoursPerDay = 24
    MayFail = {}
SPECIFICATION FairSpec
PROPERTIES QueueDrains EnableReturns
CHECK_DEADLOCK FALSE
