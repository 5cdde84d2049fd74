\* Two threads overflow a queue of more than two messages; the file output is
\* switched up to three times, fopen and pthread_create may fail, the hour changes.
CONSTANTS
    Logger = {l1, l2}
    l1 = l1
    l2 = l2
    NOBODY = NOBODY
    Cap = 2
    Level = {1, 4}
    Request = {0, 9}
    MaxMsgs = 6
    MaxCalls = 3
    MaxHour = 1
    HoursPerDay = 24
    MayFail = {"fopen", "run"}
SPECIFICATION Spec
SYMMETRY Symmetry
INVARIANTS QueueBounded Fifo LossIsNoticed OffMeansOff OneFilePerHour
CHECK_DEADLOCK FALSE
