SPECIFICATION Spec
CONSTANTS
    Interval = 2
    QueueLen = 1
    Tries = 2
    MaxWait = 1
    MaxTime = 5
    MaxPackets = 2
    Faults = {"malloc", "connect", "header", "data", "ack"}
INVARIANTS UnderAnIntervalAhead NotAhead DatedNear
CHECK_DEADLOCK FALSE
