SPECIFICATION FairSpec
CONSTANTS
    Esp = {e1, e2}
    EspNumber = 2
    MaxBoots = 3
    MaxRetry = 2
    NoConn = NoConn
    Faults = {"reboot", "bind", "accept", "open", "thread", "db"}
INVARIANTS OwnSlot JoinsOnce
PROPERTIES BarrierHolds OneBarrier JoinsOrRefused
CHECK_DEADLOCK FALSE
