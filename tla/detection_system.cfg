SPECIFICATION SystemSpec
CONSTANTS
    MaxLines = 1
    Faults = {"database", "exit"}
    EspNumber = 2
INVARIANTS NoOrphan PipeAwaits NumberIsKnown MeasuredIfNumberedByMac
PROPERTIES CloseEnds GreetingShown
CHECK_DEADLOCK FALSE
