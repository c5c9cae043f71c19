SPECIFICATION Spec
CONSTANTS
    Esp = {e1, e2}
    Stranger = {x1}
    MaxReports = 2
    Faults = {"break", "database"}
INVARIANTS NoMissedWakeup RoundIsStored OverrunRunsAhead
PROPERTIES ImplementsLedger
SYMMETRY EspSymmetry
CHECK_DEADLOCK FALSE
