SPECIFICATION Spec
CONSTANTS
    Timers = {timer}
    Handler = handler
    CountMod = 4
    Buffered = {}
    Hoisted = {timer, handler}
    MaxPending = 1
INVARIANTS MutualExclusion
PROPERTIES ImplementsCell
CHECK_DEADLOCK FALSE
