SPECIFICATION FairSpec
CONSTANTS
    Timers = {timer}
    Handler = handler
    CountMod = 2
    Buffered = {timer, handler}
    Hoisted = {}
    MaxPending = 4
PROPERTIES HandlerEnters TimerEnters
