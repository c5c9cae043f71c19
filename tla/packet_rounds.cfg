SPECIFICATION Spec
CONSTANTS
    Esp = {e1, e2, e3, e4}
    Hash = {h1}
    Local = {h1}
    Copies = 1
    MaxAge = 0
    WordSize = 64
    MaxTime = 1
    MaxLag = 0
    MaxLead = 1
    MaxRestarts = 1
INVARIANTS LocatedOnce EnoughDevicesLocate
PROPERTIES OnlyYoungRowsStay ProcessEnds
SYMMETRY EspSymmetry
