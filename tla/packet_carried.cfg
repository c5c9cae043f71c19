SPECIFICATION Spec
CONSTANTS
    Esp = {e1, e2}
    Hash = {h1, h2}
    Local = {}
    Copies = 1
    MaxAge = 1
    WordSize = 64
    MaxTime = 0
    MaxLag = 0
    MaxLead = 0
    MaxRestarts = 0
INVARIANTS OwnRowsOnly
