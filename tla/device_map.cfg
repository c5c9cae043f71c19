SPECIFICATION MapSpec
CONSTANTS
    Mac = {m1, m2}
    Recent = 2
    MaxFrames = 1
    MaxTime = 3
    MaxRows = 3
    MaxClicks = 3
INVARIANTS FewFrames OnlyThisFrame OneMap
