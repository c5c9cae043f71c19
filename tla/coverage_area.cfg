SPECIFICATION Spec
CONSTANTS
    MaxEsp = 4
    Place = {1, 2, 3}
    Spot = {15, 16, 17, 24, 31, 32, 33, 40, 49}
    Scale = 16
    INF = 10
INVARIANTS Agrees BetweenHeights
CHECK_DEADLOCK FALSE
