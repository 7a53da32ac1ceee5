SPECIFICATION Spec
CONSTANTS
    Ids = {a, b}
    OwnId = a
    None = None
    MaxMoves = 3
    MaxBehind = 0
INVARIANT HelloGoesFirst
CHECK_DEADLOCK FALSE
