SPECIFICATION Spec
CONSTANTS
    MaxConns = 3
    MaxClients = 2
    Handles = {h1, h2}
    Ids = {a, b}
    Contests = {x, y}
    None = None
INVARIANTS SlotsAreOwned IdsAreUnique PeersAreCurrent NoPeerOutlivesItsLink
PROPERTY RefusalsAreJust
SYMMETRY Symmetry
CHECK_DEADLOCK FALSE
