SPECIFICATION FairSpec
CONSTANTS
    MaxConns = 2
    MaxClients = 2
    Handles = {h1, h2}
    Ids = {a, b}
    Contests = {x}
    None = None
PROPERTY StopEnds
CHECK_DEADLOCK FALSE
