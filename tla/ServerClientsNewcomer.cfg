SPECIFICATION Spec
CONSTANTS
    MaxConns = 3
    MaxClients = 2
    Handles = {h1, h2}
    Ids = {a, b}
    Contests = {x}
    None = None
INVARIANT NewcomerIsAnswered
CHECK_DEADLOCK FALSE
