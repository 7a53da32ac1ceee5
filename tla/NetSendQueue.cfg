CONSTANTS
    Packets = {p1, p2, p3}
    Callers = {c1, c2}
    None = None
SPECIFICATION FairSpec
INVARIANTS InOrder IdleIsTrue NoLostWake
PROPERTIES ImplementsOutbox EveryPacketSettles ShutdownEnds
\* Nothing is posted after the last packet, and a closed queue does nothing.
CHECK_DEADLOCK FALSE
