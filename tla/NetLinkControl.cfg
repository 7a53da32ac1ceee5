SPECIFICATION FairSpec
CONSTANTS
    Ids = {a, b}
    OwnId = a
    None = None
    MaxMoves = 3
    MaxBehind = 0
INVARIANTS LiveLinkHasReader UnwantedLinkIsDropped RefusalsAreHonest OfflineWorkGoesOnce
PROPERTY WantedLinkComesUp
CHECK_DEADLOCK FALSE
