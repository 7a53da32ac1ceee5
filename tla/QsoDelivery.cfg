CONSTANTS
    NumQsos = 1
    MaxVersion = 2
    MaxLinks = 2
    MaxAccidents = 1
    None = None
SPECIFICATION FairSpec
INVARIANTS FlagsTellTheTruth EditsAreAccountedFor
PROPERTIES ServerMovesForward EverythingArrives
\* The operator may stop working and the last link may go quiet.
CHECK_DEADLOCK FALSE
