CONSTANTS
    NumQsos = 1
    MaxVersion = 3
    MaxLinks = 2
    MaxAccidents = 0
    None = None
SPECIFICATION FairSpec
INVARIANTS EditsSurviveTheRace
\* The operator may stop working and the last link may go quiet.
CHECK_DEADLOCK FALSE
