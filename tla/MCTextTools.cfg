CONSTANTS
    SplitExit = FALSE
    Jobs <- MCJobs
    HEADER_SIZE = 8
    PAYLOAD_SIZE = 2
SPECIFICATION Spec
INVARIANTS TextIsSameProgram TextIsHouseStyle StreamsAreMessages CaptionsAreSafe
PROPERTY EditStaysLocal
