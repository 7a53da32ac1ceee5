CONSTANTS
    TwoRecords = FALSE
    Lines = FALSE
SPECIFICATION Spec
INVARIANT InvalidFileFailsTheGate
