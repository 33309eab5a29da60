SPECIFICATION Spec
CONSTANTS
    Jobs <- DatJobs
    Inline <- MCInline
    MaxId = 4
    Keep = 4
    CoreNames <- MCMenu
    Lanes = {"background"}
    Faults = {"crash"}
INVARIANTS NothingStranded OneWorker
CHECK_DEADLOCK FALSE
