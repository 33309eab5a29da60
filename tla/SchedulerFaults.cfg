SPECIFICATION Spec
CONSTANTS
    Jobs <- RepeatJobs
    Inline <- MCInline
    MaxId = 3
    Keep = 1
    CoreNames <- MCMenu
    Lanes = {"background", "fetch"}
    Faults = {"leave", "write", "abort", "crash"}
INVARIANTS NoRequestLost
CHECK_DEADLOCK FALSE
