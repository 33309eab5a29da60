SPECIFICATION FairSpec
CONSTANTS
    Jobs <- MixedJobs
    Inline <- MCInline
    MaxId = 3
    Keep = 3
    CoreNames <- MCCores
    Lanes = {"heavy", "background"}
    Faults = {}
PROPERTIES EveryJobEnds HeldLaneRests
CHECK_DEADLOCK FALSE
