SPECIFICATION Spec
CONSTANTS
    Tracks = 2
    MaxRows = 3
    Cases <- AllCases
INVARIANTS VerifiedIsRight DoneIsPlaced
PROPERTIES GoodStays DiscTogether ImportEnds
CHECK_DEADLOCK FALSE
