SPECIFICATION FairSpec
CONSTANTS
    Addresses = {"a1", "a2"}
    Clients = {"c1", "c2"}
    NoRate = 4
    None = None
    Cases <- AllCases
INVARIANTS OwnIsKept StoppedIsKnown
PROPERTIES GateIsFollowed
CHECK_DEADLOCK FALSE
