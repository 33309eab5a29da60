SPECIFICATION FairSpec
CONSTANTS
    Drops = {"a", "b", "c", "m", "n", "x"}
    Torrents = {"t1", "t2"}
    Platforms = {1, 2}
    Roms = {1, 2, 3}
    MaxId = 2
    None = None
    Ignore = Ignore
    Automatic = Automatic
    Cases <- AllCases
INVARIANTS ChoiceStands
PROPERTIES ProofStands SourcesSettle
CHECK_DEADLOCK FALSE
