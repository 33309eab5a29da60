SPECIFICATION FairSpec
CONSTANTS
    Roms <- One
    FileOf <- OnlyFile
    Seeds = {"none", "keep"}
    MaxRows = 1
    MaxFaults = 2
    MaxFrozen = 1
    MaxLost = 1
    MaxCrashes = 1
PROPERTIES QueuedLeaves KeptWorkEnds
