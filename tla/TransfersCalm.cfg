SPECIFICATION Spec
CONSTANTS
    Roms <- Two
    FileOf <- OwnFiles
    Seeds = {"none"}
    MaxRows = 2
    MaxFaults = 0
    MaxFrozen = 0
    MaxLost = 1
    MaxCrashes = 0
INVARIANTS StartedIsSelected OneOpenRow
PROPERTIES EndedStays
