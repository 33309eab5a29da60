SPECIFICATION Spec
CONSTANTS
    Dats <- Names
    Family <- Families
    Order <- Digits
    Tabled = {"a1", "a2", "c2"}
    Files <- Held
    DatOf <- Holds
    Games <- Lists
    Game <- List
    Preferences <- Both
    Default <- Default1
    None = None
    Cases <- AllCases
INVARIANTS ListIsCurrent PicksFollow GroupsHold
PROPERTIES NewestWins KeepsWants
CHECK_DEADLOCK FALSE
