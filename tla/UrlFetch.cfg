SPECIFICATION FetchFairSpec
CONSTANTS
    Names <- TwoNames
    Contents = {"c1", "c2", "c3", "c4"}
    Owners = {"u1", "u2", "t1", "t2"}
    Tokens = {"t1", "t2"}
    Nothing = Nothing
    Empty = Empty
    Body <- Brings
    Kind <- Kinds
    FolderCases <- AllCases
INVARIANTS CancelHeeded NothingLeft KeepsFiles
PROPERTIES EachSettles
CHECK_DEADLOCK FALSE
