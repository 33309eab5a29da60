SPECIFICATION ImagesFair
CONSTANTS
    PathOrder <- Order
    DirOrder <- Tops2
    DirOf <- In
    Zipped = {"c"}
    Contents = {"x", "y", "w", "v", "b", "h"}
    SizeOf <- Size
    Roms = {1, 2}
    TitleOf <- Title
    Home <- Name
    FlushRows = 2
    Chunk = 1
    None = None
    Cases <- AllCases
    Images = {1, 2}
    Broken = {"b"}
    Headless = {"h"}
    HeadOf <- Head1
    Shelf <- Images0
INVARIANTS WaitsAsSet
PROPERTIES LosesNoRow DoneIsStored Settles ImagesSettle
CHECK_DEADLOCK FALSE
