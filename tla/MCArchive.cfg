CONSTANTS
    d = d
    f = f
    g = g
    cut = cut
    NoFile = NoFile
    Name <- MCName
    WritePath <- MCWritePath
    LongPath <- MCLongPath
    CutPath <- MCCutPath
    Format = {"tar", "zip", "7z", "ar"}
    Foreign <- MCForeign
    MaxWrites = 2
    Size = {0, 2}
    Chunk = 2
    MaxSessions = 2
    DiskFills = TRUE
    Held = 1
SPECIFICATION Spec
INVARIANTS
    ReadsBack
    EntriesInPlace
PROPERTIES
    WriteOnlyIsAtomic
CHECK_DEADLOCK FALSE
