CONSTANTS
    a = a
    b = b
    l = l
    localhost = localhost
    fa = fa
    fb = fb
    fl = fl
    unused = unused
    None = None
    Url <- MCUrl
    Key <- MCKey
    EntryUrl <- MCEntryUrl
    File <- MCFiles
    FileOf <- MCFileOf
    RepositoryLists <- MCRepositoryLists
    Day = 1
    MaxTime = 2
    DiskFails = FALSE
SPECIFICATION Spec
INVARIANTS
    CleanForgetsMissing
