CONSTANTS
    p = p
    q = q
    lib = lib
    pbin = pbin
    qbin = qbin
    Ebin = Ebin
    Elib = Elib
    None = None
    Package <- MCPackage
    Rank <- MCRank
    Needs <- MCNeeds
    Dir <- MCDir
    DirsOf <- MCDirsOf
    Entry <- MCEntry
    EntryOf <- MCEntryOf
    Named <- MCNamed
    DiskFails = TRUE
SPECIFICATION Spec
INVARIANTS
    TypeOK
    RecordedIsComplete
    RecordedIsRemovable
    ClosedUnlessInterrupted
    NoForeignFiles
    RemovalIsComplete
PROPERTIES
    RemovalEndsUnlessError
