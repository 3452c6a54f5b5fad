CONSTANTS
    Held = 2
    Cap = 3
    QCap = 4
    Cells <- MCCells
    InitialFile <- MCInitialFile
    WriteKind <- MCWriteKind
    ReadKind <- MCReadKind
    DiskRoom = {0, 2, 5, 20}
    WriteSize = {1, 3, 4}
    ReadSize = {1, 3, 5}
    SeekPos = {1, 4}
    MaxSessions = 2
SPECIFICATION Spec
INVARIANTS
    ReadsInOrder
    EndIsTheEnd
PROPERTIES
    SavesAtomically
CHECK_DEADLOCK FALSE
