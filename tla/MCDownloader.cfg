CONSTANTS
    a = a
    b = b
    c = c
    m = m
    n = n
    fa = fa
    fb = fb
    NoPackage = NoPackage
    Package <- MCPackage
    File <- MCFile
    Jobs <- MCJobs
    HasUrl <- MCHasUrl
    LocalUrl <- MCLocalUrl
    FileOf <- MCFileOf
    Authenticates = FALSE
SPECIFICATION Spec
CHECK_DEADLOCK FALSE
INVARIANTS
    TypeOK
    InstallsOnlyCompleteDownloads
    DoneMeansAnswered
    SuccessIsComplete
PROPERTIES
    FailureIsFinal
    OwnArchive
    EndsOnceAnswered
    KeepsPromise
