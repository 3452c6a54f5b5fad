CONSTANTS
    Module <- MCModule
    Version <- MCVersion
    Qt <- MCQt
    MaxRuns = 3
    MaxFaults = 2
SPECIFICATION Spec
INVARIANTS
    ListedIsThere
    FinishedIsComplete
PROPERTIES
    StaysListed
CHECK_DEADLOCK FALSE
