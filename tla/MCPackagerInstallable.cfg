CONSTANTS
    Module <- ClosedModule
    Version = {1}
    Qt <- CompleteQt
    MaxRuns = 1
    MaxFaults = 0
SPECIFICATION Spec
INVARIANT IsInstallable
CHECK_DEADLOCK FALSE
