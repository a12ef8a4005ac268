SPECIFICATION SafeSpec
CONSTANTS
    NumItems = 2
    Jobs = {j1, j2}
    NoJob = NoJob
    MaxStamp = 2
    MaxFaults = 1
    MaxScans = 3
    StallThreshold = 1
SYMMETRY JobSymmetry
INVARIANTS
    OneScanPerSource
    CursorCovers
PROPERTIES
    TombstoneHasCause
CHECK_DEADLOCK FALSE
