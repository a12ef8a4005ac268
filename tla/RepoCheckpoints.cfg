SPECIFICATION CheckpointSpec
CONSTANTS
    Files = {d1, d2}
    Branches = {main, dev}
    Default = main
    MaxVersion = 1
    MaxPack = 2
    MaxPushes = 2
    MaxRuns = 2
SYMMETRY FileSymmetry
INVARIANTS CheckpointInv PackIsHonest
PROPERTIES FullScanSetsMarkers
CHECK_DEADLOCK FALSE
