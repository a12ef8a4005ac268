SPECIFICATION SettlesSpec
CONSTANTS
    Sources = {"jira", "asana"}
    NumItems = 2
    NumPlaces <- MCNumPlaces
    Cap <- MCCap
    MaxTime = 1
    MaxFaults = 1
    NumObjects = 1
    Jobs = {j1, j2}
    NoJob = NoJob
    MaxStamp = 1
    MaxScans = 2
    MaxUpsets = 1
    Calls = {c1, c2}
    StallThreshold = 2
    AbsoluteLimit = 3
    TaskTimeLimit = 1
    MaxRetroFaults = 2
PROPERTIES
    SweepsCatchUp SourceNotWedged SourceRowsSettle NoLiveRunReaped RetroSettles
CHECK_DEADLOCK FALSE
