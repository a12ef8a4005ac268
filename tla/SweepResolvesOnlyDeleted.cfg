SPECIFICATION Spec
CONSTANTS
    Sources = {"s3"}
    NumItems = 1
    NumPlaces <- MCNumPlaces
    Cap <- MCCap
    MaxTime = 1
    MaxFaults = 1
PROPERTIES
    SweepResolvesOnlyDeleted
CHECK_DEADLOCK FALSE
