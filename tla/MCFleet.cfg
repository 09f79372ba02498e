SPECIFICATION FairSpec
CONSTANTS
    i1 = i1
    i2 = i2
    Id <- Ids
    None = None
    MaxStarts = 2
    MaxPasses = 1
    MaxFaults = 2
INVARIANTS
    LiveNotDeleted
    LiveDiskKept
    ServedUp
    InFlightNamed
PROPERTIES
    JanitorDrains
CHECK_DEADLOCK FALSE
