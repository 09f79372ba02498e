SPECIFICATION FairSpec
CONSTANTS
    s1 = s1
    s2 = s2
    Schema <- Two
    Workers = 2
    MaxFails = 2
    Policy <- Gradual
    TtlAfter = 1
    MaxAge = 2
    MaxConnects = 0
    MaxFaults = 2
    MaxSweeps = 1
PROPERTIES
    SweepEnds
    BacklogDrains
CHECK_DEADLOCK FALSE
