SPECIFICATION FairSpec
CONSTANTS
    b1 = b1
    b2 = b2
    d1 = d1
    d2 = d2
    Boot <- Boots
    Disk <- OneDisk
    Free = Free
    Slots = 1
    MaxPasses = 2
    MaxFaults = 1
INVARIANTS
    NoBootOverTrim
    StopIsForThisPass
    HoldersAreLive
PROPERTIES
    BootServed
