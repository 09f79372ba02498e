SPECIFICATION FairSpec
CONSTANTS
    a = a
    b = b
    v1 = v1
    v2 = v2
    Schema <- Schemas
    Sandbox <- Sandboxes
    Adopted = Adopted
    Blank = Blank
    NoRow = NoRow
    Nobody = Nobody
    MaxCalls = 3
    MaxFails = 2
    MaxCrashes = 1
INVARIANTS
    TypeOK
    AckedBeforeFailure
    Settled
PROPERTIES
    Implements
    MemoryReachesDisk
\* With no caller left and everything written, the store is at rest.
CHECK_DEADLOCK FALSE
