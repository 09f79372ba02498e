SPECIFICATION Spec
CONSTANTS
    s1 = s1
    s2 = s2
    i1 = i1
    i2 = i2
    Schema <- Schemas
    Id <- Ids
    None = None
    Target = 1
    MaxCulls = 1
    TakeMax = 2
    MaxPurges = 1
    MaxFaults = 2
SYMMETRY Interchangeable
INVARIANTS
    BoundSurvives
    OneOwner
    ShelfFree
CHECK_DEADLOCK FALSE
