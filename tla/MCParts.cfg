SPECIFICATION Spec
CONSTANTS
    t1 = t1
    t2 = t2
    t3 = t3
    a1 = a1
    a2 = a2
    v1 = v1
    v2 = v2
    h1 = h1
    h2 = h2
    Thread <- Threads
    Schema <- Schemas
    Sandbox <- Sandboxes
    NoRow = NoRow
    NoSet = NoSet
    Free = Free
    ReadyPolls = 3
    GracePolls = 1
    WindowProbes = 2
    ProbeFailures = 2
    MaxAttempts = 2
    MaxEvents = 3
    Parts = 2
    MaxWrites = 2
    MaxFaults = 1
    MaxRestarts = 1
    MaxJobs = 2
    Pieces = 3
    MinPieces = 2
    Route <- Routes
    Name <- Names
    Identifier <- Identifiers
    SchemaName <- Identifiers
    Pass <- Passes
    Shared <- UnsetOrOne
    Tls = TRUE
    Handler <- Handlers
    MAX_RECORDS = 2
    Budgets <- Scenarios
    Id <- One
    MaxLevel = 3
    Editor <- One
    MAX_RULES = 1
    MaxEdits = 2
    MaxLost = 1
SYMMETRY Interchangeable
INVARIANTS
    CacheFresh
    TrustedWhole
    AckedDurable
    NoPhantom
    NewestKept
    CleanedUp
    ServedWhole
    Told
PROPERTIES
    ProvedOwner
    CycleOnEvidence
\* Bounds end most of these behaviours; the threads of StoreLocks can also block each
\* other for good (NoLockCycle).
CHECK_DEADLOCK FALSE
