SPECIFICATION Spec
CONSTANTS
    c1 = c1
    c2 = c2
    Client <- Pair
    NoRow = NoRow
    Absent = Absent
    MaxVms = 2
    Slots = 1
    MaxCommits = 2
    MaxPending = 1
    Anytime = FALSE
    Budgets <- SafeBudgets
SYMMETRY Interchangeable
INVARIANTS
    RowReachesData
    ServedNewest
    SessionTracked
