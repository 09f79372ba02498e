SPECIFICATION Spec
CONSTANTS
    c1 = c1
    c2 = c2
    Client <- Single
    NoRow = NoRow
    Absent = Absent
    MaxVms = 2
    Slots = 1
    MaxCommits = 2
    MaxPending = 2
    Anytime = FALSE
    Budgets <- Crashes
INVARIANTS
    NothingDurableLost
