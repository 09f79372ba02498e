SPECIFICATION FairSpec
CONSTANTS
    c1 = c1
    c2 = c2
    Client <- Pair
    NoRow = NoRow
    Absent = Absent
    MaxVms = 1
    Slots = 1
    MaxCommits = 0
    MaxPending = 1
    Anytime = FALSE
    Budgets <- LiveFaults
PROPERTIES
    CheckoutEnds
    ClaimReleased
