SPECIFICATION Spec
CONSTANTS
    Name = {1, 2, 3}
    Identifier = {1, 2}
    SchemaName = {1, 2}
    Pass = {11}
    Shared = {0, 10}
    Tls = TRUE
    h1 = h1
    h2 = h2
    Handler <- Handlers
    MAX_RECORDS = 2
    Budgets <- Scenarios
INVARIANTS
    CreatedSurvives
CHECK_DEADLOCK FALSE
