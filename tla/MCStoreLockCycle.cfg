SPECIFICATION Spec
CONSTANTS
    Thread = {t1, t2, t3}
    Schema = {a1, a2}
    Sandbox = {v1, v2}
    NoRow = NoRow
    NoSet = NoSet
    Free = Free
INVARIANTS
    NoLockCycle
\* Threads that block each other for good are what NoLockCycle is about.
CHECK_DEADLOCK FALSE
