SPECIFICATION Spec
CONSTANTS
    s1 = s1
    s2 = s2
    Schema <- Two
    Workers = 2
    MaxFails = 2
    Policy <- Mixed
    TtlAfter = 1
    MaxAge = 2
    MaxConnects = 1
    MaxFaults = 1
    MaxSweeps = 1
SYMMETRY Interchangeable
INVARIANTS
    
    OneBootEach
PROPERTIES
    RetryHeld
CHECK_DEADLOCK FALSE
