SPECIFICATION TimeSpec
CONSTANTS
    Sleepers = {t1, t2}
    Delays = {0, 1, 2}
    MaxAge = 6
    PoolFails = TRUE
INVARIANTS
    LockIsFree
