SPECIFICATION Spec
CONSTANTS
    Threads = {t1, t2, t3}
    InitialCount = 0
    ResetCounts = {0, 1}
    CountBound = 4
SYMMETRY CallerSymmetry
INVARIANTS
    TypeOK
    NoStrandedSleeper
    NoPhantomWaiter
PROPERTIES
    ResetWakesAll
    KeepsPromise
