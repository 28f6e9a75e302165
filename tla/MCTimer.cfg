SPECIFICATION FairSpec
CONSTANTS
    Handles = {h}
    Onces = {o}
    Intervals = {0, 3}
    Least = 1
    Offset = 1
    Word = 16
    MaxClock = 5
CHECK_DEADLOCK FALSE
INVARIANTS
    NeverEarly
    NoneLost
    WakesInTime
    OnceRunsOnce
