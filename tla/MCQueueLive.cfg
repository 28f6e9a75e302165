SPECIFICATION FairSpec
CONSTANTS
    Worker = w
    Callers = {c1, c2}
    Events = {e1}
    Tasks = {k1, k2}
    Tick = tick
    Codes = {1}
    Posters = {w, c1}
    Quitters = {c2}
    Waiters = {}
    TimerUsers = {}
    SecondRunners = {c1}
    InitTimer = "loop"
    MaxQueue = 4
    MaxBurst = 1
    CountBound = 4
    None = none
PROPERTIES
    KeepsLoopPromise
    EverythingIsHandled
    QuitEndsRun
