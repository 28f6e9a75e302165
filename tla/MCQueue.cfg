SPECIFICATION Spec
CONSTANTS
    Worker = w
    Callers = {c1, c2}
    Events = {}
    Tasks = {k1}
    Tick = tick
    Codes = {1}
    Posters = {w}
    Quitters = {w, c2}
    Waiters = {c1, c2}
    TimerUsers = {c1}
    SecondRunners = {}
    InitTimer = "off"
    MaxQueue = 0
    MaxBurst = 1
    CountBound = 3
    None = none
CHECK_DEADLOCK FALSE
INVARIANTS
    DrainedBeforeEnd
    WaiterSeesTheEnd
    SleeperCanBeWoken
PROPERTY ReturnsRequestedCode
