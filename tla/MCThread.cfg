SPECIFICATION FairSpec
CONSTANTS
    Owner = o
    Stoppers = {s}
    Self = self
    SelfLimits = {"timed"}
    MaxBodies = 2
    Nobody = nobody
CHECK_DEADLOCK FALSE
INVARIANTS
    RunningIsTrue
    TrapNeedsDeadline
    TerminatesForAReason
    NoBodyLeftBehind
PROPERTY StopReturns
