SPECIFICATION FairSpec
CONSTANTS
    Owner = o
    Stoppers = {s}
    Self = self
    Nobody = nobody
CHECK_DEADLOCK FALSE
INVARIANTS
    NeverWaitsForItself
    SaysItRuns
PROPERTIES
    StoppedMeansEnded
    QuitReturns
