SPECIFICATION FairSpec
CONSTANTS
    Workers = {w1, w2, w3}
    Tasks = {k1, k2, k3}
    Nobody = nobody
INVARIANTS
    NoTaskAbandoned
    StartedOnce
    SomebodyIsAwake
PROPERTIES
    AcceptedTasksRun
    ShutdownJoins
