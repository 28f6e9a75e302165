SPECIFICATION FairSpec
CONSTANTS
    Workers = {w1, w2}
    Tasks = {k1, k2, k3}
    Nobody = nobody
PROPERTY EveryTaskRuns
