CONSTANTS
    k1 = k1
    k2 = k2
    p1 = p1
    NoKey = NoKey
    NoTask = NoTask
    Keys = {k1, k2}
    Pollers = {p1}
    EarlyStop = TRUE
SPECIFICATION FairSpec
INVARIANTS WorkerOwnsTask TasksInductive
PROPERTIES EveryTaskEnds
