SPECIFICATION FairSpec
CONSTANTS
    Worker = {w1, w2}
    Task = {t1, t2, t3}
    Closer = {c1, c2}
CHECK_DEADLOCK FALSE
INVARIANTS
    TakenOnceInOrder
    WorkersSuffice
    ShutdownDrains
PROPERTIES
    EveryTaskRuns
    ShutdownReturns
