SPECIFICATION FairSpec
CONSTANTS
    NoTask = NoTask
    Workers = {w1, w2}
    Clients = {c1, c2}
    Tasks = {t1, t2, t3}
INVARIANTS
    StopDrains
    NoLostWakeup
PROPERTIES
    ImplementsLifecycle
    OwedTasksRun
    StopReturns
