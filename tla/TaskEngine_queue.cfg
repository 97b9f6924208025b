\* Two requests over three tasks: t2 depends on t1, t3 is not registered.
\* A tick loads one run at a time, no restart, with fairness.
CONSTANTS
    t1 = t1
    t2 = t2
    t3 = t3
    Task = {t1, t2, t3}
    CronTask = {t1}
    MutexTask = {t1}
    Registered = {t1, t2}
    ApiTask = {t1}
    Deps <- Chained
    MaxRetries = 0
    Workers = 1
    BatchLimit = 1
    MaxRuns = 2
    MaxRoots = 2
    MaxStarts = 1
SPECIFICATION FairSpec
INVARIANTS
    TypeOK
    TaskStatusSettles
PROPERTIES
    DispatchedOnce
    SettledIsFinal
    QueueDrains
