\* Two requests for one task with the mutex: violates MutexHolds.
CONSTANTS
    t1 = t1
    t2 = t2
    t3 = t3
    Task = {t1}
    CronTask = {t1}
    MutexTask = {t1}
    Registered = {t1}
    ApiTask = {t1}
    Deps <- NoDeps
    MaxRetries = 0
    Workers = 2
    BatchLimit = 2
    MaxRuns = 2
    MaxRoots = 2
    MaxStarts = 1
SPECIFICATION Spec
INVARIANTS
    MutexHolds
