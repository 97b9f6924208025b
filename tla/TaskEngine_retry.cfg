\* One request with two retries, one task, one restart, with fairness.
CONSTANTS
    t1 = t1
    t2 = t2
    t3 = t3
    Task = {t1}
    CronTask = {t1}
    MutexTask = {t1}
    Registered = {t1}
    ApiTask = {}
    Deps <- NoDeps
    MaxRetries = 2
    Workers = 1
    BatchLimit = 2
    MaxRuns = 3
    MaxRoots = 1
    MaxStarts = 2
SPECIFICATION FairSpec
INVARIANTS
    OneRunPerAttempt
    NoLostRetry
    NoBookkeepingLeak
    NoOrphanRun
PROPERTIES
    PromiseKept
    RunsEnd
CHECK_DEADLOCK FALSE
