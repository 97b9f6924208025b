\* One request, cancelled while it runs: violates CancelledStaysCancelled.
CONSTANTS
    t1 = t1
    t2 = t2
    t3 = t3
    Task = {t1}
    CronTask = {t1}
    MutexTask = {t1}
    Registered = {t1}
    ApiTask = {t1}
    Deps <- NoDeps
    MaxRetries = 0
    Workers = 1
    BatchLimit = 2
    MaxRuns = 1
    MaxRoots = 1
    MaxStarts = 1
SPECIFICATION Spec
PROPERTIES
    CancelledStaysCancelled
