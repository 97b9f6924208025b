\* Three stocks, a pipeline of items and one of batches, a cancel and two restarts:
\* the life of a run.
CONSTANTS
    s1 = s1
    s2 = s2
    s3 = s3
    daily_kline_sync = daily_kline_sync
    monthly_dividend_sync = monthly_dividend_sync
    quarterly_financials_refresh = quarterly_financials_refresh
    daily_snapshot = daily_snapshot
    Stock = {s1, s2, s3}
    Run = {1}
    PipelineType = {"dividends", "valuations"}
    Full = {FALSE}
    LastDay = 1
    Overlap = 1
    Lag = 1
    Task = {}
    Watched = {s1}
    TaskType <- TaskFetches
    MaxTasks = 0
    MaxBoots = 2
    MaxAge = 2
    MaxCancels = 1
    MaxCleanups = 0
SPECIFICATION FairSpec
INVARIANTS
    DeadLettersComplete
PROPERTIES
    RunsSettle
CHECK_DEADLOCK FALSE
