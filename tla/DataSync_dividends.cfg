\* A run of the dividends pipeline beside the monthly task.
CONSTANTS
    s1 = s1
    s2 = s2
    s3 = s3
    daily_kline_sync = daily_kline_sync
    monthly_dividend_sync = monthly_dividend_sync
    quarterly_financials_refresh = quarterly_financials_refresh
    daily_snapshot = daily_snapshot
    Stock = {s1}
    Run = {1}
    PipelineType = {"dividends"}
    Full = {FALSE}
    LastDay = 1
    Overlap = 1
    Lag = 1
    Task = {monthly_dividend_sync, quarterly_financials_refresh}
    Watched = {s1}
    TaskType <- TaskFetches
    MaxTasks = 1
    MaxBoots = 0
    MaxAge = 0
    MaxCancels = 0
    MaxCleanups = 0
SPECIFICATION Spec
INVARIANTS
    DividendsOnce
CHECK_DEADLOCK FALSE
