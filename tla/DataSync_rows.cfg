\* One stock, two overlapping runs, the daily task, three days, one deletion.
CONSTANTS
    s1 = s1
    s2 = s2
    s3 = s3
    daily_kline_sync = daily_kline_sync
    monthly_dividend_sync = monthly_dividend_sync
    quarterly_financials_refresh = quarterly_financials_refresh
    daily_snapshot = daily_snapshot
    Stock = {s1}
    Run = {1, 2}
    PipelineType = {"klines"}
    Full = {FALSE}
    LastDay = 3
    Overlap = 1
    Lag = 1
    Task = {daily_kline_sync}
    Watched = {s1}
    TaskType <- TaskFetches
    MaxTasks = 1
    MaxBoots = 0
    MaxAge = 0
    MaxCancels = 0
    MaxCleanups = 1
SPECIFICATION Spec
INVARIANTS
    NoHoles
    CompletedIsStored
CHECK_DEADLOCK FALSE
