\* Two runs of one process, the second started after six hours.
CONSTANTS
    s1 = s1
    s2 = s2
    s3 = s3
    daily_kline_sync = daily_kline_sync
    monthly_dividend_sync = monthly_dividend_sync
    quarterly_financials_refresh = quarterly_financials_refresh
    daily_snapshot = daily_snapshot
    Stock = {s1}
    Run = {1, 2}
    PipelineType = {"klines"}
    Full = {FALSE}
    LastDay = 1
    Overlap = 1
    Lag = 1
    Task = {}
    Watched = {s1}
    TaskType <- TaskFetches
    MaxTasks = 0
    MaxBoots = 0
    MaxAge = 1
    MaxCancels = 0
    MaxCleanups = 0
SPECIFICATION Spec
PROPERTIES
    SweepSparesLive
CHECK_DEADLOCK FALSE
