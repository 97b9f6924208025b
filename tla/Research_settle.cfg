SPECIFICATION FairSpec
CONSTANTS
    s1 = s1
    s2 = s2
    t1 = t1
    c1 = c1
    c2 = c2
    Stock <- Stocks1
    Theme <- Themes
    Client <- Clients1
    Enabled <- ScreenOnly
    MaxReports = 2
PROPERTY ReportsSettle
