SPECIFICATION AnalyticsSpec
CONSTANTS
    Sites = {a1}
    Platform = Platform
    HourLen = 2
    DayLen = 4
    RawAge = 4
    HourlyAge = 8
    DailyAge = 12
    BatchSize = 1
    MaxNow = 13
    LastVisit = 5
    MaxLines = 2
    MaxTroubles = 1
INVARIANT ViewsKept
CHECK_DEADLOCK FALSE
