SPECIFICATION RebuildSpec
CONSTANTS
    AllTime = AllTime
    daily = daily
    a = a
    r1 = r1
    Users = {a}
    Periods <- MCPeriods
    PeriodOrder <- MCPeriodOrder
    MaxTime = 1
    MaxPoints = 2
    Ttl <- ShortTtl
    WindowStart <- MCWindowStart
    Workers = {}
    Batch = 1
    Plays <- OneGame
    MaxEvents = 1
    MaxLag = 0
    MaxFlushes = 1
    Rebuilders = {r1}
INVARIANTS RebuildIsExact KeysExpire
