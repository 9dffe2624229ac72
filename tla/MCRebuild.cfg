SPECIFICATION RebuildSpec
CONSTANTS
    AllTime = AllTime
    daily = daily
    a = a
    r1 = r1
    Users = {a}
    Periods <- OnlyAllTime
    PeriodOrder <- AllTimeOrder
    MaxTime = 0
    MaxPoints = 2
    Ttl <- MCTtl
    WindowStart <- MCWindowStart
    Workers = {}
    Batch = 1
    Plays <- TwoGames
    MaxEvents = 2
    MaxLag = 0
    MaxFlushes = 0
    Rebuilders = {r1}
INVARIANTS RebuildIsExact RebuildDelivers
PROPERTIES NoVisibleGap
