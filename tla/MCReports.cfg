SPECIFICATION ReportsFairSpec
CONSTANTS
    AllTime = AllTime
    daily = daily
    a = a
    Users = {a}
    Periods <- MCPeriods
    ClosingPeriods <- MCClosingPeriods
    MaxTime = 1
    MaxPoints = 1
    Ttl <- MCTtl
    WindowStart <- MCWindowStart
    Workers = {}
    Batch = 1
    Plays <- MCPlays
    MaxEvents = 2
    MaxLag = 1
    MaxFlushes = 1
    MaxFailures = 1
INVARIANTS SourcesAgree
PROPERTIES LateScoreIsFrozen
CHECK_DEADLOCK FALSE
