SPECIFICATION FairSpec
CONSTANTS
    AllTime = AllTime
    daily = daily
    a = a
    w1 = w1
    Users = {a}
    Periods <- MCPeriods
    MaxTime = 1
    MaxPoints = 2
    Ttl <- MCTtl
    WindowStart <- MCWindowStart
    Workers = {w1}
    Batch = 1
    Plays <- MCPlays
    MaxEvents = 2
    MaxLag = 1
    MaxFlushes = 1
INVARIANTS TypeOK GlobalIsSumOfBests BoardHoldsTheBest ProjectedIsVisible
PROPERTIES NoRegression ExpiryNeverSlides EventuallyProjected ImplementsStandings
CHECK_DEADLOCK FALSE
