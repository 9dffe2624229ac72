SPECIFICATION FairSpec
CONSTANTS
    r1 = r1
    r2 = r2
    ip = ip
    joe = joe
    Requests = {r1, r2}
    Addresses = {ip}
    Accounts = {joe}
    RouteCallers = {joe}
    LoginMaxIP = 1
    LoginMaxAccount = 1
    RouteLimit = 1
    Window = 2
    Watched <- MCWatched
    MaxCleared = 1
INVARIANTS TypeOK LimitHolds
PROPERTIES LockoutEnds
