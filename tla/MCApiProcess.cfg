SPECIFICATION ApiFairSpec
CONSTANTS
    c1 = c1
    c2 = c2
    k1 = k1
    k2 = k2
    t1 = t1
    t2 = t2
    Channels = {c1}
    Conns = {k1}
    Tickets = {t1}
    SendBuffer = 1
    MaxChannels = 1
    MaxChanges = 2
    MaxRequests = 2
INVARIANTS CaughtUp RequestsAreDrained
PROPERTIES StopsEventually
CHECK_DEADLOCK FALSE
