SPECIFICATION FairSpec
CONSTANTS
    u1 = u1
    g1 = g1
    r1 = r1
    r2 = r2
    Users = {u1}
    Games = {g1}
    Requests = {r1, r2}
    MaxSessions = 3
    MaxMoves = 2
INVARIANTS TypeOK ScoreMatchesSession NoLostMove
PROPERTIES OverIsOver RequestsEnd
