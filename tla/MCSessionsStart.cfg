SPECIFICATION Spec
CONSTANTS
    u1 = u1
    g1 = g1
    r1 = r1
    r2 = r2
    Users = {u1}
    Games = {g1}
    Requests = {r1, r2}
    MaxSessions = 2
    MaxMoves = 1
INVARIANTS OneLiveSession
