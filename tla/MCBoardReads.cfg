SPECIFICATION Spec
CONSTANTS
    MaxPlayers = 4
    MaxPoints = 2
    MaxLimit = 3
    MaxNeighbours = 1
    MaxWrites = 1
INVARIANTS PageIsExact NeighboursIncludeMe NeverRankedTooHigh
CHECK_DEADLOCK FALSE
