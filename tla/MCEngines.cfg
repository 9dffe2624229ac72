SPECIFICATION Spec
CONSTANTS
    Taps <- MCTaps
    Ceiling = 15
    Budget = 4
    GuessBest = 5
    Words <- MCWords
    Duration = 1
    MaxMoves = 17
INVARIANTS HalvingWins DoneIsReported ScrambleHidesTheWord
PROPERTIES QuittingNeverPays
CHECK_DEADLOCK FALSE
