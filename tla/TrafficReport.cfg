CONSTANTS
    None = None
    MaxUsed = 3
    MaxLives = 2
    MaxBreaks = 1
    MaxFlight = 2
    MaxAstray = 1
    MaxRounds = 2
SPECIFICATION Spec
INVARIANTS
    NeverOverbilled
    RoundOnce
    
PROPERTIES
    NothingMissed
    CaughtUp
CHECK_DEADLOCK FALSE
