CONSTANTS
    MaxSessions = 4
    MaxTries = 5
    CanFail = TRUE
SPECIFICATION GateFairSpec
INVARIANT
    ReachableUnlessLate
PROPERTY
    LiveIsHidden
CHECK_DEADLOCK FALSE
