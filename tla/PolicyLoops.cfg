SPECIFICATION LoopsSpec
CONSTANTS
    MaxMoment = 2
    MaxWindows = 3
INVARIANTS
    LoopsAgree
    BacklogSettled
    WakesInTime
CHECK_DEADLOCK FALSE
