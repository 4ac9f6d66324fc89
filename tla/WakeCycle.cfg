SPECIFICATION Spec
CONSTANTS
    Cards <- MCCards
    Lead = 0
    Wait = 3
    Retry = 6
    Poll = 12
    Grid = 13
    Minute = 3
    Margin = 1
    Horizon = 96
    MaxBusy = 2
    MaxHeld = 3
    MaxTime = 25
INVARIANTS
    NeverSleepsPast
    BoundedLateness
CHECK_DEADLOCK FALSE
