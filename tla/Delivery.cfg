SPECIFICATION FairDelivery
CONSTANTS
    Jobs = {1, 2}
    Size <- MCSize
    Horizon = 1
    Limit = 2
    MaxBytes = 2
    MaxTime = 2
    None = None
    Wait = 1
    MaxFaults = 1
INVARIANTS
    DisplayedWasShown
    RepeatsNeedFaults
    RefusedOnlyWhenExpired
PROPERTIES
    ShownInItsWindow
    CardsReachScreen
    AckLeavesSlot
CHECK_DEADLOCK FALSE
