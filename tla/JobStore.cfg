SPECIFICATION Spec
CONSTANTS
    Jobs = {1, 2, 3}
    Size <- MCSize
    Horizon = 1
    Limit = 2
    MaxBytes = 2
    MaxTime = 3
INVARIANTS
    TypeOK
    OneImmediate
    AcksMatchStates
    ManifestSound
PROPERTIES
    FinalStates
CHECK_DEADLOCK FALSE
