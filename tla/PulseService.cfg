SPECIFICATION Spec
CONSTANTS
    ha = ha
    device = device
    u1 = u1
    u2 = u2
    u3 = u3
    Updates = {u1, u2, u3}
    Sources = {ha, device}
    Validated = {device}
    None = None
    MaxAge <- MCMaxAge
    Skew = 0
    MaxTime = 2
SYMMETRY UpdateSymmetry
INVARIANTS
    OwnFactsIncluded
    ActiveIsValid
PROPERTIES
    SourcesAdvance
CHECK_DEADLOCK FALSE
