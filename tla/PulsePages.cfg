SPECIFICATION PagesSpec
CONSTANTS
    a = a
    p = p
    q = q
    Cards = {a}
    Pulses = {p, q}
    None = None
    Wait = 1
    Offered <- MCOffered
    MaxTime = 2
    MaxResets = 1
INVARIANTS
    AssetsKept
    ScreenKeepsUp
    ResetForgets
PROPERTIES
    SettledKept
