SPECIFICATION FairSpec
CONSTANTS
    home = home
    other = other
    Networks = {home, other}
    Around = {home, other}
    MaxRequests = 1
    MaxFaults = 1
    None = None
INVARIANTS
    AnswersAreItsOwn
    FlagsFollow
PROPERTIES
    BackOnline
