SPECIFICATION FairSpec
CONSTANTS
    c1 = c1
    c2 = c2
    bad = bad
    odd = odd
    Captures = {c1, c2, bad, odd}
    Unsendable = {odd}
    Refused = {bad}
    Batch = 2
    Whole <- MCWhole
    Workers = {v, w}
    v = v
    w = w
    MaxFaults = 2
    None = None
INVARIANTS
    NothingLost
    OneTranscriber
PROPERTIES
    RecordingsSettle
CHECK_DEADLOCK FALSE
