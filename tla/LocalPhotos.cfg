SPECIFICATION FairSpec
CONSTANTS
    Photos = {1, 2, 3}
    Stored <- MCStored
    MaxChanges = 3
    MaxFaults = 1
INVARIANTS
    NoDriverLeft
    ListReadInRange
PROPERTIES
    FollowsTheCard
    EveryPhotoShown
