\* The worker against failing downloads, removals, deletions and restarts.
CONSTANTS
    Users = {u1}
    Tracks = {t1, t2}
    Overlong = {}
    Deletable = {t1}
    NotMusic = {}
    Handlers = {h1}
    Operators = {}
    MaxRows = 2
    Ids <- MCIds
    MaxPendingPerUser = 2
    MaxPerDay = 3
    MaxAttempts = 2
    QueueDepthTarget = 1
    MaxPicks = 1
    AIEnabled = FALSE
    MaxFaults = 1
    NoUser = NoUser
    NoTrack = NoTrack
SPECIFICATION FairSpec
INVARIANT
    AttemptsBound
PROPERTY
    ApprovedResolves
