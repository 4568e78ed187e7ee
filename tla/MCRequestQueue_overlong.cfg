\* The lab downloads an overlong track while its request waits.
CONSTANTS
    Users = {u1}
    Tracks = {t1}
    Overlong = {t1}
    Deletable = {t1}
    NotMusic = {}
    Handlers = {h1}
    Operators = {}
    MaxRows = 2
    Ids <- MCIds
    MaxPendingPerUser = 2
    MaxPerDay = 3
    MaxAttempts = 1
    QueueDepthTarget = 1
    MaxPicks = 1
    AIEnabled = FALSE
    MaxFaults = 0
    NoUser = NoUser
    NoTrack = NoTrack
SPECIFICATION Spec
INVARIANT OverlongNeverReady
