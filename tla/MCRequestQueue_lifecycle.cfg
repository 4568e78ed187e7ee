\* One call, the worker with retries, one operator reordering, the feed.
CONSTANTS
    Users = {u1}
    Tracks = {t1, t2}
    Overlong = {}
    Deletable = {t1}
    NotMusic = {t2}
    Handlers = {h1}
    Operators = {o1}
    MaxRows = 2
    Ids <- MCIds
    MaxPendingPerUser = 2
    MaxPerDay = 3
    MaxAttempts = 1
    QueueDepthTarget = 1
    MaxPicks = 1
    AIEnabled = FALSE
    MaxFaults = 1
    NoUser = NoUser
    NoTrack = NoTrack
SPECIFICATION Spec
INVARIANTS
    ReadyIsPlayable
    OperatorOrderHolds
    HeldRows
PROPERTIES
    AiredIsFinal
    RefinesLifecycle
