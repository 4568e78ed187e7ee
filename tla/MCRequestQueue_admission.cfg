\* Two concurrent calls of one listener and the programmer, with two tracks.
CONSTANTS
    Users = {u1}
    Tracks = {t1, t2}
    Overlong = {}
    Deletable = {}
    NotMusic = {t2}
    Handlers = {h1, h2}
    Operators = {}
    MaxRows = 2
    Ids <- MCIds
    MaxPendingPerUser = 2
    MaxPerDay = 2
    MaxAttempts = 1
    QueueDepthTarget = 1
    MaxPicks = 1
    AIEnabled = TRUE
    MaxFaults = 0
    NoUser = NoUser
    NoTrack = NoTrack
SPECIFICATION Spec
SYMMETRY HandlerSymmetry
INVARIANTS
    TypeOK
    PendingQuotaBound
    DailyQuotaBound
    DuplicateBound
    AiDepthBound
