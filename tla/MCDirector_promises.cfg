\* Seams only: one request and one more track.
CONSTANTS
    Tracks = {t1, t2}
    Requests = {t1}
    MaxEntries = 2
    MaxStops = 1
    Dayparts = FALSE
    BreakEvery = 0
    UseStationID = FALSE
    UseMusing = FALSE
    NoTrack = NoTrack
SPECIFICATION Spec
PROPERTIES
    SeamFollowsAnchor
    PromiseKept
