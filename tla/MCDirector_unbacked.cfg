\* The promised request is removed while the break waits for its seam.
CONSTANTS
    Tracks = {t1, t2}
    Requests = {t1}
    MaxEntries = 2
    MaxStops = 0
    Dayparts = FALSE
    BreakEvery = 1
    UseStationID = FALSE
    UseMusing = FALSE
    NoTrack = NoTrack
SPECIFICATION Spec
PROPERTY PromiseBacked
