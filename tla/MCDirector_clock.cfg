\* Every kind of break, no requests.
CONSTANTS
    Tracks = {t1}
    Requests = {}
    MaxEntries = 3
    MaxStops = 0
    Dayparts = TRUE
    BreakEvery = 2
    UseStationID = TRUE
    UseMusing = TRUE
    NoTrack = NoTrack
SPECIFICATION Spec
INVARIANTS
    TypeOK
    ClipsOwned
    ClipWanted
    ClipOwed
