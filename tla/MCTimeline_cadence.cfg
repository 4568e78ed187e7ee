\* The default cadence in small: a seam every two tracks.
CONSTANTS
    BreakEvery = 2
    UseStationID = TRUE
    UseMusing = FALSE
    MaxSegments = 5
    QueueRows <- MCRows
    Snapshots <- MCSnapshots
SPECIFICATION TimelineSpec
INVARIANT ProjectedCadence
