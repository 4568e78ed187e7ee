\* Each component's bounds: a queue of two rows and a seam every two tracks; two
\* broadcasts, three instants and one failed write; one song, two callers that
\* acquire it, two that delete it, a reader and a failure; three rows in rounds of two; two days on a
\* budget of one call; a bucket of two tokens; three requests.
CONSTANTS
    BreakEvery = 2
    UseStationID = TRUE
    UseMusing = FALSE
    MaxSegments = 5
    QueueRows <- MCRows
    Snapshots <- MCSnapshots
    TrackLength = 2
    TalkLength = 2
    MaxInstant = 3
    MaxBroadcasts = 2
    MaxWriteFaults = 1
    Songs = {s1}
    Callers = {worker, console}
    Readers = {r1}
    Deleters = {o1, o2}
    MaxArtifacts = 3
    MaxFailures = 1
    NoSong = NoSong
    Shelf = {1, 2, 3}
    Batch = 2
    MaxBlips = 1
    BudgetUSD = 1
    CallCost = 1
    MaxDays = 2
    MaxLosses = 1
    MaxBench = 1
    Searchers = {u1, u2}
    BucketCapacity = 2
    RefillPer = 2
    MaxSeconds = 4
    MaxSearches = 4
    Askers = {u1}
    Wishes = {t1}
    MaxItems = 3
    Nobody = Nobody
    NoWish = NoWish
SPECIFICATION StationSpec
INVARIANTS
    TypeOK
    RunningOrder
    MusicAgrees
    FirstBreakAgrees
    CadenceKept
    BroadcastRecord
    ItemsInsideBroadcasts
    AiringReported
    LibraryBacked
    BackfillStrandsNothing
    BudgetBound
    BucketRate
    MemAgrees
\* The backfill ends, and time does at its bound.
CHECK_DEADLOCK FALSE
