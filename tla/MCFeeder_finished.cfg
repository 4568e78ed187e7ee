\* A skipped track whose session restarts before its duration is over.
CONSTANTS
    Tracks = {t1}
    MaxRows = 1
    Ids <- MCIds
    Deletable = {}
    MaxRestarts = 1
    MaxReaders = 3
    ReaderIds <- MCReaderIds
    MaxDirs = 3
    DirIds <- MCDirIds
    MaxFaults = 0
    NoUser = NoUser
    NoTrack = NoTrack
SPECIFICATION Spec
INVARIANT FinishedAtMostOnce
