\* One fault, the only track deletable.
CONSTANTS
    Tracks = {t1}
    MaxRows = 1
    Ids <- MCIds
    Deletable = {t1}
    MaxRestarts = 1
    MaxReaders = 3
    ReaderIds <- MCReaderIds
    MaxDirs = 3
    DirIds <- MCDirIds
    MaxFaults = 1
    NoUser = NoUser
    NoTrack = NoTrack
SPECIFICATION FairSpec
PROPERTIES
    OffAirEnds
    RequestServed
