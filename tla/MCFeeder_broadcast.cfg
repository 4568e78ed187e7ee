\* One track that may vanish; three faults: a crash within a crash, the crash cap,
\* a kill after a failure.
CONSTANTS
    Tracks = {t1}
    MaxRows = 1
    Ids <- MCIds
    Deletable = {t1}
    MaxRestarts = 1
    MaxReaders = 3
    ReaderIds <- MCReaderIds
    MaxDirs = 3
    DirIds <- MCDirIds
    MaxFaults = 3
    NoUser = NoUser
    NoTrack = NoTrack
SPECIFICATION Spec
INVARIANTS
    TypeOK
    SessionDirLive
    NoStaleSkip
    ReadersOwned
    RequestAirsOnce
PROPERTIES
    PinSurvivesResume
    OneBreakPerSeam
