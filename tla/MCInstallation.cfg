SPECIFICATION InstallationSpec
CONSTANTS
    MaxPos = 2
    Duration <- SlowClosing
    InitialDelay <- HeadStart
    EndStopOverrun = 1
    ReversePause = 0
    StorageErrors = TRUE
INVARIANTS
    IdleStateDurable
    CacheIsFlash
PROPERTY
    FullRunFindsTheEndStop
