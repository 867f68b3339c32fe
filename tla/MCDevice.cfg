SPECIFICATION DeviceSpec
CONSTANTS
    MaxPos = 1
    Duration <- OneTick
    InitialDelay <- HeadStart
    EndStopOverrun = 1
    ReversePause = 0
    StorageErrors = FALSE
PROPERTIES
    WindLockPursuedAndDurable
    BrokenBeamStopsGate
    AnnouncementCatchesUp
