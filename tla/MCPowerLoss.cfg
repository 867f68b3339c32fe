SPECIFICATION FirmwareSpec
CONSTANTS
    MaxPos = 2
    Duration <- FlashDuration
    InitialDelay <- FlashInitialDelay
    EndStopOverrun = 1
    ReversePause = 0
    StorageErrors = FALSE
PROPERTY
    PowerLossKeepsTrack
