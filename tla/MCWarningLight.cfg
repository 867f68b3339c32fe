SPECIFICATION LightFairSpec
CONSTANTS
    MaxPos = 1
    Duration <- LampDuration
    InitialDelay <- LampInitialDelay
    EndStopOverrun = 1
    ReversePause = 0
    HalfPeriod = 1
INVARIANT
    LampWake
PROPERTIES
    LampGoesDark
    LampBlinks
    MovementIsWarnedAbout
