SPECIFICATION Spec
CONSTANTS
    MaxPos = 3
    Duration <- MCDuration
    InitialDelay <- MCInitialDelay
    EndStopOverrun = 1
    ReversePause = 2
INVARIANTS
    TypeOK
    SafetyWake
    SettledWhenIdle
    LeafOrder
    DoneMeansAtEnd
    NoStaleAnnouncement
PROPERTIES
    ForbiddenMovementEnds
    SafeStart
    CompletedMovementArrives
    ForcedOpenRunsToTheEnd
    ImpulseMovesTheGate
    BypassIsOneShot
    ImplementsService
