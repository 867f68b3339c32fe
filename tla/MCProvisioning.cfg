SPECIFICATION FairSpec
CONSTANTS
    ValidForms <- TwoForms
    InvalidForms <- OneInvalid
    StorageErrors = TRUE
INVARIANTS
    StationRunsSavedConfig
PROPERTIES
    SubmissionEndsInReboot
    GateIsNeverShutOut
