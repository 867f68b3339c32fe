SPECIFICATION Spec
CONSTANTS
    ValidForms <- TwoForms
    InvalidForms <- OneInvalid
    StorageErrors = TRUE
PROPERTY
    SavedPageIsTrue
