SPECIFICATION Spec
CONSTANTS
    StableSamples = 3
    MaxSamples = 12
PROPERTY
    OncePerPress
CHECK_DEADLOCK FALSE
