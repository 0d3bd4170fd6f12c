SPECIFICATION Spec
CONSTANTS
    InputSize = 4
    OutputSize = 3
    MaxRequest = 4
INVARIANT
    EverythingSent
CHECK_DEADLOCK FALSE
