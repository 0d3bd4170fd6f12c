SPECIFICATION Spec
CONSTANTS
    FileSize = 8
    BufferSize = 3
    MaxRequest = 7
INVARIANT TryReadReturns
CHECK_DEADLOCK FALSE
