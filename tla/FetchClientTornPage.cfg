SPECIFICATION Spec
CONSTANTS
    MaxAttempts = 4
    InitialBackoff = 1
    MaxBackoff = 2
    MaxDuration = 4
    MaxResponse = 3
    ChunkSizes = {1, 2}
INVARIANTS
    NoCutPage
CHECK_DEADLOCK FALSE
