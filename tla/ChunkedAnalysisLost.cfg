\* Two files in one chunk: one of the halves does not parse.
SPECIFICATION Spec
CONSTANTS
    MaxFiles = 2
    ChunkSize = 2
    MaxAttempts = 3
    GeminiAttempts = 2
    FailureThreshold = 5
    SuccessThreshold = 3
CHECK_DEADLOCK FALSE
INVARIANT EveryFileAccountedFor
