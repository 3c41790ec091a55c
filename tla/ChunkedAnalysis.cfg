\* One to three files in chunks of two, with smaller attempt and breaker
\* thresholds than the code's, which its four requests can reach.  The
\* analysis stops once it has answered.
SPECIFICATION FairSpec
CONSTANTS
    MaxFiles = 3
    ChunkSize = 2
    MaxAttempts = 2
    GeminiAttempts = 2
    FailureThreshold = 3
    SuccessThreshold = 2
CHECK_DEADLOCK FALSE
INVARIANTS
    MeetsContract
    OnlyFailedHalvesForgotten
PROPERTIES
    BreakerHolds
    AnalysisEnds
