\* Two files, two hits (one of a vendor shape), one finding of the first pass
\* and one of the scanners, both clients.  A scan stops when it has its result.
SPECIFICATION FairSpec
CONSTANTS
    File = {f1, f2}
    Hit = {shape, entropy}
    AutoVerified = {shape}
    LLMFinding = {l1}
    ScannerFinding = {s1}
    Clients = {"claude", "gemini"}
CHECK_DEADLOCK FALSE
INVARIANTS
    BlockIsJustified
    PassIsClean
    NothingDroppedSilently
    UnscannedIsTrue
PROPERTY ScanEnds
