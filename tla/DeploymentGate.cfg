\* Two jobs, so that one can leave the cache to the other; two keys, so that one
\* can take over from the other; one save of the settings.
SPECIFICATION Spec
CONSTANTS
    Jobs = {j1, j2}
    Keys = {k1, k2}
    Static = Static
    MaxSaves = 1
SYMMETRY Symmetry
CHECK_DEADLOCK FALSE
INVARIANTS
    MisbookedOnlyByChange
    BlockedDeploysOnlyByBypass
PROPERTIES
    DoorFollowsTheKeys
