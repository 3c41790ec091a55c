\* Two scans with two adapters each on two slots: the fewest calls of which one
\* queues while a slot is free and another has been granted its own.  The
\* longest report is one piece more than a read and the pipe take.  It stops
\* when both passes are over.
SPECIFICATION FairSpec
CONSTANTS
    Scans = {s1, s2}
    Adapters = {a1, a2}
    Slots = 2
    MaxPieces = 3
    Capacity = 1
CHECK_DEADLOCK FALSE
INVARIANTS
    SlotsConserved
    SubprocessesContained
PROPERTY Layer1Ends
