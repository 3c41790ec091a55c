\* Four local requests on two slots beside one CI request, all of one user in
\* one month: the fewest with which a newcomer queues beside a free slot.  The
\* process stops once every request is answered.
SPECIFICATION FairSpec
CONSTANTS
    LocalScans = {l1, l2, l3, l4}
    CiScans = {c1}
    Keys = {k1}
    Slots = 2
CHECK_DEADLOCK FALSE
INVARIANTS
    PoolIsSound
    RecordedIffReported
    MonthlyNeverOvercounts
PROPERTY ArrivedAnswered
