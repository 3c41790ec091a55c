\* Three invocations of the command, so that a login can start after another has
\* rotated the token and a third process is between two steps; three secrets.
SPECIFICATION CliSpec
CONSTANTS
    Commands = {c1, c2, c3}
    Tokens = {t1, t2, t3}
    NoSecret = NoSecret
    Torn = Torn
    NoScan = NoScan
SYMMETRY Symmetry
INVARIANTS
    LiveTokenNotLost
    ScanToldTruly
    ReportsAgree
