\* One user, so that every request contends for the same rows; no symmetry,
\* which liveness checking does not allow.
SPECIFICATION FairSpec
CONSTANTS
    Users = {alice}
    RowId = {r1, r2}
    TokenId = {k1, k2}
    Txns = {t1, t2}
    Verifiers = {}
    NoRow = NoRow
    NoUser = NoUser
    NoToken = NoToken
PROPERTY RequestsFinish
