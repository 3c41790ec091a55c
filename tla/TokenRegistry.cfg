\* Two users, two writing requests and one authentication over three rows.
SPECIFICATION Spec
CONSTANTS
    Users = {alice, bob}
    RowId = {r1, r2, r3}
    TokenId = {k1, k2, k3}
    Txns = {t1, t2}
    Verifiers = {v1}
    NoRow = NoRow
    NoUser = NoUser
    NoToken = NoToken
SYMMETRY Symmetry
INVARIANTS
    TypeOK
    NeverAmbiguous
    PrefixHasOneOwner
    AuditExplainsTable
PROPERTIES
    RefinesLease
    DeadTokenNeverAccepted
