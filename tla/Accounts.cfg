\* A protected address and an ordinary one, one person at Okta, two clients,
\* two instants, the first in the middle of a second.
SPECIFICATION Spec
CONSTANTS
    Users = {root, ann}
    Protected = {root}
    Subs = {p}
    Slots = {s1, s2}
    TicksPerSecond = 2
    MaxTime = 2
    NoUser = NoUser
    NoSub = NoSub
    NoCookie = NoCookie
SYMMETRY Symmetry
INVARIANTS
    ProtectedStayAdmins
PROPERTIES
    ProviderNeverChanges
    OldSessionsStayOut
