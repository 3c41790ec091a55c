------------------------------ MODULE TokenLease ------------------------------
(***************************************************************************)
(* What the token registry promises its users, with no sessions, rows to   *)
(* lock or prefixes: each secret is minted once, for one person; minting   *)
(* ends that person's previous token; revoking ends a token; a token that  *)
(* ended is dead for good.                                                 *)
(***************************************************************************)
CONSTANTS Users, RowId, NoUser

VARIABLES owner,  \* whom each secret was minted for, NoUser before that
          live    \* the secrets that authenticate

vars == <<owner, live>>

OneLivePerUser == \A i, j \in live : owner[i] = owner[j] => i = j

Init == /\ owner \in [RowId -> Users \cup {NoUser}]
        /\ live = {i \in RowId : owner[i] # NoUser}
        /\ OneLivePerUser

Mint(i, u) ==
    /\ owner[i] = NoUser
    /\ owner' = [owner EXCEPT ![i] = u]
    /\ live' = {j \in live : owner[j] # u} \cup {i}

Revoke(i) ==
    /\ i \in live
    /\ live' = live \ {i}
    /\ UNCHANGED owner

Next == \E i \in RowId : Revoke(i) \/ \E u \in Users : Mint(i, u)

Spec == Init /\ [][Next]_vars
==============================================================================
