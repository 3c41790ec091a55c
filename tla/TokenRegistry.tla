---------------------------- MODULE TokenRegistry ----------------------------
(***************************************************************************)
(* The per-developer token registry (tokens/registry.py) as the portal,    *)
(* the admin panel and /scan/local drive it, over PostgreSQL at READ       *)
(* COMMITTED with the partial unique index of alembic 0001.                *)
(*                                                                         *)
(* Every request runs in a session of its own that commits at the end.  A  *)
(* request is split where another session's commit can come between: at    *)
(* its SELECT, at the flushed UPDATE, and at the INSERT with its COMMIT.   *)
(* Uncommitted writes are visible to nobody; they show as row locks.       *)
(*                                                                         *)
(* Abstractions: the primary key of a row stands for the secret whose hash *)
(* the row stores (suffixes are 32 random bytes); a token_id is fresh when *)
(* no row has it; the 30-day TTL is the status of a timer; timestamps and  *)
(* last_used_at, which nothing but a page reads, are left out.             *)
(***************************************************************************)
EXTENDS Naturals, FiniteSets

CONSTANTS
    Users,      \* users.email
    RowId,      \* primary keys of local_scan_tokens
    TokenId,    \* the "tok-<12 hex>" prefixes
    Txns,       \* request slots that write to the registry
    Verifiers,  \* request slots of /scan/local authentication
    NoRow,      \* a SELECT that found nothing
    NoUser,     \* a field not in use
    NoToken     \* a field not in use

ASSUME NullsAreNew ==
    NoRow \notin RowId /\ NoUser \notin Users /\ NoToken \notin TokenId

VARIABLES
    rows,    \* local_scan_tokens as committed
    active,  \* users.is_active
    txn,     \* the state of each writing request
    ver,     \* the state of each authentication
    audit    \* the audit events committed about each row

vars == <<rows, active, txn, ver, audit>>

(***************************************************************************)
(* Types                                                                   *)
(***************************************************************************)
Row == [token_id : TokenId \cup {NoToken}, user : Users \cup {NoUser},
        status : {"absent", "active", "revoked"},
        ttl : {"live", "expired", "never"}]

AbsentRow == [token_id |-> NoToken, user |-> NoUser,
              status |-> "absent", ttl |-> "live"]

Kinds == {"none", "portal", "cli", "force", "revoke"}

Txn == [pc : {"idle", "found", "chosen", "flushed", "revoking"},
        kind : Kinds, user : Users \cup {NoUser}, cur : RowId \cup {NoRow}]

IdleTxn == [pc |-> "idle", kind |-> "none", user |-> NoUser, cur |-> NoRow]

\* The row an authentication has matched (NoRow: none in progress), and
\* whether what was presented was already dead when it began.
Verification == [row : RowId \cup {NoRow}, barred : BOOLEAN]

NoVerification == [row |-> NoRow, barred |-> FALSE]

MintEvents == {"token_issued", "token_rotated"}
AuditEvents == MintEvents \cup {"token_revoked", "admin_force_rotate"}

TypeOK ==
    /\ rows \in [RowId -> Row]
    /\ active \in [Users -> BOOLEAN]
    /\ txn \in [Txns -> Txn]
    /\ ver \in [Verifiers -> Verification]
    /\ audit \in [RowId -> SUBSET AuditEvents]

(***************************************************************************)
(* The table and its locks                                                 *)
(***************************************************************************)
Exists(i) == rows[i].status # "absent"
Active(i) == rows[i].status = "active"

ActiveOfUser(u) == {i \in RowId : Active(i) /\ rows[i].user = u}
ActiveOfToken(k) == {i \in RowId : Active(i) /\ rows[i].token_id = k}

\* scalar_one_or_none() over S: no row, the row, and an exception for more.
OneOrNone(S, r) == \/ S = {} /\ r = NoRow
                   \/ S = {r}

\* t's UPDATE of row i waits for the session that updated i and is open.
RowLocked(i, t) == \E o \in Txns \ {t} : txn[o].pc = "flushed" /\ txn[o].cur = i

\* upsert_user's UPDATE of the users row is autoflushed by the next SELECT,
\* so the portal path holds that row until it commits.
UserLocked(u) == \E o \in Txns : txn[o].kind = "portal" /\ txn[o].user = u

\* Mutant of IndexAllows: alembic 0001 without its partial unique index.
IndexAllowsAnything(t) == TRUE

\* The partial unique index on (user_email) WHERE revoked_at IS NULL, as the
\* INSERT of t sees it: t's own revocation is already flushed.
IndexAllows(t) == ActiveOfUser(txn[t].user) \ {txn[t].cur} = {}

(***************************************************************************)
(* Initial states: an empty registry, or one that holds tokens issued      *)
(* before expires_at existed (NULL means unlimited).                       *)
(***************************************************************************)
LegacyRow == [token_id : TokenId, user : Users, status : {"active"}, ttl : {"never"}]

Init ==
    /\ rows \in [RowId -> {AbsentRow} \cup LegacyRow]
    /\ \A i, j \in RowId : i # j /\ Active(i) /\ Active(j) =>
          rows[i].user # rows[j].user /\ rows[i].token_id # rows[j].token_id
    /\ active = [u \in Users |-> TRUE]
    /\ txn = [t \in Txns |-> IdleTxn]
    /\ ver = [v \in Verifiers |-> NoVerification]
    /\ audit = [i \in RowId |-> IF Exists(i) THEN {"token_issued"} ELSE {}]

(***************************************************************************)
(* issue_or_rotate_for_user                                                *)
(***************************************************************************)

\* BOUND: a mint starts only while a primary key is left for it.
RoomToMint(t) ==
    Cardinality({i \in RowId : ~Exists(i)}) >
    Cardinality({o \in Txns \ {t} : txn[o].kind \in {"portal", "cli", "force"}})

\* The SELECT of the user's active row.
Choose(t, kind, u) ==
    /\ RoomToMint(t)
    /\ \E r \in RowId \cup {NoRow} :
        /\ OneOrNone(ActiveOfUser(u), r)
        /\ txn' = [txn EXCEPT ![t] =
                    [pc |-> "chosen", kind |-> kind, user |-> u, cur |-> r]]

\* POST /portal/tokens: upsert_user takes the users row, then the SELECT.
PortalIssue(t, u) ==
    /\ txn[t].pc = "idle"
    /\ ~UserLocked(u)
    /\ Choose(t, "portal", u)
    /\ UNCHANGED <<rows, active, ver, audit>>

\* POST /portal/cli/login/complete: the SELECT with no lock before it.
CliIssue(t, u) ==
    /\ txn[t].pc = "idle"
    /\ Choose(t, "cli", u)
    /\ UNCHANGED <<rows, active, ver, audit>>

\* force_rotate_by_token_id finds the owner by token_id, ...
ForceRotate(t, k) ==
    /\ txn[t].pc = "idle"
    /\ RoomToMint(t)
    /\ \E r \in RowId :
        /\ OneOrNone(ActiveOfToken(k), r)
        /\ txn' = [txn EXCEPT ![t] = [pc |-> "found", kind |-> "force",
                                      user |-> rows[r].user, cur |-> NoRow]]
    /\ UNCHANGED <<rows, active, ver, audit>>

\* ... then issue_or_rotate_for_user selects again, by e-mail.
ForceChoose(t) ==
    /\ txn[t].pc = "found"
    /\ Choose(t, "force", txn[t].user)
    /\ UNCHANGED <<rows, active, ver, audit>>

\* Rotation: the explicit flush of "UPDATE ... SET revoked_at WHERE id = cur".
FlushRevocation(t) ==
    /\ txn[t].pc = "chosen"
    /\ txn[t].cur # NoRow
    /\ ~RowLocked(txn[t].cur, t)
    /\ txn' = [txn EXCEPT ![t].pc = "flushed"]
    /\ UNCHANGED <<rows, active, ver, audit>>

ReadyToInsert(t) == \/ txn[t].pc = "flushed"
                    \/ txn[t].pc = "chosen" /\ txn[t].cur = NoRow

\* Mutant of MintEvent: a rotation is audited as a first issue.
MintEventOfFirstIssue(t) == "token_issued"

\* Mutant of MintEvent: an event that AuditEventType does not have.
MintEventUnknown(t) == "token_minted"

MintEvent(t) == IF txn[t].cur = NoRow THEN "token_issued" ELSE "token_rotated"

\* Mutant of MayUseTokenId: a drawn prefix is compared with live rows only.
MayUseRetiredTokenId(t, k) ==
    IF txn[t].cur = NoRow THEN ActiveOfToken(k) = {} ELSE k = rows[txn[t].cur].token_id

\* A rotation keeps the prefix of the row it read, a first issue draws one.
MayUseTokenId(t, k) ==
    IF txn[t].cur = NoRow THEN \A i \in RowId : rows[i].token_id # k
                          ELSE k = rows[txn[t].cur].token_id

\* INSERT of the new row with its audit event(s), then COMMIT.
CommitIssue(t) ==
    /\ ReadyToInsert(t)
    /\ IndexAllows(t)
    /\ \E i \in RowId, k \in TokenId :
        /\ ~Exists(i)
        /\ MayUseTokenId(t, k)
        /\ rows' = [j \in RowId |->
              IF j = i THEN [token_id |-> k, user |-> txn[t].user,
                             status |-> "active", ttl |-> "live"]
              ELSE IF j = txn[t].cur THEN [rows[j] EXCEPT !.status = "revoked"]
              ELSE rows[j]]
        /\ audit' = [audit EXCEPT ![i] = {MintEvent(t)} \cup
              (IF txn[t].kind = "force" THEN {"admin_force_rotate"} ELSE {})]
    /\ txn' = [txn EXCEPT ![t] = IdleTxn]
    /\ UNCHANGED <<active, ver>>

\* Mutant of IndexRejects: the IntegrityError is swallowed, the session stays.
IndexRejectionSwallowed(t) ==
    /\ ReadyToInsert(t)
    /\ ~IndexAllows(t)
    /\ UNCHANGED vars

\* IntegrityError: the session rolls back, its flushed revocation included.
IndexRejects(t) ==
    /\ ReadyToInsert(t)
    /\ ~IndexAllows(t)
    /\ txn' = [txn EXCEPT ![t] = IdleTxn]
    /\ UNCHANGED <<rows, active, ver, audit>>

(***************************************************************************)
(* revoke_active_for_user and revoke_by_token_id                           *)
(***************************************************************************)
StartRevoke(t, r) ==
    txn' = [txn EXCEPT ![t] = [pc |-> "revoking", kind |-> "revoke",
                               user |-> rows[r].user, cur |-> r]]

\* POST /portal/tokens/revoke and POST /admin/users/{email}/revoke-tokens.
RevokeOfUser(t, u) ==
    /\ txn[t].pc = "idle"
    /\ \E r \in RowId : OneOrNone(ActiveOfUser(u), r) /\ StartRevoke(t, r)
    /\ UNCHANGED <<rows, active, ver, audit>>

\* POST /admin/tokens/{token_id}/revoke.
RevokeOfToken(t, k) ==
    /\ txn[t].pc = "idle"
    /\ \E r \in RowId : OneOrNone(ActiveOfToken(k), r) /\ StartRevoke(t, r)
    /\ UNCHANGED <<rows, active, ver, audit>>

\* The UPDATE ... WHERE id = cur matches the row even if another session has
\* revoked it since the SELECT; the request reports success either way.
CommitRevoke(t) ==
    /\ txn[t].pc = "revoking"
    /\ ~RowLocked(txn[t].cur, t)
    /\ rows' = [rows EXCEPT ![txn[t].cur].status = "revoked"]
    /\ audit' = [audit EXCEPT ![txn[t].cur] = @ \cup {"token_revoked"}]
    /\ txn' = [txn EXCEPT ![t] = IdleTxn]
    /\ UNCHANGED <<active, ver>>

\* A request that dies (pool timeout, lost connection, crashed worker).
Abort(t) ==
    /\ txn[t].pc # "idle"
    /\ txn' = [txn EXCEPT ![t] = IdleTxn]
    /\ UNCHANGED <<rows, active, ver, audit>>

(***************************************************************************)
(* Account state and time                                                  *)
(***************************************************************************)
Deactivate(u) ==
    /\ ~UserLocked(u)
    /\ active' = [active EXCEPT ![u] = FALSE]
    /\ UNCHANGED <<rows, txn, ver, audit>>

\* Mutant of Reactivate: the user's revoked tokens come back as well.
ReactivateTokens(u) ==
    /\ active' = [active EXCEPT ![u] = TRUE]
    /\ rows' = [i \in RowId |-> IF Exists(i) /\ rows[i].user = u
                                THEN [rows[i] EXCEPT !.status = "active"] ELSE rows[i]]
    /\ UNCHANGED <<txn, ver, audit>>

\* A credential that was barred for its owner's sake is good again.
Reactivate(u) ==
    /\ ~UserLocked(u)
    /\ active' = [active EXCEPT ![u] = TRUE]
    /\ ver' = [v \in Verifiers |->
                IF ver[v].row # NoRow /\ rows[ver[v].row].user = u
                THEN [ver[v] EXCEPT !.barred = FALSE] ELSE ver[v]]
    /\ UNCHANGED <<rows, txn, audit>>

\* Thirty days pass; expires_at = NULL never does.
Expire(i) ==
    /\ Exists(i)
    /\ rows[i].ttl = "live"
    /\ rows' = [rows EXCEPT ![i].ttl = "expired"]
    /\ UNCHANGED <<active, txn, ver, audit>>

(***************************************************************************)
(* verify                                                                  *)
(***************************************************************************)

\* Mutant of SelectOutcome: the hash of the secret is not compared.
SelectOutcomeByPrefix(k, s) ==
    LET found == ActiveOfToken(k) IN
    IF Cardinality(found) > 1 THEN "error"
    ELSE IF found = {} THEN "unknown_token"
    ELSE IF \E i \in found : rows[i].ttl = "expired" THEN "expired"
    ELSE "matched"

\* What the first SELECT settles about prefix k with the secret of row s
\* (NoRow: a secret the registry never issued).
SelectOutcome(k, s) ==
    LET found == ActiveOfToken(k) IN
    IF Cardinality(found) > 1 THEN "error"
    ELSE IF found = {} THEN
        IF \E i \in RowId : rows[i].token_id = k THEN "revoked" ELSE "unknown_token"
    ELSE IF s \notin found THEN "bad_signature"
    ELSE IF rows[s].ttl = "expired" THEN "expired"
    ELSE "matched"

\* Revoked, past its TTL, or its owner deactivated.
Dead(s) == ~Active(s) \/ rows[s].ttl = "expired" \/ ~active[rows[s].user]

\* An authentication that fails here answers 401 (500 for "error"), changes
\* none of this state and is over; its scan_unauthorized event is left out.
VerifySelect(v, k, s) ==
    /\ ver[v].row = NoRow
    /\ s # NoRow => Exists(s) /\ rows[s].token_id = k
    /\ SelectOutcome(k, s) = "matched"
    /\ ver' = [ver EXCEPT ![v] =
                [row |-> CHOOSE i \in ActiveOfToken(k) : TRUE,
                 barred |-> s = NoRow \/ Dead(s)]]
    /\ UNCHANGED <<rows, active, txn, audit>>

\* The SELECT of the owner's is_active, and the answer.
Answers(v, outcome) ==
    /\ ver[v].row # NoRow
    /\ outcome = IF active[rows[ver[v].row].user] THEN "ok" ELSE "deactivated"
    /\ ver' = [ver EXCEPT ![v] = NoVerification]
    /\ UNCHANGED <<rows, active, txn, audit>>

VerifyUser(v) == \E outcome \in {"ok", "deactivated"} : Answers(v, outcome)

(***************************************************************************)
(* Specification                                                           *)
(***************************************************************************)
Progress(t) == \/ ForceChoose(t) \/ FlushRevocation(t) \/ CommitIssue(t)
               \/ IndexRejects(t) \/ CommitRevoke(t)

Request(t) ==
    \/ \E u \in Users : PortalIssue(t, u) \/ CliIssue(t, u) \/ RevokeOfUser(t, u)
    \/ \E k \in TokenId : ForceRotate(t, k) \/ RevokeOfToken(t, k)

Verify(v) ==
    \/ \E k \in TokenId, s \in RowId \cup {NoRow} : VerifySelect(v, k, s)
    \/ VerifyUser(v)

Next ==
    \/ \E t \in Txns : Request(t) \/ Progress(t) \/ Abort(t)
    \/ \E u \in Users : Deactivate(u) \/ Reactivate(u)
    \/ \E i \in RowId : Expire(i)
    \/ \E v \in Verifiers : Verify(v)

Spec == Init /\ [][Next]_vars

\* PostgreSQL serves lock waiters in order, so a session that waits is not
\* overtaken forever, and a worker runs its handler to the end.
FairSpec == Spec /\ \A t \in Txns : SF_vars(Progress(t))

(***************************************************************************)
(* Properties                                                              *)
(***************************************************************************)

\* verify and the issue and revoke paths call scalar_one_or_none, which raises
\* when two rows match: no user has two active rows, and, which no index
\* enforces, no token_id has two.
NeverAmbiguous ==
    \A i, j \in RowId : i # j /\ Active(i) /\ Active(j) =>
        rows[i].user # rows[j].user /\ rows[i].token_id # rows[j].token_id

\* A token_id names one person for ever: audit history by prefix never mixes
\* two users, whatever mints, rotations and revocations interleave.
PrefixHasOneOwner ==
    \A i, j \in RowId : Exists(i) /\ Exists(j) /\ rows[i].token_id = rows[j].token_id =>
        rows[i].user = rows[j].user

\* A secret that was dead when authentication began is never accepted: not a
\* rotated one, although its successor carries the same token_id, not an
\* expired one, and not one whose owner was deactivated (unless the owner was
\* reactivated while the check ran).
DeadTokenNeverAccepted ==
    [][\A v \in Verifiers : Answers(v, "ok") => ~ver[v].barred]_vars

\* The audit trail accounts for the table: each row was minted by exactly one
\* event, a rotation has a revoked predecessor under its prefix, and a revoked
\* row has its own revocation event or a rotation that replaced it.
AuditExplainsTable ==
    \A i \in RowId :
        /\ Exists(i) <=> \E e \in MintEvents : audit[i] \cap MintEvents = {e}
        /\ "token_rotated" \in audit[i] =>
              \E j \in RowId \ {i} : /\ rows[j].status = "revoked"
                                     /\ rows[j].token_id = rows[i].token_id
        /\ rows[i].status = "revoked" =>
              \/ "token_revoked" \in audit[i]
              \/ \E j \in RowId \ {i} : /\ "token_rotated" \in audit[j]
                                        /\ rows[j].token_id = rows[i].token_id

\* What the registry promises, whatever its requests interleave: at most one
\* live token per user, and a token that died never lives again.
Lease == INSTANCE TokenLease WITH owner <- [i \in RowId |-> rows[i].user],
                                  live <- {i \in RowId : Active(i)}
RefinesLease == Lease!Spec

\* Row locks, the users-row lock and the unique index never leave a request
\* hanging: every request that writes tokens is answered.
RequestsFinish ==
    \A t \in Txns : txn[t].pc # "idle" ~> txn[t].pc = "idle"

\* "Admin path: revoke any user's active token by token_id." and the page's
\* "Token {token_id} revoked.": when a revocation that found a row commits and
\* reports success, its token_id has no active row.
RevokeTakesEffect ==
    [][\A t \in Txns : CommitRevoke(t) =>
          \A i \in RowId : rows[i].token_id = rows[txn[t].cur].token_id =>
              rows'[i].status # "active"]_vars
==============================================================================
