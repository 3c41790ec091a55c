------------------------------- MODULE Accounts -------------------------------
(***************************************************************************)
(* Accounts, roles and portal sessions: the rows of users, who may create   *)
(* and change them (tokens/auth.py, tokens/portal.py, tokens/okta.py,       *)
(* tokens/admin_panel.py), and the signed cookies of browsers.              *)
(*                                                                         *)
(* A client slot is a browser, or another client, with at most one request  *)
(* open.  Requests are cut where another session's commit can come between  *)
(* two statements that matter: between the check of the account and the     *)
(* role check, between the role check and the commit, between a SELECT that *)
(* found no row and its INSERT, and between a commit and the signature of   *)
(* the cookie.  Passwords and Okta's answers are right or the request fails *)
(* at once, so a failed login has no step.  ADMIN_LOCAL_BYPASS is off.      *)
(***************************************************************************)
EXTENDS Naturals

CONSTANTS
    Users,          \* e-mail addresses
    Protected,      \* PROTECTED_ADMIN_EMAILS
    Subs,           \* Okta user ids (the sub claim)
    Slots,          \* clients
    TicksPerSecond, \* how fine the clock of the database is
    MaxTime,        \* BOUND: last tick
    NoUser, NoSub, NoCookie

ASSUME ProtectedAreUsers == Protected \subseteq Users
ASSUME TimeBounds == TicksPerSecond \in Nat \ {0} /\ MaxTime \in Nat \ {0}
ASSUME NullsAreNew == NoUser \notin Users /\ NoSub \notin Subs

VARIABLES
    users,  \* committed rows of users, by e-mail address
    cookie, \* the portal_session cookie of each client
    req,    \* the open request of each client
    clock   \* now, in ticks; 0 stands for NULL in last_reactivation_at

vars == <<users, cookie, req, clock>>

(***************************************************************************)
(* Types                                                                   *)
(***************************************************************************)
Time == 0..MaxTime

Row == [role : {"admin", "user"}, active : BOOLEAN, provider : {"local", "okta"},
        must : BOOLEAN, sub : Subs \cup {NoSub}, since : Time]

\* stamp: session_issued_at; at: when the cookie was really signed.
Cookie == [user : Users, stamp : 0..(MaxTime + TicksPerSecond), at : Time]

Ops == {"promote", "demote", "deactivate", "reactivate", "reset"}

\* by: what identified the caller, the cookie or the gateway's X-Userinfo.
Request ==
    [pc : {"idle"}]
    \cup [pc : {"jit"}, user : Users, group : BOOLEAN]
    \cup [pc : {"in", "inReset"}, user : Users, by : {"cookie", "gateway"}]
    \cup [pc : {"acting"}, op : Ops, target : Users]
    \cup [pc : {"inserting", "signing"}, user : Users]
    \cup [pc : {"okta"}, sub : Subs, email : Users, found : Users \cup {NoUser}]

ASSUME NullsAreNoValues == NoUser \notin Row /\ NoCookie \notin Cookie

TypeOK ==
    /\ users \in [Users -> Row \cup {NoUser}]
    /\ cookie \in [Slots -> Cookie \cup {NoCookie}]
    /\ req \in [Slots -> Request]
    /\ clock \in 1..MaxTime

Idle == [pc |-> "idle"]
In(u, by) == [pc |-> "in", user |-> u, by |-> by]
InReset(u, by) == [pc |-> "inReset", user |-> u, by |-> by]
Signing(u) == [pc |-> "signing", user |-> u]

Exists(u) == users[u] # NoUser

NewRow(role, provider, sub) ==
    [role |-> role, active |-> TRUE, provider |-> provider, must |-> FALSE,
     sub |-> sub, since |-> 0]

Init ==
    /\ users = [u \in Users |-> NoUser]
    /\ cookie = [s \in Slots |-> NoCookie]
    /\ req = [s \in Slots |-> Idle]
    /\ clock = 1

Goto(s, r) == req' = [req EXCEPT ![s] = r]

Tick ==
    /\ clock < MaxTime
    /\ clock' = clock + 1
    /\ UNCHANGED <<users, cookie, req>>

-------------------------------------------------------------------------------
(***************************************************************************)
(* Sessions                                                                *)
(***************************************************************************)

\* Mutant of Stamp: the time is rounded to the next second.
StampRoundedUp(t) == t - (t % TicksPerSecond) + TicksPerSecond

\* int(time.time()), in ticks.
Stamp(t) == t - (t % TicksPerSecond)

\* sign_portal_session, after the commit of a login or of a new password.
Sign(s) ==
    /\ req[s].pc = "signing"
    /\ cookie' = [cookie EXCEPT ![s] = [user |-> req[s].user, stamp |-> Stamp(clock), at |-> clock]]
    /\ Goto(s, Idle)
    /\ UNCHANGED <<users, clock>>

\* The cookie is deleted, or its twelve hours are over.
Logout(s) ==
    /\ req[s].pc = "idle" /\ cookie[s] # NoCookie
    /\ cookie' = [cookie EXCEPT ![s] = NoCookie]
    /\ UNCHANGED <<users, req, clock>>

\* _check_account_active for a row that is there; a gateway identity has no stamp.
Admitted(s, u, by) ==
    /\ users[u].active
    /\ by = "cookie" => cookie[s].stamp >= users[u].since
    /\ \/ ~users[u].must /\ Goto(s, In(u, by))
       \/ users[u].must /\ Goto(s, InReset(u, by))

EnterByCookie(s) ==
    /\ req[s].pc = "idle" /\ cookie[s] # NoCookie
    /\ LET u == cookie[s].user IN Exists(u) /\ Admitted(s, u, "cookie")
    /\ UNCHANGED <<users, cookie, clock>>

\* group: ADMIN_GROUP_NAME is among the groups the gateway names.
EnterByGateway(s, u, group) ==
    /\ req[s].pc = "idle" /\ cookie[s] = NoCookie
    /\ \/ Exists(u) /\ Admitted(s, u, "gateway")
       \/ ~Exists(u) /\ Goto(s, [pc |-> "jit", user |-> u, group |-> group])
    /\ UNCHANGED <<users, cookie, clock>>

-------------------------------------------------------------------------------
(***************************************************************************)
(* Creating accounts                                                       *)
(***************************************************************************)
InitialRole(u) == IF u \in Protected THEN "admin" ELSE "user"

\* An INSERT: the primary key and the unique okta_user_id hold, or it fails.
CanInsert(u, sub) ==
    ~Exists(u) /\ (sub # NoSub => \A v \in Users : Exists(v) => users[v].sub # sub)

\* _jit_provision_user: a collision is swallowed, and the caller is let in.
Provision(s) ==
    /\ req[s].pc = "jit"
    /\ LET u == req[s].user
           role == IF req[s].group THEN "admin" ELSE InitialRole(u)
       IN /\ users' = IF CanInsert(u, NoSub)
                      THEN [users EXCEPT ![u] = NewRow(role, "okta", NoSub)] ELSE users
          /\ Goto(s, In(u, "gateway"))
    /\ UNCHANGED <<cookie, clock>>

\* portal_login_submit: the row as the second SELECT finds it.
Login(s, u) ==
    /\ req[s].pc = "idle"
    /\ \/ ~Exists(u) /\ Goto(s, [pc |-> "inserting", user |-> u])
       \/ Exists(u) /\ users[u].active /\ Goto(s, Signing(u))
    /\ UNCHANGED <<users, cookie, clock>>

\* The INSERT of a first login; a collision answers 500.
InsertLogin(s) ==
    /\ req[s].pc = "inserting"
    /\ LET u == req[s].user
       IN IF CanInsert(u, NoSub)
          THEN /\ users' = [users EXCEPT ![u] = NewRow(InitialRole(u), "local", NoSub)]
               /\ Goto(s, Signing(u))
          ELSE /\ users' = users
               /\ Goto(s, Idle)
    /\ UNCHANGED <<cookie, clock>>

\* Mutant of MayTakeByEmail: the check for a local account is missing.
MayTakeByEmailAlways(u) == TRUE

\* A row found by e-mail alone may be taken if Okta (or the gateway) made it.
MayTakeByEmail(u) == users[u].provider = "okta"

\* _provision_okta_user: by sub, then by e-mail; a local account answers 409.
OktaCallback(s, sub, email) ==
    /\ req[s].pc = "idle"
    /\ LET known == {u \in Users : Exists(u) /\ users[u].sub = sub}
           Found(u) == Goto(s, [pc |-> "okta", sub |-> sub, email |-> email, found |-> u])
       IN \/ \E u \in known : Found(u)
          \/ known = {} /\ Exists(email) /\ MayTakeByEmail(email) /\ Found(email)
          \/ known = {} /\ ~Exists(email) /\ Found(NoUser)
    /\ UNCHANGED <<users, cookie, clock>>

\* The UPDATE of the row found, or the INSERT; a collision answers 500.  The
\* callback never looks at is_active: the cookie it signs does not get past
\* the check of the account.
OktaLink(s) ==
    /\ req[s].pc = "okta" /\ req[s].found # NoUser
    /\ LET u == req[s].found
           sub == req[s].sub
       IN IF \A v \in Users \ {u} : Exists(v) => users[v].sub # sub
          THEN /\ users' = [users EXCEPT ![u].sub = sub, ![u].provider = "okta"]
               /\ Goto(s, Signing(u))
          ELSE users' = users /\ Goto(s, Idle)
    /\ UNCHANGED <<cookie, clock>>

OktaInsert(s) ==
    /\ req[s].pc = "okta" /\ req[s].found = NoUser
    /\ LET u == req[s].email
           sub == req[s].sub
       IN IF CanInsert(u, sub)
          THEN /\ users' = [users EXCEPT ![u] = NewRow(InitialRole(u), "okta", sub)]
               /\ Goto(s, Signing(u))
          ELSE users' = users /\ Goto(s, Idle)
    /\ UNCHANGED <<cookie, clock>>

\* upsert_user, the first statement of the portal's issue of a token: it would
\* give an absent user, even a protected one, the role of a user.
Upsert(s) ==
    /\ req[s].pc = "in"
    /\ LET u == req[s].user
       IN users' = IF Exists(u) THEN users
                   ELSE [users EXCEPT ![u] = NewRow("user", "local", NoSub)]
    /\ Goto(s, Idle)
    /\ UNCHANGED <<cookie, clock>>

-------------------------------------------------------------------------------
(***************************************************************************)
(* Requests of those who were let in                                       *)
(***************************************************************************)

\* A page that changes nothing.
Leave(s) ==
    /\ req[s].pc \in {"in", "inReset"}
    /\ Goto(s, Idle)
    /\ UNCHANGED <<users, cookie, clock>>

\* portal_change_password_post, the only request of those who must.
ChangePassword(s) ==
    /\ req[s].pc \in {"in", "inReset"} /\ Exists(req[s].user)
    /\ users' = [users EXCEPT ![req[s].user].must = FALSE]
    /\ Goto(s, Signing(req[s].user))
    /\ UNCHANGED <<cookie, clock>>

\* Mutant of RefusedForProtected: deactivation forgets the guard.
RefusedForProtectedDemotion == {"demote"}

\* Operations _assert_not_protected refuses for a protected account.
RefusedForProtected == {"demote", "deactivate"}

\* The role SELECT of require_admin, and the guards of the handler after it.
Authorize(s, op, target) ==
    /\ req[s].pc = "in"
    /\ Exists(req[s].user) /\ users[req[s].user].role = "admin"
    /\ op = "demote" => target # req[s].user
    /\ op \in RefusedForProtected => target \notin Protected
    /\ Goto(s, [pc |-> "acting", op |-> op, target |-> target])
    /\ UNCHANGED <<users, cookie, clock>>

\* last_reactivation_at of a reactivation now.
ReactivatedAt == clock

\* What each operation writes; only what differs from the row read goes into
\* the UPDATE, so reading and writing are one step without loss.
Promoted(row) == [row EXCEPT !.role = "admin"]
Demoted(row) == [row EXCEPT !.role = "user"]
Deactivated(row) == [row EXCEPT !.active = FALSE]
Reactivated(row) == [row EXCEPT !.active = TRUE, !.since = ReactivatedAt]
MustReset(row) == IF row.provider = "local" THEN [row EXCEPT !.must = TRUE] ELSE row

Changed(row, op) ==
    [promote |-> Promoted(row), demote |-> Demoted(row), deactivate |-> Deactivated(row),
     reactivate |-> Reactivated(row), reset |-> MustReset(row)][op]

\* The SELECT of the target (404 without one) and the commit.
Act(s) ==
    /\ req[s].pc = "acting"
    /\ LET u == req[s].target
       IN users' = IF Exists(u) THEN [users EXCEPT ![u] = Changed(@, req[s].op)] ELSE users
    /\ Goto(s, Idle)
    /\ UNCHANGED <<cookie, clock>>

Create(s) ==
    \/ Provision(s) \/ InsertLogin(s) \/ OktaLink(s) \/ OktaInsert(s) \/ Upsert(s)
    \/ \E u \in Users : Login(s, u)
    \/ \E sub \in Subs, u \in Users : OktaCallback(s, sub, u)

Browse(s) ==
    \/ Sign(s) \/ Logout(s) \/ EnterByCookie(s)
    \/ \E u \in Users, group \in BOOLEAN : EnterByGateway(s, u, group)
    \/ Leave(s)

Administer(s) ==
    \/ ChangePassword(s) \/ Act(s)
    \/ \E op \in Ops, target \in Users : Authorize(s, op, target)

Next == Tick \/ \E s \in Slots : Create(s) \/ Browse(s) \/ Administer(s)

Spec == Init /\ [][Next]_vars

-------------------------------------------------------------------------------
(***************************************************************************)
(* Properties                                                              *)
(***************************************************************************)

\* A protected super-admin stays an active admin: no way to create the account,
\* no race between two ways, and no admin can leave it with less.  So as soon as
\* one protected account exists, the admin panel cannot be locked out.
ProtectedStayAdmins ==
    \A u \in Protected : Exists(u) => users[u].role = "admin" /\ users[u].active

\* An account made with a password is never taken over by an Okta login with
\* the same address, nor the reverse, and no creation replaces an account.
ProviderNeverChanges ==
    [][\A u \in Users : Exists(u) => Exists(u)' /\ users'[u].provider = users[u].provider]_vars

LetIn(s) == req'[s].pc \in {"in", "inReset"} /\ req'[s] # req[s]

\* A session signed before an account was last reactivated is never let in
\* again, although the cookie is stamped in seconds and the row is not.
OldSessionsStayOut ==
    [][\A s \in Slots : LetIn(s) /\ req'[s].by = "cookie"
            => cookie[s].at >= users[cookie[s].user].since]_vars

\* What "Blocks self-demotion to prevent admin lockout" is for: a demotion
\* leaves an admin.
DemotionLeavesAnAdmin ==
    [][(\E u \in Users : Exists(u) /\ Exists(u)' /\ users[u].role = "admin" /\ users'[u].role = "user")
       => \E u \in Users : Exists(u)' /\ users'[u].role = "admin"]_vars
===============================================================================
