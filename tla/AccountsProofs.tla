---------------------------- MODULE AccountsProofs ----------------------------
(***************************************************************************)
(* Theorems about Accounts, for every set of addresses, protected or not,   *)
(* every set of Okta identities and clients, and every grain of the clock.  *)
(***************************************************************************)
EXTENDS Accounts, TLAPS

\* Whoever was let in has a row.
SignedInExist == \A s \in Slots : req[s].pc \in {"in", "inReset"} => Exists(req[s].user)

\* A request that was authorized for what protected accounts are spared is not
\* about a protected account.
ProtectedSpared ==
    \A s \in Slots : req[s].pc = "acting" /\ req[s].op \in RefusedForProtected
        => req[s].target \notin Protected

\* Only a row that Okta may use has an Okta identity.
SubsAreOkta == \A u \in Users : Exists(u) /\ users[u].sub # NoSub => users[u].provider = "okta"

\* The row an Okta login found is one it may use, and still there.
FoundAtOkta ==
    \A s \in Slots : req[s].pc = "okta" /\ req[s].found # NoUser
        => Exists(req[s].found) /\ users[req[s].found].provider = "okta"

\* No cookie is stamped later than it was signed.
StampsPrecede == \A s \in Slots : cookie[s] # NoCookie => cookie[s].stamp <= cookie[s].at

IInv == /\ TypeOK
        /\ SignedInExist
        /\ ProtectedSpared
        /\ SubsAreOkta
        /\ FoundAtOkta
        /\ StampsPrecede
        /\ ProtectedStayAdmins

-------------------------------------------------------------------------------
(***************************************************************************)
(* Rows and stamps                                                         *)
(***************************************************************************)
LEMMA NewRowIsRow ==
    ASSUME NEW role \in {"admin", "user"}, NEW provider \in {"local", "okta"},
           NEW sub \in Subs \cup {NoSub}
    PROVE  /\ NewRow(role, provider, sub) \in Row
           /\ NewRow(role, provider, sub).role = role
           /\ NewRow(role, provider, sub).active
           /\ NewRow(role, provider, sub).provider = provider
           /\ NewRow(role, provider, sub).sub = sub
BY TimeBounds DEF NewRow, Row, Time

\* An operation of the admin panel leaves who may use the row alone; only a
\* demotion takes the role away and only a deactivation the access.
LEMMA ChangedIsRow ==
    ASSUME NEW row \in Row, NEW op \in Ops, clock \in 1..MaxTime
    PROVE  /\ Changed(row, op) \in Row
           /\ Changed(row, op).provider = row.provider
           /\ Changed(row, op).sub = row.sub
           /\ op # "demote" /\ row.role = "admin" => Changed(row, op).role = "admin"
           /\ op # "deactivate" /\ row.active => Changed(row, op).active
<1>1. CASE op = "promote"
  BY <1>1, TimeBounds DEF Changed, Promoted, Row
<1>2. CASE op = "demote"
  BY <1>2, TimeBounds DEF Changed, Demoted, Row
<1>3. CASE op = "deactivate"
  BY <1>3, TimeBounds DEF Changed, Deactivated, Row
<1>4. CASE op = "reactivate"
  <2>1. clock \in Time
    BY TimeBounds DEF Time
  <2>2. Changed(row, op) = [row EXCEPT !.active = TRUE, !.since = clock]
    BY <1>4 DEF Changed, Reactivated, ReactivatedAt
  <2>3. QED
    BY <1>4, <2>1, <2>2 DEF Row
<1>5. CASE op = "reset"
  BY <1>5, TimeBounds DEF Changed, MustReset, Row
<1>6. QED
  BY <1>1, <1>2, <1>3, <1>4, <1>5 DEF Ops

\* int() rounds down.
LEMMA StampRoundsDown ==
    ASSUME NEW t \in Nat
    PROVE  Stamp(t) \in Nat /\ Stamp(t) <= t
<1>1. t % TicksPerSecond \in 0..(TicksPerSecond - 1)
  BY TimeBounds
<1>2. t = TicksPerSecond * (t \div TicksPerSecond) + (t % TicksPerSecond)
  BY TimeBounds
<1>3. t \div TicksPerSecond \in Nat
  BY TimeBounds
<1>4. TicksPerSecond * (t \div TicksPerSecond) \in Nat
  BY <1>3, TimeBounds
<1>5. QED
  BY <1>1, <1>2, <1>4, TimeBounds DEF Stamp

-------------------------------------------------------------------------------
(***************************************************************************)
(* What every step owes: to the rows, to the cookies, and to the request it *)
(* moves.                                                                   *)
(***************************************************************************)
RowsKept == \A u \in Users : Exists(u) => Exists(u)' /\ users'[u].provider = users[u].provider

RowsSound == /\ users' \in [Users -> Row \cup {NoUser}]
             /\ RowsKept
             /\ ProtectedStayAdmins'
             /\ SubsAreOkta'

CookiesSound == cookie' \in [Slots -> Cookie \cup {NoCookie}] /\ StampsPrecede'

RequestSound(r) ==
    /\ r \in Request
    /\ r.pc \in {"in", "inReset"} => users'[r.user] # NoUser
    /\ r.pc = "acting" /\ r.op \in RefusedForProtected => r.target \notin Protected
    /\ r.pc = "okta" /\ r.found # NoUser
          => users'[r.found] # NoUser /\ users'[r.found].provider = "okta"

LEMMA InitEstablishesIInv == Init => IInv
<1> SUFFICES ASSUME Init PROVE IInv
  OBVIOUS
<1>1. Idle \in Request /\ Idle.pc = "idle"
  BY DEF Idle, Request
<1>2. 1 \in 1..MaxTime
  BY TimeBounds
<1>3. TypeOK
  BY <1>1, <1>2 DEF Init, TypeOK
<1>4. SignedInExist /\ ProtectedSpared /\ FoundAtOkta
  BY <1>1 DEF Init, SignedInExist, ProtectedSpared, FoundAtOkta
<1>5. SubsAreOkta /\ StampsPrecede /\ ProtectedStayAdmins
  BY ProtectedAreUsers DEF Init, SubsAreOkta, StampsPrecede, ProtectedStayAdmins, Exists
<1>6. QED
  BY <1>3, <1>4, <1>5 DEF IInv

\* A step that leaves the table alone is sound for it, and one that leaves the
\* cookies alone for them.
LEMMA RowsUnchanged == ASSUME IInv, users' = users PROVE RowsSound
BY DEF IInv, TypeOK, RowsSound, RowsKept, ProtectedStayAdmins, SubsAreOkta, Exists

LEMMA CookiesUnchanged == ASSUME IInv, cookie' = cookie PROVE CookiesSound
BY DEF IInv, TypeOK, CookiesSound, StampsPrecede

\* One row is inserted or updated.
LEMMA OneRow ==
    ASSUME IInv, NEW u \in Users, NEW row \in Row,
           users' = [users EXCEPT ![u] = row],
           Exists(u) => row.provider = users[u].provider,
           u \in Protected => row.role = "admin" /\ row.active,
           row.sub # NoSub => row.provider = "okta"
    PROVE  RowsSound /\ users'[u] = row /\ users'[u] # NoUser
<1>1. users \in [Users -> Row \cup {NoUser}]
  BY DEF IInv, TypeOK
<1>2. users' \in [Users -> Row \cup {NoUser}] /\ users'[u] = row /\ row # NoUser
  BY <1>1, NullsAreNoValues
<1>3. \A v \in Users \ {u} : users'[v] = users[v]
  BY <1>1
<1>4. RowsKept
  BY <1>2, <1>3 DEF RowsKept, Exists
<1>5. ProtectedStayAdmins'
  BY <1>2, <1>3, ProtectedAreUsers DEF IInv, ProtectedStayAdmins, Exists
<1>6. SubsAreOkta'
  BY <1>2, <1>3 DEF IInv, SubsAreOkta, Exists
<1>7. QED
  BY <1>2, <1>4, <1>5, <1>6 DEF RowsSound

\* A request of client s goes to r.
LEMMA OneRequest ==
    ASSUME IInv, NEW s \in Slots, NEW r, Goto(s, r), RequestSound(r),
           RowsSound, CookiesSound, clock' = clock
    PROVE  IInv' /\ RowsKept
<1>1. req \in [Slots -> Request]
  BY DEF IInv, TypeOK
<1>2. req' \in [Slots -> Request] /\ req'[s] = r /\ \A t \in Slots \ {s} : req'[t] = req[t]
  BY <1>1 DEF Goto, RequestSound
<1>3. TypeOK'
  BY <1>2 DEF IInv, TypeOK, RowsSound, CookiesSound
<1>4. SignedInExist'
  <2> SUFFICES ASSUME NEW t \in Slots, req'[t].pc \in {"in", "inReset"}
               PROVE  users'[req'[t].user] # NoUser
    BY DEF SignedInExist, Exists
  <2>1. CASE t = s
    BY <1>2, <2>1 DEF RequestSound
  <2>2. CASE t # s
    <3>1. req'[t] = req[t] /\ req[t] \in Request
      BY <1>1, <1>2, <2>2
    <3>2. req[t].user \in Users
      BY <3>1 DEF Request
    <3>3. Exists(req[t].user)
      BY <3>1 DEF IInv, SignedInExist
    <3>4. QED
      BY <3>1, <3>2, <3>3 DEF RowsSound, RowsKept, Exists
  <2>3. QED
    BY <2>1, <2>2
<1>5. ProtectedSpared'
  BY <1>2 DEF IInv, ProtectedSpared, RequestSound, RefusedForProtected
<1>6. FoundAtOkta'
  <2> SUFFICES ASSUME NEW t \in Slots, req'[t].pc = "okta", req'[t].found # NoUser
               PROVE  users'[req'[t].found] # NoUser /\ users'[req'[t].found].provider = "okta"
    BY DEF FoundAtOkta, Exists
  <2>1. CASE t = s
    BY <1>2, <2>1 DEF RequestSound
  <2>2. CASE t # s
    <3>1. req'[t] = req[t] /\ req[t] \in Request
      BY <1>1, <1>2, <2>2
    <3>2. req[t].found \in Users
      BY <3>1 DEF Request
    <3>3. Exists(req[t].found) /\ users[req[t].found].provider = "okta"
      BY <3>1 DEF IInv, FoundAtOkta
    <3>4. QED
      BY <3>1, <3>2, <3>3 DEF RowsSound, RowsKept, Exists
  <2>3. QED
    BY <2>1, <2>2
<1>7. QED
  BY <1>3, <1>4, <1>5, <1>6 DEF IInv, RowsSound, CookiesSound

(***************************************************************************)
(* The requests a step can leave behind                                    *)
(***************************************************************************)
LEMMA IdleIsSound == RequestSound(Idle)
BY DEF RequestSound, Idle, Request

LEMMA SigningIsSound == ASSUME NEW u \in Users PROVE RequestSound(Signing(u))
BY DEF RequestSound, Signing, Request

LEMMA InIsSound ==
    ASSUME NEW u \in Users, NEW by \in {"cookie", "gateway"}, users'[u] # NoUser
    PROVE  /\ RequestSound(In(u, by)) /\ In(u, by).by = by
           /\ RequestSound(InReset(u, by)) /\ InReset(u, by).by = by
BY DEF RequestSound, In, InReset, Request

-------------------------------------------------------------------------------
(***************************************************************************)
(* Every step preserves the invariant and keeps the rows.                  *)
(***************************************************************************)
LEMMA TickStep == ASSUME IInv, Tick PROVE IInv' /\ RowsKept
<1>1. UNCHANGED <<users, cookie, req>> /\ clock' \in 1..MaxTime
  BY TimeBounds DEF Tick, IInv, TypeOK
<1>2. TypeOK' /\ SignedInExist' /\ ProtectedSpared' /\ FoundAtOkta'
  BY <1>1 DEF IInv, TypeOK, SignedInExist, ProtectedSpared, FoundAtOkta, Exists, RefusedForProtected
<1>3. RowsSound /\ CookiesSound
  BY <1>1, RowsUnchanged, CookiesUnchanged
<1>4. QED
  BY <1>2, <1>3 DEF IInv, RowsSound, CookiesSound

LEMMA BrowseStep ==
    ASSUME IInv, NEW s \in Slots, Browse(s)
    PROVE  IInv' /\ RowsKept
<1>1. req[s] \in Request /\ cookie[s] \in Cookie \cup {NoCookie} /\ clock' = clock
      /\ users' = users /\ RowsSound
  BY RowsUnchanged DEF IInv, TypeOK, Browse, Sign, Logout, EnterByCookie, EnterByGateway, Leave
<1>2. CASE Sign(s)
  <2> DEFINE new == [user |-> req[s].user, stamp |-> Stamp(clock), at |-> clock]
  <2>1. req[s].user \in Users
    BY <1>1, <1>2 DEF Sign, Request
  <2>2. clock \in 1..MaxTime /\ Stamp(clock) \in Nat /\ Stamp(clock) <= clock
    BY StampRoundsDown, TimeBounds DEF IInv, TypeOK
  <2>3. new \in Cookie
    <3>1. clock \in Time /\ Stamp(clock) \in 0..(MaxTime + TicksPerSecond)
      BY <2>2, TimeBounds DEF Time
    <3>2. QED
      BY <2>1, <3>1 DEF Cookie
  <2>4. cookie' = [cookie EXCEPT ![s] = new]
    BY <1>2 DEF Sign
  <2>5. CookiesSound
    BY <2>2, <2>3, <2>4 DEF CookiesSound, IInv, TypeOK, StampsPrecede
  <2>6. QED
    BY <1>1, <1>2, <2>5, IdleIsSound, OneRequest DEF Sign
<1>3. CASE Logout(s)
  <2>1. cookie' = [cookie EXCEPT ![s] = NoCookie]
    BY <1>3 DEF Logout
  <2>2. CookiesSound
    BY <2>1 DEF CookiesSound, IInv, TypeOK, StampsPrecede
  <2>3. SignedInExist' /\ ProtectedSpared' /\ FoundAtOkta' /\ TypeOK'
    BY <1>1, <1>3, <2>2 DEF Logout, IInv, TypeOK, SignedInExist, ProtectedSpared, FoundAtOkta,
                            Exists, RefusedForProtected, CookiesSound
  <2>4. QED
    BY <1>1, <2>2, <2>3 DEF IInv, RowsSound, CookiesSound
<1>4. CASE EnterByCookie(s)
  <2>1. CookiesSound
    BY <1>4, CookiesUnchanged DEF EnterByCookie
  <2>2. PICK u \in Users : users'[u] # NoUser /\ Admitted(s, u, "cookie")
    BY <1>1, <1>4 DEF EnterByCookie, Cookie, Exists
  <2>3. QED
    BY <1>1, <2>1, <2>2, InIsSound, OneRequest DEF Admitted
<1>5. ASSUME NEW u \in Users, NEW group \in BOOLEAN, EnterByGateway(s, u, group)
      PROVE  IInv' /\ RowsKept
  <2>1. CookiesSound
    BY <1>5, CookiesUnchanged DEF EnterByGateway
  <2>2. CASE Exists(u) /\ Admitted(s, u, "gateway")
    BY <1>1, <2>1, <2>2, InIsSound, OneRequest DEF Admitted, Exists
  <2>3. CASE Goto(s, [pc |-> "jit", user |-> u, group |-> group])
    <3>1. RequestSound([pc |-> "jit", user |-> u, group |-> group])
      BY DEF RequestSound, Request
    <3>2. QED
      BY <1>1, <2>1, <2>3, <3>1, OneRequest
  <2>4. QED
    BY <1>5, <2>2, <2>3 DEF EnterByGateway
<1>6. CASE Leave(s)
  BY <1>1, <1>6, CookiesUnchanged, IdleIsSound, OneRequest DEF Leave
<1>7. QED
  BY <1>2, <1>3, <1>4, <1>5, <1>6 DEF Browse

LEMMA InitialRoleSuits ==
    ASSUME NEW u \in Users
    PROVE  InitialRole(u) \in {"admin", "user"} /\ (u \in Protected => InitialRole(u) = "admin")
BY DEF InitialRole

\* A row that was not there is inserted.
LEMMA InsertedRow ==
    ASSUME IInv, NEW u \in Users, ~ Exists(u),
           NEW role \in {"admin", "user"}, NEW provider \in {"local", "okta"},
           NEW sub \in Subs \cup {NoSub},
           u \in Protected => role = "admin", sub # NoSub => provider = "okta",
           users' = [users EXCEPT ![u] = NewRow(role, provider, sub)]
    PROVE  RowsSound /\ users'[u] # NoUser
<1> DEFINE row == NewRow(role, provider, sub)
<1>1. /\ row \in Row /\ row.role = role /\ row.active
      /\ row.provider = provider /\ row.sub = sub
  BY NewRowIsRow
<1> HIDE DEF row
<1>2. users' = [users EXCEPT ![u] = row]
  BY DEF row
<1>3. QED
  BY <1>1, <1>2, OneRow

LEMMA CreateStep ==
    ASSUME IInv, NEW s \in Slots, Create(s)
    PROVE  IInv' /\ RowsKept
<1>1. req[s] \in Request /\ clock' = clock /\ cookie' = cookie
  BY DEF IInv, TypeOK, Create, Provision, InsertLogin, OktaLink, OktaInsert, Upsert, Login, OktaCallback
<1>2. CookiesSound
  BY <1>1, CookiesUnchanged
<1>3. CASE Provision(s)
  <2> DEFINE u == req[s].user
             role == IF req[s].group THEN "admin" ELSE InitialRole(u)
  <2>1. u \in Users /\ req[s].group \in BOOLEAN
    BY <1>1, <1>3 DEF Provision, Request
  <2>2. role \in {"admin", "user"} /\ (u \in Protected => role = "admin")
    BY <2>1, InitialRoleSuits
  <2>3. RowsSound /\ users'[u] # NoUser
    <3>1. CASE CanInsert(u, NoSub)
      <4>1. users' = [users EXCEPT ![u] = NewRow(role, "okta", NoSub)] /\ ~ Exists(u)
        BY <1>3, <3>1 DEF Provision, CanInsert
      <4>2. QED
        BY <2>1, <2>2, <4>1, InsertedRow
    <3>2. CASE ~ CanInsert(u, NoSub)
      <4>1. users' = users /\ Exists(u)
        BY <1>3, <3>2 DEF Provision, CanInsert
      <4>2. QED
        BY <4>1, RowsUnchanged DEF Exists
    <3>3. QED
      BY <3>1, <3>2
  <2>4. Goto(s, In(u, "gateway"))
    BY <1>3 DEF Provision
  <2>5. QED
    BY <1>1, <1>2, <2>1, <2>3, <2>4, InIsSound, OneRequest
<1>4. CASE InsertLogin(s)
  <2> DEFINE u == req[s].user
  <2>1. u \in Users
    BY <1>1, <1>4 DEF InsertLogin, Request
  <2>2. CASE CanInsert(u, NoSub)
    <3>1. /\ users' = [users EXCEPT ![u] = NewRow(InitialRole(u), "local", NoSub)]
          /\ Goto(s, Signing(u)) /\ ~ Exists(u)
      BY <1>4, <2>2 DEF InsertLogin, CanInsert
    <3>2. RowsSound
      BY <2>1, <3>1, InitialRoleSuits, NullsAreNew, InsertedRow
    <3>3. QED
      BY <1>1, <1>2, <2>1, <3>1, <3>2, SigningIsSound, OneRequest
  <2>3. CASE ~ CanInsert(u, NoSub)
    BY <1>1, <1>2, <1>4, <2>3, RowsUnchanged, IdleIsSound, OneRequest DEF InsertLogin
  <2>4. QED
    BY <2>2, <2>3
<1>5. CASE OktaLink(s)
  <2> DEFINE u == req[s].found
             row == [users[u] EXCEPT !.sub = req[s].sub, !.provider = "okta"]
  <2>1. u \in Users /\ req[s].sub \in Subs /\ Exists(u) /\ users[u].provider = "okta"
    BY <1>1, <1>5, NullsAreNew DEF OktaLink, Request, IInv, FoundAtOkta
  <2>2. CASE users' = users /\ Goto(s, Idle)
    BY <1>1, <1>2, <2>2, RowsUnchanged, IdleIsSound, OneRequest
  <2>3. CASE users' = [users EXCEPT ![u].sub = req[s].sub, ![u].provider = "okta"] /\ Goto(s, Signing(u))
    <3>1. users \in [Users -> Row \cup {NoUser}] /\ users[u] \in Row
      BY <2>1 DEF IInv, TypeOK, Exists
    <3>2. row \in Row /\ row.provider = "okta" /\ row.role = users[u].role
          /\ row.active = users[u].active
      BY <2>1, <3>1 DEF Row
    <3>3. users' = [users EXCEPT ![u] = row]
      BY <2>1, <2>3, <3>1
    <3>4. u \in Protected => row.role = "admin" /\ row.active
      BY <2>1, <3>2 DEF IInv, ProtectedStayAdmins
    <3>5. RowsSound
      BY <2>1, <3>2, <3>3, <3>4, OneRow
    <3>6. QED
      BY <1>1, <1>2, <2>1, <2>3, <3>5, SigningIsSound, OneRequest
  <2>4. QED
    BY <1>5, <2>2, <2>3 DEF OktaLink
<1>6. CASE OktaInsert(s)
  <2> DEFINE u == req[s].email
  <2>1. u \in Users /\ req[s].sub \in Subs
    BY <1>1, <1>6 DEF OktaInsert, Request
  <2>2. CASE CanInsert(u, req[s].sub)
    <3>1. /\ users' = [users EXCEPT ![u] = NewRow(InitialRole(u), "okta", req[s].sub)]
          /\ Goto(s, Signing(u)) /\ ~ Exists(u)
      BY <1>6, <2>2 DEF OktaInsert, CanInsert
    <3>2. RowsSound
      BY <2>1, <3>1, InitialRoleSuits, NullsAreNew, InsertedRow
    <3>3. QED
      BY <1>1, <1>2, <2>1, <3>1, <3>2, SigningIsSound, OneRequest
  <2>3. CASE ~ CanInsert(u, req[s].sub)
    BY <1>1, <1>2, <1>6, <2>3, RowsUnchanged, IdleIsSound, OneRequest DEF OktaInsert
  <2>4. QED
    BY <2>2, <2>3
<1>7. CASE Upsert(s)
  <2>1. Exists(req[s].user)
    BY <1>7 DEF Upsert, IInv, SignedInExist
  <2>2. users' = users /\ Goto(s, Idle)
    BY <1>7, <2>1 DEF Upsert
  <2>3. QED
    BY <1>1, <1>2, <2>2, RowsUnchanged, IdleIsSound, OneRequest
<1>8. ASSUME NEW u \in Users, Login(s, u)
      PROVE  IInv' /\ RowsKept
  <2>1. users' = users
    BY <1>8 DEF Login
  <2>2. RequestSound([pc |-> "inserting", user |-> u])
    BY DEF RequestSound, Request
  <2>3. QED
    BY <1>1, <1>2, <1>8, <2>1, <2>2, RowsUnchanged, SigningIsSound, OneRequest DEF Login
<1>9. ASSUME NEW sub \in Subs, NEW email \in Users, OktaCallback(s, sub, email)
      PROVE  IInv' /\ RowsKept
  <2> DEFINE Found(u) == [pc |-> "okta", sub |-> sub, email |-> email, found |-> u]
  <2>1. users' = users
    BY <1>9 DEF OktaCallback
  <2>2. ASSUME NEW u \in Users, Exists(u), users[u].provider = "okta"
        PROVE  RequestSound(Found(u))
    BY <2>1, <2>2 DEF RequestSound, Request, Exists
  <2>3. RequestSound(Found(NoUser))
    BY DEF RequestSound, Request
  <2>4. CASE \E u \in Users : Exists(u) /\ users[u].sub = sub /\ Goto(s, Found(u))
    <3>1. PICK u \in Users : Exists(u) /\ users[u].sub = sub /\ Goto(s, Found(u))
      BY <2>4
    <3>2. users[u].provider = "okta"
      BY <3>1, NullsAreNew DEF IInv, SubsAreOkta
    <3>3. QED
      BY <1>1, <1>2, <2>1, <2>2, <3>1, <3>2, RowsUnchanged, OneRequest
  <2>5. CASE Exists(email) /\ MayTakeByEmail(email) /\ Goto(s, Found(email))
    BY <1>1, <1>2, <2>1, <2>2, <2>5, RowsUnchanged, OneRequest DEF MayTakeByEmail
  <2>6. CASE Goto(s, Found(NoUser))
    BY <1>1, <1>2, <2>1, <2>3, <2>6, RowsUnchanged, OneRequest
  <2>7. QED
    BY <1>9, <2>4, <2>5, <2>6 DEF OktaCallback
<1>10. QED
  BY <1>3, <1>4, <1>5, <1>6, <1>7, <1>8, <1>9 DEF Create

LEMMA AdministerStep ==
    ASSUME IInv, NEW s \in Slots, Administer(s)
    PROVE  IInv' /\ RowsKept
<1>1. req[s] \in Request /\ clock' = clock /\ clock \in 1..MaxTime /\ cookie' = cookie
  BY DEF IInv, TypeOK, Administer, ChangePassword, Act, Authorize
<1>2. CookiesSound
  BY <1>1, CookiesUnchanged
<1>3. users \in [Users -> Row \cup {NoUser}]
  BY DEF IInv, TypeOK
<1>4. CASE ChangePassword(s)
  <2> DEFINE u == req[s].user
             row == [users[u] EXCEPT !.must = FALSE]
  <2>1. u \in Users /\ Exists(u) /\ users[u] \in Row
    BY <1>1, <1>3, <1>4 DEF ChangePassword, Request, Exists
  <2>2. row \in Row /\ row.provider = users[u].provider /\ row.sub = users[u].sub
        /\ row.role = users[u].role /\ row.active = users[u].active
    BY <2>1 DEF Row
  <2>3. users' = [users EXCEPT ![u] = row] /\ Goto(s, Signing(u))
    BY <1>4 DEF ChangePassword
  <2>4. /\ u \in Protected => row.role = "admin" /\ row.active
        /\ row.sub # NoSub => row.provider = "okta"
    BY <2>1, <2>2 DEF IInv, ProtectedStayAdmins, SubsAreOkta
  <2>5. RowsSound
    BY <2>1, <2>2, <2>3, <2>4, OneRow
  <2>6. QED
    BY <1>1, <1>2, <2>1, <2>3, <2>5, SigningIsSound, OneRequest
<1>5. CASE Act(s)
  <2> DEFINE u == req[s].target
             op == req[s].op
             row == Changed(users[u], op)
  <2>1. u \in Users /\ op \in Ops
    BY <1>1, <1>5 DEF Act, Request
  <2>2. RowsSound
    <3>1. CASE Exists(u)
      <4>1. users[u] \in Row
        BY <1>3, <2>1, <3>1 DEF Exists
      <4>2. /\ row \in Row
            /\ row.provider = users[u].provider /\ row.sub = users[u].sub
            /\ op # "demote" /\ users[u].role = "admin" => row.role = "admin"
            /\ op # "deactivate" /\ users[u].active => row.active
        BY <1>1, <2>1, <4>1, ChangedIsRow
      <4>3. op \in RefusedForProtected => u \notin Protected
        BY <1>5 DEF Act, IInv, ProtectedSpared
      <4>4. u \in Protected => row.role = "admin" /\ row.active
        BY <3>1, <4>2, <4>3 DEF RefusedForProtected, IInv, ProtectedStayAdmins
      <4>5. row.sub # NoSub => row.provider = "okta"
        BY <2>1, <3>1, <4>2 DEF IInv, SubsAreOkta
      <4>6. users' = [users EXCEPT ![u] = row]
        BY <1>5, <3>1 DEF Act
      <4>7. QED
        BY <2>1, <4>2, <4>4, <4>5, <4>6, OneRow
    <3>2. CASE ~ Exists(u)
      BY <1>5, <3>2, RowsUnchanged DEF Act
    <3>3. QED
      BY <3>1, <3>2
  <2>3. QED
    BY <1>1, <1>2, <1>5, <2>2, IdleIsSound, OneRequest DEF Act
<1>6. ASSUME NEW op \in Ops, NEW target \in Users, Authorize(s, op, target)
      PROVE  IInv' /\ RowsKept
  <2>1. RequestSound([pc |-> "acting", op |-> op, target |-> target])
    BY <1>6 DEF RequestSound, Request, Authorize
  <2>2. QED
    BY <1>1, <1>2, <1>6, <2>1, RowsUnchanged, OneRequest DEF Authorize
<1>7. QED
  BY <1>4, <1>5, <1>6 DEF Administer

LEMMA StepPreservesIInv == IInv /\ [Next]_vars => IInv' /\ RowsKept
<1> SUFFICES ASSUME IInv, [Next]_vars PROVE IInv' /\ RowsKept
  OBVIOUS
<1>1. CASE Next
  BY <1>1, TickStep, BrowseStep, CreateStep, AdministerStep DEF Next
<1>2. CASE UNCHANGED vars
  <2>1. UNCHANGED <<users, cookie, req, clock>>
    BY <1>2 DEF vars
  <2>2. QED
    BY <2>1, RowsUnchanged, CookiesUnchanged
       DEF IInv, TypeOK, SignedInExist, ProtectedSpared, FoundAtOkta, Exists, RefusedForProtected,
           RowsSound, CookiesSound
<1>3. QED
  BY <1>1, <1>2

\* Nothing but the check of a cookie lets anybody in by a cookie.
LEMMA OnlyEntranceByCookie ==
    ASSUME req \in [Slots -> Request], Next,
           NEW s \in Slots, LetIn(s), req'[s].by = "cookie"
    PROVE  EnterByCookie(s)
<1> SUFFICES ASSUME ~ EnterByCookie(s) PROVE FALSE
  OBVIOUS
<1>1. PICK t \in Slots : Create(t) \/ Browse(t) \/ Administer(t)
  BY DEF Next, Tick, LetIn
<1>2. CASE \E u \in Users, group \in BOOLEAN : EnterByGateway(t, u, group)
  <2>1. \A x \in Slots \ {t} : req'[x] = req[x]
    BY <1>2 DEF EnterByGateway, Admitted, Goto
  <2>2. req'[t].pc = "jit" \/ req'[t].by = "gateway"
    BY <1>2 DEF EnterByGateway, Admitted, Goto, In, InReset
  <2>3. QED
    BY <2>1, <2>2 DEF LetIn
<1>3. CASE Create(t)
  <2>1. \A x \in Slots \ {t} : req'[x] = req[x]
    BY <1>3 DEF Create, Provision, InsertLogin, OktaLink, OktaInsert, Upsert, Login, OktaCallback, Goto
  <2>2. req'[t].pc \in {"idle", "signing", "inserting", "okta"} \/ req'[t].by = "gateway"
    BY <1>3 DEF Create, Provision, InsertLogin, OktaLink, OktaInsert, Upsert, Login, OktaCallback, Goto,
                Idle, Signing, In
  <2>3. QED
    BY <2>1, <2>2 DEF LetIn
<1>4. CASE Administer(t)
  <2>1. \A x \in Slots \ {t} : req'[x] = req[x]
    BY <1>4 DEF Administer, ChangePassword, Act, Authorize, Goto
  <2>2. req'[t].pc \in {"idle", "signing", "acting"}
    BY <1>4 DEF Administer, ChangePassword, Act, Authorize, Goto, Idle, Signing
  <2>3. QED
    BY <2>1, <2>2 DEF LetIn
<1>5. CASE Sign(t) \/ Logout(t) \/ EnterByCookie(t) \/ Leave(t)
  <2>1. \A x \in Slots \ {t} : req'[x] = req[x]
    BY <1>5 DEF Sign, Logout, EnterByCookie, Admitted, Leave, Goto
  <2>2. req' = req \/ req'[t].pc = "idle" \/ EnterByCookie(t)
    BY <1>5 DEF Sign, Logout, Leave, Goto, Idle
  <2>3. QED
    BY <2>1, <2>2 DEF LetIn
<1>6. QED
  BY <1>1, <1>2, <1>3, <1>4, <1>5 DEF Browse

-------------------------------------------------------------------------------
(***************************************************************************)
(* Theorems                                                                *)
(***************************************************************************)

\* The inductive invariant holds in every reachable state.
THEOREM Invariance == Spec => []IInv
<1>1. Init => IInv
  BY InitEstablishesIInv
<1>2. IInv /\ [Next]_vars => IInv'
  BY StepPreservesIInv
<1>3. QED
  BY <1>1, <1>2, PTL DEF Spec

\* Rows, cookies and requests keep their types (tokens/models.py, tokens/auth.py).
THEOREM TypeCorrect == Spec => []TypeOK
<1>1. IInv => TypeOK
  BY DEF IInv
<1>2. QED
  BY <1>1, Invariance, PTL

\* A protected super-admin stays an active admin, however logins, provisioning and
\* admins' requests interleave (admin_panel.py, _assert_not_protected).
THEOREM ProtectedStayAdminsHolds == Spec => []ProtectedStayAdmins
<1>1. IInv => ProtectedStayAdmins
  BY DEF IInv
<1>2. QED
  BY <1>1, Invariance, PTL

\* No row changes hands between passwords and Okta, and none is ever removed
\* (tokens/okta.py, _provision_okta_user).
THEOREM ProviderNeverChangesHolds == Spec => ProviderNeverChanges
<1>1. IInv /\ [Next]_vars => [\A u \in Users : Exists(u) => Exists(u)' /\ users'[u].provider = users[u].provider]_vars
  BY StepPreservesIInv DEF RowsKept
<1>2. QED
  BY <1>1, Invariance, PTL DEF Spec, ProviderNeverChanges

\* A cookie signed before the last reactivation lets nobody in (tokens/auth.py,
\* _check_account_active).
THEOREM OldSessionsStayOutHolds == Spec => OldSessionsStayOut
<1> DEFINE A == \A s \in Slots : LetIn(s) /\ req'[s].by = "cookie"
                    => cookie[s].at >= users[cookie[s].user].since
<1>1. IInv /\ [Next]_vars => [A]_vars
  <2> SUFFICES ASSUME IInv, Next, NEW s \in Slots, LetIn(s), req'[s].by = "cookie"
               PROVE  cookie[s].at >= users[cookie[s].user].since
    OBVIOUS
  <2>1. req \in [Slots -> Request]
    BY DEF IInv, TypeOK
  <2>2. EnterByCookie(s)
    BY <2>1, OnlyEntranceByCookie
  <2>3. cookie[s].stamp >= users[cookie[s].user].since
    BY <2>2 DEF EnterByCookie, Admitted
  <2>4. cookie[s] # NoCookie /\ cookie[s].user \in Users /\ users[cookie[s].user] \in Row
        /\ cookie[s].stamp \in Nat /\ cookie[s].at \in Nat
    BY <2>2, TimeBounds DEF EnterByCookie, IInv, TypeOK, Cookie, Exists, Time
  <2>5. users[cookie[s].user].since \in Nat
    BY <2>4, TimeBounds DEF Row, Time
  <2>6. cookie[s].stamp <= cookie[s].at
    BY <2>4 DEF IInv, StampsPrecede
  <2>7. QED
    BY <2>3, <2>4, <2>5, <2>6
<1>2. QED
  BY <1>1, Invariance, PTL DEF Spec, OldSessionsStayOut

===============================================================================
