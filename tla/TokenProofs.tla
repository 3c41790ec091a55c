------------------------------ MODULE TokenProofs ------------------------------
(***************************************************************************)
(* Theorems about the tokens at both ends: about TokenRegistry, for every  *)
(* set of users, keys, prefixes and request slots, and about LocalCli, for *)
(* every set of commands and secrets.  The two modules have no name in     *)
(* common and each theorem is about one of them.                           *)
(***************************************************************************)
EXTENDS TokenRegistry, LocalCli, TLAPS


\* A stored row names a real user and prefix, an absent one names none.
RowsWellFormed ==
    \A i \in RowId :
        IF Exists(i) THEN rows[i].user \in Users /\ rows[i].token_id \in TokenId
                     ELSE rows[i].user = NoUser /\ rows[i].token_id = NoToken

\* A request in flight acts for a real user, and a row it has read is that
\* user's, whatever other sessions have committed since.
OwnedRead(t) ==
    /\ txn[t].pc # "idle" => txn[t].user \in Users
    /\ txn[t].pc \in {"flushed", "revoking"} => txn[t].cur \in RowId
    /\ txn[t].cur # NoRow =>
          Exists(txn[t].cur) /\ rows[txn[t].cur].user = txn[t].user

ReadsStayOwned == \A t \in Txns : OwnedRead(t)

OneActivePerUser ==
    \A i, j \in RowId : Active(i) /\ Active(j) /\ rows[i].user = rows[j].user => i = j

\* The inductive invariant: the partial index gives OneActivePerUser, and
\* PrefixHasOneOwner carries it over to prefixes.
IInv == /\ TypeOK
        /\ RowsWellFormed
        /\ ReadsStayOwned
        /\ OneActivePerUser
        /\ PrefixHasOneOwner

-------------------------------------------------------------------------------
(***************************************************************************)
(* Initial states                                                          *)
(***************************************************************************)

LEMMA InitEstablishesIInv == Init => IInv
<1> SUFFICES ASSUME Init PROVE IInv
  OBVIOUS
<1> USE NullsAreNew
<1>1. TypeOK
  BY DEF Init, TypeOK, Row, AbsentRow, LegacyRow, Txn, Kinds, IdleTxn,
         Verification, NoVerification, AuditEvents, MintEvents, Exists
<1>2. RowsWellFormed
  BY DEF Init, RowsWellFormed, Exists, AbsentRow, LegacyRow
<1>3. ReadsStayOwned
  BY DEF Init, ReadsStayOwned, OwnedRead, IdleTxn
<1>4. OneActivePerUser
  BY DEF Init, OneActivePerUser
<1>5. PrefixHasOneOwner
  BY DEF Init, PrefixHasOneOwner, Exists, Active, AbsentRow, LegacyRow
<1>6. QED
  BY <1>1, <1>2, <1>3, <1>4, <1>5 DEF IInv

(***************************************************************************)
(* Steps that leave the table alone                                        *)
(***************************************************************************)

\* A step that only moves requests from one proper state to another.
LEMMA TxnStepPreservesIInv ==
    ASSUME IInv, NEW t \in Txns, NEW s \in Txn,
           txn' = [txn EXCEPT ![t] = s], UNCHANGED <<rows, active, ver, audit>>,
           s.pc # "idle" => s.user \in Users,
           s.pc \in {"flushed", "revoking"} => s.cur \in RowId,
           s.cur # NoRow => Exists(s.cur) /\ rows[s.cur].user = s.user
    PROVE  IInv'
<1>1. TypeOK'
  BY DEF IInv, TypeOK
<1>2. RowsWellFormed' /\ OneActivePerUser' /\ PrefixHasOneOwner'
  BY DEF IInv, RowsWellFormed, OneActivePerUser, PrefixHasOneOwner, Exists, Active
<1>3. ReadsStayOwned'
  BY DEF IInv, TypeOK, ReadsStayOwned, OwnedRead, Exists
<1>4. QED
  BY <1>1, <1>2, <1>3 DEF IInv

LEMMA IdlePreservesIInv ==
    ASSUME IInv, NEW t \in Txns,
           txn' = [txn EXCEPT ![t] = IdleTxn], UNCHANGED <<rows, active, ver, audit>>
    PROVE  IInv'
<1>1. IdleTxn \in Txn /\ IdleTxn.pc = "idle" /\ IdleTxn.cur = NoRow
  BY DEF IdleTxn, Txn, Kinds
<1>2. QED
  BY <1>1, TxnStepPreservesIInv

LEMMA ChoosePreservesIInv ==
    ASSUME IInv, NEW t \in Txns, NEW kind \in Kinds, NEW u \in Users, Choose(t, kind, u),
           UNCHANGED <<rows, active, ver, audit>>
    PROVE  IInv'
<1>1. PICK r \in RowId \cup {NoRow} :
         /\ OneOrNone(ActiveOfUser(u), r)
         /\ txn' = [txn EXCEPT ![t] =
                     [pc |-> "chosen", kind |-> kind, user |-> u, cur |-> r]]
  BY DEF Choose
<1> DEFINE s == [pc |-> "chosen", kind |-> kind, user |-> u, cur |-> r]
<1>2. s \in Txn /\ s.pc = "chosen" /\ s.user = u /\ s.cur = r
  BY DEF Txn
<1>3. r # NoRow => r \in ActiveOfUser(u)
  BY <1>1 DEF OneOrNone
<1>4. r # NoRow => Exists(r) /\ rows[r].user = u
  BY <1>3 DEF ActiveOfUser, Active, Exists
<1> HIDE DEF s
<1>5. txn' = [txn EXCEPT ![t] = s]
  BY <1>1 DEF s
<1>6. QED
  BY <1>2, <1>4, <1>5, TxnStepPreservesIInv

LEMMA StartRevokePreservesIInv ==
    ASSUME IInv, NEW t \in Txns, NEW r \in RowId, Active(r), StartRevoke(t, r),
           UNCHANGED <<rows, active, ver, audit>>
    PROVE  IInv'
<1> DEFINE s == [pc |-> "revoking", kind |-> "revoke", user |-> rows[r].user, cur |-> r]
<1>1. rows[r].user \in Users
  BY DEF IInv, RowsWellFormed, Active, Exists
<1>2. s \in Txn /\ s.pc = "revoking" /\ s.user = rows[r].user /\ s.cur = r
  BY <1>1 DEF Txn, Kinds
<1>3. Exists(r)
  BY DEF Active, Exists
<1>4. txn' = [txn EXCEPT ![t] = s]
  BY DEF StartRevoke
<1> HIDE DEF s
<1>5. QED
  BY <1>1, <1>2, <1>3, <1>4, TxnStepPreservesIInv

(***************************************************************************)
(* Steps that change the table                                             *)
(***************************************************************************)

LEMMA CommitRevokePreservesIInv ==
    ASSUME IInv, NEW t \in Txns, CommitRevoke(t)
    PROVE  IInv'
<1> DEFINE c == txn[t].cur
<1>1. c \in RowId /\ Exists(c)
  BY NullsAreNew DEF IInv, ReadsStayOwned, OwnedRead, CommitRevoke
<1>2. rows' = [rows EXCEPT ![c].status = "revoked"]
  BY DEF CommitRevoke
<1>3. /\ rows' \in [RowId -> Row]
      /\ \A i \in RowId : /\ rows'[i].user = rows[i].user
                          /\ rows'[i].token_id = rows[i].token_id
                          /\ Exists(i) <=> Exists(i)'
                          /\ Active(i)' => Active(i)
  BY <1>1, <1>2 DEF IInv, TypeOK, Row, Exists, Active
<1>4. TypeOK'
  BY <1>1, <1>3 DEF CommitRevoke, IInv, TypeOK, AuditEvents, IdleTxn, Txn, Kinds
<1>5. RowsWellFormed'
  BY <1>3 DEF IInv, RowsWellFormed
<1>6. ReadsStayOwned'
  <2> SUFFICES ASSUME NEW o \in Txns PROVE OwnedRead(o)'
    BY DEF ReadsStayOwned
  <2>1. OwnedRead(o) /\ txn[o].cur \in RowId \cup {NoRow}
    BY DEF IInv, ReadsStayOwned, TypeOK, Txn
  <2>2. txn'[o] = txn[o] \/ txn'[o] = IdleTxn
    BY DEF CommitRevoke, IInv, TypeOK
  <2>3. QED
    BY <1>3, <2>1, <2>2 DEF OwnedRead, IdleTxn
<1>7. OneActivePerUser' /\ PrefixHasOneOwner'
  BY <1>3 DEF IInv, OneActivePerUser, PrefixHasOneOwner
<1>8. QED
  BY <1>4, <1>5, <1>6, <1>7 DEF IInv

\* What CommitIssue does to the table, said once for the lemmas that need it:
\* row i is minted for u under prefix k, and only row c (if any) is ended.
Minted(t, i, k) ==
    LET u == txn[t].user
        c == txn[t].cur IN
    /\ i \in RowId /\ k \in TokenId /\ u \in Users
    /\ ~Exists(i) /\ Exists(i)' /\ Active(i)' /\ c # i
    /\ rows'[i].user = u /\ rows'[i].token_id = k
    /\ \A j \in RowId \ {i} : /\ rows'[j].user = rows[j].user
                              /\ rows'[j].token_id = rows[j].token_id
                              /\ Exists(j) <=> Exists(j)'
                              /\ Active(j)' <=> Active(j) /\ j # c
                              /\ Active(j)' => rows[j].user # u
    /\ c # NoRow => /\ c \in RowId /\ rows'[c].status = "revoked"
                    /\ rows[c].user = u /\ rows[c].token_id = k
    /\ c = NoRow => \A j \in RowId : rows[j].token_id # k

LEMMA CommitIssueMints ==
    ASSUME IInv, NEW t \in Txns, CommitIssue(t)
    PROVE  \E i \in RowId, k \in TokenId :
              /\ Minted(t, i, k)
              /\ rows' \in [RowId -> Row]
              /\ audit' = [audit EXCEPT ![i] = {MintEvent(t)} \cup
                    (IF txn[t].kind = "force" THEN {"admin_force_rotate"} ELSE {})]
<1> DEFINE u == txn[t].user
           c == txn[t].cur
<1>1. PICK i \in RowId, k \in TokenId :
        /\ ~Exists(i)
        /\ MayUseTokenId(t, k)
        /\ rows' = [j \in RowId |->
              IF j = i THEN [token_id |-> k, user |-> u, status |-> "active", ttl |-> "live"]
              ELSE IF j = c THEN [rows[j] EXCEPT !.status = "revoked"]
              ELSE rows[j]]
        /\ audit' = [audit EXCEPT ![i] = {MintEvent(t)} \cup
              (IF txn[t].kind = "force" THEN {"admin_force_rotate"} ELSE {})]
  BY DEF CommitIssue
<1>2. u \in Users /\ c \in RowId \cup {NoRow} /\ (c # NoRow => Exists(c) /\ rows[c].user = u)
  BY DEF IInv, TypeOK, Txn, ReadsStayOwned, OwnedRead, CommitIssue, ReadyToInsert
<1>3. \A j \in RowId : Active(j) /\ rows[j].user = u => j = c
  BY DEF CommitIssue, IndexAllows, ActiveOfUser
<1>4. rows' \in [RowId -> Row]
  BY <1>1, <1>2, SMTT(30) DEF IInv, TypeOK, Row
<1>5. c # i
  BY <1>1, <1>2, NullsAreNew
<1>6. rows'[i] = [token_id |-> k, user |-> u, status |-> "active", ttl |-> "live"]
  BY <1>1
<1>7. Exists(i)' /\ Active(i)' /\ rows'[i].user = u /\ rows'[i].token_id = k
  BY <1>6 DEF Exists, Active
<1>8. \A j \in RowId \ {i} : rows'[j] = IF j = c THEN [rows[j] EXCEPT !.status = "revoked"]
                                        ELSE rows[j]
  BY <1>1
<1>9. ASSUME NEW j \in RowId \ {i}
      PROVE  /\ rows'[j].user = rows[j].user
             /\ rows'[j].token_id = rows[j].token_id
             /\ Exists(j) <=> Exists(j)'
             /\ Active(j)' <=> Active(j) /\ j # c
             /\ Active(j)' => rows[j].user # u
  <2>1. rows[j] \in Row
    BY DEF IInv, TypeOK
  <2>2. CASE j = c
    BY <1>2, <1>8, <2>1, <2>2, NullsAreNew DEF Row, Exists, Active
  <2>3. CASE j # c
    BY <1>3, <1>8, <2>3 DEF Exists, Active
  <2>4. QED
    BY <2>2, <2>3
<1>10. c # NoRow => /\ c \in RowId /\ rows'[c].status = "revoked"
                    /\ rows[c].user = u /\ rows[c].token_id = k
  <2> SUFFICES ASSUME c # NoRow
               PROVE  /\ c \in RowId /\ rows'[c].status = "revoked"
                      /\ rows[c].user = u /\ rows[c].token_id = k
    OBVIOUS
  <2>1. c \in RowId /\ rows[c] \in Row
    BY <1>2 DEF IInv, TypeOK
  <2>2. rows'[c] = [rows[c] EXCEPT !.status = "revoked"]
    BY <1>5, <1>8, <2>1
  <2>3. rows'[c].status = "revoked"
    BY <2>1, <2>2 DEF Row
  <2>4. QED
    BY <1>1, <1>2, <2>1, <2>3 DEF MayUseTokenId
<1>11. c = NoRow => \A j \in RowId : rows[j].token_id # k
  BY <1>1 DEF MayUseTokenId
<1>12. Minted(t, i, k)
  BY <1>1, <1>2, <1>5, <1>7, <1>9, <1>10, <1>11 DEF Minted
<1>13. QED
  BY <1>1, <1>4, <1>12

LEMMA CommitIssuePreservesIInv ==
    ASSUME IInv, NEW t \in Txns, CommitIssue(t)
    PROVE  IInv'
<1>1. PICK i \in RowId, k \in TokenId :
        /\ Minted(t, i, k)
        /\ rows' \in [RowId -> Row]
        /\ audit' = [audit EXCEPT ![i] = {MintEvent(t)} \cup
              (IF txn[t].kind = "force" THEN {"admin_force_rotate"} ELSE {})]
  BY CommitIssueMints
<1>2. TypeOK'
  <2>1. audit' \in [RowId -> SUBSET AuditEvents]
    BY <1>1 DEF IInv, TypeOK, MintEvent, AuditEvents, MintEvents
  <2>2. txn' \in [Txns -> Txn]
    BY DEF CommitIssue, IInv, TypeOK, IdleTxn, Txn, Kinds
  <2>3. QED
    BY <1>1, <2>1, <2>2 DEF CommitIssue, IInv, TypeOK
<1>3. RowsWellFormed'
  BY <1>1 DEF Minted, IInv, RowsWellFormed
<1>4. ReadsStayOwned'
  <2> SUFFICES ASSUME NEW o \in Txns PROVE OwnedRead(o)'
    BY DEF ReadsStayOwned
  <2>1. OwnedRead(o) /\ txn[o].cur \in RowId \cup {NoRow}
    BY DEF IInv, ReadsStayOwned, TypeOK, Txn
  <2>2. txn'[o] = txn[o] \/ txn'[o] = IdleTxn
    BY DEF CommitIssue, IInv, TypeOK
  <2>3. CASE txn'[o] = IdleTxn
    BY <2>3 DEF OwnedRead, IdleTxn
  <2>4. CASE txn'[o] = txn[o]
    <3>1. txn[o].cur # NoRow => txn[o].cur \in RowId \ {i}
      BY <1>1, <2>1 DEF OwnedRead, Minted
    <3>2. QED
      BY <1>1, <2>1, <2>4, <3>1 DEF OwnedRead, Minted
  <2>5. QED
    BY <2>2, <2>3, <2>4
<1>5. OneActivePerUser'
  <2> SUFFICES ASSUME NEW a \in RowId, NEW b \in RowId, Active(a)', Active(b)',
                      rows'[a].user = rows'[b].user
               PROVE  a = b
    BY DEF OneActivePerUser
  <2>1. CASE a = i \/ b = i
    BY <1>1, <2>1 DEF Minted
  <2>2. CASE a # i /\ b # i
    BY <1>1, <2>2 DEF Minted, IInv, OneActivePerUser
  <2>3. QED
    BY <2>1, <2>2
<1>6. PrefixHasOneOwner'
  <2> SUFFICES ASSUME NEW a \in RowId, NEW b \in RowId, Exists(a)', Exists(b)',
                      rows'[a].token_id = rows'[b].token_id
               PROVE  rows'[a].user = rows'[b].user
    BY DEF PrefixHasOneOwner
  <2>1. ASSUME NEW x \in RowId \ {i}, Exists(x)', rows'[x].token_id = k
        PROVE  rows'[x].user = txn[t].user
    <3>1. txn[t].cur # NoRow
      BY <1>1, <2>1 DEF Minted
    <3>2. Exists(txn[t].cur)
      BY <3>1 DEF IInv, ReadsStayOwned, OwnedRead
    <3>3. QED
      BY <1>1, <2>1, <3>1, <3>2 DEF Minted, IInv, PrefixHasOneOwner
  <2>2. rows'[i].token_id = k /\ rows'[i].user = txn[t].user
    BY <1>1 DEF Minted
  <2>3. CASE a = i \/ b = i
    BY <2>1, <2>2, <2>3
  <2>4. CASE a # i /\ b # i
    BY <1>1, <2>4 DEF Minted, IInv, PrefixHasOneOwner
  <2>5. QED
    BY <2>3, <2>4
<1>7. QED
  BY <1>2, <1>3, <1>4, <1>5, <1>6 DEF IInv

LEMMA ExpirePreservesIInv ==
    ASSUME IInv, NEW i \in RowId, Expire(i)
    PROVE  IInv'
<1>1. /\ rows' \in [RowId -> Row]
      /\ \A j \in RowId : /\ rows'[j].user = rows[j].user
                          /\ rows'[j].token_id = rows[j].token_id
                          /\ rows'[j].status = rows[j].status
  BY DEF Expire, IInv, TypeOK, Row
<1>2. TypeOK'
  BY <1>1 DEF Expire, IInv, TypeOK
<1>3. RowsWellFormed' /\ OneActivePerUser' /\ PrefixHasOneOwner'
  BY <1>1 DEF IInv, RowsWellFormed, OneActivePerUser, PrefixHasOneOwner, Exists, Active
<1>4. ReadsStayOwned'
  <2> SUFFICES ASSUME NEW o \in Txns PROVE OwnedRead(o)'
    BY DEF ReadsStayOwned
  <2>1. OwnedRead(o) /\ txn[o].cur \in RowId \cup {NoRow} /\ txn'[o] = txn[o]
    BY DEF IInv, ReadsStayOwned, TypeOK, Txn, Expire
  <2>2. QED
    BY <1>1, <2>1 DEF OwnedRead, Exists
<1>5. QED
  BY <1>2, <1>3, <1>4 DEF IInv

\* Steps that touch only the account flags and the authentications.
LEMMA QuietStepPreservesIInv ==
    ASSUME IInv, UNCHANGED <<rows, txn, audit>>,
           active' \in [Users -> BOOLEAN], ver' \in [Verifiers -> Verification]
    PROVE  IInv'
BY DEF IInv, TypeOK, RowsWellFormed, ReadsStayOwned, OwnedRead, OneActivePerUser,
       PrefixHasOneOwner, Exists, Active

-------------------------------------------------------------------------------
(***************************************************************************)
(* Every step, and the safety theorems                                     *)
(***************************************************************************)

\* The first SELECT of verify matches only the live row whose secret it got.
LEMMA MatchIsOwnRow ==
    ASSUME IInv, NEW v \in Verifiers, NEW k \in TokenId, NEW s \in RowId \cup {NoRow},
           VerifySelect(v, k, s)
    PROVE  /\ s \in RowId /\ Active(s)
           /\ ver' \in [Verifiers -> Verification]
           /\ ver'[v].row = s
           /\ ver'[v].barred => ~active[rows[s].user]
           /\ \A w \in Verifiers \ {v} : ver'[w] = ver[w]
<1> DEFINE b == s = NoRow \/ Dead(s)
<1>1. s \in ActiveOfToken(k) /\ rows[s].ttl # "expired"
  BY DEF VerifySelect, SelectOutcome
<1>2. s \in RowId /\ Active(s) /\ rows[s].token_id = k
  BY <1>1 DEF ActiveOfToken
<1>3. \A i \in ActiveOfToken(k) : i = s
  BY <1>2 DEF ActiveOfToken, IInv, OneActivePerUser, PrefixHasOneOwner, Active, Exists
<1>4. (CHOOSE i \in ActiveOfToken(k) : TRUE) = s
  BY <1>1, <1>3
<1>5. b \in BOOLEAN /\ (b => ~active[rows[s].user])
  BY <1>1, <1>2, NullsAreNew DEF Dead
<1>6. ver' = [ver EXCEPT ![v] = [row |-> s, barred |-> b]]
  BY <1>4 DEF VerifySelect
<1> HIDE DEF b
<1>7. QED
  BY <1>2, <1>5, <1>6 DEF IInv, TypeOK, Verification

LEMMA NextPreservesIInv == IInv /\ [Next]_vars => IInv'
<1> SUFFICES ASSUME IInv, [Next]_vars PROVE IInv'
  OBVIOUS
<1>1. ASSUME NEW t \in Txns, NEW u \in Users, PortalIssue(t, u) PROVE IInv'
  BY <1>1, ChoosePreservesIInv DEF PortalIssue, Kinds
<1>2. ASSUME NEW t \in Txns, NEW u \in Users, CliIssue(t, u) PROVE IInv'
  BY <1>2, ChoosePreservesIInv DEF CliIssue, Kinds
<1>3. ASSUME NEW t \in Txns, NEW u \in Users, RevokeOfUser(t, u) PROVE IInv'
  <2>1. PICK r \in RowId : OneOrNone(ActiveOfUser(u), r) /\ StartRevoke(t, r)
    BY <1>3 DEF RevokeOfUser
  <2>2. Active(r)
    BY <2>1, NullsAreNew DEF OneOrNone, ActiveOfUser
  <2>3. QED
    BY <1>3, <2>1, <2>2, StartRevokePreservesIInv DEF RevokeOfUser
<1>4. ASSUME NEW t \in Txns, NEW k \in TokenId, RevokeOfToken(t, k) PROVE IInv'
  <2>1. PICK r \in RowId : OneOrNone(ActiveOfToken(k), r) /\ StartRevoke(t, r)
    BY <1>4 DEF RevokeOfToken
  <2>2. Active(r)
    BY <2>1, NullsAreNew DEF OneOrNone, ActiveOfToken
  <2>3. QED
    BY <1>4, <2>1, <2>2, StartRevokePreservesIInv DEF RevokeOfToken
<1>5. ASSUME NEW t \in Txns, NEW k \in TokenId, ForceRotate(t, k) PROVE IInv'
  <2>1. PICK r \in RowId :
          /\ OneOrNone(ActiveOfToken(k), r)
          /\ txn' = [txn EXCEPT ![t] = [pc |-> "found", kind |-> "force",
                                        user |-> rows[r].user, cur |-> NoRow]]
    BY <1>5 DEF ForceRotate
  <2> DEFINE x == [pc |-> "found", kind |-> "force", user |-> rows[r].user, cur |-> NoRow]
  <2>2. Active(r)
    BY <2>1, NullsAreNew DEF OneOrNone, ActiveOfToken
  <2>3. rows[r].user \in Users
    BY <2>2 DEF IInv, RowsWellFormed, Active, Exists
  <2>4. x \in Txn /\ x.pc = "found" /\ x.user \in Users /\ x.cur = NoRow
    BY <2>3 DEF Txn, Kinds
  <2>5. txn' = [txn EXCEPT ![t] = x]
    BY <2>1
  <2> HIDE DEF x
  <2>6. QED
    BY <1>5, <2>4, <2>5, TxnStepPreservesIInv DEF ForceRotate
<1>6. ASSUME NEW t \in Txns, ForceChoose(t) PROVE IInv'
  <2>1. txn[t].user \in Users
    BY <1>6 DEF ForceChoose, IInv, ReadsStayOwned, OwnedRead
  <2>2. QED
    BY <1>6, <2>1, ChoosePreservesIInv DEF ForceChoose, Kinds
<1>7. ASSUME NEW t \in Txns, FlushRevocation(t) PROVE IInv'
  <2> DEFINE x == [txn[t] EXCEPT !.pc = "flushed"]
  <2>1. txn[t] \in Txn /\ OwnedRead(t) /\ txn[t].pc = "chosen" /\ txn[t].cur # NoRow
    BY <1>7 DEF FlushRevocation, IInv, TypeOK, ReadsStayOwned
  <2>2. x \in Txn /\ x.user = txn[t].user /\ x.cur = txn[t].cur
    BY <2>1 DEF Txn
  <2>3. txn' = [txn EXCEPT ![t] = x]
    BY <1>7 DEF FlushRevocation
  <2>4. txn[t].cur \in RowId
    BY <2>1 DEF Txn
  <2> HIDE DEF x
  <2>5. QED
    BY <1>7, <2>1, <2>2, <2>3, <2>4, TxnStepPreservesIInv DEF FlushRevocation, OwnedRead
<1>8. ASSUME NEW t \in Txns, CommitIssue(t) PROVE IInv'
  BY <1>8, CommitIssuePreservesIInv
<1>9. ASSUME NEW t \in Txns, IndexRejects(t) \/ Abort(t) PROVE IInv'
  BY <1>9, IdlePreservesIInv DEF IndexRejects, Abort
<1>10. ASSUME NEW t \in Txns, CommitRevoke(t) PROVE IInv'
  BY <1>10, CommitRevokePreservesIInv
<1>11. ASSUME NEW u \in Users, Deactivate(u) \/ Reactivate(u) PROVE IInv'
  <2>1. active' \in [Users -> BOOLEAN]
    BY <1>11 DEF Deactivate, Reactivate, IInv, TypeOK
  <2>2. ver' \in [Verifiers -> Verification]
    <3>1. \A v \in Verifiers : [ver[v] EXCEPT !.barred = FALSE] \in Verification
      BY DEF IInv, TypeOK, Verification
    <3>2. CASE Deactivate(u)
      BY <3>2 DEF Deactivate, IInv, TypeOK
    <3>3. CASE Reactivate(u)
      BY <3>1, <3>3 DEF Reactivate, IInv, TypeOK
    <3>4. QED
      BY <1>11, <3>2, <3>3
  <2>3. QED
    BY <1>11, <2>1, <2>2, QuietStepPreservesIInv DEF Deactivate, Reactivate
<1>12. ASSUME NEW i \in RowId, Expire(i) PROVE IInv'
  BY <1>12, ExpirePreservesIInv
<1>13. ASSUME NEW v \in Verifiers, NEW k \in TokenId, NEW s \in RowId \cup {NoRow},
              VerifySelect(v, k, s)
       PROVE  IInv'
  <2>2. ver' \in [Verifiers -> Verification]
    BY <1>13, MatchIsOwnRow
  <2>3. UNCHANGED <<rows, active, txn, audit>>
    BY <1>13 DEF VerifySelect
  <2>4. active' \in [Users -> BOOLEAN]
    BY <2>3 DEF IInv, TypeOK
  <2>5. QED
    BY <2>2, <2>3, <2>4, QuietStepPreservesIInv
<1>14. ASSUME NEW v \in Verifiers, VerifyUser(v) PROVE IInv'
  <2>1. ver' \in [Verifiers -> Verification] /\ UNCHANGED <<rows, active, txn, audit>>
    BY <1>14 DEF VerifyUser, Answers, NoVerification, IInv, TypeOK, Verification
  <2>2. QED
    BY <2>1, QuietStepPreservesIInv DEF IInv, TypeOK
<1>15. CASE UNCHANGED vars
  BY <1>15, QuietStepPreservesIInv DEF vars, IInv, TypeOK
<1>16. QED
  BY <1>1, <1>2, <1>3, <1>4, <1>5, <1>6, <1>7, <1>8, <1>9, <1>10, <1>11, <1>12, <1>13,
     <1>14, <1>15
  DEF Next, Request, Progress, Verify

\* The inductive invariant holds in every reachable state of registry.py's
\* requests, whatever they interleave.
THEOREM Invariance == Spec => []IInv
<1>1. Init => IInv
  BY InitEstablishesIInv
<1>2. IInv /\ [Next]_vars => IInv'
  BY NextPreservesIInv
<1>3. QED
  BY <1>1, <1>2, PTL DEF Spec

\* Every variable keeps its type.
THEOREM TypeCorrect == Spec => []TypeOK
<1>1. IInv => TypeOK
  BY DEF IInv
<1>2. QED
  BY <1>1, Invariance, PTL

\* No SELECT of registry.py that expects at most one row ever meets two: no
\* user and no token_id has two active rows.
THEOREM NeverAmbiguousHolds == Spec => []NeverAmbiguous
<1>1. IInv => NeverAmbiguous
  BY DEF IInv, NeverAmbiguous, OneActivePerUser, PrefixHasOneOwner, Active, Exists
<1>2. QED
  BY <1>1, Invariance, PTL

\* A token_id names one person for ever.
THEOREM PrefixHasOneOwnerHolds == Spec => []PrefixHasOneOwner
<1>1. IInv => PrefixHasOneOwner
  BY DEF IInv
<1>2. QED
  BY <1>1, Invariance, PTL


-------------------------------------------------------------------------------
(***************************************************************************)
(* Authentication                                                          *)
(***************************************************************************)

\* While an authentication is under way the row it matched exists, and what
\* it was given is barred only as long as the owner is inactive.
MatchInv ==
    \A v \in Verifiers : ver[v].row # NoRow =>
        /\ Exists(ver[v].row)
        /\ ver[v].barred => ~active[rows[ver[v].row].user]

LEMMA StepKeepsRows ==
    ASSUME IInv, [Next]_vars, NEW i \in RowId, Exists(i)
    PROVE  Exists(i)' /\ rows'[i].user = rows[i].user
<1>1. ASSUME NEW t \in Txns, CommitIssue(t) PROVE Exists(i)' /\ rows'[i].user = rows[i].user
  <2>1. PICK j \in RowId, k \in TokenId : Minted(t, j, k)
    BY <1>1, CommitIssueMints
  <2>2. QED
    BY <2>1 DEF Minted
<1>2. ASSUME NEW t \in Txns, CommitRevoke(t) PROVE Exists(i)' /\ rows'[i].user = rows[i].user
  BY <1>2 DEF CommitRevoke, IInv, TypeOK, Row, Exists
<1>3. ASSUME NEW j \in RowId, Expire(j) PROVE Exists(i)' /\ rows'[i].user = rows[i].user
  BY <1>3 DEF Expire, IInv, TypeOK, Row, Exists
<1>4. CASE UNCHANGED rows
  BY <1>4 DEF Exists
<1>5. QED
  BY <1>1, <1>2, <1>3, <1>4
  DEF Next, vars, Request, Progress, Verify, PortalIssue, CliIssue, RevokeOfUser, ForceRotate,
      RevokeOfToken, ForceChoose, FlushRevocation, IndexRejects, Abort, Deactivate,
      Reactivate, VerifySelect, VerifyUser, Answers

LEMMA MatchInvStep == IInv /\ MatchInv /\ [Next]_vars => MatchInv'
<1> SUFFICES ASSUME IInv, MatchInv, [Next]_vars, NEW v \in Verifiers, ver'[v].row # NoRow
             PROVE  /\ Exists(ver[v].row)'
                    /\ ver'[v].barred => ~active'[rows'[ver'[v].row].user]
  BY DEF MatchInv
<1> USE NullsAreNew
<1>1. ASSUME NEW w \in Verifiers, NEW k \in TokenId, NEW s \in RowId \cup {NoRow},
             VerifySelect(w, k, s)
      PROVE  /\ Exists(ver[v].row)'
             /\ ver'[v].barred => ~active'[rows'[ver'[v].row].user]
  <2>1. /\ s \in RowId /\ Active(s)
        /\ ver'[w].row = s
        /\ ver'[w].barred => ~active[rows[s].user]
        /\ \A x \in Verifiers \ {w} : ver'[x] = ver[x]
    BY <1>1, MatchIsOwnRow
  <2>2. rows' = rows /\ active' = active
    BY <1>1 DEF VerifySelect
  <2>3. CASE v = w
    BY <2>1, <2>2, <2>3 DEF Exists, Active
  <2>4. CASE v # w
    BY <2>1, <2>2, <2>4 DEF Exists, MatchInv
  <2>5. QED
    BY <2>3, <2>4
<1>2. ASSUME NEW w \in Verifiers, VerifyUser(w)
      PROVE  /\ Exists(ver[v].row)'
             /\ ver'[v].barred => ~active'[rows'[ver'[v].row].user]
  <2>1. v # w /\ ver'[v] = ver[v]
    BY <1>2 DEF VerifyUser, Answers, NoVerification, IInv, TypeOK
  <2>2. QED
    BY <1>2, <2>1 DEF VerifyUser, Answers, MatchInv, Exists
<1>3. ASSUME ver' = ver, active' = active
      PROVE  /\ Exists(ver[v].row)'
             /\ ver'[v].barred => ~active'[rows'[ver'[v].row].user]
  <2>1. ver[v].row \in RowId /\ Exists(ver[v].row)
    BY <1>3 DEF MatchInv, IInv, TypeOK, Verification
  <2>2. Exists(ver[v].row)' /\ rows'[ver[v].row].user = rows[ver[v].row].user
    BY <1>3, <2>1, StepKeepsRows DEF Exists
  <2>3. QED
    BY <1>3, <2>2 DEF MatchInv
<1>4. ASSUME NEW u \in Users, Deactivate(u) \/ Reactivate(u)
      PROVE  /\ Exists(ver[v].row)'
             /\ ver'[v].barred => ~active'[rows'[ver'[v].row].user]
  <2>1. ver[v] \in Verification /\ rows' = rows
    BY <1>4 DEF Deactivate, Reactivate, IInv, TypeOK
  <2>2. /\ ver'[v].row = ver[v].row
        /\ ver'[v].barred => ver[v].barred
        /\ Reactivate(u) /\ rows[ver[v].row].user = u => ~ver'[v].barred
    BY <1>4, <2>1 DEF Deactivate, Reactivate, Verification
  <2>3. Exists(ver[v].row) /\ (ver[v].barred => ~active[rows[ver[v].row].user])
    BY <2>2 DEF MatchInv
  <2>4. rows[ver[v].row].user \in Users
    BY <2>1, <2>2, <2>3 DEF IInv, RowsWellFormed, Verification
  <2>5. CASE Deactivate(u)
    BY <2>1, <2>2, <2>3, <2>4, <2>5 DEF Deactivate, IInv, TypeOK, Exists
  <2>6. CASE Reactivate(u)
    BY <2>1, <2>2, <2>3, <2>4, <2>6 DEF Reactivate, IInv, TypeOK, Exists
  <2>7. QED
    BY <1>4, <2>5, <2>6
<1>5. QED
  BY <1>1, <1>2, <1>3, <1>4
  DEF Next, vars, Request, Progress, Verify, PortalIssue, CliIssue, RevokeOfUser, ForceRotate,
      RevokeOfToken, ForceChoose, FlushRevocation, CommitIssue, CommitRevoke, IndexRejects,
      Abort, Expire

\* verify never accepts a secret that was revoked, rotated away, expired or
\* whose owner was deactivated when the authentication began.
THEOREM DeadTokenNeverAcceptedHolds == Spec => DeadTokenNeverAccepted
<1>1. Init => MatchInv
  BY DEF Init, MatchInv, NoVerification
<1>2. IInv /\ MatchInv /\ [Next]_vars => MatchInv'
  BY MatchInvStep
<1>3. MatchInv => [\A v \in Verifiers : Answers(v, "ok") => ~ver[v].barred]_vars
  BY DEF MatchInv, Answers
<1>4. QED
  BY <1>1, <1>2, <1>3, Invariance, PTL DEF Spec, DeadTokenNeverAccepted


-------------------------------------------------------------------------------
(***************************************************************************)
(* The registry implements the lease it promises                           *)
(***************************************************************************)

rowOwner == [i \in RowId |-> rows[i].user]
liveRows == {i \in RowId : Active(i)}

LEMMA InitImplementsLease == Init => Lease!Init
<1> SUFFICES ASSUME Init PROVE Lease!Init
  OBVIOUS
<1> USE NullsAreNew
<1>1. \A i \in RowId : rows[i].user \in Users \cup {NoUser}
  BY DEF Init, AbsentRow, LegacyRow
<1>2. \A i \in RowId : Active(i) <=> rows[i].user # NoUser
  BY DEF Init, AbsentRow, LegacyRow, Active
<1>3. \A i, j \in RowId : Active(i) /\ Active(j) /\ rows[i].user = rows[j].user => i = j
  BY DEF Init
<1>4. QED
  BY <1>1, <1>2, <1>3 DEF Lease!Init, Lease!OneLivePerUser

LEMMA StepImplementsLease ==
    IInv /\ [Next]_vars => [Lease!Next]_<<rowOwner, liveRows>>
<1> SUFFICES ASSUME IInv, [Next]_vars PROVE [Lease!Next]_<<rowOwner, liveRows>>
  OBVIOUS
<1>1. ASSUME NEW t \in Txns, CommitIssue(t) PROVE Lease!Next
  <2>1. PICK i \in RowId, k \in TokenId : Minted(t, i, k)
    BY <1>1, CommitIssueMints
  <2> DEFINE u == txn[t].user
  <2>2. u \in Users /\ rows[i].user = NoUser
    BY <2>1 DEF Minted, IInv, RowsWellFormed
  <2>3. rowOwner' = [rowOwner EXCEPT ![i] = u]
    BY <2>1, ZenonT(60) DEF Minted, rowOwner
  <2>4. \A j \in RowId : j \in liveRows' <=> j = i \/ (j \in liveRows /\ rowOwner[j] # u)
    <3>1. ASSUME NEW j \in RowId \ {i} PROVE Active(j)' <=> Active(j) /\ rows[j].user # u
      BY <2>1, NullsAreNew DEF Minted
    <3>2. Active(i)'
      BY <2>1 DEF Minted
    <3>3. QED
      BY <3>1, <3>2 DEF liveRows, rowOwner
  <2>5. liveRows' = {j \in liveRows : rowOwner[j] # u} \cup {i}
    BY <2>4 DEF liveRows
  <2>6. Lease!Mint(i, u)
    BY <2>2, <2>3, <2>5 DEF Lease!Mint, rowOwner, liveRows
  <2>7. \E x \in Users : Lease!Mint(i, x)
    BY <2>2, <2>6 DEF Lease!Mint
  <2>8. QED
    BY <2>7 DEF Lease!Next
<1>2. ASSUME NEW t \in Txns, CommitRevoke(t) PROVE [Lease!Next]_<<rowOwner, liveRows>>
  <2> DEFINE c == txn[t].cur
  <2>1. c \in RowId /\ rows' = [rows EXCEPT ![c].status = "revoked"]
    BY <1>2 DEF CommitRevoke, IInv, ReadsStayOwned, OwnedRead
  <2>2. rowOwner' = rowOwner
    BY <2>1 DEF rowOwner, IInv, TypeOK, Row
  <2>3. \A j \in RowId : Active(j)' <=> Active(j) /\ j # c
    BY <2>1 DEF IInv, TypeOK, Row, Active
  <2>4. liveRows' = liveRows \ {c}
    BY <2>3 DEF liveRows
  <2>5. CASE Active(c)
    <3>1. Lease!Revoke(c)
      BY <2>1, <2>2, <2>4, <2>5 DEF Lease!Revoke, rowOwner, liveRows
    <3>2. QED
      BY <2>1, <3>1 DEF Lease!Next
  <2>6. CASE ~Active(c)
    <3>1. liveRows' = liveRows
      BY <2>4, <2>6 DEF liveRows
    <3>2. QED
      BY <2>2, <3>1
  <2>7. QED
    BY <2>5, <2>6
<1>3. ASSUME NEW i \in RowId, Expire(i) PROVE UNCHANGED <<rowOwner, liveRows>>
  BY <1>3 DEF Expire, IInv, TypeOK, Row, rowOwner, liveRows, Active
<1>4. CASE UNCHANGED rows
  BY <1>4 DEF rowOwner, liveRows, Active
<1>5. QED
  BY <1>1, <1>2, <1>3, <1>4
  DEF Next, vars, Request, Progress, Verify, PortalIssue, CliIssue, RevokeOfUser, ForceRotate,
      RevokeOfToken, ForceChoose, FlushRevocation, IndexRejects, Abort, Deactivate,
      Reactivate, VerifySelect, VerifyUser, Answers

\* The registry, with its sessions, locks and prefixes, implements the promise
\* of TokenLease: one live token per user, and dead tokens stay dead.
THEOREM RefinesLeaseHolds == Spec => RefinesLease
<1>1. Init => Lease!Init
  BY InitImplementsLease
<1>2. IInv /\ [Next]_vars => [Lease!Next]_(Lease!vars)
  BY StepImplementsLease DEF Lease!vars, rowOwner, liveRows
<1>3. QED
  BY <1>1, <1>2, Invariance, PTL DEF Spec, RefinesLease, Lease!Spec

-------------------------------------------------------------------------------
(***************************************************************************)
(* The audit trail                                                         *)
(***************************************************************************)

LEMMA AuditInit == Init => AuditExplainsTable
<1> SUFFICES ASSUME Init PROVE AuditExplainsTable
  OBVIOUS
<1>1. \A i \in RowId : audit[i] = (IF Exists(i) THEN {"token_issued"} ELSE {})
  BY DEF Init
<1>2. \A i \in RowId : rows[i].status # "revoked"
  BY DEF Init, AbsentRow, LegacyRow
<1>3. \A i \in RowId : Exists(i) => audit[i] \cap MintEvents = {"token_issued"}
  BY <1>1 DEF MintEvents
<1>4. \A i \in RowId : ~Exists(i) => audit[i] \cap MintEvents = {}
  BY <1>1
<1>5. QED
  BY <1>1, <1>2, <1>3, <1>4 DEF AuditExplainsTable, MintEvents

LEMMA AuditStep == IInv /\ AuditExplainsTable /\ [Next]_vars => AuditExplainsTable'
<1> SUFFICES ASSUME IInv, AuditExplainsTable, [Next]_vars PROVE AuditExplainsTable'
  OBVIOUS
<1>1. ASSUME NEW t \in Txns, CommitIssue(t) PROVE AuditExplainsTable'
  <2>1. PICK i \in RowId, k \in TokenId :
          /\ Minted(t, i, k)
          /\ rows' \in [RowId -> Row]
          /\ audit' = [audit EXCEPT ![i] = {MintEvent(t)} \cup
                (IF txn[t].kind = "force" THEN {"admin_force_rotate"} ELSE {})]
    BY <1>1, CommitIssueMints
  <2> DEFINE c == txn[t].cur
  <2>2. audit'[i] \cap MintEvents = {MintEvent(t)} /\ MintEvent(t) \in MintEvents
    BY <2>1 DEF IInv, TypeOK, MintEvents, MintEvent
  <2>3. \A j \in RowId \ {i} : audit'[j] = audit[j]
    BY <2>1 DEF IInv, TypeOK
  <2>4. "token_rotated" \in audit'[i] <=> c # NoRow
    BY <2>1 DEF IInv, TypeOK, MintEvent
  <2>5. \A j \in RowId \ {i} : rows[j].status = "revoked" => rows'[j].status = "revoked"
    BY <2>1 DEF Minted, Active, Exists, IInv, TypeOK, Row
  <2>6. \A j \in RowId \ {i} : rows'[j].status = "revoked" => rows[j].status = "revoked" \/ j = c
    BY <2>1 DEF Minted, Active, Exists, IInv, TypeOK, Row
  <2>7. rows'[i].status = "active"
    BY <2>1 DEF Minted, Active
  <2>8. ASSUME NEW j \in RowId \ {i}, "token_rotated" \in audit'[j]
        PROVE  \E x \in RowId \ {j} : rows'[x].status = "revoked"
                                      /\ rows'[x].token_id = rows'[j].token_id
    <3>1. PICK x \in RowId \ {j} : rows[x].status = "revoked"
                                   /\ rows[x].token_id = rows[j].token_id
      BY <2>3, <2>8 DEF AuditExplainsTable
    <3>2. x # i
      BY <2>1, <3>1 DEF Minted, Exists
    <3>3. QED
      BY <2>1, <2>5, <3>1, <3>2 DEF Minted
  <2>9. "token_rotated" \in audit'[i] =>
           \E x \in RowId \ {i} : rows'[x].status = "revoked"
                                  /\ rows'[x].token_id = rows'[i].token_id
    <3>1. c # NoRow => c \in RowId \ {i} /\ rows'[c].status = "revoked"
                       /\ rows'[c].token_id = rows'[i].token_id
      BY <2>1 DEF Minted
    <3>2. QED
      BY <2>4, <3>1
  <2>10. ASSUME NEW j \in RowId, rows'[j].status = "revoked"
         PROVE  \/ "token_revoked" \in audit'[j]
                \/ \E x \in RowId \ {j} : /\ "token_rotated" \in audit'[x]
                                          /\ rows'[x].token_id = rows'[j].token_id
    <3>1. j # i
      BY <2>7, <2>10
    <3>2. CASE rows[j].status = "revoked"
      <4>1. CASE "token_revoked" \in audit[j]
        BY <2>3, <3>1, <4>1
      <4>2. CASE \E x \in RowId \ {j} : /\ "token_rotated" \in audit[x]
                                        /\ rows[x].token_id = rows[j].token_id
        <5>1. PICK x \in RowId \ {j} : /\ "token_rotated" \in audit[x]
                                       /\ rows[x].token_id = rows[j].token_id
          BY <4>2
        <5>2. x # i
          <6>1. ~Exists(i)
            BY <2>1 DEF Minted
          <6>2. "token_rotated" \notin audit[i]
            <7>1. ASSUME "token_rotated" \in audit[i] PROVE FALSE
              <8>1. PICK y \in RowId \ {i} : rows[y].status = "revoked"
                                             /\ rows[y].token_id = rows[i].token_id
                BY <7>1 DEF AuditExplainsTable
              <8>2. QED
                BY <6>1, <8>1, NullsAreNew DEF IInv, RowsWellFormed, Exists
            <7>2. QED
              BY <7>1
          <6>3. QED
            BY <5>1, <6>2
        <5>3. QED
          BY <2>1, <2>3, <3>1, <5>1, <5>2 DEF Minted
      <4>3. QED
        BY <3>2, <4>1, <4>2 DEF AuditExplainsTable
    <3>3. CASE j = c
      <4>1. "token_rotated" \in audit'[i] /\ rows'[i].token_id = rows'[j].token_id
        BY <2>1, <2>4, <3>1, <3>3, NullsAreNew DEF Minted
      <4>2. QED
        BY <3>1, <4>1
    <3>4. QED
      BY <2>6, <2>10, <3>1, <3>2, <3>3
  <2>11. ASSUME NEW j \in RowId
         PROVE  Exists(j)' <=> \E e \in MintEvents : audit'[j] \cap MintEvents = {e}
    <3>1. CASE j = i
      BY <2>1, <2>2, <3>1 DEF Minted
    <3>2. CASE j # i
      BY <2>1, <2>3, <3>2 DEF Minted, AuditExplainsTable
    <3>3. QED
      BY <3>1, <3>2
  <2>12. QED
    BY <2>8, <2>9, <2>10, <2>11 DEF AuditExplainsTable
<1>2. ASSUME NEW t \in Txns, CommitRevoke(t) PROVE AuditExplainsTable'
  <2> DEFINE c == txn[t].cur
  <2>1. /\ c \in RowId /\ Exists(c)
        /\ rows' = [rows EXCEPT ![c].status = "revoked"]
        /\ audit' = [audit EXCEPT ![c] = @ \cup {"token_revoked"}]
    BY <1>2, NullsAreNew DEF CommitRevoke, IInv, ReadsStayOwned, OwnedRead
  <2>2. \A j \in RowId : /\ rows'[j].token_id = rows[j].token_id
                         /\ Exists(j)' <=> Exists(j)
                         /\ rows'[j].status = "revoked" <=> rows[j].status = "revoked" \/ j = c
    BY <2>1 DEF IInv, TypeOK, Row, Exists
  <2>3. \A j \in RowId : audit'[j] = audit[j] \cup (IF j = c THEN {"token_revoked"} ELSE {})
    BY <2>1 DEF IInv, TypeOK
  <2>4. \A j \in RowId : /\ audit'[j] \cap MintEvents = audit[j] \cap MintEvents
                         /\ "token_rotated" \in audit'[j] <=> "token_rotated" \in audit[j]
                         /\ "token_revoked" \in audit'[j] <=> "token_revoked" \in audit[j] \/ j = c
    BY <2>3 DEF MintEvents
  <2>5. QED
    BY <2>2, <2>4 DEF AuditExplainsTable
<1>3. ASSUME NEW i \in RowId, Expire(i) PROVE AuditExplainsTable'
  <2>1. \A j \in RowId : /\ rows'[j].token_id = rows[j].token_id
                         /\ rows'[j].status = rows[j].status
                         /\ audit'[j] = audit[j]
    BY <1>3 DEF Expire, IInv, TypeOK, Row
  <2>2. QED
    BY <2>1 DEF AuditExplainsTable, Exists
<1>4. CASE UNCHANGED <<rows, audit>>
  BY <1>4 DEF AuditExplainsTable, Exists
<1>5. QED
  BY <1>1, <1>2, <1>3, <1>4
  DEF Next, vars, Request, Progress, Verify, PortalIssue, CliIssue, RevokeOfUser, ForceRotate,
      RevokeOfToken, ForceChoose, FlushRevocation, IndexRejects, Abort, Deactivate,
      Reactivate, VerifySelect, VerifyUser, Answers

\* The audit events of registry.py account for every row of the table.
THEOREM AuditExplainsTableHolds == Spec => []AuditExplainsTable
<1>1. Init => AuditExplainsTable
  BY AuditInit
<1>2. IInv /\ AuditExplainsTable /\ [Next]_vars => AuditExplainsTable'
  BY AuditStep
<1>3. QED
  BY <1>1, <1>2, Invariance, PTL DEF Spec

-------------------------------------------------------------------------------
(***************************************************************************)
(* The command line client                                                 *)
(*                                                                         *)
(* What is kept from step to step: the stage of each process fits its      *)
(* kind, its token and its scan; while no two commands wrote reports at    *)
(* once, one writes at most, and the .md file is its; the person has one   *)
(* live token at most; and a login that runs alone holds it unless a       *)
(* redirect or a page of the browser does.                                 *)
(***************************************************************************)

\* What the state of a process says of its kind, its token and its scan.
Stage(p, n, a) ==
    /\ p.pc = "new" => p.kind = "none"
    /\ p.pc = "listening" => p.kind = "login" /\ p.token = NoSecret
    /\ p.pc = "prompt" => p.kind = "manual" /\ p.token = NoSecret
    /\ p.pc \in {"saving", "replacing"} => p.kind \in {"login", "manual"} /\ p.token \in Tokens
    /\ p.pc \in {"revoking", "removing"} => p.kind = "logout"
    /\ p.pc \in {"posting", "waiting", "markdown", "html"} => p.kind = "scan"
    /\ p.pc # "done" => p.exit = NotYet
    /\ n \in {0, 1} /\ (a = "none" <=> n = 0)
    /\ (p.kind # "scan" \/ p.pc = "posting") => n = 0
    /\ p.pc = "waiting" => n = 1
    /\ p.pc \in {"markdown", "html"} => a \in {"clean", "risky", "oversized"}
    /\ p.kind = "scan" /\ p.exit = 0 => a \in {"clean", "oversized"}
    /\ p.kind = "scan" /\ p.exit = 3 => a = "failed"

\* While no two commands wrote reports at the same time, one writes at most, and
\* the .md file is its.
OneWriter ==
    "report" \notin overlaps =>
        \A c \in Commands : At(c, "html") =>
            /\ report.markdown = c
            /\ \A d \in Commands : At(d, "html") => d = c

\* Nothing has put an older token into the config.
Alone == overlaps \cap {"login", "stale paste"} = {}

\* The browser has the token.
Carried(t) == t \in shown \/ \E c \in Commands : <<c, t>> \in redirects

\* The person has one token at most, and a redirect is of a login.
OneLive == /\ \A t \in live : owner[t] = User
           /\ \A s, t \in live : s = t
           /\ \A c \in Commands, t \in Tokens : <<c, t>> \in redirects => process[c].kind = "login"

\* A login that is alone has what it replaces the config by, and no live token
\* but its own is anywhere but in the browser.
LoginAlone ==
    Alone =>
      /\ \A c, d \in Commands : SigningIn(c) /\ SigningIn(d) => c = d
      /\ \A c \in Commands : At(c, "replacing") => tmp = process[c].token
      /\ \A c \in Commands, t \in live :
           SigningIn(c) /\ process[c].token # NoSecret => t = process[c].token \/ Carried(t)
      /\ \A c \in Commands, s \in Tokens, t \in live :
           At(c, "listening") /\ <<c, s>> \in redirects => Carried(t)

CliIInv ==
    /\ CliTypeOK
    /\ \A c \in Commands : Stage(process[c], scans[c], answer[c])
    /\ OneWriter /\ ReportsAgree
    /\ OneLive /\ LoginAlone /\ LiveTokenNotLost

-------------------------------------------------------------------------------
\* Nothing has run, and the files are absent.
LEMMA CliInitEstablishesIInv == ASSUME CliAssumption, CliInit PROVE CliIInv
<1>1. CliTypeOK
  BY DEF CliInit, CliTypeOK, Process, CommandKinds, Attempts, ScanAnswers, NotYet
<1>2. \A c \in Commands : Stage(process[c], scans[c], answer[c])
  BY DEF CliInit, Stage, NotYet
<1>3. QED
  BY <1>1, <1>2 DEF CliInit, CliIInv, OneWriter, ReportsAgree, OneLive, LoginAlone,
       LiveTokenNotLost, At, SigningIn

\* The states a command goes to: on, into a role, to its end, or with a token.
On(q, pc) == [q EXCEPT !.pc = pc]
As(q, kind, pc, token) == [q EXCEPT !.kind = kind, !.pc = pc, !.token = token]
Ended(q, code) == [q EXCEPT !.pc = "done", !.exit = code]
Holding(q, t) == [q EXCEPT !.pc = "saving", !.token = t]
Again(q) == [q EXCEPT !.attempt = 2]

Steps == {"new", "listening", "prompt", "saving", "replacing", "revoking", "removing",
          "posting", "waiting", "markdown", "html", "done"}

\* What the fields of those states are.
LEMMA OnFields ==
    ASSUME NEW q \in Process, NEW pc \in Steps, NEW p, p = On(q, pc)
    PROVE  p \in Process /\ p.pc = pc /\ p.kind = q.kind /\ p.token = q.token /\ p.exit = q.exit
BY DEF On, Process, Steps

\* A process that ended has its kind and its token still.
LEMMA EndedFields ==
    ASSUME NEW q \in Process, NEW code \in {0, 1, 2, 3}, NEW p, p = Ended(q, code)
    PROVE  p \in Process /\ p.pc = "done" /\ p.kind = q.kind /\ p.token = q.token /\ p.exit = code
<1>1. code \in 0..4
  OBVIOUS
<1>2. QED
  BY <1>1 DEF Ended, Process

\* A process that took its role has the fields main() gave it.
LEMMA AsFields ==
    ASSUME NEW q \in Process, NEW kind \in CommandKinds, NEW pc \in Steps,
           NEW token \in Tokens \cup {NoSecret}, NEW p, p = As(q, kind, pc, token)
    PROVE  p \in Process /\ p.pc = pc /\ p.kind = kind /\ p.token = token /\ p.exit = q.exit
BY DEF As, Process, Steps

\* A process that got a token saves it next.
LEMMA HoldingFields ==
    ASSUME NEW q \in Process, NEW t \in Tokens, NEW p, p = Holding(q, t)
    PROVE  p \in Process /\ p.pc = "saving" /\ p.kind = q.kind /\ p.token = t /\ p.exit = q.exit
BY DEF Holding, Process

\* The retry after a 429 changes the attempt alone.
LEMMA AgainFields ==
    ASSUME NEW q \in Process, NEW p, p = Again(q)
    PROVE  p \in Process /\ p.pc = q.pc /\ p.kind = q.kind /\ p.token = q.token /\ p.exit = q.exit
BY DEF Again, Process, Attempts

GivenUp(q) == [q EXCEPT !.kind = "scan", !.pc = "done", !.exit = 2]

\* A scan that had nothing to send exits with 2.
LEMMA GivenUpFields ==
    ASSUME NEW q \in Process, NEW p, p = GivenUp(q)
    PROVE  p \in Process /\ p.pc = "done" /\ p.kind = "scan" /\ p.exit = 2
<1>1. 2 \in 0..4
  OBVIOUS
<1>2. QED
  BY <1>1 DEF GivenUp, Process, CommandKinds

\* A new command may take any of the roles.
LEMMA RoleIsSound ==
    ASSUME NEW q \in Process, NEW n, NEW a, Stage(q, n, a), q.pc = "new",
           NEW kind \in CommandKinds, NEW pc \in Steps, NEW token \in Tokens \cup {NoSecret},
           \/ kind = "login" /\ pc = "listening" /\ token = NoSecret
           \/ kind = "manual" /\ pc = "prompt" /\ token = NoSecret
           \/ kind = "logout" /\ pc \in {"revoking", "removing"}
           \/ kind = "scan" /\ pc = "posting"
    PROVE  As(q, kind, pc, token) \in Process /\ Stage(As(q, kind, pc, token), n, a)
<1> DEFINE p == As(q, kind, pc, token)
<1>1. p \in Process /\ p.pc = pc /\ p.kind = kind /\ p.token = token /\ p.exit = q.exit
  BY AsFields
<1> HIDE DEF p
<1>2. n = 0 /\ a = "none" /\ q.exit = NotYet
  BY DEF Stage
<1>3. Stage(p, n, a)
  BY <1>1, <1>2 DEF Stage, NotYet
<1>4. QED
  BY <1>1, <1>3 DEF p

\* A step of one command: the others stay what they were.
Moves(c, p) == process' = [process EXCEPT ![c] = p]

\* The state p is one that c may be in, with the scan it has.
Sound(c, p) == p \in Process /\ Stage(p, scans[c], answer[c])

\* Every handler but those that start and end a scan on the server takes the
\* command from a sound state to a sound state, and leaves its scan alone.
LEMMA MovesOfCommand ==
    ASSUME CliIInv, NEW c \in Commands,
           \/ BeginLogin(c) \/ BeginLogout(c) \/ BeginScan(c) \/ Paste(c)
           \/ SignIn(c) \/ SignOut(c) \/ Busy(c) \/ Refused(c)
           \/ Receive(c) \/ TimesOut(c) \/ WriteMarkdown(c) \/ WriteHtml(c) \/ Dies(c)
    PROVE  UNCHANGED work /\ \E p : Sound(c, p) /\ Moves(c, p)
<1> DEFINE q == process[c]
<1>0. q \in Process /\ Stage(q, scans[c], answer[c]) /\ process \in [Commands -> Process]
      /\ config \in Tokens \cup {NoSecret} /\ shown \subseteq Tokens
      /\ answer[c] \in ScanAnswers \cup {"none", "running"}
  BY DEF CliIInv, CliTypeOK
<1>1. CASE LoginTimesOut(c)
  <2>1. q.pc = "listening" /\ UNCHANGED work
        /\ Moves(c, Ended(q, 2))
    BY <1>0, <1>1 DEF LoginTimesOut, At, Goto, Become, Exit, Exited, Moves, Ended
  <2>2. Sound(c, Ended(q, 2))
    BY <1>0, <2>1, EndedFields DEF Sound, Stage, NotYet
  <2>3. QED
    BY <2>1, <2>2
<1>2. CASE WriteTmp(c)
  <2>1. q.pc = "saving" /\ UNCHANGED work
        /\ Moves(c, On(q, "replacing"))
    BY <1>0, <1>2 DEF WriteTmp, At, Goto, Become, Exit, Exited, Moves, On
  <2>2. Sound(c, On(q, "replacing"))
    BY <1>0, <2>1, OnFields DEF Sound, Stage, NotYet, Steps
  <2>3. QED
    BY <2>1, <2>2
<1>3. CASE Replace(c)
  <2>1. q.pc = "replacing" /\ UNCHANGED work
        /\ (Moves(c, Ended(q, 0)) \/ Moves(c, Ended(q, 1)))
    BY <1>0, <1>3 DEF Replace, At, Goto, Become, Exit, Exited, Moves, Ended
  <2>2. Sound(c, Ended(q, 0))
    BY <1>0, <2>1, EndedFields DEF Sound, Stage, NotYet
  <2>3. Sound(c, Ended(q, 1))
    BY <1>0, <2>1, EndedFields DEF Sound, Stage, NotYet
  <2>4. QED
    BY <2>1, <2>2, <2>3
<1>4. CASE BeginLogin(c)
  <2>1. q.pc = "new" /\ UNCHANGED work
        /\ (Moves(c, As(q, "login", "listening", NoSecret)) \/ Moves(c, As(q, "manual", "prompt", NoSecret)))
    BY <1>0, <1>4 DEF BeginLogin, At, Goto, Become, Exit, Exited, Moves, As
  <2>2. Sound(c, As(q, "login", "listening", NoSecret))
    BY <1>0, <2>1, RoleIsSound DEF Sound, Steps, CommandKinds
  <2>3. Sound(c, As(q, "manual", "prompt", NoSecret))
    BY <1>0, <2>1, RoleIsSound DEF Sound, Steps, CommandKinds
  <2>4. QED
    BY <2>1, <2>2, <2>3
<1>5. CASE BeginLogout(c)
  <2>1. q.pc = "new" /\ UNCHANGED work
        /\ (Moves(c, As(q, "logout", "revoking", config)) \/ Moves(c, As(q, "logout", "removing", config)))
    BY <1>0, <1>5 DEF BeginLogout, At, Goto, Become, Exit, Exited, Moves, As
  <2>2. Sound(c, As(q, "logout", "revoking", config))
    BY <1>0, <2>1, RoleIsSound DEF Sound, Steps, CommandKinds
  <2>3. Sound(c, As(q, "logout", "removing", config))
    BY <1>0, <2>1, RoleIsSound DEF Sound, Steps, CommandKinds
  <2>4. QED
    BY <2>1, <2>2, <2>3
<1>6. CASE RevokeRemote(c)
  <2>1. q.pc = "revoking" /\ UNCHANGED work
        /\ Moves(c, On(q, "removing"))
    BY <1>0, <1>6 DEF RevokeRemote, At, Goto, Become, Exit, Exited, Moves, On
  <2>2. Sound(c, On(q, "removing"))
    BY <1>0, <2>1, OnFields DEF Sound, Stage, NotYet, Steps
  <2>3. QED
    BY <2>1, <2>2
<1>7. CASE RemoveConfig(c)
  <2>1. q.pc = "removing" /\ UNCHANGED work
        /\ Moves(c, Ended(q, 0))
    BY <1>0, <1>7 DEF RemoveConfig, At, Goto, Become, Exit, Exited, Moves, Ended
  <2>2. Sound(c, Ended(q, 0))
    BY <1>0, <2>1, EndedFields DEF Sound, Stage, NotYet
  <2>3. QED
    BY <2>1, <2>2
<1>8. CASE BeginScan(c)
  <2>1. q.pc = "new" /\ UNCHANGED work
        /\ (Moves(c, As(q, "scan", "posting", config)) \/ Moves(c, GivenUp(q)))
    BY <1>0, <1>8 DEF BeginScan, NothingToScan, ScanGivenUp, At, Goto, Become, Exit, Exited, Moves, As, GivenUp, Ended
  <2>2. Sound(c, As(q, "scan", "posting", config))
    BY <1>0, <2>1, RoleIsSound DEF Sound, Steps, CommandKinds
  <2>3. Sound(c, GivenUp(q))
    BY <1>0, <2>1, GivenUpFields DEF Sound, Stage, NotYet
  <2>4. QED
    BY <2>1, <2>2, <2>3
<1>9. CASE Busy(c)
  <2>1. q.pc = "posting" /\ UNCHANGED work
        /\ (Moves(c, Again(q)) \/ Moves(c, Ended(q, 2)))
    BY <1>0, <1>9 DEF Busy, AfterBusy, At, Goto, Become, Exit, Exited, Moves, Again, Ended
  <2>2. Sound(c, Again(q))
    BY <1>0, <2>1, AgainFields DEF Sound, Stage, NotYet
  <2>3. Sound(c, Ended(q, 2))
    BY <1>0, <2>1, EndedFields DEF Sound, Stage, NotYet
  <2>4. QED
    BY <2>1, <2>2, <2>3
<1>10. CASE Refused(c)
  <2>1. q.pc = "posting" /\ UNCHANGED work
        /\ Moves(c, Ended(q, 2))
    BY <1>0, <1>10 DEF Refused, At, Goto, Become, Exit, Exited, Moves, Ended
  <2>2. Sound(c, Ended(q, 2))
    BY <1>0, <2>1, EndedFields DEF Sound, Stage, NotYet
  <2>3. QED
    BY <2>1, <2>2
<1>11. CASE Receive(c)
  <2>1. q.pc = "waiting" /\ UNCHANGED work
        /\ (\/ Moves(c, On(q, "markdown")) /\ answer[c] \notin {"running", "failed"}
            \/ Moves(c, Ended(q, 3)) /\ answer[c] = "failed")
    <3>1. CASE answer[c] = "failed"
      BY <1>0, <1>11, <3>1 DEF Receive, AfterAnswer, At, Exited, Moves, Ended
    <3>2. CASE answer[c] # "failed"
      <4>1. q.pc = "waiting" /\ UNCHANGED work /\ answer[c] # "running"
        BY <1>11 DEF Receive, At
      <4>2. AfterAnswer(c) = On(q, "markdown")
        BY <3>2 DEF AfterAnswer, On
      <4>3. Moves(c, On(q, "markdown"))
        BY <1>11, <4>2 DEF Receive, Moves
      <4>4. answer[c] \notin {"running", "failed"}
        BY <3>2, <4>1
      <4>5. QED
        BY <4>1, <4>3, <4>4
    <3>3. QED
      BY <3>1, <3>2
  <2>2. answer[c] \notin {"running", "failed"} => Sound(c, On(q, "markdown"))
    BY <1>0, <2>1, OnFields DEF Sound, Stage, NotYet, Steps, ScanAnswers
  <2>3. answer[c] = "failed" => Sound(c, Ended(q, 3))
    BY <1>0, <2>1, EndedFields DEF Sound, Stage, NotYet, ScanAnswers
  <2>4. QED
    BY <2>1, <2>2, <2>3
<1>12. CASE Dies(c)
  <2>1. q.pc # "new" /\ UNCHANGED work
        /\ Moves(c, Ended(q, 1))
    BY <1>0, <1>12 DEF Dies, At, Goto, Become, Exit, Exited, Moves, Ended
  <2>2. Sound(c, Ended(q, 1))
    BY <1>0, <2>1, EndedFields DEF Sound, Stage, NotYet
  <2>3. QED
    BY <2>1, <2>2
<1>13. CASE TimesOut(c)
  <2>1. q.pc = "waiting" /\ UNCHANGED work
        /\ Moves(c, Ended(q, 2))
    BY <1>0, <1>13 DEF TimesOut, AfterSilence, At, Goto, Become, Exit, Exited, Moves, Ended
  <2>2. Sound(c, Ended(q, 2))
    BY <1>0, <2>1, EndedFields DEF Sound, Stage, NotYet
  <2>3. QED
    BY <2>1, <2>2
<1>14. CASE WriteMarkdown(c)
  <2>1. q.pc = "markdown" /\ UNCHANGED work
        /\ Moves(c, On(q, "html"))
    BY <1>0, <1>14 DEF WriteMarkdown, At, Goto, Become, Exit, Exited, Moves, On
  <2>2. Sound(c, On(q, "html"))
    BY <1>0, <2>1, OnFields DEF Sound, Stage, NotYet, Steps
  <2>3. QED
    BY <2>1, <2>2
<1>15. CASE WriteHtml(c)
  <2>1. q.pc = "html" /\ UNCHANGED work
        /\ (\/ Moves(c, Ended(q, 0)) /\ answer[c] # "risky"
            \/ Moves(c, Ended(q, 1)))
    BY <1>0, <1>15 DEF WriteHtml, At, Goto, Become, Exit, Exited, Moves, Ended
  <2>2. answer[c] # "risky" => Sound(c, Ended(q, 0))
    BY <1>0, <2>1, EndedFields DEF Sound, Stage, NotYet
  <2>3. Sound(c, Ended(q, 1))
    BY <1>0, <2>1, EndedFields DEF Sound, Stage, NotYet
  <2>4. QED
    BY <2>1, <2>2, <2>3
<1>16. CASE Paste(c)
  <2>1. q.pc = "prompt" /\ UNCHANGED work
        /\ (Moves(c, Ended(q, 2)) \/ \E t \in shown : Moves(c, Holding(q, t)))
    BY <1>0, <1>16 DEF Paste, At, Exit, Exited, Moves, Ended, Holding
  <2>2. Sound(c, Ended(q, 2))
    BY <1>0, <2>1, EndedFields DEF Sound, Stage, NotYet
  <2>3. ASSUME NEW t \in shown PROVE Sound(c, Holding(q, t))
    BY <1>0, <2>1, HoldingFields DEF Sound, Stage, NotYet
  <2>4. QED
    BY <2>1, <2>2, <2>3
<1>17. QED
  BY <1>1, <1>2, <1>3, <1>4, <1>5, <1>6, <1>7, <1>8, <1>9, <1>10, <1>11, <1>12, <1>13, <1>14, <1>15, <1>16 DEF SignIn, SignOut

\* One command moves from a sound state to a sound state.
LEMMA MoveKeepsStages ==
    ASSUME CliIInv, NEW c \in Commands, NEW p, Sound(c, p), Moves(c, p), UNCHANGED work
    PROVE  /\ process' \in [Commands -> Process] /\ process'[c] = p
           /\ scans' \in [Commands -> 0..2] /\ answer' \in [Commands -> ScanAnswers \cup {"none", "running"}]
           /\ \A d \in Commands : Stage(process'[d], scans'[d], answer'[d])
           /\ \A d \in Commands \ {c} : process'[d] = process[d]
BY DEF CliIInv, CliTypeOK, Moves, Sound, work

Reports == [markdown : Commands \cup {NoScan}, html : Commands \cup {NoScan}, single : SUBSET Commands]

\* What the commands do to the files, and what they leave alone.
LEMMA Frame ==
    ASSUME CliAssumption, CliIInv, NEW c \in Commands,
           \/ BeginLogin(c) \/ BeginLogout(c) \/ BeginScan(c) \/ Paste(c)
           \/ SignIn(c) \/ SignOut(c) \/ Scan(c) \/ ScanEnds(c) \/ Dies(c)
    PROVE  /\ UNCHANGED <<owner, live, redirects, shown>>
           /\ config' \in {config, tmp, NoSecret} /\ config' # Torn
           /\ tmp' \in {tmp, process[c].token, NoSecret, Torn}
           /\ report' \in Reports /\ report.single \subseteq report'.single
           /\ overlaps \subseteq overlaps' /\ overlaps' \subseteq overlaps \cup {"login", "stale paste", "report"}
<1>0. report \in Reports /\ config # Torn /\ NoSecret # Torn
  BY CliAssumption DEF CliIInv, CliTypeOK, Reports
<1> USE DEF server, browser, files, Reports
<1>1. CASE LoginTimesOut(c) \/ WriteTmp(c) \/ Replace(c)
  BY <1>0, <1>1 DEF LoginTimesOut, WriteTmp, Replace, Replaced
<1>2. CASE BeginLogin(c) \/ Paste(c)
  BY <1>0, <1>2 DEF BeginLogin, Paste, Overlap
<1>3. CASE BeginLogout(c) \/ RevokeRemote(c) \/ RemoveConfig(c)
  BY <1>0, <1>3 DEF BeginLogout, RevokeRemote, RemoveConfig
<1>4. CASE BeginScan(c) \/ Accepted(c) \/ Busy(c) \/ Refused(c) \/ ScanEnds(c)
  BY <1>0, <1>4 DEF BeginScan, Accepted, Busy, Refused, ScanEnds
<1>5. CASE Receive(c) \/ TimesOut(c)
  BY <1>0, <1>5 DEF Receive, TimesOut
<1>6. CASE WriteMarkdown(c)
  BY <1>0, <1>6 DEF WriteMarkdown, Overlap
<1>7. CASE WriteHtml(c)
  BY <1>0, <1>7, ZenonT(60) DEF WriteHtml, HtmlReport
<1>8. CASE Dies(c)
  BY <1>0, <1>8 DEF Dies
<1>9. QED
  BY <1>1, <1>2, <1>3, <1>4, <1>5, <1>6, <1>7, <1>8 DEF SignIn, SignOut, Scan

\* The browser keeps types and stages: a callback is heard by a login only.
LEMMA BrowserStages ==
    ASSUME CliAssumption, CliIInv, Browse
    PROVE  CliTypeOK' /\ \A d \in Commands : Stage(process'[d], scans'[d], answer'[d])
<1>0. CliTypeOK /\ \A d \in Commands : Stage(process[d], scans[d], answer[d])
  BY DEF CliIInv
<1>1. PICK t \in Tokens : \/ BrowserIssue(t) \/ BrowserRevoke(t)
                          \/ \E c \in Commands : Consent(c, t) \/ Callback(c, t) \/ NobodyListens(c, t)
  BY DEF Browse
<1>2. CASE BrowserIssue(t) \/ BrowserRevoke(t)
  BY <1>0, <1>2 DEF BrowserIssue, BrowserRevoke, Server!Mint, Server!Revoke, User, CliTypeOK, browser, files, work
<1>3. ASSUME NEW c \in Commands, Consent(c, t) \/ NobodyListens(c, t)
      PROVE  CliTypeOK' /\ \A d \in Commands : Stage(process'[d], scans'[d], answer'[d])
  <2>1. CASE Consent(c, t)
    <3>1. owner' \in [Tokens -> {User, NoSecret}] /\ live' \subseteq Tokens
      BY <1>0, <2>1 DEF Consent, Server!Mint, User, CliTypeOK
    <3>2. redirects' \subseteq Commands \X Tokens
      <4>1. <<c, t>> \in Commands \X Tokens
        OBVIOUS
      <4>2. redirects' = redirects \cup {<<c, t>>}
        BY <2>1 DEF Consent
      <4>3. redirects \subseteq Commands \X Tokens
        BY <1>0 DEF CliTypeOK
      <4>4. QED
        BY <4>1, <4>2, <4>3
    <3>3. QED
      BY <1>0, <2>1, <3>1, <3>2 DEF Consent, CliTypeOK, files, work
  <2>2. CASE NobodyListens(c, t)
    BY <1>0, <2>2 DEF NobodyListens, CliTypeOK, server, files, work
  <2>3. QED
    BY <1>3, <2>1, <2>2
<1>4. ASSUME NEW c \in Commands, Callback(c, t)
      PROVE  CliTypeOK' /\ \A d \in Commands : Stage(process'[d], scans'[d], answer'[d])
  <2>1. process[c].pc = "listening" /\ process[c] \in Process /\ Stage(process[c], scans[c], answer[c])
    BY <1>0, <1>4 DEF Callback, At, CliTypeOK
  <2>2. Moves(c, Holding(process[c], t)) /\ UNCHANGED work
    BY <1>4 DEF Callback, Moves, Holding, work
  <2>3. Sound(c, Holding(process[c], t))
    <3> DEFINE q == process[c]
               p == Holding(q, t)
    <3>1. p \in Process /\ p.pc = "saving" /\ p.kind = q.kind /\ p.token = t /\ p.exit = q.exit
      BY <2>1, HoldingFields
    <3> HIDE DEF p
    <3>2. Stage(p, scans[c], answer[c])
      BY <2>1, <3>1 DEF Stage, NotYet
    <3>3. QED
      BY <3>1, <3>2 DEF Sound, p
  <2>4. /\ process' \in [Commands -> Process]
        /\ \A d \in Commands : Stage(process'[d], scans'[d], answer'[d])
    BY <2>2, <2>3, MoveKeepsStages
  <2>5. QED
    BY <1>0, <1>4, <2>4 DEF Callback, CliTypeOK, server, files, work
<1>5. QED
  BY <1>1, <1>2, <1>3, <1>4

\* Every step keeps types and stages.
LEMMA StageStep ==
    ASSUME CliAssumption, CliIInv, [CliNext]_cliVars
    PROVE  CliTypeOK' /\ \A d \in Commands : Stage(process'[d], scans'[d], answer'[d])
<1> DEFINE Stages == \A d \in Commands : Stage(process'[d], scans'[d], answer'[d])
<1>0. /\ CliTypeOK /\ (\A d \in Commands : Stage(process[d], scans[d], answer[d]))
      /\ process \in [Commands -> Process] /\ scans \in [Commands -> 0..2]
      /\ answer \in [Commands -> ScanAnswers \cup {"none", "running"}]
  BY DEF CliIInv, CliTypeOK
<1>1. CASE Browse
  BY <1>1, BrowserStages
<1>2. ASSUME NEW c \in Commands,
             \/ BeginLogin(c) \/ BeginLogout(c) \/ BeginScan(c) \/ Paste(c)
             \/ SignIn(c) \/ SignOut(c) \/ Scan(c) \/ ScanEnds(c) \/ Dies(c)
      PROVE  CliTypeOK' /\ Stages
  <2>1. /\ process' \in [Commands -> Process]
        /\ scans' \in [Commands -> 0..2] /\ answer' \in [Commands -> ScanAnswers \cup {"none", "running"}]
        /\ Stages
    <3>1. CASE Accepted(c)
      <4>1. /\ process[c].pc = "posting" /\ scans' = [scans EXCEPT ![c] = @ + 1]
            /\ answer' = [answer EXCEPT ![c] = "running"] /\ Moves(c, On(process[c], "waiting"))
        BY <3>1, <1>0 DEF Accepted, At, Goto, Moves, On
      <4>2. scans[c] = 0
        BY <1>0, <4>1 DEF Stage
      <4>3. On(process[c], "waiting") \in Process /\ Stage(On(process[c], "waiting"), 1, "running")
        BY <1>0, <4>1, OnFields DEF Stage, NotYet, Steps
      <4>4. scans' = [scans EXCEPT ![c] = 1]
        BY <1>0, <4>1, <4>2
      <4>5. QED
        BY <1>0, <4>1, <4>3, <4>4 DEF Moves
    <3>2. CASE ScanEnds(c)
      <4>1. PICK a \in ScanAnswers : answer' = [answer EXCEPT ![c] = a]
        BY <3>2 DEF ScanEnds
      <4>2. answer[c] = "running" /\ UNCHANGED <<process, scans>>
        BY <3>2 DEF ScanEnds
      <4>3. Stage(process[c], scans[c], a)
        BY <1>0, <4>2 DEF Stage, ScanAnswers
      <4>4. QED
        BY <1>0, <4>1, <4>2, <4>3 DEF CliTypeOK
    <3>3. CASE ~ Accepted(c) /\ ~ ScanEnds(c)
      <4>1. UNCHANGED work /\ \E p : Sound(c, p) /\ Moves(c, p)
        BY <1>2, <3>3, MovesOfCommand DEF Scan
      <4>2. QED
        BY <4>1, MoveKeepsStages
    <3>4. QED
      BY <3>1, <3>2, <3>3
  <2>2. process[c].token \in Tokens \cup {NoSecret}
    BY <1>0 DEF Process
  <2>3. QED
    BY <1>0, <1>2, <2>1, <2>2, Frame DEF CliTypeOK, Reports
<1>3. CASE UNCHANGED cliVars
  BY <1>0, <1>3 DEF cliVars, CliTypeOK
<1>4. QED
  BY <1>1, <1>2, <1>3 DEF CliNext

\* What Goto, Exit and Become leave in the record of the command.
LEMMA Results ==
    ASSUME process \in [Commands -> Process], NEW c \in Commands
    PROVE  /\ \A pc \in Steps : Goto(c, pc) =>
                 process'[c].pc = pc /\ process'[c].kind = process[c].kind
                 /\ process'[c].token = process[c].token /\ process'[c].exit = process[c].exit
           /\ \A code \in {0, 1, 2, 3} : Exit(c, code) =>
                 process'[c].pc = "done" /\ process'[c].kind = process[c].kind
                 /\ process'[c].token = process[c].token /\ process'[c].exit = code
           /\ \A kind \in CommandKinds, pc \in Steps, token \in Tokens \cup {NoSecret} : Become(c, kind, pc, token) =>
                 process'[c].pc = pc /\ process'[c].kind = kind /\ process'[c].token = token
                 /\ process'[c].exit = process[c].exit
<1>0. process[c] \in Process
  OBVIOUS
<1>1. ASSUME NEW pc \in Steps, Goto(c, pc)
      PROVE  process'[c].pc = pc /\ process'[c].kind = process[c].kind
                 /\ process'[c].token = process[c].token /\ process'[c].exit = process[c].exit
  <2>1. process'[c] = On(process[c], pc)
    BY <1>1 DEF Goto, On
  <2>2. QED
    BY <1>0, <2>1, OnFields
<1>2. ASSUME NEW code \in {0, 1, 2, 3}, Exit(c, code)
      PROVE  process'[c].pc = "done" /\ process'[c].kind = process[c].kind
                 /\ process'[c].token = process[c].token /\ process'[c].exit = code
  <2>1. process'[c] = Ended(process[c], code)
    BY <1>2 DEF Exit, Exited, Ended
  <2>2. QED
    BY <1>0, <2>1, EndedFields
<1>3. ASSUME NEW kind \in CommandKinds, NEW pc \in Steps, NEW token \in Tokens \cup {NoSecret},
             Become(c, kind, pc, token)
      PROVE  process'[c].pc = pc /\ process'[c].kind = kind /\ process'[c].token = token
                 /\ process'[c].exit = process[c].exit
  <2>1. process'[c] = As(process[c], kind, pc, token)
    BY <1>3 DEF Become, As
  <2>2. QED
    BY <1>0, <2>1, AsFields
<1>4. QED
  BY <1>1, <1>2, <1>3

\* Neither a logout nor a scan is ever a login, and one action alone begins and
\* one alone ends the time between the two report files.
LEMMA NoLogin ==
    ASSUME CliIInv, NEW c \in Commands,
           BeginLogout(c) \/ SignOut(c) \/ BeginScan(c) \/ Scan(c)
    PROVE  /\ process[c].kind \notin {"login", "manual"} /\ process'[c].kind \notin {"login", "manual"}
           /\ process[c].pc # "listening" /\ process'[c].pc \notin {"listening", "replacing"}
           /\ process'[c].pc = "html" => WriteMarkdown(c)
           /\ process[c].pc = "html" => WriteHtml(c)
           /\ process[c].kind = "logout" => process'[c].kind = "logout"
           /\ config' = config \/ (config' = NoSecret /\ process'[c].kind = "logout")
           /\ tmp' = tmp
<1>0. process \in [Commands -> Process] /\ Stage(process[c], scans[c], answer[c])
      /\ process[c] \in Process /\ config \in Tokens \cup {NoSecret}
  BY DEF CliIInv, CliTypeOK
<1> USE DEF Steps, CommandKinds, At, files
<1>1. CASE BeginLogout(c)
  BY <1>0, <1>1, Results DEF BeginLogout, Stage
<1>2. CASE SignOut(c)
  BY <1>0, <1>2, Results DEF SignOut, RevokeRemote, RemoveConfig, Stage
<1>3. CASE BeginScan(c)
  <2>1. CASE ScanGivenUp(c)
    <3>1. process'[c] = GivenUp(process[c])
      BY <1>0, <2>1 DEF ScanGivenUp, Exited, GivenUp
    <3>2. QED
      BY <1>0, <1>3, <3>1, GivenUpFields DEF BeginScan, Stage
  <2>2. CASE Become(c, "scan", "posting", config)
    BY <1>0, <1>3, <2>2, Results DEF BeginScan, Stage
  <2>3. QED
    BY <1>3, <2>1, <2>2 DEF BeginScan, NothingToScan
<1>4. CASE Accepted(c) \/ Refused(c)
  BY <1>0, <1>4, Results DEF Accepted, Refused, Stage
<1>5. CASE Busy(c)
  <2>1. process'[c] = Again(process[c]) \/ process'[c] = Ended(process[c], 2)
    BY <1>0, <1>5 DEF Busy, AfterBusy, Again, Ended
  <2>2. QED
    BY <1>0, <1>5, <2>1, AgainFields, EndedFields DEF Busy, Stage
<1>6. CASE Receive(c)
  <2>1. process'[c] = On(process[c], "markdown") \/ process'[c] = Ended(process[c], 3)
    BY <1>0, <1>6 DEF Receive, AfterAnswer, On, Exited, Ended
  <2>2. QED
    BY <1>0, <1>6, <2>1, OnFields, EndedFields DEF Receive, Stage
<1>7. CASE TimesOut(c)
  <2>1. process'[c] = Ended(process[c], 2)
    BY <1>0, <1>7 DEF TimesOut, AfterSilence, Ended
  <2>2. QED
    BY <1>0, <1>7, <2>1, EndedFields DEF TimesOut, Stage
<1>8. CASE WriteMarkdown(c)
  BY <1>0, <1>8, Results DEF WriteMarkdown, Stage
<1>9. CASE WriteHtml(c)
  BY <1>0, <1>9, Results DEF WriteHtml, Stage
<1>10. QED
  BY <1>1, <1>2, <1>3, <1>4, <1>5, <1>6, <1>7, <1>8, <1>9 DEF Scan

-------------------------------------------------------------------------------
(***************************************************************************)
(* The reports                                                             *)
(***************************************************************************)
\* Nobody begins or ends writing, and the files stay.
LEMMA ReportsStay ==
    ASSUME CliIInv, UNCHANGED report, overlaps \subseteq overlaps',
           \A d \in Commands : process[d].pc = "html" <=> process'[d].pc = "html"
    PROVE  OneWriter' /\ ReportsAgree'
BY DEF CliIInv, OneWriter, ReportsAgree, At

\* A login neither begins nor ends writing a report.
LEMMA LoginWritesNoReport ==
    ASSUME CliIInv, NEW c \in Commands, BeginLogin(c) \/ Paste(c) \/ SignIn(c)
    PROVE  process[c].pc # "html" /\ process'[c].pc # "html" /\ UNCHANGED report
<1>0. process \in [Commands -> Process] /\ process[c] \in Process /\ shown \subseteq Tokens
  BY DEF CliIInv, CliTypeOK
<1> USE DEF Steps, CommandKinds, At
<1>1. CASE BeginLogin(c)
  BY <1>0, <1>1, Results DEF BeginLogin
<1>2. CASE SignIn(c)
  BY <1>0, <1>2, Results DEF SignIn, LoginTimesOut, WriteTmp, Replace
<1>3. CASE Paste(c)
  <2>1. CASE Exit(c, 2)
    BY <1>0, <1>3, <2>1, Results DEF Paste
  <2>2. ASSUME NEW t \in shown, process' = [process EXCEPT ![c].pc = "saving", ![c].token = t]
        PROVE  process[c].pc # "html" /\ process'[c].pc # "html" /\ UNCHANGED report
    <3>1. process'[c] = Holding(process[c], t)
      BY <1>0, <2>2 DEF Holding
    <3>2. process'[c].pc = "saving"
      BY <1>0, <3>1, HoldingFields
    <3>3. QED
      BY <1>3, <3>2 DEF Paste
  <2>3. QED
    BY <1>3, <2>1, <2>2 DEF Paste
<1>4. QED
  BY <1>1, <1>2, <1>3

\* The one that was writing leaves both files, or is noted for the first alone.
LEMMA WriterEnds ==
    ASSUME CliIInv, NEW c \in Commands, process[c].pc = "html", process'[c].pc = "done",
           \A d \in Commands \ {c} : process'[d] = process[d], overlaps \subseteq overlaps',
           report' = [report EXCEPT !.html = c] \/ report' = [report EXCEPT !.single = @ \cup {c}]
    PROVE  OneWriter' /\ ReportsAgree'
<1>1. report \in Reports
  BY DEF CliIInv, CliTypeOK, Reports
<1>2. report' = [report EXCEPT !.html = c] => report'.markdown = report.markdown /\ report'.html = c
  BY <1>1 DEF Reports
<1>3. report' = [report EXCEPT !.single = @ \cup {c}]
         => report'.markdown = report.markdown /\ c \in report'.single
  BY <1>1 DEF Reports
<1>4. QED
  BY <1>2, <1>3 DEF CliIInv, OneWriter, ReportsAgree, At

\* Every step keeps the two files of one scan.
LEMMA ReportsStep == ASSUME CliAssumption, CliIInv, [CliNext]_cliVars PROVE OneWriter' /\ ReportsAgree'
<1>0. process \in [Commands -> Process]
  BY DEF CliIInv, CliTypeOK
<1>1. CASE Browse
  <2>1. UNCHANGED <<report, overlaps>>
    BY <1>1 DEF Browse, BrowserIssue, BrowserRevoke, Consent, Callback, NobodyListens
  <2>2. ASSUME NEW c \in Commands, NEW t \in Tokens, Callback(c, t)
        PROVE  \A d \in Commands : process[d].pc = "html" <=> process'[d].pc = "html"
    <3>1. process' = [process EXCEPT ![c] = Holding(process[c], t)] /\ process[c].pc = "listening"
      BY <1>0, <2>2 DEF Callback, At, Holding
    <3>2. process'[c].pc = "saving"
      BY <1>0, <3>1, HoldingFields
    <3>3. QED
      BY <1>0, <3>1, <3>2
  <2>3. \A d \in Commands : process[d].pc = "html" <=> process'[d].pc = "html"
    BY <1>1, <2>2 DEF Browse, BrowserIssue, BrowserRevoke, Consent, NobodyListens
  <2>4. QED
    BY <2>1, <2>3, ReportsStay
<1>2. ASSUME NEW c \in Commands, BeginLogin(c) \/ Paste(c) \/ SignIn(c)
      PROVE  OneWriter' /\ ReportsAgree'
  <2>1. UNCHANGED work /\ \E p : Sound(c, p) /\ Moves(c, p)
    BY <1>2, MovesOfCommand
  <2>2. \A d \in Commands \ {c} : process'[d] = process[d]
    BY <2>1, MoveKeepsStages
  <2>3. process[c].pc # "html" /\ process'[c].pc # "html" /\ UNCHANGED report
    BY <1>2, LoginWritesNoReport
  <2>4. overlaps \subseteq overlaps'
    BY <1>2, Frame
  <2>5. QED
    BY <2>2, <2>3, <2>4, ReportsStay
<1>3. ASSUME NEW c \in Commands, BeginLogout(c) \/ SignOut(c) \/ BeginScan(c) \/ Scan(c) \/ ScanEnds(c)
      PROVE  OneWriter' /\ ReportsAgree'
  <2>1. \A d \in Commands \ {c} : process'[d] = process[d]
    <3>1. CASE ScanEnds(c)
      BY <3>1 DEF ScanEnds
    <3>2. CASE Accepted(c)
      BY <1>0, <3>2 DEF Accepted, Goto
    <3>3. CASE ~ ScanEnds(c) /\ ~ Accepted(c)
      BY <1>3, <3>3, MovesOfCommand, MoveKeepsStages DEF Scan
    <3>4. QED
      BY <3>1, <3>2, <3>3
  <2>2. overlaps \subseteq overlaps'
    BY <1>3, Frame
  <2>3. CASE WriteMarkdown(c)
    <3>1. report' = [report EXCEPT !.markdown = c] /\ process'[c].pc = "html"
      BY <1>0, <2>3, Results DEF WriteMarkdown, Steps
    <3>2. report'.markdown = c
      BY <3>1 DEF CliIInv, CliTypeOK
    <3>3. (\E d \in Commands : At(d, "html")) => "report" \in overlaps'
      BY <2>3 DEF WriteMarkdown, Overlap
    <3>4. QED
      BY <2>1, <3>1, <3>2, <3>3 DEF OneWriter, ReportsAgree, At
  <2>4. CASE WriteHtml(c)
    <3>1. process'[c].pc = "done" /\ process[c].pc = "html"
          /\ (report' = [report EXCEPT !.html = c] \/ report' = [report EXCEPT !.single = @ \cup {c}])
      BY <1>0, <2>4, Results DEF WriteHtml, HtmlReport, At
    <3>2. QED
      BY <2>1, <2>2, <3>1, WriterEnds
  <2>5. CASE ~ WriteMarkdown(c) /\ ~ WriteHtml(c)
    <3>1. process[c].pc = "html" <=> process'[c].pc = "html"
      BY <1>3, <2>5, NoLogin DEF ScanEnds
    <3>2. UNCHANGED report
      BY <1>3, <2>5 DEF BeginLogout, SignOut, RevokeRemote, RemoveConfig, BeginScan, Scan, Accepted,
           Busy, Refused, Receive, TimesOut, ScanEnds
    <3>3. QED
      BY <2>1, <2>2, <3>1, <3>2, ReportsStay
  <2>6. QED
    BY <2>3, <2>4, <2>5
<1>4. ASSUME NEW c \in Commands, Dies(c)
      PROVE  OneWriter' /\ ReportsAgree'
  <2>1. process'[c].pc = "done" /\ (\A d \in Commands \ {c} : process'[d] = process[d])
        /\ overlaps' = overlaps
    BY <1>0, <1>4, Results DEF Dies, Exit
  <2>2. CASE At(c, "html")
    BY <1>4, <2>1, <2>2, WriterEnds DEF Dies, At
  <2>3. CASE ~ At(c, "html")
    BY <1>4, <2>1, <2>3, ReportsStay DEF Dies, At
  <2>4. QED
    BY <2>2, <2>3
<1>5. CASE UNCHANGED cliVars
  BY <1>5, ReportsStay DEF cliVars
<1>6. QED
  BY <1>1, <1>2, <1>3, <1>4, <1>5 DEF CliNext

-------------------------------------------------------------------------------
(***************************************************************************)
(* The tokens                                                              *)
(***************************************************************************)
Tracked == OneLive /\ LoginAlone /\ LiveTokenNotLost

\* A login that has, or has failed to save, a token.
Holds(d, t) == /\ process[d].kind \in {"login", "manual"}
               /\ process[d].token = t /\ process[d].exit # 0

\* Whoever has not exited has not exited with 0.
LEMMA NotYetIsNotZero == NotYet # 0
BY DEF NotYet

\* A step by which nobody drops a token.
LEMMA HeldStays ==
    ASSUME CliIInv, live' \subseteq live, overlaps \subseteq overlaps', config' = config \/ LoggedOut',
           \A t \in Tokens : Carried(t) => Carried(t)',
           \A d \in Commands, t \in Tokens : Holds(d, t) => Holds(d, t)',
           \A d \in Commands : process[d].kind = "logout" => process'[d].kind = "logout"
    PROVE  LiveTokenNotLost'
<1> SUFFICES ASSUME NEW t \in live', config' # t, ~ LoggedOut', ~ Carried(t)',
                    ~ (\E d \in Commands : Holds(d, t)'), overlaps' \cap {"login", "stale paste"} = {}
             PROVE  FALSE
  BY DEF LiveTokenNotLost, Holds, Carried
<1>1. LiveTokenNotLost /\ t \in live /\ t \in Tokens
  BY DEF CliIInv, CliTypeOK
<1>2. config # t /\ ~ LoggedOut
  BY DEF LoggedOut
<1>3. ~ Carried(t)
  BY <1>1
<1>4. \A d \in Commands : ~ Holds(d, t)
  BY <1>1
<1>5. overlaps \cap {"login", "stale paste"} = {}
  OBVIOUS
<1>6. \E d \in Commands : Holds(d, t)
  BY <1>1, <1>2, <1>3, <1>5 DEF LiveTokenNotLost, Carried, Holds
<1>7. QED
  BY <1>4, <1>6

\* Overlaps are never forgotten.
LEMMA AloneEarlier == ASSUME overlaps \subseteq overlaps', Alone' PROVE Alone
BY DEF Alone

\* A command that is no login, before and after, loses no token.
LEMMA Aside ==
    ASSUME CliIInv, NEW c \in Commands, UNCHANGED <<owner, live, redirects, shown, tmp>>,
           overlaps \subseteq overlaps',
           config' = config \/ (config' = NoSecret /\ process'[c].kind = "logout"),
           \A d \in Commands \ {c} : process'[d] = process[d],
           process[c].kind \notin {"login", "manual"}, process'[c].kind \notin {"login", "manual"},
           process'[c].pc \notin {"listening", "replacing"},
           process[c].kind = "logout" => process'[c].kind = "logout"
    PROVE  Tracked'
<1>0. Tracked
  BY DEF CliIInv, Tracked
<1>1. OneLive'
  BY <1>0 DEF Tracked, OneLive
<1>2. \A d \in Commands : SigningIn(d)' => SigningIn(d) /\ process'[d] = process[d]
  BY DEF SigningIn
<1>3. \A d \in Commands : SigningIn(d) => SigningIn(d)' /\ process'[d] = process[d]
  BY DEF SigningIn
<1>4. \A t \in Tokens : Carried(t)' <=> Carried(t)
  BY DEF Carried
<1>5. live \subseteq Tokens
  BY DEF CliIInv, CliTypeOK
<1>6. LoginAlone'
  <2> SUFFICES ASSUME Alone' PROVE LoginAlone'
    BY DEF LoginAlone
  <2>1. LoginAlone /\ Alone
    BY <1>0, AloneEarlier DEF Tracked
  <2>2. \A a, b \in Commands : SigningIn(a)' /\ SigningIn(b)' => a = b
    BY <1>2, <2>1 DEF LoginAlone
  <2>3. \A d \in Commands : At(d, "replacing")' => tmp' = process'[d].token
    BY <2>1 DEF LoginAlone, At
  <2>4. \A d \in Commands, t \in live' :
           SigningIn(d)' /\ process'[d].token # NoSecret => t = process'[d].token \/ Carried(t)'
    BY <1>2, <1>4, <1>5, <2>1 DEF LoginAlone
  <2>5. \A d \in Commands, s \in Tokens, t \in live' :
           At(d, "listening")' /\ <<d, s>> \in redirects' => Carried(t)'
    BY <1>4, <1>5, <2>1 DEF LoginAlone, At
  <2>6. QED
    BY <2>2, <2>3, <2>4, <2>5 DEF LoginAlone
<1>7. LiveTokenNotLost'
  <2>1. \A d \in Commands, t \in Tokens : Holds(d, t) => Holds(d, t)'
    BY DEF Holds
  <2>2. config' = config \/ LoggedOut'
    BY DEF LoggedOut
  <2>3. QED
    BY <1>4, <2>1, <2>2, HeldStays
<1>8. QED
  BY <1>1, <1>6, <1>7 DEF Tracked

\* The person has a new token, which the browser shows or carries.
LEMMA TokenMinted ==
    ASSUME CliIInv, NEW t \in Tokens, Server!Mint(t, User), redirects \subseteq redirects',
           \A c \in Commands, s \in Tokens : <<c, s>> \in redirects' => process[c].kind = "login",
           UNCHANGED <<process, tmp, overlaps>>, Carried(t)'
    PROVE  Tracked'
<1>0. Tracked /\ CliTypeOK
  BY DEF CliIInv, Tracked
<1>1. live' = {t} /\ owner'[t] = User
  BY <1>0 DEF Tracked, OneLive, Server!Mint, CliTypeOK
<1>2. OneLive'
  BY <1>1 DEF OneLive
<1>3. LoginAlone'
  BY <1>0, <1>1 DEF Tracked, LoginAlone, Alone, SigningIn, At
<1>4. LiveTokenNotLost'
  BY <1>1 DEF LiveTokenNotLost, Carried
<1>5. QED
  BY <1>2, <1>3, <1>4 DEF Tracked

\* What the browser does loses no token.
LEMMA BrowserTracks == ASSUME CliAssumption, CliIInv, Browse PROVE Tracked'
<1>0. Tracked /\ CliTypeOK
  BY DEF CliIInv, Tracked
<1>1. PICK t \in Tokens : \/ BrowserIssue(t) \/ BrowserRevoke(t)
                          \/ \E c \in Commands : Consent(c, t) \/ Callback(c, t) \/ NobodyListens(c, t)
  BY DEF Browse
<1>2. CASE BrowserIssue(t)
  <2>1. Carried(t)'
    BY <1>2 DEF BrowserIssue, Carried
  <2>2. QED
    BY <1>0, <1>2, <2>1, TokenMinted DEF BrowserIssue, files, Tracked, OneLive
<1>3. CASE BrowserRevoke(t)
  <2>1. live' \subseteq live
    BY <1>3 DEF BrowserRevoke, Server!Revoke
  <2>2. UNCHANGED <<owner, redirects, shown, config, tmp, process, overlaps>>
    BY <1>3 DEF BrowserRevoke, Server!Revoke, browser, files
  <2>3. LiveTokenNotLost'
    BY <2>1, <2>2, HeldStays DEF Carried, Holds
  <2>4. QED
    BY <1>0, <2>1, <2>2, <2>3 DEF Tracked, OneLive, LoginAlone, Alone, Carried, SigningIn, At
<1>4. ASSUME NEW c \in Commands, Consent(c, t)
      PROVE  Tracked'
  <2>1. /\ redirects' = redirects \cup {<<c, t>>} /\ process[c].kind = "login"
        /\ Server!Mint(t, User) /\ UNCHANGED <<process, tmp, overlaps>>
    BY <1>4 DEF Consent, files
  <2>2. Carried(t)'
    BY <2>1 DEF Carried
  <2>3. \A d \in Commands, s \in Tokens : <<d, s>> \in redirects' => process[d].kind = "login"
    BY <1>0, <2>1 DEF Tracked, OneLive
  <2>4. QED
    BY <2>1, <2>2, <2>3, TokenMinted
<1>5. ASSUME NEW c \in Commands, Callback(c, t)
      PROVE  Tracked'
  <2>1. /\ At(c, "listening") /\ <<c, t>> \in redirects /\ redirects' = redirects \ {<<c, t>>}
        /\ Moves(c, Holding(process[c], t))
        /\ UNCHANGED <<owner, live, shown, config, tmp, overlaps>>
    BY <1>5 DEF Callback, Moves, Holding, server, files
  <2>2. /\ process[c].pc = "listening" /\ process[c].kind = "login" /\ process[c] \in Process
        /\ \A d \in Commands : process[d].pc = "listening" => process[d].kind = "login"
    BY <2>1 DEF CliIInv, CliTypeOK, Stage, At
  <2>3. /\ process'[c].pc = "saving" /\ process'[c].kind = "login" /\ process'[c].token = t
        /\ process'[c].exit = process[c].exit
        /\ \A d \in Commands \ {c} : process'[d] = process[d]
    <3>1. process'[c] = Holding(process[c], t) /\ \A d \in Commands \ {c} : process'[d] = process[d]
      BY <1>0, <2>1 DEF Moves, CliTypeOK
    <3>2. QED
      BY <2>2, <3>1, HoldingFields
  <2>4. \A d \in Commands : SigningIn(d)' <=> SigningIn(d)
    BY <2>2, <2>3 DEF SigningIn
  <2>5. \A s \in Tokens : Carried(s) => s = t \/ Carried(s)'
    BY <2>1 DEF Carried
  <2>6. OneLive'
    BY <1>0, <2>1, <2>2, <2>3 DEF Tracked, OneLive
  <2>7. SigningIn(c)
    BY <2>2 DEF SigningIn
  <2>8. LoginAlone'
    <3> SUFFICES ASSUME Alone' PROVE LoginAlone'
      BY DEF LoginAlone
    <3>1. LoginAlone /\ Alone
      BY <1>0, <2>1 DEF Tracked, Alone
    <3>2. \A d \in Commands : SigningIn(d) => d = c
      BY <2>7, <3>1 DEF LoginAlone
    <3>3. \A d \in Commands : At(d, "listening")' => FALSE
      BY <2>2, <2>3, <3>2 DEF At, SigningIn
    <3>4. \A s \in live : s = t \/ Carried(s)'
      BY <1>0, <2>1, <2>5, <3>1 DEF LoginAlone, CliTypeOK
    <3>5. \A d \in Commands : At(d, "replacing")' => tmp' = process'[d].token
      BY <2>1, <2>3, <3>1 DEF LoginAlone, At
    <3>6. \A a, b \in Commands : SigningIn(a)' /\ SigningIn(b)' => a = b
      BY <2>4, <3>2
    <3>7. \A d \in Commands, s \in live' :
             SigningIn(d)' /\ process'[d].token # NoSecret => s = process'[d].token \/ Carried(s)'
      BY <2>1, <2>3, <2>4, <3>2, <3>4
    <3>8. QED
      BY <3>3, <3>5, <3>6, <3>7 DEF LoginAlone
  <2>9. LiveTokenNotLost'
    <3> SUFFICES ASSUME NEW s \in live', config' # s, ~ LoggedOut', ~ (overlaps' \cap {"login", "stale paste"} # {})
                 PROVE  Carried(s)' \/ \E d \in Commands : Holds(d, s)'
      BY DEF LiveTokenNotLost, Carried, Holds
    <3>1. s \in Tokens /\ s \in live
      BY <1>0, <2>1 DEF CliTypeOK
    <3>2. ~ LoggedOut
      BY <2>1, <2>2, <2>3 DEF LoggedOut
    <3>3. Carried(s) \/ \E d \in Commands : Holds(d, s)
      BY <1>0, <2>1, <3>1, <3>2 DEF Tracked, LiveTokenNotLost, Carried, Holds
    <3>4. Holds(c, t)'
      <4>1. process[c].exit = NotYet
        BY <2>2 DEF CliIInv, Stage
      <4>2. process'[c].exit # 0
        BY <2>3, <4>1, NotYetIsNotZero
      <4>3. QED
        BY <2>3, <4>2 DEF Holds
    <3>5. CASE Carried(s)
      BY <2>5, <3>1, <3>4, <3>5
    <3>6. ASSUME NEW d \in Commands, Holds(d, s)
          PROVE  \E e \in Commands : Holds(e, s)'
      <4>1. d # c
        BY <2>2, <3>1, <3>6, CliAssumption DEF CliIInv, Stage, Holds
      <4>2. QED
        BY <2>3, <3>6, <4>1 DEF Holds
    <3>7. QED
      BY <3>3, <3>5, <3>6
  <2>10. QED
    BY <2>6, <2>8, <2>9 DEF Tracked
<1>6. ASSUME NEW c \in Commands, NobodyListens(c, t)
      PROVE  Tracked'
  <2>1. /\ redirects' = redirects \ {<<c, t>>} /\ shown' = shown \cup {t}
        /\ UNCHANGED <<owner, live, config, tmp, process, overlaps>>
    BY <1>6 DEF NobodyListens, server, files
  <2>2. \A s \in Tokens : Carried(s) => Carried(s)'
    BY <2>1 DEF Carried
  <2>3. OneLive'
    BY <1>0, <2>1 DEF Tracked, OneLive
  <2>4. LoginAlone'
    BY <1>0, <2>1, <2>2 DEF Tracked, LoginAlone, Alone, SigningIn, At, CliTypeOK
  <2>5. LiveTokenNotLost'
    BY <2>1, <2>2, HeldStays DEF Holds
  <2>6. QED
    BY <2>3, <2>4, <2>5 DEF Tracked
<1>7. QED
  BY <1>1, <1>2, <1>3, <1>4, <1>5, <1>6

\* One command that may be signing in moves; the server and the browser stay.
LEMMA Signs ==
    ASSUME CliAssumption, CliIInv, NEW c \in Commands, BeginLogin(c) \/ Paste(c) \/ SignIn(c)
    PROVE  Tracked'
<1> DEFINE q == process[c]
           p == process'[c]
<1>0. Tracked /\ CliTypeOK /\ (\A d \in Commands : Stage(process[d], scans[d], answer[d]))
  BY DEF CliIInv, Tracked
<1>1. /\ process \in [Commands -> Process] /\ q \in Process /\ live \subseteq Tokens
      /\ UNCHANGED <<owner, live, redirects, shown>> /\ overlaps \subseteq overlaps'
  BY <1>0, Frame DEF CliTypeOK
<1>2. \A d \in Commands \ {c} : process'[d] = process[d]
  BY MovesOfCommand, MoveKeepsStages
<1>3. \A t : Carried(t)' <=> Carried(t)
  BY <1>1 DEF Carried
<1>4. \A d \in Commands \ {c} : SigningIn(d)' <=> SigningIn(d)
  BY <1>2 DEF SigningIn
<1>5. \A d \in Commands : (At(d, "listening") \/ At(d, "replacing")) => SigningIn(d)
  BY <1>0 DEF At, SigningIn, Stage
<1>6. Alone' => Alone /\ LoginAlone
  BY <1>0, <1>1, AloneEarlier DEF Tracked
<1> USE DEF Steps, CommandKinds
<1>7. CASE BeginLogin(c)
  <2>1. /\ q.pc = "new" /\ q.kind = "none"
        /\ p.kind \in {"login", "manual"} /\ p.pc \in {"listening", "prompt"} /\ p.token = NoSecret
        /\ UNCHANGED <<config, tmp>>
    BY <1>0, <1>1, <1>7, Results DEF BeginLogin, At, files, Stage
  <2>2. \A s \in Tokens : <<c, s>> \notin redirects
    BY <1>0, <2>1 DEF Tracked, OneLive
  <2>3. OneLive'
    BY <1>0, <1>1, <1>2, <2>2 DEF Tracked, OneLive
  <2>4. LoginAlone'
    <3> SUFFICES ASSUME Alone' PROVE LoginAlone'
      BY DEF LoginAlone
    <3>1. \A d \in Commands \ {c} : ~ SigningIn(d)
      BY <1>7 DEF BeginLogin, Overlap, Alone
    <3>2. \A d \in Commands : At(d, "replacing")' => FALSE
      BY <1>2, <1>5, <2>1, <3>1 DEF At
    <3>3. \A d \in Commands : At(d, "listening")' => d = c
      BY <1>2, <1>5, <3>1 DEF At
    <3>4. \A d \in Commands : SigningIn(d)' => d = c
      BY <1>4, <3>1
    <3>5. QED
      BY <1>1, <2>1, <2>2, <3>2, <3>3, <3>4 DEF LoginAlone
  <2>5. LiveTokenNotLost'
    BY <1>1, <1>2, <1>3, <2>1, HeldStays DEF Holds
  <2>6. QED
    BY <2>3, <2>4, <2>5 DEF Tracked
<1>8. ASSUME At(c, "listening") \/ At(c, "prompt"), p.pc = "done", UNCHANGED <<config, tmp>>,
             p.kind = q.kind, p.exit = 2
      PROVE  Tracked'
  <2>1. q.token = NoSecret /\ q.pc \in {"listening", "prompt"}
    BY <1>0, <1>8 DEF At, Stage
  <2>2. \A d \in Commands : SigningIn(d)' => SigningIn(d) /\ d # c
    BY <1>4, <1>8 DEF SigningIn
  <2>3. OneLive'
    BY <1>0, <1>1, <1>2, <1>8 DEF Tracked, OneLive
  <2>4. LoginAlone'
    BY <1>1, <1>2, <1>3, <1>6, <1>8, <2>2 DEF LoginAlone, At
  <2>5. LiveTokenNotLost'
    <3>1. \A d \in Commands, t \in Tokens : Holds(d, t) => Holds(d, t)'
      BY <1>2, <2>1, CliAssumption DEF Holds
    <3>2. QED
      BY <1>1, <1>2, <1>3, <1>8, <3>1, HeldStays
  <2>6. QED
    BY <2>3, <2>4, <2>5 DEF Tracked
<1>9. CASE LoginTimesOut(c)
  BY <1>1, <1>8, <1>9, Results DEF LoginTimesOut, files
<1>10. CASE Paste(c)
  <2>1. CASE Exit(c, 2)
    BY <1>1, <1>8, <1>10, <2>1, Results DEF Paste, files
  <2>2. ASSUME NEW t \in shown, process' = [process EXCEPT ![c].pc = "saving", ![c].token = t],
               Overlap("stale paste", t \notin live)
        PROVE  Tracked'
    <3>1. q.pc = "prompt" /\ q.kind = "manual" /\ q.token = NoSecret /\ UNCHANGED <<config, tmp>>
      BY <1>0, <1>10 DEF Paste, At, Stage, files
    <3>2. p.pc = "saving" /\ p.kind = "manual" /\ p.token = t
      <4>1. p = Holding(q, t) /\ t \in Tokens
        BY <1>0, <1>1, <2>2 DEF Holding, CliTypeOK
      <4>2. QED
        BY <1>1, <3>1, <4>1, HoldingFields
    <3>3. SigningIn(c) /\ SigningIn(c)'
      BY <3>1, <3>2 DEF SigningIn
    <3>4. OneLive'
      BY <1>0, <1>1, <1>2, <3>1, <3>2 DEF Tracked, OneLive
    <3>5. LoginAlone'
      <4> SUFFICES ASSUME Alone' PROVE LoginAlone'
        BY DEF LoginAlone
      <4>1. t \in live
        BY <2>2 DEF Overlap, Alone
      <4>2. \A d \in Commands : SigningIn(d)' => d = c
        BY <1>4, <1>6, <3>3 DEF LoginAlone
      <4>3. \A s \in live' : s = t
        BY <1>0, <1>1, <4>1 DEF Tracked, OneLive
      <4>4. \A d \in Commands : At(d, "replacing")' => tmp' = process'[d].token
        BY <1>2, <1>6, <3>1, <3>2 DEF LoginAlone, At
      <4>5. \A d \in Commands, s \in Tokens, r \in live' :
               At(d, "listening")' /\ <<d, s>> \in redirects' => Carried(r)'
        BY <1>1, <1>2, <1>3, <1>6, <3>2 DEF LoginAlone, At
      <4>6. QED
        BY <3>2, <4>2, <4>3, <4>4, <4>5 DEF LoginAlone
    <3>6. LiveTokenNotLost'
      <4>1. \A d \in Commands, s \in Tokens : Holds(d, s) => Holds(d, s)'
        BY <1>2, <3>1, CliAssumption DEF Holds
      <4>2. QED
        BY <1>1, <1>2, <1>3, <3>1, <3>2, <4>1, HeldStays
    <3>7. QED
      BY <3>4, <3>5, <3>6 DEF Tracked
  <2>3. QED
    BY <1>10, <2>1, <2>2 DEF Paste
<1>11. CASE WriteTmp(c)
  <2>1. /\ q.pc = "saving" /\ p.pc = "replacing" /\ p.kind = q.kind /\ p.token = q.token
        /\ p.exit = q.exit
        /\ q.kind \in {"login", "manual"} /\ tmp' = q.token /\ config' = config
    BY <1>0, <1>1, <1>11, Results DEF WriteTmp, At, Stage
  <2>2. \A d \in Commands : (SigningIn(d)' <=> SigningIn(d)) /\ process'[d].token = process[d].token
    BY <1>2, <1>4, <2>1 DEF SigningIn
  <2>3. OneLive'
    BY <1>0, <1>1, <1>2, <2>1 DEF Tracked, OneLive
  <2>4. LoginAlone'
    <3> SUFFICES ASSUME Alone' PROVE LoginAlone'
      BY DEF LoginAlone
    <3>1. SigningIn(c)
      BY <2>1 DEF SigningIn
    <3>2. \A d \in Commands : At(d, "replacing")' => d = c
      BY <1>2, <1>5, <1>6, <3>1 DEF LoginAlone, At
    <3>3. \A a, b \in Commands : SigningIn(a)' /\ SigningIn(b)' => a = b
      BY <1>6, <2>2 DEF LoginAlone
    <3>4. \A d \in Commands, t \in live' :
             SigningIn(d)' /\ process'[d].token # NoSecret => t = process'[d].token \/ Carried(t)'
      BY <1>1, <1>3, <1>6, <2>2 DEF LoginAlone
    <3>5. \A d \in Commands, s \in Tokens, t \in live' :
             At(d, "listening")' /\ <<d, s>> \in redirects' => Carried(t)'
      BY <1>1, <1>2, <1>3, <1>6, <2>1 DEF LoginAlone, At
    <3>6. QED
      BY <2>1, <3>2, <3>3, <3>4, <3>5 DEF LoginAlone
  <2>5. LiveTokenNotLost'
    BY <1>1, <1>2, <1>3, <2>1, HeldStays DEF Holds
  <2>6. QED
    BY <2>3, <2>4, <2>5 DEF Tracked
<1>12. CASE Replace(c)
  <2>1. /\ q.pc = "replacing" /\ q.kind \in {"login", "manual"} /\ q.token \in Tokens
        /\ p.pc = "done" /\ p.kind = q.kind /\ overlaps' = overlaps
    BY <1>0, <1>1, <1>12, Results DEF Replace, At, Stage
  <2>2. SigningIn(c) /\ ~ SigningIn(c)'
    BY <2>1 DEF SigningIn
  <2>3. OneLive'
    BY <1>0, <1>1, <1>2, <2>1 DEF Tracked, OneLive
  <2>4. LoginAlone'
    <3> SUFFICES ASSUME Alone' PROVE LoginAlone'
      BY DEF LoginAlone
    <3>1. \A d \in Commands : ~ SigningIn(d)'
      BY <1>4, <1>6, <2>2 DEF LoginAlone
    <3>2. \A d \in Commands : ~ At(d, "replacing")' /\ ~ At(d, "listening")'
      BY <1>2, <1>4, <1>5, <2>1, <3>1 DEF At
    <3>3. QED
      BY <3>1, <3>2 DEF LoginAlone
  <2>5. LiveTokenNotLost'
    <3> SUFFICES ASSUME Alone', NEW t \in live', ~ Carried(t)'
                 PROVE  config' = t
      BY DEF LiveTokenNotLost, Alone, Carried
    <3>1. LoginAlone /\ t \in live /\ ~ Carried(t) /\ tmp = q.token
      BY <1>1, <1>3, <1>6, <2>1 DEF LoginAlone, At
    <3>2. t = q.token
      BY <2>1, <2>2, <3>1, <1>6, CliAssumption DEF LoginAlone
    <3>3. config' = tmp
      BY <1>12, <2>1, <3>1, CliAssumption DEF Replace, Replaced
    <3>4. QED
      BY <3>1, <3>2, <3>3
  <2>6. QED
    BY <2>3, <2>4, <2>5 DEF Tracked
<1>13. QED
  BY <1>7, <1>9, <1>10, <1>11, <1>12 DEF SignIn

\* A login that dies has its token still, and says that it has failed.
LEMMA DeathTracks ==
    ASSUME CliAssumption, CliIInv, NEW c \in Commands, Dies(c)
    PROVE  Tracked'
<1> DEFINE q == process[c]
           p == process'[c]
<1>0. Tracked /\ CliTypeOK /\ (\A d \in Commands : Stage(process[d], scans[d], answer[d]))
      /\ process \in [Commands -> Process]
  BY DEF CliIInv, CliTypeOK, Tracked
<1>1. /\ p.pc = "done" /\ p.kind = q.kind /\ p.token = q.token /\ p.exit = 1
      /\ \A d \in Commands \ {c} : process'[d] = process[d]
  BY <1>0, Results DEF Dies, Exit
<1>2. UNCHANGED <<owner, live, redirects, shown, config, overlaps>>
  BY DEF Dies, server, browser
<1>3. CASE q.kind \in {"login", "manual"}
  <2>1. SigningIn(c) /\ \A d \in Commands : SigningIn(d)' => SigningIn(d) /\ d # c
    BY <1>1, <1>3 DEF SigningIn, Dies
  <2>2. OneLive'
    BY <1>0, <1>1, <1>2 DEF Tracked, OneLive
  <2>3. LoginAlone'
    <3> SUFFICES ASSUME Alone' PROVE LoginAlone'
      BY DEF LoginAlone
    <3>1. LoginAlone /\ Alone
      BY <1>0, <1>2 DEF Tracked, Alone
    <3>2. \A d \in Commands : ~ SigningIn(d)'
      BY <2>1, <3>1 DEF LoginAlone
    <3>3. \A d \in Commands \ {c} : (At(d, "listening")' \/ At(d, "replacing")') => SigningIn(d)'
      BY <1>0, <1>1 DEF At, SigningIn, Stage
    <3>4. \A d \in Commands : ~ At(d, "replacing")' /\ ~ At(d, "listening")'
      BY <1>1, <3>2, <3>3 DEF At
    <3>5. QED
      BY <3>2, <3>4 DEF LoginAlone
  <2>4. LiveTokenNotLost'
    BY <1>1, <1>2, HeldStays DEF Holds, Carried
  <2>5. QED
    BY <2>2, <2>3, <2>4 DEF Tracked
<1>4. CASE q.kind \notin {"login", "manual"}
  <2>1. tmp' = tmp
    BY <1>0, <1>4 DEF Dies, At, Stage
  <2>2. QED
    BY <1>1, <1>2, <1>4, <2>1, Aside
<1>5. QED
  BY <1>3, <1>4

\* The end of a scan on the server is nothing to the tokens.
LEMMA Quiet ==
    ASSUME CliIInv, UNCHANGED <<owner, live, redirects, shown, config, tmp, process, overlaps>>
    PROVE  Tracked'
<1>1. LiveTokenNotLost'
  BY HeldStays DEF Carried, Holds
<1>2. OneLive' /\ LoginAlone'
  BY DEF CliIInv, OneLive, LoginAlone, Alone, Carried, SigningIn, At
<1>3. QED
  BY <1>1, <1>2 DEF Tracked

\* No step loses a live token.
LEMMA TokensStep == ASSUME CliAssumption, CliIInv, [CliNext]_cliVars PROVE Tracked'
<1>1. CASE Browse
  BY <1>1, BrowserTracks
<1>2. ASSUME NEW c \in Commands, BeginLogin(c) \/ Paste(c) \/ SignIn(c)
      PROVE  Tracked'
  BY <1>2, Signs
<1>3. ASSUME NEW c \in Commands, BeginLogout(c) \/ SignOut(c) \/ BeginScan(c) \/ Scan(c)
      PROVE  Tracked'
  <2>1. UNCHANGED <<owner, live, redirects, shown>> /\ overlaps \subseteq overlaps'
    BY <1>3, Frame
  <2>2. \A d \in Commands \ {c} : process'[d] = process[d]
    <3>1. CASE Accepted(c)
      BY <3>1 DEF CliIInv, CliTypeOK, Accepted, Goto
    <3>2. CASE ~ Accepted(c)
      BY <1>3, <3>2, MovesOfCommand, MoveKeepsStages DEF Scan
    <3>3. QED
      BY <3>1, <3>2
  <2>3. QED
    BY <1>3, <2>1, <2>2, NoLogin, Aside
<1>4. ASSUME NEW c \in Commands, ScanEnds(c)
      PROVE  Tracked'
  BY <1>4, Quiet DEF ScanEnds, server, browser, files
<1>5. ASSUME NEW c \in Commands, Dies(c)
      PROVE  Tracked'
  BY <1>5, DeathTracks
<1>6. CASE UNCHANGED cliVars
  BY <1>6, Quiet DEF cliVars
<1>7. QED
  BY <1>1, <1>2, <1>3, <1>4, <1>5, <1>6 DEF CliNext

-------------------------------------------------------------------------------
\* The strengthened invariant holds whatever the commands, the browser and the
\* server do, in any order.
THEOREM CliInvariance == ASSUME CliAssumption PROVE CliSpec => []CliIInv
<1>1. CliInit => CliIInv
  BY CliInitEstablishesIInv
<1>2. CliIInv /\ [CliNext]_cliVars => CliIInv'
  BY StageStep, ReportsStep, TokensStep DEF CliIInv, Tracked
<1>3. QED
  BY <1>1, <1>2, PTL DEF CliSpec

\* Every field of the processes, the files and the server keeps its type.
THEOREM CliTypeCorrect == ASSUME CliAssumption PROVE CliSpec => []CliTypeOK
<1>1. CliIInv => CliTypeOK
  BY DEF CliIInv
<1>2. QED
  BY <1>1, CliInvariance, PTL

\* _save_config, the callback and the browser between them, and a disk or a signal
\* that may end a login anywhere: a token the server honours is in the config, on
\* a page, on its way to a login, or with one that has not exited with 0, unless
\* the person logged out, logins overlapped or a dead token was pasted.
THEOREM TokenIsNotLost == ASSUME CliAssumption PROVE CliSpec => []LiveTokenNotLost
<1>1. CliIInv => LiveTokenNotLost
  BY DEF CliIInv
<1>2. QED
  BY <1>1, CliInvariance, PTL

\* The exit code of _scan_remote is true of the one scan the command caused,
\* through 429 and its retry, time-outs and answers that break off.
THEOREM ExitCodeIsTrue == ASSUME CliAssumption PROVE CliSpec => []ScanToldTruly
<1>1. CliIInv => ScanToldTruly
  <2> SUFFICES ASSUME CliIInv, NEW c \in Commands, process[c].kind = "scan"
               PROVE  /\ scans[c] <= 1
                      /\ process[c].exit = 0 => scans[c] = 1 /\ answer[c] \in {"clean", "oversized"}
                      /\ process[c].exit = 3 => scans[c] = 1 /\ answer[c] = "failed"
    BY DEF ScanToldTruly
  <2>1. Stage(process[c], scans[c], answer[c])
    BY DEF CliIInv
  <2>2. QED
    BY <2>1 DEF Stage
<1>2. QED
  BY <1>1, CliInvariance, PTL

\* The two report files are of one scan whenever nobody is between writing them,
\* as long as no two commands wrote theirs at once, and unless the writer of the
\* first was sent no page or died before it had written it.
THEOREM ReportsAreOfOneScan == ASSUME CliAssumption PROVE CliSpec => []ReportsAgree
<1>1. CliIInv => ReportsAgree
  BY DEF CliIInv
<1>2. QED
  BY <1>1, CliInvariance, PTL

\* Consent, the portal's buttons and whatever the commands do are nothing but
\* steps of a token lease to the server.  With RefinesLeaseHolds, by which the
\* registry gives the steps of a lease and no others, what is proved of the
\* command line holds against the registry.
THEOREM ServerIsALease == CliSpec => Server!Spec
<1>1. CliInit => Server!Init
  BY DEF CliInit, Server!Init, Server!OneLivePerUser
<1>2. ASSUME [CliNext]_cliVars PROVE [Server!Next]_(Server!vars)
  <2>1. ASSUME NEW t \in Tokens, Server!Mint(t, User) \/ Server!Revoke(t) PROVE Server!Next
    BY <2>1 DEF Server!Next
  <2>2. CASE Browse
    <3>1. PICK t \in Tokens :
             \/ Server!Mint(t, User) \/ Server!Revoke(t) \/ UNCHANGED server
      BY <2>2 DEF Browse, BrowserIssue, BrowserRevoke, Consent, Callback, NobodyListens
    <3>2. QED
      BY <2>1, <3>1 DEF server, Server!vars
  <2>3. CASE UNCHANGED server
    BY <2>3 DEF server, Server!vars
  <2>4. ASSUME NEW c \in Commands,
               \/ BeginLogin(c) \/ BeginLogout(c) \/ BeginScan(c) \/ Paste(c)
               \/ SignIn(c) \/ SignOut(c) \/ Scan(c) \/ ScanEnds(c) \/ Dies(c)
        PROVE  UNCHANGED server
    BY <2>4 DEF BeginLogin, BeginLogout, BeginScan, Paste, SignIn, LoginTimesOut, WriteTmp, Replace,
       SignOut, RevokeRemote, RemoveConfig, Scan, Accepted, Busy, Refused, Receive, TimesOut,
       WriteMarkdown, WriteHtml, ScanEnds, Dies
  <2>5. CASE UNCHANGED cliVars
    BY <2>5 DEF cliVars, Server!vars
  <2>6. QED
    BY <1>2, <2>2, <2>3, <2>4, <2>5 DEF CliNext
<1>3. QED
  BY <1>1, <1>2, PTL DEF CliSpec, Server!Spec
===============================================================================
