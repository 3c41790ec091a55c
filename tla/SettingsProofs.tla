---------------------------- MODULE SettingsProofs ----------------------------
(***************************************************************************)
(* Theorems about Settings, for every number of admins and tabs, every set  *)
(* of keys and every number of saves: what overlapping saves can lose, that *)
(* a user's own saves never overlap, and which CI tokens overlapping        *)
(* rotations can leave active.                                             *)
(***************************************************************************)
EXTENDS Settings, TLAPS

\* The saves, up to the i-th of a table, of a page with this section, and the
\* default.
Posts(saves, i, sec) == {0} \cup {j \in 1..i : saves[j].from[sec] = j}

IsLast(x, S) == x \in S /\ \A y \in S : x >= y

Last(saves, i, sec) == Max(Posts(saves, i, sec))

\* A save knows only saves that came before it, and itself.
LooksBack(t, saves) ==
    \A i \in 1..Len(saves) :
        /\ saves[i].base < i
        /\ \A sec \in Sections[t] : saves[i].from[sec] <= i

\* There always is a last post: what Max needs to mean anything.
HasLast(t, saves) ==
    \A sec \in Sections[t] : \A i \in 0..Len(saves) : \E x \in Nat : IsLast(x, Posts(saves, i, sec))

\* What the k-th row is after a save of the advanced page.
IsReset(row, k) == row.from = [gate |-> k, scanner |-> k, retention |-> 0]

\* LostOnlyByOverlapOrReset, of one section of one save.
Kept(t, saves, i, sec) ==
    \/ saves[i].from[sec] = Last(saves, i, sec)
    \/ \E k \in (Last(saves, i, sec) + 1)..i : saves[k].base < Last(saves, i, sec)
    \/ /\ t = "scanner" /\ sec = "retention"
       /\ \E k \in (Last(saves, i, sec) + 1)..i : IsReset(saves[k], k)

TableSound(t, saves) ==
    /\ saves \in Seq(Row(t))
    /\ LooksBack(t, saves)
    /\ HasLast(t, saves)
    /\ \A i \in 1..Len(saves) : \A sec \in Sections[t] : Kept(t, saves, i, sec)

\* A request saw what is there, or less; a rotation revokes the newest of the
\* tokens it saw.
RequestsLookBack ==
    \A a \in Admins :
        /\ req[a].pc = "saving" => req[a].base <= Len(rows[req[a].table])
        /\ req[a].pc \in {"rotating", "flushed"}
              => req[a].base <= Len(tokens) /\ req[a].current = req[a].base

RowsSound == rows = [t \in Tables |-> rows[t]] /\ \A t \in Tables : TableSound(t, rows[t])

\* The request that has read the user's row is the only one of its kind, and the
\* row is still what it read.
OwnSound ==
    /\ llm = posted /\ llm \in Own
    /\ \A a \in Admins : req[a].pc = "posting" => req[a].read = llm
    /\ \A a, b \in Admins : req[a].pc = "posting" /\ req[b].pc = "posting" => a = b

InBounds == Len(tokens) <= MaxSaves /\ \A t \in Tables : Len(rows[t]) <= MaxSaves

IInv == /\ RowsSound
        /\ InBounds
        /\ tokens \in Seq(Token)
        /\ req \in [Admins -> Request]
        /\ RequestsLookBack
        /\ OwnSound
        /\ OldTokensOnlyByOverlap

-------------------------------------------------------------------------------
(***************************************************************************)
(* The last of a set                                                       *)
(***************************************************************************)
LEMMA MaxIsLast == ASSUME NEW S \in SUBSET Nat, NEW x, IsLast(x, S) PROVE Max(S) = x
<1>1. Max(S) \in S /\ \A y \in S : Max(S) >= y
  BY DEF Max, IsLast
<1>2. x \in Nat /\ Max(S) \in Nat /\ x >= Max(S) /\ Max(S) >= x
  BY <1>1 DEF IsLast
<1>3. QED
  BY <1>2

LEMMA PostsAreNumbers ==
    ASSUME NEW saves, NEW i \in Nat, NEW sec
    PROVE  /\ Posts(saves, i, sec) \in SUBSET Nat
           /\ \A x \in Posts(saves, i, sec) : x \in 0..i
BY DEF Posts

LEMMA LastIsLast ==
    ASSUME NEW saves, NEW i \in Nat, NEW sec, NEW x, IsLast(x, Posts(saves, i, sec))
    PROVE  Last(saves, i, sec) = x
BY PostsAreNumbers, MaxIsLast DEF Last

LEMMA LastExists ==
    ASSUME NEW t, NEW saves, HasLast(t, saves), NEW sec \in Sections[t],
           NEW i \in Nat, i \in 0..Len(saves)
    PROVE  /\ IsLast(Last(saves, i, sec), Posts(saves, i, sec))
           /\ Last(saves, i, sec) \in 0..i
<1>1. PICK x \in Nat : IsLast(x, Posts(saves, i, sec))
  BY DEF HasLast
<1>2. Last(saves, i, sec) = x
  BY <1>1, LastIsLast
<1>3. QED
  BY <1>1, <1>2, PostsAreNumbers DEF IsLast

-------------------------------------------------------------------------------
(***************************************************************************)
(* A save.  Each section of the row it adds is posted, or copied from the    *)
(* row the request read, but for the retention that the advanced page resets.*)
(***************************************************************************)
Copied(saves, base, sec) == IF base = 0 THEN 0 ELSE saves[base].from[sec]

LEMMA SaveKeepsSound ==
    ASSUME NEW t \in Tables, NEW old, TableSound(t, old), NEW row \in Row(t),
           NEW m \in Nat, m = Len(old), row.base <= m,
           \A sec \in Sections[t] :
              \/ row.from[sec] = m + 1
              \/ row.from[sec] = Copied(old, row.base, sec)
              \/ t = "scanner" /\ sec = "retention" /\ IsReset(row, m + 1)
    PROVE  TableSound(t, Append(old, row)) /\ Len(Append(old, row)) = m + 1
<1> DEFINE n == m + 1
           saves == Append(old, row)
<1>1. /\ old \in Seq(Row(t)) /\ row.base \in Nat
      /\ \A i \in 1..m : old[i] \in Row(t)
  <2>1. old \in Seq(Row(t))
    BY DEF TableSound
  <2>2. row.base \in Nat
    BY SavesAreBounded DEF Row
  <2>3. QED
    BY <2>1, <2>2
<1>2. /\ saves \in Seq(Row(t)) /\ Len(saves) = n /\ saves[n] = row
      /\ \A i \in 1..m : saves[i] = old[i]
  BY <1>1
<1> HIDE DEF saves
<1>3. \A sec \in Sections[t] : \A i \in 1..m : old[i].from[sec] \in 0..i
  BY <1>1, SavesAreBounded DEF TableSound, LooksBack, Row
<1>4. \A sec \in Sections[t] : \A b \in 0..m : Copied(old, b, sec) \in 0..b
  BY <1>3 DEF Copied
<1>5. \A sec \in Sections[t] : row.from[sec] \in 0..n
  BY <1>1, <1>4 DEF IsReset
<1>6. LooksBack(t, saves)
  <2> SUFFICES ASSUME NEW i \in 1..n
               PROVE  saves[i].base < i /\ \A sec \in Sections[t] : saves[i].from[sec] <= i
    BY <1>2 DEF LooksBack
  <2>1. CASE i = n
    BY <1>1, <1>2, <1>5, <2>1
  <2>2. CASE i \in 1..m
    BY <1>2, <2>2 DEF TableSound, LooksBack
  <2>3. QED
    BY <2>1, <2>2
<1>7. ASSUME NEW sec, NEW i \in 0..m
      PROVE  Posts(saves, i, sec) = Posts(old, i, sec)
  BY <1>2 DEF Posts
<1>8. ASSUME NEW sec \in Sections[t]
      PROVE  /\ Last(old, m, sec) \in 0..m
             /\ IsLast(Last(old, m, sec), Posts(old, m, sec))
  BY LastExists DEF TableSound
<1>9. ASSUME NEW sec \in Sections[t]
      PROVE  IsLast(IF row.from[sec] = n THEN n ELSE Last(old, m, sec), Posts(saves, n, sec))
  <2>1. Posts(saves, n, sec) = Posts(old, m, sec) \cup (IF row.from[sec] = n THEN {n} ELSE {})
    BY <1>2 DEF Posts
  <2>2. \A y \in Posts(old, m, sec) : y \in 0..m
    BY PostsAreNumbers
  <2>3. QED
    BY <1>8, <2>1, <2>2 DEF IsLast
<1>10. ASSUME NEW sec \in Sections[t]
       PROVE  Last(saves, n, sec) = IF row.from[sec] = n THEN n ELSE Last(old, m, sec)
  BY <1>9, LastIsLast
<1>11. HasLast(t, saves)
  <2> SUFFICES ASSUME NEW sec \in Sections[t], NEW i \in 0..n
               PROVE  \E x \in Nat : IsLast(x, Posts(saves, i, sec))
    BY <1>2 DEF HasLast
  <2>1. CASE i \in 0..m
    BY <1>7, <2>1 DEF TableSound, HasLast
  <2>2. CASE i = n
    BY <1>8, <1>9, <2>2
  <2>3. QED
    BY <2>1, <2>2
<1>12. ASSUME NEW sec \in Sections[t], NEW i \in 1..m
       PROVE  Kept(t, saves, i, sec)
  <2>1. Kept(t, old, i, sec)
    BY DEF TableSound
  <2>2. Last(saves, i, sec) = Last(old, i, sec) /\ Last(old, i, sec) \in 0..i
    BY <1>7, LastExists DEF Last, TableSound
  <2>3. \A k \in (Last(old, i, sec) + 1)..i : saves[k] = old[k]
    BY <1>2, <2>2
  <2>4. QED
    BY <1>2, <2>1, <2>2, <2>3 DEF Kept
<1>13. ASSUME NEW sec \in Sections[t]
       PROVE  Kept(t, saves, n, sec)
  <2> DEFINE L == Last(old, m, sec)
  <2>1. CASE row.from[sec] = n
    BY <1>2, <1>10, <2>1 DEF Kept
  <2>2. CASE row.from[sec] # n
    <3>1. Last(saves, n, sec) = L /\ L \in 0..m
      BY <1>8, <1>10, <2>2
    <3> DEFINE b == row.base
    <3>2. b \in 0..m
      BY <1>1
    <3>3. CASE b < L
      <4>1. n \in (L + 1)..n /\ saves[n].base < L
        BY <1>2, <3>1, <3>3
      <4>2. QED
        BY <3>1, <4>1 DEF Kept
    <3>4. CASE L <= b /\ row.from[sec] = Copied(old, b, sec)
      <4>1. Last(old, b, sec) = L
        <5>1. IsLast(L, Posts(old, b, sec))
          BY <1>8, <3>1, <3>2, <3>4 DEF IsLast, Posts
        <5>2. QED
          BY <3>2, <5>1, LastIsLast
      <4>2. CASE b = 0
        BY <1>2, <3>1, <3>2, <3>4, <4>2 DEF Copied, Kept
      <4>3. CASE b # 0
        <5>1. b \in 1..m /\ row.from[sec] = old[b].from[sec] /\ Kept(t, old, b, sec)
          BY <3>2, <3>4, <4>3 DEF Copied, TableSound
        <5>2. \A k \in (L + 1)..b : k \in (L + 1)..n /\ saves[k] = old[k]
          BY <1>2, <3>1, <5>1
        <5>3. QED
          BY <1>2, <3>1, <4>1, <5>1, <5>2 DEF Kept
      <4>4. QED
        BY <4>2, <4>3
    <3>5. CASE t = "scanner" /\ sec = "retention" /\ IsReset(row, n)
      <4>1. n \in (L + 1)..n /\ IsReset(saves[n], n)
        BY <1>2, <3>1, <3>5
      <4>2. QED
        BY <3>1, <3>5, <4>1 DEF Kept
    <3>6. QED
      BY <2>2, <3>1, <3>2, <3>3, <3>4, <3>5
  <2>3. QED
    BY <2>1, <2>2
<1>14. \A i \in 1..n : \A sec \in Sections[t] : Kept(t, saves, i, sec)
  BY <1>12, <1>13
<1>15. QED
  BY <1>2, <1>6, <1>11, <1>14 DEF TableSound, saves

-------------------------------------------------------------------------------
(***************************************************************************)
(* Every step preserves the invariant.                                     *)
(***************************************************************************)
LEMMA TablesAre == Tables = {"scanner", "org"}
BY DEF Tables, Sections

LEMMA InitEstablishesIInv == Init => IInv
<1> SUFFICES ASSUME Init PROVE IInv
  OBVIOUS
<1>1. \A t \in Tables : rows[t] = <<>>
  BY DEF Init
<1>2. ASSUME NEW t \in Tables
      PROVE  TableSound(t, <<>>)
  <2>1. ASSUME NEW sec, NEW i \in 0..Len(<<>>)
        PROVE  IsLast(0, Posts(<<>>, i, sec))
    BY DEF IsLast, Posts
  <2>2. QED
    BY <2>1 DEF TableSound, LooksBack, HasLast
<1>3. RowsSound
  BY <1>1, <1>2 DEF Init, RowsSound
<1>4. tokens \in Seq(Token) /\ OldTokensOnlyByOverlap
  BY DEF Init, OldTokensOnlyByOverlap
<1>5. req \in [Admins -> Request] /\ RequestsLookBack
  BY DEF Init, Idle, Request, RequestsLookBack
<1>6. InBounds
  BY <1>1, <1>3, SavesAreBounded DEF Init, InBounds
<1>7. OwnSound
  BY SavesAreBounded DEF Init, OwnSound, Own, Idle
<1>8. QED
  BY <1>3, <1>4, <1>5, <1>6, <1>7 DEF IInv

\* The user's row is safe from steps that neither write nor read it.
LEMMA OwnUnchanged ==
    ASSUME OwnSound, UNCHANGED own,
           \A a \in Admins : req'[a] = req[a] \/ req'[a].pc # "posting"
    PROVE  OwnSound'
BY DEF OwnSound, own

\* Steps that leave the tables alone owe only their own request.
LEMMA OnlyRequests ==
    ASSUME IInv, rows' = rows, tokens' = tokens, UNCHANGED own, req' \in [Admins -> Request],
           \A a \in Admins :
              \/ req'[a] = req[a]
              \/ req'[a].pc = "idle"
              \/ req'[a].pc = "saving" /\ req'[a].base <= Len(rows[req'[a].table])
              \/ /\ req'[a].pc \in {"rotating", "flushed"}
                 /\ req'[a].base <= Len(tokens) /\ req'[a].current = req'[a].base
    PROVE  IInv'
<1>1. RequestsLookBack'
  BY DEF IInv, RequestsLookBack
<1>2. RowsSound' /\ InBounds' /\ OldTokensOnlyByOverlap' /\ tokens' \in Seq(Token)
  BY DEF IInv, RowsSound, InBounds, OldTokensOnlyByOverlap
<1>3. OwnSound'
  <2>1. \A a \in Admins : req'[a] = req[a] \/ req'[a].pc # "posting"
    OBVIOUS
  <2>2. QED
    BY <2>1, OwnUnchanged DEF IInv
<1>4. QED
  BY <1>1, <1>2, <1>3 DEF IInv

LEMMA RequestsUnchanged ==
    ASSUME IInv, rows' = rows, tokens' = tokens, UNCHANGED own, req' = req PROVE IInv'
BY OnlyRequests DEF IInv

LEMMA FieldsAreTyped ==
    ASSUME IInv, NEW t \in Tables, NEW b \in Nat, b <= Len(rows[t])
    PROVE  /\ Fields(t, b).from \in [Sections[t] -> 0..MaxSaves]
           /\ Fields(t, b).days \in Days
           /\ \A sec \in Sections[t] : Fields(t, b).from[sec] = Copied(rows[t], b, sec)
<1>1. rows[t] \in Seq(Row(t))
  BY DEF IInv, RowsSound, TableSound
<1>2. CASE b = 0
  BY <1>2, DaysAreShort, SavesAreBounded DEF Fields, Copied
<1>3. CASE b # 0
  <2>1. rows[t][b] \in Row(t)
    BY <1>1, <1>3
  <2>2. QED
    BY <1>3, <2>1 DEF Fields, Copied, Row
<1>4. QED
  BY <1>2, <1>3

LEMMA SumBounds ==
    ASSUME NEW a \in Nat, NEW b \in Nat, NEW c \in Nat, NEW d \in Nat
    PROVE  /\ a + b + c + d \in Nat
           /\ a <= a + b + c + d /\ b <= a + b + c + d /\ c <= a + b + c + d
           /\ d <= a + b + c + d
OBVIOUS

LEMMA SavesCount ==
    ASSUME IInv
    PROVE  /\ \A t \in Tables : Len(rows[t]) \in Nat
           /\ Saves < MaxSaves => /\ \A t \in Tables : Len(rows[t]) + 1 \in 0..MaxSaves
                                 /\ Len(tokens) + 1 \in 0..MaxSaves
                                 /\ posted.key + 1 \in 0..MaxSaves
<1>1. \A u \in Tables : Len(rows[u]) \in Nat
  BY DEF IInv, RowsSound, TableSound
<1>2. PICK n1, n2, n3, n4 \in Nat :
         /\ n1 = Len(rows["scanner"]) /\ n2 = Len(rows["org"])
         /\ n3 = Len(tokens) /\ n4 = posted.key
  BY <1>1, TablesAre, SavesAreBounded DEF IInv, OwnSound, Own
<1>3. Saves = n1 + n2 + n3 + n4
  BY <1>2 DEF Saves
<1>4. \A t \in Tables : Len(rows[t]) \in {n1, n2}
  BY <1>2, TablesAre
<1>5. /\ Saves \in Nat /\ Len(tokens) <= Saves /\ n4 <= Saves
      /\ \A t \in Tables : Len(rows[t]) <= Saves
  BY <1>2, <1>3, <1>4, SumBounds
<1>6. QED
  BY <1>1, <1>2, <1>5, SavesAreBounded

LEMMA SaveStep ==
    ASSUME IInv, NEW a \in Admins, NEW t \in Tables, NEW row \in Row(t),
           rows' = [rows EXCEPT ![t] = Append(@, row)],
           row.base <= Len(rows[t]), Saves < MaxSaves,
           \A sec \in Sections[t] :
              \/ row.from[sec] = Len(rows[t]) + 1
              \/ row.from[sec] = Copied(rows[t], row.base, sec)
              \/ t = "scanner" /\ sec = "retention" /\ IsReset(row, Len(rows[t]) + 1),
           req' \in {req, [req EXCEPT ![a] = Idle]}, tokens' = tokens, UNCHANGED own
    PROVE  IInv'
<1>1. TableSound(t, rows[t]) /\ Len(rows[t]) \in Nat
  BY SavesCount DEF IInv, RowsSound
<1>2. TableSound(t, Append(rows[t], row)) /\ Len(Append(rows[t], row)) = Len(rows[t]) + 1
  BY <1>1, SaveKeepsSound
<1>3. rows'[t] = Append(rows[t], row) /\ \A u \in Tables \ {t} : rows'[u] = rows[u]
  BY DEF IInv, RowsSound
<1>4. RowsSound'
  BY <1>2, <1>3 DEF IInv, RowsSound
<1>5. \A u \in Tables : Len(rows[u]) \in Nat /\ Len(rows'[u]) \in Nat /\ Len(rows[u]) <= Len(rows'[u])
  BY <1>1, <1>2, <1>3, SavesCount
<1>6. req' \in [Admins -> Request]
  BY DEF IInv, Idle, Request
<1>7. RequestsLookBack'
  <2> SUFFICES ASSUME NEW b \in Admins
               PROVE  /\ req'[b].pc = "saving" => req'[b].base <= Len(rows'[req'[b].table])
                      /\ req'[b].pc \in {"rotating", "flushed"}
                            => req'[b].base <= Len(tokens) /\ req'[b].current = req'[b].base
    BY DEF RequestsLookBack
  <2>1. CASE req'[b] = Idle
    BY <2>1 DEF Idle
  <2>2. CASE req'[b] # Idle
    <3>1. req'[b] = req[b] /\ req[b] \in Request
      BY <2>2 DEF IInv
    <3>2. req[b].pc = "saving" => req[b].table \in Tables /\ req[b].base \in Nat
      BY <3>1, SavesAreBounded DEF Request
    <3>3. req[b].pc = "saving" => req[b].base <= Len(rows[req[b].table])
      BY DEF IInv, RequestsLookBack
    <3>4. req[b].pc = "saving" => req[b].base <= Len(rows'[req[b].table])
      BY <1>5, <3>2, <3>3
    <3>5. QED
      BY <3>1, <3>4 DEF IInv, RequestsLookBack
  <2>3. QED
    BY <2>1, <2>2
<1>8. OldTokensOnlyByOverlap'
  BY DEF IInv, OldTokensOnlyByOverlap
<1>9. InBounds'
  <2>1. ASSUME NEW u \in Tables PROVE Len(rows'[u]) <= MaxSaves
    BY <1>1, <1>2, <1>3, SavesCount, SavesAreBounded DEF IInv, InBounds
  <2>2. QED
    BY <2>1 DEF IInv, InBounds
<1>10. OwnSound'
  <2>1. \A b \in Admins : req'[b] = req[b] \/ req'[b].pc # "posting"
    BY DEF IInv, Idle
  <2>2. QED
    BY <2>1, OwnUnchanged DEF IInv
<1>11. QED
  BY <1>4, <1>6, <1>7, <1>8, <1>9, <1>10 DEF IInv

LEMMA InsertRowStep ==
    ASSUME IInv, NEW a \in Admins, NEW t \in {"scanner", "org"}, NEW posts, NEW days \in Days,
           InsertRow(a, t, posts, days)
    PROVE  IInv'
<1> DEFINE id == Len(rows[t]) + 1
           base == req[a].base
           old == Fields(t, base)
           row == [from |-> [sec \in Sections[t] |-> IF sec \in posts THEN id ELSE old.from[sec]],
                   days |-> IF "retention" \in posts THEN days ELSE old.days,
                   base |-> base]
<1>1. t \in Tables
  BY TablesAre
<1>2. req[a].pc = "saving" /\ req[a].table = t /\ req[a] \in Request /\ Saves < MaxSaves
  BY DEF InsertRow, Insert, IInv
<1>3. base \in 0..MaxSaves /\ base \in Nat /\ base <= Len(rows[t])
  BY <1>2, SavesAreBounded DEF Request, IInv, RequestsLookBack
<1>4. id \in 0..MaxSaves
  BY <1>1, <1>2, SavesCount
<1>5. /\ old.from \in [Sections[t] -> 0..MaxSaves] /\ old.days \in Days
      /\ \A sec \in Sections[t] : old.from[sec] = Copied(rows[t], base, sec)
  BY <1>1, <1>3, FieldsAreTyped
<1>6. row \in Row(t)
  BY <1>3, <1>4, <1>5 DEF Row
<1>7. rows' = [rows EXCEPT ![t] = Append(@, row)] /\ req' = [req EXCEPT ![a] = Idle] /\ tokens' = tokens
      /\ UNCHANGED own
  BY DEF InsertRow, Insert
<1>8. \A sec \in Sections[t] : row.from[sec] = id \/ row.from[sec] = Copied(rows[t], base, sec)
  BY <1>5
<1>9. row.base = base
  OBVIOUS
<1> HIDE DEF row, id
<1>10. QED
  BY <1>1, <1>2, <1>3, <1>6, <1>7, <1>8, <1>9, SaveStep DEF id

\* The advanced page posts every section but the retention, which it resets.
LEMMA AdvancedFormStep ==
    ASSUME IInv, NEW a \in Admins, AdvancedForm(a)
    PROVE  IInv'
<1> DEFINE id == Len(rows["scanner"]) + 1
<1>1. "scanner" \in Tables /\ Sections["scanner"] = ScannerSections
  BY TablesAre DEF Sections
<1>2. PICK posts \in {{"gate", "scanner"}, ScannerSections}, days \in Days :
         Insert("scanner", [sec \in ScannerSections |-> IF sec \in posts THEN id ELSE 0],
                days, Len(rows["scanner"]))
  BY DEF AdvancedForm
<1> DEFINE from == [sec \in ScannerSections |-> IF sec \in posts THEN id ELSE 0]
           row == [from |-> from, days |-> days, base |-> Len(rows["scanner"])]
<1>3. /\ rows' = [rows EXCEPT !["scanner"] = Append(@, row)]
      /\ Saves < MaxSaves /\ tokens' = tokens /\ UNCHANGED own
  BY <1>2 DEF Insert
<1>4. id \in 0..MaxSaves /\ 0 \in 0..MaxSaves /\ Len(rows["scanner"]) \in 0..MaxSaves
  BY <1>1, <1>3, SavesCount, SavesAreBounded
<1>5. row \in Row("scanner")
  BY <1>1, <1>4 DEF Row
<1>6. \A sec \in ScannerSections :
         row.from[sec] = id \/ (sec = "retention" /\ IsReset(row, id))
  BY DEF ScannerSections, IsReset
<1>7. req' = req /\ row.base = Len(rows["scanner"])
  BY DEF AdvancedForm
<1>8. row.base <= Len(rows["scanner"])
  BY <1>1, <1>7, SavesCount
<1> HIDE DEF row
<1>9. QED
  BY <1>1, <1>3, <1>5, <1>6, <1>7, <1>8, SaveStep

-------------------------------------------------------------------------------
(***************************************************************************)
(* The user's own form.                                                    *)
(***************************************************************************)

\* Its steps leave everything else as it is.
LEMMA OthersUnchanged ==
    ASSUME IInv, NEW a \in Admins, NEW new \in Request, new.pc \in {"posting", "idle"},
           rows' = rows, tokens' = tokens, req' = [req EXCEPT ![a] = new], OwnSound'
    PROVE  IInv'
<1>1. req' \in [Admins -> Request] /\ req'[a] = new /\ \A b \in Admins \ {a} : req'[b] = req[b]
  BY DEF IInv
<1>2. RequestsLookBack'
  BY <1>1 DEF IInv, RequestsLookBack
<1>3. RowsSound' /\ InBounds' /\ OldTokensOnlyByOverlap' /\ tokens' \in Seq(Token)
  BY DEF IInv, RowsSound, InBounds, OldTokensOnlyByOverlap
<1>4. QED
  BY <1>1, <1>2, <1>3 DEF IInv

LEMMA OpenUserFormStep ==
    ASSUME IInv, NEW a \in Admins, OpenUserForm(a)
    PROVE  IInv'
<1> DEFINE new == [pc |-> "posting", read |-> llm]
<1>1. new \in Request /\ new.pc = "posting" /\ new.read = llm
  BY DEF IInv, OwnSound, Request
<1>2. req' = [req EXCEPT ![a] = new] /\ rows' = rows /\ tokens' = tokens /\ UNCHANGED own
  BY DEF OpenUserForm
<1>3. \A b \in Admins : req[b].pc # "posting"
  BY DEF OpenUserForm, MayLockUser
<1>4. req'[a] = new /\ \A b \in Admins \ {a} : req'[b] = req[b]
  BY <1>2 DEF IInv
<1> HIDE DEF new
<1>5. OwnSound'
  BY <1>1, <1>2, <1>3, <1>4 DEF IInv, OwnSound, own
<1>6. QED
  BY <1>1, <1>2, <1>5, OthersUnchanged

\* What it read is what is there: the columns it writes and the others together
\* are what was posted.
LEMMA UserFormStep ==
    ASSUME IInv, NEW a \in Admins, UserForm(a)
    PROVE  IInv'
<1>1. req[a].pc = "posting" /\ req[a].read = llm /\ llm = posted /\ llm \in Own
  BY DEF UserForm, IInv, OwnSound
<1>2. rows' = rows /\ tokens' = tokens /\ req' = [req EXCEPT ![a] = Idle]
  BY DEF UserForm
<1>3. Idle \in Request /\ Idle.pc = "idle"
  BY DEF Idle, Request
<1>4. llm' = posted' /\ posted' \in Own
  <2>1. PICK provider \in Providers, blank \in BOOLEAN :
          /\ ~blank => Saves < MaxSaves
          /\ posted' = [provider |-> provider,
                        key |-> IF blank THEN posted.key ELSE posted.key + 1]
          /\ llm' = [provider |-> IF provider = llm.provider THEN llm.provider ELSE provider,
                     key |-> IF blank THEN llm.key ELSE posted.key + 1]
    BY <1>1 DEF UserForm
  <2>2. llm' = posted'
    BY <1>1, <2>1
  <2>3. (IF blank THEN posted.key ELSE posted.key + 1) \in 0..MaxSaves
    <3>1. posted.key \in 0..MaxSaves
      BY <1>1 DEF Own
    <3>2. QED
      BY <2>1, <3>1, SavesCount
  <2>4. QED
    BY <2>1, <2>2, <2>3 DEF Own
<1>5. req'[a] = Idle /\ \A b \in Admins \ {a} : req'[b] = req[b] /\ req[b].pc # "posting"
  BY <1>1, <1>2 DEF IInv, OwnSound
<1>6. OwnSound'
  BY <1>3, <1>4, <1>5 DEF OwnSound
<1>7. QED
  BY <1>2, <1>3, <1>6, OthersUnchanged

-------------------------------------------------------------------------------
(***************************************************************************)
(* A rotation, and reading a table.                                        *)
(***************************************************************************)
LEMMA NewestIsCurrent == ASSUME IInv PROVE Current = Len(tokens)
<1>1. Len(tokens) \in Nat /\ DOMAIN tokens = 1..Len(tokens)
  BY DEF IInv
<1>2. CASE Len(tokens) = 0
  BY <1>1, <1>2 DEF Current, ActiveTokens
<1>3. CASE Len(tokens) # 0
  <2>1. Len(tokens) \in ActiveTokens
    BY <1>1, <1>3 DEF IInv, OldTokensOnlyByOverlap, ActiveTokens
  <2>2. ActiveTokens \in SUBSET Nat /\ IsLast(Len(tokens), ActiveTokens)
    BY <1>1, <2>1 DEF ActiveTokens, IsLast
  <2>3. QED
    BY <2>1, <2>2, MaxIsLast DEF Current
<1>4. QED
  BY <1>2, <1>3

LEMMA ReadLatestStep ==
    ASSUME IInv, NEW a \in Admins, NEW t \in Tables, ReadLatest(a, t)
    PROVE  IInv'
<1> DEFINE new == [pc |-> "saving", table |-> t, base |-> Len(rows[t])]
<1>1. Len(rows[t]) \in 0..MaxSaves
  BY SavesCount, SavesAreBounded DEF IInv, InBounds
<1>2. new \in Request
  BY <1>1 DEF Request
<1>3. rows' = rows /\ tokens' = tokens /\ UNCHANGED own /\ req' = [req EXCEPT ![a] = new]
  BY DEF ReadLatest
<1>4. req' \in [Admins -> Request] /\ req'[a] = new /\ \A b \in Admins \ {a} : req'[b] = req[b]
  BY <1>2, <1>3 DEF IInv
<1>5. new.pc = "saving" /\ new.base <= Len(rows[new.table])
  BY <1>1
<1> HIDE DEF new
<1>6. QED
  BY <1>3, <1>4, <1>5, OnlyRequests

LEMMA ReadCurrentStep ==
    ASSUME IInv, NEW a \in Admins, ReadCurrent(a)
    PROVE  IInv'
<1> DEFINE new == [pc |-> "rotating", current |-> Len(tokens), base |-> Len(tokens)]
<1>1. Len(tokens) \in 0..MaxSaves
  BY SavesAreBounded DEF IInv, InBounds
<1>2. new \in Request
  BY <1>1 DEF Request
<1>3. rows' = rows /\ tokens' = tokens /\ UNCHANGED own /\ req' = [req EXCEPT ![a] = new]
  BY NewestIsCurrent DEF ReadCurrent
<1>4. req' \in [Admins -> Request] /\ req'[a] = new /\ \A b \in Admins \ {a} : req'[b] = req[b]
  BY <1>2, <1>3 DEF IInv
<1>5. new.pc = "rotating" /\ new.base <= Len(tokens) /\ new.current = new.base
  BY <1>1
<1> HIDE DEF new
<1>6. QED
  BY <1>3, <1>4, <1>5, OnlyRequests

LEMMA FlushRevocationStep ==
    ASSUME IInv, NEW a \in Admins, FlushRevocation(a)
    PROVE  IInv'
<1>1. /\ req[a] \in [pc : {"rotating", "flushed"}, current : 0..MaxSaves, base : 0..MaxSaves]
      /\ req[a].base <= Len(tokens) /\ req[a].current = req[a].base
  BY DEF FlushRevocation, IInv, Request, RequestsLookBack
<1>2. PICK new \in Request : new = [req[a] EXCEPT !.pc = "flushed"]
  BY <1>1 DEF Request
<1>3. new.pc = "flushed" /\ new.base <= Len(tokens) /\ new.current = new.base
  BY <1>1, <1>2
<1>4. rows' = rows /\ tokens' = tokens /\ UNCHANGED own /\ req' = [req EXCEPT ![a] = new]
  BY <1>2 DEF FlushRevocation
<1>5. req' \in [Admins -> Request] /\ req'[a] = new /\ \A b \in Admins \ {a} : req'[b] = req[b]
  BY <1>4 DEF IInv
<1>6. QED
  BY <1>3, <1>4, <1>5, OnlyRequests

LEMMA AbortStep ==
    ASSUME IInv, NEW a \in Admins, Abort(a)
    PROVE  IInv'
<1>1. rows' = rows /\ tokens' = tokens /\ UNCHANGED own /\ req' = [req EXCEPT ![a] = Idle]
  BY DEF Abort
<1>2. Idle \in Request /\ Idle.pc = "idle"
  BY DEF Idle, Request
<1>3. req' \in [Admins -> Request] /\ req'[a] = Idle /\ \A b \in Admins \ {a} : req'[b] = req[b]
  BY <1>1, <1>2 DEF IInv
<1>4. QED
  BY <1>1, <1>2, <1>3, OnlyRequests

LEMMA FunctionIsSeq ==
    ASSUME NEW S, NEW n \in Nat, NEW f \in [1..n -> S]
    PROVE  f \in Seq(S) /\ Len(f) = n /\ DOMAIN f = 1..n
OBVIOUS

\* The new token is active, the one before it is not if its rotation was read
\* from the newest row, and otherwise that rotation had read less.
LEMMA InsertTokenStep ==
    ASSUME IInv, NEW a \in Admins, InsertToken(a)
    PROVE  IInv'
<1> DEFINE current == req[a].current
           new == [active |-> TRUE, base |-> req[a].base]
           old == [i \in DOMAIN tokens |->
                     IF i = current THEN [tokens[i] EXCEPT !.active = FALSE] ELSE tokens[i]]
<1>1. /\ req[a].base \in 0..MaxSaves /\ req[a].base <= Len(tokens) /\ current = req[a].base
      /\ Saves < MaxSaves
  BY DEF InsertToken, IInv, Request, RequestsLookBack
<1>2. PICK n \in Nat : n = Len(tokens)
  BY DEF IInv
<1>3. /\ tokens \in Seq(Token) /\ DOMAIN tokens = 1..n
      /\ \A i \in 1..n : tokens[i] \in Token
  BY <1>2 DEF IInv
<1>4. old \in Seq(Token) /\ Len(old) = n /\ DOMAIN old = 1..n
  <2>1. \A i \in 1..n : old[i] \in Token
    BY <1>3 DEF Token
  <2>2. old \in [1..n -> Token]
    BY <1>3, <2>1
  <2> HIDE DEF old
  <2>3. QED
    BY <1>2, <2>2, FunctionIsSeq
<1>5. \A i \in 1..n : old[i].base = tokens[i].base /\ (old[i].active => i # current /\ tokens[i].active)
  BY <1>3 DEF Token
<1>6. new \in Token /\ new.active /\ new.base = current
  BY <1>1 DEF Token
<1>7. /\ tokens' = Append(old, new) /\ rows' = rows /\ UNCHANGED own
      /\ req' = [req EXCEPT ![a] = Idle]
  BY DEF InsertToken
<1> HIDE DEF old, new
<1>8. /\ tokens' \in Seq(Token) /\ Len(tokens') = n + 1 /\ DOMAIN tokens' = 1..(n + 1)
      /\ tokens'[n + 1] = new /\ \A i \in 1..n : tokens'[i] = old[i]
  BY <1>4, <1>6, <1>7
<1>9. OldTokensOnlyByOverlap'
  <2> SUFFICES ASSUME NEW i \in 1..(n + 1)
               PROVE  /\ i = n + 1 => tokens'[i].active
                      /\ i < n + 1 /\ tokens'[i].active => tokens'[i+1].base < i
    BY <1>8 DEF OldTokensOnlyByOverlap
  <2>1. CASE i = n + 1
    BY <1>6, <1>8, <2>1
  <2>2. CASE i = n
    BY <1>1, <1>2, <1>5, <1>6, <1>8, <2>2
  <2>3. CASE i \in 1..n /\ i # n
    <3>1. i + 1 \in 1..n /\ i < n
      BY <2>3
    <3>2. tokens'[i].active => tokens[i].active
      BY <1>5, <1>8, <2>3
    <3>3. tokens[i].active => tokens[i+1].base < i
      BY <1>2, <1>3, <2>3, <3>1 DEF IInv, OldTokensOnlyByOverlap
    <3>4. tokens'[i+1].base = tokens[i+1].base
      BY <1>5, <1>8, <3>1
    <3>5. QED
      BY <3>1, <3>2, <3>3, <3>4
  <2>4. QED
    BY <2>1, <2>2, <2>3
<1>10. req' \in [Admins -> Request]
  BY <1>7 DEF IInv, Idle, Request
<1>11. RequestsLookBack'
  <2> SUFFICES ASSUME NEW b \in Admins
               PROVE  /\ req'[b].pc = "saving" => req'[b].base <= Len(rows'[req'[b].table])
                      /\ req'[b].pc \in {"rotating", "flushed"}
                            => req'[b].base <= Len(tokens') /\ req'[b].current = req'[b].base
    BY DEF RequestsLookBack
  <2>1. CASE b = a
    BY <1>7, <2>1 DEF IInv, Idle
  <2>2. CASE b # a
    <3>1. req'[b] = req[b] /\ req[b] \in Request
      BY <1>7, <2>2 DEF IInv
    <3>2. req[b].pc \in {"rotating", "flushed"}
             => req[b].base \in Nat /\ req[b].base <= n /\ req[b].current = req[b].base
      BY <1>2, <3>1, SavesAreBounded DEF IInv, RequestsLookBack, Request
    <3>3. req[b].pc = "saving" => req[b].base <= Len(rows[req[b].table])
      BY DEF IInv, RequestsLookBack
    <3>4. QED
      BY <1>7, <1>8, <3>1, <3>2, <3>3
  <2>3. QED
    BY <2>1, <2>2
<1>12. InBounds'
  <2>1. n + 1 <= MaxSaves
    BY <1>1, <1>2, SavesCount, SavesAreBounded
  <2>2. QED
    BY <1>7, <1>8, <2>1 DEF IInv, InBounds
<1>13. RowsSound'
  BY <1>7 DEF IInv, RowsSound
<1>14. OwnSound'
  <2>1. \A b \in Admins : req'[b] = req[b] \/ req'[b].pc # "posting"
    BY <1>7 DEF IInv, Idle
  <2>2. QED
    BY <1>7, <2>1, OwnUnchanged DEF IInv
<1>15. QED
  BY <1>8, <1>9, <1>10, <1>11, <1>12, <1>13, <1>14 DEF IInv

LEMMA MaintainStep == ASSUME IInv, Maintain PROVE IInv'
<1>1. CASE Restart
  <2>1. Idle \in Request /\ Idle.pc = "idle"
    BY DEF Idle, Request
  <2>2. req' \in [Admins -> Request] /\ \A a \in Admins : req'[a].pc = "idle"
    BY <1>1, <2>1 DEF Restart
  <2>3. QED
    BY <1>1, <2>2, OnlyRequests DEF Restart
<1>2. CASE ~Restart
  BY <1>2, RequestsUnchanged
     DEF Maintain, PurgeAll, BulkDelete, DeleteReport, Delete, Record, Day, ReadRetention, Purge, PurgeFails
<1>3. QED
  BY <1>1, <1>2

LEMMA StepPreservesIInv == IInv /\ [Next]_vars => IInv'
<1> SUFFICES ASSUME IInv, [Next]_vars PROVE IInv'
  OBVIOUS
<1>1. CASE UNCHANGED vars
  BY <1>1, RequestsUnchanged DEF vars, own
<1>2. CASE Maintain
  BY <1>2, MaintainStep
<1>3. ASSUME NEW a \in Admins, Save(a)
      PROVE  IInv'
  <2>1. CASE \E t \in Tables : ReadLatest(a, t)
    BY <2>1, ReadLatestStep
  <2>2. CASE AdvancedForm(a)
    BY <2>2, AdvancedFormStep
  <2>3. CASE GatePage(a)
    BY <2>3, InsertRowStep, DaysAreShort DEF GatePage
  <2>4. CASE ScannerPage(a)
    BY <2>4, InsertRowStep, DaysAreShort DEF ScannerPage
  <2>5. CASE MaintenancePage(a)
    BY <2>5, InsertRowStep DEF MaintenancePage
  <2>6. CASE OrgForm(a) \/ OrgPage(a)
    BY <2>6, InsertRowStep, DaysAreShort DEF OrgForm, OrgPage
  <2>7. CASE OpenUserForm(a) \/ UserForm(a)
    BY <2>7, OpenUserFormStep, UserFormStep
  <2>8. QED
    BY <1>3, <2>1, <2>2, <2>3, <2>4, <2>5, <2>6, <2>7 DEF Save
<1>4. ASSUME NEW a \in Admins, Rotate(a)
      PROVE  IInv'
  BY <1>4, ReadCurrentStep, FlushRevocationStep, InsertTokenStep DEF Rotate
<1>5. ASSUME NEW a \in Admins, Abort(a)
      PROVE  IInv'
  BY <1>5, AbortStep
<1>6. QED
  BY <1>1, <1>2, <1>3, <1>4, <1>5 DEF Next

-------------------------------------------------------------------------------
(***************************************************************************)
(* The types of what the purge works on                                    *)
(***************************************************************************)
PurgeTypes == /\ age \in [Reports -> 0..Absent]
              /\ loop \in [pc : {"asleep", "awake", "ended"}] \cup [pc : {"purging"}, days : Days]

\* What a purge keeps to is a retention that somebody chose, or none.
LEMMA RetentionIsChosen == ASSUME IInv PROVE Retention \in Days
<1>1. rows.scanner \in Seq(Row("scanner"))
  BY TablesAre DEF IInv, RowsSound, TableSound
<1>2. CASE rows.scanner = <<>>
  BY <1>2, DaysAreShort DEF Retention
<1>3. CASE rows.scanner # <<>>
  <2>1. Len(rows.scanner) \in 1..Len(rows.scanner)
    BY <1>1, <1>3
  <2>2. rows.scanner[Len(rows.scanner)] \in Row("scanner")
    BY <1>1, <2>1
  <2>3. QED
    BY <1>3, <2>2 DEF Row, Retention
<1>4. QED
  BY <1>2, <1>3

LEMMA PurgeTypesPreserved == ASSUME IInv, PurgeTypes, [Next]_vars PROVE PurgeTypes'
<1>1. MaxAge \in Nat /\ Absent = MaxAge + 1
  BY DaysAreShort DEF Absent
<1>2. ASSUME NEW some, Delete(some) PROVE PurgeTypes'
  BY <1>1, <1>2 DEF Delete, PurgeTypes
<1>3. ASSUME NEW r \in Reports, Record(r) PROVE PurgeTypes'
  BY <1>1, <1>3 DEF Record, PurgeTypes
<1>4. CASE Day
  <2>1. age' \in [Reports -> 0..Absent]
    BY <1>1, <1>4 DEF Day, PurgeTypes
  <2>2. loop' = loop \/ loop' = [pc |-> "awake"]
    BY <1>4 DEF Day
  <2>3. QED
    BY <2>1, <2>2 DEF PurgeTypes
<1>5. CASE ReadRetention
  <2>1. loop' = [pc |-> "asleep"] \/ loop' = [pc |-> "purging", days |-> Retention]
    BY <1>5 DEF ReadRetention
  <2>2. QED
    BY <1>5, <2>1, RetentionIsChosen DEF ReadRetention, PurgeTypes
<1>6. CASE Purge
  BY <1>1, <1>6 DEF Purge, PurgeTypes
<1>7. CASE PurgeFails \/ Restart
  BY <1>7 DEF PurgeFails, AfterFailure, Restart, PurgeTypes
<1>8. CASE UNCHANGED purge
  BY <1>8 DEF purge, PurgeTypes
<1>9. CASE Maintain
  BY <1>2, <1>3, <1>4, <1>5, <1>6, <1>7, <1>9
     DEF Maintain, PurgeAll, BulkDelete, DeleteReport
<1>10. CASE \E a \in Admins : Save(a) \/ Rotate(a) \/ Abort(a)
  <2>1. UNCHANGED purge
    BY <1>10 DEF Save, ReadLatest, AdvancedForm, GatePage, ScannerPage, MaintenancePage, OrgForm,
       OrgPage, InsertRow, Insert, OpenUserForm, UserForm, Rotate, ReadCurrent, FlushRevocation, InsertToken, Abort
  <2>2. QED
    BY <1>8, <2>1
<1>11. CASE UNCHANGED vars
  BY <1>8, <1>11 DEF vars, purge
<1>12. QED
  BY <1>9, <1>10, <1>11 DEF Next

-------------------------------------------------------------------------------
(***************************************************************************)
(* The theorems.                                                           *)
(***************************************************************************)

\* The inductive invariant: rows and tokens look back only, requests saw no more
\* than there is, and the three properties below.
THEOREM Invariance == Spec => []IInv
<1>1. Init => IInv
  BY InitEstablishesIInv
<1>2. IInv /\ [Next]_vars => IInv'
  BY StepPreservesIInv
<1>3. QED
  BY <1>1, <1>2, PTL DEF Spec

\* Types: rows, tokens, requests, ages and the loop are what TypeOK says, for
\* every number of admins, saves and days.
THEOREM TypeCorrect == Spec => []TypeOK
<1>1. Init => PurgeTypes
  BY DaysAreShort DEF Init, PurgeTypes, Absent
<1>2. IInv /\ PurgeTypes /\ [Next]_vars => PurgeTypes'
  BY PurgeTypesPreserved
<1>3. IInv /\ PurgeTypes => TypeOK
  BY DEF IInv, PurgeTypes, RowsSound, TableSound, OwnSound, TypeOK
<1>4. QED
  BY <1>1, <1>2, <1>3, Invariance, PTL DEF Spec

\* A save of a settings page loses what another page saved only if the two
\* requests overlapped, or if it is the retention and the page the advanced one.
THEOREM LostOnlyByOverlapOrResetHolds == Spec => []LostOnlyByOverlapOrReset
<1>1. IInv => LostOnlyByOverlapOrReset
  <2> SUFFICES ASSUME IInv, NEW t \in Tables, NEW i \in DOMAIN rows[t], NEW sec \in Sections[t]
               PROVE  LET last == LastPost(t, i, sec)
                      IN \/ rows[t][i].from[sec] = last
                         \/ \E k \in (last + 1)..i : rows[t][k].base < last
                         \/ sec = "retention" /\ \E k \in (last + 1)..i : Resets(k)
    BY DEF LostOnlyByOverlapOrReset
  <2>1. TableSound(t, rows[t]) /\ i \in 1..Len(rows[t])
    BY DEF IInv, RowsSound, TableSound
  <2>2. LastPost(t, i, sec) = Last(rows[t], i, sec)
    BY DEF LastPost, Last, Posts
  <2>3. \A k : Resets(k) <=> IsReset(rows["scanner"][k], k)
    BY DEF Resets, IsReset
  <2>4. QED
    BY <2>1, <2>2, <2>3 DEF TableSound, Kept
<1>2. QED
  BY <1>1, Invariance, PTL

\* From however many tabs a user saves, the row has the provider and the key that
\* were posted last.
THEOREM TabsSaveInOrderHolds == Spec => []TabsSaveInOrder
<1>1. IInv => TabsSaveInOrder
  BY DEF IInv, OwnSound, TabsSaveInOrder
<1>2. QED
  BY <1>1, Invariance, PTL

\* The newest CI token is active, and an older one is only if the rotation after
\* it had not seen it.
THEOREM OldTokensOnlyByOverlapHolds == Spec => []OldTokensOnlyByOverlap
<1>1. IInv => OldTokensOnlyByOverlap
  BY DEF IInv
<1>2. QED
  BY <1>1, Invariance, PTL
===============================================================================
