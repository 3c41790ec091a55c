--------------------------- MODULE ScanRequestsProofs ---------------------------
(***************************************************************************)
(* Theorems about ScanRequests, for every number of requests, months and    *)
(* slots: no slot leaks and no waiter is forgotten, a developer's history    *)
(* agrees with what the developer was told, and the monthly totals never    *)
(* count too much.                                                         *)
(***************************************************************************)
EXTENDS ScanRequests, FiniteSetTheorems, SequenceTheorems, WellFoundedInduction, TLAPS

Counted(k) == {s \in usage : key[s] = k}

\* The queue holds each request once, and only requests that wait or have been
\* granted a slot and have yet to run.
Queue == /\ waiters \in Seq(LocalScans)
         /\ \A i \in DOMAIN waiters : pc[waiters[i]] \in {"waiting", "granted"}
         /\ \A i, j \in DOMAIN waiters : waiters[i] = waiters[j] => i = j

Pool == /\ pc \in [Scans -> Answers \cup Steps]
        /\ value \in 0..Slots
        /\ Queue
        /\ PoolIsSound

\* A transaction writes one more than it read, and it read no more than there was.
Books == /\ key \in [Scans -> Keys]
         /\ records \subseteq Scans /\ usage \subseteq records
         /\ monthly \in [Keys -> Nat]
         /\ seen \in [Scans -> Nat]
         /\ \A s \in Scans : s \in records <=> pc[s] = "reported"
         /\ MonthlyNeverOvercounts
         /\ \A s \in Scans : pc[s] = "writing" => seen[s] <= Cardinality(Counted(key[s]))

IInv == Pool /\ Books

-------------------------------------------------------------------------------
(***************************************************************************)
(* The first n of a set of places                                          *)
(***************************************************************************)
LEMMA FirstOfIsBounded ==
    ASSUME NEW P \in SUBSET Nat, IsFiniteSet(P), NEW n \in Nat
    PROVE  /\ IsFiniteSet(FirstOf(P, n)) /\ Cardinality(FirstOf(P, n)) <= n
           /\ FirstOf(P, n) \subseteq P
           /\ n # 0 /\ P # {} => FirstOf(P, n) # {}
<1> DEFINE Before(i) == {j \in P : j < i}
           F == FirstOf(P, n)
           Rank == [i \in F |-> Cardinality(Before(i))]
<1>1. ASSUME NEW i \in P
      PROVE  IsFiniteSet(Before(i)) /\ Cardinality(Before(i)) \in Nat
  BY FS_Subset, FS_CardinalityType
<1>2. ASSUME NEW i \in P, NEW k \in P, i < k
      PROVE  Cardinality(Before(i)) < Cardinality(Before(k))
  <2>1. i \in Nat /\ k \in Nat /\ i \notin Before(i)
    OBVIOUS
  <2>2. Before(i) \cup {i} \subseteq Before(k)
    <3>1. ASSUME NEW j \in Before(i) PROVE j \in P /\ j < k
      <4>1. j \in Nat /\ j \in P /\ j < i
        OBVIOUS
      <4>2. QED
        BY <1>2, <2>1, <4>1
    <3>2. QED
      BY <1>2, <3>1
  <2>3. Cardinality(Before(i) \cup {i}) = Cardinality(Before(i)) + 1
    BY <1>1, <2>1, FS_AddElement
  <2>4. Cardinality(Before(i) \cup {i}) <= Cardinality(Before(k))
    BY <1>1, <2>2, FS_Subset
  <2>5. QED
    BY <1>1, <2>3, <2>4
<1>3. F \subseteq P /\ IsFiniteSet(F) /\ \A i \in F : Cardinality(Before(i)) < n
  BY FS_Subset DEF FirstOf
<1>4. Rank \in [F -> 0..(n - 1)]
  <2>1. ASSUME NEW i \in F PROVE Cardinality(Before(i)) \in 0..(n - 1)
    <3>1. Cardinality(Before(i)) \in Nat /\ Cardinality(Before(i)) < n
      BY <1>1, <1>3
    <3>2. QED
      BY <3>1
  <2>2. QED
    BY <2>1
<1>5. ASSUME NEW i \in F, NEW k \in F, Rank[i] = Rank[k]
      PROVE  i = k
  <2>1. i \in Nat /\ k \in Nat /\ i \in P /\ k \in P
    BY <1>3
  <2>2. Cardinality(Before(i)) = Cardinality(Before(k)) /\ Cardinality(Before(i)) \in Nat
    BY <1>1, <1>5, <2>1
  <2>3. ~(i < k) /\ ~(k < i)
    BY <1>1, <1>2, <2>1, <2>2
  <2>4. QED
    BY <2>1, <2>3
<1>6. Rank \in Injection(F, 0..(n - 1))
  BY <1>4, <1>5 DEF Injection, IsInjective
<1>7. IsFiniteSet(0..(n - 1)) /\ Cardinality(0..(n - 1)) = n
  BY FS_Interval
<1>8. Cardinality(F) <= n
  BY <1>6, <1>7, FS_Injection
<1>9. ASSUME n # 0, P # {} PROVE F # {}
  <2>1. PICK i \in P : \A j \in P : <<j, i>> \notin OpToRel(<, Nat)
    BY <1>9, NatLessThanWellFounded, WFMin
  <2>2. Before(i) = {}
    BY <2>1 DEF OpToRel
  <2>3. Cardinality(Before(i)) = 0
    BY <2>2, FS_EmptySet
  <2>4. QED
    BY <1>9, <2>3 DEF FirstOf
<1>10. QED
  BY <1>3, <1>8, <1>9

\* The elements at some places of a queue.
LEMMA ElementsAreBounded ==
    ASSUME NEW queue, NEW P, P \subseteq DOMAIN queue, IsFiniteSet(P),
           NEW E, E = {queue[i] : i \in P}
    PROVE  IsFiniteSet(E) /\ Cardinality(E) <= Cardinality(P)
<1> DEFINE f == [i \in P |-> queue[i]]
<1>1. f \in Surjection(P, E)
  BY DEF Surjection
<1>2. QED
  BY <1>1, FS_Surjection

-------------------------------------------------------------------------------
(***************************************************************************)
(* The pool                                                                *)
(***************************************************************************)
Holding == {"granted", "scanning", "recording", "writing", "noting"}

LEMMA HoldersAreFinite ==
    /\ IsFiniteSet(Holders) /\ Cardinality(Holders) \in Nat
    /\ \A s : IsFiniteSet(Holders \ {s}) /\ Cardinality(Holders \ {s}) \in Nat
<1>1. Holders \subseteq Scans
  BY DEF Holders, Scans
<1>2. QED
  BY <1>1, ScansAreFinite, FS_Subset, FS_CardinalityType

\* One request leaves or goes on, and the first that wait take the n slots that
\* it leaves free.  kept: those who hold a slot all along.
LEMMA WakeKeepsPool ==
    ASSUME Pool, NEW s \in LocalScans, NEW to \in (Answers \cup Steps) \ {"waiting", "granted"},
           s \in Holders,
           NEW queue \in Seq(LocalScans), NEW n \in 0..Slots, NEW kept,
           kept = (IF to \in Holding THEN Holders ELSE Holders \ {s}),
           n + Cardinality(kept) = Slots,
           \A i \in DOMAIN queue : pc[queue[i]] \in {"waiting", "granted"} /\ queue[i] # s,
           \A i, j \in DOMAIN queue : queue[i] = queue[j] => i = j,
           NEW m \in 0..n, n # 0 => m # 0, Wake(s, to, queue, n, m)
    PROVE  /\ Pool' /\ pc'[s] = to
           /\ \A r \in Scans \ {s} : pc'[r] = pc[r] \/ (pc[r] = "waiting" /\ pc'[r] = "granted")
<1> DEFINE places == FirstOf(Asking(queue), m)
           woken == {queue[i] : i \in places}
<1>1. /\ IsFiniteSet(Asking(queue)) /\ Asking(queue) \in SUBSET Nat /\ Asking(queue) \subseteq DOMAIN queue
      /\ n \in Nat /\ m \in Nat /\ m <= n
  <2>1. DOMAIN queue = 1..Len(queue) /\ Len(queue) \in Nat
    OBVIOUS
  <2>2. IsFiniteSet(DOMAIN queue) /\ DOMAIN queue \subseteq Nat
    <3>1. 1 \in Int /\ Len(queue) \in Int
      BY <2>1
    <3>2. IsFiniteSet(1..Len(queue))
      BY <3>1, FS_Interval
    <3>3. QED
      BY <2>1, <3>2
  <2>3. Asking(queue) \in SUBSET DOMAIN queue
    BY DEF Asking
  <2>4. n \in Nat /\ m \in Nat /\ m <= n
    BY SlotsArePositive
  <2>5. QED
    BY <2>2, <2>3, <2>4, FS_Subset
<1>2. /\ IsFiniteSet(places) /\ Cardinality(places) <= m /\ places \subseteq Asking(queue)
      /\ n # 0 /\ Asking(queue) # {} => places # {}
  BY <1>1, FirstOfIsBounded
<1>3. /\ IsFiniteSet(woken) /\ Cardinality(woken) \in 0..n
      /\ \A r \in woken : r \in LocalScans /\ pc[r] = "waiting"
  <2>1. IsFiniteSet(woken) /\ Cardinality(woken) <= Cardinality(places)
    <3>1. places \subseteq DOMAIN queue
      BY <1>1, <1>2
    <3> HIDE DEF places
    <3>2. QED
      BY <1>2, <3>1, ElementsAreBounded
  <2>2. Cardinality(woken) \in Nat /\ Cardinality(places) \in Nat
    BY <1>2, <2>1, FS_CardinalityType
  <2>3. Cardinality(woken) <= n
    BY <1>1, <1>2, <2>1, <2>2
  <2>4. \A r \in woken : r \in LocalScans /\ pc[r] = "waiting"
    BY <1>1, <1>2 DEF Asking
  <2>5. QED
    BY <1>1, <2>1, <2>2, <2>3, <2>4
<1>4. /\ pc' = [r \in Scans |-> IF r = s THEN to ELSE IF r \in woken THEN "granted" ELSE pc[r]]
      /\ value' = n - Cardinality(woken) /\ waiters' = queue
  BY DEF Wake
<1>5. n = 0 \/ Asking(queue) = {} \/ woken # {}
  BY <1>2
<1> HIDE DEF woken, places
<1>6. pc' \in [Scans -> Answers \cup Steps]
  BY <1>4 DEF Pool, Steps
<1>7. value' \in 0..Slots
  <2>1. PICK w \in 0..n : w = Cardinality(woken)
    BY <1>3
  <2>2. n - w \in 0..Slots
    BY <2>1, SlotsArePositive
  <2>3. QED
    BY <1>4, <2>1, <2>2
<1>8. Queue'
  <2>1. ASSUME NEW i \in DOMAIN queue PROVE pc'[queue[i]] \in {"waiting", "granted"}
    <3>1. queue[i] \in Scans /\ queue[i] # s /\ pc[queue[i]] \in {"waiting", "granted"}
      BY DEF Scans
    <3>2. QED
      BY <1>4, <3>1
  <2>2. QED
    BY <1>4, <2>1 DEF Queue
<1>9. Holders' = kept \cup woken
  <2>1. ASSUME NEW r \in LocalScans
        PROVE  pc'[r] \in Holding <=> (IF r = s THEN to \in Holding ELSE r \in woken \/ pc[r] \in Holding)
    BY <1>4 DEF Scans, Holding
  <2>2. Holders = {r \in LocalScans : pc[r] \in Holding} /\ Holders' = {r \in LocalScans : pc'[r] \in Holding}
    BY DEF Holders, Holding
  <2>3. s \notin woken
    BY <1>3, <2>2 DEF Holding
  <2>4. QED
    BY <1>3, <2>1, <2>2, <2>3
<1>10. value' + Cardinality(Holders') = Slots
  <2>1. IsFiniteSet(kept) /\ Cardinality(kept) \in Nat
    BY HoldersAreFinite
  <2>2. kept \cap woken = {}
    BY <1>3 DEF Holders
  <2>3. Cardinality(kept \cup woken) = Cardinality(kept) + Cardinality(woken)
    <3>1. Cardinality(kept \cap woken) = 0
      BY <2>2, FS_EmptySet
    <3>2. Cardinality(kept \cup woken) = Cardinality(kept) + Cardinality(woken) - Cardinality(kept \cap woken)
      BY <1>3, <2>1, FS_Union
    <3>3. QED
      BY <1>3, <2>1, <3>1, <3>2
  <2>4. PICK k \in Nat, w \in Nat : k = Cardinality(kept) /\ w = Cardinality(woken)
    BY <1>1, <1>3, <2>1
  <2>5. (n - w) + (k + w) = n + k
    BY <1>1, <2>4
  <2>6. QED
    BY <1>4, <1>9, <2>3, <2>4, <2>5
<1>11. Asking(waiters)' # {} => value' = 0 \/ \E r \in LocalScans : pc'[r] = "granted"
  <2>1. CASE Asking(queue) = {}
    <3>1. ASSUME NEW i \in DOMAIN queue PROVE pc'[queue[i]] # "waiting"
      <4>1. queue[i] \in Scans /\ pc[queue[i]] # "waiting"
        BY <2>1 DEF Asking, Scans
      <4>2. QED
        BY <1>4, <4>1
    <3>2. QED
      BY <1>4, <3>1 DEF Asking
  <2>2. CASE n = 0
    <3>1. Cardinality(woken) = 0
      BY <1>3, <2>2
    <3>2. QED
      BY <1>4, <2>2, <3>1
  <2>3. CASE woken # {}
    <3>1. PICK r : r \in woken
      BY <2>3
    <3>2. r \in LocalScans /\ r \in Scans /\ r # s
      BY <1>3, <3>1 DEF Scans, Holders
    <3>3. pc'[r] = "granted"
      BY <1>4, <3>1, <3>2
    <3>4. QED
      BY <3>2, <3>3
  <2>4. QED
    BY <1>5, <2>1, <2>2, <2>3
<1>12. Pool'
  BY <1>6, <1>7, <1>8, <1>10, <1>11 DEF Pool, PoolIsSound
<1>13. s \in Scans
  BY DEF Scans
<1>14. QED
  BY <1>3, <1>4, <1>12, <1>13

\* Only the place of one request changes, and not across the semaphore.
LEMMA GoKeepsPool ==
    ASSUME Pool, NEW s \in Scans, NEW to \in (Answers \cup Steps) \ {"waiting", "granted"},
           s \in LocalScans => /\ pc[s] \notin {"waiting", "granted"}
                               /\ pc[s] \in Holding <=> to \in Holding,
           Go(s, to), UNCHANGED sem
    PROVE  Pool' /\ pc'[s] = to /\ \A r \in Scans \ {s} : pc'[r] = pc[r]
<1>1. /\ pc' \in [Scans -> Answers \cup Steps] /\ pc'[s] = to
      /\ \A r \in Scans \ {s} : pc'[r] = pc[r]
  BY DEF Pool, Go
<1>2. value' = value /\ waiters' = waiters
  BY DEF sem
<1>3. \A r \in LocalScans : r \in Scans /\ (pc'[r] \in Holding <=> pc[r] \in Holding)
                           /\ (pc'[r] = "waiting" <=> pc[r] = "waiting")
                           /\ (pc'[r] = "granted" <=> pc[r] = "granted")
  BY <1>1 DEF Scans
<1>4. Holders' = Holders
  BY <1>3 DEF Holders, Holding
<1>5. waiters \in Seq(LocalScans) /\ \A i \in DOMAIN waiters : waiters[i] \in LocalScans
  BY DEF Pool, Queue
<1>6. Queue'
  BY <1>2, <1>3, <1>5 DEF Pool, Queue
<1>7. Asking(waiters)' = Asking(waiters)
  BY <1>2, <1>3, <1>5 DEF Asking
<1>8. PoolIsSound'
  BY <1>2, <1>3, <1>4, <1>7 DEF Pool, PoolIsSound
<1>9. QED
  BY <1>1, <1>2, <1>6, <1>8 DEF Pool

LEMMA ReleaseKeepsPool ==
    ASSUME Pool, NEW s \in LocalScans, NEW to \in Answers,
           pc[s] \in {"scanning", "recording", "writing", "noting"}, Release(s, to)
    PROVE  /\ Pool' /\ pc'[s] = to
           /\ \A r \in Scans \ {s} : pc'[r] = pc[r] \/ (pc[r] = "waiting" /\ pc'[r] = "granted")
<1>1. s \in Holders /\ to \notin Holding /\ to \in (Answers \cup Steps) \ {"waiting", "granted"}
  BY DEF Holders, Holding, Answers
<1>2. Cardinality(Holders \ {s}) = Cardinality(Holders) - 1 /\ Cardinality(Holders) # 0
  BY <1>1, HoldersAreFinite, FS_RemoveElement, FS_EmptySet
<1>3. PICK h \in Nat, v \in Nat : h = Cardinality(Holders) /\ v = value
  BY HoldersAreFinite DEF Pool
<1>4. v + h = Slots /\ h # 0 /\ Cardinality(Holders \ {s}) = h - 1
  BY <1>2, <1>3 DEF Pool, PoolIsSound
<1>5. value + 1 \in 0..Slots /\ (value + 1) + Cardinality(Holders \ {s}) = Slots
  BY <1>3, <1>4, SlotsArePositive
<1>6. /\ waiters \in Seq(LocalScans)
      /\ \A i \in DOMAIN waiters : pc[waiters[i]] \in {"waiting", "granted"} /\ waiters[i] # s
      /\ \A i, j \in DOMAIN waiters : waiters[i] = waiters[j] => i = j
  BY DEF Pool, Queue
<1>7. 1 \in 0..(value + 1) /\ Wake(s, to, waiters, value + 1, 1)
  BY <1>3 DEF Release
<1>8. QED
  BY <1>1, <1>5, <1>6, <1>7, WakeKeepsPool, SMTT(30)

LEMMA AnswerKeepsPool ==
    ASSUME Pool, NEW s \in Scans, NEW to \in Answers,
           pc[s] \in {"scanning", "recording", "writing", "noting"}, Answer(s, to)
    PROVE  /\ Pool' /\ pc'[s] = to
           /\ \A r \in Scans \ {s} : pc'[r] = pc[r] \/ (pc[r] = "waiting" /\ pc'[r] = "granted")
<1>1. CASE s \in LocalScans
  BY <1>1, ReleaseKeepsPool DEF Answer
<1>2. CASE s \notin LocalScans
  BY <1>2, GoKeepsPool DEF Answer, Answers
<1>3. QED
  BY <1>1, <1>2

LEMMA WithoutOne ==
    ASSUME NEW S, NEW queue \in Seq(S), NEW i \in DOMAIN queue,
           \A j, k \in DOMAIN queue : queue[j] = queue[k] => j = k
    PROVE  LET rest == Without(queue, i)
           IN  /\ rest \in Seq(S)
               /\ \A j \in DOMAIN rest : \E k \in DOMAIN queue : k # i /\ rest[j] = queue[k]
               /\ \A j, k \in DOMAIN rest : rest[j] = rest[k] => j = k
<1>1. PICK n \in Nat : n = Len(queue) /\ DOMAIN queue = 1..n /\ i \in 1..n
  OBVIOUS
<1> DEFINE left == SubSeq(queue, 1, i - 1)
           right == SubSeq(queue, i + 1, n)
           rest == left \o right
<1>2. left \in Seq(S) /\ Len(left) = i - 1 /\ \A j \in 1..(i - 1) : left[j] = queue[j]
  BY <1>1
<1>3. right \in Seq(S) /\ Len(right) = n - i /\ \A j \in 1..(n - i) : right[j] = queue[j + i]
  BY <1>1
<1>4. /\ rest \in Seq(S) /\ Len(rest) = n - 1 /\ DOMAIN rest = 1..(n - 1)
      /\ \A j \in 1..(n - 1) : rest[j] = IF j <= i - 1 THEN left[j] ELSE right[j - (i - 1)]
  <2> HIDE DEF left, right
  <2>1. /\ rest \in Seq(S) /\ Len(rest) = Len(left) + Len(right)
        /\ \A j \in 1..(Len(left) + Len(right)) :
              rest[j] = IF j <= Len(left) THEN left[j] ELSE right[j - Len(left)]
    BY <1>2, <1>3, ConcatProperties, SMTT(30)
  <2>2. Len(left) + Len(right) = n - 1
    BY <1>1, <1>2, <1>3
  <2> HIDE DEF rest
  <2>3. rest \in Seq(S) /\ Len(rest) = n - 1
    BY <2>1, <2>2
  <2>4. DOMAIN rest = 1..(n - 1)
    BY <2>3
  <2>5. QED
    BY <1>2, <2>1, <2>2, <2>3, <2>4
<1>5. \A j \in 1..(n - 1) : rest[j] = IF j < i THEN queue[j] ELSE queue[j + 1]
  <2> SUFFICES ASSUME NEW j \in 1..(n - 1)
               PROVE  rest[j] = IF j < i THEN queue[j] ELSE queue[j + 1]
    OBVIOUS
  <2>1. CASE j < i
    BY <1>1, <1>2, <1>3, <2>1
  <2>2. CASE ~(j < i)
    <3>1. j - (i - 1) \in 1..(n - i) /\ (j - (i - 1)) + i = j + 1
      BY <1>1, <2>2
    <3>2. rest[j] = right[j - (i - 1)]
      <4> HIDE DEF rest, left, right
      <4>1. QED
        BY <1>1, <1>4, <2>2
    <3>3. QED
      BY <1>3, <2>2, <3>1, <3>2
  <2>3. QED
    BY <2>1, <2>2
<1>6. Without(queue, i) = rest
  BY <1>1 DEF Without
<1> HIDE DEF left, right, rest
<1>7. \A j \in 1..(n - 1) : \E k \in 1..n : k # i /\ rest[j] = queue[k]
  BY <1>1, <1>5
<1>8. \A j, k \in 1..(n - 1) : rest[j] = rest[k] => j = k
  <2> SUFFICES ASSUME NEW j \in 1..(n - 1), NEW k \in 1..(n - 1), rest[j] = rest[k]
               PROVE  j = k
    OBVIOUS
  <2>1. PICK a \in 1..n, b \in 1..n : /\ a = IF j < i THEN j ELSE j + 1
                                      /\ b = IF k < i THEN k ELSE k + 1
    BY <1>1
  <2>2. queue[a] = queue[b]
    BY <1>5, <2>1
  <2>3. a = b
    BY <1>1, <2>2
  <2>4. QED
    BY <1>1, <2>1, <2>3
<1>9. Without(queue, i) \in Seq(S) /\ DOMAIN Without(queue, i) = 1..(n - 1)
  BY <1>4, <1>6
<1>10. \A j \in 1..(n - 1) : \E k \in DOMAIN queue : k # i /\ Without(queue, i)[j] = queue[k]
  BY <1>1, <1>6, <1>7
<1>11. \A j, k \in 1..(n - 1) : Without(queue, i)[j] = Without(queue, i)[k] => j = k
  BY <1>6, <1>8
<1>12. QED
  BY <1>9, <1>10, <1>11

LEMMA ResumeKeepsPool ==
    ASSUME Pool, NEW s \in Scans, Resume(s)
    PROVE  /\ Pool' /\ pc'[s] = "scanning"
           /\ \A r \in Scans \ {s} : pc'[r] = pc[r] \/ (pc[r] = "waiting" /\ pc'[r] = "granted")
<1>1. PICK i \in DOMAIN waiters : waiters[i] = s /\ Wake(s, "scanning", Without(waiters, i), value, value)
  BY DEF Resume
<1> DEFINE rest == Without(waiters, i)
<1>2. /\ waiters \in Seq(LocalScans) /\ s \in LocalScans /\ pc[s] = "granted"
      /\ \A j \in DOMAIN waiters : pc[waiters[j]] \in {"waiting", "granted"}
      /\ \A j, k \in DOMAIN waiters : waiters[j] = waiters[k] => j = k
  BY <1>1 DEF Pool, Queue, Resume
<1>3. /\ rest \in Seq(LocalScans)
      /\ \A j \in DOMAIN rest : \E k \in DOMAIN waiters : k # i /\ rest[j] = waiters[k]
      /\ \A j, k \in DOMAIN rest : rest[j] = rest[k] => j = k
  BY <1>2, WithoutOne
<1>4. \A j \in DOMAIN rest : pc[rest[j]] \in {"waiting", "granted"} /\ rest[j] # s
  BY <1>1, <1>2, <1>3
<1>5. s \in Holders /\ "scanning" \in Holding /\ value \in 0..Slots /\ value + Cardinality(Holders) = Slots
  BY <1>2 DEF Holders, Holding, Pool, PoolIsSound
<1>6. "scanning" \in (Answers \cup Steps) \ {"waiting", "granted"}
  BY DEF Steps
<1> HIDE DEF rest
<1>7. QED
  BY <1>1, <1>2, <1>3, <1>4, <1>5, <1>6, WakeKeepsPool, SMTT(30) DEF rest

LEMMA AcquireKeepsPool ==
    ASSUME Pool, NEW s \in Scans, Acquire(s)
    PROVE  Pool' /\ pc'[s] \in {"waiting", "scanning"} /\ \A r \in Scans \ {s} : pc'[r] = pc[r]
<1>1. s \in LocalScans /\ pc[s] = "admitted" /\ waiters \in Seq(LocalScans)
      /\ \A i \in DOMAIN waiters : waiters[i] # s /\ waiters[i] \in Scans
  BY DEF Acquire, Pool, Queue, Scans
<1>2. CASE Locked
  <2>1. /\ pc' = [pc EXCEPT ![s] = "waiting"] /\ waiters' = Append(waiters, s) /\ value' = value
    BY <1>2 DEF Acquire, Go
  <2>2. /\ pc' \in [Scans -> Answers \cup Steps] /\ pc'[s] = "waiting"
        /\ \A r \in Scans \ {s} : pc'[r] = pc[r]
    BY <2>1 DEF Pool, Steps
  <2>3. PICK n \in Nat : n = Len(waiters) /\ DOMAIN waiters = 1..n
    BY <1>1
  <2>4. /\ waiters' \in Seq(LocalScans) /\ DOMAIN waiters' = 1..(n + 1) /\ waiters'[n + 1] = s
        /\ \A i \in 1..n : waiters'[i] = waiters[i]
    BY <1>1, <2>1, <2>3
  <2>5. Queue'
    <3>1. \A i \in 1..(n + 1) : pc'[waiters'[i]] \in {"waiting", "granted"}
      BY <1>1, <2>2, <2>3, <2>4 DEF Pool, Queue
    <3>2. \A i, j \in 1..(n + 1) : waiters'[i] = waiters'[j] => i = j
      BY <1>1, <2>3, <2>4 DEF Pool, Queue
    <3>3. QED
      BY <2>4, <3>1, <3>2 DEF Queue
  <2>6. Holders' = Holders
    BY <1>1, <2>2 DEF Holders, Scans
  <2>7. value = 0 \/ \E r \in LocalScans : pc[r] = "granted"
    <3>1. CASE waiters = <<>>
      BY <1>2, <3>1 DEF Locked
    <3>2. CASE waiters # <<>>
      <4>1. 1 \in DOMAIN waiters /\ waiters[1] \in LocalScans
        BY <1>1, <3>2
      <4>2. CASE pc[waiters[1]] = "granted"
        BY <4>1, <4>2
      <4>3. CASE pc[waiters[1]] = "waiting"
        BY <4>1, <4>3 DEF Pool, PoolIsSound, Asking
      <4>4. QED
        BY <4>1, <4>2, <4>3 DEF Pool, Queue
    <3>3. QED
      BY <3>1, <3>2
  <2>8. value' = 0 \/ \E r \in LocalScans : pc'[r] = "granted"
    BY <1>1, <2>1, <2>2, <2>7 DEF Scans
  <2>9. QED
    BY <2>1, <2>2, <2>5, <2>6, <2>8 DEF Pool, PoolIsSound
<1>3. CASE ~Locked
  <2>1. /\ pc' = [pc EXCEPT ![s] = "scanning"] /\ waiters' = waiters /\ value' = value - 1
        /\ waiters = <<>> /\ value # 0
    BY <1>3 DEF Acquire, Go, Locked
  <2>2. /\ pc' \in [Scans -> Answers \cup Steps] /\ pc'[s] = "scanning"
        /\ \A r \in Scans \ {s} : pc'[r] = pc[r]
    BY <2>1 DEF Pool, Steps
  <2>3. Holders' = Holders \cup {s} /\ s \notin Holders
    BY <1>1, <2>2 DEF Holders, Scans
  <2>4. Cardinality(Holders') = Cardinality(Holders) + 1
    BY <2>3, HoldersAreFinite, FS_AddElement
  <2>5. PICK v \in 0..Slots, h \in Nat : v = value /\ h = Cardinality(Holders) /\ v + h = Slots
    BY HoldersAreFinite DEF Pool, PoolIsSound
  <2>6. value' \in 0..Slots /\ value' + Cardinality(Holders') = Slots
    BY <2>1, <2>4, <2>5, SlotsArePositive
  <2>7. Queue' /\ Asking(waiters)' = {}
    BY <2>1 DEF Pool, Queue, Asking
  <2>8. QED
    BY <2>2, <2>6, <2>7 DEF Pool, PoolIsSound
<1>4. QED
  BY <1>2, <1>3

-------------------------------------------------------------------------------
(***************************************************************************)
(* The books                                                               *)
(***************************************************************************)
LEMMA CountedIsFinite ==
    ASSUME Books, NEW k
    PROVE  IsFiniteSet(Counted(k)) /\ Cardinality(Counted(k)) \in Nat
<1>1. Counted(k) \subseteq Scans
  BY DEF Books, Counted
<1>2. QED
  BY <1>1, ScansAreFinite, FS_Subset, FS_CardinalityType

\* A step that commits nothing.
LEMMA NothingCommitted ==
    ASSUME Books, NEW s \in Scans, UNCHANGED <<key, tables, seen>>,
           pc[s] # "reported", pc'[s] # "reported", pc'[s] # "writing",
           \A r \in Scans \ {s} : pc'[r] = pc[r] \/ (pc[r] = "waiting" /\ pc'[r] = "granted")
    PROVE  Books'
<1>1. \A r \in Scans : /\ pc'[r] = "reported" <=> pc[r] = "reported"
                       /\ pc'[r] = "writing" => pc[r] = "writing"
  OBVIOUS
<1>2. UNCHANGED <<key, records, usage, monthly, seen>>
  BY DEF tables
<1>3. QED
  BY <1>1, <1>2 DEF Books, MonthlyNeverOvercounts, Counted

LEMMA SelectKeepsBooks ==
    ASSUME Books, NEW s \in Scans, SelectMonthly(s), pc'[s] = "writing",
           \A r \in Scans \ {s} : pc'[r] = pc[r]
    PROVE  Books'
<1>1. /\ UNCHANGED <<key, records, usage, monthly>> /\ pc[s] = "recording"
      /\ seen' = [seen EXCEPT ![s] = monthly[key[s]]]
  BY DEF SelectMonthly, tables
<1>2. key[s] \in Keys /\ monthly[key[s]] \in Nat /\ monthly[key[s]] <= Cardinality(Counted(key[s]))
  BY DEF Books, MonthlyNeverOvercounts, Counted
<1>3. seen' \in [Scans -> Nat] /\ seen'[s] = monthly[key[s]] /\ \A r \in Scans \ {s} : seen'[r] = seen[r]
  BY <1>1, <1>2 DEF Books
<1>4. \A r \in Scans : pc'[r] = "writing" => seen'[r] <= Cardinality(Counted(key[r])')
  <2> SUFFICES ASSUME NEW r \in Scans, pc'[r] = "writing"
               PROVE  seen'[r] <= Cardinality(Counted(key[r])')
    OBVIOUS
  <2>1. Counted(key[r])' = Counted(key[r])
    BY <1>1 DEF Counted
  <2>2. seen'[r] <= Cardinality(Counted(key[r]))
    BY <1>2, <1>3 DEF Books
  <2>3. QED
    BY <2>1, <2>2
<1>5. QED
  BY <1>1, <1>3, <1>4 DEF Books, MonthlyNeverOvercounts, Counted

LEMMA NoteKeepsBooks ==
    ASSUME Books, NEW s \in Scans, Note(s), pc'[s] = "reported",
           \A r \in Scans \ {s} : pc'[r] = pc[r] \/ (pc[r] = "waiting" /\ pc'[r] = "granted")
    PROVE  Books'
<1>1. records' = records \cup {s} /\ UNCHANGED <<key, usage, monthly, seen>>
  BY DEF Note
<1>2. \A r \in Scans : r \in records' <=> pc'[r] = "reported"
  BY <1>1 DEF Books
<1>3. \A r \in Scans : pc'[r] = "writing" => pc[r] = "writing"
  OBVIOUS
<1>4. QED
  BY <1>1, <1>2, <1>3 DEF Books, MonthlyNeverOvercounts, Counted

LEMMA CommitKeepsBooks ==
    ASSUME Books, NEW s \in Scans, Commit(s), pc'[s] = "reported",
           \A r \in Scans \ {s} : pc'[r] = pc[r] \/ (pc[r] = "waiting" /\ pc'[r] = "granted")
    PROVE  Books'
<1> DEFINE k == key[s]
<1>1. /\ records' = records \cup {s} /\ usage' = usage \cup {s} /\ key' = key /\ seen' = seen
      /\ monthly' = [monthly EXCEPT ![k] = seen[s] + 1] /\ pc[s] = "writing"
  BY DEF Commit, CommitRows, NewCount
<1>2. k \in Keys /\ seen[s] \in Nat /\ s \notin usage /\ seen[s] <= Cardinality(Counted(k))
  BY <1>1 DEF Books
<1>3. Counted(k)' = Counted(k) \cup {s} /\ s \notin Counted(k)
      /\ \A l \in Keys \ {k} : Counted(l)' = Counted(l)
  BY <1>1, <1>2 DEF Counted, Books
<1>4. Cardinality(Counted(k)') = Cardinality(Counted(k)) + 1 /\ Cardinality(Counted(k)) \in Nat
  BY <1>3, CountedIsFinite, FS_AddElement
<1>5. ASSUME NEW l \in Keys
      PROVE  /\ monthly'[l] \in Nat /\ monthly'[l] <= Cardinality(Counted(l)')
             /\ monthly'[l] = 0 <=> Counted(l)' = {}
  <2>1. CASE l = k
    <3>1. monthly'[l] = seen[s] + 1
      BY <1>1, <1>2, <2>1 DEF Books
    <3>2. seen[s] + 1 <= Cardinality(Counted(k)) + 1 /\ seen[s] + 1 # 0 /\ seen[s] + 1 \in Nat
      BY <1>2, <1>4
    <3>3. Counted(l)' = Counted(k)'
      BY <1>1, <2>1 DEF Counted
    <3>4. QED
      BY <1>3, <1>4, <3>1, <3>2, <3>3
  <2>2. CASE l # k
    <3>1. monthly'[l] = monthly[l] /\ Counted(l)' = Counted(l)
      BY <1>1, <1>3, <2>2 DEF Books
    <3>2. monthly[l] \in Nat /\ monthly[l] <= Cardinality(Counted(l)) /\ (monthly[l] = 0 <=> Counted(l) = {})
      BY DEF Books, MonthlyNeverOvercounts, Counted
    <3>3. QED
      BY <3>1, <3>2
  <2>3. QED
    BY <2>1, <2>2
<1>6. monthly' \in [Keys -> Nat]
  BY <1>1, <1>5 DEF Books
<1>7. MonthlyNeverOvercounts'
  BY <1>5 DEF MonthlyNeverOvercounts, Counted
<1>8. \A r \in Scans : r \in records' <=> pc'[r] = "reported"
  BY <1>1 DEF Books
<1>9. ASSUME NEW r \in Scans, pc'[r] = "writing"
      PROVE  seen'[r] <= Cardinality(Counted(key[r])')
  <2>1. r # s /\ pc[r] = "writing" /\ key[r] \in Keys /\ seen[r] \in Nat /\ seen[r] <= Cardinality(Counted(key[r]))
    BY <1>9 DEF Books
  <2>2. CASE key[r] = k
    <3>1. Counted(key[r])' = Counted(k)'
      BY <1>1, <2>2 DEF Counted
    <3>2. seen[r] <= Cardinality(Counted(k)) + 1
      BY <1>4, <2>1, <2>2
    <3>3. QED
      BY <1>1, <1>4, <3>1, <3>2
  <2>3. CASE key[r] # k
    <3>1. Counted(key[r])' = Counted(key[r])
      BY <1>1, <2>3 DEF Counted
    <3>2. QED
      BY <1>1, <2>1, <3>1
  <2>4. QED
    BY <2>2, <2>3
<1>10. records' \subseteq Scans /\ usage' \subseteq records'
  BY <1>1 DEF Books
<1>11. QED
  BY <1>1, <1>6, <1>7, <1>8, <1>9, <1>10 DEF Books

-------------------------------------------------------------------------------
(***************************************************************************)
(* Every step preserves the invariant.                                     *)
(***************************************************************************)
LEMMA InitEstablishesIInv == Init => IInv
<1> SUFFICES ASSUME Init PROVE IInv
  OBVIOUS
<1>1. Holders = {} /\ Cardinality(Holders) = 0
  <2>1. Holders = {}
    BY DEF Init, Holders, Scans
  <2>2. QED
    BY <2>1, FS_EmptySet
<1>2. waiters \in Seq(LocalScans) /\ DOMAIN waiters = {} /\ Asking(waiters) = {}
  BY DEF Init, Asking
<1>3. Pool
  BY <1>1, <1>2, SlotsArePositive DEF Init, Pool, Queue, PoolIsSound, Steps
<1>4. \A k \in Keys : {s \in usage : key[s] = k} = {} /\ monthly[k] = 0
  BY DEF Init
<1>5. MonthlyNeverOvercounts
  BY <1>4, FS_EmptySet DEF MonthlyNeverOvercounts
<1>6. Books
  BY <1>5 DEF Init, Books
<1>7. QED
  BY <1>3, <1>6 DEF IInv

\* A step to another place that touches neither the semaphore nor the tables.
LEMMA GoStep ==
    ASSUME IInv, NEW s \in Scans,
           NEW to \in {"no_report", "admitted", "scanning", "recording", "noting", "disconnected"},
           Go(s, to), UNCHANGED <<key, sem, tables, seen>>,
           pc[s] # "reported",
           s \in LocalScans => /\ pc[s] \notin {"waiting", "granted"}
                               /\ pc[s] \in Holding <=> to \in Holding
    PROVE  IInv'
<1>1. to \in (Answers \cup Steps) \ {"waiting", "granted"}
  BY DEF Answers, Steps
<1>2. Pool' /\ pc'[s] = to /\ \A r \in Scans \ {s} : pc'[r] = pc[r]
  BY <1>1, GoKeepsPool DEF IInv
<1>3. Books'
  BY <1>2, NothingCommitted DEF IInv
<1>4. QED
  BY <1>2, <1>3 DEF IInv

LEMMA StepPreservesIInv == IInv /\ [Next]_vars => IInv'
<1> SUFFICES ASSUME IInv, [Next]_vars PROVE IInv'
  OBVIOUS
<1>1. CASE UNCHANGED vars
  <2>1. UNCHANGED <<pc, value, waiters>> /\ UNCHANGED <<pc, key, records, usage, monthly, seen>>
    BY <1>1 DEF vars
  <2>2. Pool'
    BY <2>1 DEF IInv, Pool, Queue, PoolIsSound, Asking, Holders
  <2>3. Books'
    BY <2>1, ZenonT(60) DEF IInv, Books, MonthlyNeverOvercounts, Counted
  <2>4. QED
    BY <2>2, <2>3 DEF IInv
<1>2. ASSUME NEW s \in Scans, TooLarge(s) \/ Arrive(s) \/ Refuse(s) \/ CiScanStarts(s) \/ CiScanEnds(s)
                              \/ Disconnect(s)
      PROVE  IInv'
  <2>1. UNCHANGED <<key, sem, tables, seen>> /\ pc[s] # "reported"
    BY <1>2 DEF TooLarge, Arrive, Refuse, CiScanStarts, CiScanEnds, Disconnect
  <2>2. s \in CiScans => s \notin LocalScans
    BY ChannelsAreDisjoint
  <2>3. CASE TooLarge(s) \/ Arrive(s) \/ Refuse(s)
    BY <2>1, <2>3, GoStep DEF TooLarge, Arrive, Refuse, Holding
  <2>4. CASE CiScanStarts(s) \/ CiScanEnds(s) \/ Disconnect(s)
    BY <2>1, <2>2, <2>4, GoStep DEF CiScanStarts, CiScanEnds, Disconnect
  <2>5. QED
    BY <1>2, <2>3, <2>4
<1>3. ASSUME NEW s \in Scans, Acquire(s) \/ Resume(s)
      PROVE  IInv'
  <2>1. /\ Pool' /\ pc'[s] \in {"waiting", "scanning"}
        /\ \A r \in Scans \ {s} : pc'[r] = pc[r] \/ (pc[r] = "waiting" /\ pc'[r] = "granted")
    BY <1>3, AcquireKeepsPool, ResumeKeepsPool DEF IInv
  <2>2. UNCHANGED <<key, tables, seen>> /\ pc[s] # "reported"
    BY <1>3 DEF Acquire, Resume
  <2>3. Books'
    BY <2>1, <2>2, NothingCommitted DEF IInv
  <2>4. QED
    BY <2>1, <2>3 DEF IInv
<1>4. ASSUME NEW s \in Scans, LocalScanEnds(s)
      PROVE  IInv'
  <2>1. pc[s] = "scanning" /\ s \in LocalScans /\ UNCHANGED <<key, tables, seen>>
    BY <1>4 DEF LocalScanEnds
  <2>2. CASE \E to \in {"recording", "noting"} : Go(s, to) /\ UNCHANGED sem
    BY <2>1, <2>2, GoStep DEF Holding
  <2>3. CASE Release(s, "no_report")
    <3>1. /\ Pool' /\ pc'[s] = "no_report"
          /\ \A r \in Scans \ {s} : pc'[r] = pc[r] \/ (pc[r] = "waiting" /\ pc'[r] = "granted")
      BY <2>1, <2>3, ReleaseKeepsPool DEF IInv, Answers
    <3>2. Books'
      BY <2>1, <3>1, NothingCommitted DEF IInv
    <3>3. QED
      BY <3>1, <3>2 DEF IInv
  <2>4. QED
    BY <1>4, <2>2, <2>3 DEF LocalScanEnds
<1>5. ASSUME NEW s \in Scans, SelectMonthly(s)
      PROVE  IInv'
  <2>1. pc[s] = "recording" /\ Go(s, "writing") /\ UNCHANGED sem
    BY <1>5 DEF SelectMonthly
  <2>2. Pool' /\ pc'[s] = "writing" /\ \A r \in Scans \ {s} : pc'[r] = pc[r]
    BY <2>1, GoKeepsPool DEF IInv, Steps, Holding
  <2>3. Books'
    BY <1>5, <2>2, SelectKeepsBooks DEF IInv
  <2>4. QED
    BY <2>2, <2>3 DEF IInv
<1>6. ASSUME NEW s \in Scans, Commit(s) \/ Note(s)
      PROVE  IInv'
  <2>1. pc[s] \in {"writing", "noting"} /\ Answer(s, "reported")
    BY <1>6 DEF Commit, Note
  <2>2. /\ Pool' /\ pc'[s] = "reported"
        /\ \A r \in Scans \ {s} : pc'[r] = pc[r] \/ (pc[r] = "waiting" /\ pc'[r] = "granted")
    BY <2>1, AnswerKeepsPool DEF IInv, Answers
  <2>3. Books'
    BY <1>6, <2>2, CommitKeepsBooks, NoteKeepsBooks DEF IInv
  <2>4. QED
    BY <2>2, <2>3 DEF IInv
<1>7. ASSUME NEW s \in Scans, RollBack(s) \/ DatabaseFails(s)
      PROVE  IInv'
  <2>1. pc[s] \in {"recording", "writing", "noting"} /\ Answer(s, Unsaved(s))
        /\ UNCHANGED <<key, tables, seen>>
    BY <1>7 DEF RollBack, DatabaseFails
  <2>2. Unsaved(s) \in {"no_report", "unrecorded"}
    BY DEF Unsaved
  <2>3. /\ Pool' /\ pc'[s] = Unsaved(s)
        /\ \A r \in Scans \ {s} : pc'[r] = pc[r] \/ (pc[r] = "waiting" /\ pc'[r] = "granted")
    BY <2>1, <2>2, AnswerKeepsPool DEF IInv, Answers
  <2>4. Books'
    BY <2>1, <2>2, <2>3, NothingCommitted DEF IInv
  <2>5. QED
    BY <2>3, <2>4 DEF IInv
<1>8. QED
  BY <1>1, <1>2, <1>3, <1>4, <1>5, <1>6, <1>7 DEF Next, Handle, Record, ScanEnds

-------------------------------------------------------------------------------
(***************************************************************************)
(* The theorems                                                            *)
(***************************************************************************)

\* The inductive invariant: the queue and the pool of slots, and what the tables
\* and the open transactions say of each other.
THEOREM Invariance == Spec => []IInv
<1>1. QED
  BY InitEstablishesIInv, StepPreservesIInv, PTL DEF Spec

\* Type correctness of the handlers, the semaphore and the tables.
THEOREM TypeCorrect == Spec => []TypeOK
<1>1. IInv => TypeOK
  BY DEF IInv, Pool, Queue, Books, TypeOK
<1>2. QED
  BY <1>1, Invariance, PTL

\* The slots of _scan_semaphore are conserved, and nobody waits for a slot that
\* is free and that no woken waiter will pass on.
THEOREM PoolIsSoundHolds == Spec => []PoolIsSound
<1>1. IInv => PoolIsSound
  BY DEF IInv, Pool
<1>2. QED
  BY <1>1, Invariance, PTL

\* A local scan is in the history exactly if its request was answered with the
\* report.
THEOREM RecordedIffReportedHolds == Spec => []RecordedIffReported
<1>1. IInv => RecordedIffReported
  BY DEF IInv, Books, RecordedIffReported, Scans
<1>2. QED
  BY <1>1, Invariance, PTL

\* A row of llm_usage_monthly never counts more scans than were committed, and
\* exists exactly if one was.
THEOREM MonthlyNeverOvercountsHolds == Spec => []MonthlyNeverOvercounts
<1>1. IInv => MonthlyNeverOvercounts
  BY DEF IInv, Books
<1>2. QED
  BY <1>1, Invariance, PTL

===============================================================================
