------------------------- MODULE ScannerRunnerProofs -------------------------
(***************************************************************************)
(* Theorems about ScannerRunner, for every set of scans and adapters, every *)
(* number of slots and every size of pipe and report.                      *)
(***************************************************************************)
EXTENDS ScannerRunner, TLAPS, FiniteSetTheorems, SequenceTheorems

\* A call has business only while run_layer1 of its scan is gathering.
BusyWhileScanning ==
    \A c \in Calls : call[c].pc \notin {"idle", "done"} => layer[c[1]] = "scanning"

\* A subprocess runs only between the start of the reads and the last wait.
RunningIsAwaited ==
    \A c \in Calls : Running(c) => call[c].pc \in {"reading", "waiting", "reaping"}

\* The semaphore's queue holds calls that wait for a slot, none of them twice.
QueueOfWaiters ==
    /\ \A i \in 1..Len(queue) : call[queue[i]].pc = "queued"
    /\ \A i, j \in 1..Len(queue) : queue[i] = queue[j] => i = j

IInv == /\ TypeOK
        /\ BusyWhileScanning
        /\ RunningIsAwaited
        /\ QueueOfWaiters
        /\ SlotsConserved

Holders == {c \in Calls : HasSlot(c)}

-------------------------------------------------------------------------------
LEMMA AtIsCall ==
    ASSUME NEW pc \in {"idle", "queued", "granted", "starting", "reading", "waiting",
                       "reaping", "done"}
    PROVE  /\ At(pc) \in Call
           /\ At(pc).pc = pc
BY DEF At, Call

LEMMA ReportIsProcess ==
    ASSUME NEW st \in {"alive", "signalled", "dead"}, NEW size \in 0..MaxPieces
    PROVE  /\ Report(st, size) \in Process
           /\ Report(st, size).state = st
BY SlotsAndSizes DEF Report, Process

LEMMA InitEstablishesIInv == Init => IInv
<1> SUFFICES ASSUME Init PROVE IInv
  OBVIOUS
<1>1. TypeOK
  <2>1. At("idle") \in Call /\ NoProcess \in Process
    BY AtIsCall, ReportIsProcess, SlotsAndSizes DEF NoProcess
  <2>2. free \in 0..Slots
    BY SlotsAndSizes DEF Init
  <2>3. queue \in Seq(Calls)
    BY DEF Init
  <2>4. QED
    BY <2>1, <2>2, <2>3 DEF Init, TypeOK
<1>2. BusyWhileScanning
  BY AtIsCall DEF Init, BusyWhileScanning
<1>3. RunningIsAwaited
  BY SlotsAndSizes DEF Init, RunningIsAwaited, Running, NoProcess, Report
<1>4. QueueOfWaiters
  BY DEF Init, QueueOfWaiters
<1>5. SlotsConserved
  <2>1. Holders = {}
    BY AtIsCall DEF Init, Holders, HasSlot
  <2>2. Cardinality(Holders) = 0
    BY <2>1, FS_EmptySet
  <2>3. QED
    BY <2>2, SlotsAndSizes DEF Init, SlotsConserved, Holders
<1>6. QED
  BY <1>1, <1>2, <1>3, <1>4, <1>5 DEF IInv

(***************************************************************************)
(* Counting slots                                                          *)
(***************************************************************************)

LEMMA HoldersAreFinite == IsFiniteSet(Holders) /\ IsFiniteSet(Holders')
<1>1. IsFiniteSet(Calls)
  BY CallsAreFinite, FS_Product DEF Calls
<1>2. Holders \in SUBSET Calls /\ Holders' \in SUBSET Calls
  BY DEF Holders
<1>3. QED
  BY <1>1, <1>2, FS_Subset

\* A call that takes a free slot.
LEMMA TakeConserves ==
    ASSUME SlotsConserved, TypeOK, NEW c \in Calls, c \notin Holders,
           Holders' = Holders \cup {c}, free' = free - 1
    PROVE  SlotsConserved'
<1>1. Cardinality(Holders') = Cardinality(Holders) + 1 /\ Cardinality(Holders) \in Nat
  BY HoldersAreFinite, FS_AddElement, FS_CardinalityType
<1>2. free \in Int /\ Slots \in Int
  BY SlotsAndSizes DEF TypeOK
<1>3. QED
  BY <1>1, <1>2 DEF SlotsConserved, Holders

\* A call that gives its slot back: somebody had less than all of them.
LEMMA GiveConserves ==
    ASSUME SlotsConserved, TypeOK, NEW c \in Holders
    PROVE  /\ free < Slots
           /\ Holders' = Holders \ {c} /\ free' = free + 1 => SlotsConserved'
<1>1. Cardinality(Holders \ {c}) = Cardinality(Holders) - 1 /\ Cardinality(Holders) \in Nat
      /\ Cardinality(Holders \ {c}) \in Nat
  BY HoldersAreFinite, FS_RemoveElement, FS_CardinalityType
<1>2. free \in Int /\ Slots \in Int
  BY SlotsAndSizes DEF TypeOK
<1>3. QED
  BY <1>1, <1>2 DEF SlotsConserved, Holders

\* A slot that goes from one call to another.
LEMMA PassConserves ==
    ASSUME SlotsConserved, TypeOK, NEW c \in Holders, NEW h, h \notin Holders,
           Holders' = (Holders \ {c}) \cup {h}, free' = free
    PROVE  SlotsConserved'
<1>1. /\ Cardinality(Holders \ {c}) = Cardinality(Holders) - 1
      /\ IsFiniteSet(Holders \ {c})
      /\ Cardinality(Holders) \in Nat
  BY HoldersAreFinite, FS_RemoveElement, FS_CardinalityType
<1>2. Cardinality(Holders') = Cardinality(Holders \ {c}) + 1
  BY <1>1, FS_AddElement
<1>3. QED
  BY <1>1, <1>2 DEF SlotsConserved, Holders

\* A step after which the same calls have slots.
LEMMA SameHoldersConserve ==
    ASSUME SlotsConserved, Holders' = Holders, free' = free
    PROVE  SlotsConserved'
BY DEF SlotsConserved, Holders

(***************************************************************************)
(* Release, by whatever path a call ends                                   *)
(***************************************************************************)

\* c leaves `async with' and its subprocess, if any, is dead: the invariant
\* holds, and if somebody waited the slot is theirs.
LEMMA ReleasePreservesIInv ==
    ASSUME IInv, NEW c \in Calls, HasSlot(c), call[c].pc # "granted", Release(c), UNCHANGED layer,
           proc' \in [Calls -> Process],
           \A d \in Calls \ {c} : proc'[d].state = proc[d].state,
           proc'[c].state \notin {"alive", "signalled"}
    PROVE  IInv'
<1> USE DEF IInv
<1>0. c \in Holders
  BY DEF Holders
<1>1. At("done") \in Call /\ At("done").pc = "done"
  BY AtIsCall
<1>2. At("granted") \in Call /\ At("granted").pc = "granted"
  BY AtIsCall
<1>3. CASE queue = <<>>
  <2>1. /\ call' = [call EXCEPT ![c] = At("done")]
        /\ free' = free + 1
        /\ queue' = queue
    BY <1>3 DEF Release
  <2>2. TypeOK'
    <3>1. free < Slots
      BY <1>0, GiveConserves
    <3>2. QED
      BY <1>1, <2>1, <3>1, SlotsAndSizes DEF TypeOK
  <2>3. BusyWhileScanning'
    BY <1>1, <2>1 DEF BusyWhileScanning, TypeOK
  <2>4. RunningIsAwaited'
    BY <1>1, <2>1 DEF RunningIsAwaited, Running, TypeOK
  <2>5. QueueOfWaiters'
    BY <1>3, <2>1 DEF QueueOfWaiters
  <2>6. SlotsConserved'
    <3>1. Holders' = Holders \ {c}
      BY <1>1, <2>1 DEF Holders, HasSlot, TypeOK
    <3>2. QED
      BY <1>0, <2>1, <3>1, GiveConserves
  <2>7. QED
    BY <2>2, <2>3, <2>4, <2>5, <2>6
<1>4. CASE queue # <<>>
  <2> DEFINE h == Head(queue)
  <2>1. /\ call' = [call EXCEPT ![c] = At("done"), ![h] = At("granted")]
        /\ free' = free
        /\ queue' = Tail(queue)
    BY <1>4 DEF Release
  <2>2. /\ h \in Calls
        /\ h = queue[1] /\ 1 \in 1..Len(queue)
        /\ Tail(queue) \in Seq(Calls)
        /\ Len(Tail(queue)) = Len(queue) - 1
        /\ \A i \in 1..Len(Tail(queue)) : Tail(queue)[i] = queue[i + 1] /\ i + 1 \in 1..Len(queue)
    BY <1>4 DEF TypeOK
  <2>3. call[h].pc = "queued"
    BY <2>2 DEF QueueOfWaiters
  <2>4. h # c
    BY <2>3 DEF HasSlot
  <2>5. \A d \in Calls : call'[d] = IF d = h THEN At("granted")
                                    ELSE IF d = c THEN At("done") ELSE call[d]
    BY <2>1, <2>2 DEF TypeOK
  <2>6. TypeOK'
    BY <1>1, <1>2, <2>1, <2>2 DEF TypeOK
  <2>7. BusyWhileScanning'
    BY <1>1, <2>2, <2>3, <2>5 DEF BusyWhileScanning
  <2>8. RunningIsAwaited'
    BY <2>2, <2>3, <2>5 DEF RunningIsAwaited, Running
  <2>9. QueueOfWaiters'
    <3>1. ASSUME NEW i \in 1..Len(queue') PROVE call'[queue'[i]].pc = "queued"
      <4>1. queue'[i] = queue[i + 1] /\ i + 1 \in 1..Len(queue) /\ i + 1 # 1
        BY <2>1, <2>2
      <4>2. call[queue[i + 1]].pc = "queued" /\ queue[i + 1] # h
        BY <4>1, <2>2 DEF QueueOfWaiters
      <4>3. queue[i + 1] \in Calls /\ queue[i + 1] # c
        BY <4>1, <4>2 DEF TypeOK, HasSlot
      <4>4. QED
        BY <4>1, <4>2, <4>3, <2>5
    <3>2. ASSUME NEW i \in 1..Len(queue'), NEW j \in 1..Len(queue'), queue'[i] = queue'[j]
          PROVE  i = j
      <4>1. queue[i + 1] = queue[j + 1] /\ i + 1 \in 1..Len(queue) /\ j + 1 \in 1..Len(queue)
        BY <2>1, <2>2, <3>2
      <4>2. i + 1 = j + 1
        BY <4>1 DEF QueueOfWaiters
      <4>3. i \in Int /\ j \in Int
        BY <2>1, <2>2, <3>2
      <4>4. QED
        BY <4>2, <4>3
    <3>3. QED
      BY <3>1, <3>2 DEF QueueOfWaiters
  <2>10. SlotsConserved'
    <3>1. h \notin Holders
      BY <2>3 DEF Holders, HasSlot
    <3>2. Holders' = (Holders \ {c}) \cup {h}
      BY <1>1, <1>2, <2>2, <2>4, <2>5 DEF Holders, HasSlot
    <3>3. QED
      BY <1>0, <2>1, <3>1, <3>2, PassConserves
  <2>11. QED
    BY <2>6, <2>7, <2>8, <2>9, <2>10
<1>5. QED
  BY <1>3, <1>4

(***************************************************************************)
(* The other steps                                                         *)
(***************************************************************************)

\* A call with a slot that goes on to another await with its slot.
LEMMA GoOnPreservesIInv ==
    ASSUME IInv, NEW c \in Calls, NEW r \in Call, NEW p \in Process,
           call[c].pc \in {"starting", "reading"},
           r.pc \in {"reading", "waiting", "reaping"},
           call' = [call EXCEPT ![c] = r], proc' = [proc EXCEPT ![c] = p],
           UNCHANGED <<layer, sem>>
    PROVE  IInv'
<1> USE DEF IInv, sem
<1>1. TypeOK'
  BY DEF TypeOK
<1>2. BusyWhileScanning' /\ RunningIsAwaited'
  BY DEF TypeOK, BusyWhileScanning, RunningIsAwaited, Running
<1>3. QueueOfWaiters'
  BY DEF TypeOK, QueueOfWaiters
<1>4. SlotsConserved'
  <2>1. Holders' = Holders
    BY DEF TypeOK, Holders, HasSlot
  <2>2. QED
    BY <2>1, SameHoldersConserve
<1>5. QED
  BY <1>1, <1>2, <1>3, <1>4

\* A step of the subprocess of c, which does not come to life by it.
LEMMA MovePreservesIInv ==
    ASSUME IInv, NEW c \in Calls, NEW p \in Process, Moves(c, p), Running(c)
    PROVE  IInv'
<1> USE DEF IInv, Moves, sem
<1>1. TypeOK'
  BY DEF TypeOK
<1>2. BusyWhileScanning' /\ RunningIsAwaited'
  BY DEF TypeOK, BusyWhileScanning, RunningIsAwaited, Running
<1>3. QueueOfWaiters'
  BY DEF QueueOfWaiters
<1>4. SlotsConserved'
  <2>1. Holders' = Holders
    BY DEF Holders, HasSlot
  <2>2. QED
    BY <2>1, SameHoldersConserve
<1>5. QED
  BY <1>1, <1>2, <1>3, <1>4

\* run_layer1 starts, or ends when none of its calls is left.
LEMMA LayerPreservesIInv ==
    ASSUME IInv, NEW s \in Scans, LayerStarts(s) \/ LayerEnds(s)
    PROVE  IInv'
<1> USE DEF IInv, LayerStarts, LayerEnds, sem
<1>1. TypeOK'
  BY DEF TypeOK
<1>2. BusyWhileScanning'
  <2> SUFFICES ASSUME NEW c \in Calls, call'[c].pc \notin {"idle", "done"}
               PROVE  layer'[c[1]] = "scanning"
    BY DEF BusyWhileScanning
  <2>1. layer[c[1]] = "scanning" /\ call[c].pc # "done"
    BY DEF BusyWhileScanning
  <2>2. c[1] # s
    <3>1. c = <<c[1], c[2]>> /\ c[2] \in Adapters
      BY DEF Calls
    <3>2. LayerEnds(s) => c[1] # s
      BY <2>1, <3>1 DEF Gathered
    <3>3. QED
      BY <2>1, <3>2
  <2>3. c[1] \in Scans
    BY DEF Calls
  <2>4. QED
    BY <2>1, <2>2, <2>3 DEF TypeOK
<1>3. RunningIsAwaited' /\ QueueOfWaiters'
  BY DEF RunningIsAwaited, Running, QueueOfWaiters
<1>4. SlotsConserved'
  <2>1. Holders' = Holders
    BY DEF Holders, HasSlot
  <2>2. QED
    BY <2>1, SameHoldersConserve
<1>5. QED
  BY <1>1, <1>2, <1>3, <1>4

LEMMA SkipPreservesIInv ==
    ASSUME IInv, NEW c \in Calls, Skip(c)
    PROVE  IInv'
<1> USE DEF IInv, Skip, sem
<1>1. At("done") \in Call /\ At("done").pc = "done"
  BY AtIsCall
<1>2. TypeOK'
  BY <1>1 DEF TypeOK
<1>3. BusyWhileScanning' /\ RunningIsAwaited'
  BY <1>1 DEF TypeOK, BusyWhileScanning, RunningIsAwaited, Running
<1>4. QueueOfWaiters'
  BY <1>1 DEF TypeOK, QueueOfWaiters
<1>5. SlotsConserved'
  <2>1. Holders' = Holders
    BY <1>1 DEF TypeOK, Holders, HasSlot
  <2>2. QED
    BY <2>1, SameHoldersConserve
<1>6. QED
  BY <1>2, <1>3, <1>4, <1>5

\* async with: a slot, or a place at the end of the queue.
LEMMA AcquirePreservesIInv ==
    ASSUME IInv, NEW c \in Calls, Acquire(c)
    PROVE  IInv'
<1> USE DEF IInv, Acquire, sem
<1>1. /\ At("queued") \in Call /\ At("queued").pc = "queued"
      /\ At("starting") \in Call /\ At("starting").pc = "starting"
  BY AtIsCall
<1>2. c \notin Holders
  BY DEF Holders, HasSlot
<1>3. CASE Locked
  <2>1. TypeOK'
    <3>1. /\ call' = [call EXCEPT ![c] = At("queued")]
          /\ queue' = Append(queue, c)
          /\ free' = free /\ layer' = layer /\ proc' = proc
      BY <1>3
    <3>2. queue' \in Seq(Calls)
      BY <3>1 DEF TypeOK
    <3>3. call' \in [Calls -> Call]
      BY <1>1, <3>1 DEF TypeOK
    <3>4. QED
      BY <3>1, <3>2, <3>3 DEF TypeOK
  <2>2. BusyWhileScanning' /\ RunningIsAwaited'
    BY <1>1, <1>3 DEF TypeOK, BusyWhileScanning, RunningIsAwaited, Running
  <2>3. QueueOfWaiters'
    <3>1. \A i \in 1..Len(queue) : queue[i] # c /\ queue[i] \in Calls
      BY DEF QueueOfWaiters, TypeOK
    <3>2. /\ queue' = Append(queue, c)
          /\ Len(queue') = Len(queue) + 1
          /\ queue'[Len(queue) + 1] = c
          /\ \A i \in 1..Len(queue) : queue'[i] = queue[i]
          /\ Len(queue) \in Nat
      BY <1>3 DEF TypeOK
    <3>3. \A d \in Calls : call'[d] = IF d = c THEN At("queued") ELSE call[d]
      BY <1>3 DEF TypeOK
    <3>4. \A i \in 1..Len(queue') : i \in 1..Len(queue) \/ i = Len(queue) + 1
      BY <3>2
    <3>5. QED
      BY <1>1, <3>1, <3>2, <3>3, <3>4 DEF QueueOfWaiters
  <2>4. SlotsConserved'
    <3>1. Holders' = Holders
      BY <1>1, <1>3 DEF TypeOK, Holders, HasSlot
    <3>2. QED
      BY <1>3, <3>1, SameHoldersConserve
  <2>5. QED
    BY <2>1, <2>2, <2>3, <2>4
<1>4. CASE ~Locked
  <2>1. TypeOK'
    <3>1. free # 0
      BY <1>4 DEF Locked
    <3>2. QED
      BY <1>1, <1>4, <3>1, SlotsAndSizes DEF TypeOK
  <2>2. BusyWhileScanning' /\ RunningIsAwaited'
    BY <1>1, <1>4 DEF TypeOK, BusyWhileScanning, RunningIsAwaited, Running
  <2>3. QueueOfWaiters'
    BY <1>1, <1>4 DEF TypeOK, QueueOfWaiters
  <2>4. SlotsConserved'
    <3>1. Holders' = Holders \cup {c}
      BY <1>1, <1>4 DEF TypeOK, Holders, HasSlot
    <3>2. QED
      BY <1>2, <1>4, <3>1, TakeConserves
  <2>5. QED
    BY <2>1, <2>2, <2>3, <2>4
<1>5. QED
  BY <1>3, <1>4

\* The first n calls of the queue are that many, and the rest of it is the queue.
LEMMA QueueSplits ==
    ASSUME queue \in Seq(Calls), QueueOfWaiters, NEW n \in 0..Len(queue), NEW woken,
           woken = {queue[i] : i \in 1..n}
    PROVE  /\ IsFiniteSet(woken) /\ Cardinality(woken) = n
           /\ \A d \in woken : d \in Calls /\ call[d].pc = "queued"
           /\ SubSeq(queue, n + 1, Len(queue)) \in Seq(Calls)
           /\ \A i \in 1..Len(SubSeq(queue, n + 1, Len(queue))) :
                  /\ n + i \in 1..Len(queue) /\ n + i \notin 1..n
                  /\ SubSeq(queue, n + 1, Len(queue))[i] = queue[n + i]
<1>1. n \in Nat /\ Len(queue) \in Nat /\ n <= Len(queue) /\ n \in Int
  OBVIOUS
<1>2. \A i \in 1..n : i \in 1..Len(queue) /\ queue[i] \in Calls
  BY <1>1
<1>3. IsFiniteSet(1..n) /\ Cardinality(1..n) = n
  BY <1>1, FS_Interval
<1>4. ExistsBijection(1..n, woken)
  <2> DEFINE f == [i \in 1..n |-> queue[i]]
  <2>1. f \in [1..n -> woken] /\ \A i, j \in 1..n : f[i] = f[j] => i = j
    BY <1>2 DEF QueueOfWaiters
  <2>2. \A w \in woken : \E i \in 1..n : f[i] = w
    OBVIOUS
  <2>3. f \in Bijection(1..n, woken)
    BY <2>1, <2>2 DEF Bijection, Injection, Surjection, IsInjective
  <2>4. QED
    BY <2>3 DEF ExistsBijection
<1>5. IsFiniteSet(woken) /\ Cardinality(woken) = n
  BY <1>3, <1>4, FS_Bijection
<1>6. \A d \in woken : d \in Calls /\ call[d].pc = "queued"
  BY <1>2 DEF QueueOfWaiters
<1>7. /\ SubSeq(queue, n + 1, Len(queue)) \in Seq(Calls)
      /\ Len(SubSeq(queue, n + 1, Len(queue))) = Len(queue) - n
      /\ \A i \in 1..(Len(queue) - n) : SubSeq(queue, n + 1, Len(queue))[i] = queue[n + i]
  <2>1. n + 1 \in Int /\ \A i \in (n + 1)..Len(queue) : queue[i] \in Calls
    BY <1>1
  <2>2. /\ SubSeq(queue, n + 1, Len(queue)) \in Seq(Calls)
        /\ Len(SubSeq(queue, n + 1, Len(queue)))
              = IF n + 1 <= Len(queue) THEN Len(queue) - (n + 1) + 1 ELSE 0
        /\ \A i \in 1..(Len(queue) - (n + 1) + 1) :
               SubSeq(queue, n + 1, Len(queue))[i] = queue[n + 1 + i - 1]
    BY <1>1, <2>1, SubSeqProperties
  <2>3. Len(queue) - (n + 1) + 1 = Len(queue) - n
    BY <1>1
  <2>4. ASSUME NEW i \in 1..(Len(queue) - n)
        PROVE  SubSeq(queue, n + 1, Len(queue))[i] = queue[n + i]
    <3>1. n + 1 + i - 1 = n + i /\ i \in 1..(Len(queue) - (n + 1) + 1)
      BY <1>1, <2>3
    <3>2. QED
      BY <2>2, <3>1
  <2>5. Len(SubSeq(queue, n + 1, Len(queue))) = Len(queue) - n
    <3>1. (IF n + 1 <= Len(queue) THEN Len(queue) - (n + 1) + 1 ELSE 0) = Len(queue) - n
      BY <1>1
    <3>2. QED
      BY <2>2, <3>1
  <2>6. QED
    BY <2>2, <2>4, <2>5
<1>8. \A i \in 1..(Len(queue) - n) : n + i \in 1..Len(queue) /\ n + i \notin 1..n
  BY <1>1
<1>9. QED
  BY <1>5, <1>6, <1>7, <1>8

\* The task of a call that was granted a slot runs.
LEMMA ResumePreservesIInv ==
    ASSUME IInv, NEW c \in Calls, Resume(c)
    PROVE  IInv'
<1> USE DEF IInv
<1> DEFINE n == IF free < Len(queue) THEN free ELSE Len(queue)
           woken == {queue[i] : i \in 1..n}
<1>1. /\ call[c].pc = "granted" /\ layer' = layer /\ proc' = proc
      /\ call' = [d \in Calls |-> IF d = c THEN At("starting")
                                  ELSE IF d \in woken THEN At("granted") ELSE call[d]]
      /\ queue' = SubSeq(queue, n + 1, Len(queue))
      /\ free' = free - n
  BY DEF Resume
<1>2. /\ free \in Nat /\ Len(queue) \in Nat /\ n \in 0..Len(queue) /\ n <= free /\ n \in Nat
      /\ queue \in Seq(Calls)
  BY SlotsAndSizes DEF TypeOK
<1> HIDE DEF n
<1>3. /\ At("starting") \in Call /\ At("starting").pc = "starting"
      /\ At("granted") \in Call /\ At("granted").pc = "granted"
  BY AtIsCall
<1>4. /\ IsFiniteSet(woken) /\ Cardinality(woken) = n
      /\ \A d \in woken : d \in Calls /\ call[d].pc = "queued"
      /\ queue' \in Seq(Calls)
      /\ \A i \in 1..Len(queue') : /\ n + i \in 1..Len(queue) /\ n + i \notin 1..n
                                   /\ queue'[i] = queue[n + i]
  BY <1>1, <1>2, QueueSplits
<1>5. c \notin woken
  BY <1>1, <1>4
<1>6. QueueOfWaiters'
  <2>1. ASSUME NEW i \in 1..Len(queue') PROVE call'[queue'[i]].pc = "queued"
    <3>1. queue'[i] = queue[n + i] /\ n + i \in 1..Len(queue) /\ n + i \notin 1..n
      BY <1>4
    <3>2. queue[n + i] \in Calls /\ call[queue[n + i]].pc = "queued"
      BY <1>2, <3>1 DEF QueueOfWaiters
    <3>3. \A j \in 1..n : j \in 1..Len(queue) /\ queue[j] # queue[n + i]
      BY <1>2, <3>1 DEF QueueOfWaiters
    <3>4. queue[n + i] \notin woken /\ queue[n + i] # c
      BY <1>1, <3>2, <3>3
    <3>5. QED
      BY <1>1, <3>1, <3>2, <3>4
  <2>2. ASSUME NEW i \in 1..Len(queue'), NEW j \in 1..Len(queue'), queue'[i] = queue'[j]
        PROVE  i = j
    <3>1. n + i = n + j
      BY <1>4, <2>2 DEF QueueOfWaiters
    <3>2. QED
      BY <1>2, <1>4, <3>1
  <2>3. QED
    BY <2>1, <2>2 DEF QueueOfWaiters
<1> HIDE DEF woken
<1>7. TypeOK'
  <2>1. call' \in [Calls -> Call]
    BY <1>1, <1>3 DEF TypeOK
  <2>2. free' \in 0..Slots
    BY <1>1, <1>2, SlotsAndSizes DEF TypeOK
  <2>3. QED
    BY <1>1, <1>4, <2>1, <2>2 DEF TypeOK
<1>8. BusyWhileScanning' /\ RunningIsAwaited'
  BY <1>1, <1>3, <1>4 DEF BusyWhileScanning, RunningIsAwaited, Running
<1>9. SlotsConserved'
  <2>1. Holders' = Holders \cup woken
    BY <1>1, <1>3, <1>4, <1>5 DEF Holders, HasSlot
  <2>2. Holders \cap woken = {}
    BY <1>4 DEF Holders, HasSlot
  <2>3. /\ Cardinality(Holders') = Cardinality(Holders) + Cardinality(woken) - Cardinality({})
        /\ Cardinality(Holders) \in Nat
    BY <1>4, <2>1, <2>2, HoldersAreFinite, FS_Union, FS_CardinalityType
  <2>4. Cardinality({}) = 0
    BY FS_EmptySet
  <2>5. Slots \in Nat
    BY SlotsAndSizes
  <2>6. QED
    BY <1>1, <1>2, <1>4, <2>3, <2>4, <2>5 DEF SlotsConserved, Holders
<1>10. QED
  BY <1>6, <1>7, <1>8, <1>9

(***************************************************************************)
(* Every step                                                              *)
(***************************************************************************)

LEMMA ReadStdoutPreservesIInv ==
    ASSUME IInv, NEW c \in Calls, ReadStdout(c)
    PROVE  IInv'
<1>1. PICK n \in 0..proc[c].held :
         /\ call' = [call EXCEPT ![c].out = TRUE, ![c].pc = AfterRead(c, call[c].err)]
         /\ proc' = [proc EXCEPT ![c].held = @ - n]
  BY DEF ReadStdout
<1> DEFINE r == [call[c] EXCEPT !.out = TRUE, !.pc = AfterRead(c, call[c].err)]
           p == [proc[c] EXCEPT !.held = @ - n]
<1>2. call[c] \in Call /\ proc[c] \in Process /\ call[c].pc = "reading"
  BY DEF IInv, TypeOK, ReadStdout
<1>3. p \in Process
  BY <1>2, SlotsAndSizes DEF Process
<1>4. r \in Call /\ r.pc \in {"reading", "waiting"}
  BY <1>2 DEF Call, AfterRead
<1>5. call' = [call EXCEPT ![c] = r] /\ proc' = [proc EXCEPT ![c] = p]
  BY <1>1 DEF IInv, TypeOK
<1>6. QED
  BY <1>2, <1>3, <1>4, <1>5, GoOnPreservesIInv DEF ReadStdout

LEMMA ReadStderrPreservesIInv ==
    ASSUME IInv, NEW c \in Calls, ReadStderr(c)
    PROVE  IInv'
<1> DEFINE r == [call[c] EXCEPT !.err = TRUE, !.pc = AfterRead(c, call[c].out)]
<1>1. call[c] \in Call /\ proc[c] \in Process /\ call[c].pc = "reading"
  BY DEF IInv, TypeOK, ReadStderr
<1>2. r \in Call /\ r.pc \in {"reading", "waiting"}
  BY <1>1 DEF Call, AfterRead
<1>3. call' = [call EXCEPT ![c] = r] /\ proc' = [proc EXCEPT ![c] = proc[c]]
  BY DEF IInv, TypeOK, ReadStderr
<1>4. UNCHANGED <<layer, sem>>
  BY DEF ReadStderr
<1>5. QED
  BY <1>1, <1>2, <1>3, <1>4, GoOnPreservesIInv

LEMMA TimesOutPreservesIInv ==
    ASSUME IInv, NEW c \in Calls, TimesOut(c)
    PROVE  IInv'
<1> DEFINE p == Report(IF proc[c].state = "alive" THEN "signalled" ELSE proc[c].state, 0)
<1>1. proc[c] \in Process
  BY DEF IInv, TypeOK
<1>2. p \in Process
  <2>1. 0 \in 0..MaxPieces
    BY SlotsAndSizes
  <2>2. QED
    BY <1>1, <2>1, ReportIsProcess DEF Process
<1>3. At("reaping") \in Call /\ At("reaping").pc = "reaping"
  BY AtIsCall
<1>4. proc' = [proc EXCEPT ![c] = p]
  BY DEF IInv, TypeOK, TimesOut
<1>5. QED
  BY <1>2, <1>3, <1>4, GoOnPreservesIInv DEF TimesOut, TimeoutCovers

\* Both waits for the process end with the process dead.
LEMMA WaitPreservesIInv ==
    ASSUME IInv, NEW c \in Calls, Wait(c) \/ Reap(c)
    PROVE  IInv'
<1>1. HasSlot(c) /\ call[c].pc # "granted" /\ UNCHANGED layer /\ Release(c)
  BY DEF Wait, Reap, HasSlot
<1>2. proc' = [proc EXCEPT ![c] = Report(@.state, 0)] /\ proc[c].state = "dead"
  BY DEF Wait, Reap, Exited
<1>3. Report("dead", 0) \in Process /\ Report("dead", 0).state = "dead"
  BY ReportIsProcess, SlotsAndSizes
<1>4. /\ proc' \in [Calls -> Process] /\ proc'[c].state = "dead"
      /\ \A d \in Calls \ {c} : proc'[d].state = proc[d].state
  BY <1>2, <1>3 DEF IInv, TypeOK
<1>5. QED
  BY <1>1, <1>4, ReleasePreservesIInv

LEMMA ExecutePreservesIInv ==
    ASSUME IInv, NEW c \in Calls, Execute(c)
    PROVE  IInv'
<1>1. CASE Spawn(c)
  <2>1. PICK size \in 0..MaxPieces : proc' = [proc EXCEPT ![c] = Report("alive", size)]
    BY <1>1 DEF Spawn
  <2>2. At("reading") \in Call /\ At("reading").pc = "reading" /\ Report("alive", size) \in Process
    BY AtIsCall, ReportIsProcess
  <2>3. QED
    BY <1>1, <2>1, <2>2, GoOnPreservesIInv DEF Spawn
<1>2. CASE SpawnFails(c)
  <2>1. /\ HasSlot(c) /\ call[c].pc = "starting" /\ Release(c) /\ layer' = layer /\ proc' = proc
    BY <1>2 DEF SpawnFails, HasSlot
  <2>2. proc' \in [Calls -> Process] /\ proc'[c].state \notin {"alive", "signalled"}
    BY <2>1 DEF IInv, TypeOK, RunningIsAwaited, Running
  <2>3. QED
    BY <2>1, <2>2, ReleasePreservesIInv
<1>3. QED
  BY <1>1, <1>2, ResumePreservesIInv, ReadStdoutPreservesIInv, ReadStderrPreservesIInv, WaitPreservesIInv DEF Execute

LEMMA SubprocessPreservesIInv ==
    ASSUME IInv, NEW c \in Calls, Subprocess(c)
    PROVE  IInv'
<1> USE SlotsAndSizes
<1>1. proc[c] \in Process
  BY DEF IInv, TypeOK
<1>2. CASE WriteStdout(c)
  <2>1. /\ proc[c].left - 1 \in 0..MaxPieces
        /\ proc[c].held + 1 \in 0..Capacity
        /\ Running(c)
    BY <1>1, <1>2 DEF WriteStdout, Process, Running
  <2>2. [proc[c] EXCEPT !.left = @ - 1, !.held = @ + 1] \in Process
    BY <1>1, <2>1 DEF Process
  <2>3. QED
    BY <1>2, <2>1, <2>2, MovePreservesIInv DEF WriteStdout
<1>3. CASE WriteStderr(c)
  <2>1. [proc[c] EXCEPT !.said = TRUE] \in Process /\ Running(c)
    BY <1>1, <1>3 DEF WriteStderr, Process, Running
  <2>2. QED
    BY <1>3, <2>1, MovePreservesIInv DEF WriteStderr
<1>4. CASE Exit(c) \/ Die(c)
  <2>1. [proc[c] EXCEPT !.state = "dead"] \in Process /\ Running(c)
    BY <1>1, <1>4 DEF Exit, Die, Process, Running
  <2>2. QED
    BY <1>4, <2>1, MovePreservesIInv DEF Exit, Die
<1>5. QED
  BY <1>2, <1>3, <1>4 DEF Subprocess

LEMMA NextPreservesIInv == IInv /\ [Next]_vars => IInv'
<1> SUFFICES ASSUME IInv, [Next]_vars PROVE IInv'
  OBVIOUS
<1>1. ASSUME NEW c \in Calls, Begin(c) PROVE IInv'
  BY <1>1, SkipPreservesIInv, AcquirePreservesIInv DEF Begin
<1>2. CASE UNCHANGED vars
  BY <1>2 DEF vars, IInv, TypeOK, BusyWhileScanning, RunningIsAwaited, Running,
              QueueOfWaiters, SlotsConserved, HasSlot
<1>3. QED
  BY <1>1, <1>2, LayerPreservesIInv, ExecutePreservesIInv, TimesOutPreservesIInv,
     SubprocessPreservesIInv DEF Next

-------------------------------------------------------------------------------
\* The inductive invariant, from which the theorems below follow.
THEOREM Invariance == Spec => []IInv
<1>1. QED
  BY InitEstablishesIInv, NextPreservesIInv, PTL DEF Spec

\* The types of the semaphore, its queue, the calls and the subprocesses.
THEOREM TypeCorrect == Spec => []TypeOK
<1>1. IInv => TypeOK
  BY DEF IInv
<1>2. QED
  BY <1>1, Invariance, PTL

\* On every path out of run_scanner the slot comes back, and none comes twice.
THEOREM SlotsConservedHolds == Spec => []SlotsConserved
<1>1. IInv => SlotsConserved
  BY DEF IInv
<1>2. QED
  BY <1>1, Invariance, PTL

\* A subprocess never outlives its call, its slot or its workspace.
THEOREM SubprocessesContainedHolds == Spec => []SubprocessesContained
<1>1. IInv => SubprocessesContained
  BY DEF IInv, SubprocessesContained, RunningIsAwaited, BusyWhileScanning, HasSlot
<1>2. QED
  BY <1>1, Invariance, PTL
==============================================================================
