------------------------- MODULE ChunkedAnalysisProofs -------------------------
(***************************************************************************)
(* Theorems about ChunkedAnalysis, for scans of any number of files, chunks *)
(* of any size and any thresholds: both clients keep to LLMContract, which  *)
(* ScanPipelineProofs takes for granted, and the breaker, which no lock     *)
(* protects, reopens only in the gaps its code leaves.                      *)
(***************************************************************************)
EXTENDS ChunkedAnalysis, FiniteSetTheorems, TLAPS

-------------------------------------------------------------------------------
(***************************************************************************)
(* Chunks and halves                                                       *)
(***************************************************************************)
LEMMA Sizes == /\ MaxFiles \in Nat \ {0} /\ ChunkSize \in Nat \ {0} /\ MaxAttempts \in Nat \ {0}
               /\ GeminiAttempts \in Nat \ {0} /\ SuccessThreshold \in Nat \ {0}
               /\ FailureThreshold \in Nat \ {0}
BY Positive DEF Positive

LEMMA Division ==
    ASSUME NEW a \in Nat, NEW b \in Nat \ {0}
    PROVE  /\ a \div b \in Nat
           /\ (a \div b) * b <= a
           /\ a < ((a \div b) + 1) * b
OBVIOUS

LEMMA Monotone ==
    ASSUME NEW a \in Nat, NEW b \in Nat, NEW c \in Nat, a <= b
    PROVE  a * c <= b * c /\ a * c \in Nat /\ b * c \in Nat
OBVIOUS

\* A chunk is a piece of the files that is not empty.
LEMMA ChunkBounds ==
    ASSUME n \in 1..MaxFiles, NEW k \in Chunks
    PROVE  /\ k \in Nat \ {0} /\ First(k) \in Nat \ {0} /\ Last(k) \in Nat
           /\ First(k) <= Last(k) /\ Last(k) <= n /\ Last(k) <= k * ChunkSize
           /\ NumChunks \in Nat
<1>1. n \in Nat \ {0} /\ ChunkSize \in Nat \ {0} /\ n + ChunkSize - 1 \in Nat
  BY Sizes
<1>2. NumChunks \in Nat /\ NumChunks * ChunkSize <= n + ChunkSize - 1
  BY <1>1, Division DEF NumChunks
<1>3. k \in Nat \ {0} /\ k <= NumChunks /\ k - 1 \in Nat
  BY <1>2 DEF Chunks
<1>4. k * ChunkSize <= NumChunks * ChunkSize /\ k * ChunkSize \in Nat
  BY <1>1, <1>2, <1>3, Monotone
<1>5. (k - 1) * ChunkSize \in Nat /\ (k - 1) * ChunkSize = k * ChunkSize - ChunkSize
  BY <1>1, <1>3
<1>6. (k - 1) * ChunkSize <= n - 1
  BY <1>1, <1>2, <1>4, <1>5
<1>7. QED
  BY <1>1, <1>2, <1>3, <1>4, <1>5, <1>6 DEF First, Last

LEMMA ChunksApart ==
    ASSUME n \in 1..MaxFiles, NEW k \in Chunks, NEW j \in Chunks, k # j
    PROVE  Chunk(k) \cap Chunk(j) = {}
<1>1. ASSUME NEW a \in Chunks, NEW b \in Chunks, a < b PROVE Last(a) < First(b)
  <2>1. a \in Nat /\ b - 1 \in Nat /\ a <= b - 1 /\ ChunkSize \in Nat
    BY <1>1, ChunkBounds, Sizes
  <2>2. a * ChunkSize <= (b - 1) * ChunkSize /\ (b - 1) * ChunkSize \in Nat
    BY <2>1, Monotone
  <2>3. QED
    BY <2>1, <2>2, ChunkBounds DEF First
<1>2. /\ k \in Nat /\ j \in Nat /\ First(k) \in Nat /\ Last(k) \in Nat /\ First(j) \in Nat /\ Last(j) \in Nat
  BY ChunkBounds
<1>3. Last(k) < First(j) \/ Last(j) < First(k)
  BY <1>1, <1>2
<1>4. QED
  BY <1>2, <1>3 DEF Chunk

LEMMA EveryFileHasAChunk ==
    ASSUME n \in 1..MaxFiles, NEW f \in Files
    PROVE  \E k \in Chunks : f \in Chunk(k)
<1> DEFINE k == ((f - 1) \div ChunkSize) + 1
<1>1. f \in Nat \ {0} /\ f - 1 \in Nat /\ f <= n /\ n \in Nat \ {0} /\ ChunkSize \in Nat \ {0}
  BY Sizes DEF Files
<1>2. /\ k \in Nat \ {0} /\ k - 1 \in Nat /\ (k - 1) * ChunkSize <= f - 1 /\ f - 1 < k * ChunkSize
  BY <1>1, Division
<1> HIDE DEF k
<1>3. n + ChunkSize - 1 \in Nat /\ NumChunks \in Nat /\ n + ChunkSize - 1 < (NumChunks + 1) * ChunkSize
  BY <1>1, Division DEF NumChunks
<1>4. k <= NumChunks
  <2>1. SUFFICES ASSUME NumChunks + 1 <= k PROVE FALSE
    BY <1>2, <1>3
  <2>2. NumChunks + 1 <= k - 1 \/ NumChunks + 1 = k
    BY <1>2, <1>3, <2>1
  <2>3. CASE NumChunks + 1 <= k - 1
    <3>1. (NumChunks + 1) * ChunkSize <= (k - 1) * ChunkSize
      BY <1>1, <1>2, <1>3, <2>3, Monotone
    <3>2. QED
      BY <1>1, <1>2, <1>3, <3>1
  <2>4. CASE NumChunks + 1 = k
    <3>1. k * ChunkSize = (k - 1) * ChunkSize + ChunkSize /\ (k - 1) * ChunkSize \in Nat
      BY <1>1, <1>2
    <3>2. QED
      BY <1>1, <1>2, <1>3, <2>4, <3>1
  <2>5. QED
    BY <2>2, <2>3, <2>4
<1>5. k \in Chunks
  BY <1>2, <1>3, <1>4 DEF Chunks
<1>6. k * ChunkSize \in Nat /\ (k - 1) * ChunkSize \in Nat
  BY <1>1, <1>2
<1>7. First(k) <= f /\ f <= Last(k) /\ First(k) \in Nat /\ Last(k) \in Nat
  BY <1>1, <1>2, <1>5, <1>6, ChunkBounds DEF First, Last
<1>8. QED
  BY <1>1, <1>5, <1>7 DEF Chunk

\* The halves of a chunk of two files or more are parts of it, and not empty.
LEMMA PartsOfChunk ==
    ASSUME n \in 1..MaxFiles, NEW k \in Chunks
    PROVE  /\ \A p \in Parts : Part(k, p) \subseteq Chunk(k)
           /\ Chunk(k) \subseteq Files
           /\ Part(k, "whole") # {}
           /\ Cardinality(Chunk(k)) > 1 => Part(k, "left") # {} /\ Part(k, "right") # {}
<1>1. /\ First(k) \in Nat \ {0} /\ Last(k) \in Nat /\ First(k) <= Last(k) /\ Last(k) <= n /\ n \in Nat
  BY ChunkBounds
<1>2. Last(k) - First(k) + 1 \in Nat \ {0}
  BY <1>1
<1>3. Mid(k) \in Nat /\ Mid(k) * 2 <= Last(k) - First(k) + 1 /\ Last(k) - First(k) + 1 < (Mid(k) + 1) * 2
  BY <1>2, Division DEF Mid
<1>4. First(k) + Mid(k) - 1 <= Last(k) /\ First(k) <= First(k) + Mid(k)
  BY <1>1, <1>3
<1>5. \A p \in Parts : Part(k, p) \subseteq Chunk(k)
  BY <1>1, <1>3, <1>4 DEF Parts, Part, Chunk
<1>6. Chunk(k) \subseteq Files
  BY <1>1 DEF Chunk, Files
<1>7. First(k) \in Part(k, "whole")
  BY <1>1 DEF Part, Chunk
<1>8. ASSUME Cardinality(Chunk(k)) > 1 PROVE Part(k, "left") # {} /\ Part(k, "right") # {}
  <2>1. Cardinality(Chunk(k)) = Last(k) - First(k) + 1
    BY <1>1, FS_Interval DEF Chunk
  <2>2. Mid(k) >= 1
    BY <1>1, <1>3, <1>8, <2>1
  <2>3. First(k) \in Part(k, "left") /\ Last(k) \in Part(k, "right")
    BY <1>1, <1>3, <2>2 DEF Part
  <2>4. QED
    BY <2>3
<1>9. QED
  BY <1>5, <1>6, <1>7, <1>8

LEMMA HalvesCover ==
    ASSUME n \in 1..MaxFiles, NEW k \in Chunks
    PROVE  Chunk(k) \subseteq Part(k, "left") \cup Part(k, "right")
<1>1. First(k) \in Nat /\ Last(k) \in Nat /\ First(k) <= Last(k)
  BY ChunkBounds
<1>2. Mid(k) \in Nat
  BY <1>1, Division DEF Mid
<1>3. QED
  BY <1>1, <1>2 DEF Chunk, Part

-------------------------------------------------------------------------------
(***************************************************************************)
(* The inductive invariant                                                 *)
(***************************************************************************)
Working == /\ client \in {"claude", "gemini"}
           /\ n \in 1..MaxFiles
           /\ brk \in Breaker
           /\ call \in [Calls -> Call]

Running == {"checking", "trying", "stamping", "resetting"}

\* An outcome is there as soon as nothing is asked any more.
OutcomeWhenAnswered ==
    \A c \in Calls : call[c].out # "none" <=> call[c].pc \in {"stamping", "resetting", "done"}

\* Only chunks are called, and halves only of a chunk that did not parse.
CallsHaveCause ==
    \A k \in 1..MaxFiles, p \in Parts : call[<<k, p>>].pc # "idle" =>
        /\ k \in Chunks
        /\ p # "whole" => Halved(k) /\ Ended(<<k, "whole">>)

\* The answer is given when nothing is left to do.
AnswerIsLast == answer # NoAnswer => /\ AllSettled
                                     /\ answer \in AnalysisOutcomes(Files)
                                     /\ OnlyFailedHalvesForgotten

\* A breaker that is open without a time is about to get one.
OpenIsStamped ==
    brk.state = "open" => \/ brk.opened # "never"
                          \/ \E c \in Calls : call[c].pc \in {"stamping", "resetting"}

IInv == Working /\ OutcomeWhenAnswered /\ CallsHaveCause /\ AnswerIsLast /\ OpenIsStamped

LEMMA InitEstablishesIInv == Init => IInv
<1> SUFFICES ASSUME Init PROVE IInv
  OBVIOUS
<1>1. NotCalled \in Call /\ NotCalled.pc = "idle" /\ NotCalled.out = "none"
  BY Sizes DEF NotCalled, Call
<1>2. brk \in Breaker /\ (brk.state = "open" => brk.opened # "never")
  <2>1. NewBreaker \in Breaker /\ NewBreaker.state = "closed"
    BY Sizes DEF NewBreaker, Breaker
  <2>2. ASSUME NEW b \in UsedBreaker
        PROVE  b \in Breaker /\ (b.state = "open" => b.opened # "never")
    BY <2>2, Sizes DEF UsedBreaker, Breaker
  <2>3. QED
    BY <2>1, <2>2 DEF Init
<1>3. Working /\ OutcomeWhenAnswered /\ AnswerIsLast
  BY <1>1, <1>2 DEF Init, Working, OutcomeWhenAnswered, AnswerIsLast
<1>4. CallsHaveCause
  BY <1>1 DEF Init, CallsHaveCause, Calls
<1>5. QED
  BY <1>2, <1>3, <1>4 DEF IInv, OpenIsStamped

-------------------------------------------------------------------------------
(***************************************************************************)
(* The steps                                                               *)
(***************************************************************************)

\* What any step of a request does to the requests.
Moves(c, new) ==
    /\ call[c].pc # "done" /\ call' = [call EXCEPT ![c] = new]
    /\ new \in Call /\ new.pc # "idle"
    /\ new.out # "none" <=> new.pc \in {"stamping", "resetting", "done"}
    /\ call[c].pc = "idle" => MayStart(c[1], c[2])
    /\ call[c].out # "none" => new.out = call[c].out
    /\ call[c].pc = "idle" => new.out = "none"
    /\ UNCHANGED <<client, n, answer>>

\* ... and to the breaker, but for RecordSuccess.
BreakerKept(c, new) ==
    /\ call[c].pc \in {"stamping", "resetting"} => brk'.opened = "fresh"
    /\ brk'.state = "open" => \/ brk.state = "open" /\ brk'.opened = brk.opened
                              \/ brk'.opened = "fresh"
                              \/ new.pc \in {"stamping", "resetting"}
    /\ brk.state = "open" /\ brk'.state = "half_open" => brk.opened # "fresh"

LEMMA SetMoves ==
    ASSUME Working, NEW c \in Calls, NEW pc \in Running \cup {"done"},
           NEW attempt \in 0..(MaxAttempts + GeminiAttempts), NEW out \in {"none", "ok"} \cup Failures,
           Set(c, pc, attempt, out), call[c].pc # "done", UNCHANGED <<client, n, answer>>,
           out # "none" <=> pc \in {"stamping", "resetting", "done"},
           call[c].pc = "idle" => MayStart(c[1], c[2]) /\ out = "none",
           call[c].out # "none" => out = call[c].out
    PROVE  \E new : Moves(c, new) /\ new.pc = pc
<1> DEFINE new == [pc |-> pc, attempt |-> attempt, out |-> out]
<1>1. new \in Call /\ new.pc = pc /\ new.out = out
  BY DEF Call, Running
<1>2. call' = [call EXCEPT ![c] = new]
  BY DEF Set
<1> HIDE DEF new
<1>3. Moves(c, new)
  BY <1>1, <1>2 DEF Moves, Running
<1>4. QED
  BY <1>1, <1>3

LEMMA BreakerSteps ==
    ASSUME Working
    PROVE  /\ RecordSuccess => brk' \in Breaker /\ (brk'.state = "open" => brk.state = "open" /\ brk'.opened = brk.opened)
           /\ HalfOpen => brk' \in Breaker /\ brk'.state = "half_open"
           /\ RecordFailure => /\ brk' \in Breaker
                               /\ brk'.state = "open" => \/ brk.state = "open" /\ brk'.opened = brk.opened
                                                         \/ PcAfterFailure \in {"stamping", "resetting"}
                               /\ brk'.state # "half_open"
           /\ PcAfterFailure \in {"stamping", "resetting", "done"}
<1>1. /\ brk \in Breaker /\ NewBreaker \in Breaker /\ NewBreaker.state = "closed"
      /\ brk.failures \in Nat /\ brk.successes \in 0..(SuccessThreshold - 1)
  BY Sizes DEF Working, NewBreaker, Breaker
<1>2. ASSUME RecordSuccess
      PROVE  brk' \in Breaker /\ (brk'.state = "open" => brk.state = "open" /\ brk'.opened = brk.opened)
  <2>1. CASE brk.state # "half_open"
    BY <1>1, <1>2, <2>1 DEF RecordSuccess, Breaker
  <2>2. CASE brk.state = "half_open" /\ brk.successes + 1 < SuccessThreshold
    <3>1. brk.successes + 1 \in 0..(SuccessThreshold - 1)
      BY <1>1, <2>2, Sizes
    <3>2. QED
      BY <1>1, <1>2, <2>2, <3>1 DEF RecordSuccess, Breaker
  <2>3. CASE brk.state = "half_open" /\ ~(brk.successes + 1 < SuccessThreshold)
    BY <1>1, <1>2, <2>3 DEF RecordSuccess
  <2>4. QED
    BY <2>1, <2>2, <2>3
<1>3. HalfOpen => brk' \in Breaker /\ brk'.state = "half_open"
  <2>1. 0 \in 0..(SuccessThreshold - 1)
    BY Sizes
  <2>2. QED
    BY <1>1, <2>1 DEF HalfOpen, Breaker
<1>4. ASSUME RecordFailure
      PROVE  /\ brk' \in Breaker
             /\ brk'.state = "open" => \/ brk.state = "open" /\ brk'.opened = brk.opened
                                       \/ PcAfterFailure \in {"stamping", "resetting"}
             /\ brk'.state # "half_open"
  <2>1. CASE brk.state = "half_open"
    BY <1>1, <1>4, <2>1 DEF RecordFailure, PcAfterFailure, Breaker
  <2>2. CASE brk.state # "half_open"
    <3>1. PICK state \in {"closed", "open"} :
             state = IF brk.failures + 1 >= FailureThreshold THEN "open" ELSE brk.state
      BY <1>1, <2>2 DEF Breaker
    <3>2. brk' = [brk EXCEPT !.failures = brk.failures + 1, !.state = state]
      BY <1>1, <1>4, <2>2, <3>1 DEF RecordFailure
    <3>3. brk.failures + 1 \in Nat
      BY <1>1
    <3>4. brk' \in Breaker /\ brk'.state = state /\ brk'.opened = brk.opened
      BY <1>1, <3>1, <3>2, <3>3 DEF Breaker
    <3>5. QED
      BY <2>2, <3>1, <3>4 DEF PcAfterFailure
  <2>3. QED
    BY <2>1, <2>2
<1>5. QED
  BY <1>2, <1>3, <1>4 DEF PcAfterFailure

LEMMA StepMoves ==
    ASSUME IInv, NEW c \in Calls, Step(c)
    PROVE  brk' \in Breaker /\ \E new : Moves(c, new) /\ BreakerKept(c, new)
<1>1. /\ Working /\ brk \in Breaker /\ call[c] \in Call /\ c = <<c[1], c[2]>>
      /\ (call[c].out # "none" <=> call[c].pc \in {"stamping", "resetting", "done"})
  BY DEF IInv, Working, OutcomeWhenAnswered, Calls
<1>2. /\ 0 \in 0..(MaxAttempts + GeminiAttempts) /\ 1 \in 0..(MaxAttempts + GeminiAttempts)
      /\ call[c].attempt \in 0..(MaxAttempts + GeminiAttempts)
  BY <1>1, Sizes DEF Call
<1>3. ASSUME UNCHANGED brk, NEW new, Moves(c, new), call[c].pc \notin {"stamping", "resetting"}
      PROVE  BreakerKept(c, new)
  BY <1>3 DEF BreakerKept
<1>4. CASE Start(c[1], c[2]) \/ GeminiStart(c[1], c[2])
  <2>1. /\ MayStart(c[1], c[2]) /\ call[c].pc = "idle" /\ UNCHANGED <<client, n, brk, answer>>
        /\ Set(c, "checking", 0, "none") \/ Set(c, "trying", 1, "none")
    BY <1>1, <1>4 DEF Start, GeminiStart, MayStart
  <2>2. \E new : Moves(c, new)
    BY <1>1, <1>2, <2>1, SetMoves DEF Running
  <2>3. QED
    BY <1>1, <1>3, <2>1, <2>2
<1>5. CASE Check(c)
  <2>1. call[c].pc = "checking" /\ UNCHANGED <<client, n, answer>>
    BY <1>5 DEF Check
  <2>2. CASE brk.opened = "fresh"
    <3>1. Set(c, "done", 0, "unavailable") /\ UNCHANGED brk
      BY <1>5, <2>2 DEF Check
    <3>2. \E new : Moves(c, new)
      BY <1>1, <1>2, <2>1, <3>1, SetMoves DEF Failures
    <3>3. QED
      BY <1>1, <1>3, <2>1, <3>1, <3>2
  <2>3. CASE brk.opened # "fresh"
    <3>1. Set(c, "trying", 1, "none") /\ HalfOpen
      BY <1>5, <2>3 DEF Check
    <3>2. \E new : Moves(c, new)
      BY <1>1, <1>2, <2>1, <3>1, SetMoves DEF Running
    <3>3. brk' \in Breaker /\ brk'.state = "half_open"
      BY <1>1, <3>1, BreakerSteps
    <3>4. QED
      BY <2>1, <2>3, <3>2, <3>3 DEF BreakerKept
  <2>4. QED
    BY <2>2, <2>3
<1>6. CASE TryAgain(c) \/ GeminiTryAgain(c)
  <2>1. /\ call[c].pc = "trying" /\ UNCHANGED <<client, n, brk, answer>>
        /\ call[c].attempt < MaxAttempts \/ call[c].attempt < GeminiAttempts
        /\ Set(c, "trying", call[c].attempt + 1, "none")
    BY <1>6 DEF TryAgain, GeminiTryAgain
  <2>2. call[c].attempt + 1 \in 0..(MaxAttempts + GeminiAttempts)
    BY <1>2, <2>1, Sizes
  <2>3. \E new : Moves(c, new)
    BY <1>1, <2>1, <2>2, SetMoves DEF Running
  <2>4. QED
    BY <1>1, <1>3, <2>1, <2>3
<1>7. CASE Stamp(c)
  <2>1. /\ call[c].pc \in {"stamping", "resetting"} /\ UNCHANGED <<client, n, answer>>
        /\ Set(c, "done", call[c].attempt, call[c].out)
    BY <1>7 DEF Stamp
  <2>2. \E new : Moves(c, new)
    BY <1>1, <1>2, <2>1, SetMoves DEF Call
  <2>3. brk' \in Breaker /\ brk'.opened = "fresh" /\ brk'.state = brk.state
    <3>1. 0 \in 0..(SuccessThreshold - 1)
      BY Sizes
    <3>2. QED
      BY <1>1, <1>7, <3>1 DEF Stamp, Breaker
  <2>4. QED
    BY <2>2, <2>3 DEF BreakerKept
<1>8. ASSUME NEW out \in {"ok", "unparseable"}, Answered(c, out) \/ GeminiAnswered(c, out)
      PROVE  brk' \in Breaker /\ \E new : Moves(c, new) /\ BreakerKept(c, new)
  <2>1. /\ call[c].pc = "trying" /\ UNCHANGED <<client, n, answer>>
        /\ Set(c, "done", call[c].attempt, out) /\ (RecordSuccess \/ UNCHANGED brk)
    BY <1>8 DEF Answered, GeminiAnswered
  <2>2. \E new : Moves(c, new)
    BY <1>1, <1>2, <2>1, SetMoves DEF Failures
  <2>3. brk' \in Breaker /\ (brk'.state = "open" => brk.state = "open" /\ brk'.opened = brk.opened)
    BY <1>1, <2>1, BreakerSteps
  <2>4. brk.state = "open" => brk'.state # "half_open"
    BY <1>1, <2>1 DEF RecordSuccess, Breaker
  <2>5. QED
    BY <2>1, <2>2, <2>3, <2>4 DEF BreakerKept
<1>9. ASSUME NEW out \in {"timeout", "unavailable"}, Fail(c, out)
      PROVE  brk' \in Breaker /\ \E new : Moves(c, new) /\ BreakerKept(c, new)
  <2>1. /\ call[c].pc = "trying" /\ UNCHANGED <<client, n, answer>>
        /\ Set(c, PcAfterFailure, call[c].attempt, out) /\ RecordFailure
    BY <1>9 DEF Fail
  <2>2. PcAfterFailure \in {"stamping", "resetting", "done"}
    BY <1>1, BreakerSteps
  <2>3. \E new : Moves(c, new) /\ new.pc = PcAfterFailure
    BY <1>1, <1>2, <2>1, <2>2, SetMoves DEF Failures, Running
  <2>4. QED
    BY <1>1, <2>1, <2>3, BreakerSteps DEF BreakerKept
<1>10. ASSUME NEW out \in {"timeout", "unavailable"}, GeminiFail(c, out)
       PROVE  brk' \in Breaker /\ \E new : Moves(c, new) /\ BreakerKept(c, new)
  <2>1. /\ call[c].pc = "trying" /\ UNCHANGED <<client, n, brk, answer>>
        /\ Set(c, "done", call[c].attempt, out)
    BY <1>10 DEF GeminiFail
  <2>2. \E new : Moves(c, new)
    BY <1>1, <1>2, <2>1, SetMoves DEF Failures
  <2>3. QED
    BY <1>1, <1>3, <2>1, <2>2
<1>11. QED
  BY <1>4, <1>5, <1>6, <1>7, <1>8, <1>9, <1>10 DEF Step, Finish

\* Chunks and their parts are those of the scan, whatever its requests do.
LEMMA SameChunks ==
    ASSUME n' = n
    PROVE  /\ Chunks' = Chunks /\ Files' = Files
           /\ \A k : Chunk(k)' = Chunk(k) /\ \A p : Part(k, p)' = Part(k, p)
<1>1. Chunks' = Chunks /\ Files' = Files
  BY DEF Chunks, NumChunks, Files
<1>2. ASSUME NEW k PROVE First(k)' = First(k) /\ Last(k)' = Last(k) /\ Mid(k)' = Mid(k)
  BY DEF First, Last, Mid
<1>3. ASSUME NEW k PROVE Chunk(k)' = Chunk(k) /\ \A p : Part(k, p)' = Part(k, p)
  BY <1>2 DEF Chunk, Part
<1>4. QED
  BY <1>1, <1>3

\* The half that a file of a split chunk is in failed, and the other did not.
Forgotten(f) == \E k \in Chunks, p \in {"left", "right"}, q \in {"left", "right"} :
                    /\ f \in Part(k, p) /\ call[<<k, p>>].out = "unparseable"
                    /\ call[<<k, q>>].out = "ok"

LEMMA SameAnswer ==
    ASSUME AnswerIsLast, n' = n, call' = call, answer' = answer
    PROVE  AnswerIsLast'
<1> SUFFICES ASSUME answer # NoAnswer
             PROVE  AllSettled' /\ answer \in AnalysisOutcomes(Files') /\ OnlyFailedHalvesForgotten'
  BY SameChunks DEF AnswerIsLast, NoAnswer, AnalysisOutcomes, Returned, Raised
<1>1. AllSettled /\ answer \in AnalysisOutcomes(Files) /\ OnlyFailedHalvesForgotten
  BY DEF AnswerIsLast
<1>2. AllSettled'
  BY <1>1, SameChunks DEF AllSettled, Settled, Ended, Halved
<1>3. OnlyFailedHalvesForgotten'
  <2>1. \A f \in Files : Forgotten(f)' <=> Forgotten(f)
    BY SameChunks, ZenonT(60) DEF Forgotten
  <2>2. QED
    BY <1>1, <2>1, SameChunks DEF OnlyFailedHalvesForgotten, Forgotten
<1>4. QED
  BY <1>1, <1>2, <1>3, SameChunks

\* A settled analysis has no request that could still move.
LEMMA SettledIsQuiet ==
    ASSUME IInv, AllSettled, NEW c \in Calls
    PROVE  /\ call[c].pc \in {"idle", "done"}
           /\ call[c].pc = "idle" => ~MayStart(c[1], c[2])
<1>1. PICK k \in 1..MaxFiles, p \in Parts : c = <<k, p>> /\ c[1] = k /\ c[2] = p
  BY DEF Calls
<1>2. k \in Chunks => Settled(k)
  BY DEF AllSettled
<1>3. p \in {"whole", "left", "right"}
  BY DEF Parts
<1>4. call[c].pc # "idle" => call[c].pc = "done"
  BY <1>1, <1>2, <1>3 DEF IInv, CallsHaveCause, Settled, Ended
<1>5. call[c].pc = "idle" => ~MayStart(c[1], c[2])
  BY <1>1, <1>2, <1>3 DEF MayStart, Settled, Ended, Halved
<1>6. QED
  BY <1>4, <1>5

LEMMA MovePreservesIInv ==
    ASSUME IInv, NEW c \in Calls, NEW new, Moves(c, new), BreakerKept(c, new), brk' \in Breaker
    PROVE  IInv'
<1>1. /\ call' = [call EXCEPT ![c] = new] /\ new \in Call /\ UNCHANGED <<client, n, answer>>
      /\ call \in [Calls -> Call] /\ call'[c] = new /\ \A d \in Calls \ {c} : call'[d] = call[d]
  BY DEF Moves, IInv, Working
<1>2. Working'
  BY <1>1 DEF IInv, Working
<1>3. OutcomeWhenAnswered'
  BY <1>1 DEF IInv, OutcomeWhenAnswered, Moves
<1>4. CallsHaveCause'
  <2>1. SUFFICES ASSUME NEW k \in 1..MaxFiles, NEW p \in Parts, call'[<<k, p>>].pc # "idle"
                 PROVE  /\ k \in Chunks'
                        /\ p # "whole" => Halved(k)' /\ Ended(<<k, "whole">>)'
    BY DEF CallsHaveCause
  <2>2. <<k, p>> \in Calls /\ <<k, "whole">> \in Calls
    BY DEF Calls, Parts
  <2>3. /\ k \in Chunks
        /\ p # "whole" => Halved(k) /\ Ended(<<k, "whole">>)
    <3>1. CASE call[<<k, p>>].pc # "idle"
      BY <3>1 DEF IInv, CallsHaveCause
    <3>2. CASE call[<<k, p>>].pc = "idle"
      <4>1. c = <<k, p>>
        BY <1>1, <2>1, <2>2, <3>2
      <4>2. MayStart(k, p)
        BY <3>2, <4>1 DEF Moves
      <4>3. QED
        BY <4>2 DEF MayStart, Halved
    <3>3. QED
      BY <3>1, <3>2
  <2>4. p # "whole" => call'[<<k, "whole">>] = call[<<k, "whole">>]
    BY <1>1, <2>2, <2>3 DEF Moves, Ended
  <2>5. QED
    BY <1>1, <2>3, <2>4, SameChunks DEF Halved, Ended
<1>5. AnswerIsLast'
  <2>1. CASE answer = NoAnswer
    <3>1. answer' = NoAnswer /\ NoAnswer' = NoAnswer
      BY <1>1, <2>1 DEF NoAnswer
    <3>2. QED
      BY <3>1 DEF AnswerIsLast
  <2>2. CASE answer # NoAnswer
    <3>1. AllSettled
      BY <2>2 DEF IInv, AnswerIsLast
    <3>2. QED
      BY <3>1, SettledIsQuiet DEF Moves
  <2>3. QED
    BY <2>1, <2>2
<1>6. OpenIsStamped'
  <2>1. SUFFICES ASSUME brk'.state = "open", brk'.opened = "never"
                 PROVE  \E d \in Calls : call'[d].pc \in {"stamping", "resetting"}
    BY DEF OpenIsStamped
  <2>2. CASE new.pc \in {"stamping", "resetting"}
    BY <1>1, <2>2
  <2>3. CASE brk.state = "open" /\ brk'.opened = brk.opened
    <3>1. PICK d \in Calls : call[d].pc \in {"stamping", "resetting"}
      BY <2>1, <2>3 DEF IInv, OpenIsStamped
    <3>2. d # c
      BY <2>1, <3>1 DEF BreakerKept
    <3>3. QED
      BY <1>1, <3>1, <3>2
  <2>4. QED
    BY <2>1, <2>2, <2>3 DEF BreakerKept
<1>7. QED
  BY <1>2, <1>3, <1>4, <1>5, <1>6 DEF IInv

-------------------------------------------------------------------------------
(***************************************************************************)
(* The answer                                                              *)
(***************************************************************************)

LEMMA Outcomes ==
    ASSUME IInv, AllSettled, NEW k \in Chunks
    PROVE  /\ TaskOutcome(k) \in {"ok", "timeout", "unavailable", "unparseable"}
           /\ \A p \in Parts : <<k, p>> \in Calls
           /\ TaskOutcome(k) = "ok" => \E p \in Parts : call[<<k, p>>].out = "ok" /\ Part(k, p) # {}
<1>1. k \in 1..MaxFiles
  <2>1. Chunk(k) \subseteq Files /\ First(k) \in Nat \ {0} /\ First(k) <= Last(k) /\ Last(k) <= n
        /\ Last(k) \in Nat /\ n \in Nat /\ k \in Nat \ {0} /\ NumChunks \in Nat /\ n <= MaxFiles
    BY PartsOfChunk, ChunkBounds, Sizes DEF IInv, Working
  <2>2. k <= (k - 1) * ChunkSize + 1
    <3>1. (k - 1) \in Nat /\ (k - 1) * 1 <= (k - 1) * ChunkSize
      BY <2>1, Sizes
    <3>2. QED
      BY <2>1, <3>1, Sizes
  <2>3. k <= n
    BY <2>1, <2>2, Sizes DEF First
  <2>4. QED
    BY <2>1, <2>3, Sizes
<1>2. \A p \in Parts : <<k, p>> \in Calls
  BY <1>1 DEF Calls
<1>3. Settled(k) /\ "whole" \in Parts /\ "left" \in Parts /\ "right" \in Parts
  BY DEF AllSettled, Parts
<1>4. \A p \in Parts : Ended(<<k, p>>) => call[<<k, p>>].out \in {"ok", "timeout", "unavailable", "unparseable"}
  BY <1>2 DEF IInv, Working, OutcomeWhenAnswered, Ended, Call, Failures
<1>5. Part(k, "whole") # {} /\ (Halved(k) => Part(k, "left") # {} /\ Part(k, "right") # {})
  BY PartsOfChunk DEF Halved, IInv, Working
<1>6. CASE Halved(k)
  <2>1. Ended(<<k, "left">>) /\ Ended(<<k, "right">>)
    BY <1>3, <1>6 DEF Settled
  <2>2. TaskOutcome(k) = HalvesOutcome(k)
    BY <1>6 DEF TaskOutcome
  <2>3. call[<<k, "left">>].out \in {"ok", "timeout", "unavailable", "unparseable"}
        /\ call[<<k, "right">>].out \in {"ok", "timeout", "unavailable", "unparseable"}
    BY <1>3, <1>4, <2>1
  <2>4. HalvesOutcome(k) \in {"ok", "timeout", "unavailable", "unparseable"}
        /\ (HalvesOutcome(k) = "ok" => call[<<k, "left">>].out = "ok" \/ call[<<k, "right">>].out = "ok")
    BY <2>3 DEF HalvesOutcome
  <2>5. QED
    BY <1>2, <1>3, <1>5, <1>6, <2>2, <2>4
<1>7. CASE ~Halved(k)
  <2>1. TaskOutcome(k) = call[<<k, "whole">>].out /\ Ended(<<k, "whole">>)
    BY <1>3, <1>7 DEF TaskOutcome, Settled
  <2>2. QED
    BY <1>2, <1>3, <1>4, <1>5, <2>1
<1>8. QED
  BY <1>6, <1>7

\* What is returned is what the pipeline was promised.
LEMMA ReturnedKeepsContract ==
    ASSUME IInv, AllSettled, TasksWith({"unavailable"}) = {}
    PROVE  AnswerReturned \in Returned(Files)
<1>1. n \in 1..MaxFiles
  BY DEF IInv, Working
<1> DEFINE A == UNION {Analysed(k) : k \in Chunks}
           P == UNION {Chunk(k) : k \in TasksWith({"timeout", "unparseable"})}
<1>2. \A k \in Chunks : Analysed(k) \subseteq Chunk(k) /\ Chunk(k) \subseteq Files
  BY <1>1, PartsOfChunk DEF Analysed
<1>3. A \subseteq Files /\ P \subseteq Files
  BY <1>2 DEF TasksWith
<1>4. A \cap P = {}
  <2>1. SUFFICES ASSUME NEW k \in Chunks, NEW j \in TasksWith({"timeout", "unparseable"}),
                        NEW f \in Analysed(k), f \in Chunk(j)
                 PROVE  FALSE
    OBVIOUS
  <2>2. j \in Chunks /\ TaskOutcome(j) # "ok" /\ TaskOutcome(k) = "ok"
    BY <2>1 DEF TasksWith, Analysed
  <2>3. QED
    BY <1>1, <1>2, <2>1, <2>2, ChunksApart
<1>5. ASSUME A = {} PROVE P = Files
  <2>1. SUFFICES ASSUME NEW f \in Files PROVE f \in P
    BY <1>3
  <2>2. PICK k \in Chunks : f \in Chunk(k)
    BY <1>1, EveryFileHasAChunk
  <2>3. TaskOutcome(k) # "ok"
    <3>1. SUFFICES ASSUME TaskOutcome(k) = "ok" PROVE FALSE
      OBVIOUS
    <3>2. PICK p \in Parts : call[<<k, p>>].out = "ok" /\ Part(k, p) # {}
      BY <3>1, Outcomes
    <3>3. Part(k, p) \subseteq Analysed(k)
      BY <3>1, <3>2 DEF Analysed
    <3>4. QED
      BY <1>5, <3>2, <3>3
  <2>4. TaskOutcome(k) \in {"timeout", "unparseable"}
    BY <2>3, Outcomes DEF TasksWith
  <2>5. QED
    BY <2>2, <2>4 DEF TasksWith
<1>6. AnswerReturned = [kind |-> "ok", analysed |-> A, partial |-> P]
  BY DEF AnswerReturned
<1> HIDE DEF A, P
<1>7. QED
  BY <1>3, <1>4, <1>5, <1>6 DEF Returned

\* A file is in one chunk and, once that is split, in one of the halves.
LEMMA EveryFileIsAccountedForOrForgotten ==
    ASSUME IInv, AllSettled, TasksWith({"unavailable"}) = {}, NEW f \in Files
    PROVE  f \in AnswerReturned.analysed \/ f \in AnswerReturned.partial \/ Forgotten(f)
<1>1. n \in 1..MaxFiles
  BY DEF IInv, Working
<1>2. PICK k \in Chunks : f \in Chunk(k)
  BY <1>1, EveryFileHasAChunk
<1>3. TaskOutcome(k) \in {"ok", "timeout", "unparseable"}
  BY Outcomes DEF TasksWith
<1>4. CASE TaskOutcome(k) # "ok"
  BY <1>2, <1>3, <1>4 DEF AnswerReturned, TasksWith
<1>5. CASE TaskOutcome(k) = "ok"
  <2>1. ASSUME NEW p \in Parts, f \in Part(k, p), call[<<k, p>>].out = "ok"
        PROVE  f \in AnswerReturned.analysed
    BY <1>5, <2>1 DEF AnswerReturned, Analysed
  <2>2. CASE ~Halved(k)
    BY <1>2, <1>5, <2>1, <2>2 DEF TaskOutcome, Part, Parts
  <2>3. CASE Halved(k)
    <3>1. /\ call[<<k, "left">>].out \in {"ok", "unparseable"}
          /\ call[<<k, "right">>].out \in {"ok", "unparseable"}
          /\ call[<<k, "left">>].out = "ok" \/ call[<<k, "right">>].out = "ok"
      BY <1>5, <2>3 DEF TaskOutcome, HalvesOutcome
    <3>2. f \in Part(k, "left") \/ f \in Part(k, "right")
      BY <1>1, <1>2, HalvesCover
    <3>3. QED
      BY <2>1, <3>1, <3>2 DEF Forgotten, Parts
  <2>4. QED
    BY <2>2, <2>3
<1>6. QED
  BY <1>4, <1>5

LEMMA ReturnPreservesIInv == ASSUME IInv, Return PROVE IInv'
<1>1. /\ AllSettled /\ answer' = Gathered /\ UNCHANGED <<client, n, brk, call>>
  BY DEF Return
<1>2. Working' /\ OutcomeWhenAnswered' /\ OpenIsStamped'
  BY <1>1 DEF IInv, Working, OutcomeWhenAnswered, OpenIsStamped
<1>3. CallsHaveCause'
  BY <1>1, SameChunks DEF IInv, CallsHaveCause, Halved, Ended
<1>4. AllSettled'
  BY <1>1, SameChunks DEF AllSettled, Settled, Ended, Halved
<1>5. Gathered \in AnalysisOutcomes(Files)
  BY <1>1, ReturnedKeepsContract DEF Gathered, AnalysisOutcomes
<1>6. OnlyFailedHalvesForgotten'
  <2>1. Gathered.kind = "ok" => Gathered = AnswerReturned /\ TasksWith({"unavailable"}) = {}
    BY DEF Gathered, Raised
  <2>2. \A f \in Files : Gathered.kind = "ok" =>
            f \in Gathered.analysed \/ f \in Gathered.partial \/ Forgotten(f)
    BY <1>1, <2>1, EveryFileIsAccountedForOrForgotten
  <2>3. \A f \in Files : Forgotten(f)' <=> Forgotten(f)
    BY <1>1, SameChunks, ZenonT(60) DEF Forgotten
  <2>4. QED
    BY <1>1, <2>2, <2>3, SameChunks DEF OnlyFailedHalvesForgotten, Forgotten
<1>7. AnswerIsLast'
  BY <1>1, <1>4, <1>5, <1>6, SameChunks DEF AnswerIsLast
<1>8. QED
  BY <1>2, <1>3, <1>7 DEF IInv

LEMMA StepPreservesIInv == ASSUME IInv, [Next]_vars PROVE IInv'
<1>1. ASSUME NEW c \in Calls, Step(c) PROVE IInv'
  BY <1>1, StepMoves, MovePreservesIInv
<1>2. CASE Answer
  BY <1>2, ReturnPreservesIInv DEF Answer, ClaudeAnswer, GeminiAnswer
<1>3. CASE Age \/ UNCHANGED vars
  <2>1. UNCHANGED <<client, n, call, answer>>
    BY <1>3 DEF Age, vars
  <2>2. /\ brk' \in Breaker
        /\ brk'.state = brk.state /\ (brk.opened # "never" => brk'.opened # "never")
    BY <1>3 DEF Age, vars, IInv, Working, Breaker
  <2>3. Working' /\ OutcomeWhenAnswered' /\ OpenIsStamped'
    BY <2>1, <2>2 DEF IInv, Working, OutcomeWhenAnswered, OpenIsStamped
  <2>4. CallsHaveCause'
    BY <2>1, SameChunks DEF IInv, CallsHaveCause, Halved, Ended
  <2>5. AnswerIsLast'
    BY <2>1, SameAnswer DEF IInv
  <2>6. QED
    BY <2>3, <2>4, <2>5 DEF IInv
<1>4. QED
  BY <1>1, <1>2, <1>3 DEF Next

-------------------------------------------------------------------------------
(***************************************************************************)
(* Theorems                                                                *)
(***************************************************************************)

\* Requests are made for a cause, have an outcome when they end, and none is
\* left when the gather of analyse_async_chunked answers.
THEOREM Invariance == Spec => []IInv
BY InitEstablishesIInv, StepPreservesIInv, PTL DEF Spec

\* Every variable of the analysis keeps its type, for scans of any size.
THEOREM TypeCorrect == Spec => []TypeOK
<1>1. IInv => TypeOK
  BY DEF IInv, Working, AnswerIsLast, TypeOK
<1>2. QED
  BY <1>1, Invariance, PTL

\* Both clients answer as the pipeline expects, and leave nothing running.
THEOREM MeetsContractHolds == Spec => []MeetsContract
<1>1. IInv => MeetsContract
  BY SettledIsQuiet DEF IInv, AnswerIsLast, MeetsContract
<1>2. QED
  BY <1>1, Invariance, PTL

\* Scans of any size and chunks of any size: the only file that an answer of
\* analyse_async_chunked forgets is one whose half failed beside a good half.
THEOREM OnlyFailedHalvesForgottenHolds == Spec => []OnlyFailedHalvesForgotten
<1>1. IInv => OnlyFailedHalvesForgotten
  BY DEF IInv, AnswerIsLast, OnlyFailedHalvesForgotten, NoAnswer
<1>2. QED
  BY <1>1, Invariance, PTL

\* _CircuitBreaker without a lock: an open breaker half-opens before its time
\* only while some thread is between opening it and stamping it.
THEOREM BreakerHoldsAlways == Spec => BreakerHolds
<1>1. ASSUME IInv, [Next]_vars, brk.state = "open", brk'.state = "half_open"
      PROVE  brk.opened = "aged" \/ \E c \in Calls : call[c].pc \in {"stamping", "resetting"}
  <2>1. brk.opened \in {"never", "fresh", "aged"}
    BY <1>1 DEF IInv, Working, Breaker
  <2>2. \E c \in Calls : Step(c)
    BY <1>1 DEF Next, Age, Answer, ClaudeAnswer, GeminiAnswer, Return, vars, IInv, Working, Breaker
  <2>3. brk.opened # "fresh"
    BY <1>1, <2>2, StepMoves DEF BreakerKept
  <2>4. QED
    BY <1>1, <2>1, <2>3 DEF IInv, OpenIsStamped
<1>2. QED
  BY <1>1, Invariance, PTL DEF Spec, BreakerHolds
===============================================================================
