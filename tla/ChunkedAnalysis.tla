--------------------------- MODULE ChunkedAnalysis ---------------------------
(***************************************************************************)
(* analyse_async_chunked of the two LLM clients: the files of a scan are    *)
(* cut into chunks, every chunk is analysed by a task, and a chunk whose    *)
(* answer does not parse is halved once.                                    *)
(*                                                                         *)
(* The requests of ClaudeClient (shared/claude/client.py) share the         *)
(* client's circuit breaker.  They run in worker threads, which can be      *)
(* switched at the calls of time.monotonic inside check and record_failure; *)
(* the breaker has no lock, so both are split there.  GeminiClient          *)
(* (shared/llm/gemini_client.py) has no breaker, tries less often and tells *)
(* only a timeout from other errors.  Backoff sleeps, the context cache,    *)
(* token usage and the findings themselves are left out; time since the     *)
(* breaker opened is before ("fresh") or after ("aged") the recovery        *)
(* timeout.                                                                 *)
(***************************************************************************)
EXTENDS Naturals, FiniteSets, LLMContract

CONSTANTS
    MaxFiles,          \* BOUND: the number of files of the largest scan
    ChunkSize,         \* CLAUDE_CHUNK_SIZE
    MaxAttempts,       \* MAX_ATTEMPTS of ClaudeClient
    GeminiAttempts,    \* MAX_ATTEMPTS of GeminiClient
    FailureThreshold,  \* CB_FAILURE_THRESHOLD
    SuccessThreshold   \* CB_SUCCESS_THRESHOLD

ASSUME Positive == {MaxFiles, ChunkSize, MaxAttempts, GeminiAttempts,
                    FailureThreshold, SuccessThreshold} \subseteq Nat \ {0}

VARIABLES
    client,   \* the client the scan was given
    n,        \* the scan has the files 1..n, in their order
    brk,      \* the circuit breaker
    call,     \* the state of each request
    answer    \* what analyse_async_chunked returned or raised

vars == <<client, n, brk, call, answer>>

(***************************************************************************)
(* Chunks and halves                                                       *)
(***************************************************************************)
Files == 1..n
NumChunks == (n + ChunkSize - 1) \div ChunkSize
Chunks == 1..NumChunks

First(k) == (k - 1) * ChunkSize + 1
Last(k) == IF k * ChunkSize <= n THEN k * ChunkSize ELSE n
Mid(k) == (Last(k) - First(k) + 1) \div 2
Chunk(k) == First(k)..Last(k)

\* The files of a request: a whole chunk or one of its halves.
Part(k, p) == CASE p = "whole" -> Chunk(k)
                [] p = "left" -> First(k)..(First(k) + Mid(k) - 1)
                [] p = "right" -> (First(k) + Mid(k))..Last(k)

Parts == {"whole", "left", "right"}
Calls == (1..MaxFiles) \X Parts

(***************************************************************************)
(* State                                                                   *)
(***************************************************************************)
Failures == {"timeout", "unavailable", "unparseable"}

Breaker == [state : {"closed", "open", "half_open"},
            failures : Nat, successes : 0..(SuccessThreshold - 1),
            opened : {"never", "fresh", "aged"}]

Call == [pc : {"idle", "checking", "trying", "stamping", "resetting", "done"},
         attempt : 0..(MaxAttempts + GeminiAttempts), out : {"none", "ok"} \cup Failures]

NotCalled == [pc |-> "idle", attempt |-> 0, out |-> "none"]
NoAnswer == [kind |-> "none", analysed |-> {}, partial |-> {}]

TypeOK ==
    /\ client \in {"claude", "gemini"}
    /\ n \in 1..MaxFiles
    /\ brk \in Breaker
    /\ call \in [Calls -> Call]
    /\ answer \in AnalysisOutcomes(Files) \cup {NoAnswer}

NewBreaker == [state |-> "closed", failures |-> 0, successes |-> 0, opened |-> "never"]

\* The secret verifier uses the same client first and leaves its breaker in
\* any state that a few answers can lead to.
UsedBreaker ==
    [state : {"closed"}, failures : 0..(FailureThreshold - 1), successes : {0}, opened : {"never"}]
    \cup [state : {"open"}, failures : {0, FailureThreshold}, successes : {0},
          opened : {"fresh", "aged"}]
    \cup [state : {"half_open"}, failures : {0, FailureThreshold},
          successes : 0..(SuccessThreshold - 1), opened : {"aged"}]

Init ==
    /\ client \in {"claude", "gemini"}
    /\ n \in 1..MaxFiles
    /\ brk \in IF client = "claude" THEN UsedBreaker ELSE {NewBreaker}
    /\ call = [c \in Calls |-> NotCalled]
    /\ answer = NoAnswer

(***************************************************************************)
(* _CircuitBreaker                                                         *)
(***************************************************************************)

\* CB_RECOVERY_TIMEOUT_SECONDS pass since opened_at was stamped.
Age ==
    /\ brk.opened = "fresh"
    /\ brk' = [brk EXCEPT !.opened = "aged"]
    /\ UNCHANGED <<client, n, call, answer>>

HalfOpen == brk' = [brk EXCEPT !.state = "half_open", !.successes = 0]

RecordSuccess ==
    IF brk.state # "half_open" THEN brk' = [brk EXCEPT !.failures = 0]
    ELSE IF brk.successes + 1 < SuccessThreshold
         THEN brk' = [brk EXCEPT !.successes = @ + 1]
         ELSE brk' = NewBreaker

\* record_failure up to its call of the clock, and the pc that call leaves.
RecordFailure ==
    IF brk.state = "half_open" THEN brk' = [brk EXCEPT !.state = "open"]
    ELSE brk' = [brk EXCEPT !.failures = @ + 1,
                            !.state = IF brk.failures + 1 >= FailureThreshold
                                      THEN "open" ELSE @]

\* Mutant of PcAfterFailure: only a breaker that was half-open is stamped.
PcAfterFailureUnstamped == IF brk.state = "half_open" THEN "resetting" ELSE "done"

PcAfterFailure == IF brk.state = "half_open" THEN "resetting"
                  ELSE IF brk.failures + 1 >= FailureThreshold THEN "stamping"
                  ELSE "done"

(***************************************************************************)
(* _call_with_retry, Claude's                                              *)
(***************************************************************************)
Ended(c) == call[c].pc = "done"
Set(c, pc, attempt, out) ==
    call' = [call EXCEPT ![c] = [pc |-> pc, attempt |-> attempt, out |-> out]]

\* A chunk's request starts with its task; its halves after it did not parse.
MayStart(k, p) ==
    /\ k \in Chunks
    /\ call[<<k, p>>].pc = "idle"
    /\ p # "whole" => /\ call[<<k, "whole">>].out = "unparseable"
                      /\ Ended(<<k, "whole">>)
                      /\ Cardinality(Chunk(k)) > 1

\* check: a breaker that is not open lets the request through.
Start(k, p) ==
    /\ client = "claude" /\ MayStart(k, p)
    /\ IF brk.state = "open" THEN Set(<<k, p>>, "checking", 0, "none")
                             ELSE Set(<<k, p>>, "trying", 1, "none")
    /\ UNCHANGED <<client, n, brk, answer>>

\* check, after the clock: short-circuit, or half-open as the state was open
\* when it was read.
Check(c) ==
    /\ call[c].pc = "checking"
    /\ IF brk.opened = "fresh"
       THEN Set(c, "done", 0, "unavailable") /\ UNCHANGED brk
       ELSE Set(c, "trying", 1, "none") /\ HalfOpen
    /\ UNCHANGED <<client, n, answer>>

\* A parsable answer, or one that parse_findings rejects; either is a success
\* of the request.
Answered(c, out) ==
    /\ client = "claude" /\ call[c].pc = "trying"
    /\ RecordSuccess
    /\ Set(c, "done", call[c].attempt, out)
    /\ UNCHANGED <<client, n, answer>>

\* 429, 5xx or a lost connection: sleep and try again while attempts are left.
TryAgain(c) ==
    /\ client = "claude" /\ call[c].pc = "trying"
    /\ call[c].attempt < MaxAttempts
    /\ Set(c, "trying", call[c].attempt + 1, "none")
    /\ UNCHANGED <<client, n, brk, answer>>

\* A timeout, another status, or the last attempt has failed too.
Fail(c, out) ==
    /\ client = "claude" /\ call[c].pc = "trying"
    /\ RecordFailure
    /\ Set(c, PcAfterFailure, call[c].attempt, out)
    /\ UNCHANGED <<client, n, answer>>

\* The rest of record_failure: opened_at, and after half-open the counters.
Stamp(c) ==
    /\ call[c].pc \in {"stamping", "resetting"}
    /\ brk' = IF call[c].pc = "stamping" THEN [brk EXCEPT !.opened = "fresh"]
              ELSE [brk EXCEPT !.opened = "fresh", !.failures = 0, !.successes = 0]
    /\ Set(c, "done", call[c].attempt, call[c].out)
    /\ UNCHANGED <<client, n, answer>>

(***************************************************************************)
(* _complete_async, Gemini's                                               *)
(***************************************************************************)
GeminiStart(k, p) ==
    /\ client = "gemini" /\ MayStart(k, p)
    /\ Set(<<k, p>>, "trying", 1, "none")
    /\ UNCHANGED <<client, n, brk, answer>>

GeminiAnswered(c, out) ==
    /\ client = "gemini" /\ call[c].pc = "trying"
    /\ Set(c, "done", call[c].attempt, out)
    /\ UNCHANGED <<client, n, brk, answer>>

\* Any error whose name does not say timeout, while attempts are left.
GeminiTryAgain(c) ==
    /\ client = "gemini" /\ call[c].pc = "trying"
    /\ call[c].attempt < GeminiAttempts
    /\ Set(c, "trying", call[c].attempt + 1, "none")
    /\ UNCHANGED <<client, n, brk, answer>>

GeminiFail(c, out) ==
    /\ client = "gemini" /\ call[c].pc = "trying"
    /\ out = "unavailable" => call[c].attempt = GeminiAttempts
    /\ Set(c, "done", call[c].attempt, out)
    /\ UNCHANGED <<client, n, brk, answer>>

(***************************************************************************)
(* _analyse_with_halving_retry and analyse_async_chunked                   *)
(***************************************************************************)
\* Mutant of Halved: a chunk of a single file is waited for as if halved.
HalvedAlways(k) == call[<<k, "whole">>].out = "unparseable"

Halved(k) == call[<<k, "whole">>].out = "unparseable" /\ Cardinality(Chunk(k)) > 1

Settled(k) == /\ Ended(<<k, "whole">>)
              /\ Halved(k) => Ended(<<k, "left">>) /\ Ended(<<k, "right">>)

\* Mutant of HalvesOutcome: a half that parsed covers for whatever the other raised.
HalvesOutcomeOfTheBetter(k) ==
    LET left == call[<<k, "left">>].out
        right == call[<<k, "right">>].out
    IN  IF left = "ok" \/ right = "ok" THEN "ok" ELSE left

\* The first half that raised anything but a parse error decides; two parse
\* errors are one; a single parse error is forgotten.
HalvesOutcome(k) ==
    LET left == call[<<k, "left">>].out
        right == call[<<k, "right">>].out
    IN  IF left \notin {"ok", "unparseable"} THEN left
        ELSE IF right \notin {"ok", "unparseable"} THEN right
        ELSE IF left = "unparseable" /\ right = "unparseable" THEN "unparseable"
        ELSE "ok"

TaskOutcome(k) == IF Halved(k) THEN HalvesOutcome(k) ELSE call[<<k, "whole">>].out

Analysed(k) ==
    IF TaskOutcome(k) # "ok" THEN {}
    ELSE UNION {Part(k, p) : p \in {q \in Parts : call[<<k, q>>].out = "ok"}}

TasksWith(outs) == {k \in Chunks : TaskOutcome(k) \in outs}

\* Mutant of AnswerReturned: only a timeout marks the files of its chunk.
AnswerWithTimeoutsOnly ==
    [kind |-> "ok",
     analysed |-> UNION {Analysed(k) : k \in Chunks},
     partial |-> UNION {Chunk(k) : k \in TasksWith({"timeout"})}]

AnswerReturned ==
    [kind |-> "ok",
     analysed |-> UNION {Analysed(k) : k \in Chunks},
     partial |-> UNION {Chunk(k) : k \in TasksWith({"timeout", "unparseable"})}]

\* Only the fast path (one chunk) lets a timeout out.
Gathered ==
    IF TasksWith({"unavailable"}) # {} THEN Raised("unavailable")
    ELSE IF NumChunks = 1 /\ TaskOutcome(1) = "timeout" THEN Raised("timeout")
    ELSE AnswerReturned

\* gather(return_exceptions=True) waits for every task.
AllSettled == \A k \in Chunks : Settled(k)

Return ==
    /\ answer = NoAnswer
    /\ AllSettled
    /\ answer' = Gathered
    /\ UNCHANGED <<client, n, brk, call>>

\* The two clients have the same function.
ClaudeAnswer == client = "claude" /\ Return
GeminiAnswer == client = "gemini" /\ Return
Answer == ClaudeAnswer \/ GeminiAnswer

(***************************************************************************)
(* Specification                                                           *)
(***************************************************************************)
Finish(c) == \/ \E out \in {"ok", "unparseable"} : Answered(c, out) \/ GeminiAnswered(c, out)
             \/ \E out \in {"timeout", "unavailable"} : Fail(c, out) \/ GeminiFail(c, out)

Step(c) == \/ Start(c[1], c[2]) \/ Check(c) \/ TryAgain(c) \/ Stamp(c)
           \/ GeminiStart(c[1], c[2]) \/ GeminiTryAgain(c)
           \/ Finish(c)

Next == Age \/ (\E c \in Calls : Step(c)) \/ Answer

Spec == Init /\ [][Next]_vars

\* Worker threads run, Claude's requests have a timeout, and the event loop
\* starts tasks and resumes the gather.  DEFAULT_TIMEOUT_SECONDS reaches only
\* the message of Gemini's timeout, so its requests may never return.
FairSpec == /\ Spec /\ WF_vars(Answer)
            /\ \A c \in Calls :
                 WF_vars(Step(c) /\ (client = "gemini" => call[c].pc # "trying"))

(***************************************************************************)
(* Properties                                                              *)
(***************************************************************************)

\* Whatever fails, in whatever order, the pipeline gets one of the answers it
\* is written for: no file both analysed and unscanned, and if nothing could
\* be read every file is named as unscanned.  And the answer is final: no
\* request of the scan still runs behind it, to spend tokens or to move the
\* breaker.
MeetsContract ==
    answer # NoAnswer => /\ answer \in AnalysisOutcomes(Files)
                         /\ \A c \in Calls : call[c].pc \in {"idle", "done"}

\* An open breaker lets requests through again only after the recovery timeout,
\* or in the moment between opening it and stamping the time, when it counts
\* from an older stamp or from zero.
BreakerHolds ==
    [][brk.state = "open" /\ brk'.state = "half_open" =>
         \/ brk.opened = "aged"
         \/ \E c \in Calls : call[c].pc \in {"stamping", "resetting"}]_vars

\* In whatever combination the chunks and their halves time out, stay
\* unparseable or find no server, a returned answer forgets a file, neither
\* analysed nor unscanned, in one case only: its half of a chunk still did not
\* parse after the split while the other half did.
OnlyFailedHalvesForgotten ==
    answer.kind = "ok" =>
        \A f \in Files \ (answer.analysed \cup answer.partial) :
            \E k \in Chunks, p \in {"left", "right"}, q \in {"left", "right"} :
                /\ f \in Part(k, p) /\ call[<<k, p>>].out = "unparseable"
                /\ call[<<k, q>>].out = "ok"

\* The first pass always ends, breaker open or not, unless it hangs on a request
\* that Gemini never answers.
AnalysisEnds ==
    \/ <>(answer # NoAnswer)
    \/ <>[](client = "gemini" /\ \E c \in Calls : call[c].pc = "trying")

\* "Parse error survived halve-retry. Mark this chunk's files partial rather
\* than failing the whole scan": a returned answer accounts for every file.
EveryFileAccountedFor ==
    answer.kind = "ok" => answer.analysed \cup answer.partial = Files
==============================================================================
