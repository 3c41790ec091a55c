---------------------------- MODULE ScanRequests ----------------------------
(***************************************************************************)
(* Scan requests on one server process, from arrival to answer: POST        *)
(* /scan/local behind its admission check and semaphore                     *)
(* (agent/local_scan.py), POST /agent/scan without either (agent/api.py),   *)
(* and the transaction in which both record a scan and add its usage to     *)
(* llm_usage_monthly.                                                       *)
(*                                                                         *)
(* The handlers are coroutines: another request can run at each await, and  *)
(* another session of the database can commit between the SELECT of the     *)
(* monthly row and the COMMIT.  The pipeline is one step (ScanPipeline),    *)
(* every scan counts as one unit of usage, and the semaphore is asyncio's   *)
(* as Python 3.12 implements it.                                            *)
(***************************************************************************)
EXTENDS Naturals, Sequences, FiniteSets

CONSTANTS
    LocalScans,  \* requests to /scan/local, one scan each (BOUND)
    CiScans,     \* requests to /agent/scan, one scan each (BOUND)
    Keys,        \* primary keys of llm_usage_monthly
    Slots        \* _MAX_CONCURRENT_SCANS

Scans == LocalScans \cup CiScans

ASSUME SlotsArePositive == Slots \in Nat \ {0}
ASSUME ScansAreFinite == IsFiniteSet(Scans)
ASSUME ChannelsAreDisjoint == LocalScans \cap CiScans = {}

VARIABLES
    pc,       \* where each request is; its answer at the end
    key,      \* the monthly row each scan belongs to
    value,    \* _scan_semaphore._value
    waiters,  \* _scan_semaphore._waiters
    records,  \* scans with a committed scan_records or ci_scan_records row
    usage,    \* scans whose LLM usage a committed transaction accounts for
    monthly,  \* scan_count of the committed monthly rows; 0: no row
    seen      \* scan_count as a scan's transaction read it

vars == <<pc, key, value, waiters, records, usage, monthly, seen>>
sem == <<value, waiters>>
tables == <<records, usage, monthly>>

(***************************************************************************)
(* Types                                                                   *)
(***************************************************************************)
\* "no_report": refused, failed or too large; "unrecorded": the report of a
\* scan that could not be recorded.
Answers == {"no_report", "reported", "unrecorded", "disconnected"}

\* "recording" has LLM usage to add, "noting" has none: a result that the
\* pipeline returned early (no source files, or none within the budget).
Steps == {"new", "admitted", "waiting", "granted", "scanning", "recording", "writing",
          "noting"}

TypeOK ==
    /\ pc \in [Scans -> Answers \cup Steps]
    /\ key \in [Scans -> Keys]
    /\ value \in 0..Slots
    /\ waiters \in Seq(LocalScans)
    /\ records \subseteq Scans
    /\ usage \subseteq records
    /\ monthly \in [Keys -> Nat]
    /\ seen \in [Scans -> Nat]

Init ==
    /\ pc = [s \in Scans |-> "new"]
    /\ key \in [Scans -> Keys]
    /\ value = Slots
    /\ waiters = <<>>
    /\ records = {}
    /\ usage = {}
    /\ monthly = [k \in Keys |-> 0]
    /\ seen = [s \in Scans |-> 0]

Go(s, to) == pc' = [pc EXCEPT ![s] = to]

(***************************************************************************)
(* asyncio.Semaphore: a released slot is granted to the first waiter, who   *)
(* stays in the queue until its task has run.                              *)
(***************************************************************************)
Locked == value = 0 \/ waiters # <<>>

\* The positions of a queue whose waiters have no slot yet.
Asking(queue) == {i \in DOMAIN queue : pc[queue[i]] = "waiting"}

FirstOf(places, n) == {i \in places : Cardinality({j \in places : j < i}) < n}

\* Request s goes to `to'; of the n free slots one goes to each of the first m
\* that ask for one, and the rest stay free.
Wake(s, to, queue, n, m) ==
    LET woken == {queue[i] : i \in FirstOf(Asking(queue), m)}
    IN  /\ pc' = [r \in Scans |-> IF r = s THEN to
                                  ELSE IF r \in woken THEN "granted" ELSE pc[r]]
        /\ value' = n - Cardinality(woken)
        /\ waiters' = queue

\* Mutant of Release: a request that leaves keeps its slot.
ReleaseNothing(s, to) == Wake(s, to, waiters, value, value)

\* Mutant of Release: the slot is freed and nobody is woken.
ReleaseSilently(s, to) == Go(s, to) /\ value' = value + 1 /\ UNCHANGED waiters

Release(s, to) == Wake(s, to, waiters, value + 1, 1)

(***************************************************************************)
(* POST /scan/local                                                        *)
(***************************************************************************)

\* _check_request_size: 413 by the Content-Length alone.
TooLarge(s) ==
    /\ pc[s] = "new" /\ s \in LocalScans
    /\ Go(s, "no_report")
    /\ UNCHANGED <<key, sem, tables, seen>>

\* _check_concurrency_slot, before the token is verified.
Arrive(s) ==
    /\ pc[s] = "new"
    /\ Go(s, IF s \in LocalScans /\ Locked /\ value = 0 THEN "no_report" ELSE "admitted")
    /\ UNCHANGED <<key, sem, tables, seen>>

\* Awaits after admission, each of which can end the request: authentication
\* (401), the shape of the body, the user's settings (412) and the LLM client (422).
Refuse(s) ==
    /\ pc[s] = "admitted"
    /\ Go(s, "no_report")
    /\ UNCHANGED <<key, sem, tables, seen>>

\* After the last of them: async with _scan_semaphore.
Acquire(s) ==
    /\ pc[s] = "admitted" /\ s \in LocalScans
    /\ IF Locked
       THEN Go(s, "waiting") /\ waiters' = Append(waiters, s) /\ UNCHANGED value
       ELSE Go(s, "scanning") /\ value' = value - 1 /\ UNCHANGED waiters
    /\ UNCHANGED <<key, tables, seen>>

Without(queue, i) == SubSeq(queue, 1, i - 1) \o SubSeq(queue, i + 1, Len(queue))

\* The task of a waiter that was granted a slot runs, and passes on every slot
\* that is free.
Resume(s) ==
    /\ pc[s] = "granted"
    /\ \E i \in DOMAIN waiters :
           waiters[i] = s /\ Wake(s, "scanning", Without(waiters, i), value, value)
    /\ UNCHANGED <<key, tables, seen>>

\* pipeline.run returns or raises.  Without a report the request leaves
\* `async with' at once: TokenLimitError, scan_failed, an unavailable LLM or
\* any other exception.
LocalScanEnds(s) ==
    /\ pc[s] = "scanning" /\ s \in LocalScans
    /\ \/ Release(s, "no_report")
       \/ \E to \in {"recording", "noting"} : Go(s, to) /\ UNCHANGED sem
    /\ UNCHANGED <<key, tables, seen>>

(***************************************************************************)
(* POST /agent/scan: no admission, no semaphore.                           *)
(***************************************************************************)
CiScanStarts(s) ==
    /\ pc[s] = "admitted" /\ s \in CiScans
    /\ Go(s, "scanning")
    /\ UNCHANGED <<key, sem, tables, seen>>

\* scan_failed is streamed and not recorded; an unavailable LLM is advisory.
CiScanEnds(s) ==
    /\ pc[s] = "scanning" /\ s \in CiScans
    /\ \E to \in {"no_report", "recording", "noting"} : Go(s, to)
    /\ UNCHANGED <<key, sem, tables, seen>>

\* The client closes the stream: the generator is cancelled wherever it is.
\* The pipeline's task runs on, and nobody reads its result.
Disconnect(s) ==
    /\ s \in CiScans /\ pc[s] \in {"scanning", "recording", "writing", "noting"}
    /\ Go(s, "disconnected")
    /\ UNCHANGED <<key, sem, tables, seen>>

(***************************************************************************)
(* The transaction: _persist_scan_data and _persist_ci_scan                 *)
(***************************************************************************)
SelectMonthly(s) ==
    /\ pc[s] = "recording"
    /\ seen' = [seen EXCEPT ![s] = monthly[key[s]]]
    /\ Go(s, "writing")
    /\ UNCHANGED <<key, sem, tables>>

\* A local request ends with the semaphore released.
Answer(s, to) ==
    IF s \in LocalScans THEN Release(s, to) ELSE Go(s, to) /\ UNCHANGED sem

\* INSERT of a row somebody else has inserted since the SELECT.
Collides(s) == seen[s] = 0 /\ monthly[key[s]] # 0

\* The ORM writes the count it computed from the row it read.
NewCount(s) == seen[s] + 1

\* Mutant of CommitRows: the monthly row commits in a session of its own,
\* and the other rows can fail after it.
CommitRowsApart(s) ==
    /\ \E saved \in SUBSET {s} : records' = records \cup saved /\ usage' = usage \cup saved
    /\ monthly' = [monthly EXCEPT ![key[s]] = NewCount(s)]

CommitRows(s) ==
    /\ records' = records \cup {s}
    /\ usage' = usage \cup {s}
    /\ monthly' = [monthly EXCEPT ![key[s]] = NewCount(s)]

Commit(s) ==
    /\ pc[s] = "writing" /\ ~ Collides(s)
    /\ CommitRows(s)
    /\ Answer(s, "reported")
    /\ UNCHANGED <<key, seen>>

\* A transaction without usage does not touch the monthly row.
Note(s) ==
    /\ pc[s] = "noting"
    /\ records' = records \cup {s}
    /\ Answer(s, "reported")
    /\ UNCHANGED <<key, usage, monthly, seen>>

\* Mutant of Unsaved: /scan/local returns the report all the same.
UnsavedButReported(s) == "reported"

\* The rollback undoes every row.  /scan/local answers 500; /agent/scan logs
\* it and returns the result all the same.
Unsaved(s) == IF s \in LocalScans THEN "no_report" ELSE "unrecorded"

RollBack(s) ==
    /\ pc[s] = "writing" /\ Collides(s)
    /\ Answer(s, Unsaved(s))
    /\ UNCHANGED <<key, tables, seen>>

\* The database fails the transaction for a reason of its own.
DatabaseFails(s) ==
    /\ pc[s] \in {"recording", "writing", "noting"}
    /\ Answer(s, Unsaved(s))
    /\ UNCHANGED <<key, tables, seen>>

(***************************************************************************)
(* Specification                                                           *)
(***************************************************************************)
Record(s) == SelectMonthly(s) \/ Commit(s) \/ Note(s) \/ RollBack(s)

Handle(s) == Acquire(s) \/ Resume(s) \/ CiScanStarts(s) \/ Record(s)

ScanEnds(s) == LocalScanEnds(s) \/ CiScanEnds(s)

Next == \E s \in Scans : \/ TooLarge(s) \/ Arrive(s) \/ Refuse(s) \/ Handle(s) \/ ScanEnds(s)
                        \/ Disconnect(s) \/ DatabaseFails(s)

Spec == Init /\ [][Next]_vars

\* The event loop runs every ready task and the database answers; a scan may
\* take for ever, for the subprocess of a scanner may.
FairSpec == Spec /\ \A s \in Scans : WF_vars(Handle(s))

(***************************************************************************)
(* Properties                                                              *)
(***************************************************************************)
Holders == {s \in LocalScans : pc[s] \in {"granted", "scanning", "recording", "writing", "noting"}}

\* However requests arrive, wait, fail and finish, the slots held, granted or
\* free are exactly _MAX_CONCURRENT_SCANS: none leaks and none is used twice.
\* And a local request that sits in the queue without a slot waits for somebody:
\* no slot is free, or a waiter that has one and has yet to run passes it on.
PoolIsSound ==
    /\ value + Cardinality(Holders) = Slots
    /\ Asking(waiters) # {} => value = 0 \/ \E r \in LocalScans : pc[r] = "granted"

\* A developer's history and what the developer was told agree: a local scan
\* is in scan_records exactly if its request was answered with the report.
RecordedIffReported ==
    \A s \in LocalScans : s \in records <=> pc[s] = "reported"

\* Whatever transactions overlap, a monthly row exists exactly if a committed
\* scan of its key has usage, and it never counts more scans than there are.
MonthlyNeverOvercounts ==
    \A k \in Keys :
        LET counted == {s \in usage : key[s] = k}
        IN  monthly[k] <= Cardinality(counted) /\ (monthly[k] = 0 <=> counted = {})

\* If no scan takes for ever, each request that arrives is answered in the end:
\* no wake-up of a waiter is lost.
ArrivedAnswered ==
    (\A s \in Scans : []<>(pc[s] # "scanning")) =>
        <>[](\A s \in Scans : pc[s] \in {"new"} \cup Answers)

\* LLMUsageMonthly's comment: the portal always shows totals consistent with
\* the scan_usage rows.
MonthlyMatchesUsage ==
    \A k \in Keys : monthly[k] = Cardinality({s \in usage : key[s] = k})
==============================================================================
