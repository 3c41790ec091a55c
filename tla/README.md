# TLA+ models of the security scanner

The repository is a service that scans source code for vulnerabilities before
it is deployed. A developer (command line, `/scan/local`) or a CI job
(`/agent/scan`) sends code; a pipeline strips secrets, asks an LLM and a set of
scanner programs, verifies what they say, and passes, blocks or advises. A
blocked job may be bypassed, and the suggested fixes become a pull request.
Around it are a registry of per-developer tokens, accounts, a portal and an
admin panel over one PostgreSQL database. Paths below are relative to
`src/src/security_scanner/` unless they start with `src/`.

- [The system](#the-system): inventory of components
- [The modules](#the-modules): how state and actions correspond to the code
- [The runs](#the-runs): what each shows, bounds, fairness
- [The proofs](#the-proofs)
- [Disagreements between code and documentation](#disagreements)
- [Not modelled](#not-modelled)
- [Plan](#plan)

## The system

| component | code | state | hard behaviour | what makes it correct | module |
|---|---|---|---|---|---|
| Token registry | `tokens/registry.py`, `tokens/models.py`, `src/alembic/versions/0001_init.py` | `local_scan_tokens`, `users`, `audit_events` | concurrent READ COMMITTED sessions, row locks, a partial unique index, a request dying between flush and commit | lookups are never ambiguous, a prefix keeps one owner, a dead secret never authenticates, the audit trail explains the table, a writer never hangs | `TokenRegistry`, `TokenLease` |
| Accounts, sessions, Okta | `tokens/auth.py`, `tokens/okta.py`, `tokens/portal.py`, `tokens/admin_panel.py` | `users`, signed cookies | four ways to create one account at once, admins acting on each other, cookies stamped in seconds | a protected admin stays one, providers do not take over each other's accounts, a session from before a reactivation is dead | `Accounts` |
| Settings, CI tokens, retention | `tokens/admin_panel.py`, `tokens/portal.py`, `main.py` | append-only settings tables, a user's LLM row, `ci_tokens`, stored reports, the purge loop | read-modify-insert by several admins and tabs, a purge that fails | only overlapping saves and the advanced page lose anything, tabs save in order, old reports go | `Settings` |
| LLM clients | `shared/claude/client.py`, `shared/llm/gemini_client.py` | circuit breaker, open requests | worker threads on an unlocked breaker, partial failure of chunks, retries | an answer of the agreed kind, nothing running behind it, an open breaker stays open | `ChunkedAnalysis`, `LLMContract` |
| Pipeline, verifiers, gate | `pipeline.py`, `shared/verification/`, `shared/severity/mapping.py` | one run: files, secrets, candidates, flags | early returns, swallowed exceptions, verifiers overwriting each other, two concurrent tasks | a block is justified, a pass is clean, nothing is dropped silently | `ScanPipeline` |
| Scan requests | `agent/local_scan.py`, `agent/api.py` | the semaphore, `scan_records`, `scan_usage`, `llm_usage_monthly` | queueing, lost client, failing transactions | no slot leaks, no wake-up is lost, what is recorded agrees with what was answered | `ScanRequests` |
| Scanner subprocesses | `shared/scanners/` | subprocess slots, workspaces | scans sharing four slots, a subprocess that hangs, dies or fills its pipe | slots come back, no subprocess is left behind | `ScannerRunner` |
| Deployment gate | `agent/auth.py`, `agent/oidc.py`, `agent/api.py`, `agent/slack_alert.py`, `shared/llm/factory.py`, `src/scripts/run_gate.sh` | the key cache, the settings, one job | keys rotate and GitHub fails, settings change under a scan, connections break, the script cannot read an answer | the door follows the keys, a blocked job needs a bypass, usage is booked where it arose | `DeploymentGate` |
| Command line client | `skill/local_cli.py`, `skill/local_files.py` | `config.yaml`, its temporary twin, two report files | several terminals, a browser between login and server, 429 and timeouts, a process that dies between two writes | the live token is not lost in silence, the exit code is true, the reports agree | `LocalCli` |
| Auto-fix pull requests | `src/scripts/lib/safe_apply.py`, `src/scripts/open_fix_pr.sh` | files of a clone, the security branch, numbered reports | overlapping fixes, shifting lines, a forced push | fixes compose, the floor holds, every finding is listed, reports survive a push | `FixApply`, `FixBranch` |

Components without a module of their own, and why, are under
[Not modelled](#not-modelled).

**Interactions.** Portal, admin panel and `/scan/local` share the token and
account tables: every request has a database session of its own, and they meet
only in what is committed, in row locks and in unique indexes. `/scan/local`
authenticates with `verify`, takes a slot of the process's semaphore, runs the
pipeline in the same coroutine and records the result before it gives the slot
back. `/agent/scan` authenticates with a GitHub token or a static one, builds
the client from the latest settings, runs the pipeline as a task whose events it
streams, and reads the settings again to book the usage. The pipeline awaits an
LLM client and the scanner layer side by side (`asyncio.gather`), then the
verifiers one after the other. The Claude client runs each blocking request in
a worker thread; all of them share the circuit breaker.

## The modules

```
TokenLease  <--refines-- TokenRegistry                 <-- MCTokenRegistry, TokenProofs
            <--INSTANCE- LocalCli                      <-- MCLocalCli, TokenProofs
LLMContract <--keeps to-- ChunkedAnalysis              <-- ChunkedAnalysisProofs
            <--relies on- ScanPipeline                 <-- ScanPipelineProofs
ScannerRunner  --is one step of--> ScanPipeline        <-- ScannerRunnerProofs
ScanPipeline   --is one step of--> ScanRequests        <-- ScanRequestsProofs
               --is one step of--> DeploymentGate      <-- MCDeploymentGate, CiProofs
FixApply       <--EXTENDS-- FixBranch                  <-- MCFixBranch, CiProofs
Accounts                                               <-- MCAccounts, AccountsProofs
Settings                                               <-- SettingsProofs
```

Three contracts join models. `LLMContract`: `ChunkedAnalysis` shows
(`MeetsContract`) that either client answers with a member of
`AnalysisOutcomes(files)`, and `ScanPipeline` lets its first pass answer with
any member, and no other. `TokenLease`: the registry implements it, and
`LocalCli` has it for its server, so that what the command line can rely on is
what the registry gives. And a run of `ScanPipeline` is one step of
`ScanRequests` and of `DeploymentGate`, with every end it can have.

### TokenRegistry and TokenLease

| TLA+ | code |
|---|---|
| `rows` | committed rows of `local_scan_tokens`; the index `RowId` stands for the primary key and for the secret hashed in the row |
| `active` | `users.is_active` |
| `txn[t]` | a request's session: what it has read (`cur`) and whether its revocation is flushed |
| `ver[v]` | an authentication between its two SELECTs |
| `audit[i]` | committed audit events about row i |
| `RowLocked`, `UserLocked` | locks held by open sessions: uncommitted writes are seen by nobody, and show as locks only |
| `IndexAllows` | the partial unique index `(user_email) WHERE revoked_at IS NULL` |

A request is split exactly where another session's commit can come between:
at its SELECT, at the flushed UPDATE, and at the INSERT that commits with its
audit events. The portal path takes the user's row first (`upsert_user`), the
CLI callback does not, and force-rotation selects twice; three actions for
that reason. `Abort` is a request that dies at any point.

`TokenLease` is the promise with no sessions in it: each secret is minted once
and for one person, minting ends that person's previous token, and a token
that ended is dead for good. `RefinesLease` is the refinement, with `owner` the
user of each row and `live` the active rows.

A prefix that is drawn (`tokens/registry.py:225`, 48 random bits, not compared
with the table) is assumed to be new. `PrefixHasOneOwner` is about the ones that
rotations hand on (line 215).

### Accounts

`users` are the committed rows, `cookie[s]` the `portal_session` of a client and
`req[s]` its open request. A row is created by a first login with a password
(`InsertLogin`), by Okta (`OktaInsert`), by the gateway's header (`Provision`)
and by an upsert of the token routes (`Upsert`); each is cut between the SELECT
that found nothing and the INSERT, which the primary key and the unique
`okta_user_id` may refuse (`CanInsert`). An admin operation is cut between the
check of the caller, the role check with the guard for protected addresses
(`Authorize`) and the commit (`Act`), which reads the target's row again.

The clock runs in ticks, some of them to a second. A cookie has the second in
which it was signed (`Stamp`), a row the tick of its reactivation, and the check
in `Admitted` compares the two. `at` remembers when a cookie was really signed;
no guard reads it.

### Settings

`rows` are the append-only tables `scanner_settings` and `org_settings`. A saved
section is the number of the save that posted it; `base` is the latest row the
request had read. So "the save kept the other sections" is a comparison of
numbers. `ReadLatest` and `InsertRow` are the two halves of each page, and the
pages differ in the sections they post. The advanced form is one step, for its
handler reads no row: it writes what it is given, and what it is not given as a
default. Its page has no field for the retention
(`src/src/security_scanner/tokens/templates/admin_advanced_settings.html:283`
refers to the maintenance page), so that a save of it makes the retention 0
(`tokens/admin_panel.py:1251`); a client that posts the field as well keeps it.

`llm` is a user's own row of `user_llm_settings`, and the clients may be tabs of
that user. `UserForm` updates the row in place, and the ORM writes the columns
that differ from the row `OpenUserForm` read: never the key if it is blank, and
not the provider if it is the one that was read. What keeps two tabs from
comparing with a row that the other replaces is `upsert_user`, which stamps the
users row before that SELECT; its flushed UPDATE holds the row's lock to the end
of the transaction (`MayLockUser`). `posted` is what the saves posted, in the
order of their commits.

A rotation of the CI token selects, flushes the revocation and inserts in three
steps.
`loop` is `_report_retention_loop` with its `except Exception`; `Restart` is a
new process, which purges at once.

### ChunkedAnalysis

`brk` is `_CircuitBreaker`, `call` the requests (each chunk, whole or a half),
`client` which of the two clients is used: Gemini has no breaker and no halves.
`check` and `record_failure` are split at their calls of `time.monotonic`: a
thread can be switched there, and the breaker has no lock, so another request
may change it between the state that was read and the field that is written.
Chunks and halves are computed from the number of files as the code does.
`answer` is what the gather returns or raises.

The initial breaker is anything the secret verifier, which uses the same
client first, can leave. An unparseable answer (`ClaudeResponseError`) is
either halved or, where the code no longer halves, turned by the client into a
partial answer; it never leaves the client, so `LLMContract` has no such outcome
and the `except ClaudeResponseError` of the pipeline has no step in
`ScanPipeline`.

### ScanPipeline

`pc` follows the numbered steps of `run`; the actions have their names. What
GitHub, the model and the scanners say is a free choice at the step that asks;
a setting that is read once is a choice at that step. `layer1` is the scanner
task, which ends on its own or never. `hist` is not in the code: it remembers
what steps saw (hits, candidates, verdicts, trimmed and analysed files) so
that a property can compare the result with it; no guard but the domain of the
verdicts, which are asked of the candidates found, reads it. Exceptions that the
code does not catch (`Crash`) and those it turns into a result (`ScanFailed`) are
two different ends.

### ScanRequests

`value` and `waiters` are `asyncio.Semaphore` (Python 3.12): a release grants
the slot to the first waiter, who stays in the queue, and keeps newcomers out
of the fast path, until its task runs (`Wake`, `Resume`). `Arrive` is
`_check_concurrency_slot`, which looks at the semaphore long before `Acquire`
takes it. `seen` is `scan_count` as a transaction read it; `Commit` writes the
number computed from it. Every path on which the code leaves `async with` is an
action that releases. `usage` and `records` remember which scans the committed
rows account for.

### ScannerRunner

| TLA+ | code |
|---|---|
| `layer[s]` | a call of `run_layer1`; its workspace exists while it is `"scanning"` |
| `free`, `queue` | `_SUBPROCESS_SEM`, one for all scans |
| `call[c]` | the coroutine `run_scanner` of one adapter: the two reads that `gather` awaits inside `wait_for`, then `proc.wait` after them (`"waiting"`) or after the kill (`"reaping"`) |
| `proc[c]` | the subprocess: what it has still to write, what lies unread in its pipe |

`ReadStdout` is one `StreamReader.read(n)`: it returns what has arrived, and
the report is read once. The semaphore has the two steps of asyncio: `Release`
grants the slot to the first waiter (`"granted"`), whose task runs in `Resume`;
until then a newcomer queues even if a slot is free (`Locked`), and `Resume`
wakes those that queue behind it for the slots freed meanwhile. `queue` are the
waiters that have no slot. The pipe and the reader's buffer are one buffer of
`Capacity` pieces. Only the process that `run_scanner` started is modelled;
children of its own (`npx`, semgrep) survive the kill. A wait for a process that is dead ends;
Python before 3.12 can miss that end while the reader is paused, which would
only add to the hang found below.

### DeploymentGate

A job posts a scan with a token, waits, and reads the decision; `Stops` is the
`case` of `src/scripts/run_gate.sh`. An answer may be one the script cannot read
(`readable`): it passes the answer to Python as an argument, which Linux limits to
128 KiB, and when Python fails in the here-document the decision is empty,
`set -e` does not see it, and the job proceeds. `cache` is `_JwksCache` (its keys, and
whether they are within the TTL); its lock makes a lookup one step (`Lookup`).
`published`, `retired` and `up` are GitHub's side. `GetPipeline` builds the
client from the settings row that is then the latest, `ChooseProvider` replaces
it for a request that names a provider, and `Persist` reads the settings again
(`BookedAs`). `AskBypass` is the workflow that sends the result of a blocked scan
to `/agent/bypass`. `bookedRow` and `row` remember which settings a step saw, and
`blocked` that the pipeline once said so.

### LocalCli

`Commands` are invocations of `phrase-sec-scan`, `process[c]` where each is.
The browser holds redirects on their way to a listening login (`redirects`) and
pages that show a token (`shown`). `WriteTmp` and `Replace` are the two halves of
`_save_config`: all processes write the same temporary file. `Dies` ends a process
anywhere with exit code 1: a signal, or an exception that nobody catches, such as
a full disk or an answer that is no JSON. A temporary file whose writing failed
half way is `Torn`; if another login puts it in place, the config has no token
that can be read (`Replaced`). `Accepted`, `Busy`, `ScanEnds` are the server's
side of a scan; `Receive` and `TimesOut` what the client sees of it. A scan
writes two reports one after the other, the second only if the server sent a
page (`WriteHtml`); `report.single` has the commands that ended with the first
alone. `overlaps` is history: which of the things that two processes can do at
once have happened.

A 502 of the server is a failed scan. A gateway in front of it that answers 502
by itself makes the command exit with 3 as well (`skill/local_cli.py:375`); it is
not modelled.

### FixApply and FixBranch

`FixApply` is `classify_and_apply` as functions: a line is known by whose it is
(the file's, or a finding's block) and by what the regular expressions tell
apart. They are searched in the joined text of some lines, so a forbidden pattern
may be one line (`"weak"`) or two that meet (`"head"`, `"tail"`), and a mitigation
anywhere in the text excuses it (`"shield"`): `Dangerous` and `IsBad`. One rule
stands for the list, which the code goes through rule by rule. Two names of one
file are two files. `Queued` is the part of the gauntlet before a file is read, `Try` one
splice with its refusals, applied from the bottom up (`BottomUp`). The loop over
the fixes of a file is a recursive function of the set of fixes tried so far
(`PatchFile`), whose last one is `LastOf`, so that an induction over subsets can
follow it. `Substituted` is the definition it is compared with: every range
replaced at once.

`FixBranch` runs it: `remote` has the branches with their trail of numbered
reports, `clone[c]` a working copy, `run[c]` the script there. The steps are the
script's commands that another clone can come between: fetch and checkout of the
trail, apply, self-checks, commit, forced push, pull request. Branch b + 1 is the
security branch of branch b, since a second run in the same clone starts from
the branch the first one left it on. `NoRun`, `BranchInit` and `BranchNext` have
these names because `CiProofs` extends `DeploymentGate` too; in `LocalCli` the
names begin with `Cli` for the same reason.

## The runs

All runs explore the whole state space of their instance. Every property of a
passing run is paired in `PROJECT.json` with a mutant of a definition, a bug
that one could write there, under which the run finds the property violated.
The definitions named "Mutant of ..." exist for that only.

| run | instance | distinct states | shows |
|---|---|---|---|
| `TokenRegistry` | 2 users, 3 rows, 3 prefixes, 2 writers, 1 authentication, symmetry | 168,032 | lookups unambiguous, one owner per prefix, audit explains table, dead secrets refused, refinement of `TokenLease` |
| `TokenRegistryLive` | 1 user, 2 rows, 2 writers, no symmetry | 4,360 | `RequestsFinish`: every writing request ends |
| `Accounts` | 1 protected and 1 ordinary address, 1 person at Okta, 2 clients, 2 ticks, 2 of them to a second | 1,480,018 | protected accounts stay active admins, providers keep their accounts, old sessions stay out |
| `Settings` | 2 admins or tabs, 1 organisation key, 1 report, 3 saves, 2 rows of each table | 427,220 | only overlapping saves lose a section and only the advanced page resets one, tabs save in order, only overlapping rotations leave a token active, old reports go |
| `ChunkedAnalysis` | 1 to 3 files, chunks of 2, 2 attempts, thresholds 3 and 2, both clients | 118,816 | contract with nothing running behind the answer, a file is forgotten in one case only, the breaker holds, termination |
| `ScanPipeline` | 2 files, 2 hits, 1 model finding, 1 scanner finding, both clients | 389,344 | justified block, clean pass, nothing dropped, truthful unscanned list, termination |
| `ScanRequests` | 4 local requests, 1 CI request, 2 slots, 1 monthly row | 194,483 | slots conserved and no waiter forgotten, recorded iff reported, no overcount, every request that arrives is answered |
| `ScannerRunner` | 2 scans of 2 adapters, 2 slots, reports of 0 to 3 pieces, buffers of 1 | 557,563 | slots conserved, no subprocess left behind, the pass ends unless a call is stuck in the wait without timeout |
| `DeploymentGate` | 2 jobs, 2 keys, 1 save, symmetry | 2,338,460 | the door follows the keys, a blocked job deploys only through a bypass or unread, misbooking only by the three named causes |
| `LocalCli` | 3 commands, 3 secrets, symmetry | 280,991 | the live token is not lost in silence, the exit code is true, the reports agree |
| `FixBranch` | 2 clones, 2 runs, files of 3 or 4 lines, reports of 2 or 3 findings, human-review posture | 767,578 | every finding listed, disjoint fixes compose, the floor holds, a push keeps the trail it fetched |
| `ChunkedAnalysisLost` | 2 files in one chunk | | a violation, see [below](#disagreements) |

**Why the bounds are enough.** Two writers and one authentication already give
every pairwise interleaving, which is where every condition of the registry
looks (a lock, an index entry, a stale read concern two sessions at most);
three rows allow a rotation of a rotation and two people; and the theorems hold
for every number of each. The registry's runs start from an empty table and
from tables with tokens that never expire. Three files in chunks of two give a
full chunk that can be halved and a last chunk that cannot; the four requests of
such a scan, on breakers already used, reach both thresholds. The pipeline
relates at most one model finding with one scanner finding, a secret the
verifier may reject with one it may not, and a file left out with a file read; a
run with more of each has no decision that looks at three of them. Three local
requests on two slots are the fewest for which somebody waits, and with a fourth
one queues beside a slot that is free, because a waiter in front of it was
granted its slot and has not run; with the CI request, which never queues, a
transaction overlaps any other. Two scanner slots for four calls make calls of
one scan wait for those of another, and leave a slot free beside a call that was
granted its own and has not run. A report of three pieces is the shortest
that neither a read nor a full buffer takes in.

Two clients on an account are every pair of a creation, an operation and a
login, and with half seconds a login can come before and after a reactivation
of the same second. Three saves are the fewest with which a save is lost and
then read again by a third. Two jobs are enough for one to fill the cache the
other is judged by, and two keys for one to take over from the other. Three
commands let a login start after another has rotated the token while a third is
between two steps. Two fixes can overlap, touch or shift each other, and the
third findings are there for what the exits of the gauntlet do to a file
already changed; reports of every pair of a set that covers each exit are tried
on each file. Where a bound is on a counter (ticks, saves, rows, runs), it
stands in a guard and is marked as a bound in the declaration.

`CHECK_DEADLOCK FALSE` is set where the modelled program ends: a pipeline with
its result, an analysis with its answer, a set of requests all answered, passes
that are over, jobs that are deployed or stopped. The others never stop, or
have a step that says they are finished, and their deadlock check is on.

**Fairness.**

- *Registry*: strong fairness of each session's progress. PostgreSQL queues
  lock waiters, so a session whose row is freed again and again gets it.
  Weak fairness would not do: a lock that others take in turn is not
  continuously free. Requests, expiry and aborts happen or do not.
- *Chunked analysis*: weak fairness of each request and of the gather. Worker
  threads are scheduled and every request to Claude carries a timeout. Gemini's
  client takes a timeout and does not use it (`shared/llm/gemini_client.py:88`), so
  its requests have no fairness, and `AnalysisEnds` excepts the analysis that
  waits for one for ever. The passing of the breaker's recovery time is not
  assumed.
- *Pipeline*: weak fairness of the run's own steps with Claude, none with Gemini
  for the same reason, and none for the end of the scanners, since a scanner
  subprocess really may hang (`shared/scanners/subprocess_runner.py:130`,
  `proc.wait` is outside the timeout). `ScanEnds` is conditional on both.
- *Scan requests*: weak fairness of each handler, none for the end of a scan,
  for a lost client or for a failing database, nor for an arrival.
  `ArrivedAnswered` is conditional on scans ending.
- *Scanner runner*: weak fairness of the coroutines, of the timer of `wait_for`
  and of SIGKILL, none for a subprocess, which may hang; `Layer1Ends` is
  conditional on no call staying in the wait after its reads.
- *Settings*: weak fairness of the passing of a day, strong fairness of the two
  steps of a purge: the database may fail and the service may restart, but not
  each time a purge is due.
- *Accounts, DeploymentGate, LocalCli, FixBranch*: none; their properties are
  about what may never happen. A login, a job or a script may stop anywhere.

## The proofs

Ten specifications with their constants left open have theorems, in eight
modules: `TokenProofs` is about a token at the server and at the client,
`CiProofs` about the two components that meet a pull request. Each specification
has one inductive invariant (`IInv`, `CliIInv`, `BranchIInv`), a lemma for its
initial states, one for each kind of step, and theorems that follow.

| specification, module | assumptions | proved |
|---|---|---|
| `TokenRegistry`, `TokenProofs` | `NullsAreNew` | `TypeOK`, `NeverAmbiguous`, `PrefixHasOneOwner`, `DeadTokenNeverAccepted`, `AuditExplainsTable`, `RefinesLease` |
| `LocalCli`, `TokenProofs` | `CliAssumption` | `CliTypeOK`, `LiveTokenNotLost`, `ScanToldTruly`, `ReportsAgree`, `Server!Spec` |
| `Accounts`, `AccountsProofs` | `ProtectedAreUsers`, `TimeBounds`, `NullsAreNew`, `NullsAreNoValues` | `TypeOK`, `ProtectedStayAdmins`, `ProviderNeverChanges`, `OldSessionsStayOut` |
| `Settings`, `SettingsProofs` | `DaysAreShort`, `SavesAreBounded` | `TypeOK`, `LostOnlyByOverlapOrReset`, `TabsSaveInOrder`, `OldTokensOnlyByOverlap` |
| `ChunkedAnalysis`, `ChunkedAnalysisProofs` | `Positive` | `TypeOK`, `MeetsContract`, `OnlyFailedHalvesForgotten`, `BreakerHolds` |
| `ScanPipeline`, `ScanPipelineProofs` | `FindingsAreDistinct` | `TypeOK`, `BlockIsJustified`, `PassIsClean`, `NothingDroppedSilently`, `UnscannedIsTrue` |
| `ScanRequests`, `ScanRequestsProofs` | `SlotsArePositive`, `ScansAreFinite`, `ChannelsAreDisjoint` | `TypeOK`, `PoolIsSound`, `RecordedIffReported`, `MonthlyNeverOvercounts` |
| `ScannerRunner`, `ScannerRunnerProofs` | `SlotsAndSizes`, `CallsAreFinite` | `TypeOK`, `SlotsConserved`, `SubprocessesContained` |
| `DeploymentGate`, `CiProofs` | `StaticIsNoKey` | `TypeOK`, `MisbookedOnlyByChange`, `DoorFollowsTheKeys`, `BlockedDeploysOnlyByBypass` |
| `FixBranch`, `CiProofs` | `BranchAssumption` | `BranchTypeOK`, `EveryFindingIsListed`, `DisjointFixesCompose`, `FloorHolds`, `PushKeepsWhatItFetched` |

The assumptions say that markers for "nothing" are no ordinary values, that sets
of requests are finite and that sizes are positive, and `BranchAssumption` that
reports are sequences of findings and files sequences of lines, of any length;
TLC evaluates them in the runs. Why each invariant needs more than its properties:

- **Registry.** `NeverAmbiguous` is not inductive: that a rotation keeps the
  prefix of the row it read says nothing unless that row was the same user's.
  `IInv` adds `RowsWellFormed`, `ReadsStayOwned` (whatever was committed since,
  the row a session has read exists and is its user's), `OneActivePerUser`
  (which the index gives at each INSERT) and `PrefixHasOneOwner`. The last two
  give that a token_id has at most one active row, for which there is no index.
  `DeadTokenNeverAccepted` needs `MatchInv` on top, `AuditExplainsTable` is
  inductive relative to `IInv`, and the refinement maps a committing issue to
  `Mint`, a committing revocation to `Revoke` or, when the row was already
  revoked, to a stutter, and everything else to a stutter.
- **Accounts.** A protected account is safe only because no request that was
  authorized is about one (`ProtectedSpared`), an Okta login may use the row it
  found only because that row still is Okta's (`FoundAtOkta`, from `SubsAreOkta`),
  and a cookie is never stamped later than it was signed (`StampsPrecede`), which
  makes the comparison of whole seconds safe in the direction that matters.
- **Settings.** `LostOnlyByOverlapOrReset` takes the maximum of a set, so the
  invariant carries that there is one (`HasLast`) and that every row was copied
  from earlier rows (`LooksBack`); a save that lost nothing inherits it from the row
  it read, and the rows between are the witness of the overlap, unless one of them
  is the reset (`AdvancedFormStep`). `TabsSaveInOrder` needs `OwnSound`: one request
  at most is between its SELECT of the user's row and its commit, and the row still
  is what it read. For tokens, `RequestsLookBack`: a rotation revokes the newest
  token it saw.
- **Chunked analysis.** Five parts: what a call has is of its kind (`Working`), an
  outcome is only with a call that ended (`OutcomeWhenAnswered`), a half runs only
  after its chunk did not parse (`CallsHaveCause`), nothing moves behind the answer
  (`AnswerIsLast`), and an open breaker was stamped or somebody is about to
  (`OpenIsStamped`). Four lemmas about division show that chunks are not empty, do
  not meet, contain every file between them, and that halves are parts of them;
  they are what turns outcomes of calls into a partition of files. That the halves
  contain all of their chunk (`HalvesCover`) gives each file the call that carried
  it last, and by cases on how that call and its sibling ended the file is in the
  answer or was forgotten as `OnlyFailedHalvesForgotten` says
  (`EveryFileIsAccountedForOrForgotten`). `MeetsContract`
  is word for word what `ScanPipeline` takes of its first pass, so the two proofs
  compose.
- **Pipeline.** `Carried`: whatever was found and not rejected is still in the
  list of the step that has it; `Scanned`: what the run knows of the files it did
  not read; `Lanes` with `Vouched`: the status of a finding says no more than the
  verdicts it got, which the order of the verifiers decides; `Final`: the result
  has the four properties. That the inputs stay what they were is proved first.
- **Scan requests.** The slots add up only because the queue holds each request
  once and only those that wait or were granted (`Queue`); the count of a month
  is right only because a transaction read no more than there was. The counting
  is in lemmas about cardinalities, and that a wake-up finds the first waiter is
  an induction over the queue's positions.
- **Scanner runner.** `QueueOfWaiters`, `RunningIsAwaited` and `BusyWhileScanning`,
  with four lemmas about the cardinality of the holders: taking a slot, giving
  it back, passing it on, keeping it. A call that resumes passes slots to the first
  n of the queue at once; `QueueSplits` says that these are n calls, and that the
  rest of the queue is one of waiters.
- **Deployment gate.** `CacheIsOld` (what the cache holds was published once),
  `ClientIsBuilt` (a job's client is that of the settings it was built from) and
  `BookedAtTheEnd`. `BlockedDeploysOnlyByBypass` is about a job's past, so
  `BlockedKept` follows the job through the answer, the stop, the bypass and its
  refusals: until it is deployed its verdict is still "blocked", or a bypass has
  made it "bypassed" on its terms (`BlockedIsKept`).
- **Command line.** `LiveTokenNotLost` looks at processes that have ended, so the
  invariant says where the token is before that: `Stage` (what a process at each
  step has in its hands), `OneLive` (the server has one live token of the person,
  as `TokenLease` gives it) and `LoginAlone` (unless two logins have met, the
  temporary file of the one that replaces the config holds its own token, and the
  live token is with that login, in the config or still in the browser).
  `ReportsAgree` needs `OneWriter`: unless two scans have met, whoever is about to
  write the second report wrote the first; whoever ends there has written both or is
  in `report.single` (`WriterEnds`). That processes die is one lemma for the tokens
  (`DeathTracks`): a login that dies still has its token and an exit code other than
  0, and a twin that is torn is nobody's. `ScanToldTruly` follows from `Stage`.
  `ServerIsALease` closes the circle of `TokenLease`: the client takes no step of
  the server's that is not a step of a lease, and the registry implements one.
- **Fixes.** `FixesOK` says that a result a run keeps is one of
  `ClassifyAndApply`, which leaves the three properties as facts about that function, for reports
  and files of every length. They are proved by induction on the subsets of a
  file's fixes (`SubsetsFollow`, from the well-foundedness of < on the naturals;
  `SplicesUnfold` gives the recursion its equation). `PatchOK` is what one more
  fix keeps: each fix is applied or listed as work by hand, risks are noted, a
  changed Python file parses. That gives `EveryFindingIsListed`. The blocker compares
  a block with the lines as earlier splices left them; `ReplacesWhatWasScanned` shows
  that where no ranges meet these are the lines of the scanned file, which is
  `FloorHolds`. For `DisjointFixesCompose` the file is
  compared with the line-by-line concatenation of `Substituted`: the fixes spliced
  before fix i all lie below it in the file, so the concatenation up to the range of
  i is the file as it was (`UntouchedAbove`), what follows the range is the same
  with and without i (`AlikeBelow`), and a splice is one more range replaced
  (`PiecesOfOneMore`, `SpliceSubstitutes`).
- **Fix branch.** `PushKeepsWhatItFetched` needs `SeenKept`: from the fetch on, the
  trail that a run saw is in its tree, and after the commit in what it pushes. That
  the report of the run itself does not replace one is `NextIndexIsNew`, which needs
  that a trail is finite (`IsTrail`).

No safety property or action property of a passing run is without a proof. Only
model-checked: the liveness properties (`RequestsFinish`, `AnalysisEnds`,
`ScanEnds`, `ArrivedAnswered`, `Layer1Ends`, `OldReportsGo`), which are out of the
prover's reach. `FixesCompose` says nothing of fixes whose ranges meet; there the
[disagreement](#disagreements) is.

## Disagreements

One is a run whose only property TLC finds violated:

1. **A lost half.** When one half of a halved chunk stays unparseable and the
   other parses, the task returns normally and the failed half is named neither
   as analysed nor as unscanned, so a pass can follow
   (`shared/claude/client.py:371`; run `ChunkedAnalysisLost`,
   `EveryFileAccountedFor`).

For the next ones, the modules state as a definition what a doc or a comment
says, and the definition does not hold. It is in no configuration; listed as an
`INVARIANT` or `PROPERTY` of the module's run, TLC finds it violated.

| what is said | what the code does | definition |
|---|---|---|
| "Token ... revoked." (`tokens/admin_panel.py:189`) | the row is read without a lock (`tokens/registry.py:353`); after a rotation in between the successor stays active | `RevokeTakesEffect` of `TokenRegistry` |
| "advisory_real findings never block" (`shared/severity/mapping.py:55`) | the blind second pass overwrites the status by `verified` (`shared/verification/parallel.py:120`) | `AdvisoryLaneNeverBlocks` of `ScanPipeline` |
| the retry lets "processing continue normally" (`pipeline.py:472`) | `extra_instruction` is no parameter of the Gemini client, and the scan ends in a `TypeError` (`pipeline.py:488`) | `RetryFailsSafe` of `ScanPipeline` |
| a timeout "kills the subprocess" (`shared/scanners/subprocess_runner.py:12`) | once both reads returned, the wait for the exit is outside `wait_for` (line 130): a scanner with more to write hangs and keeps its slot | `TimeoutBoundsCall` of `ScannerRunner`, under `GoodProcessSpec` |
| monthly totals are "always" consistent (`tokens/models.py:389`) | the row is read, incremented in memory and written back (`agent/local_scan.py:401`) | `MonthlyMatchesUsage` of `ScanRequests` |
| saving preserves "all other fields" (`tokens/admin_panel.py:2631`) | the latest row is read and copied without a lock (line 2636); and a save of the advanced page alone resets the retention, which it does not post (line 1251) | `SavesPreserveTheRest` of `Settings` |
| "prevent admin lockout" (`tokens/admin_panel.py:788`) | two admins who demote each other leave none unless a protected address exists | `DemotionLeavesAnAdmin` of `Accounts`, with `Protected = {}` |
| "Exit code: 0 = allowed to proceed, 1 = BLOCKED" (`src/scripts/run_gate.sh:18`) | if Python cannot be run on the answer (line 37), which an answer over 128 KiB is enough for, the decision is empty, and the job proceeds (line 59) whatever the scan said | `BlockedAnswerStops` of `DeploymentGate` |
| a fix that "introduces a NEW anti-pattern" is rejected (`src/scripts/lib/safe_apply.py:440-443`) | only the block and the lines it replaces are searched (line 534): a line of a block can complete a pattern with its neighbour in the file, or take away the mitigation that excused one | `NoNewAntiPattern` of `FixBranch` |
| "A file is never corrupted" (`src/scripts/lib/safe_apply.py:22`) | fixes whose ranges overlap overwrite each other | `FilesAreNeverCorrupted` of `FixBranch` |
| "Reports are numbered, never overwritten" (`src/scripts/lib/safe_apply.py:280`) | a failed fetch, or another run before the forced push, loses the trail | `ReportsNeverOverwritten` of `FixBranch` |
| logout revokes the token (`skill/local_cli.py:237`) | a failed request is ignored (line 245), and the config is deleted all the same | `LogoutRevokes` of `LocalCli` |
| exit 1 is "At least one Critical or High finding" (`src/README.md:81`) | an answer that does not parse raises (`skill/local_cli.py:315`), and so does a report that cannot be written (line 431); Python exits with 1 | `ExitOneMeansFindings` of `LocalCli` |

The models have the following behaviour of the code, which readers of its
comments may not expect:

- A promotion by the consolidation verifier raises, since `Severity.critical`
  does not exist and is evaluated outside the try block
  (`shared/verification/consolidation.py:135`; `Promotion`).
- A timeout of the first pass replaces the list of unscanned files
  (`pipeline.py:379`): files trimmed before are no longer named.
- Requests to `/scan/local` do queue at the semaphore although the comment says
  it is only entered when capacity exists (`agent/local_scan.py:550`; `Acquire`).
- The report of a scanner is read once (`ReadStdout`). One that arrives in pieces is
  cut, does not parse, and counts as a success without findings
  (`shared/scanners/adapters/semgrep.py:147`).
- `src/scripts/run_gate.sh` treats `scan_failed`, and any answer without a
  decision, as non-blocking (`Stops`), while `agent/api.py:311-314` says it fails
  the CI job. A `curl` that fails ends the script under `set -e`, which blocks
  (`GiveUp`).
- The bypass takes the result it is given by the client (`MayBypass`).
- After a fetch that failed, keys are used however old they are (`agent/oidc.py:73`;
  `Refetch`). The CI tokens that the admin panel rotates are not what
  `agent/auth.py` compares with.
- The self-checks of `src/scripts/open_fix_pr.sh` only add notes (lines 111 to
  209; `SelfCheck`), while its header (lines 16 to 22) calls them fail-closed. A
  second run in the same clone takes the security branch for its base (line 76;
  `Target`).
- A `SECRET-001` finding without a file is in no list of the pull request
  (`src/scripts/lib/safe_apply.py:465`; `Unlisted`).
- A user who switches the provider and leaves the key blank keeps the other
  provider's key (`tokens/portal.py:624`; `UserForm`).
- A login whose save fails, or that is killed in it, leaves the token the person
  has been given nowhere: the one before is revoked by then, and the new one is in
  the memory of a process that ends with 1 (`skill/local_cli.py:231`; `Dies`).
- A scan that gets no page from the server, or ends between its two writes, leaves
  the page of an earlier scan beside its own markdown report
  (`skill/local_cli.py:435`; `WriteHtml`, `Dies`).

## Not modelled

- *Normalisation of scanner reports, context packaging, prompts, reports,
  patches, the Slack message*: pure text in and out. Whatever they produce, the
  models' answers are free choices.
- *Encryption, configuration, metrics*: stateless helpers and counters.
- *Groups* in the admin panel: rows that no check of the code reads.
- *The OAuth exchange with Okta*: what it returns is right or the request fails
  at once. `ADMIN_LOCAL_BYPASS` is off.
- *Dashboards, lists and charts*: they only read.
- *GitHub's client*: its token cache and breaker; a fetch succeeds or fails.

Of the modelled parts:

- Registry: timestamps other than expiry, `last_used_at`, the legacy
  single-token mode, the audit event of a refused authentication.
- LLM clients: findings, token counts and their unlocked counters, backoff
  times; the context cache of the Gemini client, the verifiers' own requests.
- Pipeline: the text that goes to the model and comes back, patches, context
  bundles, the scores of consensus, the regular expressions of the stripper,
  which files the trimming keeps.
- Scan requests: every scan counts as one unit of usage; the CI stream is one
  client that listens or is gone. A scan that has no usage to add does not touch
  the monthly row (`Note`).
- Scanner layer: which adapter looks at which files, the rlimits other than as
  an early death, what the candidates say.
- Deployment gate: a signature and its claims are right or wrong; the verdict of
  a scan is free, since `ScanPipeline` says what it may be.
- Command line client: which files are collected; the content of reports.
- Auto-fix: conflicts of git, whether a suggestion is any good.

## Plan

Done: all the modules above. What a further round would add, in this order:

1. `ScanPipeline`: flags for the files a timeout no longer names, and a property
   that every skipped file is named but for those.
2. Algorithms: `trim_to_budget` and the grouping of scanner candidates, whose
   greedy clusters depend on the order of the candidates, as functions checked
   against a definition over bounded inputs.
3. The context cache and the synchronous requests of the Gemini client.
