---------------------------- MODULE ScanPipeline ----------------------------
(***************************************************************************)
(* One run of ScanPipeline.run (pipeline.py), with the LLM verifiers and    *)
(* the gate decision it calls, from fetched files to ScanResult.            *)
(*                                                                         *)
(* What the GitHub API, the model and the scanners answer is chosen freely; *)
(* the first pass keeps to LLMContract, which ChunkedAnalysis shows of both *)
(* clients.  A setting that is read once is a choice at the step that reads *)
(* it.  Texts (with them all that the quality gate rewrites), line numbers  *)
(* and patches are left out; severity Low behaves as Medium and confidence  *)
(* Low as Medium; the file of a finding is left out.                        *)
(***************************************************************************)
EXTENDS Naturals, FiniteSets, LLMContract

CONSTANTS
    File,          \* paths
    Hit,           \* what the secret stripper can match
    AutoVerified,  \* the hits of the vendor-shape detectors outside templates
    LLMFinding,    \* findings of the first pass
    ScannerFinding,\* aggregated candidates of the Layer-1 scanners
    Clients        \* the LLM clients in use: "claude", "gemini"

ASSUME FindingsAreDistinct == /\ AutoVerified \subseteq Hit
                              /\ LLMFinding \cap ScannerFinding = {}
                              /\ Hit \cap (LLMFinding \cup ScannerFinding) = {}

VARIABLES
    pc,       \* the step the run is at
    is_gate,  \* mode = deployment_gate
    client,   \* which client class self._claude is
    files,    \* the files still in the scan
    secrets,  \* secret_findings, by hit
    partial,  \* partial_scan
    unscanned,\* unscanned files
    raw,      \* raw_findings of the first pass
    layer1,   \* the scanner task
    agg,      \* aggregated_candidates
    kept,     \* candidates, then the findings kept
    result,   \* what run returned or raised
    hist      \* what the steps saw, for the properties only

vars == <<pc, is_gate, client, files, secrets, partial, unscanned, raw, layer1,
          agg, kept, result, hist>>
setup == <<is_gate, client>>

(***************************************************************************)
(* Types                                                                   *)
(***************************************************************************)
Candidate == LLMFinding \cup ScannerFinding

Unjudged == [id : Candidate, src : {"claude", "scanner", "both"},
             sev : {"Critical", "High", "Medium"}, conf : {"High", "Medium"}]

Status == {"unverified", "verified", "advisory_real", "conflicting"}
Finding == [id : Candidate, src : {"claude", "scanner", "both"},
            sev : {"Critical", "High", "Medium"}, conf : {"High", "Medium"}, status : Status]

Decisions == {"pass", "blocked", "advisory", "scan_failed"}

Result == [decision : Decisions, findings : SUBSET Finding, secrets : SUBSET Hit,
           partial : BOOLEAN, unscanned : SUBSET File]

Crash == [decision |-> "raised", findings |-> {}, secrets |-> {},
          partial |-> FALSE, unscanned |-> {}]
NoResult == [Crash EXCEPT !.decision = "none"]
ScanFailed == [Crash EXCEPT !.decision = "scan_failed"]

\* hits: stripped; found: merged candidates; rejected: judged no finding by
\* the model; advised: judged real at advisory confidence; confirmed: judged
\* real at blocking confidence; agreed: confirmed by the blind second pass;
\* trimmed: cut for the budget; analysed: read by the first pass.
History == [hits : SUBSET Hit, found : SUBSET Candidate,
            rejected : SUBSET (Candidate \cup Hit), advised : SUBSET Candidate,
            confirmed : SUBSET Candidate, agreed : SUBSET Candidate,
            trimmed : SUBSET File, analysed : SUBSET File]

TypeOK ==
    /\ pc \in {"start", "strip", "size", "gather", "join", "retry", "merge",
               "verify", "blind", "consolidate", "quality", "decide", "done"}
    /\ is_gate \in BOOLEAN /\ client \in Clients
    /\ files \in SUBSET File /\ unscanned \in SUBSET File /\ partial \in BOOLEAN
    /\ secrets \in SUBSET Hit
    /\ raw \in SUBSET LLMFinding /\ agg \in SUBSET ScannerFinding
    /\ layer1 \in {"off", "running", "done"}
    /\ kept \in (SUBSET Unjudged) \cup (SUBSET Finding)
    /\ result \in Result \cup {NoResult, Crash}
    /\ hist \in History

Init ==
    /\ pc = "start"
    /\ is_gate \in BOOLEAN /\ client \in Clients
    /\ files = {} /\ secrets = {} /\ partial = FALSE /\ unscanned = {}
    /\ raw = {} /\ layer1 = "off" /\ agg = {} /\ kept = {}
    /\ result = NoResult
    /\ hist = [hits |-> {}, found |-> {}, rejected |-> {}, advised |-> {},
               confirmed |-> {}, agreed |-> {}, trimmed |-> {}, analysed |-> {}]

(***************************************************************************)
(* The gate decision                                                       *)
(***************************************************************************)
\* Mutant of should_block: a Critical finding need not be verified.
should_block_unverified(f) ==
    /\ f.status # "advisory_real"
    /\ f.sev \in {"Critical", "High"}
    /\ f.conf = "High"

should_block(f) ==
    /\ f.status # "advisory_real"
    /\ f.sev \in {"Critical", "High"}
    /\ f.conf = "High"
    /\ f.sev = "Critical" => f.status = "verified"

SecretFinding(hit) == [id |-> hit, sev |-> "Critical", conf |-> "High", status |-> "verified"]

Blocks(findings, hits) ==
    \E f \in findings \cup {SecretFinding(hit) : hit \in hits} : should_block(f)

\* Mutant of Gate: BR-005 dropped, a partial scan can pass.
GateOfFindings(findings, hits, is_partial) ==
    IF Blocks(findings, hits) THEN IF is_gate THEN "blocked" ELSE "advisory"
    ELSE IF findings # {} THEN "advisory"
    ELSE "pass"

Gate(findings, hits, is_partial) ==
    IF Blocks(findings, hits) THEN IF is_gate THEN "blocked" ELSE "advisory"
    ELSE IF is_partial \/ findings # {} THEN "advisory"
    ELSE "pass"

(***************************************************************************)
(* Ends of a run                                                           *)
(***************************************************************************)
Return(r) ==
    /\ pc' = "done"
    /\ result' = r

\* Mutant of ReturnEarly: the secrets found before the return are left out.
ReturnEarlyWithoutSecrets(decision, is_partial, left_out) ==
    Return([decision |-> decision, findings |-> {}, secrets |-> {},
            partial |-> is_partial, unscanned |-> left_out])

ReturnEarly(decision, is_partial, left_out) ==
    Return([decision |-> decision, findings |-> {}, secrets |-> secrets',
            partial |-> is_partial, unscanned |-> left_out])

Continue(next) == pc' = next /\ UNCHANGED result

(***************************************************************************)
(* Steps 1-5: parse, fetch                                                 *)
(***************************************************************************)

\* Attempts exhausted or the circuit open: scan_failed.  A refusal after the
\* refresh (GitHubAuthError) or another 4xx status propagates.
RequestErrors == {ScanFailed, Crash}

\* A URL that is not https or ssh to an owner and a repository of github.com,
\* or a diff without base or head.
BadRequest == ScanFailed

FetchFails ==
    /\ pc = "start"
    /\ \E error \in {BadRequest} \cup RequestErrors : Return(error)
    /\ UNCHANGED <<setup, files, secrets, partial, unscanned, raw, layer1, agg, kept, hist>>

\* What get_repo_files or get_diff_files can bring; a diff may be empty.
Fetchable == SUBSET File

\* _fetch_files by target, or what the caller has fetched.
Fetched(target) == IF target = "prefetched" THEN SUBSET File ELSE Fetchable

Fetch ==
    /\ pc = "start"
    /\ \E target \in {"prefetched", "diff", "directory", "full_repo"} :
          files' \in Fetched(target)
    /\ UNCHANGED <<setup, secrets, partial, unscanned, raw, layer1, agg, kept, hist>>
    /\ IF files' = {} THEN ReturnEarly("advisory", FALSE, {}) ELSE Continue("strip")

(***************************************************************************)
(* Steps 6-7: strip secrets, verify them, filter files                     *)
(***************************************************************************)

\* What the detectors can match in the files.
Strippable == SUBSET Hit

\* The verdict the model's answer has for a hit; "none" if its number is missing
\* or the call failed.
SecretVerdicts == {"real", "test_fixture", "template_example", "false_positive", "none"}

\* verify_secret_findings drops what the model calls a false positive, never
\* a vendor shape, and keeps a hit that got no verdict.
FalsePositives(hits) ==
    {{h \in hits \ AutoVerified : verdict[h] = "false_positive"} :
        verdict \in [hits \ AutoVerified -> SecretVerdicts]}

\* Filtering by path, name and content may leave any of the files, or none.
SourceFiles(fetched) == SUBSET fetched

StripSecrets ==
    /\ pc = "strip"
    /\ \E hits \in Strippable : \E fp \in FalsePositives(hits) :
        /\ secrets' = hits \ fp
        /\ hist' = [hist EXCEPT !.hits = hits, !.rejected = fp]
    /\ files' \in SourceFiles(files)
    /\ UNCHANGED <<setup, partial, unscanned, raw, layer1, agg, kept>>
    /\ IF files' = {} THEN ReturnEarly(Gate({}, secrets', FALSE), FALSE, {})
                      ELSE Continue("size")

(***************************************************************************)
(* Step 8: the token limit, and the start of step 9                        *)
(***************************************************************************)

\* Scanners enabled: run_layer1 starts with the first pass.
StartAnalysis == Continue("gather") /\ layer1' \in {"off", "running"}

FitsBudget ==
    /\ pc = "size"
    /\ StartAnalysis
    /\ UNCHANGED <<setup, files, secrets, partial, unscanned, raw, agg, kept, hist>>

\* trim_to_budget keeps some of the files and skips at least one.
Trim ==
    /\ pc = "size"
    /\ \E skipped \in (SUBSET files) \ {{}} :
        /\ files' = files \ skipped
        /\ unscanned' = skipped
        /\ hist' = [hist EXCEPT !.trimmed = skipped]
    /\ partial' = TRUE
    /\ UNCHANGED <<setup, secrets, raw, agg, kept>>
    /\ IF files' = {} THEN ReturnEarly("advisory", TRUE, unscanned') /\ UNCHANGED layer1
                      ELSE StartAnalysis

\* Partial scans disabled: TokenLimitError.
RefuseOversized ==
    /\ pc = "size"
    /\ Return(Crash)
    /\ UNCHANGED <<setup, files, secrets, partial, unscanned, raw, layer1, agg, kept, hist>>

(***************************************************************************)
(* Step 9: the first pass and the scanners, side by side                   *)
(***************************************************************************)
\* Mutant of NoteUnscanned: the files are listed, the flag is not set.
NoteUnscannedFiles(o) == UNCHANGED partial /\ unscanned' = unscanned \cup o.partial

\* The files the client names as unscanned make the scan partial.
NoteUnscanned(o) ==
    /\ partial' = (partial \/ o.partial # {})
    /\ unscanned' = unscanned \cup o.partial

FirstPassReturns ==
    /\ pc = "gather"
    /\ \E o \in Returned(files), found \in SUBSET LLMFinding :
        /\ found # {} => o.analysed # {}
        /\ raw' = found
        /\ NoteUnscanned(o)
        /\ hist' = [hist EXCEPT !.analysed = o.analysed]
    /\ Continue(IF layer1 = "running" THEN "join" ELSE "retry")
    /\ UNCHANGED <<setup, files, secrets, layer1, agg, kept>>

\* ClaudeTimeoutError ends the gather at once, whatever the scanners found.
FirstPassTimesOut ==
    /\ pc = "gather"
    /\ Raised("timeout") \in AnalysisOutcomes(files)
    /\ partial' = TRUE
    /\ unscanned' = files
    /\ raw' = {} /\ agg' = {}
    /\ Continue("retry")
    /\ UNCHANGED <<setup, files, secrets, layer1, kept, hist>>

\* BR-006: the model is unavailable, so the deployment is let through.
FirstPassUnavailable ==
    /\ pc = "gather"
    /\ Raised("unavailable") \in AnalysisOutcomes(files)
    /\ UNCHANGED <<setup, files, secrets, partial, unscanned, raw, layer1, agg, kept, hist>>
    /\ ReturnEarly("advisory", TRUE, files)

\* Mutant of AfterLayer1: the end of the scanners resumes nobody.
AfterLayer1Lost == pc

\* The gather that only waits for the scanners goes on.
AfterLayer1 == IF pc = "join" THEN "retry" ELSE pc

\* What the tools can agree on after consensus: one candidate for each place
\* and class of vulnerability.
Aggregates == SUBSET ScannerFinding

\* run_layer1 ends; one that the gather abandoned ends unobserved.
Layer1Ends ==
    /\ layer1 = "running"
    /\ layer1' = "done"
    /\ IF pc \in {"gather", "join"} THEN agg' \in Aggregates ELSE UNCHANGED agg
    /\ pc' = AfterLayer1
    /\ UNCHANGED <<setup, files, secrets, partial, unscanned, raw, kept, result, hist>>

(***************************************************************************)
(* Step 9b: the zero-findings retry                                        *)
(***************************************************************************)
MayRetry == raw = {} /\ ~partial

\* Any of the three client exceptions is swallowed, and so is the retry's own
\* list of unscanned files.  GeminiClient takes no extra_instruction.
Retry ==
    /\ pc = "retry"
    /\ MayRetry
    /\ UNCHANGED <<setup, files, secrets, partial, unscanned, layer1, agg, kept, hist>>
    /\ IF client = "gemini" THEN Return(Crash) /\ UNCHANGED raw
                            ELSE Continue("merge") /\ raw' \in SUBSET LLMFinding

\* There are findings, the scan is partial, the flag is off or the code short.
SkipRetry ==
    /\ pc = "retry"
    /\ Continue("merge")
    /\ UNCHANGED <<setup, files, secrets, partial, unscanned, raw, layer1, agg, kept, hist>>

(***************************************************************************)
(* Steps 10-12: validate, filter, merge                                    *)
(***************************************************************************)
Merged(l, matched, sev, conf) ==
    [id |-> l, src |-> IF matched THEN "both" ELSE "claude", sev |-> sev, conf |-> conf]

ScannerOnly(s, sev) ==
    [id |-> s, src |-> "scanner", sev |-> sev, conf |-> "Medium"]

\* What validation against the schema can leave.
Valid(found) == SUBSET found

\* filter_findings drops findings by their path: tests, fixtures, lockfiles and
\* vendored code.
FilterFindings(valid) == SUBSET valid

\* Steps 10 and 11.
Usable(found) == UNION {FilterFindings(valid) : valid \in Valid(found)}

\* The scanner candidate, if any, that each finding overlaps; several findings
\* can overlap the same one.
Matchings(valid) == {m \in [valid -> SUBSET agg] : \A l \in valid : Cardinality(m[l]) <= 1}

Merge ==
    /\ pc = "merge"
    /\ \E valid \in Usable(raw) :
       \E match \in Matchings(valid),
          sev \in [valid \cup agg -> {"Critical", "High", "Medium"}],
          conf \in [valid -> {"High", "Medium"}] :
        /\ kept' = {Merged(l, match[l] # {}, sev[l], conf[l]) : l \in valid}
                   \cup {ScannerOnly(s, sev[s]) : s \in agg \ UNION {match[l] : l \in valid}}
    /\ hist' = [hist EXCEPT !.found = {f.id : f \in kept'}]
    /\ Continue("verify")
    /\ UNCHANGED <<setup, files, secrets, partial, unscanned, raw, layer1, agg>>

(***************************************************************************)
(* Step 13: verify_vuln_candidates                                         *)
(***************************************************************************)
\* candidate_to_finding
ToFinding(c, status) == [id |-> c.id, src |-> c.src, sev |-> c.sev, conf |-> c.conf,
                         status |-> status]

Judge(c, verdict) ==
    ToFinding(c, CASE verdict = "real" -> "verified"
                   [] verdict = "advisory" -> "advisory_real"
                   [] OTHER -> "unverified")

With(verdict, v) == {id \in DOMAIN verdict : verdict[id] = v}

\* What the answer of the model has for a candidate; a verdict without a
\* confidence has "low".
Answers == [verdict : {"real", "false_positive"}, confidence : {"high", "medium", "low"}]
           \cup {[verdict |-> "none", confidence |-> "low"]}

\* _verify_batch with the keep_confidences and advisory_confidences in force for
\* the path of the candidate.
VerdictOn(a, keep, advisory) ==
    CASE a.verdict = "none" -> "none"
      [] a.verdict = "false_positive" -> "rejected"
      [] a.confidence \in keep -> "real"
      [] a.confidence \in advisory -> "advisory"
      [] OTHER -> "rejected"

\* "none": the call failed or gave no verdict, and the candidate stays; a high
\* risk path adds medium to the confidences that keep a finding.
Verdicts ==
    LET Levels == SUBSET {"high", "medium", "low"}
    IN  {VerdictOn(a, keep \cup more, advisory) :
            a \in Answers, keep \in Levels, more \in {{}, {"medium"}}, advisory \in Levels}

VerifyCandidates ==
    /\ pc = "verify"
    /\ \E verdict \in [hist.found -> Verdicts] :
        /\ kept' = {Judge(f, verdict[f.id]) :
                       f \in {g \in kept : verdict[g.id] # "rejected"}}
        /\ hist' = [hist EXCEPT !.rejected = @ \cup With(verdict, "rejected"),
                                !.confirmed = With(verdict, "real"),
                                !.advised = With(verdict, "advisory")]
    /\ Continue("blind")
    /\ UNCHANGED <<setup, files, secrets, partial, unscanned, raw, layer1, agg>>

(***************************************************************************)
(* Step 14: BR-009, blind verification of Claude-only Critical findings    *)
(***************************************************************************)
ToVerifyBlind == {f \in kept : f.src = "claude" /\ f.sev = "Critical"}

\* verify_critical_findings: what a blind answer does not confirm, a failed call
\* included, is in conflict.
BlindVerdict(f, confirmed) ==
    [f EXCEPT !.status = IF confirmed THEN "verified" ELSE "conflicting"]

VerifyBlind ==
    /\ pc = "blind"
    /\ IF ~is_gate THEN UNCHANGED <<kept, hist>>
       ELSE \E yes \in SUBSET ToVerifyBlind :
              /\ kept' = (kept \ ToVerifyBlind)
                          \cup {BlindVerdict(f, f \in yes) : f \in ToVerifyBlind}
              /\ hist' = [hist EXCEPT !.agreed = {f.id : f \in yes}]
    /\ Continue("consolidate")
    /\ UNCHANGED <<setup, files, secrets, partial, unscanned, raw, layer1, agg>>

(***************************************************************************)
(* Steps 14b-16: consolidation, gate, result                               *)
(***************************************************************************)

\* The verifier is off, its call fails, or it promotes nothing.
NoPromotion ==
    /\ pc = "consolidate"
    /\ Continue("quality")
    /\ UNCHANGED <<setup, files, secrets, partial, unscanned, raw, layer1, agg, kept, hist>>

\* A promotion evaluates Severity.critical, which the enum does not have.
Promotion ==
    /\ pc = "consolidate"
    /\ Cardinality(kept) >= 2
    /\ Return(Crash)
    /\ UNCHANGED <<setup, files, secrets, partial, unscanned, raw, layer1, agg, kept, hist>>

\* The findings of a fixable class without a code block in their fix.
Weak(findings) == SUBSET findings

\* strengthen_fix_quality on the weak ones, batch by batch: every finding comes
\* back, with its texts rewritten if the model's answer has its number.
Strengthened(weak) == weak

\* Step 14c, also when it is off.
QualityGate ==
    /\ pc = "quality"
    /\ \E weak \in Weak(kept) : kept' = (kept \ weak) \cup Strengthened(weak)
    /\ Continue("decide")
    /\ UNCHANGED <<setup, files, secrets, partial, unscanned, raw, layer1, agg, hist>>

Decide ==
    /\ pc = "decide"
    /\ Return([decision |-> Gate(kept, secrets, partial), findings |-> kept,
               secrets |-> secrets, partial |-> partial, unscanned |-> unscanned])
    /\ UNCHANGED <<setup, files, secrets, partial, unscanned, raw, layer1, agg, kept, hist>>

(***************************************************************************)
(* Specification                                                           *)
(***************************************************************************)
FirstPass == FirstPassReturns \/ FirstPassTimesOut \/ FirstPassUnavailable

Run == \/ FetchFails \/ Fetch \/ StripSecrets
       \/ FitsBudget \/ Trim \/ RefuseOversized
       \/ FirstPass \/ Retry \/ SkipRetry
       \/ Merge \/ VerifyCandidates \/ VerifyBlind
       \/ NoPromotion \/ Promotion \/ QualityGate \/ Decide

Next == Run \/ Layer1Ends

Spec == Init /\ [][Next]_vars

\* Every request to GitHub and to Claude has a timeout.  Gemini's has none and a
\* scanner subprocess need not end, so neither they nor Layer1Ends are fair.
FairSpec == Spec /\ WF_vars(client = "claude" /\ Run)

(***************************************************************************)
(* Properties                                                              *)
(***************************************************************************)
Delivered == result.decision \in {"pass", "blocked", "advisory"}
Reported == {f.id : f \in result.findings} \cup result.secrets

\* BR-001, BR-001-A and BR-009 together: only the gate blocks, and only on a
\* secret, on a High finding that nothing ruled out, or on a Critical finding
\* that the model confirmed, without having been shown its own first answer
\* if no scanner saw it too.  A scanner alone never blocks.
BlockIsJustified ==
    result.decision = "blocked" =>
        /\ is_gate
        /\ \/ result.secrets # {}
           \/ \E f \in result.findings :
                /\ f.src # "scanner" /\ f.conf = "High"
                /\ \/ f.sev = "High" /\ f.id \notin hist.rejected \cup hist.advised
                   \/ f.sev = "Critical" /\ f.id \in hist.confirmed /\ f.src = "both"
                   \/ f.sev = "Critical" /\ f.id \in hist.agreed /\ f.src = "claude"

\* A pass hides nothing: the scan was complete as far as the run knows, and
\* every hit and every candidate was rejected by a verdict of the model.
PassIsClean ==
    result.decision = "pass" =>
        /\ ~result.partial /\ result.unscanned = {} /\ hist.trimmed = {}
        /\ hist.hits \cup hist.found \subseteq hist.rejected

\* The verifiers fail safe: in a result that is delivered, whatever was found
\* and not rejected by a verdict is reported, through every early return.
NothingDroppedSilently ==
    Delivered => (hist.hits \cup hist.found) \ hist.rejected \subseteq Reported

\* A report never calls a file unscanned that was analysed, and never lists
\* one without calling the scan partial.
UnscannedIsTrue ==
    Delivered => /\ result.unscanned \cap hist.analysed = {}
                 /\ result.unscanned # {} => result.partial

\* With Claude, nothing but a scanner that never ends can keep a scan from
\* ending.
ScanEnds == client = "claude" /\ []<>(layer1 # "running") => <>(pc = "done")

\* "real+medium verdict -> kept as advisory_real (non-blocking)": a finding
\* the verifier put in the advisory lane never blocks.
AdvisoryLaneNeverBlocks ==
    \A f \in result.findings : f.id \in hist.advised => ~should_block(f)

\* "Fires at most once - if the retry also returns nothing, processing
\* continues normally": the zero-findings retry never ends a scan.
RetryFailsSafe == [][pc = "retry" => result' # Crash]_vars
==============================================================================
