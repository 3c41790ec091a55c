--------------------------- MODULE ScanPipelineProofs ---------------------------
(***************************************************************************)
(* Theorems about ScanPipeline, for every set of files, hits and findings    *)
(* and for everything the model, the scanners and GitHub may answer: what    *)
(* can block a deployment, what can pass, and that nothing found is lost.    *)
(***************************************************************************)
EXTENDS ScanPipeline, TLAPS

Ids(findings) == {f.id : f \in findings}

Judged == {"blind", "consolidate", "quality", "decide"}
Unmerged == {"start", "strip", "size", "gather", "join", "retry", "merge"}

Typed == /\ hist \in History
         /\ pc \in Unmerged \cup {"verify", "done"} \cup Judged
         /\ pc = "verify" => kept \subseteq Unjudged
         /\ pc \in Judged => kept \subseteq Finding

\* Whatever was found and not rejected is still carried.
Carried == /\ hist.hits \ hist.rejected \subseteq secrets
           /\ pc \in Unmerged => hist.found = {}
           /\ pc = "verify" => hist.found = Ids(kept)
           /\ pc \in Judged => hist.found \ hist.rejected \subseteq Ids(kept)
           /\ pc \in Unmerged \cup {"verify"} => hist.rejected \subseteq Hit

\* What the run knows of the files it did not read.
Scanned == /\ hist.trimmed \cup unscanned # {} => partial = TRUE
           /\ unscanned \cap hist.analysed = {}
           /\ pc \in {"start", "strip", "size", "gather"} => hist.analysed = {}
           /\ pc \in {"start", "strip", "size"} => unscanned = {} /\ hist.trimmed = {}
           /\ pc = "gather" => unscanned \cap files = {}

\* What a kept finding's status says of the verdicts it got.
Vouched(f) == /\ f.sev = "High" /\ f.status # "advisory_real" => f.id \notin hist.rejected \cup hist.advised
              /\ f.src = "both" /\ f.status = "verified" => f.id \in hist.confirmed
              /\ pc # "blind" /\ is_gate /\ f.src = "claude" /\ f.sev = "Critical" /\ f.status = "verified"
                    => f.id \in hist.agreed

Lanes == /\ pc \in {"verify"} \cup Judged => \A f \in kept : f.src = "scanner" => f.conf = "Medium"
         /\ pc \in Judged => \A f \in kept : Vouched(f)

Final == /\ pc # "done" => result = NoResult
         /\ BlockIsJustified /\ PassIsClean /\ NothingDroppedSilently /\ UnscannedIsTrue

\* What the run works on; needs nothing else.
Inputs == /\ files \in SUBSET File /\ partial \in BOOLEAN
          /\ raw \in SUBSET LLMFinding /\ agg \in SUBSET ScannerFinding

IInv == Typed /\ Carried /\ Scanned /\ Lanes /\ Final

-------------------------------------------------------------------------------
(***************************************************************************)
(* Ends of a run                                                           *)
(***************************************************************************)
LEMMA Undelivered ==
    ASSUME result.decision \in {"none", "raised", "scan_failed"}
    PROVE  BlockIsJustified /\ PassIsClean /\ NothingDroppedSilently /\ UnscannedIsTrue
BY DEF BlockIsJustified, PassIsClean, NothingDroppedSilently, UnscannedIsTrue, Delivered

LEMMA Errors ==
    /\ NoResult.decision = "none" /\ Crash.decision = "raised" /\ ScanFailed.decision = "scan_failed"
BY DEF NoResult, Crash, ScanFailed

LEMMA InputsHold == Spec => []Inputs
<1>1. Init => Inputs
  BY DEF Init, Inputs
<1>2. ASSUME Inputs, [Next]_vars PROVE Inputs'
  <2>1. CASE Fetch
    BY <1>2, <2>1 DEF Fetch, Fetched, Fetchable, Inputs
  <2>2. CASE StripSecrets
    BY <1>2, <2>2 DEF StripSecrets, SourceFiles, Inputs
  <2>3. CASE Trim
    BY <1>2, <2>3 DEF Trim, Inputs
  <2>4. CASE FirstPassReturns
    BY <1>2, <2>4 DEF FirstPassReturns, NoteUnscanned, Inputs
  <2>5. CASE FirstPassTimesOut
    BY <1>2, <2>5 DEF FirstPassTimesOut, Inputs
  <2>6. CASE Layer1Ends
    BY <1>2, <2>6 DEF Layer1Ends, Aggregates, Inputs
  <2>7. CASE Retry
    BY <1>2, <2>7 DEF Retry, Inputs
  <2>8. CASE UNCHANGED <<files, partial, raw, agg>>
    BY <1>2, <2>8 DEF Inputs
  <2>9. QED
    BY <1>2, <2>1, <2>2, <2>3, <2>4, <2>5, <2>6, <2>7, <2>8 DEF Next, Run, FirstPass, vars,
       FetchFails, FitsBudget, RefuseOversized, FirstPassUnavailable, SkipRetry, Merge,
       VerifyCandidates, VerifyBlind, NoPromotion, Promotion, QualityGate, Decide
<1>3. QED
  BY <1>1, <1>2, PTL DEF Spec

LEMMA InitEstablishesIInv == Init => IInv
<1> SUFFICES ASSUME Init PROVE IInv
  OBVIOUS
<1>1. hist \in History /\ hist.hits = {} /\ hist.found = {} /\ hist.rejected = {}
      /\ hist.trimmed = {} /\ hist.analysed = {}
  BY DEF Init, History
<1>2. Typed /\ Carried /\ Scanned /\ Lanes
  BY <1>1 DEF Init, Typed, Carried, Scanned, Lanes, Unmerged, Judged
<1>3. Final
  BY Undelivered, Errors DEF Init, Final
<1>4. QED
  BY <1>2, <1>3 DEF IInv

\* A finished run stays as it is; only its scanners can still end.
LEMMA Layer1EndsStep == ASSUME IInv, Layer1Ends PROVE IInv'
<1>1. /\ UNCHANGED <<setup, files, secrets, partial, unscanned, kept, result, hist>>
      /\ pc' = IF pc = "join" THEN "retry" ELSE pc
  BY DEF Layer1Ends, AfterLayer1
<1>2. is_gate' = is_gate
  BY <1>1 DEF setup
<1>3. Typed' /\ Carried' /\ Scanned'
  BY <1>1 DEF IInv, Typed, Carried, Scanned, Unmerged, Judged, Ids
<1>4. Lanes'
  BY <1>1, <1>2 DEF IInv, Lanes, Judged, Vouched
<1>5. Final'
  BY <1>1, <1>2 DEF IInv, Final, BlockIsJustified, PassIsClean, NothingDroppedSilently,
     UnscannedIsTrue, Delivered, Reported
<1>6. QED
  BY <1>3, <1>4, <1>5 DEF IInv

\* A run that ends without a result, whatever it has seen.
LEMMA ErrorStep ==
    ASSUME IInv, NEW error \in {NoResult, Crash, ScanFailed}, Return(error),
           UNCHANGED <<secrets, partial, unscanned, hist>>
    PROVE  IInv'
<1>1. pc' = "done" /\ result' = error
  BY DEF Return
<1>2. Typed' /\ Carried' /\ Scanned' /\ Lanes'
  BY <1>1 DEF IInv, Typed, Carried, Scanned, Lanes, Unmerged, Judged
<1>3. Final'
  <2>1. result'.decision \in {"none", "raised", "scan_failed"}
    BY <1>1, Errors
  <2>2. (BlockIsJustified /\ PassIsClean /\ NothingDroppedSilently /\ UnscannedIsTrue)'
    BY <2>1 DEF BlockIsJustified, PassIsClean, NothingDroppedSilently, UnscannedIsTrue, Delivered
  <2>3. QED
    BY <1>1, <2>2 DEF Final
<1>4. QED
  BY <1>2, <1>3 DEF IInv

\* A step to another place leaves the run without a result.
LEMMA ContinueKeepsFinal ==
    ASSUME IInv, pc # "done", result' = result
    PROVE  Final'
<1>1. result' = NoResult
  BY DEF IInv, Final
<1>2. (BlockIsJustified /\ PassIsClean /\ NothingDroppedSilently /\ UnscannedIsTrue)'
  BY <1>1, Errors DEF BlockIsJustified, PassIsClean, NothingDroppedSilently, UnscannedIsTrue, Delivered
<1>3. QED
  BY <1>1, <1>2 DEF Final

\* The gate blocks only if it is one and something blocks, and passes only what
\* has nothing to report.
LEMMA GateDecides ==
    ASSUME NEW findings, NEW hits, NEW is_partial \in BOOLEAN
    PROVE  /\ Gate(findings, hits, is_partial) = "blocked" => is_gate /\ Blocks(findings, hits)
           /\ Gate(findings, hits, is_partial) = "pass" => findings = {} /\ hits = {} /\ ~is_partial
           /\ Gate(findings, hits, is_partial) \in {"pass", "blocked", "advisory"}
<1>1. ASSUME NEW hit \in hits PROVE Blocks(findings, hits)
  <2>1. should_block(SecretFinding(hit))
    BY DEF should_block, SecretFinding
  <2>2. QED
    BY <2>1 DEF Blocks
<1>2. QED
  BY <1>1 DEF Gate

-------------------------------------------------------------------------------
(***************************************************************************)
(* Up to the candidates                                                    *)
(***************************************************************************)

\* A return before there are findings: the secrets are all there is to report.
LEMMA ReturnEarlyStep ==
    ASSUME IInv, NEW decision \in {"pass", "blocked", "advisory"}, NEW is_partial \in BOOLEAN, NEW left_out,
           ReturnEarly(decision, is_partial, left_out), is_gate' = is_gate,
           hist' \in History, hist'.found = {}, hist'.hits \ hist'.rejected \subseteq secrets',
           hist'.rejected \subseteq Hit,
           hist'.analysed = {},
           hist'.trimmed \cup unscanned' # {} => partial' = TRUE,
           left_out # {} => is_partial,
           decision = "blocked" => is_gate /\ secrets' # {},
           decision = "pass" => secrets' = {} /\ ~is_partial /\ hist'.trimmed = {}
    PROVE  IInv'
<1>1. /\ pc' = "done" /\ result'.decision = decision /\ result'.findings = {} /\ result'.secrets = secrets'
      /\ result'.partial = is_partial /\ result'.unscanned = left_out
  BY DEF ReturnEarly, Return
<1>2. Typed' /\ Carried' /\ Scanned' /\ Lanes'
  BY <1>1 DEF Typed, Carried, Scanned, Lanes, Unmerged, Judged
<1>3. BlockIsJustified' /\ PassIsClean' /\ UnscannedIsTrue'
  BY <1>1 DEF BlockIsJustified, PassIsClean, UnscannedIsTrue
<1>4. NothingDroppedSilently'
  BY <1>1 DEF NothingDroppedSilently, Delivered, Reported
<1>5. QED
  BY <1>1, <1>2, <1>3, <1>4 DEF IInv, Final

\* A step on before the merge that finds nothing new to carry.
LEMMA EarlyStep ==
    ASSUME IInv, pc \in Unmerged, pc' \in Unmerged, result' = result, secrets' = secrets,
           hist' \in History, hist'.hits = hist.hits, hist'.rejected = hist.rejected,
           hist'.found = hist.found, Scanned'
    PROVE  IInv'
<1>1. Typed' /\ Carried' /\ Lanes'
  BY DEF IInv, Typed, Carried, Lanes, Unmerged, Judged
<1>2. pc # "done"
  BY DEF Unmerged
<1>3. QED
  BY <1>1, <1>2, ContinueKeepsFinal DEF IInv

LEMMA FetchStep == ASSUME IInv, Fetch PROVE IInv'
<1>1. /\ pc = "start" /\ UNCHANGED <<secrets, partial, unscanned, hist>> /\ is_gate' = is_gate
      /\ hist.found = {} /\ hist.analysed = {} /\ hist.trimmed = {} /\ unscanned = {}
  BY DEF Fetch, setup, IInv, Carried, Scanned, Unmerged
<1>2. CASE files' = {}
  <2>1. ReturnEarly("advisory", FALSE, {})
    BY <1>2 DEF Fetch
  <2>2. QED
    BY <1>1, <2>1, ReturnEarlyStep DEF IInv, Typed, Carried, Scanned, Unmerged
<1>3. CASE files' # {}
  <2>1. pc' = "strip" /\ result' = result
    BY <1>3 DEF Fetch, Continue
  <2>2. Scanned'
    BY <1>1, <2>1 DEF IInv, Scanned
  <2>3. QED
    BY <1>1, <2>1, <2>2, EarlyStep DEF IInv, Typed, Unmerged
<1>4. QED
  BY <1>2, <1>3

LEMMA StripSecretsStep == ASSUME IInv, StripSecrets PROVE IInv'
<1>a. PICK hits \in SUBSET Hit : \E fp \in FalsePositives(hits) :
         secrets' = hits \ fp /\ hist' = [hist EXCEPT !.hits = hits, !.rejected = fp]
  BY DEF StripSecrets, Strippable
<1>1. PICK fp \in FalsePositives(hits) :
         secrets' = hits \ fp /\ hist' = [hist EXCEPT !.hits = hits, !.rejected = fp]
  BY <1>a
<1>2. fp \subseteq Hit
  BY <1>1 DEF FalsePositives
<1>3. /\ pc = "strip" /\ UNCHANGED <<partial, unscanned>> /\ is_gate' = is_gate
      /\ hist \in History /\ hist.found = {} /\ hist.analysed = {} /\ hist.trimmed = {} /\ unscanned = {}
  BY DEF StripSecrets, setup, IInv, Typed, Carried, Scanned, Unmerged
<1>4. /\ hist' \in History /\ hist'.hits = hits /\ hist'.rejected = fp /\ hist'.found = {}
      /\ hist'.analysed = {} /\ hist'.trimmed = {}
  BY <1>1, <1>2, <1>3 DEF History
<1>5. CASE files' = {}
  <2>1. ReturnEarly(Gate({}, secrets', FALSE), FALSE, {})
    BY <1>5 DEF StripSecrets
  <2>a. Blocks({}, secrets') => secrets' # {}
    BY DEF Blocks
  <2>2. Gate({}, secrets', FALSE) = "blocked" => is_gate /\ secrets' # {}
    BY <2>a, GateDecides
  <2>3. Gate({}, secrets', FALSE) \in {"pass", "blocked", "advisory"}
        /\ (Gate({}, secrets', FALSE) = "pass" => secrets' = {})
    BY GateDecides
  <2>4. QED
    BY <1>1, <1>2, <1>3, <1>4, <2>1, <2>2, <2>3, ReturnEarlyStep
<1>6. CASE files' # {}
  <2>1. pc' = "size" /\ result' = result
    BY <1>6 DEF StripSecrets, Continue
  <2>2. Typed' /\ Carried' /\ Scanned' /\ Lanes'
    BY <1>1, <1>2, <1>3, <1>4, <2>1 DEF Typed, Carried, Scanned, Lanes, Unmerged, Judged
  <2>3. QED
    BY <1>3, <2>1, <2>2, ContinueKeepsFinal DEF IInv
<1>7. QED
  BY <1>5, <1>6

LEMMA FitsBudgetStep == ASSUME IInv, FitsBudget PROVE IInv'
<1>1. /\ pc = "size" /\ pc' = "gather" /\ result' = result /\ UNCHANGED <<files, secrets, partial, unscanned, hist>>
  BY DEF FitsBudget, StartAnalysis, Continue
<1>2. Scanned'
  BY <1>1 DEF IInv, Scanned
<1>3. QED
  BY <1>1, <1>2, EarlyStep DEF IInv, Typed, Unmerged

LEMMA TrimStep == ASSUME Inputs, IInv, Trim PROVE IInv'
<1>1. PICK skipped \in (SUBSET files) \ {{}} :
        files' = files \ skipped /\ unscanned' = skipped /\ hist' = [hist EXCEPT !.trimmed = skipped]
  BY DEF Trim
<1>2. /\ pc = "size" /\ secrets' = secrets /\ partial' = TRUE /\ is_gate' = is_gate /\ hist \in History
      /\ hist.found = {} /\ hist.analysed = {} /\ hist.rejected \subseteq Hit
      /\ hist.hits \ hist.rejected \subseteq secrets
  BY DEF Trim, setup, IInv, Typed, Carried, Scanned, Unmerged
<1>3. /\ hist' \in History /\ hist'.hits = hist.hits /\ hist'.rejected = hist.rejected
      /\ hist'.found = {} /\ hist'.analysed = {} /\ hist'.trimmed = skipped
  BY <1>1, <1>2 DEF History, Inputs
<1>4. CASE files' = {}
  <2>1. ReturnEarly("advisory", TRUE, unscanned')
    BY <1>4 DEF Trim
  <2>2. QED
    BY <1>2, <1>3, <2>1, ReturnEarlyStep
<1>5. CASE files' # {}
  <2>1. pc' = "gather" /\ result' = result
    BY <1>5 DEF Trim, StartAnalysis, Continue
  <2>2. Scanned'
    BY <1>1, <1>2, <1>3, <2>1 DEF Scanned
  <2>3. QED
    BY <1>2, <1>3, <2>1, <2>2, EarlyStep DEF Unmerged
<1>6. QED
  BY <1>4, <1>5

LEMMA FirstPassReturnsStep == ASSUME Inputs, IInv, FirstPassReturns PROVE IInv'
<1>1. PICK o \in Returned(files) : NoteUnscanned(o) /\ hist' = [hist EXCEPT !.analysed = o.analysed]
  BY DEF FirstPassReturns
<1>2. o.analysed \subseteq files /\ o.partial \subseteq files /\ o.analysed \cap o.partial = {}
  BY DEF Returned
<1>3. /\ pc = "gather" /\ pc' \in {"join", "retry"} /\ secrets' = secrets /\ result' = result
      /\ hist \in History /\ unscanned \cap files = {}
  BY DEF FirstPassReturns, Continue, IInv, Typed, Scanned
<1>4. /\ hist' \in History /\ hist'.hits = hist.hits /\ hist'.rejected = hist.rejected
      /\ hist'.found = hist.found /\ hist'.analysed = o.analysed /\ hist'.trimmed = hist.trimmed
  BY <1>1, <1>2, <1>3 DEF History, Inputs
<1>5. Scanned'
  BY <1>1, <1>2, <1>3, <1>4 DEF IInv, Scanned, NoteUnscanned
<1>6. QED
  BY <1>3, <1>4, <1>5, EarlyStep DEF Unmerged

LEMMA FirstPassTimesOutStep == ASSUME IInv, FirstPassTimesOut PROVE IInv'
<1>1. /\ pc = "gather" /\ pc' = "retry" /\ result' = result /\ UNCHANGED <<secrets, hist>>
      /\ partial' = TRUE /\ hist.analysed = {}
  BY DEF FirstPassTimesOut, Continue, IInv, Scanned
<1>2. Scanned'
  BY <1>1 DEF Scanned
<1>3. QED
  BY <1>1, <1>2, EarlyStep DEF IInv, Typed, Unmerged

LEMMA FirstPassUnavailableStep == ASSUME IInv, FirstPassUnavailable PROVE IInv'
<1>1. /\ pc = "gather" /\ UNCHANGED <<secrets, partial, unscanned, hist>> /\ is_gate' = is_gate
      /\ ReturnEarly("advisory", TRUE, files)
  BY DEF FirstPassUnavailable, setup
<1>2. /\ hist \in History /\ hist.found = {} /\ hist.analysed = {} /\ hist.rejected \subseteq Hit
      /\ hist.hits \ hist.rejected \subseteq secrets
      /\ (hist.trimmed \cup unscanned # {} => partial = TRUE)
  BY <1>1 DEF IInv, Typed, Carried, Scanned, Unmerged
<1>3. QED
  BY <1>1, <1>2, ReturnEarlyStep

LEMMA RetryStep == ASSUME IInv, Retry \/ SkipRetry PROVE IInv'
<1>1. pc = "retry" /\ UNCHANGED <<secrets, partial, unscanned, files, hist>>
  BY DEF Retry, SkipRetry
<1>2. CASE Return(Crash)
  BY <1>1, <1>2, ErrorStep
<1>3. CASE Continue("merge")
  <2>1. pc' = "merge" /\ result' = result
    BY <1>3 DEF Continue
  <2>2. Scanned'
    BY <1>1, <2>1 DEF IInv, Scanned
  <2>3. QED
    BY <1>1, <2>1, <2>2, EarlyStep DEF IInv, Typed, Unmerged
<1>4. QED
  BY <1>2, <1>3 DEF Retry, SkipRetry

LEMMA FailureStep == ASSUME IInv, FetchFails \/ RefuseOversized \/ Promotion PROVE IInv'
<1>1. UNCHANGED <<secrets, partial, unscanned, hist>> /\ \E error \in {Crash, ScanFailed} : Return(error)
  BY DEF FetchFails, RefuseOversized, Promotion, BadRequest, RequestErrors
<1>2. QED
  BY <1>1, ErrorStep

-------------------------------------------------------------------------------
(***************************************************************************)
(* The candidates and their verdicts                                       *)
(***************************************************************************)

\* What the merge of the first pass and the scanners can make of them.
LEMMA MergeStep == ASSUME Inputs, IInv, Merge PROVE IInv'
<1>1. PICK valid \in Usable(raw) : \E match \in Matchings(valid),
          sev \in [valid \cup agg -> {"Critical", "High", "Medium"}],
          conf \in [valid -> {"High", "Medium"}] :
        kept' = {Merged(l, match[l] # {}, sev[l], conf[l]) : l \in valid}
                \cup {ScannerOnly(s, sev[s]) : s \in agg \ UNION {match[l] : l \in valid}}
  BY DEF Merge
<1>2. PICK match \in Matchings(valid), sev \in [valid \cup agg -> {"Critical", "High", "Medium"}],
           conf \in [valid -> {"High", "Medium"}] :
        kept' = {Merged(l, match[l] # {}, sev[l], conf[l]) : l \in valid}
                \cup {ScannerOnly(s, sev[s]) : s \in agg \ UNION {match[l] : l \in valid}}
  BY <1>1
<1>3. valid \subseteq LLMFinding /\ agg \subseteq ScannerFinding
  BY DEF Usable, FilterFindings, Valid, Inputs
<1>4. ASSUME NEW f \in kept' PROVE f \in Unjudged /\ (f.src = "scanner" => f.conf = "Medium")
  <2>1. CASE \E l \in valid : f = Merged(l, match[l] # {}, sev[l], conf[l])
    BY <1>2, <1>3, <2>1 DEF Merged, Unjudged, Candidate
  <2>2. CASE \E s \in agg : f = ScannerOnly(s, sev[s])
    BY <1>2, <1>3, <2>2 DEF ScannerOnly, Unjudged, Candidate
  <2>3. QED
    BY <1>2, <1>4, <2>1, <2>2
<1>5. /\ pc = "merge" /\ pc' = "verify" /\ result' = result
      /\ UNCHANGED <<files, secrets, partial, unscanned>>
      /\ hist' = [hist EXCEPT !.found = Ids(kept')] /\ hist \in History
  BY DEF Merge, Continue, Ids, IInv, Typed
<1>6. Ids(kept') \subseteq Candidate
  BY <1>4 DEF Ids, Unjudged
<1>7. /\ hist' \in History /\ hist'.hits = hist.hits /\ hist'.rejected = hist.rejected
      /\ hist'.found = Ids(kept') /\ hist'.analysed = hist.analysed /\ hist'.trimmed = hist.trimmed
  BY <1>5, <1>6 DEF History
<1>8. Typed' /\ Scanned'
  BY <1>4, <1>5, <1>7 DEF IInv, Typed, Scanned, Unmerged, Judged
<1>9. Carried'
  BY <1>5, <1>7 DEF IInv, Carried, Unmerged, Judged, Ids
<1>10. Lanes'
  BY <1>4, <1>5 DEF Lanes, Judged
<1>11. QED
  BY <1>5, <1>8, <1>9, <1>10, ContinueKeepsFinal DEF IInv

\* A verdict decides where a candidate goes, and only "rejected" drops it.
LEMMA VerifyCandidatesStep == ASSUME IInv, VerifyCandidates PROVE IInv'
<1>1. PICK verdict \in [hist.found -> Verdicts] :
        /\ kept' = {Judge(f, verdict[f.id]) : f \in {g \in kept : verdict[g.id] # "rejected"}}
        /\ hist' = [hist EXCEPT !.rejected = @ \cup With(verdict, "rejected"),
                                !.confirmed = With(verdict, "real"),
                                !.advised = With(verdict, "advisory")]
  BY DEF VerifyCandidates
<1>2. /\ pc = "verify" /\ pc' = "blind" /\ result' = result /\ is_gate' = is_gate
      /\ UNCHANGED <<files, secrets, partial, unscanned>>
      /\ hist \in History /\ kept \subseteq Unjudged /\ hist.found = Ids(kept)
      /\ hist.rejected \subseteq Hit
  BY DEF VerifyCandidates, Continue, setup, IInv, Typed, Carried
<1>3. \A v : With(verdict, v) = {id \in hist.found : verdict[id] = v}
  BY DEF With
<1>4. hist.found \subseteq Candidate /\ hist.rejected \subseteq Candidate \cup Hit
  BY <1>2 DEF History
<1>5. /\ hist'.hits = hist.hits /\ hist'.found = hist.found /\ hist'.analysed = hist.analysed
      /\ hist'.trimmed = hist.trimmed
      /\ hist'.rejected = hist.rejected \cup {id \in hist.found : verdict[id] = "rejected"}
      /\ hist'.confirmed = {id \in hist.found : verdict[id] = "real"}
      /\ hist'.advised = {id \in hist.found : verdict[id] = "advisory"}
      /\ hist' \in History
  <2>1. PICK rejected, confirmed, advised :
          /\ rejected = hist.rejected \cup With(verdict, "rejected")
          /\ confirmed = With(verdict, "real") /\ advised = With(verdict, "advisory")
    OBVIOUS
  <2>2. hist' = [hist EXCEPT !.rejected = rejected, !.confirmed = confirmed, !.advised = advised]
    BY <1>1, <2>1
  <2>3. /\ rejected \subseteq Candidate \cup Hit /\ confirmed \subseteq Candidate
        /\ advised \subseteq Candidate
    BY <1>3, <1>4, <2>1
  <2>4. /\ hist' \in History /\ hist'.hits = hist.hits /\ hist'.found = hist.found
        /\ hist'.analysed = hist.analysed /\ hist'.trimmed = hist.trimmed
        /\ hist'.rejected = rejected /\ hist'.confirmed = confirmed /\ hist'.advised = advised
    BY <1>2, <2>2, <2>3 DEF History
  <2>5. QED
    BY <1>3, <2>1, <2>4
<1>6. ASSUME NEW f \in kept'
      PROVE  /\ f \in Finding /\ f.id \in hist.found /\ verdict[f.id] # "rejected"
             /\ (f.status = "verified" => verdict[f.id] = "real")
             /\ (f.status # "advisory_real" => verdict[f.id] # "advisory")
             /\ (f.src = "scanner" => f.conf = "Medium")
  <2>1. PICK g \in kept : f = Judge(g, verdict[g.id]) /\ verdict[g.id] # "rejected"
    BY <1>1, <1>6
  <2>2. g \in Unjudged /\ g.id \in hist.found /\ (g.src = "scanner" => g.conf = "Medium")
    BY <1>2 DEF Ids, IInv, Lanes
  <2>3. /\ f.id = g.id /\ f.src = g.src /\ f.sev = g.sev /\ f.conf = g.conf
        /\ f.status = CASE verdict[g.id] = "real" -> "verified"
                        [] verdict[g.id] = "advisory" -> "advisory_real"
                        [] OTHER -> "unverified"
        /\ f = [id |-> g.id, src |-> g.src, sev |-> g.sev, conf |-> g.conf, status |-> f.status]
    BY <2>1 DEF Judge, ToFinding
  <2>4. f.status \in Status
    BY <2>3 DEF Status
  <2>5. f \in Finding
    BY <2>2, <2>3, <2>4 DEF Finding, Unjudged
  <2>6. QED
    BY <2>1, <2>2, <2>3, <2>5
<1>7. ASSUME NEW id \in hist.found, verdict[id] # "rejected" PROVE id \in Ids(kept')
  <2>1. PICK g \in kept : g.id = id
    BY <1>2, <1>7 DEF Ids
  <2>2. Judge(g, verdict[g.id]) \in kept'
    BY <1>1, <1>7, <2>1
  <2>3. Judge(g, verdict[g.id]).id = id
    BY <2>1 DEF Judge, ToFinding
  <2>4. QED
    BY <2>2, <2>3 DEF Ids
<1>8. Typed' /\ Scanned'
  BY <1>2, <1>5, <1>6 DEF IInv, Typed, Scanned, Unmerged, Judged
<1>9. Carried'
  BY <1>2, <1>5, <1>7 DEF IInv, Carried, Unmerged, Judged, Ids
<1>10. ASSUME NEW f \in kept' PROVE Vouched(f)'
  <2>1. f.id \notin hist.rejected
    BY <1>2, <1>4, <1>6, FindingsAreDistinct DEF Candidate
  <2>2. QED
    BY <1>2, <1>5, <1>6, <2>1 DEF Vouched
<1>11. Lanes'
  BY <1>2, <1>6, <1>10 DEF Lanes, Judged
<1>12. QED
  BY <1>2, <1>8, <1>9, <1>11, ContinueKeepsFinal DEF IInv

\* Only the claude-only Critical findings get a new status, and a good one only
\* from a blind answer that agrees.
LEMMA VerifyBlindStep == ASSUME IInv, VerifyBlind PROVE IInv'
<1>1. /\ pc = "blind" /\ pc' = "consolidate" /\ result' = result /\ is_gate' = is_gate
      /\ UNCHANGED <<files, secrets, partial, unscanned>> /\ hist \in History
      /\ kept \subseteq Finding /\ \A f \in kept : Vouched(f) /\ (f.src = "scanner" => f.conf = "Medium")
  BY DEF VerifyBlind, Continue, setup, IInv, Typed, Lanes, Judged
<1>2. CASE ~is_gate
  <2>1. UNCHANGED <<kept, hist>>
    BY <1>2 DEF VerifyBlind
  <2>2. Typed' /\ Carried' /\ Scanned'
    BY <1>1, <2>1 DEF IInv, Typed, Carried, Scanned, Unmerged, Judged, Ids
  <2>3. Lanes'
    BY <1>1, <1>2, <2>1 DEF Lanes, Vouched
  <2>4. QED
    BY <1>1, <2>2, <2>3, ContinueKeepsFinal DEF IInv
<1>3. CASE is_gate
  <2>1. PICK yes \in SUBSET ToVerifyBlind :
          /\ kept' = (kept \ ToVerifyBlind) \cup {BlindVerdict(f, f \in yes) : f \in ToVerifyBlind}
          /\ hist' = [hist EXCEPT !.agreed = {f.id : f \in yes}]
    BY <1>3 DEF VerifyBlind
  <2>2. {f.id : f \in yes} \subseteq Candidate
    BY <1>1 DEF ToVerifyBlind, Finding
  <2>a. PICK agreed : agreed = {f.id : f \in yes}
    OBVIOUS
  <2>3. /\ hist' \in History /\ hist'.hits = hist.hits /\ hist'.rejected = hist.rejected
        /\ hist'.found = hist.found /\ hist'.analysed = hist.analysed
        /\ hist'.trimmed = hist.trimmed /\ hist'.confirmed = hist.confirmed
        /\ hist'.advised = hist.advised /\ hist'.agreed = agreed
    <3>1. hist' = [hist EXCEPT !.agreed = agreed] /\ agreed \subseteq Candidate
      BY <2>1, <2>2, <2>a
    <3>2. QED
      BY <1>1, <3>1 DEF History
  <2>4. ASSUME NEW f \in ToVerifyBlind
        PROVE  /\ BlindVerdict(f, f \in yes) \in Finding /\ BlindVerdict(f, f \in yes).id = f.id
               /\ BlindVerdict(f, f \in yes).src = "claude" /\ BlindVerdict(f, f \in yes).sev = "Critical"
               /\ (BlindVerdict(f, f \in yes).status = "verified" => f \in yes)
    <3>1. f \in Finding /\ f.src = "claude" /\ f.sev = "Critical"
      BY <1>1 DEF ToVerifyBlind
    <3>2. PICK status \in Status : /\ status = IF f \in yes THEN "verified" ELSE "conflicting"
      BY DEF Status
    <3>3. BlindVerdict(f, f \in yes) = [f EXCEPT !.status = status]
      BY <3>2 DEF BlindVerdict
    <3>4. QED
      BY <3>1, <3>2, <3>3 DEF Finding
  <2>5. ASSUME NEW f \in kept'
        PROVE  f \in Finding /\ Vouched(f)' /\ (f.src = "scanner" => f.conf = "Medium")
    <3>1. CASE f \in kept \ ToVerifyBlind
      BY <1>1, <2>3, <3>1 DEF ToVerifyBlind, Vouched
    <3>2. CASE \E g \in ToVerifyBlind : f = BlindVerdict(g, g \in yes)
      <4>1. PICK g \in ToVerifyBlind : f = BlindVerdict(g, g \in yes)
        BY <3>2
      <4>2. /\ f \in Finding /\ f.id = g.id /\ f.src = "claude" /\ f.sev = "Critical"
            /\ (f.status = "verified" => g \in yes)
        BY <2>4, <4>1
      <4>3. f.status = "verified" => f.id \in hist'.agreed
        BY <2>3, <2>a, <4>2
      <4>4. QED
        BY <4>2, <4>3 DEF Vouched
    <3>3. QED
      BY <2>1, <2>5, <3>1, <3>2
  <2>6. ASSUME NEW id \in Ids(kept) PROVE id \in Ids(kept')
    <3>1. PICK f \in kept : f.id = id
      BY <2>6 DEF Ids
    <3>2. CASE f \in ToVerifyBlind
      <4>1. BlindVerdict(f, f \in yes) \in kept'
        BY <2>1, <3>2
      <4>2. QED
        BY <2>4, <3>1, <3>2, <4>1 DEF Ids
    <3>3. CASE f \notin ToVerifyBlind
      BY <2>1, <3>1, <3>3 DEF Ids
    <3>4. QED
      BY <3>2, <3>3
  <2>7. Typed' /\ Scanned'
    BY <1>1, <2>3, <2>5 DEF IInv, Typed, Scanned, Unmerged, Judged
  <2>8. Carried'
    BY <1>1, <2>3, <2>6 DEF IInv, Carried, Unmerged, Judged
  <2>9. Lanes'
    BY <2>5 DEF Lanes
  <2>10. QED
    BY <1>1, <2>7, <2>8, <2>9, ContinueKeepsFinal DEF IInv
<1>4. QED
  BY <1>2, <1>3

\* Consolidation promotes nothing and strengthening a fix loses no finding.
LEMMA PassOnStep == ASSUME IInv, NoPromotion \/ QualityGate PROVE IInv'
<1>1. /\ pc \in {"consolidate", "quality"} /\ pc' \in {"quality", "decide"} /\ result' = result
      /\ UNCHANGED <<files, secrets, partial, unscanned, hist>> /\ is_gate' = is_gate
  BY DEF NoPromotion, QualityGate, Continue, setup
<1>2. kept' = kept
  BY DEF NoPromotion, QualityGate, Weak, Strengthened
<1>3. Typed' /\ Carried' /\ Scanned'
  BY <1>1, <1>2 DEF IInv, Typed, Carried, Scanned, Unmerged, Judged, Ids
<1>4. Lanes'
  BY <1>1, <1>2 DEF IInv, Lanes, Judged, Vouched
<1>5. QED
  BY <1>1, <1>3, <1>4, ContinueKeepsFinal DEF IInv

-------------------------------------------------------------------------------
(***************************************************************************)
(* The decision                                                            *)
(***************************************************************************)

\* The status of a finding that blocks is one the verdicts stand behind.
LEMMA BlockingFindingIsVouched ==
    ASSUME IInv, pc = "decide", is_gate, NEW f \in kept, should_block(f)
    PROVE  /\ f.src # "scanner" /\ f.conf = "High"
           /\ \/ f.sev = "High" /\ f.id \notin hist.rejected \cup hist.advised
              \/ f.sev = "Critical" /\ f.id \in hist.confirmed /\ f.src = "both"
              \/ f.sev = "Critical" /\ f.id \in hist.agreed /\ f.src = "claude"
<1>1. f \in Finding /\ Vouched(f) /\ (f.src = "scanner" => f.conf = "Medium")
  BY DEF IInv, Typed, Lanes, Judged
<1>2. f.src \in {"claude", "scanner", "both"}
  BY <1>1 DEF Finding
<1>3. QED
  BY <1>1, <1>2 DEF should_block, Vouched

LEMMA DecideStep == ASSUME Inputs, IInv, Decide PROVE IInv'
<1>1. /\ pc = "decide" /\ pc' = "done" /\ is_gate' = is_gate
      /\ UNCHANGED <<files, secrets, partial, unscanned, hist>>
      /\ result' = [decision |-> Gate(kept, secrets, partial), findings |-> kept,
                    secrets |-> secrets, partial |-> partial, unscanned |-> unscanned]
  BY DEF Decide, Return, setup
<1>2. /\ result'.decision = Gate(kept, secrets, partial) /\ result'.findings = kept
      /\ result'.secrets = secrets /\ result'.partial = partial /\ result'.unscanned = unscanned
  BY <1>1
<1>3. Typed' /\ Carried' /\ Scanned' /\ Lanes'
  BY <1>1 DEF IInv, Typed, Carried, Scanned, Lanes, Unmerged, Judged
<1>4. BlockIsJustified'
  <2>1. SUFFICES ASSUME Gate(kept, secrets, partial) = "blocked" PROVE BlockIsJustified'
    BY <1>2 DEF BlockIsJustified
  <2>2. is_gate /\ Blocks(kept, secrets)
    BY <2>1, GateDecides DEF Inputs
  <2>3. secrets # {} \/ \E f \in kept : should_block(f)
    BY <2>2 DEF Blocks
  <2>4. QED
    BY <1>1, <1>2, <2>2, <2>3, BlockingFindingIsVouched DEF BlockIsJustified
<1>5. PassIsClean'
  <2>1. SUFFICES ASSUME Gate(kept, secrets, partial) = "pass" PROVE PassIsClean'
    BY <1>2 DEF PassIsClean
  <2>2. kept = {} /\ secrets = {} /\ ~partial
    BY <2>1, GateDecides DEF Inputs
  <2>3. hist.trimmed = {} /\ unscanned = {}
    BY <2>2 DEF IInv, Scanned
  <2>4. hist.hits \subseteq hist.rejected /\ hist.found \subseteq hist.rejected
    BY <1>1, <2>2 DEF IInv, Carried, Judged, Ids
  <2>5. QED
    BY <1>1, <1>2, <2>2, <2>3, <2>4 DEF PassIsClean
<1>6. NothingDroppedSilently'
  BY <1>1, <1>2 DEF NothingDroppedSilently, Reported, IInv, Carried, Judged, Ids
<1>7. UnscannedIsTrue'
  BY <1>1, <1>2 DEF UnscannedIsTrue, IInv, Scanned
<1>8. QED
  BY <1>1, <1>3, <1>4, <1>5, <1>6, <1>7 DEF IInv, Final

LEMMA StepPreservesIInv == ASSUME Inputs, IInv, [Next]_vars PROVE IInv'
<1>1. CASE FetchFails \/ RefuseOversized \/ Promotion
  BY <1>1, FailureStep
<1>2. CASE Fetch
  BY <1>2, FetchStep
<1>3. CASE StripSecrets
  BY <1>3, StripSecretsStep
<1>4. CASE FitsBudget
  BY <1>4, FitsBudgetStep
<1>5. CASE Trim
  BY <1>5, TrimStep
<1>6. CASE FirstPassReturns
  BY <1>6, FirstPassReturnsStep
<1>7. CASE FirstPassTimesOut
  BY <1>7, FirstPassTimesOutStep
<1>8. CASE FirstPassUnavailable
  BY <1>8, FirstPassUnavailableStep
<1>9. CASE Retry \/ SkipRetry
  BY <1>9, RetryStep
<1>10. CASE Merge
  BY <1>10, MergeStep
<1>11. CASE VerifyCandidates
  BY <1>11, VerifyCandidatesStep
<1>12. CASE VerifyBlind
  BY <1>12, VerifyBlindStep
<1>13. CASE NoPromotion \/ QualityGate
  BY <1>13, PassOnStep
<1>14. CASE Decide
  BY <1>14, DecideStep
<1>15. CASE Layer1Ends
  BY <1>15, Layer1EndsStep
<1>16. CASE UNCHANGED vars
  <2>1. UNCHANGED <<pc, is_gate, files, secrets, partial, unscanned, kept, result, hist>>
    BY <1>16 DEF vars
  <2>2. Typed' /\ Carried' /\ Scanned'
    BY <2>1 DEF IInv, Typed, Carried, Scanned, Ids
  <2>3. Lanes' /\ Final'
    BY <2>1 DEF IInv, Lanes, Vouched, Final, BlockIsJustified, PassIsClean,
       NothingDroppedSilently, UnscannedIsTrue, Delivered, Reported
  <2>4. QED
    BY <2>2, <2>3 DEF IInv
<1>17. QED
  BY <1>1, <1>2, <1>3, <1>4, <1>5, <1>6, <1>7, <1>8, <1>9, <1>10, <1>11, <1>12, <1>13, <1>14,
     <1>15, <1>16 DEF Next, Run, FirstPass

-------------------------------------------------------------------------------
(***************************************************************************)
(* Types of what the invariant does not need                               *)
(***************************************************************************)
Outputs == /\ is_gate \in BOOLEAN /\ client \in Clients
           /\ unscanned \in SUBSET File /\ secrets \in SUBSET Hit
           /\ layer1 \in {"off", "running", "done"}
           /\ kept \in (SUBSET Unjudged) \cup (SUBSET Finding)
           /\ result \in Result \cup {NoResult, Crash}

\* Each of the four decisions is one.
LEMMA GateIsADecision ==
    ASSUME NEW findings, NEW hits, NEW is_partial
    PROVE  Gate(findings, hits, is_partial) \in Decisions
BY DEF Gate, Decisions

LEMMA ErrorsAreResults == ScanFailed \in Result /\ Crash \in Result \cup {NoResult, Crash}
BY DEF ScanFailed, Crash, Result, Decisions

\* A return with nothing found is a result.
LEMMA EarlyIsAResult ==
    ASSUME NEW decision \in Decisions, NEW is_partial \in BOOLEAN, NEW left_out \in SUBSET File,
           secrets' \in SUBSET Hit, ReturnEarly(decision, is_partial, left_out)
    PROVE  result' \in Result
BY DEF ReturnEarly, Return, Result

LEMMA OutputsPreserved ==
    ASSUME Inputs, IInv, IInv', Outputs, [Next]_vars
    PROVE  Outputs'
<1>1. pc' = "verify" => kept' \in SUBSET Unjudged
  BY DEF IInv, Typed
<1>2. pc' \in Judged => kept' \in SUBSET Finding
  BY DEF IInv, Typed
<1>3. {"pass", "advisory", "blocked"} \subseteq Decisions
  BY DEF Decisions
<1>4. CASE FetchFails \/ RefuseOversized \/ Promotion
  BY <1>4, ErrorsAreResults DEF FetchFails, BadRequest, RequestErrors, RefuseOversized, Promotion,
     Return, setup, Outputs
<1>5. CASE Fetch
  <2>1. result' = result \/ result' \in Result
    BY <1>3, <1>5, EarlyIsAResult DEF Fetch, Continue, Outputs
  <2>2. QED
    BY <1>5, <2>1 DEF Fetch, setup, Outputs
<1>6. CASE StripSecrets
  <2>1. secrets' \in SUBSET Hit
    BY <1>6 DEF StripSecrets, Strippable
  <2>2. result' = result \/ result' \in Result
    BY <1>6, <2>1, EarlyIsAResult, GateIsADecision DEF StripSecrets, Continue
  <2>3. QED
    BY <1>6, <2>1, <2>2 DEF StripSecrets, setup, Outputs
<1>7. CASE FitsBudget
  BY <1>7 DEF FitsBudget, StartAnalysis, Continue, setup, Outputs
<1>8. CASE Trim
  <2>1. unscanned' \in SUBSET File
    BY <1>8 DEF Trim, Inputs
  <2>2. secrets' \in SUBSET Hit
    BY <1>8 DEF Trim, Outputs
  <2>3. result' = result \/ result' \in Result
    BY <1>3, <1>8, <2>1, <2>2, EarlyIsAResult DEF Trim, StartAnalysis, Continue
  <2>4. QED
    BY <1>8, <2>1, <2>2, <2>3 DEF Trim, StartAnalysis, setup, Outputs
<1>9. CASE FirstPassReturns
  <2>1. unscanned' \in SUBSET File
    BY <1>9 DEF FirstPassReturns, NoteUnscanned, Returned, Inputs, Outputs
  <2>2. QED
    BY <1>9, <2>1 DEF FirstPassReturns, Continue, setup, Outputs
<1>10. CASE FirstPassTimesOut
  BY <1>10 DEF FirstPassTimesOut, Continue, setup, Inputs, Outputs
<1>11. CASE FirstPassUnavailable
  <2>1. result' \in Result
    BY <1>3, <1>11, EarlyIsAResult DEF FirstPassUnavailable, Inputs, Outputs
  <2>2. QED
    BY <1>11, <2>1 DEF FirstPassUnavailable, setup, Outputs
<1>12. CASE Retry \/ SkipRetry
  BY <1>12, ErrorsAreResults DEF Retry, SkipRetry, Continue, Return, setup, Outputs
<1>13. CASE Merge
  <2>1. pc' = "verify"
    BY <1>13 DEF Merge, Continue
  <2>2. QED
    BY <1>1, <1>13, <2>1 DEF Merge, Continue, setup, Outputs
<1>14. CASE VerifyCandidates \/ VerifyBlind \/ QualityGate
  <2>1. pc' \in Judged
    BY <1>14 DEF VerifyCandidates, VerifyBlind, QualityGate, Continue, Judged
  <2>2. UNCHANGED <<is_gate, client, unscanned, secrets, layer1, result>>
    BY <1>14 DEF VerifyCandidates, VerifyBlind, QualityGate, Continue, setup
  <2>3. QED
    BY <1>2, <2>1, <2>2 DEF Outputs
<1>15. CASE NoPromotion
  BY <1>15 DEF NoPromotion, Continue, setup, Outputs
<1>16. CASE Decide
  <2>1. kept \in SUBSET Finding
    BY <1>16 DEF Decide, IInv, Typed, Judged
  <2>2. result' \in Result
    BY <1>16, <2>1, GateIsADecision DEF Decide, Return, Result, Inputs, Outputs
  <2>3. QED
    BY <1>16, <2>2 DEF Decide, setup, Outputs
<1>17. CASE Layer1Ends
  BY <1>17 DEF Layer1Ends, setup, Outputs
<1>18. CASE UNCHANGED vars
  BY <1>18 DEF vars, Outputs
<1>19. QED
  BY <1>4, <1>5, <1>6, <1>7, <1>8, <1>9, <1>10, <1>11, <1>12, <1>13, <1>14, <1>15, <1>16, <1>17,
     <1>18 DEF Next, Run, FirstPass

-------------------------------------------------------------------------------
(***************************************************************************)
(* Theorems                                                                *)
(***************************************************************************)

\* Whatever was found and not rejected is carried to the result, and a status
\* never says more than the verdicts the finding got.
THEOREM Invariance == Spec => []IInv
<1>1. Init /\ []Inputs /\ [][Next]_vars => []IInv
  BY InitEstablishesIInv, StepPreservesIInv, PTL
<1>2. QED
  BY <1>1, InputsHold, PTL DEF Spec

\* Types: a run keeps sets of the files, hits and findings it was given, and
\* returns a result or fails, whatever it is answered.
THEOREM TypeCorrect == Spec => []TypeOK
<1>1. Init => Outputs
  BY DEF Init, Outputs
<1>2. Inputs /\ IInv /\ IInv' /\ Outputs /\ [Next]_vars => Outputs'
  BY OutputsPreserved
<1>3. Inputs /\ IInv /\ Outputs => TypeOK
  BY DEF Inputs, IInv, Typed, Outputs, Unmerged, Judged, TypeOK
<1>4. QED
  BY <1>1, <1>2, <1>3, InputsHold, Invariance, PTL DEF Spec

\* Only the gate blocks (step 15, pipeline.py), and only on a secret or on a
\* finding whose verdicts justify it.
THEOREM BlockIsJustifiedHolds == Spec => []BlockIsJustified
BY Invariance, PTL DEF IInv, Final

\* A pass of the gate hides no file, no hit and no candidate.
THEOREM PassIsCleanHolds == Spec => []PassIsClean
BY Invariance, PTL DEF IInv, Final

\* The verifiers and every early return fail safe: nothing that was found and
\* not rejected is missing from a delivered result.
THEOREM NothingDroppedSilentlyHolds == Spec => []NothingDroppedSilently
BY Invariance, PTL DEF IInv, Final

\* The list of unscanned files of a result names no file that was analysed.
THEOREM UnscannedIsTrueHolds == Spec => []UnscannedIsTrue
BY Invariance, PTL DEF IInv, Final
===============================================================================
