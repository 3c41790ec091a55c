---------------------------- MODULE DeploymentGate ----------------------------
(***************************************************************************)
(* The CI gate from the job's side: POST /agent/scan and POST /agent/bypass *)
(* (agent/api.py) behind the token check of agent/auth.py and the key cache *)
(* of agent/oidc.py, the organisation's settings that choose the model and  *)
(* the Slack alert, and the job that waits for the answer                   *)
(* (scripts/run_gate.sh).                                                   *)
(*                                                                         *)
(* Jobs, the keys GitHub signs tokens with and the settings move            *)
(* independently; a request is cut at each of its awaits.  The pipeline is  *)
(* one step with any verdict (ScanPipeline); what is recorded beside the    *)
(* provider is in ScanRequests.  Of a token only its key counts, and        *)
(* whether its signature and claims would pass; the bearer that is no JWT   *)
(* has the key Static.  The keys' lock makes a lookup one step.             *)
(***************************************************************************)
EXTENDS Naturals

CONSTANTS
    Jobs,      \* CI jobs, one scan each
    Keys,      \* kids of GitHub's JWKS
    Static,    \* the token is compared with PHRASE_SCAN_TOKEN instead
    MaxSaves   \* BOUND: rows saved to org_settings

ASSUME StaticIsNoKey == Static \notin Keys /\ MaxSaves \in Nat

Providers == {"anthropic", "google"}
None == "none"

VARIABLES
    published, \* the keys at GITHUB_OIDC_JWKS_URL
    retired,   \* the keys that were there before
    up,        \* the URL can be fetched
    cache,     \* _default_cache: the keys, and whether they are within the TTL
    org,       \* the latest row of org_settings
    job        \* the state of each job

vars == <<published, retired, up, cache, org, job>>
github == <<published, retired, up>>

(***************************************************************************)
(* Types                                                                   *)
(***************************************************************************)
\* Row 0 is the bootstrap window, in which the environment has a key for one
\* provider.
Org == [id : 0..MaxSaves, default : Providers, keys : SUBSET Providers]

\* kid: the key of the token it comes with, good: the token has no other fault.
\* "posted", "bypassing": the request is at the token check; "entered",
\* "allowed": behind it.  client: the provider of the scan's client, chosen: by
\* provider_choice; row: the settings it was built from.  readable: run_gate.sh
\* will manage to read the answer; blocked: history, the pipeline said so.  alert:
\* what became of the bypass alert.
Job == [pc : {"posted", "entered", "choosing", "running", "recording", "answered",
              "bypassing", "allowed", "deployed", "stopped"},
        kid : Keys \cup {Static}, good : BOOLEAN, chosen : BOOLEAN,
        client : Providers \cup {None}, row : 0..MaxSaves,
        verdict : {"pass", "blocked", "advisory", "scan_failed", "bypassed", None},
        critical : BOOLEAN, readable : BOOLEAN, blocked : BOOLEAN, justified : BOOLEAN,
        booked : Providers \cup {None}, bookedRow : 0..MaxSaves,
        alert : {"suppressed", "sent", "failed", None}]

TypeOK ==
    /\ published \in (SUBSET Keys) \ {{}} /\ retired \subseteq Keys /\ up \in BOOLEAN
    /\ cache \in [keys : SUBSET Keys, fresh : BOOLEAN]
    /\ org \in Org
    /\ job \in [Jobs -> Job]

Idle(pc) == [pc |-> pc, kid |-> Static, good |-> FALSE, chosen |-> FALSE,
             client |-> None, row |-> 0, verdict |-> None, critical |-> FALSE,
             readable |-> TRUE, blocked |-> FALSE, justified |-> FALSE,
             booked |-> None, bookedRow |-> 0, alert |-> None]

\* A workflow run's request before the token check, with a new token.
Post(kid, good) == [Idle("posted") EXCEPT !.kid = kid, !.good = good]

Init ==
    /\ \E k \in Keys : published = {k}
    /\ retired = {} /\ up = TRUE
    /\ cache = [keys |-> {}, fresh |-> FALSE]
    /\ \E p \in Providers :
          org = [id |-> 0, default |-> p, keys |-> {p}]
    /\ job \in [Jobs -> {Post(kid, good) : kid \in Keys \cup {Static}, good \in BOOLEAN}]

Goto(j, pc) == job' = [job EXCEPT ![j].pc = pc]

-------------------------------------------------------------------------------
(***************************************************************************)
(* GitHub's keys, time and the admin                                       *)
(***************************************************************************)
Publish(k) ==
    /\ k \notin published \cup retired
    /\ published' = published \cup {k}
    /\ UNCHANGED <<retired, up, cache, org, job>>

Retire(k) ==
    /\ k \in published /\ published # {k}
    /\ published' = published \ {k}
    /\ retired' = retired \cup {k}
    /\ UNCHANGED <<up, cache, org, job>>

Outage ==
    /\ up' = ~up
    /\ UNCHANGED <<published, retired, cache, org, job>>

\* _JWKS_TTL_SECONDS pass.
Age ==
    /\ cache.fresh
    /\ cache' = [cache EXCEPT !.fresh = FALSE]
    /\ UNCHANGED <<github, org, job>>

SaveOrg ==
    /\ org.id < MaxSaves
    /\ org' \in [id : {org.id + 1}, default : Providers, keys : SUBSET Providers]
    /\ UNCHANGED <<github, cache, job>>

-------------------------------------------------------------------------------
(***************************************************************************)
(* verify_scan_token                                                       *)
(***************************************************************************)
\* Mutant of Refetch: known keys are never asked for again.
RefetchUnknown(kid) == kid \notin cache.keys

Refetch(kid) == ~cache.fresh \/ kid \notin cache.keys

\* _JwksCache.get: the cache as a lookup leaves it; a failed fetch keeps the
\* last known keys and their time.
Lookup(kid) ==
    IF Refetch(kid) /\ up THEN [keys |-> published, fresh |-> TRUE] ELSE cache

\* GitHub's token if it is one, else the static token.
Valid(j) ==
    /\ job[j].good
    /\ job[j].kid # Static => job[j].kid \in Lookup(job[j].kid).keys

\* The token is not looked at again.
Pass(j, pc) == job' = [job EXCEPT ![j].pc = pc, ![j].kid = Static, ![j].good = FALSE]

\* Behind the check the scan's request is "entered", the bypass's "allowed";
\* a 401 is answered otherwise.
VerifyToken(j) ==
    /\ job[j].pc \in {"posted", "bypassing"}
    /\ cache' = IF job[j].kid = Static THEN cache ELSE Lookup(job[j].kid)
    /\ IF Valid(j)
       THEN Pass(j, IF job[j].pc = "posted" THEN "entered" ELSE "allowed")
       ELSE Pass(j, IF job[j].pc = "posted" THEN "answered" ELSE "stopped")
    /\ UNCHANGED <<github, org>>

-------------------------------------------------------------------------------
(***************************************************************************)
(* POST /agent/scan                                                        *)
(***************************************************************************)
\* build_org_llm_client_from_settings, or build_llm_client without a row.
Build(j, provider, chosen) ==
    job' = [job EXCEPT ![j].client = provider, ![j].row = org.id, ![j].chosen = chosen,
                       ![j].pc = "running"]

\* get_pipeline: a client for the default provider; 500 if its key is missing.
\* A request with a provider_choice goes on choosing, one with a bad repo_url
\* gets its 422.
GetPipeline(j) ==
    /\ job[j].pc = "entered"
    /\ \/ org.default \in org.keys /\ Build(j, org.default, FALSE)
       \/ org.default \in org.keys /\ Goto(j, "choosing")
       \/ Goto(j, "answered")
    /\ UNCHANGED <<github, cache, org>>

\* The settings are read again for provider_choice; 422 without a row or key.
ChooseProvider(j) ==
    /\ job[j].pc = "choosing"
    /\ \E choice \in Providers :
          IF org.id > 0 /\ choice \in org.keys THEN Build(j, choice, TRUE)
                                               ELSE Goto(j, "answered")
    /\ UNCHANGED <<github, cache, org>>

Outcomes == {"pass", "blocked", "advisory", "scan_failed"}

\* The job with its decision.  An answer past the length of one argument of a
\* program cannot be read by run_gate.sh; that makes a difference to a blocked one.
Decided(jb, v, critical, readable) ==
    [jb EXCEPT !.verdict = v, !.critical = critical, !.readable = readable,
               !.blocked = (v = "blocked"),
               !.pc = IF v = "scan_failed" THEN "answered" ELSE "recording"]

\* run returns or raises; TokenLimitError becomes advisory, anything else
\* scan_failed, and that is not recorded.
RunScan(j) ==
    /\ job[j].pc = "running"
    /\ \E v \in Outcomes, critical, readable \in BOOLEAN :
        /\ critical \/ ~readable => v = "blocked"
        /\ job' = [job EXCEPT ![j] = Decided(@, v, critical, readable)]
    /\ UNCHANGED <<github, cache, org>>

\* Mutant of BookedAs: the provider that has a key, not the default one.
BookedAsKeyHolder ==
    IF org.id = 0 \/ "anthropic" \in org.keys THEN "anthropic" ELSE "google"

\* _persist_ci_scan reads the settings again, for the provider to book.
BookedAs == IF org.id = 0 THEN "anthropic" ELSE org.default

Persist(j) ==
    /\ job[j].pc = "recording"
    /\ job' = [job EXCEPT ![j].pc = "answered", ![j].booked = BookedAs,
                          ![j].bookedRow = org.id]
    /\ UNCHANGED <<github, cache, org>>

\* Building the report or the transaction fails; that is logged.
PersistFails(j) ==
    /\ job[j].pc = "recording"
    /\ Goto(j, "answered")
    /\ UNCHANGED <<github, cache, org>>

-------------------------------------------------------------------------------
(***************************************************************************)
(* run_gate.sh                                                             *)
(***************************************************************************)
\* Any other decision proceeds, an error body (read as scan_failed) too, and so
\* does the empty one: if python3 cannot be started on the answer or raises, the
\* here-document is an empty line, and set -e does not see it.
Stops(jb) == jb.verdict = "blocked" /\ jb.readable

\* What is kept of an answered job whose scan said "blocked".
Ended(jb, pc) == [Idle(pc) EXCEPT !.verdict = jb.verdict, !.critical = jb.critical,
                                  !.readable = jb.readable, !.blocked = jb.blocked,
                                  !.justified = jb.justified]

Evaluate(j) ==
    /\ job[j].pc = "answered"
    /\ job' = [job EXCEPT ![j] = IF Stops(@) THEN Ended(@, "stopped")
                                ELSE IF @.blocked THEN Ended(@, "deployed")
                                ELSE Idle("deployed")]
    /\ UNCHANGED <<github, cache, org>>

\* curl --max-time expires or the connection breaks: set -e ends the script,
\* and the server stops working on the request.
GiveUp(j) ==
    /\ job[j].pc \in {"posted", "entered", "choosing", "running", "recording"}
    /\ job' = [job EXCEPT ![j] = Idle("stopped")]
    /\ UNCHANGED <<github, cache, org>>

-------------------------------------------------------------------------------
(***************************************************************************)
(* POST /agent/bypass                                                      *)
(***************************************************************************)
\* A developer has the workflow send the blocked result back.
AskBypass(j) ==
    /\ job[j].pc = "stopped" /\ job[j].verdict = "blocked"
    /\ \E justified, good \in BOOLEAN, kid \in Keys \cup {Static} :
          job' = [job EXCEPT ![j].pc = "bypassing", ![j].justified = justified,
                             ![j].kid = kid, ![j].good = good]
    /\ UNCHANGED <<github, cache, org>>

\* Mutant of MayBypass: findings are not looked at.
MayBypassAny(j) == TRUE

\* BR-002: a Critical finding needs a written justification.
MayBypass(j) == job[j].critical => job[j].justified

\* _post_to_slack: a missing webhook, an error, a timeout or an answer that is
\* not "ok" is a failure, which is logged.
PostToSlack == {"sent", "failed"}

\* send_bypass_alert under a bypass_slack_mode.
SendBypassAlert(mode, caller) ==
    IF mode = "none" \/ (mode = "dev_only" /\ caller = "master")
    THEN {"suppressed"} ELSE PostToSlack

Bypass(j) ==
    /\ job[j].pc = "allowed"
    /\ IF MayBypass(j)
       THEN \E mode \in {"all", "dev_only", "none"}, caller \in {"master", "developer"} :
              \E alert \in SendBypassAlert(mode, caller) :
                 job' = [job EXCEPT ![j].pc = "answered", ![j].verdict = "bypassed",
                                    ![j].alert = alert]
       ELSE job' = [job EXCEPT ![j].pc = "stopped", ![j].justified = FALSE]
    /\ UNCHANGED <<github, cache, org>>

-------------------------------------------------------------------------------
Scan(j) == \/ VerifyToken(j) \/ GetPipeline(j) \/ ChooseProvider(j) \/ RunScan(j)
           \/ Persist(j) \/ PersistFails(j)

Environment == \/ \E k \in Keys : Publish(k) \/ Retire(k)
               \/ Outage \/ Age \/ SaveOrg

Next == \/ \E j \in Jobs : Scan(j) \/ Evaluate(j) \/ GiveUp(j) \/ AskBypass(j) \/ Bypass(j)
        \/ Environment

Spec == Init /\ [][Next]_vars

(***************************************************************************)
(* Properties                                                              *)
(***************************************************************************)
Enters(j) == job[j].pc \in {"posted", "bypassing"} /\ job'[j].pc \in {"entered", "allowed"}
TurnedAway(j) == \/ job[j].pc = "posted" /\ job'[j].pc = "answered"
                 \/ job[j].pc = "bypassing" /\ job'[j].pc = "stopped"

\* The token check follows GitHub's keys as far as the cache promises: a retired
\* key opens the door only within the TTL of the last fetch or while GitHub
\* cannot be asked; a published one always does, once GitHub can be asked, however
\* new; and "a transient GitHub outage doesn't black out auth": a key the cache
\* holds goes on opening it, however old the cache, until GitHub retires it.
DoorFollowsTheKeys ==
    [][\A j \in Jobs : job[j].kid # Static =>
         /\ Enters(j) => job[j].kid \in published \/ cache.fresh \/ ~up
         /\ TurnedAway(j) /\ job[j].good =>
               /\ job[j].kid \in published => ~up
               /\ job[j].kid \in cache.keys => job[j].kid \in retired]_vars

\* A job whose scan said "blocked" is deployed only through a bypass, past
\* Critical findings only with a written justification, or because run_gate.sh
\* could not read the answer; no failed record, change of settings or refused
\* bypass on the way makes it look like anything else.
BlockedDeploysOnlyByBypass ==
    \A j \in Jobs : job[j].pc = "deployed" /\ job[j].blocked =>
        \/ job[j].verdict = "bypassed" /\ (job[j].critical => job[j].justified)
        \/ job[j].verdict = "blocked" /\ ~job[j].readable

\* "Exit code: 0 = allowed to proceed, 1 = BLOCKED" (run_gate.sh:18): a job with
\* a blocked answer is stopped by the script.
BlockedAnswerStops ==
    [][\A j \in Jobs : job[j].pc = "answered" /\ job[j].verdict = "blocked" =>
         job'[j].pc \in {"answered", "stopped"}]_vars

\* "Resolve provider/model from the same org_settings row the pipeline used":
\* a scan is booked to another provider than it used only if the settings were
\* saved while it ran, if it overrode the default, or if it ran before the
\* first save on a provider that the environment chose.
MisbookedOnlyByChange ==
    \A j \in Jobs : job[j].booked \notin {None, job[j].client} =>
        \/ job[j].bookedRow # job[j].row
        \/ job[j].chosen
        \/ job[j].bookedRow = 0 /\ job[j].client = "google"
===============================================================================
