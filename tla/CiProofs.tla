------------------------------- MODULE CiProofs -------------------------------
(***************************************************************************)
(* Theorems about the two components that meet a pull request in CI.       *)
(*                                                                         *)
(* DeploymentGate, for every number of jobs, every set of GitHub's keys    *)
(* and every number of saved settings: who gets past the token check, what *)
(* a blocked job needs to be deployed, and to whom a scan is booked.       *)
(*                                                                         *)
(* FixBranch, for every report, every set of files, every number of clones *)
(* and runs: no finding is dropped, fixes that replace no common line      *)
(* compose, no fix goes below the floor, and a push keeps the reports its  *)
(* run has fetched.  What a recursion of FixApply computes is proved by    *)
(* induction on the subsets of the fixes (SubsetsFollow), which rests on   *)
(* the well-foundedness of < on Nat.                                       *)
(***************************************************************************)
EXTENDS DeploymentGate, FixBranch, FiniteSetTheorems, SequenceTheorems,
        WellFoundedInduction, TLAPS

-------------------------------------------------------------------------------
(***************************************************************************)
(* DeploymentGate                                                          *)
(***************************************************************************)
\* What the cache holds was published once.
CacheIsOld == cache.keys \subseteq published \cup retired

\* A job's client, unless it was chosen, is that of the default provider of the
\* settings it was built from; only the latest of them are still known.
ClientIsBuilt(jb) ==
    /\ jb.pc \in {"running", "recording"} => jb.client # None
    /\ jb.client # None /\ ~jb.chosen /\ jb.row = org.id => jb.client = org.default
    /\ jb.row <= org.id

\* A scan is booked once, by the last thing its request does.
BookedAtTheEnd(jb) ==
    jb.booked # None =>
        /\ jb.pc = "answered"
        /\ \/ jb.booked = jb.client
           \/ jb.bookedRow # jb.row
           \/ jb.chosen
           \/ jb.bookedRow = 0 /\ jb.client = "google"

IInv == /\ TypeOK
        /\ CacheIsOld
        /\ \A j \in Jobs : ClientIsBuilt(job[j]) /\ BookedAtTheEnd(job[j])

-------------------------------------------------------------------------------
LEMMA IdleIsAJob ==
    ASSUME NEW pc \in {"posted", "stopped", "deployed"}
    PROVE  Idle(pc) \in Job
BY StaticIsNoKey DEF Idle, Job, Providers, None

LEMMA PostIsAJob ==
    ASSUME NEW kid \in Keys \cup {Static}, NEW good \in BOOLEAN
    PROVE  Post(kid, good) \in Job /\ Post(kid, good).client = None
           /\ Post(kid, good).row = 0 /\ Post(kid, good).booked = None
           /\ Post(kid, good).pc = "posted"
BY IdleIsAJob, ZenonT(60) DEF Post, Idle, Job

LEMMA InitEstablishesIInv == Init => IInv
<1> SUFFICES ASSUME Init PROVE IInv
  OBVIOUS
<1>1. job \in [Jobs -> Job]
  BY PostIsAJob DEF Init
<1>2. org \in Org /\ org.id = 0
  BY StaticIsNoKey DEF Init, Org, Providers
<1>3. published \in (SUBSET Keys) \ {{}} /\ retired \subseteq Keys /\ up \in BOOLEAN
      /\ cache \in [keys : SUBSET Keys, fresh : BOOLEAN] /\ CacheIsOld
  BY DEF Init, CacheIsOld
<1>4. ASSUME NEW j \in Jobs
      PROVE  ClientIsBuilt(job[j]) /\ BookedAtTheEnd(job[j])
  <2>1. PICK kid \in Keys \cup {Static}, good \in BOOLEAN : job[j] = Post(kid, good)
    BY DEF Init
  <2>2. QED
    BY <1>2, <2>1, PostIsAJob DEF ClientIsBuilt, BookedAtTheEnd
<1>5. QED
  BY <1>1, <1>2, <1>3, <1>4 DEF IInv, TypeOK

\* A step of one job that leaves GitHub and the settings alone owes only the job
\* and the cache.
LEMMA JobStep ==
    ASSUME IInv, NEW j \in Jobs, NEW new \in Job,
           job' = [job EXCEPT ![j] = new],
           UNCHANGED <<github, org>>,
           cache' \in [keys : SUBSET Keys, fresh : BOOLEAN], CacheIsOld',
           ClientIsBuilt(new), BookedAtTheEnd(new)
    PROVE  IInv'
<1>1. TypeOK'
  BY DEF IInv, TypeOK, github
<1>2. ASSUME NEW i \in Jobs
      PROVE  ClientIsBuilt(job[i])' /\ BookedAtTheEnd(job[i])'
  <2>1. job'[i] = IF i = j THEN new ELSE job[i]
    BY DEF IInv, TypeOK
  <2>2. QED
    BY <2>1 DEF IInv, ClientIsBuilt, BookedAtTheEnd
<1>3. QED
  BY <1>1, <1>2 DEF IInv

LEMMA CacheUnchanged ==
    ASSUME IInv, UNCHANGED <<github, cache>>
    PROVE  cache' \in [keys : SUBSET Keys, fresh : BOOLEAN] /\ CacheIsOld'
BY DEF IInv, TypeOK, github, CacheIsOld

LEMMA EnvironmentStep == ASSUME IInv, Environment PROVE IInv'
<1>1. CASE \E k \in Keys : Publish(k) \/ Retire(k)
  <2>1. TypeOK' /\ CacheIsOld'
    BY <1>1 DEF IInv, TypeOK, CacheIsOld, Publish, Retire
  <2>2. org' = org /\ job' = job
    BY <1>1 DEF Publish, Retire
  <2>3. QED
    BY <2>1, <2>2 DEF IInv, ClientIsBuilt, BookedAtTheEnd
<1>2. CASE Outage \/ Age
  <2>1. TypeOK' /\ CacheIsOld'
    BY <1>2 DEF IInv, TypeOK, CacheIsOld, Outage, Age, github
  <2>2. org' = org /\ job' = job
    BY <1>2 DEF Outage, Age
  <2>3. QED
    BY <2>1, <2>2 DEF IInv, ClientIsBuilt, BookedAtTheEnd
<1>3. CASE SaveOrg
  <2>1. TypeOK' /\ CacheIsOld' /\ job' = job /\ org'.id = org.id + 1 /\ org.id \in Nat
    BY <1>3, StaticIsNoKey DEF IInv, TypeOK, CacheIsOld, SaveOrg, github, Org
  <2>2. ASSUME NEW j \in Jobs PROVE job[j].row \in Nat
    <3>1. job[j].row \in 0..MaxSaves
      BY DEF IInv, TypeOK, Job
    <3>2. MaxSaves \in Nat
      BY StaticIsNoKey
    <3>3. QED
      BY <3>1, <3>2
  <2>3. ASSUME NEW j \in Jobs
        PROVE  ClientIsBuilt(job[j])' /\ BookedAtTheEnd(job[j])'
    <3>1. job[j].row <= org.id /\ job[j].row # org'.id
      BY <2>1, <2>2 DEF IInv, ClientIsBuilt
    <3>2. QED
      BY <2>1, <2>2, <3>1 DEF IInv, ClientIsBuilt, BookedAtTheEnd
  <2>4. QED
    BY <2>1, <2>3 DEF IInv
<1>4. QED
  BY <1>1, <1>2, <1>3 DEF Environment

LEMMA LookupIsOld ==
    ASSUME IInv, NEW kid
    PROVE  /\ Lookup(kid) \in [keys : SUBSET Keys, fresh : BOOLEAN]
           /\ Lookup(kid).keys \subseteq published \cup retired
BY DEF IInv, TypeOK, CacheIsOld, Lookup

LEMMA VerifyTokenStep ==
    ASSUME IInv, NEW j \in Jobs, VerifyToken(j)
    PROVE  IInv'
<1> DEFINE new(pc) == [job[j] EXCEPT !.pc = pc, !.kid = Static, !.good = FALSE]
<1>1. PICK pc \in {"entered", "allowed", "answered", "stopped"} : job' = [job EXCEPT ![j] = new(pc)]
  BY DEF VerifyToken, Pass, IInv, TypeOK
<1>2. job[j] \in Job /\ job[j].pc \in {"posted", "bypassing"}
  BY DEF VerifyToken, IInv, TypeOK
<1>3. new(pc) \in Job /\ new(pc).pc = pc /\ new(pc).client = job[j].client /\ new(pc).row = job[j].row
      /\ new(pc).chosen = job[j].chosen /\ new(pc).booked = job[j].booked
  BY <1>2, ZenonT(60) DEF Job
<1>4. ClientIsBuilt(new(pc)) /\ BookedAtTheEnd(new(pc))
  BY <1>2, <1>3 DEF IInv, ClientIsBuilt, BookedAtTheEnd
<1>5. UNCHANGED <<github, org>> /\ cache' \in [keys : SUBSET Keys, fresh : BOOLEAN] /\ CacheIsOld'
  BY LookupIsOld DEF VerifyToken, github, CacheIsOld, IInv, TypeOK
<1> HIDE DEF new
<1>6. QED
  BY <1>1, <1>3, <1>4, <1>5, JobStep

\* What any of a request's steps may leave of it.
LEMMA OnlyPlace ==
    ASSUME IInv, NEW j \in Jobs, job[j].pc # "answered",
           NEW pc \in {"choosing", "answered", "stopped", "deployed"}
    PROVE  /\ [job[j] EXCEPT !.pc = pc] \in Job
           /\ ClientIsBuilt([job[j] EXCEPT !.pc = pc]) /\ BookedAtTheEnd([job[j] EXCEPT !.pc = pc])
<1>1. job[j] \in Job /\ ClientIsBuilt(job[j]) /\ BookedAtTheEnd(job[j])
  BY DEF IInv, TypeOK
<1> DEFINE new == [job[j] EXCEPT !.pc = pc]
<1>2. new \in Job /\ new.pc = pc /\ new.client = job[j].client /\ new.row = job[j].row
      /\ new.chosen = job[j].chosen /\ new.booked = job[j].booked
  BY <1>1 DEF Job
<1>3. QED
  BY <1>1, <1>2 DEF ClientIsBuilt, BookedAtTheEnd

LEMMA GotoStep ==
    ASSUME IInv, NEW j \in Jobs, job[j].pc # "answered",
           NEW pc \in {"choosing", "answered", "stopped", "deployed"},
           Goto(j, pc), UNCHANGED <<github, cache, org>>
    PROVE  IInv'
<1>1. PICK new \in Job : new = [job[j] EXCEPT !.pc = pc] /\ ClientIsBuilt(new) /\ BookedAtTheEnd(new)
  BY OnlyPlace
<1>2. job' = [job EXCEPT ![j] = new]
  BY <1>1 DEF Goto, IInv, TypeOK
<1>3. QED
  BY <1>1, <1>2, CacheUnchanged, JobStep

LEMMA BuildStep ==
    ASSUME IInv, NEW j \in Jobs, job[j].pc \in {"entered", "choosing"},
           NEW provider \in Providers, NEW chosen \in BOOLEAN, chosen \/ provider = org.default,
           Build(j, provider, chosen), UNCHANGED <<github, cache, org>>
    PROVE  IInv'
<1> DEFINE new == [job[j] EXCEPT !.client = provider, !.row = org.id, !.chosen = chosen,
                                 !.pc = "running"]
<1>1. job[j] \in Job /\ BookedAtTheEnd(job[j]) /\ org.id \in 0..MaxSaves
  BY DEF IInv, TypeOK, Org
<1>2. new \in Job /\ new.pc = "running" /\ new.client = provider /\ new.row = org.id
      /\ new.chosen = chosen /\ new.booked = job[j].booked
  BY <1>1 DEF Job
<1>3. provider # None /\ org.id <= org.id
  BY <1>1, StaticIsNoKey DEF Providers, None
<1>4. ClientIsBuilt(new) /\ BookedAtTheEnd(new)
  BY <1>1, <1>2, <1>3 DEF ClientIsBuilt, BookedAtTheEnd
<1>5. job' = [job EXCEPT ![j] = new]
  BY DEF Build, IInv, TypeOK
<1> HIDE DEF new
<1>6. QED
  BY <1>2, <1>4, <1>5, CacheUnchanged, JobStep

LEMMA ScanStep ==
    ASSUME IInv, NEW j \in Jobs, Scan(j)
    PROVE  IInv'
<1>1. job[j] \in Job /\ ClientIsBuilt(job[j]) /\ BookedAtTheEnd(job[j])
  BY DEF IInv, TypeOK
<1>2. CASE VerifyToken(j)
  BY <1>2, VerifyTokenStep
<1>3. CASE GetPipeline(j)
  <2>1. job[j].pc = "entered" /\ UNCHANGED <<github, cache, org>> /\ org.default \in Providers
    BY <1>3 DEF GetPipeline, IInv, TypeOK, Org
  <2>2. CASE Build(j, org.default, FALSE)
    BY <2>1, <2>2, BuildStep
  <2>3. CASE Goto(j, "choosing") \/ Goto(j, "answered")
    BY <2>1, <2>3, GotoStep
  <2>4. QED
    BY <1>3, <2>2, <2>3 DEF GetPipeline
<1>4. CASE ChooseProvider(j)
  <2>1. job[j].pc = "choosing" /\ UNCHANGED <<github, cache, org>>
    BY <1>4 DEF ChooseProvider
  <2>2. CASE \E choice \in Providers : Build(j, choice, TRUE)
    BY <2>1, <2>2, BuildStep
  <2>3. CASE Goto(j, "answered")
    BY <2>1, <2>3, GotoStep
  <2>4. QED
    BY <1>4, <2>2, <2>3 DEF ChooseProvider
<1>5. CASE RunScan(j)
  <2>1. PICK v \in Outcomes, critical \in BOOLEAN, readable \in BOOLEAN :
          job' = [job EXCEPT ![j] = Decided(job[j], v, critical, readable)]
    BY <1>5 DEF RunScan, IInv, TypeOK
  <2> DEFINE pc == IF v = "scan_failed" THEN "answered" ELSE "recording"
             blocked == v = "blocked"
             new == [job[j] EXCEPT !.verdict = v, !.critical = critical,
                                   !.readable = readable, !.blocked = blocked, !.pc = pc]
  <2>2. new = Decided(job[j], v, critical, readable)
    BY DEF Decided
  <2>3. blocked \in BOOLEAN /\ pc \in {"answered", "recording"}
    OBVIOUS
  <2> HIDE DEF pc, blocked
  <2>4. new \in Job /\ new.pc = pc /\ new.client = job[j].client /\ new.row = job[j].row
        /\ new.chosen = job[j].chosen /\ new.booked = job[j].booked
    <3> DEFINE half == [job[j] EXCEPT !.verdict = v, !.critical = critical, !.readable = readable]
    <3>1. /\ half \in Job /\ half.client = job[j].client /\ half.row = job[j].row
          /\ half.chosen = job[j].chosen /\ half.booked = job[j].booked
      BY <1>1, ZenonT(60) DEF Job, Outcomes
    <3>2. new = [half EXCEPT !.blocked = blocked, !.pc = pc]
      OBVIOUS
    <3> HIDE DEF half, new
    <3>3. QED
      BY <2>3, <3>1, <3>2, ZenonT(60) DEF Job
  <2>5. job[j].pc = "running" /\ UNCHANGED <<github, cache, org>>
    BY <1>5 DEF RunScan
  <2>6. ClientIsBuilt(new) /\ BookedAtTheEnd(new)
    BY <1>1, <2>3, <2>4, <2>5 DEF ClientIsBuilt, BookedAtTheEnd
  <2> HIDE DEF new
  <2>7. QED
    BY <2>1, <2>2, <2>4, <2>5, <2>6, CacheUnchanged, JobStep
<1>6. CASE Persist(j)
  <2> DEFINE new == [job[j] EXCEPT !.pc = "answered", !.booked = BookedAs, !.bookedRow = org.id]
  <2>1. job[j].pc = "recording" /\ UNCHANGED <<github, cache, org>> /\ job' = [job EXCEPT ![j] = new]
    BY <1>6 DEF Persist, IInv, TypeOK
  <2>2. org.id \in 0..MaxSaves /\ org.default \in Providers /\ BookedAs \in Providers
    BY DEF IInv, TypeOK, Org, BookedAs, Providers
  <2>3. /\ new \in Job /\ new.pc = "answered" /\ new.client = job[j].client /\ new.row = job[j].row
        /\ new.chosen = job[j].chosen /\ new.booked = BookedAs /\ new.bookedRow = org.id
    BY <1>1, <2>2 DEF Job
  <2>4. job[j].client \in Providers
    BY <1>1, <2>1 DEF ClientIsBuilt, Job
  <2>5. \/ BookedAs = job[j].client \/ org.id # job[j].row \/ job[j].chosen
        \/ org.id = 0 /\ job[j].client = "google"
    BY <1>1, <2>1, <2>4 DEF ClientIsBuilt, BookedAs, Providers, None
  <2>6. ClientIsBuilt(new) /\ BookedAtTheEnd(new)
    BY <1>1, <2>3, <2>5 DEF ClientIsBuilt, BookedAtTheEnd
  <2> HIDE DEF new
  <2>7. QED
    BY <2>1, <2>3, <2>6, CacheUnchanged, JobStep
<1>7. CASE PersistFails(j)
  BY <1>7, GotoStep DEF PersistFails
<1>8. QED
  BY <1>2, <1>3, <1>4, <1>5, <1>6, <1>7 DEF Scan

LEMMA GateStep ==
    ASSUME IInv, NEW j \in Jobs, Evaluate(j) \/ GiveUp(j) \/ AskBypass(j) \/ Bypass(j)
    PROVE  IInv'
<1>1. job[j] \in Job /\ ClientIsBuilt(job[j]) /\ BookedAtTheEnd(job[j]) /\ org.id \in Nat
  BY StaticIsNoKey DEF IInv, TypeOK, Org
<1>2. UNCHANGED <<github, cache, org>>
  BY DEF Evaluate, GiveUp, AskBypass, Bypass
<1>3. ASSUME NEW new \in Job, job' = [job EXCEPT ![j] = new], new.booked = None, new.pc # "running",
             new.pc # "recording", \/ new.client = None /\ new.row = 0
                                   \/ /\ new.client = job[j].client /\ new.row = job[j].row
                                      /\ new.chosen = job[j].chosen
      PROVE  IInv'
  <2>1. ClientIsBuilt(new) /\ BookedAtTheEnd(new)
    BY <1>1, <1>3 DEF ClientIsBuilt, BookedAtTheEnd
  <2>2. QED
    BY <1>2, <1>3, <2>1, CacheUnchanged, JobStep
<1>4. CASE Evaluate(j)
  <2>1. ASSUME NEW pc \in {"stopped", "deployed"}, job' = [job EXCEPT ![j] = Ended(job[j], pc)]
        PROVE  IInv'
    <3>1. /\ Ended(job[j], pc) \in Job /\ Ended(job[j], pc).booked = None
          /\ Ended(job[j], pc).pc = pc /\ Ended(job[j], pc).client = None
          /\ Ended(job[j], pc).row = 0
      <4>1. /\ Idle(pc) \in Job /\ Idle(pc).booked = None /\ Idle(pc).pc = pc
            /\ Idle(pc).client = None /\ Idle(pc).row = 0
        BY IdleIsAJob DEF Idle
      <4>2. QED
        BY <1>1, <4>1, ZenonT(60) DEF Ended, Job
    <3>2. QED
      BY <1>3, <2>1, <3>1
  <2>2. CASE job' = [job EXCEPT ![j] = Idle("deployed")]
    BY <1>3, <2>2, IdleIsAJob DEF Idle
  <2>3. QED
    BY <1>4, <2>1, <2>2 DEF Evaluate, IInv, TypeOK
<1>5. CASE GiveUp(j)
  <2>1. job' = [job EXCEPT ![j] = Idle("stopped")]
    BY <1>5 DEF GiveUp
  <2>2. QED
    BY <1>3, <2>1, IdleIsAJob DEF Idle
<1>6. CASE AskBypass(j)
  <2>1. PICK justified \in BOOLEAN, good \in BOOLEAN, kid \in Keys \cup {Static} :
          job' = [job EXCEPT ![j].pc = "bypassing", ![j].justified = justified,
                             ![j].kid = kid, ![j].good = good]
    BY <1>6 DEF AskBypass
  <2> DEFINE new == [job[j] EXCEPT !.pc = "bypassing", !.justified = justified, !.kid = kid, !.good = good]
  <2>2. /\ new \in Job /\ new.booked = job[j].booked /\ new.pc = "bypassing" /\ new.client = job[j].client
        /\ new.row = job[j].row /\ new.chosen = job[j].chosen
    BY <1>1, ZenonT(60) DEF Job
  <2>3. job' = [job EXCEPT ![j] = new] /\ job[j].booked = None
    BY <1>1, <1>6, <2>1 DEF AskBypass, BookedAtTheEnd, IInv, TypeOK
  <2> HIDE DEF new
  <2>4. QED
    BY <1>3, <2>2, <2>3
<1>7. CASE Bypass(j)
  <2>1. job[j].pc = "allowed" /\ job[j].booked = None
    BY <1>1, <1>7 DEF Bypass, BookedAtTheEnd
  <2>2. CASE MayBypass(j)
    <3>1. PICK alert \in {"suppressed", "sent", "failed"} :
            job' = [job EXCEPT ![j].pc = "answered", ![j].verdict = "bypassed", ![j].alert = alert]
      BY <1>7, <2>2 DEF Bypass, SendBypassAlert, PostToSlack
    <3> DEFINE new == [job[j] EXCEPT !.pc = "answered", !.verdict = "bypassed", !.alert = alert]
    <3>2. /\ new \in Job /\ new.booked = job[j].booked /\ new.pc = "answered" /\ new.client = job[j].client
          /\ new.row = job[j].row /\ new.chosen = job[j].chosen
      BY <1>1 DEF Job
    <3>3. job' = [job EXCEPT ![j] = new]
      BY <3>1 DEF IInv, TypeOK
    <3> HIDE DEF new
    <3>4. QED
      BY <1>3, <2>1, <3>2, <3>3
  <2>3. CASE ~MayBypass(j)
    <3> DEFINE new == [job[j] EXCEPT !.pc = "stopped", !.justified = FALSE]
    <3>1. /\ new \in Job /\ new.booked = job[j].booked /\ new.pc = "stopped" /\ new.client = job[j].client
          /\ new.row = job[j].row /\ new.chosen = job[j].chosen
      BY <1>1 DEF Job
    <3>2. job' = [job EXCEPT ![j] = new]
      BY <1>7, <2>3 DEF Bypass, IInv, TypeOK
    <3> HIDE DEF new
    <3>3. QED
      BY <1>3, <2>1, <3>1, <3>2
  <2>4. QED
    BY <2>2, <2>3
<1>8. QED
  BY <1>4, <1>5, <1>6, <1>7

LEMMA StepPreservesIInv == IInv /\ [Next]_vars => IInv'
<1> SUFFICES ASSUME IInv, [Next]_vars PROVE IInv'
  OBVIOUS
<1>1. CASE UNCHANGED vars
  BY <1>1 DEF vars, github, IInv, TypeOK, CacheIsOld, ClientIsBuilt, BookedAtTheEnd
<1>2. CASE Next
  BY <1>2, EnvironmentStep, ScanStep, GateStep DEF Next
<1>3. QED
  BY <1>1, <1>2

-------------------------------------------------------------------------------
(***************************************************************************)
(* The theorems                                                            *)
(***************************************************************************)

\* The inductive invariant: what the cache holds was published once, and a job's
\* client is that of the settings it was built from.
THEOREM Invariance == Spec => []IInv
<1>1. QED
  BY InitEstablishesIInv, StepPreservesIInv, PTL DEF Spec

\* Type correctness of jobs, key cache and settings.
THEOREM TypeCorrect == Spec => []TypeOK
<1>1. IInv => TypeOK
  BY DEF IInv
<1>2. QED
  BY <1>1, Invariance, PTL

\* _persist_ci_scan books a scan to another provider than it used only if the
\* settings changed in between, it overrode the default, or it ran before the
\* first save.
THEOREM MisbookedOnlyByChangeHolds == Spec => []MisbookedOnlyByChange
<1>1. IInv => MisbookedOnlyByChange
  BY DEF IInv, BookedAtTheEnd, MisbookedOnlyByChange
<1>2. QED
  BY <1>1, Invariance, PTL

\* verify_scan_token and its key cache follow GitHub's keys as the TTL, the
\* refetch of unknown keys and the outage fallback promise.
THEOREM DoorFollowsTheKeysHolds == Spec => DoorFollowsTheKeys
<1> DEFINE Follows ==
      \A j \in Jobs : job[j].kid # Static =>
         /\ Enters(j) => job[j].kid \in published \/ cache.fresh \/ ~up
         /\ TurnedAway(j) /\ job[j].good =>
               /\ job[j].kid \in published => ~up
               /\ job[j].kid \in cache.keys => job[j].kid \in retired
<1>1. IInv /\ [Next]_vars => [Follows]_vars
  <2> SUFFICES ASSUME IInv, Next, NEW j \in Jobs, job[j].kid # Static, Enters(j) \/ TurnedAway(j)
               PROVE  /\ Enters(j) => job[j].kid \in published \/ cache.fresh \/ ~up
                      /\ TurnedAway(j) /\ job[j].good =>
                            /\ job[j].kid \in published => ~up
                            /\ job[j].kid \in cache.keys => job[j].kid \in retired
    OBVIOUS
  <2>1. VerifyToken(j)
    <3>1. job[j].pc \in {"posted", "bypassing"} /\ job'[j].pc \in {"entered", "allowed", "answered", "stopped"}
          /\ ~(job[j].pc = "posted" /\ job'[j].pc = "stopped")
      BY DEF Enters, TurnedAway
    <3>2. ~Environment
      BY <3>1 DEF Environment, Publish, Retire, Outage, Age, SaveOrg
    <3>3. PICK i \in Jobs : Scan(i) \/ Evaluate(i) \/ GiveUp(i) \/ AskBypass(i) \/ Bypass(i)
      BY <3>2 DEF Next
    <3>4. ASSUME i # j PROVE job'[j] = job[j]
      BY <3>3, <3>4 DEF Scan, VerifyToken, Pass, GetPipeline, Build, Goto, ChooseProvider, RunScan,
         Persist, PersistFails, Evaluate, GiveUp, AskBypass, Bypass, IInv, TypeOK
    <3>5. i = j
      BY <3>1, <3>4
    <3>6. ~Evaluate(j) /\ ~AskBypass(j) /\ ~Bypass(j)
      BY <3>1 DEF Evaluate, AskBypass, Bypass
    <3>7. GiveUp(j) => job'[j].pc = "stopped" /\ job[j].pc # "bypassing"
      BY DEF GiveUp, Idle, IInv, TypeOK
    <3>8. ~GetPipeline(j) /\ ~ChooseProvider(j) /\ ~RunScan(j) /\ ~Persist(j) /\ ~PersistFails(j)
      BY <3>1 DEF GetPipeline, ChooseProvider, RunScan, Persist, PersistFails
    <3>9. QED
      BY <3>1, <3>3, <3>5, <3>6, <3>7, <3>8 DEF Scan
  <2>2. /\ job'[j].pc \in {"entered", "allowed"} => Valid(j)
        /\ job'[j].pc \in {"answered", "stopped"} => ~Valid(j)
    <3>1. CASE Valid(j)
      <4>1. PICK pc \in {"entered", "allowed"} : Pass(j, pc)
        BY <2>1, <3>1 DEF VerifyToken
      <4>2. job'[j].pc = pc
        BY <4>1 DEF Pass, IInv, TypeOK
      <4>3. QED
        BY <3>1, <4>2
    <3>2. CASE ~Valid(j)
      <4>1. PICK pc \in {"answered", "stopped"} : Pass(j, pc)
        BY <2>1, <3>2 DEF VerifyToken
      <4>2. job'[j].pc = pc
        BY <4>1 DEF Pass, IInv, TypeOK
      <4>3. QED
        BY <3>2, <4>2
    <3>3. QED
      BY <3>1, <3>2
  <2>3. Lookup(job[j].kid).keys = IF Refetch(job[j].kid) /\ up THEN published ELSE cache.keys
    BY DEF Lookup
  <2>4. Enters(j) => Valid(j) /\ job[j].kid \in Lookup(job[j].kid).keys
    BY <2>2 DEF Enters, Valid
  <2>5. TurnedAway(j) /\ job[j].good => job[j].kid \notin Lookup(job[j].kid).keys
    BY <2>2 DEF TurnedAway, Valid
  <2>6. Enters(j) => job[j].kid \in published \/ cache.fresh \/ ~up
    BY <2>3, <2>4 DEF Refetch
  <2>7. TurnedAway(j) /\ job[j].good =>
           /\ job[j].kid \in published => ~up
           /\ job[j].kid \in cache.keys => job[j].kid \in retired
    BY <2>3, <2>5 DEF Refetch, IInv, CacheIsOld
  <2>8. QED
    BY <2>6, <2>7
<1>2. QED
  BY <1>1, Invariance, PTL DEF Spec, DoorFollowsTheKeys

\* What is known of a job whose scan said "blocked", on its way to a deployment.
BlockedKept(jb) ==
    /\ jb.pc \in {"posted", "entered", "choosing"} => ~jb.blocked
    /\ jb.pc \in {"recording", "answered", "deployed"} /\ jb.blocked =>
          \/ jb.verdict = "bypassed" /\ (jb.critical => jb.justified)
          \/ jb.verdict = "blocked" /\ (jb.pc = "deployed" => ~jb.readable)

\* The request moves on with the decision it carries.
CarriesOn(old, new) ==
    /\ new.verdict = old.verdict /\ new.critical = old.critical /\ new.readable = old.readable
    /\ new.blocked = old.blocked /\ new.justified = old.justified
    /\ \/ /\ old.pc \in {"posted", "entered", "choosing"}
          /\ new.pc \in {"entered", "choosing", "running", "answered"}
       \/ old.pc = "recording" /\ new.pc = "answered"
       \/ new.pc \in {"allowed", "stopped"}

\* The steps by which a job's decision or deployment changes.
LEMMA OneJobMoves ==
    ASSUME IInv, Next, NEW j \in Jobs
    PROVE  \/ job'[j] = job[j]
           \/ CarriesOn(job[j], job'[j])
           \/ RunScan(j) \/ Evaluate(j) \/ GiveUp(j) \/ AskBypass(j) \/ Bypass(j)
<1>1. CASE Environment
  BY <1>1 DEF Environment, Publish, Retire, Outage, Age, SaveOrg
<1>2. ASSUME NEW i \in Jobs, Scan(i) \/ Evaluate(i) \/ GiveUp(i) \/ AskBypass(i) \/ Bypass(i), i # j
      PROVE  job'[j] = job[j]
  BY <1>2 DEF Scan, VerifyToken, Pass, GetPipeline, Build, Goto, ChooseProvider, RunScan,
     Persist, PersistFails, Evaluate, GiveUp, AskBypass, Bypass, IInv, TypeOK
<1>3. job \in [Jobs -> Job] /\ job[j] \in Job
  BY DEF IInv, TypeOK
<1>4. CASE VerifyToken(j)
  <2>1. PICK pc \in {"entered", "allowed", "answered", "stopped"} :
          Pass(j, pc) /\ (pc \in {"entered", "answered"} => job[j].pc = "posted")
    BY <1>4 DEF VerifyToken
  <2>2. QED
    BY <1>3, <2>1 DEF Pass, Job, CarriesOn
<1>5. CASE GetPipeline(j) \/ ChooseProvider(j) \/ Persist(j) \/ PersistFails(j)
  <2>1. ASSUME NEW provider, NEW chosen, Build(j, provider, chosen),
               job[j].pc \in {"entered", "choosing"}
        PROVE  CarriesOn(job[j], job'[j])
    BY <1>3, <2>1 DEF Build, Job, CarriesOn
  <2>2. ASSUME NEW pc \in {"choosing", "answered"}, Goto(j, pc),
               \/ job[j].pc \in {"entered", "choosing"}
               \/ job[j].pc = "recording" /\ pc = "answered"
        PROVE  CarriesOn(job[j], job'[j])
    BY <1>3, <2>2 DEF Goto, Job, CarriesOn
  <2>3. CASE GetPipeline(j) \/ ChooseProvider(j) \/ PersistFails(j)
    BY <2>1, <2>2, <2>3 DEF GetPipeline, ChooseProvider, PersistFails
  <2>4. CASE Persist(j)
    BY <1>3, <2>4 DEF Persist, Job, CarriesOn
  <2>5. QED
    BY <1>5, <2>3, <2>4
<1>6. QED
  BY <1>1, <1>2, <1>4, <1>5 DEF Next, Scan

LEMMA BlockedIsKept ==
    ASSUME IInv, Next, NEW j \in Jobs, BlockedKept(job[j])
    PROVE  BlockedKept(job'[j])
<1>1. job \in [Jobs -> Job] /\ job[j] \in Job
  BY DEF IInv, TypeOK
<1>2. CASE job'[j] = job[j] \/ CarriesOn(job[j], job'[j])
  BY <1>2 DEF BlockedKept, CarriesOn
<1>3. CASE RunScan(j)
  <2>1. PICK v, critical, readable : job'[j] = Decided(job[j], v, critical, readable)
    BY <1>1, <1>3 DEF RunScan
  <2>2. /\ job'[j].pc \in {"answered", "recording"}
        /\ job'[j].verdict = v /\ job'[j].blocked = (v = "blocked")
    BY <1>1, <2>1 DEF Job, Decided
  <2>3. QED
    BY <2>2 DEF BlockedKept
<1>4. CASE Evaluate(j)
  <2>1. job[j].pc = "answered"
    BY <1>4 DEF Evaluate
  <2>2. CASE Stops(job[j])
    <3>1. job'[j] = Ended(job[j], "stopped")
      BY <1>1, <1>4, <2>2 DEF Evaluate
    <3>2. QED
      BY <3>1 DEF Ended, Idle, BlockedKept
  <2>3. CASE ~Stops(job[j]) /\ job[j].blocked
    <3>1. job'[j] = Ended(job[j], "deployed")
      BY <1>1, <1>4, <2>3 DEF Evaluate
    <3>2. /\ job'[j].pc = "deployed" /\ job'[j].verdict = job[j].verdict
          /\ job'[j].critical = job[j].critical /\ job'[j].readable = job[j].readable
          /\ job'[j].justified = job[j].justified
      BY <3>1, ZenonT(60) DEF Ended, Idle
    <3>3. QED
      BY <2>1, <2>3, <3>2 DEF BlockedKept, Stops
  <2>4. CASE ~Stops(job[j]) /\ ~job[j].blocked
    <3>1. job'[j] = Idle("deployed")
      BY <1>1, <1>4, <2>4 DEF Evaluate
    <3>2. QED
      BY <3>1 DEF Idle, BlockedKept
  <2>5. QED
    BY <2>2, <2>3, <2>4
<1>5. CASE GiveUp(j)
  BY <1>1, <1>5 DEF GiveUp, Idle, BlockedKept
<1>6. CASE AskBypass(j)
  <2>1. job'[j].pc = "bypassing"
    BY <1>1, <1>6 DEF AskBypass, Job
  <2>2. QED
    BY <2>1 DEF BlockedKept
<1>7. CASE Bypass(j)
  <2>1. CASE MayBypass(j)
    <3>1. PICK alert \in {"suppressed", "sent", "failed"} :
            job'[j] = [job[j] EXCEPT !.pc = "answered", !.verdict = "bypassed", !.alert = alert]
      BY <1>1, <1>7, <2>1, ZenonT(60) DEF Bypass, SendBypassAlert, PostToSlack
    <3>2. /\ job'[j].pc = "answered" /\ job'[j].verdict = "bypassed"
          /\ job'[j].critical = job[j].critical /\ job'[j].justified = job[j].justified
      BY <1>1, <3>1, ZenonT(60) DEF Job
    <3>3. QED
      BY <2>1, <3>2 DEF MayBypass, BlockedKept
  <2>2. CASE ~MayBypass(j)
    <3>1. job'[j].pc = "stopped"
      BY <1>1, <1>7, <2>2 DEF Bypass, Job
    <3>2. QED
      BY <3>1 DEF BlockedKept
  <2>3. QED
    BY <2>1, <2>2
<1>8. QED
  BY <1>2, <1>3, <1>4, <1>5, <1>6, <1>7, OneJobMoves

\* A blocked job is deployed only through a bypass, past Critical findings only
\* with a justification, or because the script could not read the answer.
THEOREM BlockedDeploysOnlyByBypassHolds == Spec => []BlockedDeploysOnlyByBypass
<1> DEFINE AllKept == \A j \in Jobs : BlockedKept(job[j])
<1>1. Init => AllKept
  <2> SUFFICES ASSUME Init, NEW j \in Jobs PROVE BlockedKept(job[j])
    OBVIOUS
  <2>1. PICK kid \in Keys \cup {Static}, good \in BOOLEAN : job[j] = Post(kid, good)
    BY DEF Init
  <2>2. QED
    BY <2>1 DEF Post, Idle, BlockedKept
<1>2. IInv /\ AllKept /\ [Next]_vars => AllKept'
  <2> SUFFICES ASSUME IInv, AllKept, [Next]_vars, NEW j \in Jobs PROVE BlockedKept(job'[j])
    BY DEF BlockedKept
  <2>1. QED
    BY BlockedIsKept DEF vars
<1>3. AllKept => BlockedDeploysOnlyByBypass
  BY DEF BlockedKept, BlockedDeploysOnlyByBypass
<1>4. QED
  BY <1>1, <1>2, <1>3, Invariance, PTL DEF Spec


-------------------------------------------------------------------------------
(***************************************************************************)
(* Induction, on numbers and on the subsets of a finite set                *)
(***************************************************************************)
\* Every set of numbers has a least one.
LEMMA LeastNumber ==
    ASSUME NEW S \in SUBSET Nat, S # {}
    PROVE  \E n \in S : \A m \in S : n <= m
<1>1. PICK n \in S : \A m \in S : <<m, n>> \notin OpToRel(<, Nat)
  BY NatLessThanWellFounded, WFMin, Zenon
<1>2. \A m \in S : ~ (m < n)
  BY <1>1 DEF OpToRel
<1>3. QED
  BY <1>2

\* A set with 0 and the successors of its elements has every number.
LEMMA NumbersFollow ==
    ASSUME NEW N, 0 \in N, \A n \in Nat : n \in N => n + 1 \in N
    PROVE  \A n \in Nat : n \in N
<1> SUFFICES ASSUME Nat \ N # {} PROVE FALSE
  OBVIOUS
<1>1. PICK n \in Nat \ N : \A m \in Nat \ N : n <= m
  BY LeastNumber
<1>2. n # 0 /\ n - 1 \in Nat /\ n - 1 \in N
  BY <1>1
<1>3. QED
  BY <1>1, <1>2

\* A set of subsets with the empty one, in which each other is if one smaller
\* subset of it is, has every subset.
LEMMA SubsetsFollow ==
    ASSUME NEW S, IsFiniteSet(S), NEW G, {} \in G,
           \A T \in SUBSET S : T # {} => \E x \in T : T \ {x} \in G => T \in G
    PROVE  \A T \in SUBSET S : T \in G
<1> SUFFICES ASSUME NEW B \in SUBSET S, B \notin G PROVE FALSE
  OBVIOUS
<1>0. {} \in G
  OBVIOUS
<1> DEFINE Sizes == {Cardinality(T) : T \in (SUBSET S) \ G}
<1>1. \A T \in SUBSET S : IsFiniteSet(T) /\ Cardinality(T) \in Nat
  BY FS_Subset, FS_CardinalityType
<1>2. Sizes \in SUBSET Nat /\ Sizes # {}
  BY <1>1
<1>3. PICK n \in Sizes : \A m \in Sizes : n <= m
  BY <1>2, LeastNumber
<1>4. PICK T \in (SUBSET S) \ G : n = Cardinality(T)
  BY <1>3
<1>5. PICK x \in T : T \ {x} \in G => T \in G
  <2>1. T \in SUBSET S /\ T \notin G
    BY <1>4
  <2>2. ASSUME T = {} PROVE FALSE
    <3>1. {} \notin G
      BY <2>1, <2>2
    <3>2. QED
      BY <1>0, <3>1
  <2>3. QED
    BY <2>1, <2>2
<1>6. T \ {x} \in (SUBSET S) \ G
  BY <1>4, <1>5
<1>7. Cardinality(T \ {x}) = n - 1
  BY <1>1, <1>4, <1>5, FS_RemoveElement
<1>8. n \in Nat /\ n - 1 \in Sizes
  BY <1>2, <1>3, <1>6, <1>7
<1>9. QED
  BY <1>3, <1>8

-------------------------------------------------------------------------------
(***************************************************************************)
(* The order of the splices                                                *)
(***************************************************************************)
\* A set of fixes has a last one: the topmost, and of those the last listed.
LEMMA LastIsLast ==
    ASSUME NEW report \in Seq(Findings), NEW is \in SUBSET DOMAIN report, is # {}
    PROVE  /\ LastOf(report, is) \in is
           /\ \A j \in is \ {LastOf(report, is)} : BottomUp(report, j, LastOf(report, is))
<1>1. \A i \in is : report[i] \in Findings /\ report[i].from \in Nat /\ i \in Nat /\ i <= Len(report)
  <2>1. DOMAIN report = 1..Len(report) /\ Len(report) \in Nat /\ (\A i \in DOMAIN report : report[i] \in Findings)
    OBVIOUS
  <2>2. \A f \in Findings : f.from \in Nat
    BY DEF Findings
  <2>3. QED
    BY <2>1, <2>2
<1> DEFINE Froms == {report[i].from : i \in is}
<1>2. Froms \in SUBSET Nat /\ Froms # {}
  BY <1>1
<1>3. PICK m \in Froms : \A n \in Froms : m <= n
  BY <1>2, LeastNumber
<1> DEFINE Tops == {i \in is : report[i].from = m}
           Backs == {Len(report) - i : i \in Tops}
<1>4. Backs \in SUBSET Nat /\ Backs # {}
  BY <1>1, <1>3
<1>5. PICK b \in Backs : \A n \in Backs : b <= n
  BY <1>4, LeastNumber
<1>6. PICK i \in Tops : b = Len(report) - i
  BY <1>5
<1>7. \A j \in Tops : j <= i
  <2> TAKE j \in Tops
  <2>1. Len(report) - j \in Backs
    OBVIOUS
  <2>2. Len(report) - i <= Len(report) - j
    BY <1>5, <1>6, <2>1
  <2>3. i \in Nat /\ j \in Nat /\ Len(report) \in Nat
    BY <1>1
  <2>4. QED
    BY <2>2, <2>3
<1>8. \A j \in is \ {i} : BottomUp(report, j, i)
  <2> TAKE j \in is \ {i}
  <2>1. report[j].from \in Froms /\ report[i].from = m /\ m <= report[j].from /\ m \in Nat
    BY <1>2, <1>3, <1>6
  <2>2. CASE report[j].from = m
    <3>1. j <= i /\ j # i /\ i \in Nat /\ j \in Nat
      BY <1>1, <1>6, <1>7, <2>2
    <3>2. QED
      BY <2>1, <2>2, <3>1 DEF BottomUp
  <2>3. CASE report[j].from # m
    BY <1>1, <2>1, <2>3 DEF BottomUp
  <2>4. QED
    BY <2>2, <2>3
<1>9. QED
  BY <1>6, <1>8 DEF LastOf

\* One splice further, from what f says of one fix less.
Further(report, p, lines, f, is) ==
    IF is = {} THEN Unpatched(report, p, lines)
               ELSE Try(report, p, f[is \ {LastOf(report, is)}], LastOf(report, is))

Splices(report, p, lines) ==
    CHOOSE f : f = [is \in SUBSET Fitting(report, p, lines) |-> Further(report, p, lines, f, is)]

\* PatchFile is what its recursion gives for all the fixes that fit.
LEMMA PatchFileSplices ==
    ASSUME NEW report, NEW p, NEW lines
    PROVE  PatchFile(report, p, lines) = Splices(report, p, lines)[Fitting(report, p, lines)]
BY DEF PatchFile, Splices, Further

\* The fixes of a file that are tried are finitely many findings.
LEMMA FittingAreFindings ==
    ASSUME NEW report \in Seq(Findings), NEW p, NEW lines
    PROVE  /\ Fitting(report, p, lines) \subseteq Edits(report, p)
           /\ Edits(report, p) \subseteq DOMAIN report
           /\ IsFiniteSet(Fitting(report, p, lines))
           /\ \A i \in DOMAIN report : report[i] \in Findings
<1>1. DOMAIN report = 1..Len(report) /\ Len(report) \in Nat /\ (\A i \in DOMAIN report : report[i] \in Findings)
  OBVIOUS
<1>2. IsFiniteSet(DOMAIN report)
  BY <1>1, FS_Interval
<1>3. Fitting(report, p, lines) \subseteq Edits(report, p) /\ Edits(report, p) \subseteq DOMAIN report
  BY DEF Fitting, Edits
<1>4. QED
  BY <1>1, <1>2, <1>3, FS_Subset

\* The recursion of PatchFile has a solution.
LEMMA SplicesUnfold ==
    ASSUME NEW report \in Seq(Findings), NEW p, NEW lines
    PROVE  \A is \in SUBSET Fitting(report, p, lines) :
              Splices(report, p, lines)[is] = Further(report, p, lines, Splices(report, p, lines), is)
<1> DEFINE ok == Fitting(report, p, lines)
           Small(n) == {is \in SUBSET ok : Cardinality(is) <= n}
           Solves(f, D) == f = [is \in D |-> Further(report, p, lines, f, is)]
           N == {n \in Nat : \E f : Solves(f, Small(n))}
<1>1. \A is \in SUBSET ok : IsFiniteSet(is) /\ Cardinality(is) \in Nat /\ Cardinality(is) <= Cardinality(ok)
  BY FittingAreFindings, FS_Subset, FS_CardinalityType
<1>2. ASSUME NEW is \in SUBSET ok, is # {}
      PROVE  /\ LastOf(report, is) \in is /\ is \ {LastOf(report, is)} \in SUBSET ok
             /\ Cardinality(is \ {LastOf(report, is)}) = Cardinality(is) - 1
  <2>1. LastOf(report, is) \in is
    BY <1>2, FittingAreFindings, LastIsLast
  <2>2. QED
    BY <1>1, <2>1, FS_RemoveElement
<1>3. 0 \in N
  <2> DEFINE f == [is \in Small(0) |-> Unpatched(report, p, lines)]
  <2>1. \A is \in Small(0) : is = {}
    BY <1>1, FS_EmptySet
  <2>2. Solves(f, Small(0))
    BY <2>1 DEF Further
  <2>3. QED
    BY <2>2
<1>4. ASSUME NEW n \in Nat, n \in N PROVE n + 1 \in N
  <2>1. PICK f : Solves(f, Small(n))
    BY <1>4
  <2> DEFINE g == [is \in Small(n + 1) |-> Further(report, p, lines, f, is)]
  <2>2. \A is \in Small(n) : f[is] = Further(report, p, lines, f, is)
    BY <2>1
  <2>3. \A is \in Small(n) : is \in Small(n + 1) /\ g[is] = f[is]
    BY <1>1, <2>2
  <2>4. \A is \in Small(n + 1) : is # {} => is \ {LastOf(report, is)} \in Small(n)
    BY <1>1, <1>2
  <2>5. \A is \in Small(n + 1) : Further(report, p, lines, g, is) = Further(report, p, lines, f, is)
    BY <2>3, <2>4 DEF Further
  <2> HIDE DEF g
  <2>6. Solves(g, Small(n + 1))
    BY <2>5 DEF g
  <2> HIDE DEF Solves, Small
  <2>7. n + 1 \in Nat /\ \E h : Solves(h, Small(n + 1))
    <3>1. \E h : Solves(h, Small(n + 1))
      BY <2>6, Zenon
    <3>2. QED
      BY <3>1
  <2>8. QED
    BY <2>7
<1> HIDE DEF N
<1>5. Cardinality(ok) \in N
  BY <1>1, <1>3, <1>4, NumbersFollow
<1>6. Small(Cardinality(ok)) = SUBSET ok
  BY <1>1
<1>7. \E f : Solves(f, SUBSET ok)
  BY <1>5, <1>6 DEF N
<1>8. Solves(Splices(report, p, lines), SUBSET ok)
  BY <1>7 DEF Splices
<1>9. QED
  BY <1>8

\* Induction along the splices of a file.
LEMMA SplicesFollow ==
    ASSUME NEW report \in Seq(Findings), NEW p, NEW lines, NEW G, {} \in G,
           \A is \in SUBSET Fitting(report, p, lines) :
              is # {} => (is \ {LastOf(report, is)} \in G => is \in G)
    PROVE  \A is \in SUBSET Fitting(report, p, lines) : is \in G
<1> DEFINE ok == Fitting(report, p, lines)
<1>1. \A is \in SUBSET ok : is # {} => LastOf(report, is) \in is
  BY FittingAreFindings, LastIsLast
<1>2. \A is \in SUBSET ok : is # {} => \E x \in is : is \ {x} \in G => is \in G
  BY <1>1
<1>3. IsFiniteSet(ok) /\ {} \in G
  BY FittingAreFindings
<1> HIDE DEF ok
<1>4. \A is \in SUBSET ok : is \in G
  BY <1>2, <1>3, SubsetsFollow
<1>5. QED
  BY <1>4 DEF ok

-------------------------------------------------------------------------------
(***************************************************************************)
(* One splice                                                              *)
(***************************************************************************)
\* s is lines[a:e], with e within the lines.
IsSlice(s, lines, a, e) ==
    /\ s \in Seq(Line) /\ e \in 0..Len(lines)
    /\ Len(s) = IF a < e THEN e - a ELSE 0
    /\ \A k \in 1..(e - a) : s[k] = lines[a + k]

\* A Python slice of the lines, with its clipped end.
LEMMA SliceIs ==
    ASSUME NEW lines \in Seq(Line), NEW a \in Nat, NEW b \in Nat
    PROVE  IsSlice(Slice(lines, a, b), lines, a, Smaller(b, Len(lines)))
<1> DEFINE e == Smaller(b, Len(lines))
<1>1. e \in Nat /\ e <= Len(lines) /\ e \in Int /\ a + 1 \in Int /\ Len(lines) \in Nat
  BY DEF Smaller
<1>2. \A k \in (a + 1)..e : lines[k] \in Line
  BY <1>1
<1> HIDE DEF e
<1>3. /\ SubSeq(lines, a + 1, e) \in Seq(Line)
      /\ Len(SubSeq(lines, a + 1, e)) = (IF a + 1 <= e THEN e - (a + 1) + 1 ELSE 0)
      /\ \A k \in 1..(e - (a + 1) + 1) : SubSeq(lines, a + 1, e)[k] = lines[a + 1 + k - 1]
  BY <1>1, <1>2, SubSeqProperties
<1>4. \A k \in 1..(e - a) : SubSeq(lines, a + 1, e)[k] = lines[a + k]
  <2> TAKE k \in 1..(e - a)
  <2>1. k \in 1..(e - (a + 1) + 1) /\ a + 1 + k - 1 = a + k
    BY <1>1
  <2>2. QED
    BY <1>3, <2>1
<1>5. Slice(lines, a, b) = SubSeq(lines, a + 1, e)
  BY DEF Slice, e
<1>6. Len(SubSeq(lines, a + 1, e)) = (IF a < e THEN e - a ELSE 0)
  BY <1>1, <1>3
<1>7. QED
  BY <1>1, <1>3, <1>4, <1>5, <1>6 DEF e, IsSlice

\* What the splice of a fix needs to be known of it.
Spliceable(report, i) ==
    /\ i \in Nat /\ report[i].from \in Nat \ {0} /\ report[i].to \in Nat
    /\ report[i].from <= report[i].to
    /\ report[i].block \in Seq(Kinds)

\* A fix that fits has a range within the file, and a block of lines.
LEMMA FittingIsSpliceable ==
    ASSUME NEW report \in Seq(Findings), NEW p, NEW lines \in Seq(Line),
           NEW i \in Fitting(report, p, lines)
    PROVE  Spliceable(report, i) /\ report[i].to \in report[i].from..Len(lines)
<1>1. /\ i \in DOMAIN report /\ i \in Nat /\ report[i] \in Findings
      /\ Queued(report[i]) /\ InBounds(report[i], Len(lines))
  BY FittingAreFindings DEF Fitting, Edits
<1>2. /\ report[i].to \in Nat /\ report[i].from \in Nat /\ Len(lines) \in Nat
      /\ report[i].block \in Seq(Kinds \cup {"sketch"})
  BY <1>1 DEF Findings
<1>3. report[i].from \in 1..Len(lines) /\ report[i].to \in report[i].from..Len(lines)
  BY <1>1 DEF InBounds
<1>4. report[i].block \in Seq(Kinds)
  <2> DEFINE block == report[i].block
  <2>1. block \in Seq(Kinds \cup {"sketch"}) /\ \A k \in DOMAIN block : block[k] # "sketch"
    BY <1>1, <1>2 DEF Queued
  <2> HIDE DEF block
  <2>2. \A k \in 1..Len(block) : block[k] \in Kinds
    BY <2>1
  <2>3. block \in Seq(Kinds)
    BY <2>1, <2>2
  <2>4. QED
    BY <2>3 DEF block
<1>5. QED
  BY <1>1, <1>2, <1>3, <1>4 DEF Spliceable

\* The block of a fix is lines.
LEMMA BlockIs ==
    ASSUME NEW report, NEW i, Spliceable(report, i)
    PROVE  /\ Block(report, i) \in Seq(Line)
           /\ Len(Block(report, i)) = Len(report[i].block)
<1>1. \A k \in DOMAIN report[i].block :
        [by |-> i, no |-> k, kind |-> report[i].block[k]] \in Line
  BY DEF Spliceable, Line
<1>2. DOMAIN report[i].block = 1..Len(report[i].block) /\ Len(report[i].block) \in Nat
  BY DEF Spliceable
<1>3. QED
  BY <1>1, <1>2 DEF Block

\* A splice gives lines.
LEMMA SpliceIs ==
    ASSUME NEW report, NEW i, Spliceable(report, i), NEW lines \in Seq(Line)
    PROVE  Splice(lines, report, i) \in Seq(Line)
<1> DEFINE above == Slice(lines, 0, report[i].from - 1)
           below == Slice(lines, report[i].to, Len(lines))
<1>1. /\ report[i].from - 1 \in Nat /\ report[i].to \in Nat /\ 0 \in Nat
      /\ Len(lines) \in Nat
  BY DEF Spliceable
<1>2. above \in Seq(Line) /\ below \in Seq(Line)
  BY <1>1, SliceIs DEF IsSlice
<1>3. Splice(lines, report, i) = above \o Block(report, i) \o below
  BY DEF Splice
<1> HIDE DEF above, below
<1>4. QED
  BY <1>2, <1>3, BlockIs

-------------------------------------------------------------------------------
(***************************************************************************)
(* What the splices of a file do to the result                             *)
(***************************************************************************)
Patched == [lines : Seq(Line), applied : SUBSET Nat, noted : SUBSET Nat, manual : SUBSET Nat]

\* A fix is refused, and routed to manual, or it is applied.
Tried(report, p, acc, i, next) ==
    LET old == Slice(acc.lines, report[i].from - 1, report[i].to)
        block == Block(report, i)
        new == Splice(acc.lines, report, i)
    IN /\ next \in Patched
       /\ \/ /\ Refused(p, old, block, new, report[i])
             /\ next.manual = acc.manual \cup {i}
             /\ next.lines = acc.lines
             /\ next.applied = acc.applied /\ next.noted = acc.noted
          \/ /\ ~ Refused(p, old, block, new, report[i])
             /\ next.manual = acc.manual
             /\ next.lines = new
             /\ next.applied = acc.applied \cup {i}
             /\ acc.noted \subseteq next.noted
             /\ Risky(old, block, report[i]) => i \in next.noted

\* The iteration of the splice loop does one of these two things.
LEMMA TryEither ==
    ASSUME NEW report, NEW p, NEW i, Spliceable(report, i), NEW acc \in Patched
    PROVE  Tried(report, p, acc, i, Try(report, p, acc, i))
<1> DEFINE old == Slice(acc.lines, report[i].from - 1, report[i].to)
           block == Block(report, i)
           new == Splice(acc.lines, report, i)
           next == Try(report, p, acc, i)
<1>1. /\ acc = [lines |-> acc.lines, applied |-> acc.applied,
                noted |-> acc.noted, manual |-> acc.manual]
      /\ acc.lines \in Seq(Line) /\ acc.applied \in SUBSET Nat
      /\ acc.noted \in SUBSET Nat /\ acc.manual \in SUBSET Nat /\ i \in Nat
  BY DEF Patched, Spliceable
<1>2. new \in Seq(Line)
  BY <1>1, SpliceIs
<1>3. CASE Refused(p, old, block, new, report[i])
  <2>1. next = [lines |-> acc.lines, applied |-> acc.applied,
                noted |-> acc.noted, manual |-> acc.manual \cup {i}]
    BY <1>1, <1>3 DEF Try, Refuse
  <2> HIDE DEF old, block, new, next
  <2>2. next \in Patched
    BY <1>1, <2>1 DEF Patched
  <2>3. QED
    BY <1>3, <2>1, <2>2 DEF old, block, new, next, Tried
<1>4. CASE ~ Refused(p, old, block, new, report[i])
  <2> DEFINE warned == acc.noted \cup (IF Risky(old, block, report[i]) THEN {i} ELSE {})
  <2>1. next = [lines |-> new, applied |-> acc.applied \cup {i},
                noted |-> warned, manual |-> acc.manual]
    BY <1>1, <1>4 DEF Try
  <2>2. warned \in SUBSET Nat /\ acc.noted \subseteq warned
    BY <1>1
  <2>3. Risky(old, block, report[i]) => i \in warned
    OBVIOUS
  <2> HIDE DEF old, block, new, next, warned
  <2>4. next \in Patched
    BY <1>1, <1>2, <2>1, <2>2 DEF Patched
  <2>5. QED
    BY <1>4, <2>1, <2>2, <2>3, <2>4 DEF old, block, new, next, Tried
<1>5. QED
  BY <1>3, <1>4

\* After the fixes of is: each is applied or routed to manual, with the fixes
\* that do not fit; the risky ones are noted; and a changed file parses.
PatchOK(report, p, lines, is, acc) ==
    /\ acc \in Patched
    /\ acc.applied \subseteq is
    /\ acc.manual = (Edits(report, p) \ Fitting(report, p, lines)) \cup (is \ acc.applied)
    /\ \A i \in acc.applied :
          report[i].sensitive \/ Has(Block(report, i), "guarded") => i \in acc.noted
    /\ acc.lines = lines \/ Parses(p, acc.lines)

\* One more fix tried keeps PatchOK.
LEMMA TryKeepsPatchOK ==
    ASSUME NEW report \in Seq(Findings), NEW p, NEW lines \in Seq(Line),
           NEW is \in SUBSET Fitting(report, p, lines), NEW i \in is,
           NEW acc, PatchOK(report, p, lines, is \ {i}, acc)
    PROVE  PatchOK(report, p, lines, is, Try(report, p, acc, i))
<1> DEFINE old == Slice(acc.lines, report[i].from - 1, report[i].to)
           block == Block(report, i)
           new == Splice(acc.lines, report, i)
           next == Try(report, p, acc, i)
<1>1. /\ acc \in Patched /\ acc.applied \subseteq is \ {i} /\ acc.lines \in Seq(Line)
      /\ acc.manual = (Edits(report, p) \ Fitting(report, p, lines)) \cup ((is \ {i}) \ acc.applied)
      /\ \A j \in acc.applied :
            report[j].sensitive \/ Has(Block(report, j), "guarded") => j \in acc.noted
      /\ acc.lines = lines \/ Parses(p, acc.lines)
  BY DEF PatchOK, Patched
<1>2. Spliceable(report, i)
  BY FittingIsSpliceable
<1>3. /\ next \in Patched
      /\ \/ /\ Refused(p, old, block, new, report[i])
            /\ next.manual = acc.manual \cup {i}
            /\ next.lines = acc.lines
            /\ next.applied = acc.applied /\ next.noted = acc.noted
         \/ /\ ~ Refused(p, old, block, new, report[i])
            /\ next.manual = acc.manual
            /\ next.lines = new
            /\ next.applied = acc.applied \cup {i}
            /\ acc.noted \subseteq next.noted
            /\ Risky(old, block, report[i]) => i \in next.noted
  <2>1. Tried(report, p, acc, i, next)
    BY <1>1, <1>2, TryEither
  <2>2. QED
    BY <2>1 DEF Tried
<1>4. CASE /\ Refused(p, old, block, new, report[i])
           /\ next.manual = acc.manual \cup {i}
           /\ next.lines = acc.lines
           /\ next.applied = acc.applied /\ next.noted = acc.noted
  <2> HIDE DEF next
  <2>1. next.manual = (Edits(report, p) \ Fitting(report, p, lines)) \cup (is \ next.applied)
    BY <1>1, <1>4
  <2>2. PatchOK(report, p, lines, is, next)
    BY <1>1, <1>3, <1>4, <2>1 DEF PatchOK
  <2>3. QED
    BY <2>2 DEF next
<1>5. CASE /\ ~ Refused(p, old, block, new, report[i])
           /\ next.manual = acc.manual
           /\ next.lines = new
           /\ next.applied = acc.applied \cup {i}
           /\ acc.noted \subseteq next.noted
           /\ Risky(old, block, report[i]) => i \in next.noted
  <2>1. Parses(p, new)
    BY <1>5 DEF Refused
  <2>5. report[i].sensitive \/ Has(Block(report, i), "guarded") => i \in next.noted
    BY <1>5 DEF Risky, Touches
  <2> HIDE DEF next, new, old, block
  <2>6. next.manual = (Edits(report, p) \ Fitting(report, p, lines)) \cup (is \ next.applied)
    BY <1>1, <1>5
  <2>7. \A j \in next.applied :
           report[j].sensitive \/ Has(Block(report, j), "guarded") => j \in next.noted
    BY <1>1, <1>5, <2>5
  <2>8. PatchOK(report, p, lines, is, next)
    BY <1>1, <1>3, <1>5, <2>1, <2>6, <2>7 DEF PatchOK
  <2>9. QED
    BY <2>8 DEF next
<1>6. QED
  BY <1>3, <1>4, <1>5

\* PatchOK holds before the first fix is tried.
LEMMA UnpatchedOK ==
    ASSUME NEW report \in Seq(Findings), NEW p, NEW lines \in Seq(Line)
    PROVE  PatchOK(report, p, lines, {}, Unpatched(report, p, lines))
<1>1. Edits(report, p) \ Fitting(report, p, lines) \in SUBSET Nat
  BY FittingAreFindings
<1>2. Unpatched(report, p, lines) \in Patched
  BY <1>1 DEF Unpatched, Patched
<1>3. QED
  BY <1>2 DEF PatchOK, Unpatched

\* PatchOK holds of the file when every fix that fits has been tried.
LEMMA PatchFileOK ==
    ASSUME NEW report \in Seq(Findings), NEW p, NEW lines \in Seq(Line)
    PROVE  PatchOK(report, p, lines, Fitting(report, p, lines), PatchFile(report, p, lines))
<1> DEFINE ok == Fitting(report, p, lines)
           file == Splices(report, p, lines)
           G == {is \in SUBSET ok : PatchOK(report, p, lines, is, file[is])}
<1>1. \A is \in SUBSET ok : file[is] = Further(report, p, lines, file, is)
  BY SplicesUnfold
<1>2. {} \in G
  <2>1. file[{}] = Unpatched(report, p, lines)
    BY <1>1 DEF Further
  <2>2. QED
    BY <2>1, UnpatchedOK
<1>3. ASSUME NEW is \in SUBSET ok, is # {}, is \ {LastOf(report, is)} \in G
      PROVE  is \in G
  <2> DEFINE i == LastOf(report, is)
  <2>1. i \in is
    BY <1>3, FittingAreFindings, LastIsLast
  <2>2. file[is] = Try(report, p, file[is \ {i}], i)
    BY <1>1, <1>3 DEF Further
  <2>3. PatchOK(report, p, lines, is \ {i}, file[is \ {i}])
    BY <1>3
  <2> HIDE DEF i, file
  <2>4. PatchOK(report, p, lines, is, Try(report, p, file[is \ {i}], i))
    BY <2>1, <2>3, TryKeepsPatchOK
  <2>5. QED
    BY <2>2, <2>4
<1> HIDE DEF G
<1>4. ok \in G
  BY <1>2, <1>3, SplicesFollow
<1>5. QED
  BY <1>4, PatchFileSplices DEF G

-------------------------------------------------------------------------------
(***************************************************************************)
(* The flattening of a sequence, piece by piece                            *)
(***************************************************************************)
Flattened(seqs, f, i) == IF i = 1 THEN seqs[i] ELSE f[i - 1] \o seqs[i]

Flattens(seqs) ==
    CHOOSE f : f = [i \in 1..Len(seqs) |-> Flattened(seqs, f, i)]

\* The recursion of FlattenSeq has a solution.
LEMMA FlattensUnfold ==
    ASSUME NEW seqs, Len(seqs) \in Nat
    PROVE  \A i \in 1..Len(seqs) : Flattens(seqs)[i] = Flattened(seqs, Flattens(seqs), i)
<1> DEFINE Solves(f, n) == f = [i \in 1..n |-> Flattened(seqs, f, i)]
           N == {n \in Nat : \E f : Solves(f, n)}
<1>1. 0 \in N
  <2> DEFINE f == [i \in 1..0 |-> seqs]
  <2>1. Solves(f, 0)
    OBVIOUS
  <2>2. QED
    BY <2>1
<1>2. ASSUME NEW n \in Nat, n \in N PROVE n + 1 \in N
  <2>1. PICK f : Solves(f, n)
    BY <1>2
  <2> DEFINE g == [i \in 1..(n + 1) |-> Flattened(seqs, f, i)]
  <2>2. \A i \in 1..n : i \in 1..(n + 1) /\ g[i] = f[i]
    BY <2>1
  <2>3. \A i \in 1..(n + 1) : i # 1 => i - 1 \in 1..n
    OBVIOUS
  <2>4. \A i \in 1..(n + 1) : Flattened(seqs, g, i) = Flattened(seqs, f, i)
    BY <2>2, <2>3 DEF Flattened
  <2> HIDE DEF g
  <2>5. Solves(g, n + 1)
    BY <2>4 DEF g
  <2> HIDE DEF Solves
  <2>6. n + 1 \in Nat /\ \E h : Solves(h, n + 1)
    <3>1. \E h : Solves(h, n + 1)
      BY <2>5, Zenon
    <3>2. QED
      BY <3>1
  <2>7. QED
    BY <2>6
<1> HIDE DEF N
<1>3. Len(seqs) \in N
  BY <1>1, <1>2, NumbersFollow
<1>4. \E f : Solves(f, Len(seqs))
  BY <1>3 DEF N
<1>5. Solves(Flattens(seqs), Len(seqs))
  BY <1>4 DEF Flattens
<1>6. QED
  BY <1>5

\* f holds what the first pieces give, and all of them.
Flattening(f, n, S, seqs) ==
    /\ f \in [0..n -> Seq(S)]
    /\ f[0] = <<>> /\ f[n] = FlattenSeq(seqs)
    /\ \A i \in 1..n : f[i] = f[i - 1] \o seqs[i]

\* FlattenSeq concatenates the pieces one by one.
LEMMA FlattenSeqIs ==
    ASSUME NEW n \in Nat, NEW S, NEW seqs \in [1..n -> Seq(S)]
    PROVE  \E f : Flattening(f, n, S, seqs)
<1> DEFINE f == [i \in 0..n |-> IF i = 0 THEN <<>> ELSE Flattens(seqs)[i]]
<1>1. seqs \in Seq(Seq(S)) /\ Len(seqs) = n
  OBVIOUS
<1>2. \A i \in 1..n : Flattens(seqs)[i] = Flattened(seqs, Flattens(seqs), i)
  BY <1>1, FlattensUnfold
<1>3. \A i \in 1..n : seqs[i] \in Seq(S) /\ i \in 0..n /\ i - 1 \in 0..n
  OBVIOUS
<1>4. f[0] = <<>> /\ \A i \in 1..n : f[i] = f[i - 1] \o seqs[i]
  <2>1. f[0] = <<>>
    OBVIOUS
  <2>2. ASSUME NEW i \in 1..n PROVE f[i] = f[i - 1] \o seqs[i]
    <3>1. f[i] = Flattened(seqs, Flattens(seqs), i)
      BY <1>2
    <3>2. CASE i = 1
      <4>1. f[i] = seqs[i]
        BY <3>1, <3>2 DEF Flattened
      <4>2. <<>> \o seqs[i] = seqs[i]
        BY <1>3, ConcatEmptySeq
      <4>3. QED
        BY <2>1, <3>2, <4>1, <4>2
    <3>3. CASE i # 1
      <4>1. i - 1 \in 1..n /\ i - 1 \in 0..n /\ i - 1 # 0
        BY <3>3
      <4>2. f[i - 1] = Flattens(seqs)[i - 1]
        BY <4>1
      <4>3. QED
        BY <3>1, <3>3, <4>2 DEF Flattened
    <3>4. QED
      BY <3>2, <3>3
  <2>3. QED
    BY <2>1, <2>2
<1>5. f[n] = FlattenSeq(seqs)
  <2>1. CASE n = 0
    <3>1. seqs = <<>>
      BY <1>1, <2>1
    <3>2. FlattenSeq(seqs) = seqs
      BY <1>1, <2>1 DEF FlattenSeq
    <3>3. QED
      BY <1>4, <2>1, <3>1, <3>2
  <2>2. CASE n # 0
    <3>1. FlattenSeq(seqs) = Flattens(seqs)[Len(seqs)]
      BY <1>1, <2>2 DEF FlattenSeq, Flattens, Flattened
    <3>2. QED
      BY <1>1, <2>2, <3>1
  <2>3. QED
    BY <2>1, <2>2
<1>6. f = [i \in 0..n |-> f[i]]
  OBVIOUS
<1> HIDE DEF f
<1>7. \A i \in Nat : i \in 0..n => f[i] \in Seq(S)
  <2> DEFINE N == {i \in Nat : i \in 0..n => f[i] \in Seq(S)}
  <2>1. 0 \in N
    <3>1. f[0] = <<>> /\ <<>> \in Seq(S)
      BY <1>4
    <3>2. QED
      BY <3>1
  <2>2. ASSUME NEW i \in Nat, i \in N PROVE i + 1 \in N
    <3>1. SUFFICES ASSUME i + 1 \in 0..n PROVE f[i + 1] \in Seq(S)
      OBVIOUS
    <3>2. i \in 0..n /\ i + 1 \in 1..n /\ (i + 1) - 1 = i
      BY <3>1
    <3>3. f[i + 1] = f[i] \o seqs[i + 1]
      BY <1>4, <3>2
    <3>4. f[i] \in Seq(S) /\ seqs[i + 1] \in Seq(S)
      BY <1>3, <2>2, <3>2
    <3>5. QED
      BY <3>3, <3>4, ConcatProperties
  <2> HIDE DEF N
  <2>3. \A i \in Nat : i \in N
    BY <2>1, <2>2, NumbersFollow
  <2>4. QED
    BY <2>3 DEF N
<1>8. f \in [0..n -> Seq(S)]
  BY <1>6, <1>7
<1>9. Flattening(f, n, S, seqs)
  BY <1>4, <1>5, <1>8 DEF Flattening
<1>10. QED
  BY <1>9

-------------------------------------------------------------------------------
(***************************************************************************)
(* The fixes of a file compose                                             *)
(***************************************************************************)
\* What Substituted puts for line k.
Piece(report, is, lines, k) ==
    IF \E i \in is : report[i].from = k
    THEN Block(report, CHOOSE i \in is : report[i].from = k)
    ELSE IF \E i \in is : k \in Replaced(report[i]) THEN <<>> ELSE <<lines[k]>>

\* What Substituted puts for a line is lines.
LEMMA PieceIsLines ==
    ASSUME NEW report, NEW is, \A i \in is : Spliceable(report, i),
           NEW lines \in Seq(Line), NEW k \in 1..Len(lines)
    PROVE  Piece(report, is, lines, k) \in Seq(Line)
<1>1. CASE \E i \in is : report[i].from = k
  <2> DEFINE j == CHOOSE i \in is : report[i].from = k
  <2>1. j \in is
    BY <1>1
  <2>2. Piece(report, is, lines, k) = Block(report, j)
    BY <1>1 DEF Piece
  <2> HIDE DEF j
  <2>3. QED
    BY <2>1, <2>2, BlockIs
<1>2. CASE ~ \E i \in is : report[i].from = k
  <2>1. lines[k] \in Line
    OBVIOUS
  <2>2. <<>> \in Seq(Line) /\ <<lines[k]>> \in Seq(Line)
    BY <2>1
  <2>3. QED
    BY <1>2, <2>2 DEF Piece
<1>3. QED
  BY <1>1, <1>2

\* Substituted is built line by line.
Substitutes(f, report, is, lines) ==
    /\ f \in [0..Len(lines) -> Seq(Line)]
    /\ f[0] = <<>> /\ f[Len(lines)] = Substituted(report, is, lines)
    /\ \A k \in 1..Len(lines) : f[k] = f[k - 1] \o Piece(report, is, lines, k)

\* Substituted concatenates what it puts for the lines.
LEMMA SubstitutedIs ==
    ASSUME NEW report, NEW is, \A i \in is : Spliceable(report, i),
           NEW lines \in Seq(Line)
    PROVE  \E f : Substitutes(f, report, is, lines)
<1> DEFINE n == Len(lines)
           seqs == [k \in 1..n |-> Piece(report, is, lines, k)]
<1>1. n \in Nat /\ DOMAIN lines = 1..n
  OBVIOUS
<1>2. seqs \in [1..n -> Seq(Line)]
  BY PieceIsLines
<1>3. Substituted(report, is, lines) = FlattenSeq(seqs)
  BY <1>1 DEF Substituted, Piece
<1>4. \A k \in 1..n : seqs[k] = Piece(report, is, lines, k)
  OBVIOUS
<1> HIDE DEF seqs, n
<1>5. PICK f : Flattening(f, n, Line, seqs)
  BY <1>1, <1>2, FlattenSeqIs
<1>6. Substitutes(f, report, is, lines)
  BY <1>3, <1>4, <1>5 DEF n, Flattening, Substitutes
<1>7. QED
  BY <1>6

\* Above the first line that a fix replaces, nothing changes.
IsPrefixAt(f, lines, m) == f[m] = SubSeq(lines, 1, m)

AsTheyWere(report, is, lines, m) ==
    \A k \in 1..m : Piece(report, is, lines, k) = <<lines[k]>>

LEMMA UntouchedAbove ==
    ASSUME NEW report, NEW is, NEW lines \in Seq(Line), NEW m \in 0..Len(lines),
           AsTheyWere(report, is, lines, m), NEW f, Substitutes(f, report, is, lines)
    PROVE  IsPrefixAt(f, lines, m)
<1> DEFINE N == {k \in Nat : k \in 0..m => f[k] = SubSeq(lines, 1, k)}
<1>0. /\ Len(lines) \in Nat /\ m \in Nat /\ m <= Len(lines) /\ m \in 0..m
      /\ f[0] = <<>>
      /\ \A k \in 1..Len(lines) : f[k] = f[k - 1] \o Piece(report, is, lines, k)
      /\ \A k \in 1..m : Piece(report, is, lines, k) = <<lines[k]>>
  BY DEF Substitutes, AsTheyWere
<1>1. 0 \in N
  <2>1. SubSeq(lines, 1, 0) = <<>>
    BY SubSeqEmpty
  <2>2. QED
    BY <1>0, <2>1
<1>2. ASSUME NEW k \in Nat, k \in N PROVE k + 1 \in N
  <2>1. SUFFICES ASSUME k + 1 \in 0..m PROVE f[k + 1] = SubSeq(lines, 1, k + 1)
    OBVIOUS
  <2>2. /\ k \in 0..m /\ k + 1 \in 1..m /\ k + 1 \in 1..Len(lines) /\ (k + 1) - 1 = k
        /\ k + 1 \in 1..(k + 1) /\ 1 \in 1..Len(lines)
    BY <1>0, <2>1
  <2>3. f[k + 1] = f[k] \o <<lines[k + 1]>>
    BY <1>0, <2>2
  <2>4. f[k] = SubSeq(lines, 1, k)
    BY <1>2, <2>2
  <2>5. SubSeq(lines, 1, k + 1) = SubSeq(lines, 1, (k + 1) - 1) \o <<lines[k + 1]>>
    <3>1. k + 1 \in 1..Len(lines) /\ 1 \in 1..Len(lines) /\ k + 1 \in 1..Len(lines)
      BY <2>2
    <3>2. QED
      BY <2>2, SubSeqRecursiveSecond
  <2>6. QED
    BY <2>2, <2>3, <2>4, <2>5
<1> HIDE DEF N
<1>3. \A k \in Nat : k \in N
  BY <1>1, <1>2, NumbersFollow
<1>4. QED
  BY <1>0, <1>3 DEF N, IsPrefixAt

\* Concatenation of lines is associative.
LEMMA LinesRegroup ==
    ASSUME NEW s \in Seq(Line), NEW t \in Seq(Line), NEW u \in Seq(Line)
    PROVE  (s \o t) \o u = s \o (t \o u)
BY ConcatAssociative

\* Below a line from which two substitutions agree, they go on alike.
GoesOn(f, m, n, piece) ==
    /\ f \in [0..n -> Seq(Line)]
    /\ \A k \in (m + 1)..n : piece[k] \in Seq(Line) /\ f[k] = f[k - 1] \o piece[k]

AlikeFrom(f, g, m, n) ==
    \E s \in Seq(Line) : f[n] = f[m] \o s /\ g[n] = g[m] \o s

LEMMA AlikeBelow ==
    ASSUME NEW n \in Nat, NEW m \in 0..n,
           NEW f, NEW g, NEW piece, GoesOn(f, m, n, piece), GoesOn(g, m, n, piece)
    PROVE  AlikeFrom(f, g, m, n)
<1> DEFINE N == {k \in Nat : k \in m..n => AlikeFrom(f, g, m, k)}
<1>0. m \in Nat /\ m <= n /\ f[m] \in Seq(Line) /\ g[m] \in Seq(Line) /\ <<>> \in Seq(Line)
  BY DEF GoesOn
<1>1. AlikeFrom(f, g, m, m)
  BY <1>0, ConcatEmptySeq DEF AlikeFrom
<1> HIDE DEF AlikeFrom
<1>2. 0 \in N
  <2>1. 0 \in m..n => m = 0
    BY <1>0
  <2>2. QED
    BY <1>1, <2>1
<1>3. ASSUME NEW k \in Nat, k \in N PROVE k + 1 \in N
  <2>1. SUFFICES ASSUME k + 1 \in m..n PROVE AlikeFrom(f, g, m, k + 1)
    OBVIOUS
  <2>2. CASE k + 1 = m
    BY <1>1, <2>2
  <2>3. CASE k + 1 # m
    <3>1. k \in m..n /\ k + 1 \in (m + 1)..n /\ (k + 1) - 1 = k
      BY <1>0, <2>1, <2>3
    <3>2. PICK s \in Seq(Line) : f[k] = f[m] \o s /\ g[k] = g[m] \o s
      BY <1>3, <3>1 DEF AlikeFrom
    <3>3. /\ piece[k + 1] \in Seq(Line)
          /\ f[k + 1] = (f[m] \o s) \o piece[k + 1]
          /\ g[k + 1] = (g[m] \o s) \o piece[k + 1]
      BY <3>1, <3>2 DEF GoesOn
    <3>4. \A t \in Seq(Line) : (t \o s) \o piece[k + 1] = t \o (s \o piece[k + 1])
      BY <3>2, <3>3, LinesRegroup
    <3>5. s \o piece[k + 1] \in Seq(Line)
      BY <3>3, ConcatProperties
    <3>6. /\ f[k + 1] = f[m] \o (s \o piece[k + 1])
          /\ g[k + 1] = g[m] \o (s \o piece[k + 1])
      BY <1>0, <3>3, <3>4, Zenon
    <3>7. QED
      BY <3>5, <3>6 DEF AlikeFrom
  <2>4. QED
    BY <2>2, <2>3
<1> HIDE DEF N
<1>4. \A k \in Nat : k \in N
  BY <1>2, <1>3, NumbersFollow
<1>5. n \in m..n
  BY <1>0
<1>6. QED
  BY <1>4, <1>5 DEF N

\* The two ends that a splice keeps of lines whose first m are known.
Begins(t, lines, m, s) == t = SubSeq(lines, 1, m) \o s

\* The slice above a splice within them, and the slice below them.
LEMMA EndsOfConcat ==
    ASSUME NEW lines \in Seq(Line), NEW m \in 0..Len(lines), NEW s \in Seq(Line),
           NEW b \in 0..m, NEW t \in Seq(Line), Begins(t, lines, m, s)
    PROVE  /\ Slice(t, 0, b) = SubSeq(lines, 1, b)
           /\ Slice(t, m, Len(t)) = s
<1> DEFINE a == SubSeq(lines, 1, m)
<1>1. /\ m \in Nat /\ b \in Nat /\ b <= m /\ m <= Len(lines) /\ m \in Int /\ b \in Int
      /\ Len(lines) \in Nat /\ Len(s) \in Nat
  OBVIOUS
<1>2. ASSUME NEW c \in 0..m
      PROVE  /\ SubSeq(lines, 1, c) \in Seq(Line) /\ Len(SubSeq(lines, 1, c)) = c
             /\ \A k \in 1..c : SubSeq(lines, 1, c)[k] = lines[k]
  <2>1. c \in Int /\ c \in Nat /\ 1 \in Int /\ \A k \in 1..c : lines[k] \in Line
    BY <1>1
  <2>2. /\ SubSeq(lines, 1, c) \in Seq(Line)
        /\ Len(SubSeq(lines, 1, c)) = (IF 1 <= c THEN c - 1 + 1 ELSE 0)
        /\ \A k \in 1..(c - 1 + 1) : SubSeq(lines, 1, c)[k] = lines[1 + k - 1]
    BY <2>1, SubSeqProperties
  <2>3. QED
    BY <2>1, <2>2
<1>3. a \in Seq(Line) /\ Len(a) = m /\ \A k \in 1..m : a[k] = lines[k]
  BY <1>1, <1>2
<1> HIDE DEF a
<1>4. /\ t \in Seq(Line) /\ Len(t) = m + Len(s)
      /\ \A k \in 1..(m + Len(s)) : t[k] = IF k <= m THEN a[k] ELSE s[k - m]
  <2>1. t = a \o s
    BY DEF a, Begins
  <2>2. QED
    BY <1>3, <2>1, ConcatProperties
<1>5. Slice(t, 0, b) = SubSeq(lines, 1, b)
  <2>1. Smaller(b, Len(t)) = b
    BY <1>1, <1>4 DEF Smaller
  <2>2. /\ Slice(t, 0, b) \in Seq(Line)
        /\ Len(Slice(t, 0, b)) = (IF 0 < b THEN b - 0 ELSE 0)
        /\ \A k \in 1..(b - 0) : Slice(t, 0, b)[k] = t[0 + k]
    <3>1. 0 \in Nat /\ b \in Nat /\ t \in Seq(Line)
      BY <1>1, <1>4
    <3>2. IsSlice(Slice(t, 0, b), t, 0, Smaller(b, Len(t)))
      BY <3>1, SliceIs
    <3>3. QED
      BY <2>1, <3>2 DEF IsSlice
  <2>3. Len(Slice(t, 0, b)) = b
    BY <1>1, <2>2
  <2>4. \A k \in 1..b : Slice(t, 0, b)[k] = lines[k]
    <3> TAKE k \in 1..b
    <3>1. k \in 1..(b - 0) /\ 0 + k = k /\ k \in 1..m /\ k \in 1..(m + Len(s)) /\ k <= m
      BY <1>1
    <3>2. QED
      BY <1>3, <1>4, <2>2, <3>1
  <2>5. /\ SubSeq(lines, 1, b) \in Seq(Line) /\ Len(SubSeq(lines, 1, b)) = b
        /\ \A k \in 1..b : SubSeq(lines, 1, b)[k] = lines[k]
    BY <1>1, <1>2
  <2>6. \A k \in 1..Len(Slice(t, 0, b)) : Slice(t, 0, b)[k] = SubSeq(lines, 1, b)[k]
    BY <2>3, <2>4, <2>5
  <2>7. QED
    BY <2>2, <2>3, <2>5, <2>6, SeqEqual
<1>6. Slice(t, m, Len(t)) = s
  <2>1. Len(t) \in Nat /\ Smaller(Len(t), Len(t)) = m + Len(s)
    BY <1>1, <1>4 DEF Smaller
  <2>2. /\ Slice(t, m, Len(t)) \in Seq(Line)
        /\ Len(Slice(t, m, Len(t))) = (IF m < m + Len(s) THEN (m + Len(s)) - m ELSE 0)
        /\ \A k \in 1..((m + Len(s)) - m) : Slice(t, m, Len(t))[k] = t[m + k]
    <3>1. m \in Nat /\ Len(t) \in Nat /\ t \in Seq(Line)
      BY <1>1, <1>4, <2>1
    <3>2. IsSlice(Slice(t, m, Len(t)), t, m, Smaller(Len(t), Len(t)))
      BY <3>1, SliceIs
    <3>3. QED
      BY <2>1, <3>2 DEF IsSlice
  <2>3. Len(Slice(t, m, Len(t))) = Len(s)
    BY <1>1, <2>2
  <2>4. \A k \in 1..Len(s) : Slice(t, m, Len(t))[k] = s[k]
    <3> TAKE k \in 1..Len(s)
    <3>1. /\ k \in 1..((m + Len(s)) - m) /\ m + k \in 1..(m + Len(s)) /\ ~ (m + k <= m)
          /\ (m + k) - m = k
      BY <1>1
    <3>2. QED
      BY <1>4, <2>2, <3>1
  <2>5. QED
    BY <2>2, <2>3, <2>4, SeqEqual
<1>7. QED
  BY <1>5, <1>6

\* Of lines whose first m are known, the slices within them are known.
LEMMA SliceOfConcat ==
    ASSUME NEW lines \in Seq(Line), NEW m \in 0..Len(lines), NEW s \in Seq(Line),
           NEW b \in 0..m, NEW t \in Seq(Line), Begins(t, lines, m, s)
    PROVE  Slice(t, b, m) = Slice(lines, b, m)
<1> DEFINE a == SubSeq(lines, 1, m)
<1>1. /\ m \in Nat /\ b \in Nat /\ b <= m /\ m <= Len(lines) /\ m \in Int
      /\ Len(lines) \in Nat /\ Len(s) \in Nat
  OBVIOUS
<1>2. a \in Seq(Line) /\ Len(a) = m /\ \A k \in 1..m : a[k] = lines[k]
  <2>1. \A k \in 1..m : lines[k] \in Line
    BY <1>1
  <2>2. /\ SubSeq(lines, 1, m) \in Seq(Line)
        /\ Len(SubSeq(lines, 1, m)) = (IF 1 <= m THEN m - 1 + 1 ELSE 0)
        /\ \A k \in 1..(m - 1 + 1) : SubSeq(lines, 1, m)[k] = lines[1 + k - 1]
    BY <1>1, <2>1, SubSeqProperties
  <2>3. QED
    BY <1>1, <2>2
<1> HIDE DEF a
<1>3. /\ Len(t) = m + Len(s)
      /\ \A k \in 1..m : t[k] = lines[k]
  <2>1. t = a \o s
    BY DEF a, Begins
  <2>2. /\ Len(t) = m + Len(s)
        /\ \A k \in 1..(m + Len(s)) : t[k] = IF k <= m THEN a[k] ELSE s[k - m]
    BY <1>2, <2>1, ConcatProperties
  <2>3. QED
    BY <1>1, <1>2, <2>2
<1>4. ASSUME NEW u \in Seq(Line), m <= Len(u), \A k \in 1..m : u[k] = lines[k]
      PROVE  /\ Slice(u, b, m) \in Seq(Line) /\ Len(Slice(u, b, m)) = m - b
             /\ \A k \in 1..(m - b) : Slice(u, b, m)[k] = lines[b + k]
  <2>1. IsSlice(Slice(u, b, m), u, b, Smaller(m, Len(u)))
    BY <1>1, <1>4, SliceIs
  <2>2. Smaller(m, Len(u)) = m
    BY <1>1, <1>4 DEF Smaller
  <2>3. \A k \in 1..(m - b) : b + k \in 1..m
    BY <1>1
  <2>4. QED
    BY <1>1, <1>4, <2>1, <2>2, <2>3 DEF IsSlice
<1>5. /\ Slice(t, b, m) \in Seq(Line) /\ Len(Slice(t, b, m)) = m - b
      /\ \A k \in 1..(m - b) : Slice(t, b, m)[k] = lines[b + k]
  <2>1. t \in Seq(Line) /\ m <= Len(t)
    BY <1>1, <1>3
  <2>2. QED
    BY <1>3, <1>4, <2>1
<1>6. /\ Slice(lines, b, m) \in Seq(Line) /\ Len(Slice(lines, b, m)) = m - b
      /\ \A k \in 1..(m - b) : Slice(lines, b, m)[k] = lines[b + k]
  BY <1>1, <1>4
<1>7. QED
  BY <1>5, <1>6, SeqEqual

\* Above and apart: what a fix needs of the fixes spliced before it.
Below(report, is, i) ==
    /\ \A j \in is : report[j].from > report[i].to
    /\ \A j, k \in is : report[j].from = report[k].from => j = k

OneMore(report, is, i, lines) ==
    /\ AsTheyWere(report, is, lines, report[i].to)
    /\ AsTheyWere(report, is \cup {i}, lines, report[i].from - 1)
    /\ Piece(report, is \cup {i}, lines, report[i].from) = Block(report, i)
    /\ \A k \in (report[i].from + 1)..report[i].to :
          Piece(report, is \cup {i}, lines, k) = <<>>
    /\ \A k \in Nat : k > report[i].to =>
          Piece(report, is \cup {i}, lines, k) = Piece(report, is, lines, k)

\* The pieces of a substitution with one more fix, above all the others.
LEMMA PiecesOfOneMore ==
    ASSUME NEW report, NEW is, NEW i, \A j \in is \cup {i} : Spliceable(report, j),
           Below(report, is, i), NEW lines
    PROVE  OneMore(report, is, i, lines)
<1> DEFINE fr == report[i].from
           to == report[i].to
<1>1. /\ \A j \in is \cup {i} : report[j].from \in Nat /\ report[j].to \in Nat
                                /\ report[j].from >= 1 /\ report[j].from <= report[j].to
      /\ \A j \in is : report[j].from > to
      /\ fr \in Nat /\ to \in Nat /\ fr <= to /\ fr >= 1
  BY DEF Spliceable, Below
<1>2. ASSUME NEW k \in 1..to PROVE Piece(report, is, lines, k) = <<lines[k]>>
  <2>1. \A j \in is : report[j].from # k /\ k \notin Replaced(report[j])
    BY <1>1 DEF Replaced
  <2>2. QED
    BY <2>1 DEF Piece
<1>3. ASSUME NEW k \in 1..(fr - 1)
      PROVE  Piece(report, is \cup {i}, lines, k) = <<lines[k]>>
  <2>1. \A j \in is \cup {i} : report[j].from # k /\ k \notin Replaced(report[j])
    BY <1>1 DEF Replaced
  <2>2. QED
    BY <2>1 DEF Piece
<1>4. Piece(report, is \cup {i}, lines, fr) = Block(report, i)
  <2>1. \A j \in is \cup {i} : report[j].from = fr => j = i
    BY <1>1
  <2>2. \E j \in is \cup {i} : report[j].from = fr
    OBVIOUS
  <2> HIDE DEF fr
  <2>3. (CHOOSE j \in is \cup {i} : report[j].from = fr) = i
    BY <2>1, <2>2
  <2>4. QED
    BY <2>2, <2>3 DEF Piece
<1>5. ASSUME NEW k \in (fr + 1)..to
      PROVE  Piece(report, is \cup {i}, lines, k) = <<>>
  <2>1. \A j \in is \cup {i} : report[j].from # k
    BY <1>1
  <2>2. k \in Replaced(report[i])
    BY <1>1 DEF Replaced
  <2>3. QED
    BY <2>1, <2>2 DEF Piece
<1>6. ASSUME NEW k \in Nat, k > to
      PROVE  Piece(report, is \cup {i}, lines, k) = Piece(report, is, lines, k)
  <2>1. fr # k /\ k \notin Replaced(report[i])
    BY <1>1, <1>6 DEF Replaced
  <2>2. CASE \E j \in is : report[j].from = k
    <3>1. PICK j \in is : report[j].from = k
      BY <2>2
    <3>2. \A l \in is : report[l].from = k => l = j
      BY <3>1 DEF Below
    <3>3. \A l \in is \cup {i} : report[l].from = k => l = j
      BY <2>1, <3>2
    <3>4. (CHOOSE l \in is : report[l].from = k) = j
      BY <3>1, <3>2
    <3>5. (CHOOSE l \in is \cup {i} : report[l].from = k) = j
      BY <3>1, <3>3
    <3>6. QED
      BY <2>2, <3>4, <3>5 DEF Piece
  <2>3. CASE ~ \E j \in is : report[j].from = k
    <3>1. ~ \E j \in is \cup {i} : report[j].from = k
      BY <2>1, <2>3
    <3>2. (\E j \in is \cup {i} : k \in Replaced(report[j]))
            <=> (\E j \in is : k \in Replaced(report[j]))
      BY <2>1
    <3>3. QED
      BY <2>3, <3>1, <3>2 DEF Piece
  <2>4. QED
    BY <2>2, <2>3
<1>7. QED
  BY <1>2, <1>3, <1>4, <1>5, <1>6 DEF OneMore, AsTheyWere

\* Splicing a fix above the fixes of is, into what they leave, substitutes it too.
LEMMA SpliceSubstitutes ==
    ASSUME NEW report, NEW is, NEW i, \A j \in is \cup {i} : Spliceable(report, j),
           Below(report, is, i), NEW lines \in Seq(Line), report[i].to <= Len(lines)
    PROVE  Splice(Substituted(report, is, lines), report, i)
             = Substituted(report, is \cup {i}, lines)
<1> DEFINE fr == report[i].from
           to == report[i].to
           n == Len(lines)
           Prefix(k) == SubSeq(lines, 1, k)
<1>1. /\ n \in Nat /\ fr \in Nat /\ to \in Nat /\ fr >= 1 /\ fr <= to /\ to <= n
      /\ fr - 1 \in Nat /\ fr - 1 \in 0..n /\ to \in 0..n /\ fr - 1 \in 0..to
  BY DEF Spliceable
<1>2. PICK g : Substitutes(g, report, is, lines)
  BY SubstitutedIs
<1>3. PICK h : Substitutes(h, report, is \cup {i}, lines)
  BY SubstitutedIs
<1>4. OneMore(report, is, i, lines)
  BY PiecesOfOneMore
<1>5. g[to] = Prefix(to)
  <2>1. to \in 0..Len(lines) /\ AsTheyWere(report, is, lines, to)
    BY <1>1, <1>4 DEF OneMore
  <2> HIDE DEF to
  <2>2. IsPrefixAt(g, lines, to)
    BY <1>2, <2>1, UntouchedAbove
  <2>3. QED
    BY <2>2 DEF IsPrefixAt
<1>6. h[fr - 1] = Prefix(fr - 1)
  <2> DEFINE m == fr - 1
             more == is \cup {i}
  <2>1. /\ m \in 0..Len(lines) /\ Substitutes(h, report, more, lines)
        /\ AsTheyWere(report, more, lines, m)
    BY <1>1, <1>3, <1>4 DEF OneMore
  <2> HIDE DEF m, more
  <2>2. IsPrefixAt(h, lines, m)
    BY <2>1, UntouchedAbove
  <2>3. QED
    BY <2>2 DEF m, IsPrefixAt
<1>7. /\ g \in [0..n -> Seq(Line)] /\ h \in [0..n -> Seq(Line)]
      /\ g[n] = Substituted(report, is, lines)
      /\ h[n] = Substituted(report, is \cup {i}, lines)
      /\ \A k \in 1..n : g[k] = g[k - 1] \o Piece(report, is, lines, k)
      /\ \A k \in 1..n : h[k] = h[k - 1] \o Piece(report, is \cup {i}, lines, k)
  BY <1>2, <1>3 DEF Substitutes
<1>8. /\ Piece(report, is \cup {i}, lines, fr) = Block(report, i)
      /\ \A k \in (fr + 1)..to : Piece(report, is \cup {i}, lines, k) = <<>>
      /\ \A k \in Nat : k > to =>
           Piece(report, is \cup {i}, lines, k) = Piece(report, is, lines, k)
  BY <1>4 DEF OneMore
<1> HIDE DEF fr, to, n
<1>9. h[fr] = Prefix(fr - 1) \o Block(report, i)
  <2>1. fr \in 1..n
    BY <1>1
  <2>2. QED
    BY <1>7, <1>8, <1>6, <2>1
<1>10. h[to] = h[fr]
  <2> DEFINE N == {k \in Nat : k \in fr..to => h[k] = h[fr]}
  <2>1. 0 \in N
    BY <1>1
  <2>2. ASSUME NEW k \in Nat, k \in N PROVE k + 1 \in N
    <3>1. CASE k + 1 \notin fr..to
      BY <3>1
    <3>2. CASE k + 1 = fr
      BY <3>2
    <3>3. CASE k + 1 \in (fr + 1)..to
      <4>1. k \in fr..to /\ k \in 0..n /\ k + 1 \in 1..n /\ (k + 1) - 1 = k
        BY <1>1, <3>3
      <4>2. h[k + 1] = h[k] \o <<>>
        BY <1>7, <1>8, <3>3, <4>1
      <4>3. h[k] \in Seq(Line)
        BY <1>7, <4>1
      <4>4. h[k + 1] = h[k]
        BY <4>2, <4>3, ConcatEmptySeq
      <4>5. QED
        BY <2>2, <4>1, <4>4
    <3>4. QED
      BY <1>1, <3>1, <3>2, <3>3
  <2> HIDE DEF N
  <2>3. to \in N
    BY <1>1, <2>1, <2>2, NumbersFollow
  <2>4. QED
    BY <1>1, <2>3 DEF N
<1>11. PICK s \in Seq(Line) : g[n] = g[to] \o s /\ h[n] = h[to] \o s
  <2> DEFINE piece == [k \in (to + 1)..n |-> Piece(report, is, lines, k)]
  <2>1. ASSUME NEW k \in (to + 1)..n
        PROVE  /\ piece[k] \in Seq(Line)
               /\ g[k] = g[k - 1] \o piece[k]
               /\ h[k] = h[k - 1] \o piece[k]
    <3>1. k \in 1..n /\ k \in Nat /\ k > to /\ piece[k] = Piece(report, is, lines, k)
      BY <1>1
    <3>2. Piece(report, is, lines, k) \in Seq(Line)
      BY <3>1, PieceIsLines DEF n
    <3>3. QED
      BY <1>7, <1>8, <3>1, <3>2
  <2> HIDE DEF piece
  <2>2. GoesOn(g, to, n, piece) /\ GoesOn(h, to, n, piece)
    BY <1>7, <2>1 DEF GoesOn
  <2>3. AlikeFrom(g, h, to, n)
    BY <1>1, <2>2, AlikeBelow
  <2>4. QED
    BY <2>3 DEF AlikeFrom
<1>12. /\ Slice(g[n], 0, fr - 1) = Prefix(fr - 1)
       /\ Slice(g[n], to, Len(g[n])) = s
  <2> DEFINE t == g[n]
             b == fr - 1
  <2>1. n \in 0..n
    BY <1>1
  <2>2. t \in Seq(Line)
    BY <1>7, <2>1
  <2>3. Begins(t, lines, to, s)
    BY <1>5, <1>11 DEF Begins
  <2>4. to \in 0..Len(lines) /\ b \in 0..to
    BY <1>1 DEF n
  <2> HIDE DEF t, b
  <2>5. Slice(t, 0, b) = SubSeq(lines, 1, b) /\ Slice(t, to, Len(t)) = s
    BY <2>2, <2>3, <2>4, EndsOfConcat
  <2>6. QED
    BY <2>5 DEF t, b
<1>13. Splice(g[n], report, i) = (Prefix(fr - 1) \o Block(report, i)) \o s
  BY <1>12 DEF Splice, fr, to
<1>14. QED
  BY <1>7, <1>9, <1>10, <1>11, <1>13

\* The lines that a fix above the fixes of is replaces are those of the scanned file.
LEMMA ReplacesWhatWasScanned ==
    ASSUME NEW report, NEW is, NEW i, \A j \in is \cup {i} : Spliceable(report, j),
           Below(report, is, i), NEW lines \in Seq(Line), report[i].to <= Len(lines)
    PROVE  Slice(Substituted(report, is, lines), report[i].from - 1, report[i].to)
             = Slice(lines, report[i].from - 1, report[i].to)
<1> DEFINE fr == report[i].from
           to == report[i].to
           n == Len(lines)
           b == fr - 1
<1>1. /\ n \in Nat /\ fr \in Nat /\ to \in Nat /\ fr >= 1 /\ fr <= to /\ to <= n
      /\ to \in 0..Len(lines) /\ b \in 0..to /\ n \in 0..n
  BY DEF Spliceable
<1>2. PICK g : Substitutes(g, report, is, lines)
  BY SubstitutedIs
<1>3. AsTheyWere(report, is, lines, to)
  BY PiecesOfOneMore DEF OneMore
<1> HIDE DEF fr, to, n, b
<1>4. IsPrefixAt(g, lines, to)
  BY <1>1, <1>2, <1>3, UntouchedAbove
<1>5. /\ g \in [0..n -> Seq(Line)] /\ g[n] = Substituted(report, is, lines)
      /\ \A k \in 1..n : g[k] = g[k - 1] \o Piece(report, is, lines, k)
  BY <1>2 DEF Substitutes, n
<1>6. PICK s \in Seq(Line) : g[n] = g[to] \o s
  <2> DEFINE piece == [k \in (to + 1)..n |-> Piece(report, is, lines, k)]
  <2>1. ASSUME NEW k \in (to + 1)..n
        PROVE  piece[k] \in Seq(Line) /\ g[k] = g[k - 1] \o piece[k]
    <3>1. k \in 1..n /\ piece[k] = Piece(report, is, lines, k)
      BY <1>1
    <3>2. Piece(report, is, lines, k) \in Seq(Line)
      BY <3>1, PieceIsLines DEF n
    <3>3. QED
      BY <1>5, <3>1, <3>2
  <2> HIDE DEF piece
  <2>2. GoesOn(g, to, n, piece)
    BY <1>5, <2>1 DEF GoesOn
  <2>3. AlikeFrom(g, g, to, n)
    BY <1>1, <2>2, AlikeBelow
  <2>4. QED
    BY <2>3 DEF AlikeFrom
<1>7. Begins(g[n], lines, to, s) /\ g[n] \in Seq(Line)
  BY <1>1, <1>4, <1>5, <1>6 DEF Begins, IsPrefixAt
<1>8. Slice(g[n], b, to) = Slice(lines, b, to)
  BY <1>1, <1>7, SliceOfConcat
<1>9. QED
  BY <1>5, <1>8 DEF fr, to, b

\* To substitute no fix is to leave the lines.
LEMMA NothingSubstituted ==
    ASSUME NEW report, NEW lines \in Seq(Line)
    PROVE  Substituted(report, {}, lines) = lines
<1>1. PICK f : Substitutes(f, report, {}, lines)
  BY SubstitutedIs
<1>2. AsTheyWere(report, {}, lines, Len(lines))
  BY DEF Piece, AsTheyWere
<1>3. Len(lines) \in 0..Len(lines)
  OBVIOUS
<1>4. IsPrefixAt(f, lines, Len(lines))
  BY <1>1, <1>2, <1>3, UntouchedAbove
<1>5. QED
  BY <1>1, <1>4, SubSeqFull DEF Substitutes, IsPrefixAt

\* A fix of is is bad only where the lines it replaces are.
OnlyBadForBad(report, lines, is) ==
    \A i \in is : IsBad(Block(report, i))
                    => IsBad(Slice(lines, report[i].from - 1, report[i].to))

\* The file after the splices, when no two fixes that fit replace a common line.
LEMMA PatchFileComposes ==
    ASSUME NEW report \in Seq(Findings), NEW p, NEW lines \in Seq(Line),
           Disjoint(report, Fitting(report, p, lines))
    PROVE  /\ PatchFile(report, p, lines).lines
                = Substituted(report, PatchFile(report, p, lines).applied, lines)
           /\ OnlyBadForBad(report, lines, PatchFile(report, p, lines).applied)
<1> DEFINE ok == Fitting(report, p, lines)
           file == Splices(report, p, lines)
           Composes(is) == /\ file[is].lines = Substituted(report, file[is].applied, lines)
                           /\ OnlyBadForBad(report, lines, file[is].applied)
           G == {is \in SUBSET ok : PatchOK(report, p, lines, is, file[is]) /\ Composes(is)}
<1>1. \A is \in SUBSET ok : file[is] = Further(report, p, lines, file, is)
  BY SplicesUnfold
<1>2. {} \in G
  <2>1. file[{}] = Unpatched(report, p, lines)
    BY <1>1 DEF Further
  <2>2. PatchOK(report, p, lines, {}, file[{}])
    BY <2>1, UnpatchedOK
  <2>3. Composes({})
    BY <2>1, NothingSubstituted DEF Unpatched, OnlyBadForBad
  <2>4. QED
    BY <2>2, <2>3
<1>3. ASSUME NEW is \in SUBSET ok, is # {}, is \ {LastOf(report, is)} \in G
      PROVE  is \in G
  <2> DEFINE i == LastOf(report, is)
             acc == file[is \ {i}]
  <2>1. i \in is /\ \A j \in is \ {i} : BottomUp(report, j, i)
    BY <1>3, FittingAreFindings, LastIsLast
  <2>2. file[is] = Try(report, p, acc, i)
    BY <1>1, <1>3 DEF Further
  <2>3. /\ PatchOK(report, p, lines, is \ {i}, acc)
        /\ acc.lines = Substituted(report, acc.applied, lines)
        /\ OnlyBadForBad(report, lines, acc.applied)
    BY <1>3
  <2>4. acc \in Patched /\ acc.applied \subseteq is \ {i}
    BY <2>3 DEF PatchOK
  <2>5. \A j \in ok : /\ Spliceable(report, j) /\ report[j].to \in report[j].from..Len(lines)
                      /\ report[j].path = p
    BY FittingIsSpliceable DEF Fitting, Edits
  <2>6. Below(report, acc.applied, i)
    <3>1. ASSUME NEW j \in ok, NEW k \in ok, report[j].from = report[k].from PROVE j = k
      <4>1. report[j].from \in Replaced(report[j]) /\ report[j].from \in Replaced(report[k])
        BY <2>5, <3>1 DEF Replaced, Spliceable
      <4>2. QED
        BY <2>5, <4>1 DEF Disjoint
    <3>2. ASSUME NEW j \in is \ {i} PROVE report[j].from > report[i].to
      <4>1. /\ report[j].from \in Nat /\ report[i].from \in Nat /\ report[i].to \in Nat
            /\ report[j].to \in Nat /\ report[j].from <= report[j].to
        BY <2>1, <2>5 DEF Spliceable
      <4>2. report[j].from > report[i].from
        BY <2>1, <3>1, <4>1 DEF BottomUp
      <4>3. report[j].from \in Replaced(report[j])
        BY <4>1 DEF Replaced
      <4>4. report[j].from \notin Replaced(report[i])
        BY <2>1, <2>5, <4>3 DEF Disjoint
      <4>5. QED
        BY <4>1, <4>2, <4>4 DEF Replaced
    <3>3. QED
      BY <2>4, <3>1, <3>2 DEF Below
  <2>7. /\ \A j \in acc.applied \cup {i} : Spliceable(report, j)
        /\ report[i].to <= Len(lines)
    <3>1. i \in ok /\ \A j \in acc.applied : j \in ok
      BY <2>1, <2>4
    <3> HIDE DEF i, acc, ok
    <3>2. QED
      BY <2>5, <3>1
  <2>8. PatchOK(report, p, lines, is, file[is])
    BY <2>1, <2>2, <2>3, TryKeepsPatchOK
  <2>9. \/ file[is].lines = acc.lines /\ file[is].applied = acc.applied
        \/ /\ file[is].lines = Splice(acc.lines, report, i)
           /\ file[is].applied = acc.applied \cup {i}
           /\ ~ Introduces(Slice(acc.lines, report[i].from - 1, report[i].to), Block(report, i))
    <3> HIDE DEF acc, i
    <3>1. Spliceable(report, i)
      BY <2>7
    <3>2. Tried(report, p, acc, i, file[is])
      BY <2>2, <2>4, <3>1, TryEither
    <3>3. QED
      BY <3>2 DEF Tried, Refused
  <2> HIDE DEF acc, i, file
  <2>10. file[is].lines = Substituted(report, file[is].applied, lines)
    BY <2>3, <2>6, <2>7, <2>9, SpliceSubstitutes
  <2>11. Slice(acc.lines, report[i].from - 1, report[i].to)
           = Slice(lines, report[i].from - 1, report[i].to)
    BY <2>3, <2>6, <2>7, ReplacesWhatWasScanned
  <2>12. OnlyBadForBad(report, lines, file[is].applied)
    BY <2>3, <2>9, <2>11 DEF OnlyBadForBad, Introduces
  <2>13. QED
    BY <2>8, <2>10, <2>12
<1> HIDE DEF G
<1>4. ok \in G
  BY <1>2, <1>3, SplicesFollow
<1>5. QED
  BY <1>4, PatchFileSplices DEF G

-------------------------------------------------------------------------------
(***************************************************************************)
(* What classify_and_apply returns, when it has returned                   *)
(***************************************************************************)
\* The result a run keeps is that of a report on the files of the clone.
FixesOK ==
    \/ fixes = NoFixes
    \/ /\ fixes.report \in Reports /\ fixes.before \in Sources
       /\ fixes.result = ClassifyAndApply(fixes.report, fixes.before)

\* Every result a run keeps is one of classify_and_apply.
LEMMA FixesInvariance ==
    BranchSpec => []FixesOK
<1>1. BranchInit => FixesOK
  BY DEF BranchInit, FixesOK
<1>2. ASSUME FixesOK, [BranchNext]_branchVars PROVE FixesOK'
  <2>1. CASE UNCHANGED branchVars
    BY <1>2, <2>1 DEF FixesOK, branchVars
  <2>2. CASE \E c \in Clones : Apply(c)
    <3>1. PICK c \in Clones : Apply(c)
      BY <2>2
    <3>2. PICK report \in Reports, files \in Sources :
             fixes' = [pc |-> "done", report |-> report, before |-> files,
                       result |-> ClassifyAndApply(report, files)]
      BY <3>1 DEF Apply
    <3>3. /\ fixes'.report = report /\ fixes'.before = files
          /\ fixes'.result = ClassifyAndApply(report, files)
      BY <3>2
    <3>4. QED
      BY <3>3 DEF FixesOK
  <2>3. CASE fixes' = NoFixes \/ fixes' = fixes
    BY <1>2, <2>3 DEF FixesOK
  <2>4. ASSUME NEW c \in Clones,
               \/ Begin(c) \/ Fetch(c) \/ SelfCheck(c) \/ Commit(c)
               \/ Push(c) \/ OpenPR(c) \/ Quit(c) \/ Tidy(c)
        PROVE  fixes' = NoFixes \/ fixes' = fixes
    BY <2>4 DEF Begin, Fetch, SelfCheck, Commit, Push, OpenPR, Quit, Tidy
  <2>5. ASSUME NEW b \in 1..Depth, Merge(b) PROVE fixes' = fixes
    BY <2>5 DEF Merge
  <2>6. QED
    BY <1>2, <2>1, <2>2, <2>3, <2>4, <2>5 DEF BranchNext
<1>3. QED
  BY <1>1, <1>2, PTL DEF BranchSpec

\* What a run has of a result, with the fixes of each file.
LEMMA AppliedIs ==
    ASSUME FixesOK, Applied, BranchAssumption
    PROVE  /\ fixes.report \in Seq(Findings)
           /\ \A p \in Paths : fixes.before[p] \in Seq(Line)
           /\ fixes.result = ClassifyAndApply(fixes.report, fixes.before)
<1>1. /\ fixes.report \in Reports /\ fixes.before \in Sources
      /\ fixes.result = ClassifyAndApply(fixes.report, fixes.before)
  BY DEF FixesOK, Applied
<1>2. fixes.report \in Seq(Findings) /\ fixes.before \in [Paths -> Seq(Line)]
  BY <1>1 DEF BranchAssumption
<1>3. QED
  BY <1>1, <1>2

\* The result, file by file: each as PatchFile leaves it, with its own fixes.
LEMMA ResultIs ==
    ASSUME NEW report \in Seq(Findings), NEW files, \A p \in Paths : files[p] \in Seq(Line)
    PROVE  \A p \in Paths :
             LET file == PatchFile(report, p, files[p])
             IN /\ PatchOK(report, p, files[p], Fitting(report, p, files[p]), file)
                /\ {i \in ClassifyAndApply(report, files).applied : report[i].path = p}
                     = file.applied
                /\ ClassifyAndApply(report, files).files[p] = file.lines
<1> SUFFICES ASSUME NEW p \in Paths
             PROVE  LET file == PatchFile(report, p, files[p])
                    IN /\ PatchOK(report, p, files[p], Fitting(report, p, files[p]), file)
                       /\ {i \in ClassifyAndApply(report, files).applied : report[i].path = p}
                            = file.applied
                       /\ ClassifyAndApply(report, files).files[p] = file.lines
  OBVIOUS
<1> DEFINE patched == [q \in Paths |-> PatchFile(report, q, files[q])]
           result == ClassifyAndApply(report, files)
<1>1. \A q \in Paths : PatchOK(report, q, files[q], Fitting(report, q, files[q]), patched[q])
  BY PatchFileOK
<1>2. \A q \in Paths : \A i \in patched[q].applied : report[i].path = q
  BY <1>1 DEF PatchOK, Fitting, Edits
<1>3. /\ result.applied = UNION {patched[q].applied : q \in Paths}
      /\ result.files = [q \in Paths |-> patched[q].lines]
  BY DEF ClassifyAndApply
<1>4. patched[p] = PatchFile(report, p, files[p])
  OBVIOUS
<1> HIDE DEF patched, result
<1>5. {i \in result.applied : report[i].path = p} = patched[p].applied
  BY <1>2, <1>3
<1>6. result.files[p] = patched[p].lines
  BY <1>3
<1>7. QED
  BY <1>1, <1>4, <1>5, <1>6 DEF result

\* Every finding is listed, on one side only, and every risky fix is flagged.
LEMMA AllAreListed ==
    ASSUME FixesOK, BranchAssumption
    PROVE  EveryFindingIsListed
<1> SUFFICES ASSUME Applied
             PROVE  LET report == fixes.report
                        body == BuildPrBody(report, fixes.result)
                    IN /\ body.fixes \cap body.manual = {}
                       /\ \A i \in DOMAIN report :
                            \/ i \in body.fixes \cup body.manual
                            \/ report[i].secret /\ report[i].path \in body.rotate
                            \/ Unlisted(report[i])
                       /\ \A i \in body.fixes :
                            report[i].sensitive \/ Has(Block(report, i), "guarded")
                              => i \in body.flagged
  BY DEF EveryFindingIsListed
<1> DEFINE report == fixes.report
           files == fixes.before
           patched == [p \in Paths |-> PatchFile(report, p, files[p])]
           ok(p) == Fitting(report, p, files[p])
           result == ClassifyAndApply(report, files)
           body == BuildPrBody(report, result)
<1>1. /\ report \in Seq(Findings) /\ (\A p \in Paths : files[p] \in Seq(Line))
      /\ fixes.result = result
  BY AppliedIs
<1>2. \A p \in Paths : PatchOK(report, p, files[p], ok(p), patched[p])
  BY <1>1, PatchFileOK
<1>3. /\ result.applied = UNION {patched[p].applied : p \in Paths}
      /\ result.risk_notes = UNION {patched[p].noted : p \in Paths}
      /\ result.manual = {i \in DOMAIN report : ~report[i].secret /\ ~Queued(report[i])}
                           \cup UNION {patched[p].manual : p \in Paths}
      /\ result.secret_files = {report[i].path : i \in {j \in DOMAIN report :
                                  report[j].secret /\ report[j].path # NoPath}}
  BY DEF ClassifyAndApply
<1>4. /\ body.fixes = result.applied /\ body.manual = result.manual
      /\ body.rotate = result.secret_files
      /\ body.flagged = {i \in result.applied :
            \E j \in result.risk_notes : Label(report[j]) = Label(report[i])}
  BY DEF BuildPrBody
<1>5. \A p \in Paths :
        /\ patched[p].applied \subseteq ok(p) /\ ok(p) \subseteq Edits(report, p)
        /\ patched[p].manual = (Edits(report, p) \ ok(p)) \cup (ok(p) \ patched[p].applied)
        /\ \A i \in patched[p].applied :
              report[i].sensitive \/ Has(Block(report, i), "guarded") => i \in patched[p].noted
  BY <1>1, <1>2, FittingAreFindings DEF PatchOK
<1>6. \A p : \A i \in Edits(report, p) : Queued(report[i]) /\ report[i].path = p
  BY DEF Edits
<1> HIDE DEF report, files, patched, ok, result, body
<1>7. body.fixes \cap body.manual = {}
  <2> SUFFICES ASSUME NEW i \in result.applied, i \in result.manual PROVE FALSE
    BY <1>4
  <2>1. PICK p \in Paths : i \in patched[p].applied
    BY <1>3
  <2>2. i \in Edits(report, p) /\ Queued(report[i]) /\ report[i].path = p
    BY <1>5, <1>6, <2>1
  <2>3. PICK q \in Paths : i \in patched[q].manual
    BY <1>3, <2>2
  <2>4. i \in Edits(report, q) /\ q = p
    BY <1>5, <1>6, <2>2, <2>3
  <2>5. QED
    BY <1>5, <2>1, <2>3, <2>4
<1>8. ASSUME NEW i \in DOMAIN report
      PROVE  \/ i \in body.fixes \cup body.manual
             \/ report[i].secret /\ report[i].path \in body.rotate
             \/ Unlisted(report[i])
  <2>1. CASE report[i].secret
    BY <1>3, <1>4, <2>1 DEF Unlisted
  <2>2. CASE ~ report[i].secret /\ ~ Queued(report[i])
    BY <1>3, <1>4, <2>2
  <2>3. CASE Queued(report[i])
    <3>1. report[i].path \in Paths /\ i \in Edits(report, report[i].path)
      BY <2>3 DEF Queued, Edits
    <3>2. i \in patched[report[i].path].applied \/ i \in patched[report[i].path].manual
      BY <1>5, <3>1
    <3>3. QED
      BY <1>3, <1>4, <3>1, <3>2
  <2>4. QED
    BY <2>1, <2>2, <2>3
<1>9. ASSUME NEW i \in body.fixes, report[i].sensitive \/ Has(Block(report, i), "guarded")
      PROVE  i \in body.flagged
  <2>1. PICK p \in Paths : i \in patched[p].applied
    BY <1>3, <1>4
  <2>2. i \in result.risk_notes
    BY <1>3, <1>5, <1>9, <2>1
  <2>3. QED
    BY <1>4, <2>2
<1>10. body.fixes \cap body.manual = {}
       /\ (\A i \in DOMAIN report :
            \/ i \in body.fixes \cup body.manual
            \/ report[i].secret /\ report[i].path \in body.rotate
            \/ Unlisted(report[i]))
       /\ (\A i \in body.fixes :
            report[i].sensitive \/ Has(Block(report, i), "guarded") => i \in body.flagged)
  BY <1>7, <1>8, <1>9
<1>11. QED
  BY <1>1, <1>10 DEF report, body

\* safe_apply.py:22-23: no finding is dropped from the body of the pull request, or
\* listed both as a fix and as work to do; and the body warns of every risky fix.
THEOREM FindingsAreListed ==
    ASSUME BranchAssumption
    PROVE  BranchSpec => []EveryFindingIsListed
<1>1. FixesOK => EveryFindingIsListed
  BY AllAreListed
<1>2. QED
  BY <1>1, FixesInvariance, PTL

\* Bottom-to-top splicing leaves what replacing all the applied ranges at once
\* leaves, in every file where no two of the fixes that fit replace a common line.
THEOREM FixesCompose ==
    ASSUME BranchAssumption
    PROVE  BranchSpec => []DisjointFixesCompose
<1>1. ASSUME FixesOK PROVE DisjointFixesCompose
  <2> SUFFICES ASSUME Applied, NEW p \in Paths,
                      Disjoint(fixes.report, Fitting(fixes.report, p, fixes.before[p]))
               PROVE  fixes.result.files[p] =
                        Substituted(fixes.report,
                                    {i \in fixes.result.applied : fixes.report[i].path = p},
                                    fixes.before[p])
    BY DEF DisjointFixesCompose
  <2>1. /\ fixes.report \in Seq(Findings) /\ (\A q \in Paths : fixes.before[q] \in Seq(Line))
        /\ fixes.result = ClassifyAndApply(fixes.report, fixes.before)
    BY <1>1, AppliedIs
  <2> DEFINE file == PatchFile(fixes.report, p, fixes.before[p])
  <2>2. /\ {i \in fixes.result.applied : fixes.report[i].path = p} = file.applied
        /\ fixes.result.files[p] = file.lines
    BY <2>1, ResultIs
  <2>3. file.lines = Substituted(fixes.report, file.applied, fixes.before[p])
    BY <2>1, PatchFileComposes
  <2> HIDE DEF file
  <2>4. QED
    BY <2>2, <2>3
<1>2. QED
  BY <1>1, FixesInvariance, PTL

\* Where fixes do not meet, the block of an applied one is bad only if the lines of
\* the scanned file that it replaces were; and a Python file that fixes have
\* changed parses.
THEOREM FloorAlwaysHolds ==
    ASSUME BranchAssumption
    PROVE  BranchSpec => []FloorHolds
<1>1. ASSUME FixesOK PROVE FloorHolds
  <2> SUFFICES ASSUME Applied, NEW p \in Paths
               PROVE  LET report == fixes.report
                          before == fixes.before[p]
                          after == fixes.result.files[p]
                      IN /\ after # before => Parses(p, after)
                         /\ Disjoint(report, Fitting(report, p, before)) =>
                              \A i \in fixes.result.applied :
                                report[i].path = p /\ IsBad(Block(report, i))
                                  => IsBad(Slice(before, report[i].from - 1, report[i].to))
    BY DEF FloorHolds
  <2>1. /\ fixes.report \in Seq(Findings) /\ (\A q \in Paths : fixes.before[q] \in Seq(Line))
        /\ fixes.result = ClassifyAndApply(fixes.report, fixes.before)
    BY <1>1, AppliedIs
  <2> DEFINE file == PatchFile(fixes.report, p, fixes.before[p])
  <2>2. /\ PatchOK(fixes.report, p, fixes.before[p],
                   Fitting(fixes.report, p, fixes.before[p]), file)
        /\ {i \in fixes.result.applied : fixes.report[i].path = p} = file.applied
        /\ fixes.result.files[p] = file.lines
    BY <2>1, ResultIs
  <2>3. Disjoint(fixes.report, Fitting(fixes.report, p, fixes.before[p]))
          => OnlyBadForBad(fixes.report, fixes.before[p], file.applied)
    BY <2>1, PatchFileComposes
  <2> HIDE DEF file
  <2>4. QED
    BY <2>2, <2>3 DEF PatchOK, OnlyBadForBad
<1>2. QED
  BY <1>1, FixesInvariance, PTL

-------------------------------------------------------------------------------
(***************************************************************************)
(* Types of the branches, the clones and the runs                          *)
(***************************************************************************)
\* The default branch is never deleted; a run that has not committed has a
\* branch to commit to, and one that has is on it.
OnBranch ==
    /\ remote[0] # Absent
    /\ \A c \in Clones :
          /\ run[c].pc \in {"fetch", "apply", "check", "commit"} => clone[c].head + 1 \in Branches
          /\ run[c].pc \in {"push", "pr"} => clone[c].head \in 1..Depth

BranchTypes == BranchTypeOK /\ OnBranch

RemoteOK ==
    /\ remote = [b \in Branches |-> remote[b]] /\ remote[0] # Absent
    /\ \A b \in Branches : remote[b] = Absent \/ IsTrail(remote[b], runs)

\* A trail over a trail is a trail.
LEMMA TrailsAreOver ==
    ASSUME NEW n, NEW s, IsTrail(s, n), NEW t, IsTrail(t, n)
    PROVE  IsTrail(Over(s, t), n)
<1>1. DOMAIN Over(s, t) = DOMAIN s \cup DOMAIN t
  BY DEF Over
<1>2. IsFiniteSet(DOMAIN s \cup DOMAIN t)
  BY FS_Union DEF IsTrail
<1>3. \A k \in DOMAIN s \cup DOMAIN t :
        Over(s, t)[k] = IF k \in DOMAIN s THEN s[k] ELSE t[k]
  BY DEF Over
<1>4. Over(s, t) = [k \in DOMAIN Over(s, t) |-> Over(s, t)[k]]
  BY DEF Over
<1>5. QED
  BY <1>1, <1>2, <1>3, <1>4 DEF IsTrail

\* A repository without reports has a trail, the empty one.
LEMMA NoTrailIsTrail == \A n : IsTrail(NoTrail, n) /\ NoTrail # Absent
<1>1. DOMAIN NoTrail = {} /\ NoTrail = [n \in {} |-> NoTrail[n]]
  BY DEF NoTrail
<1>2. DOMAIN Absent = {0}
  BY DEF Absent
<1>3. QED
  BY <1>1, <1>2, FS_EmptySet DEF IsTrail

\* No branch is taken for a trail.
LEMMA AbsentIsNoTrail == \A t, n : IsTrail(t, n) => t # Absent
<1>1. DOMAIN Absent = {0}
  BY DEF Absent
<1>2. QED
  BY <1>1 DEF IsTrail

\* Finitely many numbers have a greatest.
LEMMA GreatestNumber ==
    ASSUME NEW S \in SUBSET Nat, IsFiniteSet(S), S # {}
    PROVE  \E m \in S : \A n \in S : m >= n
<1> DEFINE G == {T \in SUBSET S : T # {} => \E m \in T : \A n \in T : m >= n}
<1>1. {} \in G
  OBVIOUS
<1>2. ASSUME NEW T \in SUBSET S, T # {} PROVE \E x \in T : T \ {x} \in G => T \in G
  <2>1. PICK x \in T : TRUE
    BY <1>2
  <2>2. ASSUME T \ {x} \in G PROVE T \in G
    <3>1. CASE T \ {x} = {}
      <4>1. \A n \in T : x >= n
        BY <3>1
      <4>2. QED
        BY <2>1, <4>1
    <3>2. CASE T \ {x} # {}
      <4>1. PICK m \in T \ {x} : \A n \in T \ {x} : m >= n
        BY <2>2, <3>2
      <4>2. x \in Nat /\ m \in Nat /\ \A n \in T : n \in Nat
        BY <2>1
      <4>3. CASE m >= x
        <5>1. \A n \in T : m >= n
          BY <4>1, <4>3
        <5>2. QED
          BY <5>1
      <4>4. CASE ~ (m >= x)
        <5>1. \A n \in T : x >= n
          BY <4>1, <4>2, <4>4
        <5>2. QED
          BY <2>1, <5>1
      <4>5. QED
        BY <4>3, <4>4
    <3>3. QED
      BY <3>1, <3>2
  <2>3. QED
    BY <2>1, <2>2
<1> HIDE DEF G
<1>3. S \in G
  BY <1>1, <1>2, SubsetsFollow
<1>4. QED
  BY <1>3 DEF G

\* The number of a new report is one that no report of the trail has.
LEMMA NextIndexIsNew ==
    ASSUME NEW n, NEW t, IsTrail(t, n)
    PROVE  NextIndex(t) \in Nat \ {0} /\ NextIndex(t) \notin DOMAIN t
<1> DEFINE S == {0} \cup DOMAIN t
<1>1. S \subseteq Nat /\ S # {} /\ IsFiniteSet(S)
  <2>1. IsFiniteSet({0}) /\ IsFiniteSet(DOMAIN t)
    BY FS_Singleton DEF IsTrail
  <2>2. IsFiniteSet(S)
    BY <2>1, FS_Union
  <2>3. \A k \in DOMAIN t : k \in Nat
    BY DEF IsTrail
  <2>4. QED
    BY <2>2, <2>3
<1>2. Max(S) \in S /\ \A k \in S : Max(S) >= k
  <2>1. \E i \in S : \A k \in S : i >= k
    BY <1>1, GreatestNumber
  <2>2. QED
    BY <2>1 DEF Max
<1>3. NextIndex(t) = Max(S) + 1 /\ DOMAIN t \subseteq S
  BY DEF NextIndex
<1> DEFINE m == Max(S)
<1>4. m \in S /\ (\A k \in S : m >= k) /\ NextIndex(t) = m + 1
  BY <1>2, <1>3
<1> HIDE DEF S, m
<1>5. m \in Nat /\ \A k \in DOMAIN t : k \in Nat /\ m >= k
  BY <1>1, <1>3, <1>4
<1>6. m + 1 \in Nat \ {0} /\ m + 1 \notin DOMAIN t
  BY <1>5
<1>7. QED
  BY <1>4, <1>6

\* What has been of n runs is of m, when m is more.
LEMMA TypesRemain ==
    ASSUME NEW n \in Nat, NEW m \in Nat, n <= m
    PROVE  /\ \A t : IsTrail(t, n) => IsTrail(t, m)
           /\ \A k : CloneOK(k, n) => CloneOK(k, m)
           /\ \A r : RunOK(r, n) => RunOK(r, m)
<1>1. \A i : i \in 1..n => i \in 1..m
  OBVIOUS
<1>2. \A t : IsTrail(t, n) => IsTrail(t, m)
  BY <1>1 DEF IsTrail
<1>3. QED
  BY <1>1, <1>2 DEF CloneOK, RunOK

\* What a run holds at each place of the script.
LEMMA RunIs ==
    ASSUME NEW n, NEW r, RunOK(r, n)
    PROVE  /\ r.pc = "idle" <=> r = NoRun
           /\ r.pc \in {"idle", "fetch", "apply", "check", "commit", "push", "pr"}
           /\ r.pc # "idle" => r.id \in 1..n
           /\ r.pc = "fetch" => r = [pc |-> "fetch", id |-> r.id]
           /\ r.pc \in {"apply", "check", "commit", "push", "pr"} =>
                /\ r.seen = Absent \/ IsTrail(r.seen, n)
                /\ r = [pc |-> r.pc, id |-> r.id, seen |-> r.seen]
<1>1. CASE r = NoRun
  BY <1>1 DEF NoRun
<1>2. CASE r.id \in 1..n /\ r = [pc |-> "fetch", id |-> r.id]
  BY <1>2 DEF NoRun
<1>3. CASE /\ r.id \in 1..n /\ (r.seen = Absent \/ IsTrail(r.seen, n))
           /\ \E pc \in {"apply", "check", "commit", "push", "pr"} :
                r = [pc |-> pc, id |-> r.id, seen |-> r.seen]
  <2>1. PICK pc \in {"apply", "check", "commit", "push", "pr"} :
           r = [pc |-> pc, id |-> r.id, seen |-> r.seen]
    BY <1>3
  <2>2. r.pc = pc
    BY <2>1
  <2>3. QED
    BY <1>3, <2>1, <2>2 DEF NoRun
<1>4. QED
  BY <1>1, <1>2, <1>3 DEF RunOK

\* The next place of a run that has fetched.
LEMMA RunMoves ==
    ASSUME NEW n, NEW r, RunOK(r, n),
           r.pc \in {"apply", "check", "commit", "push", "pr"}
    PROVE  \A pc \in {"apply", "check", "commit", "push", "pr"} :
              /\ RunOK([r EXCEPT !.pc = pc], n)
              /\ [r EXCEPT !.pc = pc].pc = pc /\ [r EXCEPT !.pc = pc].seen = r.seen
<1> TAKE pc \in {"apply", "check", "commit", "push", "pr"}
<1>1. /\ r.id \in 1..n /\ (r.seen = Absent \/ IsTrail(r.seen, n))
      /\ r = [pc |-> r.pc, id |-> r.id, seen |-> r.seen]
  BY RunIs
<1>2. [r EXCEPT !.pc = pc] = [pc |-> pc, id |-> r.id, seen |-> r.seen]
  BY <1>1
<1>3. QED
  BY <1>1, <1>2 DEF RunOK

\* A clone with another tree.
LEMMA CloneChanges ==
    ASSUME NEW k, k = [head |-> k.head, commit |-> k.commit, tree |-> k.tree, clean |-> k.clean],
           NEW tree, NEW clean
    PROVE  [k EXCEPT !.tree = tree, !.clean = clean]
             = [head |-> k.head, commit |-> k.commit, tree |-> tree, clean |-> clean]
<1> DEFINE head == k.head
           commit == k.commit
           old == k.tree
           was == k.clean
<1>1. k = [head |-> head, commit |-> commit, tree |-> old, clean |-> was]
  OBVIOUS
<1> HIDE DEF head, commit, old, was
<1> DEFINE new == [k EXCEPT !.tree = tree, !.clean = clean]
<1>2. /\ new = [x \in {"head", "commit", "tree", "clean"} |-> new[x]]
      /\ new.head = head /\ new.commit = commit /\ new.tree = tree /\ new.clean = clean
  BY <1>1
<1> HIDE DEF new
<1>3. new = [head |-> head, commit |-> commit, tree |-> tree, clean |-> clean]
  BY <1>2
<1>4. QED
  BY <1>3 DEF head, commit, new

\* Assigning what is there changes nothing.
LEMMA FunctionKept ==
    ASSUME NEW S, NEW f, f = [x \in S |-> f[x]], NEW x \in S
    PROVE  [f EXCEPT ![x] = f[x]] = f
OBVIOUS

\* Of no run nothing is asked.
LEMMA NoRunOK == (\A n : RunOK(NoRun, n)) /\ NoRun.pc = "idle"
BY DEF RunOK, NoRun

\* A step that changes one clone and the place of its run.
LEMMA LocalStep ==
    ASSUME BranchAssumption, BranchTypes, NEW c \in Clones, NEW k, NEW r,
           runs' \in 0..MaxRuns, runs <= runs', CloneOK(k, runs'), RunOK(r, runs'),
           r.pc \in {"fetch", "apply", "check", "commit"} => k.head + 1 \in Branches,
           r.pc \in {"push", "pr"} => k.head \in 1..Depth,
           clone' = [clone EXCEPT ![c] = k], run' = [run EXCEPT ![c] = r],
           RemoteOK', prs' \subseteq 1..Depth
    PROVE  BranchTypes'
<1>1. /\ clone = [d \in Clones |-> clone[d]] /\ run = [d \in Clones |-> run[d]]
      /\ \A d \in Clones : CloneOK(clone[d], runs) /\ RunOK(run[d], runs)
      /\ runs \in Nat /\ runs' \in Nat
      /\ \A d \in Clones :
            /\ run[d].pc \in {"fetch", "apply", "check", "commit"} => clone[d].head + 1 \in Branches
            /\ run[d].pc \in {"push", "pr"} => clone[d].head \in 1..Depth
  BY DEF BranchTypes, BranchTypeOK, OnBranch, BranchAssumption
<1>2. /\ clone' = [d \in Clones |-> clone'[d]] /\ run' = [d \in Clones |-> run'[d]]
      /\ \A d \in Clones : /\ clone'[d] = IF d = c THEN k ELSE clone[d]
                           /\ run'[d] = IF d = c THEN r ELSE run[d]
  BY <1>1
<1>3. \A d \in Clones : CloneOK(clone[d], runs') /\ RunOK(run[d], runs')
  BY <1>1, TypesRemain
<1>4. \A d \in Clones : CloneOK(clone'[d], runs') /\ RunOK(run'[d], runs')
  BY <1>2, <1>3
<1>5. OnBranch'
  BY <1>1, <1>2 DEF OnBranch, RemoteOK
<1>6. BranchTypeOK'
  BY <1>2, <1>4 DEF BranchTypeOK, RemoteOK
<1>7. QED
  BY <1>5, <1>6 DEF BranchTypes

\* The initial state is of the types.
LEMMA BranchTypesInitially ==
    ASSUME BranchAssumption, BranchInit PROVE BranchTypes
<1>1. 0 \in Branches /\ 0 \in 0..MaxRuns /\ 0 + 1 \in Branches
  BY DEF BranchAssumption, Branches
<1>2. /\ remote = [b \in Branches |-> remote[b]]
      /\ clone = [c \in Clones |-> clone[c]] /\ run = [c \in Clones |-> run[c]]
      /\ remote[0] = NoTrail
      /\ \A b \in Branches : remote[b] = NoTrail \/ remote[b] = Absent
      /\ \A c \in Clones : clone[c] = Fresh(NoTrail) /\ run[c] = NoRun
      /\ prs = {} /\ runs = 0
  BY <1>1 DEF BranchInit
<1>3. CloneOK(Fresh(NoTrail), 0)
  BY <1>1, NoTrailIsTrail DEF CloneOK, Fresh
<1>4. OnBranch
  BY <1>2, NoRunOK, NoTrailIsTrail DEF OnBranch
<1>5. \A b \in Branches : remote[b] = Absent \/ IsTrail(remote[b], runs)
  BY <1>2, NoTrailIsTrail
<1>6. \A c \in Clones : CloneOK(clone[c], runs) /\ RunOK(run[c], runs)
  BY <1>2, <1>3, NoRunOK
<1>7. QED
  BY <1>1, <1>2, <1>4, <1>5, <1>6 DEF BranchTypes, BranchTypeOK

\* Every step, of a run or of the developers, keeps the types.
LEMMA BranchTypesPreserved ==
    ASSUME BranchAssumption, BranchTypes, [BranchNext]_branchVars PROVE BranchTypes'
<1>1. /\ remote = [b \in Branches |-> remote[b]] /\ remote[0] # Absent
      /\ \A b \in Branches : remote[b] = Absent \/ IsTrail(remote[b], runs)
      /\ clone = [c \in Clones |-> clone[c]] /\ run = [c \in Clones |-> run[c]]
      /\ \A c \in Clones : CloneOK(clone[c], runs) /\ RunOK(run[c], runs)
      /\ \A c \in Clones :
            /\ run[c].pc \in {"fetch", "apply", "check", "commit"} => clone[c].head + 1 \in Branches
            /\ run[c].pc \in {"push", "pr"} => clone[c].head \in 1..Depth
      /\ prs \subseteq 1..Depth
      /\ runs \in 0..MaxRuns /\ runs \in Nat /\ runs <= runs
  BY DEF BranchTypes, BranchTypeOK, OnBranch, BranchAssumption
<1>2. /\ Depth \in Nat /\ MaxRuns \in Nat /\ 0 \in Branches
      /\ \A b : b \in Branches <=> b \in 0..Depth
  BY DEF BranchAssumption, Branches
<1>3. ASSUME UNCHANGED <<remote, runs>> PROVE RemoteOK'
  BY <1>1, <1>3 DEF RemoteOK
<1>4. CASE UNCHANGED branchVars
  BY <1>4 DEF branchVars, BranchTypes, BranchTypeOK, OnBranch
<1>5. ASSUME NEW c \in Clones, Begin(c) PROVE BranchTypes'
  <2> DEFINE r == [pc |-> "fetch", id |-> runs + 1]
             k == clone[c]
  <2>1. /\ UNCHANGED <<remote, clone, prs>> /\ runs' = runs + 1 /\ runs < MaxRuns
        /\ run' = [run EXCEPT ![c] = r] /\ k.head + 1 <= Depth
    BY <1>5 DEF Begin, Target
  <2>2. runs' \in 0..MaxRuns /\ runs' \in Nat /\ runs <= runs' /\ runs + 1 \in 1..runs'
    BY <1>1, <1>2, <2>1
  <2>3. CloneOK(k, runs') /\ \A b \in Branches : remote[b] = Absent \/ IsTrail(remote[b], runs')
    BY <1>1, <2>2, TypesRemain
  <2>4. RunOK(r, runs') /\ r.pc = "fetch"
    BY <2>2 DEF RunOK
  <2>5. k.head + 1 \in Branches
    <3>1. k.head \in 0..Depth
      BY <1>1, <1>2 DEF CloneOK
    <3> HIDE DEF k
    <3>2. QED
      BY <1>2, <2>1, <3>1
  <2>6. clone' = [clone EXCEPT ![c] = k]
    BY <1>1, <2>1, FunctionKept
  <2>7. RemoteOK'
    BY <1>1, <2>1, <2>3 DEF RemoteOK
  <2> HIDE DEF r, k
  <2>8. QED
    BY <1>1, <2>1, <2>2, <2>3, <2>4, <2>5, <2>6, <2>7, LocalStep
<1>6. ASSUME NEW c \in Clones, Fetch(c) PROVE BranchTypes'
  <2>1. run[c].pc = "fetch" /\ UNCHANGED <<remote, prs, runs>>
    BY <1>6 DEF Fetch
  <2>2. CloneOK(clone[c], runs) /\ clone[c].head + 1 \in Branches /\ run[c].id \in 1..runs
    BY <1>1, <2>1, RunIs
  <2>3. PICK fetched \in {remote[Target(c)], Absent} :
           LET tree == Restored(clone[c].tree, fetched)
           IN /\ clone' = [clone EXCEPT ![c].tree = tree,
                                        ![c].clean = tree = clone[c].commit]
              /\ run' = [run EXCEPT ![c] = [pc |-> "apply", id |-> @.id, seen |-> fetched]]
    BY <1>6 DEF Fetch
  <2> DEFINE tree == Restored(clone[c].tree, fetched)
             same == tree = clone[c].commit
             k == [head |-> clone[c].head, commit |-> clone[c].commit,
                   tree |-> tree, clean |-> same]
             r == [pc |-> "apply", id |-> run[c].id, seen |-> fetched]
  <2>4. fetched = Absent \/ IsTrail(fetched, runs)
    BY <1>1, <2>2, <2>3 DEF Target
  <2>5. IsTrail(tree, runs)
    BY <2>2, <2>4, TrailsAreOver DEF Restored, CloneOK
  <2>6. RunOK(r, runs) /\ r.pc = "apply"
    BY <2>2, <2>4 DEF RunOK
  <2>7. run' = [run EXCEPT ![c] = r]
    BY <1>1, <2>3
  <2>8. /\ clone[c] = [head |-> clone[c].head, commit |-> clone[c].commit,
                       tree |-> clone[c].tree, clean |-> clone[c].clean]
        /\ clone' = [clone EXCEPT ![c] = [clone[c] EXCEPT !.tree = tree, !.clean = same]]
    BY <1>1, <2>2, <2>3 DEF CloneOK
  <2>9. same \in BOOLEAN
    OBVIOUS
  <2> HIDE DEF tree, same, r
  <2>10. [clone[c] EXCEPT !.tree = tree, !.clean = same] = k
    BY <2>8, CloneChanges
  <2>11. clone' = [clone EXCEPT ![c] = k]
    BY <2>8, <2>10
  <2>12. CloneOK(k, runs) /\ k.head + 1 \in Branches
    BY <2>2, <2>5, <2>9 DEF CloneOK
  <2> HIDE DEF k
  <2>13. QED
    BY <1>1, <1>3, <2>1, <2>6, <2>7, <2>11, <2>12, LocalStep
<1>7. ASSUME NEW c \in Clones, Apply(c) PROVE BranchTypes'
  <2> DEFINE new == [n \in {NextIndex(clone[c].tree)} |-> run[c].id]
             tree == Over(new, clone[c].tree)
             k == [head |-> clone[c].head, commit |-> clone[c].commit,
                   tree |-> tree, clean |-> FALSE]
             r == [run[c] EXCEPT !.pc = "check"]
  <2>1. /\ run[c].pc = "apply" /\ UNCHANGED <<remote, prs, runs>>
        /\ run' = [run EXCEPT ![c].pc = "check"]
        /\ clone' = [clone EXCEPT
             ![c].tree = Over([n \in {NextIndex(@)} |-> run[c].id], @), ![c].clean = FALSE]
    BY <1>7 DEF Apply
  <2>2. CloneOK(clone[c], runs) /\ clone[c].head + 1 \in Branches /\ run[c].id \in 1..runs
    BY <1>1, <2>1, RunIs
  <2>3. IsTrail(tree, runs)
    <3>1. NextIndex(clone[c].tree) \in Nat \ {0}
      BY <2>2, NextIndexIsNew DEF CloneOK
    <3>2. IsTrail(new, runs)
      BY <2>2, <3>1, FS_Singleton DEF IsTrail
    <3>3. QED
      BY <2>2, <3>2, TrailsAreOver DEF CloneOK
  <2>4. RunOK(r, runs) /\ r.pc = "check"
    <3> DEFINE x == run[c]
    <3>1. RunOK(x, runs) /\ x.pc \in {"apply", "check", "commit", "push", "pr"}
      BY <1>1, <2>1
    <3> HIDE DEF x
    <3>2. \A pc \in {"apply", "check", "commit", "push", "pr"} :
             /\ RunOK([x EXCEPT !.pc = pc], runs)
             /\ [x EXCEPT !.pc = pc].pc = pc /\ [x EXCEPT !.pc = pc].seen = x.seen
      BY <3>1, RunMoves, ZenonT(60)
    <3>3. QED
      BY <3>2 DEF x
  <2>5. run' = [run EXCEPT ![c] = r]
    BY <1>1, <2>1
  <2>6. /\ clone[c] = [head |-> clone[c].head, commit |-> clone[c].commit,
                       tree |-> clone[c].tree, clean |-> clone[c].clean]
        /\ clone' = [clone EXCEPT ![c] = [clone[c] EXCEPT !.tree = tree, !.clean = FALSE]]
    BY <1>1, <2>1, <2>2 DEF CloneOK
  <2> HIDE DEF tree, r
  <2>7. [clone[c] EXCEPT !.tree = tree, !.clean = FALSE] = k
    BY <2>6, CloneChanges
  <2>8. clone' = [clone EXCEPT ![c] = k]
    BY <2>6, <2>7
  <2>9. CloneOK(k, runs) /\ k.head + 1 \in Branches
    BY <2>2, <2>3 DEF CloneOK
  <2> HIDE DEF k
  <2>10. QED
    BY <1>1, <1>3, <2>1, <2>4, <2>5, <2>8, <2>9, LocalStep
<1>8. ASSUME NEW c \in Clones, SelfCheck(c) PROVE BranchTypes'
  <2> DEFINE r == [run[c] EXCEPT !.pc = "commit"]
             k == clone[c]
  <2>1. /\ run[c].pc = "check" /\ UNCHANGED <<remote, clone, prs, runs>>
        /\ run' = [run EXCEPT ![c] = r]
    BY <1>1, <1>8 DEF SelfCheck
  <2>2. CloneOK(k, runs) /\ k.head + 1 \in Branches
    BY <1>1, <2>1
  <2>3. RunOK(r, runs) /\ r.pc = "commit"
    <3> DEFINE x == run[c]
    <3>1. RunOK(x, runs) /\ x.pc \in {"apply", "check", "commit", "push", "pr"}
      BY <1>1, <2>1
    <3> HIDE DEF x
    <3>2. \A pc \in {"apply", "check", "commit", "push", "pr"} :
             /\ RunOK([x EXCEPT !.pc = pc], runs)
             /\ [x EXCEPT !.pc = pc].pc = pc /\ [x EXCEPT !.pc = pc].seen = x.seen
      BY <3>1, RunMoves, ZenonT(60)
    <3>3. QED
      BY <3>2 DEF x
  <2>4. clone' = [clone EXCEPT ![c] = k]
    BY <1>1, <2>1, FunctionKept
  <2> HIDE DEF r, k
  <2>5. QED
    BY <1>1, <1>3, <2>1, <2>2, <2>3, <2>4, LocalStep
<1>9. ASSUME NEW c \in Clones, Commit(c) PROVE BranchTypes'
  <2> DEFINE r == [run[c] EXCEPT !.pc = "push"]
             k == [head |-> Target(c), commit |-> clone[c].tree,
                   tree |-> clone[c].tree, clean |-> TRUE]
  <2>1. /\ run[c].pc = "commit" /\ UNCHANGED <<remote, prs, runs>>
        /\ run' = [run EXCEPT ![c] = r] /\ clone' = [clone EXCEPT ![c] = k]
    BY <1>1, <1>9 DEF Commit
  <2>2. CloneOK(clone[c], runs) /\ Target(c) \in Branches
    BY <1>1, <2>1 DEF Target
  <2>3. RunOK(r, runs) /\ r.pc = "push"
    <3> DEFINE x == run[c]
    <3>1. RunOK(x, runs) /\ x.pc \in {"apply", "check", "commit", "push", "pr"}
      BY <1>1, <2>1
    <3> HIDE DEF x
    <3>2. \A pc \in {"apply", "check", "commit", "push", "pr"} :
             /\ RunOK([x EXCEPT !.pc = pc], runs)
             /\ [x EXCEPT !.pc = pc].pc = pc /\ [x EXCEPT !.pc = pc].seen = x.seen
      BY <3>1, RunMoves, ZenonT(60)
    <3>3. QED
      BY <3>2 DEF x
  <2>4. CloneOK(k, runs)
    BY <2>2 DEF CloneOK
  <2>5. k.head \in 1..Depth
    BY <1>2, <2>2 DEF Target, CloneOK
  <2> HIDE DEF r, k
  <2>6. QED
    BY <1>1, <1>3, <2>1, <2>3, <2>4, <2>5, LocalStep
<1>10. ASSUME NEW c \in Clones, Push(c) PROVE BranchTypes'
  <2> DEFINE r == [run[c] EXCEPT !.pc = "pr"]
             k == clone[c]
  <2>1. /\ run[c].pc = "push" /\ UNCHANGED <<clone, prs, runs>>
        /\ run' = [run EXCEPT ![c] = r]
        /\ remote' = [remote EXCEPT ![k.head] = k.commit]
    BY <1>1, <1>10 DEF Push
  <2>2. CloneOK(k, runs) /\ k.head \in 1..Depth
    BY <1>1, <2>1
  <2>3. RunOK(r, runs) /\ r.pc = "pr"
    <3> DEFINE x == run[c]
    <3>1. RunOK(x, runs) /\ x.pc \in {"apply", "check", "commit", "push", "pr"}
      BY <1>1, <2>1
    <3> HIDE DEF x
    <3>2. \A pc \in {"apply", "check", "commit", "push", "pr"} :
             /\ RunOK([x EXCEPT !.pc = pc], runs)
             /\ [x EXCEPT !.pc = pc].pc = pc /\ [x EXCEPT !.pc = pc].seen = x.seen
      BY <3>1, RunMoves, ZenonT(60)
    <3>3. QED
      BY <3>2 DEF x
  <2>4. clone' = [clone EXCEPT ![c] = k]
    BY <1>1, <2>1, FunctionKept
  <2>5. /\ remote' = [b \in Branches |-> remote'[b]] /\ k.head # 0 /\ IsTrail(k.commit, runs)
        /\ \A b \in Branches : remote'[b] = IF b = k.head THEN k.commit ELSE remote[b]
    BY <1>1, <2>1, <2>2 DEF CloneOK
  <2>6. /\ remote'[0] # Absent
        /\ \A b \in Branches : remote'[b] = Absent \/ IsTrail(remote'[b], runs)
    BY <1>1, <1>2, <2>5
  <2>7. RemoteOK'
    BY <2>1, <2>5, <2>6 DEF RemoteOK
  <2> HIDE DEF r, k
  <2>8. QED
    BY <1>1, <2>1, <2>2, <2>3, <2>4, <2>7, LocalStep
<1>11. ASSUME NEW c \in Clones, OpenPR(c) \/ Quit(c) PROVE BranchTypes'
  <2> DEFINE k == clone[c]
  <2>1. /\ UNCHANGED <<remote, clone, runs>> /\ run' = [run EXCEPT ![c] = NoRun]
        /\ \/ prs' = prs
           \/ run[c].pc = "pr" /\ prs' = prs \cup {clone[c].head}
    BY <1>11 DEF OpenPR, Quit, Stop
  <2>2. prs' \subseteq 1..Depth
    <3>1. CASE prs' = prs
      BY <1>1, <3>1
    <3>2. CASE run[c].pc = "pr" /\ prs' = prs \cup {clone[c].head}
      <4>1. clone[c].head \in 1..Depth
        BY <1>1, <3>2
      <4>2. QED
        BY <1>1, <3>2, <4>1
    <3>3. QED
      BY <2>1, <3>1, <3>2
  <2>3. clone' = [clone EXCEPT ![c] = k] /\ CloneOK(k, runs)
    BY <1>1, <2>1, FunctionKept
  <2> HIDE DEF k
  <2>4. QED
    BY <1>1, <1>3, <2>1, <2>2, <2>3, NoRunOK, LocalStep
<1>12. ASSUME NEW c \in Clones, Tidy(c) PROVE BranchTypes'
  <2> DEFINE k == Fresh(remote[0])
             r == run[c]
  <2>1. /\ UNCHANGED <<remote, run, prs, runs>> /\ r = NoRun
        /\ clone' = [clone EXCEPT ![c] = k]
    BY <1>12 DEF Tidy
  <2>2. CloneOK(k, runs)
    BY <1>1, <1>2 DEF CloneOK, Fresh
  <2>3. run' = [run EXCEPT ![c] = r] /\ RunOK(r, runs) /\ r.pc = "idle"
    BY <1>1, <2>1, NoRunOK, FunctionKept
  <2> HIDE DEF k, r
  <2>4. QED
    BY <1>1, <1>3, <2>1, <2>2, <2>3, LocalStep
<1>13. ASSUME NEW b \in 1..Depth, Merge(b) PROVE BranchTypes'
  <2>1. /\ remote[b] # Absent /\ remote[b - 1] # Absent
        /\ prs' \subseteq 1..Depth /\ UNCHANGED <<clone, run, runs>>
    BY <1>1, <1>13 DEF Merge
  <2>2. PICK gone \in BOOLEAN :
           remote' = [remote EXCEPT ![b - 1] = Over(remote[b], @),
                                    ![b] = IF gone THEN Absent ELSE @]
    BY <1>13 DEF Merge
  <2>3. b \in Branches /\ b - 1 \in Branches /\ b # b - 1 /\ b # 0
    BY <1>2
  <2>4. IsTrail(Over(remote[b], remote[b - 1]), runs)
    BY <1>1, <2>1, <2>3, TrailsAreOver
  <2>5. /\ remote' = [d \in Branches |-> remote'[d]]
        /\ \A d \in Branches : remote'[d] = IF d = b THEN IF gone THEN Absent ELSE remote[b]
                                            ELSE IF d = b - 1 THEN Over(remote[b], remote[b - 1])
                                            ELSE remote[d]
    BY <1>1, <2>2, <2>3
  <2>6. \A d \in Branches : remote'[d] = Absent \/ IsTrail(remote'[d], runs)
    BY <1>1, <2>4, <2>5
  <2>7. remote'[0] # Absent
    BY <1>1, <1>2, <2>3, <2>4, <2>5, AbsentIsNoTrail
  <2>8. OnBranch'
    BY <1>1, <2>1, <2>7 DEF OnBranch
  <2>9. BranchTypeOK'
    BY <1>1, <2>1, <2>5, <2>6 DEF BranchTypeOK
  <2>10. QED
    BY <2>8, <2>9 DEF BranchTypes
<1>14. QED
  BY <1>4, <1>5, <1>6, <1>7, <1>8, <1>9, <1>10, <1>11, <1>12, <1>13 DEF BranchNext

-------------------------------------------------------------------------------
(***************************************************************************)
(* A push keeps what its run fetched                                       *)
(***************************************************************************)
\* The reports a run has fetched are in its tree, and then in its commit.
SeenKept ==
    \A c \in Clones :
       /\ run[c].pc \in {"apply", "check", "commit"} /\ run[c].seen # Absent
            => Kept(run[c].seen, clone[c].tree)
       /\ run[c].pc = "push" /\ run[c].seen # Absent => Kept(run[c].seen, clone[c].commit)

\* A trail over another keeps the reports of both, where they have no common number.
LEMMA OverKeeps ==
    ASSUME NEW s, NEW t
    PROVE  Kept(s, Over(s, t)) /\ (DOMAIN s \cap DOMAIN t = {} => Kept(t, Over(s, t)))
<1>1. /\ DOMAIN Over(s, t) = DOMAIN s \cup DOMAIN t
      /\ \A k \in DOMAIN s \cup DOMAIN t :
           Over(s, t)[k] = IF k \in DOMAIN s THEN s[k] ELSE t[k]
  BY DEF Over
<1>2. QED
  BY <1>1 DEF Kept

\* A step of one run: of the others nothing changes.
LEMMA OneKeeps ==
    ASSUME SeenKept, NEW c \in Clones,
           \A d \in Clones \ {c} : run'[d] = run[d] /\ clone'[d] = clone[d],
           /\ run'[c].pc \in {"apply", "check", "commit"} /\ run'[c].seen # Absent
                => Kept(run'[c].seen, clone'[c].tree),
           run'[c].pc = "push" /\ run'[c].seen # Absent => Kept(run'[c].seen, clone'[c].commit)
    PROVE  SeenKept'
BY DEF SeenKept, Kept

\* Every step keeps SeenKept: Fetch establishes it, Apply takes a new number, Commit
\* hands the tree to the commit.
LEMMA SeenKeptPreserved ==
    ASSUME BranchAssumption, BranchTypes, SeenKept, [BranchNext]_branchVars
    PROVE  SeenKept'
<1>1. /\ clone = [c \in Clones |-> clone[c]] /\ run = [c \in Clones |-> run[c]]
      /\ \A c \in Clones : CloneOK(clone[c], runs) /\ RunOK(run[c], runs)
  BY DEF BranchTypes, BranchTypeOK
<1>2. CASE UNCHANGED <<clone, run>>
  BY <1>2 DEF SeenKept, Kept
<1>3. ASSUME NEW c \in Clones, Begin(c) PROVE SeenKept'
  <2>1. /\ clone' = clone /\ \A d \in Clones \ {c} : run'[d] = run[d]
        /\ run'[c].pc = "fetch"
    BY <1>1, <1>3 DEF Begin
  <2>2. QED
    BY <2>1, OneKeeps
<1>4. ASSUME NEW c \in Clones, Fetch(c) PROVE SeenKept'
  <2>1. PICK fetched \in {remote[Target(c)], Absent} :
           LET tree == Restored(clone[c].tree, fetched)
           IN /\ clone' = [clone EXCEPT ![c].tree = tree,
                                        ![c].clean = tree = clone[c].commit]
              /\ run' = [run EXCEPT ![c] = [pc |-> "apply", id |-> @.id, seen |-> fetched]]
    BY <1>4 DEF Fetch
  <2> DEFINE tree == Restored(clone[c].tree, fetched)
             same == tree = clone[c].commit
  <2>2. /\ run'[c].pc = "apply" /\ run'[c].seen = fetched
        /\ \A d \in Clones \ {c} : run'[d] = run[d] /\ clone'[d] = clone[d]
    BY <1>1, <2>1
  <2>3. clone'[c].tree = tree
    <3>1. /\ clone[c] = [head |-> clone[c].head, commit |-> clone[c].commit,
                         tree |-> clone[c].tree, clean |-> clone[c].clean]
          /\ clone'[c] = [clone[c] EXCEPT !.tree = tree, !.clean = same]
      BY <1>1, <2>1 DEF CloneOK
    <3> HIDE DEF tree, same
    <3>2. QED
      BY <3>1, CloneChanges
  <2>4. fetched # Absent => Kept(fetched, tree)
    BY OverKeeps DEF Restored
  <2> HIDE DEF tree
  <2>5. QED
    BY <2>2, <2>3, <2>4, OneKeeps
<1>5. ASSUME NEW c \in Clones, Apply(c) PROVE SeenKept'
  <2> DEFINE new == [n \in {NextIndex(clone[c].tree)} |-> run[c].id]
             old == clone[c].tree
             tree == Over(new, old)
  <2>1. /\ run[c].pc = "apply" /\ run' = [run EXCEPT ![c].pc = "check"]
        /\ clone' = [clone EXCEPT
             ![c].tree = Over([n \in {NextIndex(@)} |-> run[c].id], @), ![c].clean = FALSE]
    BY <1>5 DEF Apply
  <2>2. /\ run'[c] = [run[c] EXCEPT !.pc = "check"]
        /\ \A d \in Clones \ {c} : run'[d] = run[d] /\ clone'[d] = clone[d]
        /\ clone[c] = [head |-> clone[c].head, commit |-> clone[c].commit,
                       tree |-> clone[c].tree, clean |-> clone[c].clean]
        /\ clone'[c] = [clone[c] EXCEPT !.tree = tree, !.clean = FALSE]
    BY <1>1, <2>1 DEF CloneOK
  <2>3. run'[c].pc = "check" /\ run'[c].seen = run[c].seen
    <3> HIDE DEF new, old, tree
    <3> DEFINE x == run[c]
    <3>1. /\ RunOK(x, runs) /\ x.pc \in {"apply", "check", "commit", "push", "pr"}
          /\ run'[c] = [x EXCEPT !.pc = "check"]
      BY <1>1, <2>1, <2>2
    <3> HIDE DEF x
    <3>2. run'[c].pc = "check" /\ run'[c].seen = x.seen
      BY <3>1, RunMoves
    <3>3. QED
      BY <3>2 DEF x
  <2>4. Kept(old, tree)
    <3>1. NextIndex(old) \notin DOMAIN old
      BY <1>1, NextIndexIsNew DEF CloneOK
    <3>2. DOMAIN new \cap DOMAIN old = {}
      BY <3>1
    <3>3. QED
      BY <3>2, OverKeeps
  <2> HIDE DEF tree
  <2>5. clone'[c].tree = tree
    BY <2>2, CloneChanges
  <2>6. run[c].seen # Absent => Kept(run[c].seen, tree)
    BY <2>1, <2>4 DEF SeenKept, Kept
  <2>7. QED
    BY <2>2, <2>3, <2>5, <2>6, OneKeeps
<1>6. ASSUME NEW c \in Clones, SelfCheck(c) PROVE SeenKept'
  <2>1. /\ run[c].pc = "check" /\ clone' = clone
        /\ run'[c] = [run[c] EXCEPT !.pc = "commit"]
        /\ \A d \in Clones \ {c} : run'[d] = run[d]
    BY <1>1, <1>6 DEF SelfCheck
  <2>2. run'[c].pc = "commit" /\ run'[c].seen = run[c].seen
    BY <1>1, <2>1, RunMoves
  <2>3. QED
    BY <2>1, <2>2, OneKeeps DEF SeenKept
<1>7. ASSUME NEW c \in Clones, Commit(c) PROVE SeenKept'
  <2>1. /\ run[c].pc = "commit" /\ clone'[c].commit = clone[c].tree
        /\ run'[c] = [run[c] EXCEPT !.pc = "push"]
        /\ \A d \in Clones \ {c} : run'[d] = run[d] /\ clone'[d] = clone[d]
    BY <1>1, <1>7 DEF Commit
  <2>2. run'[c].pc = "push" /\ run'[c].seen = run[c].seen
    BY <1>1, <2>1, RunMoves
  <2>3. QED
    BY <2>1, <2>2, OneKeeps DEF SeenKept
<1>8. ASSUME NEW c \in Clones, Push(c) PROVE SeenKept'
  <2>1. /\ run[c].pc = "push" /\ clone' = clone
        /\ run'[c] = [run[c] EXCEPT !.pc = "pr"]
        /\ \A d \in Clones \ {c} : run'[d] = run[d]
    BY <1>1, <1>8 DEF Push
  <2>2. run'[c].pc = "pr"
    BY <1>1, <2>1, RunMoves
  <2>3. QED
    BY <2>1, <2>2, OneKeeps
<1>9. ASSUME NEW c \in Clones, OpenPR(c) \/ Quit(c) PROVE SeenKept'
  <2>1. /\ clone' = clone /\ run'[c] = NoRun
        /\ \A d \in Clones \ {c} : run'[d] = run[d]
    BY <1>1, <1>9 DEF OpenPR, Quit, Stop
  <2>2. QED
    BY <2>1, NoRunOK, OneKeeps
<1>10. ASSUME NEW c \in Clones, Tidy(c) PROVE SeenKept'
  <2>1. /\ run' = run /\ run[c] = NoRun
        /\ \A d \in Clones \ {c} : clone'[d] = clone[d]
    BY <1>1, <1>10 DEF Tidy
  <2>2. QED
    BY <2>1, NoRunOK, OneKeeps
<1>11. ASSUME NEW b \in 1..Depth, Merge(b) PROVE UNCHANGED <<clone, run>>
  BY <1>11 DEF Merge
<1>12. QED
  BY <1>2, <1>3, <1>4, <1>5, <1>6, <1>7, <1>8, <1>9, <1>10, <1>11 DEF BranchNext, branchVars

\* The inductive invariant of the branches and clones.
BranchIInv == BranchTypes /\ SeenKept

\* It is an invariant of the script and the developers.
THEOREM BranchInvariance ==
    ASSUME BranchAssumption
    PROVE  BranchSpec => []BranchIInv
<1>1. BranchInit => BranchIInv
  <2>1. ASSUME BranchInit PROVE SeenKept
    BY <2>1, NoRunOK DEF BranchInit, SeenKept
  <2>2. QED
    BY <2>1, BranchTypesInitially DEF BranchIInv
<1>2. BranchIInv /\ [BranchNext]_branchVars => BranchIInv'
  BY BranchTypesPreserved, SeenKeptPreserved DEF BranchIInv
<1>3. QED
  BY <1>1, <1>2, PTL DEF BranchSpec

\* The branches, the clones and the runs of the script are of their types.
THEOREM BranchTypeCorrect ==
    ASSUME BranchAssumption
    PROVE  BranchSpec => []BranchTypeOK
<1>1. BranchIInv => BranchTypeOK
  BY DEF BranchIInv, BranchTypes
<1>2. QED
  BY <1>1, BranchInvariance, PTL

\* A push keeps the reports of the branch, when it is still what its run fetched.
THEOREM PushKeeps ==
    ASSUME BranchAssumption
    PROVE  BranchSpec => PushKeepsWhatItFetched
<1> DEFINE Keeps ==
      \A c \in Clones :
         LET b == clone[c].head
         IN (Push(c) /\ remote[b] # Absent /\ remote[b] = run[c].seen)
              => Kept(remote[b], remote'[b])
<1>1. BranchIInv => [Keeps]_branchVars
  <2> SUFFICES ASSUME BranchTypes, SeenKept, NEW c \in Clones, Push(c),
                      remote[clone[c].head] # Absent, remote[clone[c].head] = run[c].seen
               PROVE  Kept(remote[clone[c].head], remote'[clone[c].head])
    BY DEF BranchIInv
  <2>1. /\ run[c].pc = "push"
        /\ remote' = [remote EXCEPT ![clone[c].head] = clone[c].commit]
    BY DEF Push
  <2>2. remote = [b \in Branches |-> remote[b]] /\ clone[c].head \in Branches
    BY DEF BranchTypes, BranchTypeOK, CloneOK
  <2>3. remote'[clone[c].head] = clone[c].commit
    BY <2>1, <2>2
  <2>4. Kept(run[c].seen, clone[c].commit)
    BY <2>1 DEF SeenKept
  <2>5. QED
    BY <2>3, <2>4
<1>2. (BranchSpec => []([Keeps]_branchVars)) => (BranchSpec => PushKeepsWhatItFetched)
  BY DEF PushKeepsWhatItFetched
<1>3. QED
  BY <1>1, <1>2, BranchInvariance, PTL
===============================================================================
