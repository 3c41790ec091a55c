------------------------------ MODULE FixBranch -----------------------------
(***************************************************************************)
(* scripts/open_fix_pr.sh: the suggested fixes of a blocked scan on the    *)
(* persistent security branch of a repository, with the numbered reports   *)
(* of security_findings/, and a pull request for a human to merge.         *)
(*                                                                         *)
(* Branch 0 is the default branch, branch b + 1 is security/issues/<b>:    *)
(* the script leaves a clone on the branch it pushed, so that a later run  *)
(* in the same clone takes that branch for its base.  A trail maps the     *)
(* numbers of the reports in security_findings/ to the runs that wrote     *)
(* them.  The fixes themselves are those of FixApply: a run keeps its      *)
(* result until its self-checks have read it.                              *)
(***************************************************************************)
EXTENDS FixApply

CONSTANTS
  Clones,     \* working copies in which the script runs
  Reports,    \* the findings a blocked scan may report
  Sources,    \* the files the clone may hold at the scanned commit
  Depth,      \* branches 0..Depth are modelled
  MaxRuns     \* bound: runs of the script

ASSUME BranchAssumption ==
  /\ Depth \in Nat \ {0} /\ MaxRuns \in Nat
  /\ Reports \subseteq Seq(Findings) /\ Sources \subseteq [Paths -> Seq(Line)]

VARIABLES
  remote,   \* branch -> its trail, or Absent
  clone,    \* clone -> [head, commit, tree, clean]
  run,      \* clone -> the run of the script there
  fixes,    \* what safe_apply.py did last, until a self-check has read it
  prs,      \* fix branches with an open pull request
  runs      \* how many runs have begun

branchVars == <<remote, clone, run, fixes, prs, runs>>

Absent == [n \in {0} |-> 0]   \* numbers start at 1
NoTrail == <<>>
NoRun == [pc |-> "idle"]
NoFixes == [pc |-> "none"]
Branches == 0..Depth

\* The entries of two trails; those of the first where both have one.
Over(new, old) ==
  [n \in DOMAIN new \cup DOMAIN old |-> IF n \in DOMAIN new THEN new[n] ELSE old[n]]

\* git checkout of the base, git reset, git clean, git pull.
Fresh(trail) == [head |-> 0, commit |-> trail, tree |-> trail, clean |-> TRUE]

BranchInit ==
  /\ remote = [b \in Branches |-> IF b = 0 THEN NoTrail ELSE Absent]
  /\ clone = [c \in Clones |-> Fresh(NoTrail)]
  /\ run = [c \in Clones |-> NoRun]
  /\ fixes = NoFixes
  /\ prs = {}
  /\ runs = 0

-----------------------------------------------------------------------------
Target(c) == clone[c].head + 1
Stop(c) == run' = [run EXCEPT ![c] = NoRun]

\* The decision is blocked (or FORCE is set) and the clone is clean; any
\* other start exits before it touches anything.
Begin(c) ==
  /\ run[c] = NoRun
  /\ runs < MaxRuns /\ Target(c) <= Depth
  /\ clone[c].clean
  /\ runs' = runs + 1
  /\ run' = [run EXCEPT ![c] = [pc |-> "fetch", id |-> runs + 1]]
  /\ UNCHANGED <<remote, clone, fixes, prs>>

\* Mutant of Restored: the prior branch is not looked at.
NotRestored(tree, fetched) == tree
\* git checkout FETCH_HEAD -- security_findings: their files over ours.
Restored(tree, fetched) == IF fetched = Absent THEN tree ELSE Over(fetched, tree)

\* The fetch fails when the branch does not exist, and when the network does.
Fetch(c) ==
  /\ run[c].pc = "fetch"
  /\ \E fetched \in {remote[Target(c)], Absent} :
       LET tree == Restored(clone[c].tree, fetched)
       IN /\ clone' = [clone EXCEPT ![c].tree = tree,
                                    ![c].clean = tree = clone[c].commit]
          /\ run' = [run EXCEPT ![c] = [pc |-> "apply", id |-> @.id, seen |-> fetched]]
  /\ UNCHANGED <<remote, fixes, prs, runs>>

\* next_report_index
NextIndex(tree) == Max({0} \cup DOMAIN tree) + 1

\* safe_apply.py: the fixes, then SECURITY-REVIEW.<n>.md.  It touches nothing
\* but its clone, so two clones take this step one after the other.
Apply(c) ==
  /\ run[c].pc = "apply" /\ fixes = NoFixes
  /\ \E report \in Reports, files \in Sources :
       fixes' = [pc |-> "done", report |-> report, before |-> files,
                 result |-> ClassifyAndApply(report, files)]
  /\ run' = [run EXCEPT ![c].pc = "check"]
  /\ clone' = [clone EXCEPT ![c].tree = Over([n \in {NextIndex(@)} |-> run[c].id], @),
                            ![c].clean = FALSE]
  /\ UNCHANGED <<remote, prs, runs>>

\* py_compile, lint and re-scan: whatever they say is a note in the body.
SelfCheck(c) ==
  /\ run[c].pc = "check"
  /\ run' = [run EXCEPT ![c].pc = "commit"]
  /\ fixes' = NoFixes
  /\ UNCHANGED <<remote, clone, prs, runs>>

\* git checkout -B branch; git add -A; git commit.
Commit(c) ==
  /\ run[c].pc = "commit"
  /\ clone' = [clone EXCEPT ![c] = [head |-> Target(c), commit |-> @.tree,
                                    tree |-> @.tree, clean |-> TRUE]]
  /\ run' = [run EXCEPT ![c].pc = "push"]
  /\ UNCHANGED <<remote, fixes, prs, runs>>

\* git push --force
Push(c) ==
  /\ run[c].pc = "push"
  /\ remote' = [remote EXCEPT ![clone[c].head] = clone[c].commit]
  /\ run' = [run EXCEPT ![c].pc = "pr"]
  /\ UNCHANGED <<clone, fixes, prs, runs>>

\* A pull request is created unless one is open; a failure is a warning.
OpenPR(c) ==
  /\ run[c].pc = "pr"
  /\ \/ prs' = prs \cup {clone[c].head}
     \/ prs' = prs
  /\ Stop(c)
  /\ UNCHANGED <<remote, clone, fixes, runs>>

\* DRY_RUN, a command that fails under set -e, or the end of the process: the
\* clone stays as it is.
Quit(c) ==
  /\ run[c] # NoRun
  /\ Stop(c)
  /\ fixes' = IF run[c].pc = "check" THEN NoFixes ELSE fixes
  /\ UNCHANGED <<remote, clone, prs, runs>>

-----------------------------------------------------------------------------
(* The developers (external).                                              *)

\* A clone is brought back to the head of the default branch.
Tidy(c) ==
  /\ run[c] = NoRun
  /\ clone' = [clone EXCEPT ![c] = Fresh(remote[0])]
  /\ UNCHANGED <<remote, run, fixes, prs, runs>>

\* A pull request is merged, with the branch deleted or kept.  Two different
\* reports under one number are a conflict.
Merge(b) ==
  /\ b \in prs /\ remote[b] # Absent /\ remote[b - 1] # Absent
  /\ \A n \in DOMAIN remote[b] \cap DOMAIN remote[b - 1] :
       remote[b][n] = remote[b - 1][n]
  /\ \E gone \in BOOLEAN :
       remote' = [remote EXCEPT ![b - 1] = Over(remote[b], @),
                                ![b] = IF gone THEN Absent ELSE @]
  /\ prs' = prs \ {b}
  /\ UNCHANGED <<clone, run, fixes, runs>>

BranchNext ==
  \/ \E c \in Clones :
       \/ Begin(c) \/ Fetch(c) \/ Apply(c) \/ SelfCheck(c)
       \/ Commit(c) \/ Push(c) \/ OpenPR(c) \/ Quit(c) \/ Tidy(c)
  \/ \E b \in 1..Depth : Merge(b)

BranchSpec == BranchInit /\ [][BranchNext]_branchVars

-----------------------------------------------------------------------------
(* Properties.                                                             *)

\* The reports have numbers from 1 on and are of the first n runs.
IsTrail(t, n) ==
  /\ t = [k \in DOMAIN t |-> t[k]] /\ IsFiniteSet(DOMAIN t)
  /\ \A k \in DOMAIN t : k \in Nat \ {0} /\ t[k] \in 1..n

CloneOK(k, n) ==
  /\ k = [head |-> k.head, commit |-> k.commit, tree |-> k.tree, clean |-> k.clean]
  /\ k.head \in Branches /\ k.clean \in BOOLEAN
  /\ IsTrail(k.commit, n) /\ IsTrail(k.tree, n)

RunOK(r, n) ==
  \/ r = NoRun
  \/ r.id \in 1..n /\ r = [pc |-> "fetch", id |-> r.id]
  \/ /\ r.id \in 1..n /\ (r.seen = Absent \/ IsTrail(r.seen, n))
     /\ \E pc \in {"apply", "check", "commit", "push", "pr"} :
          r = [pc |-> pc, id |-> r.id, seen |-> r.seen]

BranchTypeOK ==
  /\ remote = [b \in Branches |-> remote[b]]
  /\ clone = [c \in Clones |-> clone[c]] /\ run = [c \in Clones |-> run[c]]
  /\ \A b \in Branches : remote[b] = Absent \/ IsTrail(remote[b], runs)
  /\ \A c \in Clones : CloneOK(clone[c], runs) /\ RunOK(run[c], runs)
  /\ prs \subseteq 1..Depth
  /\ runs \in 0..MaxRuns

Applied == fixes # NoFixes

(* safe_apply.py:22-23, "a finding is never silently dropped": the body of the
   pull request lists each finding of the report as a fix or as work by hand,
   never both, or it is a secret whose file is listed.  (A secret with no file
   is left out by the code, see Unlisted.)  And it warns of every fix on the
   branch that is of a sensitive class or touches a protected variable. *)
Unlisted(f) == f.secret /\ f.path = NoPath
EveryFindingIsListed ==
  Applied =>
    LET report == fixes.report
        body == BuildPrBody(report, fixes.result)
    IN /\ body.fixes \cap body.manual = {}
       /\ \A i \in DOMAIN report :
            \/ i \in body.fixes \cup body.manual
            \/ report[i].secret /\ report[i].path \in body.rotate
            \/ Unlisted(report[i])
       /\ \A i \in body.fixes :
            report[i].sensitive \/ Has(Block(report, i), "guarded") => i \in body.flagged

(* The fixes applied to a file, when no two of them replace a common line,
   leave what replacing all of them at once leaves: no splice lands on lines
   that an earlier one has moved. *)
DisjointFixesCompose ==
  Applied =>
    LET report == fixes.report
        Of(p) == {i \in fixes.result.applied : report[i].path = p}
    IN \A p \in Paths :
         Disjoint(report, Fitting(report, p, fixes.before[p])) =>
           fixes.result.files[p] = Substituted(report, Of(p), fixes.before[p])

(* The floor, "reject if the replacement introduces a dangerous construct the
   replaced lines did not have" (safe_apply.py:32), said of the scanned file and
   not of what earlier splices have made of it: where no two fixes of a file
   replace a common line, the block of an applied fix is bad only if the lines
   that the report says it replaces were.  And whatever overlaps, a Python file
   that was changed parses. *)
FloorHolds ==
  Applied => \A p \in Paths :
    LET report == fixes.report
        before == fixes.before[p]
        after == fixes.result.files[p]
    IN /\ after # before => Parses(p, after)
       /\ Disjoint(report, Fitting(report, p, before)) =>
            \A i \in fixes.result.applied :
              report[i].path = p /\ IsBad(Block(report, i))
                => IsBad(Slice(before, report[i].from - 1, report[i].to))

(* "Reports are numbered, never overwritten" as far as a run can see: a push
   drops or replaces a report only if the branch is not the one that the run
   restored its trail from, because the fetch failed or another run pushed. *)
Kept(old, new) == \A n \in DOMAIN old : n \in DOMAIN new /\ new[n] = old[n]
PushKeepsWhatItFetched ==
  [][\A c \in Clones :
       LET b == clone[c].head
       IN (Push(c) /\ remote[b] # Absent /\ remote[b] = run[c].seen)
            => Kept(remote[b], remote'[b])]_branchVars

(* safe_apply.py:22, "A file is never corrupted": the block of every applied
   fix is in the file, and so is every line that no applied fix replaces. *)
FilesAreNeverCorrupted ==
  Applied =>
    LET report == fixes.report
        result == fixes.result
        Lines(p) == {result.files[p][k] : k \in DOMAIN result.files[p]}
        Untouched(p) ==
          {k \in DOMAIN fixes.before[p] :
             \A i \in result.applied :
               report[i].path = p => k \notin Replaced(report[i])}
    IN /\ \A i \in result.applied :
            {Block(report, i)[k] : k \in DOMAIN report[i].block} \subseteq Lines(report[i].path)
       /\ \A p \in Paths :
            {fixes.before[p][k] : k \in Untouched(p)} \subseteq Lines(p)

(* safe_apply.py:440-443, a fix that "introduces a NEW anti-pattern" is never
   written: a file that is not bad does not become so. *)
NoNewAntiPattern ==
  Applied => \A p \in Paths : IsBad(fixes.result.files[p]) => IsBad(fixes.before[p])

(* safe_apply.py:280-281, "Reports are numbered, never overwritten": a report
   on a security branch stays there while the branch does. *)
ReportsNeverOverwritten ==
  [][\A b \in 1..Depth :
       (remote[b] # Absent /\ remote'[b] # Absent) => Kept(remote[b], remote'[b])]_branchVars
=============================================================================
