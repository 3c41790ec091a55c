------------------------------ MODULE FixApply ------------------------------
(***************************************************************************)
(* classify_and_apply of scripts/lib/safe_apply.py: the gauntlet that      *)
(* decides which suggested fixes of a scan report are written to the files *)
(* of a clone, and the splice that writes them.                            *)
(*                                                                         *)
(* A report is a sequence of findings.  A line of a file is                *)
(* [by, no, kind]: by is 0 for a line of the scanned file and i for a line *)
(* of the block that finding i suggests.  kind stands for what the         *)
(* regular expressions and ast.parse tell apart:                           *)
(*   "weak"      matches a rule of _FORBIDDEN_RULES,                       *)
(*   "head", "tail"  match it only together, the one right above the other *)
(*               (the rules match across line ends),                       *)
(*   "shield"    has the mitigation of that rule (Loader=),                *)
(*   "guarded"   mentions a protected variable,                            *)
(*   "broken"    keeps the file from parsing as Python,                    *)
(*   "sketch"    reads as an illustration (only in a block),               *)
(*   "plain"     none of these.                                            *)
(* The rules are looked at one by one; one of them stands for all.         *)
(* A finding is [secret, path, from, to, block, sensitive]: path is NoPath *)
(* when empty, from is 0 when no range can be parsed, block has the kinds  *)
(* of the lines of its code block (<<>> for none), and sensitive stands    *)
(* for a manual-only category or a protected path.                         *)
(***************************************************************************)
EXTENDS Integers, Sequences, FiniteSets, SequencesExt

CONSTANTS
  Paths,       \* files of the clone
  Python,      \* those whose name ends in .py
  NoPath,      \* the empty affected_file
  MaxChanged,  \* _DEFAULT_MAX_CHANGED
  ProposeAll   \* posture: TRUE for the human-review branch, FALSE for strict

ASSUME FixAssumption ==
  /\ Python \subseteq Paths /\ NoPath \notin Paths
  /\ MaxChanged \in Nat /\ ProposeAll \in BOOLEAN

Kinds == {"plain", "weak", "head", "tail", "shield", "guarded", "broken"}

Findings == [secret : BOOLEAN, path : STRING, from : Nat, to : Nat,
             block : Seq(Kinds \cup {"sketch"}), sensitive : BOOLEAN]

Line == [by : Nat, no : Nat, kind : Kinds]

Larger(a, b) == IF a > b THEN a ELSE b
Smaller(a, b) == IF a < b THEN a ELSE b

-----------------------------------------------------------------------------
(* Before any file is read: step 1 to 4 and 7 of the gauntlet.             *)

\* changed_line_count
Changed(f) == Larger(f.to - f.from + 1, Len(f.block))

\* Not a secret, not routed to "manual": queued in edits[path].
Queued(f) ==
  /\ ~f.secret
  /\ f.sensitive => ProposeAll
  /\ f.path \in Paths /\ f.from > 0 /\ f.block # <<>>
  /\ \A k \in DOMAIN f.block : f.block[k] # "sketch"
  /\ Changed(f) <= MaxChanged

-----------------------------------------------------------------------------
(* One file: bounds, then bottom to top.  The slices clip, as Python's do. *)

InBounds(f, n) == f.from \in 1..n /\ f.to \in f.from..n

Block(report, i) ==
  [k \in DOMAIN report[i].block |-> [by |-> i, no |-> k, kind |-> report[i].block[k]]]

\* lines[a:b]
Slice(lines, a, b) == SubSeq(lines, a + 1, Smaller(b, Len(lines)))

Splice(lines, report, i) ==
  LET f == report[i]
  IN Slice(lines, 0, f.from - 1) \o Block(report, i) \o Slice(lines, f.to, Len(lines))

Has(lines, kind) == \E k \in DOMAIN lines : lines[k].kind = kind

\* touches_protected_variable
Touches(old, block) == Has(block, "guarded") \/ Has(old, "guarded")

\* danger.search
Dangerous(lines) ==
  \E k \in DOMAIN lines :
    \/ lines[k].kind = "weak"
    \/ lines[k].kind = "head" /\ k + 1 \in DOMAIN lines /\ lines[k + 1].kind = "tail"

\* _is_bad: the mitigation may be anywhere in the text.
IsBad(lines) == Dangerous(lines) /\ ~Has(lines, "shield")

\* introduced_forbidden: the block is bad, the lines it replaces are not.
Introduces(old, block) == IsBad(block) /\ ~IsBad(old)

\* ast.parse, for Python files only.
Parses(p, lines) == p \in Python => ~Has(lines, "broken")

\* Mutant of BottomUp: the splice goes top to bottom.
TopDown(report, i, j) ==
  report[i].from < report[j].from \/ (report[i].from = report[j].from /\ i < j)

\* Fix i is spliced before fix j: sorted(ok, key=start, reverse=True) keeps the
\* order of equal starts.
BottomUp(report, i, j) ==
  report[i].from > report[j].from \/ (report[i].from = report[j].from /\ i < j)

LastOf(report, is) == CHOOSE i \in is : \A j \in is \ {i} : BottomUp(report, j, i)

\* Mutant of Refused: the regression blocker is only run on blocks without risk.
RefusedIfSafe(p, old, block, new, f) ==
  \/ Touches(old, block) /\ ~ProposeAll
  \/ Introduces(old, block) /\ ~f.sensitive
  \/ ~Parses(p, new)
Refused(p, old, block, new, f) ==
  \/ Touches(old, block) /\ ~ProposeAll
  \/ Introduces(old, block)
  \/ ~Parses(p, new)

\* Mutant of Refuse: a refused splice is undone and not listed.
RefuseUnlisted(acc, i) == acc
Refuse(acc, i) == [acc EXCEPT !.manual = @ \cup {i}]

\* The risk note: the gates that only warn in the human-review posture.
Risky(old, block, f) == f.sensitive \/ Touches(old, block)

\* One iteration of the splice loop on file p.
Try(report, p, acc, i) ==
  LET old == Slice(acc.lines, report[i].from - 1, report[i].to)
      block == Block(report, i)
      new == Splice(acc.lines, report, i)
  IN IF Refused(p, old, block, new, report[i])
     THEN Refuse(acc, i)
     ELSE [acc EXCEPT !.lines = new, !.applied = @ \cup {i},
                      !.noted = @ \cup (IF Risky(old, block, report[i]) THEN {i} ELSE {})]

\* edits[p], and those of them that are in bounds.
Edits(report, p) == {i \in DOMAIN report : Queued(report[i]) /\ report[i].path = p}

Fitting(report, p, lines) ==
  {i \in Edits(report, p) : InBounds(report[i], Len(lines))}

Unpatched(report, p, lines) ==
  [lines |-> lines, applied |-> {}, noted |-> {},
   manual |-> Edits(report, p) \ Fitting(report, p, lines)]

\* spliced[is] is the file after the fixes of is have been tried.
PatchFile(report, p, lines) ==
  LET ok == Fitting(report, p, lines)
      spliced[is \in SUBSET ok] ==
        IF is = {} THEN Unpatched(report, p, lines)
        ELSE LET i == LastOf(report, is)
             IN Try(report, p, spliced[is \ {i}], i)
  IN spliced[ok]

-----------------------------------------------------------------------------
\* The result classify_and_apply returns, and the files it leaves.
ClassifyAndApply(report, files) ==
  LET patched == [p \in Paths |-> PatchFile(report, p, files[p])]
  IN [applied |-> UNION {patched[p].applied : p \in Paths},
      risk_notes |-> UNION {patched[p].noted : p \in Paths},
      manual  |-> {i \in DOMAIN report : ~report[i].secret /\ ~Queued(report[i])}
                    \cup UNION {patched[p].manual : p \in Paths},
      secret_files |-> {report[i].path : i \in {j \in DOMAIN report :
                          report[j].secret /\ report[j].path # NoPath}},
      files   |-> [p \in Paths |-> patched[p].lines]]

\* What notes and explanations are keyed by: the place of a finding.  (Its
\* vulnerability_id, the other half of the key, is not told apart here.)
Label(f) == <<f.path, f.from, f.to>>

\* The body of the pull request, which is also SECURITY-REVIEW.<n>.md: the
\* fixes on the branch, those of them with a warning, the files whose secrets
\* have to be rotated, and what is left to do by hand.
BuildPrBody(report, result) ==
  [fixes |-> result.applied,
   flagged |-> {i \in result.applied :
                  \E j \in result.risk_notes : Label(report[j]) = Label(report[i])},
   rotate |-> result.secret_files,
   manual |-> result.manual]

-----------------------------------------------------------------------------
(* What the result is to be, said without an order of splices.             *)

Replaced(f) == f.from..f.to

\* No two of the applied fixes of a file replace a common line.
Disjoint(report, is) ==
  \A i, j \in is : (i # j /\ report[i].path = report[j].path)
                     => Replaced(report[i]) \cap Replaced(report[j]) = {}

\* Every fix of is in its place, every other line untouched.
Substituted(report, is, lines) ==
  FlattenSeq([k \in DOMAIN lines |->
    IF \E i \in is : report[i].from = k
    THEN Block(report, CHOOSE i \in is : report[i].from = k)
    ELSE IF \E i \in is : k \in Replaced(report[i]) THEN <<>> ELSE <<lines[k]>>])
=============================================================================
