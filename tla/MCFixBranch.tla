----------------------------- MODULE MCFixBranch ----------------------------
(* Reports of up to three findings on a file of four lines, for TLC.       *)
EXTENDS FixBranch, TLC

Finding(from, to, block) ==
  [secret |-> FALSE, path |-> "app.py", from |-> from, to |-> to,
   block |-> block, sensitive |-> FALSE]

\* Fixes that can meet, and can fall outside or exceed the cap.
Fixes == {Finding(from, to, block) :
            from \in {1, 2, 3}, to \in {2, 3, 5},
            block \in {<<"plain">>, <<"plain", "plain">>, <<"weak">>, <<"head", "tail">>}}
Odd == {Finding(0, 0, <<"plain">>), Finding(1, 1, <<>>),
        Finding(1, 1, <<"plain", "plain", "plain", "plain">>),
        Finding(2, 2, <<"broken">>), Finding(2, 2, <<"plain", "sketch">>),
        Finding(3, 3, <<"plain", "guarded">>), Finding(1, 1, <<"head">>),
        Finding(2, 2, <<"weak", "shield">>),
        [Finding(2, 2, <<"weak">>) EXCEPT !.sensitive = TRUE],
        [Finding(3, 3, <<"plain">>) EXCEPT !.path = "notes.md", !.sensitive = TRUE],
        [Finding(2, 3, <<"broken">>) EXCEPT !.path = "notes.md"],
        [Finding(1, 1, <<"plain">>) EXCEPT !.path = "none"],
        [Finding(1, 1, <<"plain">>) EXCEPT !.secret = TRUE],
        [Finding(1, 1, <<"plain">>) EXCEPT !.secret = TRUE, !.path = "none"]}

MCReports ==
  {<<f, g>> : f \in Fixes \cup Odd, g \in Fixes \cup Odd}
    \cup {<<f, g, h>> : f \in {Finding(1, 1, <<"plain", "plain">>), Finding(2, 3, <<"weak">>)},
                        g \in Odd, h \in {Finding(3, 3, <<"weak", "weak">>), Finding(2, 2, <<"plain">>)}}

File(kinds) == [k \in DOMAIN kinds |-> [by |-> 0, no |-> k, kind |-> kinds[k]]]
MCSources ==
  {[p \in {"app.py", "notes.md"} |-> File(kinds)] :
     kinds \in {<<"plain", "tail", "plain", "plain">>,
                <<"plain", "weak", "guarded", "plain">>,
                <<"plain", "head", "tail", "shield">>,
                <<"plain", "broken", "plain">>}}
Symmetry == Permutations(Clones)
=============================================================================
