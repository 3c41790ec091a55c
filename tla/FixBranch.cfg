\* Two clones on a branch and the branch of a run that started on it; two runs, so
\* that one can push between the fetch and the push of the other.
SPECIFICATION BranchSpec
CONSTANTS
  Paths = {"app.py", "notes.md"}
  Python = {"app.py"}
  NoPath = "none"
  MaxChanged = 3
  ProposeAll = TRUE
  Clones = {c1, c2}
  Reports <- MCReports
  Sources <- MCSources
  Depth = 2
  MaxRuns = 2
SYMMETRY Symmetry
INVARIANTS
  EveryFindingIsListed
  DisjointFixesCompose
  FloorHolds
PROPERTIES
  PushKeepsWhatItFetched
