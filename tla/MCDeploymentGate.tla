--------------------------- MODULE MCDeploymentGate ---------------------------
(***************************************************************************)
(* DeploymentGate for TLC: jobs and GitHub's keys are interchangeable.      *)
(***************************************************************************)
EXTENDS DeploymentGate, TLC

Symmetry == Permutations(Jobs) \cup Permutations(Keys)
===============================================================================
