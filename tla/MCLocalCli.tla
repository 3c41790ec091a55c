------------------------------ MODULE MCLocalCli ------------------------------
(***************************************************************************)
(* Instances of LocalCli.  Processes and secrets are only compared for     *)
(* equality, so permuting them is a symmetry.                              *)
(***************************************************************************)
EXTENDS LocalCli, TLC

Symmetry == Permutations(Commands) \cup Permutations(Tokens)
===============================================================================
