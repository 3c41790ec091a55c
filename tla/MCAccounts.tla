------------------------------- MODULE MCAccounts -------------------------------
(***************************************************************************)
(* Instance of Accounts.  Clients are only compared for equality, so        *)
(* permuting them is a symmetry.                                            *)
(***************************************************************************)
EXTENDS Accounts, TLC

Symmetry == Permutations(Slots)
=================================================================================
