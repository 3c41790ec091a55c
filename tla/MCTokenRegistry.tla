--------------------------- MODULE MCTokenRegistry ---------------------------
(***************************************************************************)
(* Instances of TokenRegistry.  Users, keys, prefixes and request slots    *)
(* are only compared for equality, so permuting them is a symmetry.        *)
(***************************************************************************)
EXTENDS TokenRegistry, TLC

Symmetry == Permutations(Users) \cup Permutations(RowId) \cup Permutations(TokenId)
            \cup Permutations(Txns) \cup Permutations(Verifiers)
==============================================================================
