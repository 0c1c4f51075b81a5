---------------------------- MODULE LocalCommitMC ----------------------------
(***************************************************************************)
(* LocalCommit's symmetry for TLC.                                         *)
(***************************************************************************)
EXTENDS LocalCommit, TLC

Symmetry == Permutations(Ops)
=============================================================================
