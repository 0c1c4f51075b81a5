--------------------------- MODULE WorkspaceSetMC ---------------------------
(***************************************************************************)
(* WorkspaceSet's constants for TLC: a family of one repository with more  *)
(* events, or of two with fewer, and the symmetry of both sets.            *)
(***************************************************************************)
EXTENDS WorkspaceSet, TLC

MCMaxEvents == [n \in 1..Cardinality(Repos) |-> IF n = 1 THEN 3 ELSE 1]

Symmetry == Permutations(Attempts) \union Permutations(Repos)
=============================================================================
