----------------------------- MODULE RunEngineMC -----------------------------
(***************************************************************************)
(* Values of RunEngine's constants for TLC: a fork of two branches, which  *)
(* a run may make mutating (b1) or not.                                    *)
(***************************************************************************)
EXTENDS RunEngine, TLC

CONSTANTS b1, b2

TwiceEach == [b \in Branches |-> 2]
TwiceThenOnce == (b1 :> 2) @@ (b2 :> 1)
==============================================================================
