---------------------------- MODULE ProjectionMC ----------------------------
(***************************************************************************)
(* Values of Projection's constants for TLC.                               *)
(***************************************************************************)
EXTENDS Projection

CONSTANTS c1, c2

TwiceEach == [o \in Ops |-> 2]
OnceThenTwice == [o \in Ops |-> IF o = 1 THEN 1 ELSE 2]
=============================================================================
