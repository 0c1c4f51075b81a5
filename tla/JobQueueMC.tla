----------------------------- MODULE JobQueueMC -----------------------------
(***************************************************************************)
(* Values of JobQueue's constants for TLC.  A job that executes a node of  *)
(* run1 and run1's cancellation coordinator, a control job.  Two processes *)
(* have a worker each; both workers claim under one owner name: the fence  *)
(* must not need it to be unique.                                          *)
(***************************************************************************)
EXTENDS JobQueue, TLC

CONSTANTS work, control, run1, proj1, p1, p2, w1, w2

MCJobClass == (work :> "RUN_WORK") @@ (control :> "CONTROL")
MCJobRun == [j \in {work, control} |-> run1]
MCJobProject == [j \in {work, control} |-> proj1]
MCPriority == (work :> 0) @@ (control :> 1)
MCMaxClaims == (work :> 2) @@ (control :> 1)
MCProcOf == (w1 :> p1) @@ (w2 :> p2)
MCMaxDelay == (work :> 1) @@ (control :> 0)
MCOwner == (w1 :> "aw-0") @@ (w2 :> "aw-0")
==============================================================================
