-------------------------- MODULE RunEngine_proofs --------------------------
(***************************************************************************)
(* Theorems about RunEngine, for any workflow of the modelled shape, any   *)
(* attempt policies, any kind of join and any bounds: its type invariant,  *)
(* that a cancelled run starts and retries no attempt, that the reaper     *)
(* never decides on an attempt whose handler is at work and holds its job, *)
(* that a run said to be over is quiet, and that attempts, node runs,      *)
(* tokens and the join agree.                                              *)
(***************************************************************************)
EXTENDS RunEngine, FiniteSetTheorems, TLAPS

------------------------------------------------------------------------------
(* What the operators the actions share return. *)

(* Deciding the join touches no state but the join's and END's. *)
LEMMA EvaluateJoinType ==
  ASSUME NEW nodes \in [Nodes -> NodeStates], NEW tokens
  PROVE  EvaluateJoin(nodes, tokens) \in [Nodes -> NodeStates]
BY DEF EvaluateJoin, NodeStates

(* The reducer returns a state of a run. *)
LEMMA ReconciledType ==
  ASSUME run \in RunStates, NEW nodes
  PROVE  Reconciled(nodes) \in RunStates
BY DEF Reconciled, RunStates

(* Settling a branch leaves the graph well typed. *)
LEMMA SettleBranchType ==
  ASSUME TypeOK, NEW b \in Branches, NEW s \in Settled, SettleBranch(b, s)
  PROVE  /\ run' \in RunStates
         /\ node' \in [Nodes -> NodeStates]
         /\ branch' \in [Branches -> {"ABSENT", "ACTIVE"} \union Settled]
<1> DEFINE tokens == [branch EXCEPT ![b] = s]
           settled == [node EXCEPT ![b] = s]
           nodes == EvaluateJoin(settled, tokens)
<1>1. branch' = tokens /\ node' = nodes /\ run' = Reconciled(nodes)
  BY DEF SettleBranch
<1>2. tokens \in [Branches -> {"ABSENT", "ACTIVE"} \union Settled]
  BY DEF TypeOK
<1>3. settled \in [Nodes -> NodeStates]
  BY DEF TypeOK, Settled, NodeStates
<1>4. nodes \in [Nodes -> NodeStates]
  BY <1>3, EvaluateJoinType
<1>5. Reconciled(nodes) \in RunStates
  BY ReconciledType DEF TypeOK
<1> QED
  BY <1>1, <1>2, <1>4, <1>5

(* So does blocking one. *)
LEMMA BlockNodeType ==
  ASSUME TypeOK, NEW b, BlockNode(b)
  PROVE  /\ run' \in RunStates
         /\ node' \in [Nodes -> NodeStates]
         /\ branch' \in [Branches -> {"ABSENT", "ACTIVE"} \union Settled]
<1>1. node' \in [Nodes -> NodeStates]
  BY DEF TypeOK, BlockNode, NodeStates
<1>2. run' \in RunStates
  BY ReconciledType DEF TypeOK, BlockNode
<1> QED
  BY <1>1, <1>2 DEF TypeOK, BlockNode

(* Moving one executor keeps the executors well typed. *)
LEMMA AtType ==
  ASSUME TypeOK, NEW a, NEW c,
         NEW pc \in {"none", "claimed", "running", "writing", "returned"}, At(a, c, pc)
  PROVE  executor' \in [Attempts -> [1..MaxClaims ->
                          {"none", "claimed", "running", "writing", "returned"}]]
BY DEF TypeOK, At

(* Delivering a job keeps the jobs and the faults well typed. *)
LEMMA DeliverType ==
  ASSUME TypeOK, NEW j \in Jobs, Claimable(j), NEW new, Deliver(j, new)
  PROVE  /\ jobState' \in [Jobs -> {"ABSENT", "AVAILABLE", "LEASED", "SUCCEEDED", "DEAD", "CANCELLED"}]
         /\ jobClaims' \in [Jobs -> 0..MaxClaims]
         /\ jobOfRun' = jobOfRun
         /\ jobFenced' = jobFenced
         /\ faults' \in 0..MaxFaults
<1>1. PICK s \in {"SUCCEEDED", Redelivery(jobClaims[j] + 1)} :
        /\ jobState' = [i \in Jobs |-> IF i = j THEN s
                                       ELSE IF i \in new THEN "AVAILABLE" ELSE jobState[i]]
        /\ jobClaims' = [jobClaims EXCEPT ![j] = @ + 1]
        /\ IF s = "SUCCEEDED" THEN UNCHANGED faults
           ELSE faults < MaxFaults /\ faults' = faults + 1
        /\ UNCHANGED <<jobOfRun, jobFenced>>
  BY DEF Deliver
<1>2. s \in {"SUCCEEDED", "DEAD", "AVAILABLE"}
  BY DEF Redelivery
<1>3. jobClaims' \in [Jobs -> 0..MaxClaims]
  BY <1>1, EngineAssumption DEF TypeOK, Claimable
<1>4. faults' \in 0..MaxFaults
  BY <1>1, EngineAssumption DEF TypeOK
<1>5. jobState' \in [Jobs -> {"ABSENT", "AVAILABLE", "LEASED", "SUCCEEDED", "DEAD", "CANCELLED"}]
  BY <1>1, <1>2 DEF TypeOK
<1> QED
  BY <1>1, <1>3, <1>4, <1>5

(* So does a job that fails, or whose lease is lost. *)
LEMMA RedeliveryType ==
  ASSUME NEW c
  PROVE  Redelivery(c) \in {"DEAD", "AVAILABLE"}
BY DEF Redelivery

(* The mutating attempt's cancellation is well typed. *)
LEMMA CancelMutatingAttemptType ==
  ASSUME TypeOK, NEW a \in Attempts, CancelMutatingAttempt(a)
  PROVE  /\ run' \in RunStates
         /\ node' \in [Nodes -> NodeStates]
         /\ branch' \in [Branches -> {"ABSENT", "ACTIVE"} \union Settled]
         /\ attempt' \in [Attempts -> AttemptStates]
         /\ intent' \in {"NONE", "REQUESTED", "COMPLETED"}
<1>1. CASE attempt[a] # "RUNNING"
  BY <1>1 DEF TypeOK, CancelMutatingAttempt, graphVars
<1>2. CASE attempt[a] = "RUNNING"
  <2>1. /\ attempt' = [attempt EXCEPT ![a] = "INDETERMINATE"]
        /\ SettleBranch(a[1], "CANCELLED")
        /\ intent' = "COMPLETED"
    BY <1>2 DEF CancelMutatingAttempt
  <2>2. a[1] \in Branches
    BY DEF Attempts
  <2>3. attempt' \in [Attempts -> AttemptStates]
    BY <2>1 DEF TypeOK, AttemptStates
  <2> QED
    BY <2>1, <2>2, <2>3, SettleBranchType DEF Settled
<1> QED
  BY <1>1, <1>2

(* And so is the coordinator's sweep. *)
LEMMA QuiesceType ==
  ASSUME TypeOK, Quiesce
  PROVE  /\ run' \in RunStates
         /\ node' \in [Nodes -> NodeStates]
         /\ branch' \in [Branches -> {"ABSENT", "ACTIVE"} \union Settled]
         /\ attempt' \in [Attempts -> AttemptStates]
         /\ intent' \in {"NONE", "REQUESTED", "COMPLETED"}
<1> DEFINE cancelled == [n \in Nodes |-> IF n \in ToCancel THEN "CANCELLED" ELSE node[n]]
           tokens == [b \in Branches |-> IF b \in ToCancel THEN "CANCELLED" ELSE branch[b]]
           waiting == [cancelled EXCEPT !["JOIN"] = "WAITING"]
<1>1. /\ branch' = tokens
      /\ run' = Reconciled(node')
      /\ node' \in {cancelled, EvaluateJoin(cancelled, tokens), EvaluateJoin(waiting, tokens)}
  BY DEF Quiesce
<1>2. cancelled \in [Nodes -> NodeStates]
  BY DEF TypeOK, NodeStates
<1>3. waiting \in [Nodes -> NodeStates]
  BY <1>2 DEF NodeStates
<1>4. node' \in [Nodes -> NodeStates]
  <2> HIDE DEF cancelled, tokens, waiting
  <2> QED BY <1>1, <1>2, <1>3, EvaluateJoinType
<1>5. run' \in RunStates
  BY <1>1, ReconciledType DEF TypeOK
<1>6. branch' \in [Branches -> {"ABSENT", "ACTIVE"} \union Settled]
  BY <1>1 DEF TypeOK, Settled
<1>7. attempt' \in [Attempts -> AttemptStates] /\ intent' \in {"NONE", "REQUESTED", "COMPLETED"}
  BY DEF TypeOK, Quiesce, AttemptStates
<1> QED
  BY <1>4, <1>5, <1>6, <1>7

------------------------------------------------------------------------------
(* The jobs the actions name. *)
LEMMA JobsNamed ==
  /\ AdvanceJob \in Jobs /\ CoordinatorJob \in Jobs
  /\ \A b \in Branches : ScheduleJob(b) \in Jobs /\ <<b, 1>> \in Attempts
  /\ \A a \in Attempts : ExecuteJob(a) \in Jobs
<1>1. \A b \in Branches : <<b, 1>> \in Attempts
  BY EngineAssumption DEF Attempts
<1> QED
  BY <1>1 DEF Jobs, RunWork

(* The attempt a node run gets after another, within its policy. *)
LEMMA NextAttempt ==
  ASSUME NEW a \in Attempts, a[2] < MaxAttempts[a[1]]
  PROVE  <<a[1], a[2] + 1>> \in Attempts
<1>1. PICK b \in Branches : a \in {b} \X (1..MaxAttempts[b])
  BY DEF Attempts
<1>2. a[1] = b /\ a[2] + 1 \in 1..MaxAttempts[b]
  BY <1>1, EngineAssumption
<1> QED
  BY <1>1, <1>2 DEF Attempts

(* What the reaper decided to retry has attempts left: TypeOK alone is not  *)
(* inductive, for RetryOrphan enqueues a job without looking at the policy. *)
RetryWithinPolicy ==
  \A a \in Attempts : reaper[a] = "retry" => a[2] < MaxAttempts[a[1]]

TypeInv == TypeOK /\ RetryWithinPolicy

(* The types, conjunct by conjunct: every step that touches a variable      *)
(* keeps its type.                                                          *)
LEMMA TypeStep ==
  ASSUME TypeInv, [Next]_vars
  PROVE  TypeOK'
<1>0. TypeOK
  BY DEF TypeInv
<1> USE <1>0
<1> USE JobsNamed
<1> USE DEF jobVars, graphVars
<1>1. CASE AdvanceRun
  <2>1. jobState' \in [Jobs -> {"ABSENT", "AVAILABLE", "LEASED", "SUCCEEDED", "DEAD", "CANCELLED"}]
        /\ jobClaims' \in [Jobs -> 0..MaxClaims] /\ faults' \in 0..MaxFaults
        /\ jobOfRun' = jobOfRun /\ jobFenced' = jobFenced
    BY <1>1, DeliverType DEF AdvanceRun
  <2>2. node' \in [Nodes -> NodeStates]
    BY <1>1 DEF AdvanceRun, TypeOK, NodeStates
  <2>3. run' \in RunStates
    BY <1>1, ReconciledType DEF AdvanceRun, TypeOK
  <2>4. branch' \in [Branches -> {"ABSENT", "ACTIVE"} \union Settled]
    BY <1>1 DEF AdvanceRun, TypeOK
  <2> QED
    BY <1>1, <2>1, <2>2, <2>3, <2>4 DEF AdvanceRun, TypeOK
<1>2. ASSUME NEW b \in Branches, ScheduleNodeRun(b) PROVE TypeOK'
  <2>1. jobState' \in [Jobs -> {"ABSENT", "AVAILABLE", "LEASED", "SUCCEEDED", "DEAD", "CANCELLED"}]
        /\ jobClaims' \in [Jobs -> 0..MaxClaims] /\ faults' \in 0..MaxFaults
        /\ jobOfRun' = jobOfRun /\ jobFenced' = jobFenced
    BY <1>2, DeliverType DEF ScheduleNodeRun
  <2>2. node' \in [Nodes -> NodeStates]
    BY <1>2 DEF ScheduleNodeRun, TypeOK, NodeStates
  <2>3. attempt' \in [Attempts -> AttemptStates]
    BY <1>2 DEF ScheduleNodeRun, TypeOK, AttemptStates
  <2> QED
    BY <1>2, <2>1, <2>2, <2>3 DEF ScheduleNodeRun, TypeOK
<1>3. ASSUME NEW j \in Jobs, HandlerFails(j) PROVE TypeOK'
  <2>1. Redelivery(jobClaims[j] + 1) \in {"DEAD", "AVAILABLE"}
    BY RedeliveryType
  <2>2. jobClaims' \in [Jobs -> 0..MaxClaims] /\ faults' \in 0..MaxFaults
    BY <1>3, EngineAssumption DEF HandlerFails, Claimable, TypeOK
  <2>3. jobState' \in [Jobs -> {"ABSENT", "AVAILABLE", "LEASED", "SUCCEEDED", "DEAD", "CANCELLED"}]
    BY <1>3, <2>1 DEF HandlerFails, TypeOK
  <2> QED
    BY <1>3, <2>2, <2>3 DEF HandlerFails, TypeOK
<1>4. ASSUME NEW a \in Attempts, ClaimExecute(a) PROVE TypeOK'
  <2> DEFINE j == ExecuteJob(a)
  <2>1. jobClaims' \in [Jobs -> 0..MaxClaims]
    BY <1>4, EngineAssumption DEF ClaimExecute, Claimable, TypeOK
  <2>2. executor' \in [Attempts -> [1..MaxClaims ->
                        {"none", "claimed", "running", "writing", "returned"}]]
    <3>1. At(a, jobClaims[j] + 1, "claimed")
      BY <1>4 DEF ClaimExecute
    <3> QED BY <3>1, AtType
  <2>3. jobState' \in [Jobs -> {"ABSENT", "AVAILABLE", "LEASED", "SUCCEEDED", "DEAD", "CANCELLED"}]
    BY <1>4 DEF ClaimExecute, TypeOK
  <2> QED
    BY <1>4, <2>1, <2>2, <2>3 DEF ClaimExecute, TypeOK
<1>5. ASSUME NEW a \in Attempts, LeaseExpires(a) \/ LeaseLost(a) PROVE TypeOK'
  <2>1. Redelivery(jobClaims[ExecuteJob(a)]) \in {"DEAD", "AVAILABLE"}
    BY RedeliveryType
  <2>2. jobState' \in [Jobs -> {"ABSENT", "AVAILABLE", "LEASED", "SUCCEEDED", "DEAD", "CANCELLED"}]
    BY <1>5, <2>1 DEF LeaseExpires, LeaseLost, TypeOK
  <2>3. faults' \in 0..MaxFaults
    BY <1>5, EngineAssumption DEF LeaseExpires, LeaseLost, TypeOK
  <2> QED
    BY <1>5, <2>2, <2>3 DEF LeaseExpires, LeaseLost, TypeOK
<1>6. ASSUME NEW a \in Attempts, ReaperStep(a) PROVE TypeOK'
  <2>1. CASE ListOrphan(a)
    BY <2>1 DEF ListOrphan, Reaping, TypeOK
  <2>2. CASE InspectOrphan(a)
    BY <2>2 DEF InspectOrphan, Reaping, TypeOK
  <2>3. CASE CancelOrphan(a)
    BY <2>3, CancelMutatingAttemptType DEF CancelOrphan, Reaping, TypeOK
  <2>4. CASE TerminateInterruptedAttempt(a)
    BY <2>4 DEF TerminateInterruptedAttempt, Reaping, TypeOK, AttemptStates
  <2>5. CASE DecideRecovery(a)
    BY <2>5 DEF DecideRecovery, Reaping, TypeOK
  <2>6. CASE RetryOrphan(a)
    <3> DEFINE next == <<a[1], a[2] + 1>>
    <3>1. reaper[a] = "retry"
      BY <2>6 DEF RetryOrphan
    <3>2. next \in Attempts
      BY <3>1, NextAttempt DEF TypeInv, RetryWithinPolicy
    <3>3. ExecuteJob(next) \in Jobs
      BY <3>2, JobsNamed
    <3> HIDE DEF next
    <3>4. \/ /\ attempt' = [attempt EXCEPT ![next] = "QUEUED"]
             /\ jobState' = [jobState EXCEPT ![ExecuteJob(next)] = "AVAILABLE"]
             /\ jobOfRun' = jobOfRun \union {ExecuteJob(next)}
          \/ UNCHANGED <<attempt, jobState, jobOfRun>>
      BY <2>6 DEF RetryOrphan, next
    <3>5. /\ attempt' \in [Attempts -> AttemptStates]
          /\ jobState' \in [Jobs -> {"ABSENT", "AVAILABLE", "LEASED", "SUCCEEDED",
                                     "DEAD", "CANCELLED"}]
          /\ jobOfRun' \subseteq Jobs
          /\ jobFenced \subseteq jobOfRun'
      BY <3>3, <3>4 DEF TypeOK, AttemptStates
    <3> QED BY <2>6, <3>5 DEF RetryOrphan, Reaping, TypeOK
  <2> QED
    BY <1>6, <2>1, <2>2, <2>3, <2>4, <2>5, <2>6 DEF ReaperStep
<1>7. ASSUME NEW a \in Attempts, ReaperDies(a) PROVE TypeOK'
  BY <1>7, EngineAssumption DEF ReaperDies, Reaping, TypeOK
<1>8. ASSUME NEW a \in Attempts, NEW c \in 1..MaxClaims, ExecutorStep(a, c) PROVE TypeOK'
  <2>0. a[1] \in Branches
    BY DEF Attempts
  <2>1. CASE Admit(a, c)
    <3>1. executor' \in [Attempts -> [1..MaxClaims ->
                        {"none", "claimed", "running", "writing", "returned"}]]
      BY <2>1, AtType DEF Admit
    <3>2. node' \in [Nodes -> NodeStates] /\ attempt' \in [Attempts -> AttemptStates]
      BY <2>1 DEF Admit, TypeOK, NodeStates, AttemptStates
    <3> QED BY <2>1, <3>1, <3>2 DEF Admit, TypeOK
  <2>2. CASE BlockAdmission(a, c)
    <3>1. executor' \in [Attempts -> [1..MaxClaims ->
                        {"none", "claimed", "running", "writing", "returned"}]]
      BY <2>2, AtType DEF BlockAdmission
    <3>2. /\ run' \in RunStates
          /\ node' \in [Nodes -> NodeStates]
          /\ branch' \in [Branches -> {"ABSENT", "ACTIVE"} \union Settled]
      BY <2>2, BlockNodeType DEF BlockAdmission, TypeOK
    <3>3. attempt' \in [Attempts -> AttemptStates]
      BY <2>2 DEF BlockAdmission, TypeOK, AttemptStates
    <3> QED BY <2>2, <3>1, <3>2, <3>3 DEF BlockAdmission, TypeOK
  <2>3. CASE AcquireWriteLease(a, c)
    <3>1. executor' \in [Attempts -> [1..MaxClaims ->
                        {"none", "claimed", "running", "writing", "returned"}]]
      BY <2>3, AtType DEF AcquireWriteLease
    <3> QED BY <2>3, <3>1 DEF AcquireWriteLease, TypeOK
  <2>4. CASE FinalizeExecutionAttempt(a, c)
    <3>1. executor' \in [Attempts -> [1..MaxClaims ->
                        {"none", "claimed", "running", "writing", "returned"}]]
      BY <2>4, AtType DEF FinalizeExecutionAttempt
    <3>2. /\ run' \in RunStates
          /\ node' \in [Nodes -> NodeStates]
          /\ branch' \in [Branches -> {"ABSENT", "ACTIVE"} \union Settled]
          /\ attempt' \in [Attempts -> AttemptStates]
          /\ jobState' \in [Jobs -> {"ABSENT", "AVAILABLE", "LEASED", "SUCCEEDED",
                                     "DEAD", "CANCELLED"}]
      <4>1. CASE UNCHANGED <<graphVars, attempt, jobState>>
        BY <4>1 DEF TypeOK
      <4>2. CASE Retry(a)
        BY <4>2 DEF Retry, TypeOK, AttemptStates
      <4>3. ASSUME NEW s \in Reports(a, c), attempt' = [attempt EXCEPT ![a] = s],
                   JobSucceeds(ExecuteJob(a)),
                   IF s = "BLOCKED" THEN BlockNode(a[1]) ELSE SettleBranch(a[1], s)
            PROVE  <3>2!1 /\ <3>2!2 /\ <3>2!3 /\ <3>2!4 /\ <3>2!5
        <5>1. s \in {"FAILED", "BLOCKED", "SUCCEEDED", "CANCELLED"}
          BY DEF Reports
        <5>2. <3>2!1 /\ <3>2!2 /\ <3>2!3
          BY <2>0, <4>3, <5>1, BlockNodeType, SettleBranchType DEF Settled
        <5>3. <3>2!4
          BY <4>3, <5>1 DEF TypeOK, AttemptStates
        <5>4. <3>2!5
          BY <4>3 DEF TypeOK, JobSucceeds
        <5> QED BY <5>2, <5>3, <5>4
      <4> QED BY <2>4, <4>1, <4>2, <4>3 DEF FinalizeExecutionAttempt
    <3> QED BY <2>4, <3>1, <3>2 DEF FinalizeExecutionAttempt, TypeOK
  <2>5. CASE CancelExecution(a, c)
    <3>1. executor' \in [Attempts -> [1..MaxClaims ->
                        {"none", "claimed", "running", "writing", "returned"}]]
      BY <2>5, AtType DEF CancelExecution
    <3> QED BY <2>5, <3>1, CancelMutatingAttemptType DEF CancelExecution, TypeOK
  <2>6. CASE CompleteJob(a, c)
    <3>1. executor' \in [Attempts -> [1..MaxClaims ->
                        {"none", "claimed", "running", "writing", "returned"}]]
      BY <2>6, AtType DEF CompleteJob
    <3> QED BY <2>6, <3>1 DEF CompleteJob, JobSucceeds, TypeOK
  <2> QED
    BY <1>8, <2>1, <2>2, <2>3, <2>4, <2>5, <2>6 DEF ExecutorStep
<1>9. ASSUME NEW a \in Attempts, NEW c \in 1..MaxClaims, ExecutorDies(a, c) PROVE TypeOK'
  <2>1. executor' \in [Attempts -> [1..MaxClaims ->
                        {"none", "claimed", "running", "writing", "returned"}]]
    BY <1>9, AtType DEF ExecutorDies
  <2> QED BY <1>9, <2>1, EngineAssumption DEF ExecutorDies, TypeOK
<1>10. CASE CancelRun
  <2>1. jobFenced' \subseteq jobOfRun'
    BY <1>10 DEF CancelRun, ToFence, TypeOK
  <2>2. jobState' \in [Jobs -> {"ABSENT", "AVAILABLE", "LEASED", "SUCCEEDED", "DEAD", "CANCELLED"}]
    BY <1>10 DEF CancelRun, TypeOK
  <2> QED BY <1>10, <2>1, <2>2 DEF CancelRun, TypeOK, RunStates
<1>11. CASE CancelRunCoordinator
  <2>1. /\ run' \in RunStates
        /\ node' \in [Nodes -> NodeStates]
        /\ branch' \in [Branches -> {"ABSENT", "ACTIVE"} \union Settled]
        /\ attempt' \in [Attempts -> AttemptStates]
        /\ intent' \in {"NONE", "REQUESTED", "COMPLETED"}
    BY <1>11, QuiesceType DEF CancelRunCoordinator, TypeOK
  <2>2. jobState' \in [Jobs -> {"ABSENT", "AVAILABLE", "LEASED", "SUCCEEDED", "DEAD", "CANCELLED"}]
        /\ jobClaims' \in [Jobs -> 0..MaxClaims] /\ faults' \in 0..MaxFaults
        /\ jobOfRun' = jobOfRun /\ jobFenced' = jobFenced
    <3>1. Claimable(CoordinatorJob)
      BY <1>11 DEF CancelRunCoordinator
    <3>2. CASE Deliver(CoordinatorJob, {})
      BY <3>1, <3>2, DeliverType
    <3>3. CASE /\ jobState' = [jobState EXCEPT ![CoordinatorJob] =
                                 Redelivery(jobClaims[CoordinatorJob] + 1)]
               /\ jobClaims' = [jobClaims EXCEPT ![CoordinatorJob] = @ + 1]
               /\ UNCHANGED <<jobOfRun, jobFenced, faults>>
      <4>1. Redelivery(jobClaims[CoordinatorJob] + 1) \in {"DEAD", "AVAILABLE"}
        BY RedeliveryType
      <4>2. jobClaims' \in [Jobs -> 0..MaxClaims]
        BY <3>1, <3>3, EngineAssumption DEF Claimable, TypeOK
      <4> QED BY <3>3, <4>1, <4>2 DEF TypeOK
    <3> QED BY <1>11, <3>2, <3>3 DEF CancelRunCoordinator
  <2> QED BY <1>11, <2>1, <2>2 DEF CancelRunCoordinator, TypeOK
<1>12. CASE SweepStrandedIntent
  BY <1>12, QuiesceType DEF SweepStrandedIntent, TypeOK
<1>13. CASE UNCHANGED vars
  BY <1>13 DEF vars, TypeOK
<1> QED
  BY <1>1, <1>2, <1>3, <1>4, <1>5, <1>6, <1>7, <1>8, <1>9, <1>10, <1>11, <1>12, <1>13
  DEF Next

(* Only DecideRecovery decides to retry, and it looks at the policy. *)
LEMMA RetryStep ==
  ASSUME TypeInv, [Next]_vars
  PROVE  RetryWithinPolicy'
<1> USE DEF TypeInv, RetryWithinPolicy, TypeOK
<1>1. CASE UNCHANGED reaper
  BY <1>1
<1>2. ASSUME NEW a \in Attempts, ReaperStep(a) PROVE RetryWithinPolicy'
  <2>1. CASE DecideRecovery(a)
    <3>1. \/ reaper' = [reaper EXCEPT ![a] = "none"]
          \/ reaper' = [reaper EXCEPT ![a] = "retry"] /\ a[2] < MaxAttempts[a[1]]
      BY <2>1 DEF DecideRecovery, Reaping
    <3> QED BY <3>1
  <2>2. CASE ~DecideRecovery(a)
    <3>1. \E pc \in {"none", "listed", "cancel", "terminate", "decide"} :
            reaper' = [reaper EXCEPT ![a] = pc]
      BY <1>2, <2>2 DEF ReaperStep, ListOrphan, InspectOrphan, CancelOrphan,
         TerminateInterruptedAttempt, RetryOrphan, Reaping
    <3> QED BY <3>1
  <2> QED BY <2>1, <2>2
<1>3. ASSUME NEW a \in Attempts, ReaperDies(a) PROVE RetryWithinPolicy'
  BY <1>3 DEF ReaperDies, Reaping
<1>4. CASE /\ \A a \in Attempts : ~ReaperStep(a) /\ ~ReaperDies(a)
           /\ Next
  <2>1. UNCHANGED reaper
    BY <1>4 DEF Next, AdvanceRun, ScheduleNodeRun, HandlerFails, ClaimExecute,
       LeaseExpires, LeaseLost, ExecutorStep, Admit, BlockAdmission, AcquireWriteLease,
       FinalizeExecutionAttempt, CancelExecution, CompleteJob, ExecutorDies, CancelRun,
       CancelRunCoordinator, SweepStrandedIntent
  <2> QED BY <1>1, <2>1
<1> QED
  BY <1>1, <1>2, <1>3, <1>4 DEF vars

(* Every behaviour keeps the types and the reaper's budget. *)
LEMMA TypeInvariant == Spec => []TypeInv
<1>1. Init => TypeInv
  BY EngineAssumption DEF Init, TypeInv, TypeOK, RetryWithinPolicy, RunStates,
     NodeStates, AttemptStates, Settled
<1>2. TypeInv /\ [Next]_vars => TypeInv'
  BY TypeStep, RetryStep DEF TypeInv
<1> QED
  BY <1>1, <1>2, PTL DEF Spec

(* Every variable keeps its type: the rows, the jobs, the executors'        *)
(* memory and the reaper's.                                                 *)
THEOREM EngineTypeCorrect == Spec => []TypeOK
<1>1. TypeInv => TypeOK
  BY DEF TypeInv
<1> QED
  BY <1>1, TypeInvariant, PTL

------------------------------------------------------------------------------
(* What a step may do to an attempt of a run that is cancelled: it does not *)
(* start it, and does not add it after the first.                           *)
Stopped(d) ==
  /\ attempt'[d] = "RUNNING" => attempt[d] = "RUNNING"
  /\ attempt[d] = "ABSENT" /\ d[2] > 1 => attempt'[d] = "ABSENT"

(* An attempt that is over or was there before, and is not RUNNING now. *)
LEMMA StoppedByEnd ==
  ASSUME TypeOK, NEW a \in Attempts, attempt[a] # "ABSENT", NEW s, s # "RUNNING",
         attempt' = [attempt EXCEPT ![a] = s],
         NEW d \in Attempts
  PROVE  Stopped(d)
BY DEF TypeOK, Stopped

(* Every step of a cancelled run stops its attempts. *)
LEMMA CancelledStep ==
  ASSUME TypeOK, [Next]_vars, Cancelled(run), NEW d \in Attempts
  PROVE  Stopped(d)
<1> USE DEF jobVars, graphVars
<1>0. CASE UNCHANGED attempt
  BY <1>0 DEF Stopped
<1>1. ASSUME NEW b \in Branches, ScheduleNodeRun(b) PROVE Stopped(d)
  <2>1. \/ UNCHANGED attempt
        \/ attempt' = [attempt EXCEPT ![<<b, 1>>] = "QUEUED"]
    BY <1>1 DEF ScheduleNodeRun
  <2>2. ~(1 > 1)
    OBVIOUS
  <2>3. d = <<b, 1>> => ~(d[2] > 1)
    BY <2>2
  <2> QED BY <2>1, <2>3 DEF TypeOK, Stopped
<1>2. ASSUME NEW a \in Attempts, ReaperStep(a) PROVE Stopped(d)
  <2>1. CASE CancelOrphan(a)
    BY <1>0, <2>1, StoppedByEnd DEF CancelOrphan, CancelMutatingAttempt
  <2>2. CASE TerminateInterruptedAttempt(a)
    BY <1>0, <2>2, StoppedByEnd DEF TerminateInterruptedAttempt
  <2>3. CASE ~CancelOrphan(a) /\ ~TerminateInterruptedAttempt(a)
    <3>1. UNCHANGED attempt
      BY <1>2, <2>3 DEF ReaperStep, ListOrphan, InspectOrphan, DecideRecovery, RetryOrphan
    <3> QED BY <1>0, <3>1
  <2> QED BY <2>1, <2>2, <2>3
<1>3. ASSUME NEW a \in Attempts, NEW c \in 1..MaxClaims, ExecutorStep(a, c) PROVE Stopped(d)
  <2>1. CASE FinalizeExecutionAttempt(a, c)
    <3>1. ~MayRetry(a)
      BY DEF MayRetry
    <3>2. \/ UNCHANGED attempt
          \/ attempt[a] = "RUNNING" /\ \E s \in Reports(a, c) : attempt' = [attempt EXCEPT ![a] = s]
      BY <2>1, <3>1 DEF FinalizeExecutionAttempt
    <3>3. "RUNNING" \notin Reports(a, c)
      BY DEF Reports
    <3> QED BY <1>0, <3>2, <3>3, StoppedByEnd
  <2>2. CASE CancelExecution(a, c)
    BY <1>0, <2>2, StoppedByEnd DEF CancelExecution, CancelMutatingAttempt
  <2>3. CASE ~FinalizeExecutionAttempt(a, c) /\ ~CancelExecution(a, c)
    <3>1. UNCHANGED attempt
      BY <1>3, <2>3 DEF ExecutorStep, Admit, Admissible, BlockAdmission, AcquireWriteLease,
         CompleteJob
    <3> QED BY <1>0, <3>1
  <2> QED BY <2>1, <2>2, <2>3
<1>4. ASSUME Quiesce PROVE Stopped(d)
  BY <1>4 DEF Quiesce, TypeOK, Stopped
<1>5. CASE CancelRunCoordinator \/ SweepStrandedIntent
  BY <1>0, <1>4, <1>5 DEF CancelRunCoordinator, SweepStrandedIntent
<1>6. CASE /\ Next
           /\ \A b \in Branches : ~ScheduleNodeRun(b)
           /\ \A a \in Attempts : ~ReaperStep(a)
           /\ \A a \in Attempts, c \in 1..MaxClaims : ~ExecutorStep(a, c)
           /\ ~CancelRunCoordinator /\ ~SweepStrandedIntent
  <2>1. UNCHANGED attempt
    BY <1>6 DEF Next, AdvanceRun, HandlerFails, ClaimExecute, LeaseExpires, LeaseLost,
       ReaperDies, ExecutorDies, CancelRun
  <2> QED BY <1>0, <2>1
<1> QED
  BY <1>0, <1>1, <1>2, <1>3, <1>5, <1>6 DEF vars

(* Once a run is being cancelled no attempt of it is started and none is    *)
(* retried, by whichever of the executor's finalisation, the reaper's       *)
(* decision and the job's redelivery comes late.                            *)
THEOREM CancelStopsNewAttempts == Spec => CancelStopsAttempts
<1>1. TypeInv /\ [Next]_vars =>
        [Cancelled(run) =>
           \A a \in Attempts :
             /\ attempt'[a] = "RUNNING" => attempt[a] = "RUNNING"
             /\ attempt[a] = "ABSENT" /\ a[2] > 1 => attempt'[a] = "ABSENT"]_vars
  BY CancelledStep DEF TypeInv, Stopped
<1> QED
  BY <1>1, TypeInvariant, PTL DEF Spec, CancelStopsAttempts
------------------------------------------------------------------------------
(***************************************************************************)
(* One inductive invariant for the rest: what node runs, tokens, attempts, *)
(* jobs, executors and the reaper say of each other in between.            *)
(***************************************************************************)

(* A token is there with its node run and settles with it; the fork makes   *)
(* all of them at once, and the join and END come after.                    *)
GraphFits ==
  /\ \A b \in Branches :
       \/ branch[b] = "ABSENT" /\ node[b] = "ABSENT"
       \/ branch[b] = "ACTIVE" /\ node[b] \in {"PENDING", "QUEUED", "RUNNING", "BLOCKED"}
       \/ branch[b] \in Settled /\ node[b] = branch[b]
  /\ \/ /\ \A b \in Branches : branch[b] = "ABSENT"
        /\ node["JOIN"] = "ABSENT" /\ node["END"] = "ABSENT"
     \/ /\ \A b \in Branches : branch[b] # "ABSENT"
        /\ node["START"] # "RUNNING"
  /\ node["START"] \in {"RUNNING", "SUCCEEDED", "CANCELLED"}
  /\ node["JOIN"] \in {"ABSENT", "WAITING"} \union Settled
  /\ node["END"] \in {"ABSENT", "SUCCEEDED"}

(* The join's verdict, and what follows from it for END and for the run. *)
JoinFits ==
  /\ (\A b \in Branches : branch[b] \in Settled) => node["JOIN"] \in Settled
  /\ node["JOIN"] = "SUCCEEDED" =>
       /\ \A b \in Branches : branch[b] \in Settled
       /\ With(branch, "SUCCEEDED") >= Needed
  /\ node["JOIN"] = "FAILED" => With(branch, "SUCCEEDED") + With(branch, "ACTIVE") < Needed
  /\ node["END"] = "SUCCEEDED" => node["JOIN"] = "SUCCEEDED"
  /\ run = "VERIFYING" => node["END"] = "SUCCEEDED"

(* A run that is over has no node run under way. *)
OverIsStill == run \in {"CANCELLED", "VERIFYING", "FAILED"} => \A n \in Nodes : node[n] \notin Live

(* The attempts of a node run come one after the other, from when it is     *)
(* scheduled on, and one that succeeded is what its node run succeeded by.  *)
AttemptsFit ==
  /\ OneLiveAttempt
  /\ \A a \in Attempts : node[a[1]] \in {"ABSENT", "PENDING"} => attempt[a] = "ABSENT"
  /\ \A a \in Attempts : attempt[a] = "SUCCEEDED" => node[a[1]] = "SUCCEEDED"
  /\ \A a, d \in Attempts :
       attempt[a] = "SUCCEEDED" /\ attempt[d] = "SUCCEEDED" /\ a[1] = d[1] => a = d
  /\ \A b \in Branches :
       node[b] = "SUCCEEDED" => \E a \in Attempts : a[1] = b /\ attempt[a] = "SUCCEEDED"

(* The reaper works on attempts that were started, and goes on to the next  *)
(* attempt of one that is over and was the last; an orphan is not held.     *)
ReaperFits ==
  /\ \A a \in Attempts : reaper[a] # "none" => attempt[a] \notin {"ABSENT", "QUEUED"}
  /\ \A a \in Attempts : reaper[a] \in {"decide", "retry"} =>
       /\ attempt[a] # "RUNNING"
       /\ \A d \in Attempts : d[1] = a[1] /\ d[2] > a[2] => attempt[d] = "ABSENT"

(* An executor knows of an attempt that it is there, and is at work, or has *)
(* returned without being turned away by a cancellation, only when the      *)
(* attempt was started.                                                     *)
ExecutorsFit ==
  \A a \in Attempts, c \in 1..MaxClaims :
    /\ attempt[a] = "ABSENT" => executor[a][c] = "none"
    /\ attempt[a] = "QUEUED" => executor[a][c] \notin {"running", "writing"}
    /\ attempt[a] = "QUEUED" /\ executor[a][c] = "returned" => Cancelled(run)

(* An attempt and its job are there together; a job that waits has claims   *)
(* left, and the job of a QUEUED attempt is over only by its claims or by   *)
(* the run's cancellation.                                                  *)
JobsFit ==
  /\ ~Cancelled(run) => jobFenced = {}
  /\ \A a \in Attempts :
       LET j == ExecuteJob(a) IN
       /\ jobState[j] = "ABSENT" <=> attempt[a] = "ABSENT"
       /\ jobState[j] = "ABSENT" => jobClaims[j] = 0
       /\ jobState[j] = "AVAILABLE" => jobClaims[j] < MaxClaims
       /\ attempt[a] = "QUEUED" /\ jobState[j] \in {"SUCCEEDED", "CANCELLED"} => Cancelled(run)

IInv ==
  /\ TypeInv /\ GraphFits /\ JoinFits /\ OverIsStill /\ AttemptsFit
  /\ ReaperFits /\ OrphanIsNeverHeld /\ ExecutorsFit /\ JobsFit

------------------------------------------------------------------------------
(* Counting tokens. *)

LEMMA WithNat ==
  ASSUME NEW tokens, NEW s
  PROVE  With(tokens, s) \in Nat /\ (With(tokens, s) = 0 <=> \A b \in Branches : tokens[b] # s)
<1> DEFINE S == {b \in Branches : tokens[b] = s}
<1>1. IsFiniteSet(S)
  BY EngineAssumption, FS_Subset
<1>2. Cardinality(S) \in Nat /\ (Cardinality(S) = 0 <=> S = {})
  BY <1>1, FS_CardinalityType, FS_EmptySet
<1> QED
  BY <1>2 DEF With

(* Tokens that succeeded or still may, counted together. *)
Usable(tokens) == {b \in Branches : tokens[b] \in {"SUCCEEDED", "ACTIVE"}}

LEMMA UsableCount ==
  ASSUME NEW tokens
  PROVE  /\ IsFiniteSet(Usable(tokens))
         /\ With(tokens, "SUCCEEDED") + With(tokens, "ACTIVE") = Cardinality(Usable(tokens))
<1> DEFINE S == {b \in Branches : tokens[b] = "SUCCEEDED"}
           A == {b \in Branches : tokens[b] = "ACTIVE"}
<1>1. IsFiniteSet(S) /\ IsFiniteSet(A) /\ IsFiniteSet(Usable(tokens))
  BY EngineAssumption, FS_Subset DEF Usable
<1>2. Usable(tokens) = S \union A /\ S \intersect A = {}
  BY DEF Usable
<1>3. Cardinality(S \union A) = Cardinality(S) + Cardinality(A) - Cardinality(S \intersect A)
  BY <1>1, FS_Union
<1>4. Cardinality({}) = 0 /\ Cardinality(S) \in Nat /\ Cardinality(A) \in Nat
  BY <1>1, FS_EmptySet, FS_CardinalityType
<1>5. With(tokens, "SUCCEEDED") = Cardinality(S) /\ With(tokens, "ACTIVE") = Cardinality(A)
  BY DEF With
<1> HIDE DEF S, A
<1>6. Cardinality(S \intersect A) = 0 /\ Cardinality(Usable(tokens)) = Cardinality(S \union A)
  BY <1>2, <1>4, Zenon
<1>7. Cardinality(Usable(tokens)) = Cardinality(S) + Cardinality(A)
  BY <1>3, <1>4, <1>6
<1> QED
  BY <1>1, <1>5, <1>7

(* They get fewer as branches settle. *)
LEMMA UsableShrinks ==
  ASSUME NEW tokens, NEW later, Usable(later) \subseteq Usable(tokens)
  PROVE  With(later, "SUCCEEDED") + With(later, "ACTIVE")
           <= With(tokens, "SUCCEEDED") + With(tokens, "ACTIVE")
<1>1. Usable(later) \in SUBSET Usable(tokens)
  OBVIOUS
<1>2. Cardinality(Usable(later)) <= Cardinality(Usable(tokens))
  BY <1>1, UsableCount, FS_Subset
<1> QED
  BY <1>2, UsableCount

LEMMA NeededNat == Needed \in Nat
BY EngineAssumption, FS_CardinalityType DEF Needed

(* The operators, mode by mode. *)
LEMMA Modes ==
  /\ JoinMode = "ALL" \/ JoinMode = "ANY" \/ JoinMode = "QUORUM"
  /\ JoinMode = "ALL" =>
       /\ Needed = Cardinality(Branches)
       /\ \A t : Infeasible(t) <=> With(t, "FAILED") + With(t, "CANCELLED") > 0
  /\ JoinMode = "ANY" =>
       /\ Needed = 1
       /\ \A t : Infeasible(t) <=> With(t, "SUCCEEDED") + With(t, "ACTIVE") = 0
  /\ JoinMode = "QUORUM" =>
       /\ Needed = QuorumCount /\ QuorumCount \in Nat
       /\ \A t : Infeasible(t) <=> With(t, "SUCCEEDED") + With(t, "ACTIVE") < QuorumCount
<1>1. JoinMode = "ALL" \/ JoinMode = "ANY" \/ JoinMode = "QUORUM"
  BY EngineAssumption
<1>2. CASE JoinMode = "ALL"
  BY <1>2 DEF Needed, Infeasible
<1>3. CASE JoinMode = "ANY"
  BY <1>3 DEF Needed, Infeasible
<1>4. CASE JoinMode = "QUORUM"
  BY <1>4, EngineAssumption DEF Needed, Infeasible
<1> QED
  BY <1>1, <1>2, <1>3, <1>4

LEMMA SatisfiedMeans ==
  ASSUME NEW tokens
  PROVE  Satisfied(tokens) <=>
           With(tokens, "ACTIVE") = 0 /\
             \/ JoinMode = "ALL" /\ With(tokens, "SUCCEEDED") = Needed
             \/ JoinMode # "ALL" /\ With(tokens, "SUCCEEDED") >= Needed
<1>1. CASE JoinMode = "ALL"
  BY <1>1, Modes DEF Satisfied
<1>2. CASE JoinMode = "ANY"
  BY <1>2, Modes DEF Satisfied
<1>3. CASE JoinMode = "QUORUM"
  BY <1>3, Modes DEF Satisfied
<1> QED
  BY <1>1, <1>2, <1>3, Modes

(* What evaluateJoinTx decides by is what the verdict means. *)
LEMMA VerdictsMean ==
  ASSUME NEW tokens
  PROVE  /\ Infeasible(tokens) => With(tokens, "SUCCEEDED") + With(tokens, "ACTIVE") < Needed
         /\ Satisfied(tokens) => /\ \A b \in Branches : tokens[b] # "ACTIVE"
                                 /\ With(tokens, "SUCCEEDED") >= Needed
<1>1. \A s : With(tokens, s) \in Nat /\ (With(tokens, s) = 0 <=> \A b \in Branches : tokens[b] # s)
  BY WithNat
<1>2. Satisfied(tokens) => /\ \A b \in Branches : tokens[b] # "ACTIVE"
                           /\ With(tokens, "SUCCEEDED") >= Needed
  BY <1>1, SatisfiedMeans, NeededNat
<1>3. ASSUME Infeasible(tokens)
      PROVE  With(tokens, "SUCCEEDED") + With(tokens, "ACTIVE") < Needed
  <2>1. CASE JoinMode = "ALL"
    <3>1. PICK b \in Branches : tokens[b] \in {"FAILED", "CANCELLED"}
      BY <1>1, <1>3, <2>1 DEF Infeasible
    <3>2. Usable(tokens) \in SUBSET Branches /\ Usable(tokens) # Branches
      BY <3>1 DEF Usable
    <3>3. /\ Cardinality(Usable(tokens)) <= Cardinality(Branches)
          /\ Cardinality(Usable(tokens)) # Cardinality(Branches)
      BY <3>2, FS_Subset, EngineAssumption
    <3>4. Cardinality(Usable(tokens)) \in Nat /\ Cardinality(Branches) \in Nat
      BY UsableCount, FS_CardinalityType, EngineAssumption
    <3> QED BY <2>1, <3>3, <3>4, UsableCount DEF Needed
  <2>2. CASE JoinMode \in {"ANY", "QUORUM"}
    BY <1>1, <1>3, <2>2, Modes
  <2> QED BY <2>1, <2>2, Modes
<1> QED
  BY <1>2, <1>3

(* When every branch settled the join is decided one way or the other. *)
LEMMA SettledDecides ==
  ASSUME NEW tokens, \A b \in Branches : tokens[b] \in Settled
  PROVE  Infeasible(tokens) \/ Satisfied(tokens)
<1>1. \A s : With(tokens, s) \in Nat /\ (With(tokens, s) = 0 <=> \A b \in Branches : tokens[b] # s)
  BY WithNat
<1>2. With(tokens, "ACTIVE") = 0
  BY <1>1 DEF Settled
<1>3. CASE JoinMode = "ALL"
  <2>1. CASE \E b \in Branches : tokens[b] # "SUCCEEDED"
    <3>1. With(tokens, "FAILED") # 0 \/ With(tokens, "CANCELLED") # 0
      BY <1>1, <2>1 DEF Settled
    <3>2. With(tokens, "FAILED") + With(tokens, "CANCELLED") > 0
      BY <1>1, <3>1
    <3> QED BY <1>3, <3>2 DEF Infeasible
  <2>2. CASE \A b \in Branches : tokens[b] = "SUCCEEDED"
    <3>1. {b \in Branches : tokens[b] = "SUCCEEDED"} = Branches
      BY <2>2
    <3>2. With(tokens, "SUCCEEDED") = Cardinality(Branches)
      BY <3>1 DEF With
    <3> QED BY <1>2, <1>3, <3>2 DEF Satisfied
  <2> QED BY <2>1, <2>2
<1>4. CASE JoinMode \in {"ANY", "QUORUM"}
  <2>1. With(tokens, "SUCCEEDED") \in Nat
    BY <1>1
  <2>2. With(tokens, "SUCCEEDED") + With(tokens, "ACTIVE") = With(tokens, "SUCCEEDED")
    BY <1>2, <2>1
  <2> QED BY <1>2, <1>4, <2>1, <2>2, Modes, SatisfiedMeans
<1> QED
  BY <1>3, <1>4, Modes

(* evaluateJoinTx, as the join, END and the other node runs see it. *)
LEMMA JoinEvaluated ==
  ASSUME NEW nodes \in [Nodes -> NodeStates], NEW tokens
  PROVE  LET after == EvaluateJoin(nodes, tokens) IN
         /\ after \in [Nodes -> NodeStates]
         /\ \A n \in Nodes \ {"JOIN", "END"} : after[n] = nodes[n]
         /\ nodes["JOIN"] \notin {"ABSENT", "WAITING"} => after = nodes
         /\ nodes["JOIN"] \in {"ABSENT", "WAITING"} =>
              \/ Infeasible(tokens) /\ after["JOIN"] = "FAILED" /\ after["END"] = nodes["END"]
              \/ /\ ~Infeasible(tokens) /\ ~Satisfied(tokens)
                 /\ after["JOIN"] = "WAITING" /\ after["END"] = nodes["END"]
              \/ Satisfied(tokens) /\ after["JOIN"] = "SUCCEEDED" /\ after["END"] \in {nodes["END"], "SUCCEEDED"}
<1> DEFINE after == EvaluateJoin(nodes, tokens)
<1>1. "JOIN" \in Nodes /\ "END" \in Nodes /\ "JOIN" # "END"
  BY DEF Nodes
<1>2. after \in [Nodes -> NodeStates]
  BY EvaluateJoinType
<1>3. CASE nodes["JOIN"] \notin {"ABSENT", "WAITING"}
  BY <1>2, <1>3 DEF EvaluateJoin
<1>4. CASE nodes["JOIN"] \in {"ABSENT", "WAITING"} /\ Infeasible(tokens)
  <2>1. after = [nodes EXCEPT !["JOIN"] = "FAILED"]
    BY <1>4 DEF EvaluateJoin
  <2> QED BY <1>1, <1>2, <1>4, <2>1
<1>5. CASE nodes["JOIN"] \in {"ABSENT", "WAITING"} /\ ~Infeasible(tokens) /\ ~Satisfied(tokens)
  <2>1. after = [nodes EXCEPT !["JOIN"] = "WAITING"]
    BY <1>5 DEF EvaluateJoin
  <2> QED BY <1>1, <1>2, <1>5, <2>1
<1>6. CASE nodes["JOIN"] \in {"ABSENT", "WAITING"} /\ ~Infeasible(tokens) /\ Satisfied(tokens)
  <2>1. \/ after = [nodes EXCEPT !["JOIN"] = "SUCCEEDED"]
        \/ after = [nodes EXCEPT !["JOIN"] = "SUCCEEDED", !["END"] = "SUCCEEDED"]
    BY <1>6 DEF EvaluateJoin
  <2> QED BY <1>1, <1>2, <1>6, <2>1
<1> QED
  BY <1>3, <1>4, <1>5, <1>6

------------------------------------------------------------------------------
(* The graph. *)

LEMMA SomeNodes ==
  /\ {"START", "JOIN", "END"} \subseteq Nodes /\ Branches \subseteq Nodes
  /\ "START" \notin Branches /\ "JOIN" \notin Branches /\ "END" \notin Branches
  /\ \A n \in Nodes : n \in Branches \/ n = "START" \/ n = "JOIN" \/ n = "END"
BY EngineAssumption DEF Nodes

LEMMA AttemptParts ==
  \A a \in Attempts : /\ a = <<a[1], a[2]>> /\ a[1] \in Branches
                      /\ a[2] \in Nat \ {0} /\ a[2] <= MaxAttempts[a[1]]
<1> SUFFICES ASSUME NEW a \in Attempts
             PROVE  /\ a = <<a[1], a[2]>> /\ a[1] \in Branches
                    /\ a[2] \in Nat \ {0} /\ a[2] <= MaxAttempts[a[1]]
  OBVIOUS
<1>1. PICK b \in Branches : a \in {b} \X (1..MaxAttempts[b])
  BY DEF Attempts
<1> QED
  BY <1>1, EngineAssumption

(* reconcileRunTerminalityTx: what a new state of the run means. *)
LEMMA ReconciledMeans ==
  ASSUME run \in RunStates, NEW nodes
  PROVE  LET r == Reconciled(nodes) IN
         /\ r # run => \A n \in Nodes : nodes[n] \notin Live
         /\ r = "VERIFYING" => run = "VERIFYING" \/ nodes["END"] = "SUCCEEDED"
         /\ Cancelled(r) <=> Cancelled(run)
BY DEF Reconciled, RunStates, Cancelled

GraphInv == TypeOK /\ GraphFits /\ JoinFits /\ OverIsStill

(* The run reconciled over the new node runs, when it was not over before. *)
LEMMA StillAfter ==
  ASSUME TypeOK, run \notin {"CANCELLED", "VERIFYING", "FAILED"}, run' = Reconciled(node')
  PROVE  OverIsStill'
<1>1. run' # run => \A n \in Nodes : node'[n] \notin Live
  BY ReconciledMeans DEF TypeOK
<1> QED
  BY <1>1 DEF OverIsStill

(* The join's part of it, when it is evaluated over tokens that settled: it *)
(* was not decided as a success, for a token was under way.                 *)
LEMMA JoinStep ==
  ASSUME GraphInv,
         NEW before \in [Nodes -> NodeStates],
         before["JOIN"] = node["JOIN"] \/ before["JOIN"] \in {"WAITING", "CANCELLED"},
         before["END"] = node["END"],
         Usable(branch') \subseteq Usable(branch),
         \A b \in Branches : branch'[b] # "ABSENT",
         \A b \in Branches : branch'[b] \in {"ACTIVE"} \union Settled,
         node["JOIN"] # "SUCCEEDED",
         node' = EvaluateJoin(before, branch'),
         run' = Reconciled(node')
  PROVE  /\ JoinFits'
         /\ node'["JOIN"] \in {"WAITING"} \union Settled
         /\ node'["END"] \in {"ABSENT", "SUCCEEDED"}
<1>0. /\ node["END"] = "ABSENT" /\ run # "VERIFYING" /\ run \in RunStates
      /\ node["JOIN"] \in {"ABSENT", "WAITING"} \union Settled
  BY DEF GraphInv, GraphFits, JoinFits, TypeOK
<1>1. run' = "VERIFYING" => node'["END"] = "SUCCEEDED"
  BY <1>0, ReconciledMeans
<1>2. /\ before["JOIN"] \notin {"ABSENT", "WAITING"} => node' = before
      /\ before["JOIN"] \in {"ABSENT", "WAITING"} =>
              \/ Infeasible(branch') /\ node'["JOIN"] = "FAILED" /\ node'["END"] = "ABSENT"
              \/ /\ ~Infeasible(branch') /\ ~Satisfied(branch')
                 /\ node'["JOIN"] = "WAITING" /\ node'["END"] = "ABSENT"
              \/ Satisfied(branch') /\ node'["JOIN"] = "SUCCEEDED" /\ node'["END"] \in {"ABSENT", "SUCCEEDED"}
  BY <1>0, JoinEvaluated
<1>3. CASE before["JOIN"] \notin {"ABSENT", "WAITING"}
  <2>1. node'["JOIN"] \in {"FAILED", "CANCELLED"} /\ node'["END"] = "ABSENT"
    BY <1>0, <1>2, <1>3 DEF Settled
  <2>2. node'["JOIN"] = "FAILED" => node["JOIN"] = "FAILED"
    BY <1>2, <1>3
  <2>3. With(branch', "SUCCEEDED") + With(branch', "ACTIVE")
           <= With(branch, "SUCCEEDED") + With(branch, "ACTIVE")
    BY UsableShrinks
  <2>4. node'["JOIN"] = "FAILED" => With(branch', "SUCCEEDED") + With(branch', "ACTIVE") < Needed
    BY <2>2, <2>3, WithNat, NeededNat DEF GraphInv, JoinFits
  <2> QED BY <1>1, <2>1, <2>4 DEF JoinFits, Settled
<1>4. CASE Infeasible(branch') /\ node'["JOIN"] = "FAILED" /\ node'["END"] = "ABSENT"
  BY <1>1, <1>4, VerdictsMean DEF JoinFits, Settled
<1>5. CASE /\ ~Infeasible(branch') /\ ~Satisfied(branch')
           /\ node'["JOIN"] = "WAITING" /\ node'["END"] = "ABSENT"
  <2>1. ~ \A b \in Branches : branch'[b] \in Settled
    BY <1>5, SettledDecides
  <2> QED BY <1>1, <1>5, <2>1 DEF JoinFits
<1>6. CASE Satisfied(branch') /\ node'["JOIN"] = "SUCCEEDED" /\ node'["END"] \in {"ABSENT", "SUCCEEDED"}
  BY <1>1, <1>6, VerdictsMean DEF JoinFits, Settled
<1> QED
  BY <1>2, <1>3, <1>4, <1>5, <1>6

(* A RUNNING node run settles with its token. *)
LEMMA SettleFits ==
  ASSUME GraphInv, TypeOK', NEW b \in Branches, node[b] = "RUNNING", NEW s \in Settled,
         SettleBranch(b, s)
  PROVE  /\ GraphFits' /\ JoinFits' /\ OverIsStill'
         /\ node'[b] = s /\ \A d \in Branches \ {b} : node'[d] = node[d]
         /\ Cancelled(run') <=> Cancelled(run)
<1> DEFINE before == [node EXCEPT ![b] = s]
<1> USE SomeNodes
<1>1. /\ branch' = [branch EXCEPT ![b] = s]
      /\ node' = EvaluateJoin(before, branch')
      /\ run' = Reconciled(node')
  BY DEF SettleBranch
<1>2. before \in [Nodes -> NodeStates] /\ before[b] = s /\ before["JOIN"] = node["JOIN"]
      /\ before["END"] = node["END"] /\ before["START"] = node["START"]
      /\ \A d \in Branches \ {b} : before[d] = node[d]
  BY DEF GraphInv, TypeOK, Settled, NodeStates
<1>3. /\ branch[b] = "ACTIVE" /\ node["START"] # "RUNNING"
      /\ \A d \in Branches : branch[d] # "ABSENT"
      /\ node["JOIN"] # "SUCCEEDED"
      /\ run \notin {"CANCELLED", "VERIFYING", "FAILED"}
  BY DEF GraphInv, GraphFits, JoinFits, OverIsStill, Settled, Live
<1>4. /\ branch' \in [Branches -> {"ACTIVE"} \union Settled]
      /\ \A d \in Branches : branch'[d] # "ABSENT"
      /\ Usable(branch') \subseteq Usable(branch)
  BY <1>1, <1>3 DEF GraphInv, TypeOK, Settled, Usable
<1>5. \A n \in Nodes \ {"JOIN", "END"} : node'[n] = before[n]
  <2> HIDE DEF before
  <2> QED BY <1>1, <1>2, JoinEvaluated
<1>6. /\ JoinFits' /\ node'["JOIN"] \in {"WAITING"} \union Settled
      /\ node'["END"] \in {"ABSENT", "SUCCEEDED"}
  <2> HIDE DEF before
  <2> QED BY <1>1, <1>2, <1>3, <1>4, JoinStep
<1>7. OverIsStill' /\ (Cancelled(run') <=> Cancelled(run))
  BY <1>1, <1>3, StillAfter, ReconciledMeans DEF GraphInv, TypeOK
<1>8. node'[b] = s /\ (\A d \in Branches \ {b} : node'[d] = node[d]) /\ node'["START"] = node["START"]
  BY <1>2, <1>5
<1>9. GraphFits'
  <2>1. \A d \in Branches \ {b} : branch'[d] = branch[d]
    BY <1>1 DEF GraphInv, TypeOK
  <2>2. branch'[b] = s
    BY <1>1 DEF GraphInv, TypeOK
  <2>3. \A d \in Branches :
          \/ branch'[d] = "ABSENT" /\ node'[d] = "ABSENT"
          \/ branch'[d] = "ACTIVE" /\ node'[d] \in {"PENDING", "QUEUED", "RUNNING", "BLOCKED"}
          \/ branch'[d] \in Settled /\ node'[d] = branch'[d]
    BY <1>8, <2>1, <2>2 DEF GraphInv, GraphFits
  <2>4. node'["START"] \in {"RUNNING", "SUCCEEDED", "CANCELLED"} /\ node'["START"] # "RUNNING"
    BY <1>3, <1>8 DEF GraphInv, GraphFits
  <2> QED BY <1>4, <1>6, <2>3, <2>4 DEF GraphFits
<1> QED
  BY <1>6, <1>7, <1>8, <1>9

(* A node run that is under way is blocked; its token stays. *)
LEMMA BlockFits ==
  ASSUME GraphInv, TypeOK', NEW b \in Branches, node[b] \in {"QUEUED", "RUNNING"}, BlockNode(b)
  PROVE  /\ GraphFits' /\ JoinFits' /\ OverIsStill'
         /\ node'[b] = "BLOCKED" /\ \A d \in Branches \ {b} : node'[d] = node[d]
         /\ Cancelled(run') <=> Cancelled(run)
<1> USE SomeNodes
<1>1. node' = [node EXCEPT ![b] = "BLOCKED"] /\ run' = Reconciled(node') /\ branch' = branch
  BY DEF BlockNode
<1>2. /\ node'[b] = "BLOCKED" /\ \A n \in Nodes \ {b} : node'[n] = node[n]
  BY <1>1 DEF GraphInv, TypeOK
<1>3. run \notin {"CANCELLED", "VERIFYING", "FAILED"}
  BY DEF GraphInv, OverIsStill, Live
<1>4. OverIsStill' /\ (Cancelled(run') <=> Cancelled(run))
      /\ (run' = "VERIFYING" => node'["END"] = "SUCCEEDED")
  BY <1>1, <1>3, StillAfter, ReconciledMeans DEF GraphInv, TypeOK
<1>5. GraphFits'
  BY <1>1, <1>2 DEF GraphInv, GraphFits, Settled
<1>6. JoinFits'
  BY <1>1, <1>2, <1>4 DEF GraphInv, JoinFits
<1> QED
  BY <1>2, <1>4, <1>5, <1>6

(* The coordinator's sweep. *)
LEMMA QuiesceFits ==
  ASSUME GraphInv, TypeOK', run = "CANCELLING", Quiesce
  PROVE  /\ GraphFits' /\ JoinFits' /\ OverIsStill'
         /\ \A b \in Branches : node'[b] = IF b \in ToCancel THEN "CANCELLED" ELSE node[b]
         /\ Cancelled(run')
<1> DEFINE cancelled == [n \in Nodes |-> IF n \in ToCancel THEN "CANCELLED" ELSE node[n]]
           tokens == [b \in Branches |-> IF b \in ToCancel THEN "CANCELLED" ELSE branch[b]]
           waiting == [cancelled EXCEPT !["JOIN"] = "WAITING"]
<1> USE SomeNodes
<1>1. /\ branch' = tokens /\ run' = Reconciled(node')
      /\ \/ tokens = branch /\ node' = cancelled
         \/ tokens # branch /\ node' = EvaluateJoin(cancelled, branch')
         \/ node["JOIN"] = "WAITING" /\ node' = EvaluateJoin(waiting, branch')
  BY DEF Quiesce
<1>2. /\ node["JOIN"] \in {"ABSENT", "WAITING"} \union Settled
      /\ node["START"] \in {"RUNNING", "SUCCEEDED", "CANCELLED"}
      /\ node["END"] \in {"ABSENT", "SUCCEEDED"} /\ run # "VERIFYING"
  BY DEF GraphInv, GraphFits
<1>3. /\ "END" \notin ToCancel
      /\ "JOIN" \in ToCancel => node["JOIN"] = "WAITING"
      /\ \A b \in Branches : b \in ToCancel => branch[b] = "ACTIVE"
  BY <1>2 DEF ToCancel, GraphInv, GraphFits, Settled
<1>4. /\ cancelled \in [Nodes -> NodeStates] /\ waiting \in [Nodes -> NodeStates]
      /\ cancelled["END"] = node["END"] /\ waiting["END"] = node["END"]
      /\ cancelled["JOIN"] = node["JOIN"] \/ (node["JOIN"] = "WAITING" /\ cancelled["JOIN"] = "CANCELLED")
      /\ waiting["JOIN"] = "WAITING"
      /\ \A n \in Nodes \ {"JOIN"} : waiting[n] = cancelled[n]
      /\ \A n \in Nodes : cancelled[n] = IF n \in ToCancel THEN "CANCELLED" ELSE node[n]
  <2>1. cancelled \in [Nodes -> NodeStates]
    BY DEF GraphInv, TypeOK, NodeStates
  <2>2. \A n \in Nodes : cancelled[n] = IF n \in ToCancel THEN "CANCELLED" ELSE node[n]
    OBVIOUS
  <2> HIDE DEF cancelled
  <2>3. waiting \in [Nodes -> NodeStates] /\ waiting["JOIN"] = "WAITING"
        /\ \A n \in Nodes \ {"JOIN"} : waiting[n] = cancelled[n]
    BY <2>1 DEF NodeStates
  <2> HIDE DEF waiting
  <2> QED BY <1>3, <2>1, <2>2, <2>3
<1>5. /\ \A b \in Branches : branch'[b] = IF b \in ToCancel THEN "CANCELLED" ELSE branch[b]
      /\ Usable(branch') \subseteq Usable(branch)
  BY <1>1 DEF Usable
<1>6. \A n \in Nodes \ {"JOIN", "END"} : node'[n] = cancelled[n]
  <2> HIDE DEF cancelled, waiting, tokens
  <2> QED BY <1>1, <1>4, JoinEvaluated
<1>7. OverIsStill' /\ Cancelled(run') /\ (run' = "VERIFYING" => node'["END"] = "SUCCEEDED")
  BY <1>1, StillAfter, ReconciledMeans DEF GraphInv, TypeOK, Cancelled
<1>8. ASSUME tokens # branch \/ node["JOIN"] = "WAITING"
      PROVE  /\ \A b \in Branches : branch[b] # "ABSENT" /\ branch'[b] \in {"ACTIVE"} \union Settled
             /\ node["JOIN"] # "SUCCEEDED" /\ node["START"] # "RUNNING"
  <2>1. CASE tokens # branch
    <3>1. PICK b \in Branches : b \in ToCancel
      BY <2>1 DEF GraphInv, TypeOK
    <3>2. branch[b] = "ACTIVE"
      BY <3>1, <1>3
    <3>3. node["JOIN"] # "SUCCEEDED" /\ node["START"] # "RUNNING" /\ \A d \in Branches : branch[d] # "ABSENT"
      BY <3>2 DEF GraphInv, GraphFits, JoinFits, Settled
    <3> QED BY <3>3, <1>5 DEF GraphInv, TypeOK, Settled
  <2>2. CASE node["JOIN"] = "WAITING"
    <3>1. node["START"] # "RUNNING" /\ \A d \in Branches : branch[d] # "ABSENT"
      BY <2>2 DEF GraphInv, GraphFits
    <3> QED BY <2>2, <3>1, <1>5 DEF GraphInv, TypeOK, Settled
  <2> QED BY <1>8, <2>1, <2>2
<1>9. /\ JoinFits' /\ node'["JOIN"] \in {"ABSENT", "WAITING"} \union Settled
      /\ node'["END"] \in {"ABSENT", "SUCCEEDED"}
      /\ (\A b \in Branches : branch[b] = "ABSENT") => node'["JOIN"] = node["JOIN"] /\ node'["END"] = node["END"]
  <2>1. CASE tokens = branch /\ node' = cancelled
    <3>1. \A b \in Branches : branch'[b] = branch[b]
      BY <1>1, <2>1
    <3>2. branch' = branch
      BY <1>1, <2>1
    <3>3. node'["END"] = node["END"] /\ (node'["JOIN"] = node["JOIN"] \/ (node["JOIN"] = "WAITING" /\ node'["JOIN"] = "CANCELLED"))
      BY <1>4, <2>1
    <3>4. JoinFits'
      BY <1>7, <3>2, <3>3 DEF GraphInv, JoinFits, Settled
    <3>5. (\A b \in Branches : branch[b] = "ABSENT") => node["JOIN"] # "WAITING"
      BY EngineAssumption DEF GraphInv, GraphFits
    <3> QED BY <1>2, <3>3, <3>4, <3>5 DEF Settled
  <2>2. CASE tokens # branch /\ node' = EvaluateJoin(cancelled, branch')
    <3>1. /\ \A b \in Branches : branch[b] # "ABSENT" /\ branch'[b] \in {"ACTIVE"} \union Settled
          /\ node["JOIN"] # "SUCCEEDED"
      BY <1>8, <2>2
    <3>2. \A b \in Branches : branch'[b] # "ABSENT"
      BY <3>1 DEF Settled
    <3> HIDE DEF cancelled, tokens, waiting
    <3>3. JoinFits' /\ node'["JOIN"] \in {"WAITING"} \union Settled /\ node'["END"] \in {"ABSENT", "SUCCEEDED"}
      BY <1>1, <1>4, <1>5, <2>2, <3>1, <3>2, JoinStep
    <3> QED BY <3>1, <3>3, EngineAssumption
  <2>3. CASE node["JOIN"] = "WAITING" /\ node' = EvaluateJoin(waiting, branch')
    <3>1. /\ \A b \in Branches : branch[b] # "ABSENT" /\ branch'[b] \in {"ACTIVE"} \union Settled
          /\ node["JOIN"] # "SUCCEEDED"
      BY <1>8, <2>3
    <3>2. \A b \in Branches : branch'[b] # "ABSENT"
      BY <3>1 DEF Settled
    <3> HIDE DEF cancelled, tokens, waiting
    <3>3. JoinFits' /\ node'["JOIN"] \in {"WAITING"} \union Settled /\ node'["END"] \in {"ABSENT", "SUCCEEDED"}
      BY <1>1, <1>4, <1>5, <2>3, <3>1, <3>2, JoinStep
    <3> QED BY <3>1, <3>3, EngineAssumption
  <2> QED BY <1>1, <2>1, <2>2, <2>3
<1>10. \A b \in Branches : node'[b] = IF b \in ToCancel THEN "CANCELLED" ELSE node[b]
  BY <1>4, <1>6
<1>11. GraphFits'
  <2>1. \A d \in Branches :
          \/ branch'[d] = "ABSENT" /\ node'[d] = "ABSENT"
          \/ branch'[d] = "ACTIVE" /\ node'[d] \in {"PENDING", "QUEUED", "RUNNING", "BLOCKED"}
          \/ branch'[d] \in Settled /\ node'[d] = branch'[d]
    BY <1>5, <1>10 DEF GraphInv, GraphFits, Settled
  <2>2. node'["START"] = IF "START" \in ToCancel THEN "CANCELLED" ELSE node["START"]
    BY <1>4, <1>6
  <2>3. \/ (\A b \in Branches : branch'[b] = "ABSENT") /\ node'["JOIN"] = "ABSENT" /\ node'["END"] = "ABSENT"
        \/ (\A b \in Branches : branch'[b] # "ABSENT") /\ node'["START"] # "RUNNING"
    <3>1. CASE (\A b \in Branches : branch[b] = "ABSENT") /\ node["JOIN"] = "ABSENT" /\ node["END"] = "ABSENT"
      BY <1>3, <1>5, <1>9, <3>1
    <3>2. CASE (\A b \in Branches : branch[b] # "ABSENT") /\ node["START"] # "RUNNING"
      BY <1>5, <2>2, <3>2
    <3> QED BY <3>1, <3>2 DEF GraphInv, GraphFits
  <2> QED BY <1>2, <1>9, <2>1, <2>2, <2>3 DEF GraphFits
<1> QED
  BY <1>7, <1>9, <1>10, <1>11

(* The graph as it was. *)
LEMMA GraphKeeps ==
  ASSUME GraphInv, UNCHANGED graphVars
  PROVE  GraphFits' /\ JoinFits' /\ OverIsStill'
BY DEF graphVars, GraphInv, GraphFits, JoinFits, OverIsStill

------------------------------------------------------------------------------
(* The attempts. *)

Over(s) == s \in AttemptStates \ {"ABSENT", "QUEUED", "RUNNING"}

LEMMA LiveIsLast ==
  ASSUME AttemptsFit, NEW a \in Attempts, attempt[a] \in {"QUEUED", "RUNNING"}
  PROVE  /\ \A d \in Attempts : d[1] = a[1] /\ d[2] > a[2] => attempt[d] = "ABSENT"
         /\ \A d \in Attempts : d[1] = a[1] /\ attempt[d] \in {"QUEUED", "RUNNING"} => d = a
         /\ node[a[1]] = "RUNNING" \/ (node[a[1]] = "QUEUED" /\ attempt[a] = "QUEUED")
<1>1. \A d \in Attempts : attempt[d] \in {"QUEUED", "RUNNING"} =>
        /\ \A e \in Attempts : e[1] = d[1] /\ e[2] > d[2] => attempt[e] = "ABSENT"
        /\ node[d[1]] = "RUNNING" \/ (node[d[1]] = "QUEUED" /\ attempt[d] = "QUEUED")
  BY AttemptParts DEF AttemptsFit, OneLiveAttempt, LiveAttempts, AttemptsOf
<1>2. ASSUME NEW d \in Attempts, d[1] = a[1], attempt[d] \in {"QUEUED", "RUNNING"}
      PROVE  d = a
  <2>1. ~(d[2] > a[2]) /\ ~(a[2] > d[2])
    BY <1>1, <1>2
  <2>2. d[2] = a[2]
    BY <2>1, AttemptParts
  <2> QED BY <1>2, <2>2, AttemptParts
<1> QED
  BY <1>1, <1>2

(* The same, to be shown of the next state. *)
LEMMA LiveAreLast ==
  ASSUME \A a \in Attempts : attempt'[a] \in {"QUEUED", "RUNNING"} =>
           /\ \A d \in Attempts : d[1] = a[1] /\ d[2] > a[2] => attempt'[d] = "ABSENT"
           /\ node'[a[1]] = "RUNNING" \/ (node'[a[1]] = "QUEUED" /\ attempt'[a] = "QUEUED")
  PROVE  OneLiveAttempt'
BY DEF OneLiveAttempt, LiveAttempts, AttemptsOf

LEMMA AttemptsKeep ==
  ASSUME AttemptsFit, UNCHANGED attempt, \A b \in Branches : node'[b] = node[b]
  PROVE  AttemptsFit'
BY AttemptParts DEF AttemptsFit, OneLiveAttempt, LiveAttempts, AttemptsOf

(* An attempt that was under way ends, and its node run with it if it       *)
(* succeeded.                                                               *)
LEMMA EndFits ==
  ASSUME AttemptsFit, NEW a \in Attempts, attempt[a] \in {"QUEUED", "RUNNING"}, NEW s, Over(s),
         \A d \in Attempts : attempt'[d] = IF d = a THEN s ELSE attempt[d],
         \A b \in Branches \ {a[1]} : node'[b] = node[b],
         node'[a[1]] \notin {"ABSENT", "PENDING"},
         s = "SUCCEEDED" <=> node'[a[1]] = "SUCCEEDED"
  PROVE  AttemptsFit'
<1>0. a[1] \in Branches
  BY AttemptParts
<1>1. /\ \A d \in Attempts : d[1] = a[1] /\ attempt[d] \in {"QUEUED", "RUNNING"} => d = a
      /\ node[a[1]] \in {"RUNNING", "QUEUED"}
  BY LiveIsLast
<1>2. OneLiveAttempt'
  <2> SUFFICES ASSUME NEW d \in Attempts, attempt'[d] \in {"QUEUED", "RUNNING"}
      PROVE  /\ \A e \in Attempts : e[1] = d[1] /\ e[2] > d[2] => attempt'[e] = "ABSENT"
             /\ node'[d[1]] = "RUNNING" \/ (node'[d[1]] = "QUEUED" /\ attempt'[d] = "QUEUED")
    BY LiveAreLast
  <2>1. d # a /\ attempt'[d] = attempt[d]
    BY DEF Over
  <2>2. d[1] # a[1] /\ d[1] \in Branches
    BY <1>1, <2>1, AttemptParts
  <2>3. /\ \A e \in Attempts : e[1] = d[1] /\ e[2] > d[2] => attempt[e] = "ABSENT"
        /\ node[d[1]] = "RUNNING" \/ (node[d[1]] = "QUEUED" /\ attempt[d] = "QUEUED")
    BY <2>1, LiveIsLast
  <2> QED BY <2>1, <2>2, <2>3
<1>3. \A d \in Attempts : d[1] \in Branches
  BY AttemptParts
<1>4. \A d \in Attempts : d[1] = a[1] => attempt[d] # "SUCCEEDED"
  BY <1>1 DEF AttemptsFit
<1>5. \A d \in Attempts : node'[d[1]] \in {"ABSENT", "PENDING"} => attempt'[d] = "ABSENT"
  BY <1>3 DEF AttemptsFit
<1>6. \A d \in Attempts : attempt'[d] = "SUCCEEDED" => node'[d[1]] = "SUCCEEDED"
  BY <1>3, <1>4 DEF AttemptsFit
<1>7. \A d, e \in Attempts :
        attempt'[d] = "SUCCEEDED" /\ attempt'[e] = "SUCCEEDED" /\ d[1] = e[1] => d = e
  BY <1>4 DEF AttemptsFit
<1>8. \A b \in Branches :
        node'[b] = "SUCCEEDED" => \E d \in Attempts : d[1] = b /\ attempt'[d] = "SUCCEEDED"
  <2>1. ASSUME NEW b \in Branches, node'[b] = "SUCCEEDED"
        PROVE  \E d \in Attempts : d[1] = b /\ attempt'[d] = "SUCCEEDED"
    <3>1. CASE b = a[1]
      BY <2>1, <3>1
    <3>2. CASE b # a[1]
      <4>1. PICK d \in Attempts : d[1] = b /\ attempt[d] = "SUCCEEDED"
        BY <2>1, <3>2 DEF AttemptsFit
      <4> QED BY <3>2, <4>1
    <3> QED BY <3>1, <3>2
  <2> QED BY <2>1
<1> QED
  BY <1>2, <1>5, <1>6, <1>7, <1>8 DEF AttemptsFit

(* An attempt that is QUEUED starts. *)
LEMMA StartFits ==
  ASSUME AttemptsFit, NEW a \in Attempts, attempt[a] = "QUEUED",
         \A d \in Attempts : attempt'[d] = IF d = a THEN "RUNNING" ELSE attempt[d],
         \A b \in Branches \ {a[1]} : node'[b] = node[b], node'[a[1]] = "RUNNING"
  PROVE  AttemptsFit'
<1>1. /\ \A d \in Attempts : d[1] = a[1] /\ attempt[d] \in {"QUEUED", "RUNNING"} => d = a
      /\ node[a[1]] \in {"RUNNING", "QUEUED"}
  BY LiveIsLast
<1>2. OneLiveAttempt'
  <2> SUFFICES ASSUME NEW d \in Attempts, attempt'[d] \in {"QUEUED", "RUNNING"}
      PROVE  /\ \A e \in Attempts : e[1] = d[1] /\ e[2] > d[2] => attempt'[e] = "ABSENT"
             /\ node'[d[1]] = "RUNNING" \/ (node'[d[1]] = "QUEUED" /\ attempt'[d] = "QUEUED")
    BY LiveAreLast
  <2>1. attempt[d] \in {"QUEUED", "RUNNING"}
    OBVIOUS
  <2>2. /\ \A e \in Attempts : e[1] = d[1] /\ e[2] > d[2] => attempt[e] = "ABSENT"
        /\ node[d[1]] = "RUNNING" \/ (node[d[1]] = "QUEUED" /\ attempt[d] = "QUEUED")
    BY <2>1, LiveIsLast
  <2>3. \A e \in Attempts : attempt[e] = "ABSENT" => attempt'[e] = "ABSENT"
    OBVIOUS
  <2>4. CASE d[1] = a[1]
    BY <2>2, <2>3, <2>4
  <2>5. CASE d[1] # a[1]
    BY <2>2, <2>3, <2>5, AttemptParts
  <2> QED BY <2>4, <2>5
<1> QED
  BY <1>1, <1>2, AttemptParts DEF AttemptsFit

(* The first attempt of a node run that was PENDING. *)
LEMMA FirstFits ==
  ASSUME AttemptsFit, NEW b \in Branches, node[b] = "PENDING", NEW a \in Attempts, a[1] = b,
         \A d \in Attempts : attempt'[d] = IF d = a THEN "QUEUED" ELSE attempt[d],
         \A e \in Branches \ {b} : node'[e] = node[e], node'[b] = "QUEUED"
  PROVE  AttemptsFit'
<1>1. \A d \in Attempts : d[1] = b => attempt[d] = "ABSENT"
  BY DEF AttemptsFit
<1>2. OneLiveAttempt'
  <2> SUFFICES ASSUME NEW d \in Attempts, attempt'[d] \in {"QUEUED", "RUNNING"}
      PROVE  /\ \A e \in Attempts : e[1] = d[1] /\ e[2] > d[2] => attempt'[e] = "ABSENT"
             /\ node'[d[1]] = "RUNNING" \/ (node'[d[1]] = "QUEUED" /\ attempt'[d] = "QUEUED")
    BY LiveAreLast
  <2>1. CASE d = a
    BY <1>1, <2>1, AttemptParts
  <2>2. CASE d # a
    <3>1. attempt[d] \in {"QUEUED", "RUNNING"} /\ d[1] # b
      BY <1>1, <2>2
    <3> QED BY <2>2, <3>1, LiveIsLast, AttemptParts
  <2> QED BY <2>1, <2>2
<1> QED
  BY <1>1, <1>2, AttemptParts DEF AttemptsFit

(* The next attempt of a node run that goes on, after one that is over. *)
LEMMA NextFits ==
  ASSUME AttemptsFit, NEW a \in Attempts, NEW next \in Attempts,
         next = <<a[1], a[2] + 1>>, node[a[1]] = "RUNNING",
         \A d \in Attempts : d[1] = a[1] /\ d[2] > a[2] => attempt[d] = "ABSENT",
         attempt[a] # "ABSENT", Over(attempt'[a]), attempt'[a] # "SUCCEEDED", attempt'[next] = "QUEUED",
         \A d \in Attempts \ {a, next} : attempt'[d] = attempt[d],
         UNCHANGED node
  PROVE  AttemptsFit'
<1>1. next[1] = a[1] /\ next[2] = a[2] + 1 /\ a[2] \in Nat /\ attempt[next] = "ABSENT" /\ next # a
  BY AttemptParts
<1>2. \A d \in Attempts : d[1] = a[1] => attempt[d] # "SUCCEEDED"
  BY DEF AttemptsFit
<1>3. ASSUME NEW d \in Attempts, d # a, d # next, d[1] = a[1]
      PROVE  attempt[d] \notin {"QUEUED", "RUNNING"} /\ (d[2] > next[2] => attempt[d] = "ABSENT")
  <2>1. d[2] # a[2] /\ d[2] \in Nat
    BY <1>1, <1>3, AttemptParts
  <2>2. CASE d[2] > a[2]
    BY <1>3, <2>2
  <2>3. CASE a[2] > d[2]
    BY <1>1, <1>3, <2>1, <2>3, LiveIsLast
  <2> QED BY <1>1, <2>1, <2>2, <2>3
<1>4. OneLiveAttempt'
  <2> SUFFICES ASSUME NEW d \in Attempts, attempt'[d] \in {"QUEUED", "RUNNING"}
      PROVE  /\ \A e \in Attempts : e[1] = d[1] /\ e[2] > d[2] => attempt'[e] = "ABSENT"
             /\ node'[d[1]] = "RUNNING" \/ (node'[d[1]] = "QUEUED" /\ attempt'[d] = "QUEUED")
    BY LiveAreLast
  <2>1. d # a
    BY DEF Over
  <2>2. CASE d = next
    <3>1. \A e \in Attempts : e[1] = d[1] /\ e[2] > d[2] => e # a /\ e # next /\ e[2] > a[2]
      BY <1>1, <2>2, AttemptParts
    <3> QED BY <1>1, <2>2, <3>1
  <2>3. CASE d # next
    <3>1. attempt[d] \in {"QUEUED", "RUNNING"}
      BY <2>1, <2>3
    <3>2. d[1] # a[1]
      BY <1>3, <2>1, <2>3, <3>1
    <3> QED BY <1>1, <3>1, <3>2, LiveIsLast
  <2> QED BY <2>2, <2>3
<1> QED
  BY <1>1, <1>2, <1>4, AttemptParts DEF AttemptsFit, Over

(* The coordinator's sweep ends the QUEUED attempts. *)
LEMMA SweepFits ==
  ASSUME TypeOK, GraphFits, AttemptsFit,
         \A d \in Attempts : attempt'[d] = IF attempt[d] = "QUEUED" THEN "CANCELLED" ELSE attempt[d],
         \A b \in Branches : node'[b] = IF b \in ToCancel THEN "CANCELLED" ELSE node[b]
  PROVE  AttemptsFit'
<1>1. OneLiveAttempt'
  <2> SUFFICES ASSUME NEW d \in Attempts, attempt'[d] \in {"QUEUED", "RUNNING"}
      PROVE  /\ \A e \in Attempts : e[1] = d[1] /\ e[2] > d[2] => attempt'[e] = "ABSENT"
             /\ node'[d[1]] = "RUNNING" \/ (node'[d[1]] = "QUEUED" /\ attempt'[d] = "QUEUED")
    BY LiveAreLast
  <2>1. attempt[d] = "RUNNING" /\ d[1] \in Branches
    BY AttemptParts
  <2>2. /\ \A e \in Attempts : e[1] = d[1] /\ e[2] > d[2] => attempt[e] = "ABSENT"
        /\ node[d[1]] = "RUNNING"
    BY <2>1, LiveIsLast
  <2>3. d[1] \notin ToCancel
    BY <2>1, <2>2 DEF ToCancel
  <2> QED BY <2>1, <2>2, <2>3
<1>2. \A b \in Branches : node'[b] = "SUCCEEDED" <=> node[b] = "SUCCEEDED"
  BY SomeNodes DEF ToCancel
<1>3. \A b \in Branches : node'[b] \in {"ABSENT", "PENDING"} => node[b] \in {"ABSENT", "PENDING"}
  OBVIOUS
<1> QED
  BY <1>1, <1>2, <1>3, AttemptParts DEF AttemptsFit

------------------------------------------------------------------------------
(* The reaper, the executors and the jobs. *)

(* Where an attempt's state comes from. *)
Onward ==
  \A a \in Attempts :
    /\ attempt'[a] = "ABSENT" => attempt[a] = "ABSENT"
    /\ attempt'[a] = "QUEUED" => attempt[a] \in {"ABSENT", "QUEUED"}
    /\ attempt'[a] = "RUNNING" => attempt[a] \in {"QUEUED", "RUNNING"}

LEMMA ReaperKeeps ==
  ASSUME ReaperFits, Onward,
         \A a \in Attempts : reaper'[a] # "none" =>
           reaper[a] # "none" \/ attempt'[a] \notin {"ABSENT", "QUEUED"},
         \A a \in Attempts : reaper'[a] \in {"decide", "retry"} =>
           \/ reaper[a] \in {"decide", "retry"}
           \/ /\ attempt'[a] # "RUNNING"
              /\ \A d \in Attempts : d[1] = a[1] /\ d[2] > a[2] => attempt'[d] = "ABSENT",
         \A d \in Attempts : attempt[d] = "ABSENT" /\ attempt'[d] # "ABSENT" =>
           \A a \in Attempts : a[1] = d[1] /\ d[2] > a[2] => reaper'[a] \notin {"decide", "retry"}
  PROVE  ReaperFits'
<1>1. \A a \in Attempts : reaper'[a] # "none" => attempt'[a] \notin {"ABSENT", "QUEUED"}
  BY DEF ReaperFits, Onward
<1>2. ASSUME NEW a \in Attempts, reaper'[a] \in {"decide", "retry"}
      PROVE  /\ attempt'[a] # "RUNNING"
             /\ \A d \in Attempts : d[1] = a[1] /\ d[2] > a[2] => attempt'[d] = "ABSENT"
  <2>1. CASE reaper[a] \in {"decide", "retry"}
    <3>1. /\ attempt[a] \notin {"ABSENT", "QUEUED", "RUNNING"}
          /\ \A d \in Attempts : d[1] = a[1] /\ d[2] > a[2] => attempt[d] = "ABSENT"
      BY <2>1 DEF ReaperFits
    <3> QED BY <1>2, <3>1 DEF Onward
  <2> QED BY <1>2, <2>1
<1> QED
  BY <1>1, <1>2 DEF ReaperFits

LEMMA OrphansKeep ==
  ASSUME OrphanIsNeverHeld,
         \A a \in Attempts : reaper'[a] \in {"listed", "cancel", "terminate"} /\ attempt'[a] = "RUNNING" =>
           /\ reaper[a] \in {"listed", "cancel", "terminate"} /\ attempt[a] = "RUNNING"
           /\ \A c \in 1..MaxClaims :
                /\ Holds(a, c)' => Holds(a, c)
                /\ executor'[a][c] \in {"running", "writing"} => executor[a][c] \in {"running", "writing"}
  PROVE  OrphanIsNeverHeld'
BY DEF OrphanIsNeverHeld

LEMMA ExecutorsKeep ==
  ASSUME ExecutorsFit, Onward, Cancelled(run) => Cancelled(run'),
         \A a \in Attempts, c \in 1..MaxClaims :
           \/ executor'[a][c] \in {executor[a][c], "none"}
           \/ /\ attempt'[a] # "ABSENT"
              /\ attempt'[a] = "QUEUED" => executor'[a][c] \notin {"running", "writing"}
              /\ attempt'[a] = "QUEUED" /\ executor'[a][c] = "returned" => Cancelled(run')
  PROVE  ExecutorsFit'
BY DEF ExecutorsFit, Onward

LEMMA JobsKeep ==
  ASSUME JobsFit, Cancelled(run) => Cancelled(run'), jobFenced' = jobFenced,
         \A a \in Attempts :
           LET j == ExecuteJob(a) IN
           \/ /\ attempt'[a] = "ABSENT" <=> attempt[a] = "ABSENT"
              /\ attempt'[a] = "QUEUED" => attempt[a] = "QUEUED"
              /\ jobState'[j] = jobState[j] /\ jobClaims'[j] = jobClaims[j]
           \/ /\ attempt'[a] # "ABSENT" /\ jobState'[j] # "ABSENT"
              /\ jobState'[j] = "AVAILABLE" => jobClaims'[j] < MaxClaims
              /\ attempt'[a] = "QUEUED" /\ jobState'[j] \in {"SUCCEEDED", "CANCELLED"} => Cancelled(run')
  PROVE  JobsFit'
<1>1. ~Cancelled(run') => jobFenced' = {}
  BY DEF JobsFit
<1>2. ASSUME NEW a \in Attempts
      PROVE  LET j == ExecuteJob(a) IN
             /\ jobState'[j] = "ABSENT" <=> attempt'[a] = "ABSENT"
             /\ jobState'[j] = "ABSENT" => jobClaims'[j] = 0
             /\ jobState'[j] = "AVAILABLE" => jobClaims'[j] < MaxClaims
             /\ attempt'[a] = "QUEUED" /\ jobState'[j] \in {"SUCCEEDED", "CANCELLED"} => Cancelled(run')
  BY DEF JobsFit
<1> QED
  BY <1>1, <1>2 DEF JobsFit, ExecuteJob

LEMMA JobsDiffer ==
  /\ \A a \in Attempts : /\ ExecuteJob(a) # AdvanceJob /\ ExecuteJob(a) # CoordinatorJob
                         /\ \A b \in Branches : ExecuteJob(a) # ScheduleJob(b)
  /\ \A a, d \in Attempts : ExecuteJob(a) = ExecuteJob(d) => a = d
  /\ \A b \in Branches : ScheduleJob(b) # AdvanceJob
BY AttemptParts DEF ExecuteJob, AdvanceJob, CoordinatorJob, ScheduleJob

LEMMA AtMeans ==
  ASSUME TypeOK, NEW a \in Attempts, NEW c \in 1..MaxClaims, NEW pc, At(a, c, pc)
  PROVE  /\ executor'[a][c] = pc
         /\ \A d \in Attempts, e \in 1..MaxClaims : d # a \/ e # c => executor'[d][e] = executor[d][e]
BY DEF TypeOK, At

LEMMA DeliverOthers ==
  ASSUME TypeOK, NEW j \in Jobs, NEW new, Deliver(j, new)
  PROVE  /\ \A i \in Jobs : i # j /\ i \notin new => jobState'[i] = jobState[i]
         /\ \A i \in Jobs : i # j => jobClaims'[i] = jobClaims[i]
         /\ \A i \in new : i \in Jobs /\ i # j => jobState'[i] = "AVAILABLE"
         /\ jobFenced' = jobFenced
BY DEF TypeOK, Deliver

Rest ==
  /\ GraphFits /\ JoinFits /\ OverIsStill /\ AttemptsFit
  /\ ReaperFits /\ OrphanIsNeverHeld /\ ExecutorsFit /\ JobsFit

(* Steps that only move executors and the jobs of attempts that are there:  *)
(* no attempt, no node run and no orphan changes.                           *)
LEMMA WorkStep ==
  ASSUME IInv, UNCHANGED <<graphVars, attempt, jobFenced>>,
         \A a \in Attempts : reaper'[a] \in {reaper[a], "none"},
         \A a \in Attempts, c \in 1..MaxClaims :
           \/ executor'[a][c] \in {executor[a][c], "none"}
           \/ /\ attempt[a] # "ABSENT" /\ executor'[a][c] \in {"claimed", "returned", "writing"}
              /\ executor'[a][c] = "returned" => attempt[a] # "QUEUED" \/ Cancelled(run)
              /\ executor'[a][c] = "writing" => executor[a][c] = "running",
         \A a \in Attempts :
           LET j == ExecuteJob(a) IN
           \/ jobState'[j] = jobState[j] /\ jobClaims'[j] = jobClaims[j]
           \/ /\ jobState[j] # "ABSENT" /\ jobState'[j] \notin {"ABSENT", "LEASED"}
              /\ jobState'[j] = "AVAILABLE" => jobClaims'[j] < MaxClaims
              /\ attempt[a] = "QUEUED" => jobState'[j] \notin {"SUCCEEDED", "CANCELLED"} \/ Cancelled(run)
           \/ /\ jobState[j] = "AVAILABLE" /\ jobState'[j] = "LEASED"
              /\ jobClaims'[j] \in 1..MaxClaims => executor'[a][jobClaims'[j]] = "claimed"
  PROVE  Rest'
<1> USE DEF IInv, graphVars
<1>1. GraphFits' /\ JoinFits' /\ OverIsStill'
  BY GraphKeeps DEF GraphInv, TypeInv
<1>2. AttemptsFit'
  BY AttemptsKeep
<1>3. Onward
  BY DEF Onward
<1>4. ReaperFits'
  BY <1>3, ReaperKeeps DEF ReaperFits
<1>5. ExecutorsFit'
  <2>1. \A a \in Attempts, c \in 1..MaxClaims :
           \/ executor'[a][c] \in {executor[a][c], "none"}
           \/ /\ attempt'[a] # "ABSENT"
              /\ attempt'[a] = "QUEUED" => executor'[a][c] \notin {"running", "writing"}
              /\ attempt'[a] = "QUEUED" /\ executor'[a][c] = "returned" => Cancelled(run')
    BY DEF ExecutorsFit
  <2> QED BY <1>3, <2>1, ExecutorsKeep
<1>6. JobsFit'
  <2>1. \A a \in Attempts : jobState[ExecuteJob(a)] # "ABSENT" => attempt'[a] # "ABSENT"
    BY DEF JobsFit
  <2> QED BY <2>1, JobsKeep
<1>7. OrphanIsNeverHeld'
  <2> SUFFICES ASSUME NEW a \in Attempts, reaper'[a] \in {"listed", "cancel", "terminate"},
                      attempt'[a] = "RUNNING", NEW c \in 1..MaxClaims, Holds(a, c)'
               PROVE  executor'[a][c] \notin {"running", "writing"}
    BY DEF OrphanIsNeverHeld
  <2>1. reaper[a] \in {"listed", "cancel", "terminate"} /\ attempt[a] = "RUNNING"
    OBVIOUS
  <2>2. jobState'[ExecuteJob(a)] = "LEASED" /\ jobClaims'[ExecuteJob(a)] = c
    BY DEF Holds, ExecuteJob
  <2>3. CASE jobState'[ExecuteJob(a)] = jobState[ExecuteJob(a)] /\ jobClaims'[ExecuteJob(a)] = jobClaims[ExecuteJob(a)]
    <3>1. executor[a][c] \notin {"running", "writing"}
      BY <2>1, <2>2, <2>3 DEF OrphanIsNeverHeld, Holds
    <3> QED BY <3>1
  <2>4. CASE jobState[ExecuteJob(a)] = "AVAILABLE" /\ executor'[a][c] = "claimed"
    BY <2>4
  <2> QED BY <2>2, <2>3, <2>4
<1> QED
  BY <1>1, <1>2, <1>4, <1>5, <1>6, <1>7 DEF Rest

(* Steps by which an attempt under way ends. *)
LEMMA EndStep ==
  ASSUME IInv, TypeInv', NEW a \in Attempts, attempt[a] \in {"QUEUED", "RUNNING"}, NEW s, Over(s),
         \A d \in Attempts : attempt'[d] = IF d = a THEN s ELSE attempt[d],
         GraphFits', JoinFits', OverIsStill',
         \A b \in Branches \ {a[1]} : node'[b] = node[b],
         node'[a[1]] \notin {"ABSENT", "PENDING"},
         s = "SUCCEEDED" <=> node'[a[1]] = "SUCCEEDED",
         Cancelled(run) => Cancelled(run'), jobFenced' = jobFenced,
         \A d \in Attempts, c \in 1..MaxClaims :
           executor'[d][c] \in {executor[d][c], "none"} \/ (d = a /\ executor'[d][c] = "returned"),
         \A d \in Attempts : reaper'[d] \in {reaper[d], "none"} \/ (d = a /\ reaper'[d] = "decide"),
         \A d \in Attempts :
           LET j == ExecuteJob(d) IN
           \/ jobState'[j] = jobState[j] /\ jobClaims'[j] = jobClaims[j]
           \/ d = a /\ jobState'[j] = "SUCCEEDED"
  PROVE  Rest'
<1>1. AttemptsFit'
  BY EndFits DEF IInv
<1>2. Onward /\ attempt'[a] \notin {"ABSENT", "QUEUED", "RUNNING"}
      /\ \A d \in Attempts : attempt'[d] = "ABSENT" <=> attempt[d] = "ABSENT"
  BY DEF Onward, Over
<1>3. ReaperFits'
  <2>1. \A d \in Attempts : d[1] = a[1] /\ d[2] > a[2] => attempt'[d] = "ABSENT"
    BY <1>2, LiveIsLast DEF IInv
  <2> QED BY <1>2, <2>1, ReaperKeeps DEF IInv
<1>4. ExecutorsFit'
  <2>1. ExecutorsFit
    BY DEF IInv
  <2> QED BY <1>2, <2>1, ExecutorsKeep
<1>5. JobsFit'
  <2>1. JobsFit
    BY DEF IInv
  <2>2. ASSUME NEW d \in Attempts
        PROVE  LET j == ExecuteJob(d) IN
               \/ /\ attempt'[d] = "ABSENT" <=> attempt[d] = "ABSENT"
                  /\ attempt'[d] = "QUEUED" => attempt[d] = "QUEUED"
                  /\ jobState'[j] = jobState[j] /\ jobClaims'[j] = jobClaims[j]
               \/ /\ attempt'[d] # "ABSENT" /\ jobState'[j] # "ABSENT"
                  /\ jobState'[j] = "AVAILABLE" => jobClaims'[j] < MaxClaims
                  /\ attempt'[d] = "QUEUED" /\ jobState'[j] \in {"SUCCEEDED", "CANCELLED"} => Cancelled(run')
    BY <1>2
  <2> QED BY <2>1, <2>2, JobsKeep
<1>6. OrphanIsNeverHeld'
  <2>1. ASSUME NEW d \in Attempts, reaper'[d] \in {"listed", "cancel", "terminate"}, attempt'[d] = "RUNNING"
        PROVE  /\ reaper[d] \in {"listed", "cancel", "terminate"} /\ attempt[d] = "RUNNING"
               /\ \A c \in 1..MaxClaims :
                    /\ Holds(d, c)' => Holds(d, c)
                    /\ executor'[d][c] \in {"running", "writing"} => executor[d][c] \in {"running", "writing"}
    <3>1. d # a
      BY <1>2, <2>1
    <3>2. /\ jobState'[ExecuteJob(d)] = jobState[ExecuteJob(d)]
          /\ jobClaims'[ExecuteJob(d)] = jobClaims[ExecuteJob(d)]
      BY <3>1
    <3> QED BY <2>1, <3>1, <3>2 DEF Holds, ExecuteJob
  <2> QED BY <2>1, OrphansKeep DEF IInv
<1> QED
  BY <1>1, <1>3, <1>4, <1>5, <1>6 DEF Rest

(* Steps by which an attempt is QUEUED with a job of its own, the first of  *)
(* its node run or one after an attempt "from" that ended.                  *)
LEMMA QueueStep ==
  ASSUME IInv, TypeInv', NEW next \in Attempts, attempt[next] = "ABSENT", attempt'[next] = "QUEUED",
         \A d \in Attempts \ {next} :
           attempt'[d] = attempt[d] \/ (attempt[d] = "RUNNING" /\ attempt'[d] = "FAILED"),
         \A d \in Attempts : d[1] = next[1] /\ next[2] > d[2] => reaper'[d] = "none" \/ reaper[d] \notin {"decide", "retry"},
         AttemptsFit', UNCHANGED <<run, branch>>, jobFenced' = jobFenced,
         GraphFits', JoinFits', OverIsStill',
         \A d \in Attempts, c \in 1..MaxClaims : executor'[d][c] \in {executor[d][c], "none"},
         \A d \in Attempts : reaper'[d] \in {reaper[d], "none"},
         \A d \in Attempts \ {next} :
           LET j == ExecuteJob(d) IN
           \/ jobState'[j] = jobState[j] /\ jobClaims'[j] = jobClaims[j]
           \/ attempt'[d] = "FAILED" /\ jobState'[j] = "SUCCEEDED",
         jobState'[ExecuteJob(next)] = "AVAILABLE", jobClaims'[ExecuteJob(next)] = jobClaims[ExecuteJob(next)]
  PROVE  Rest'
<1>2. Onward
  BY DEF Onward
<1>3. ReaperFits'
  <2>1. \A d \in Attempts : attempt[d] = "ABSENT" /\ attempt'[d] # "ABSENT" => d = next
    OBVIOUS
  <2>2. \A a \in Attempts : a[1] = next[1] /\ next[2] > a[2] => reaper'[a] \notin {"decide", "retry"}
    OBVIOUS
  <2> QED BY <1>2, <2>1, <2>2, ReaperKeeps DEF IInv
<1>4. ExecutorsFit'
  <2>1. ExecutorsFit
    BY DEF IInv
  <2> QED BY <1>2, <2>1, ExecutorsKeep
<1>5. JobsFit'
  <2>1. JobsFit /\ 0 < MaxClaims
    BY EngineAssumption DEF IInv
  <2>2. ASSUME NEW d \in Attempts
        PROVE  LET j == ExecuteJob(d) IN
               \/ /\ attempt'[d] = "ABSENT" <=> attempt[d] = "ABSENT"
                  /\ attempt'[d] = "QUEUED" => attempt[d] = "QUEUED"
                  /\ jobState'[j] = jobState[j] /\ jobClaims'[j] = jobClaims[j]
               \/ /\ attempt'[d] # "ABSENT" /\ jobState'[j] # "ABSENT"
                  /\ jobState'[j] = "AVAILABLE" => jobClaims'[j] < MaxClaims
                  /\ attempt'[d] = "QUEUED" /\ jobState'[j] \in {"SUCCEEDED", "CANCELLED"} => Cancelled(run')
    <3>1. CASE d = next
      <4>1. jobClaims'[ExecuteJob(next)] = 0
        BY <2>1 DEF JobsFit
      <4> QED BY <2>1, <3>1, <4>1
    <3>2. CASE d # next
      BY <3>2
    <3> QED BY <3>1, <3>2
  <2> QED BY <2>1, <2>2, JobsKeep
<1>6. OrphanIsNeverHeld'
  <2>1. ASSUME NEW d \in Attempts, reaper'[d] \in {"listed", "cancel", "terminate"}, attempt'[d] = "RUNNING"
        PROVE  /\ reaper[d] \in {"listed", "cancel", "terminate"} /\ attempt[d] = "RUNNING"
               /\ \A c \in 1..MaxClaims :
                    /\ Holds(d, c)' => Holds(d, c)
                    /\ executor'[d][c] \in {"running", "writing"} => executor[d][c] \in {"running", "writing"}
    <3>1. d # next /\ attempt'[d] # "FAILED"
      BY <2>1
    <3>2. /\ jobState'[ExecuteJob(d)] = jobState[ExecuteJob(d)]
          /\ jobClaims'[ExecuteJob(d)] = jobClaims[ExecuteJob(d)]
      BY <3>1
    <3> QED BY <2>1, <3>1, <3>2 DEF Holds, ExecuteJob
  <2> QED BY <2>1, OrphansKeep DEF IInv
<1> QED
  BY <1>3, <1>4, <1>5, <1>6 DEF Rest

(* Steps of the reaper that write nothing. *)
LEMMA LookStep ==
  ASSUME IInv, TypeInv', UNCHANGED <<graphVars, attempt, jobVars, executor>>, NEW a \in Attempts, NEW pc,
         Reaping(a, pc),
         \/ pc = "none"
         \/ /\ pc \in {"listed", "cancel", "terminate"} /\ attempt[a] \notin {"ABSENT", "QUEUED"}
            /\ reaper[a] = "listed" \/ jobState[ExecuteJob(a)] # "LEASED"
         \/ pc = "retry" /\ reaper[a] = "decide"
  PROVE  Rest'
<1> USE DEF IInv, graphVars, jobVars
<1>1. GraphFits' /\ JoinFits' /\ OverIsStill'
  BY GraphKeeps DEF GraphInv, TypeInv
<1>2. AttemptsFit'
  BY AttemptsKeep
<1>3. Onward /\ reaper'[a] = pc /\ \A d \in Attempts : d # a => reaper'[d] = reaper[d]
  BY DEF Onward, Reaping, TypeInv, TypeOK
<1>4. ReaperFits'
  BY <1>3, ReaperKeeps
<1>5. ExecutorsFit' /\ JobsFit'
  BY DEF ExecutorsFit, JobsFit, ExecuteJob
<1>6. OrphanIsNeverHeld'
  <2> SUFFICES ASSUME NEW d \in Attempts, reaper'[d] \in {"listed", "cancel", "terminate"},
                      attempt[d] = "RUNNING", NEW c \in 1..MaxClaims, Holds(d, c)
               PROVE  executor[d][c] \notin {"running", "writing"}
    BY DEF OrphanIsNeverHeld, Holds, ExecuteJob
  <2> QED BY <1>3 DEF OrphanIsNeverHeld, Holds
<1> QED
  BY <1>1, <1>2, <1>4, <1>5, <1>6 DEF Rest

------------------------------------------------------------------------------
(* The actions. *)

LEMMA AdvanceRest == ASSUME IInv, TypeInv', AdvanceRun PROVE Rest'
<1> USE DEF IInv
<1> USE JobsNamed, SomeNodes
<1>0. TypeOK /\ GraphInv
  BY DEF TypeInv, GraphInv
<1>1. PICK new \in SUBSET Jobs :
        /\ Deliver(AdvanceJob, new) /\ \A a \in Attempts : ExecuteJob(a) \notin new
  <2>1. Deliver(AdvanceJob, {}) \/ Deliver(AdvanceJob, {ScheduleJob(b) : b \in Branches})
    BY DEF AdvanceRun
  <2>2. /\ {ScheduleJob(b) : b \in Branches} \in SUBSET Jobs
        /\ \A a \in Attempts : ExecuteJob(a) \notin {ScheduleJob(b) : b \in Branches}
    BY JobsDiffer
  <2> QED BY <2>1, <2>2
<1>2. jobFenced' = jobFenced /\ \A a \in Attempts :
        /\ jobState'[ExecuteJob(a)] = jobState[ExecuteJob(a)]
        /\ jobClaims'[ExecuteJob(a)] = jobClaims[ExecuteJob(a)]
  <2>1. \A a \in Attempts : ExecuteJob(a) \in Jobs /\ ExecuteJob(a) # AdvanceJob
    BY JobsDiffer
  <2> QED BY <1>0, <1>1, <2>1, DeliverOthers
<1>3. UNCHANGED <<intent, attempt, wrote, executor, reaper>>
  BY DEF AdvanceRun
<1>4. CASE UNCHANGED graphVars
  BY <1>2, <1>3, <1>4, WorkStep
<1>5. CASE ~UNCHANGED graphVars
  <2>1. /\ node["START"] = "RUNNING"
        /\ \/ /\ node' = [node EXCEPT !["START"] = "SUCCEEDED"]
              /\ run' = Reconciled(node') /\ Cancelled(run) /\ branch' = branch
           \/ /\ node' = [n \in Nodes |-> IF n = "START" THEN "SUCCEEDED"
                                          ELSE IF n \in Branches THEN "PENDING" ELSE node[n]]
              /\ branch' = [b \in Branches |-> "ACTIVE"]
              /\ run' = run
    BY <1>5 DEF AdvanceRun
  <2>2. /\ \A b \in Branches : branch[b] = "ABSENT" /\ node[b] = "ABSENT"
        /\ node["JOIN"] = "ABSENT" /\ node["END"] = "ABSENT"
        /\ run \notin {"CANCELLED", "VERIFYING", "FAILED"}
    BY <2>1 DEF GraphFits, Settled, OverIsStill, Live
  <2>3. \A a \in Attempts : attempt[a] = "ABSENT"
    BY <2>2, AttemptParts DEF AttemptsFit
  <2>4. /\ node'["START"] = "SUCCEEDED" /\ node'["JOIN"] = "ABSENT" /\ node'["END"] = "ABSENT"
        /\ \/ \A b \in Branches : branch'[b] = "ABSENT" /\ node'[b] = "ABSENT"
           \/ \A b \in Branches : branch'[b] = "ACTIVE" /\ node'[b] = "PENDING"
    BY <1>0, <2>1, <2>2 DEF TypeOK
  <2>5. OverIsStill' /\ (Cancelled(run') <=> Cancelled(run)) /\ run' # "VERIFYING"
    BY <1>0, <2>1, <2>2, <2>4, StillAfter, ReconciledMeans DEF OverIsStill, TypeOK
  <2>6. GraphFits'
    BY <2>4 DEF GraphFits
  <2>7. JoinFits'
    <3>1. PICK b \in Branches : branch'[b] \notin Settled
      BY <2>4, EngineAssumption DEF Settled
    <3> QED BY <2>4, <2>5, <3>1 DEF JoinFits
  <2>8. AttemptsFit'
    BY <1>3, <2>3, <2>4, AttemptParts DEF AttemptsFit, OneLiveAttempt, LiveAttempts, AttemptsOf
  <2>9. Onward
    BY <1>3 DEF Onward
  <2>10. ReaperFits'
    BY <1>3, <2>9, ReaperKeeps
  <2>11. ExecutorsFit'
    BY <1>3, <2>5, <2>9, ExecutorsKeep
  <2>12. JobsFit'
    BY <1>2, <1>3, <2>5, JobsKeep
  <2>13. OrphanIsNeverHeld'
    BY <1>3, <2>3 DEF OrphanIsNeverHeld
  <2> QED BY <2>5, <2>6, <2>7, <2>8, <2>10, <2>11, <2>12, <2>13 DEF Rest
<1> QED
  BY <1>4, <1>5

LEMMA ScheduleRest == ASSUME IInv, TypeInv', NEW b \in Branches, ScheduleNodeRun(b) PROVE Rest'
<1> USE DEF IInv
<1> USE JobsNamed, SomeNodes
<1> DEFINE a == <<b, 1>>
<1>0. TypeOK /\ GraphInv /\ a \in Attempts /\ a[1] = b /\ a[2] = 1
  BY DEF TypeInv, GraphInv
<1>1. UNCHANGED <<run, branch, intent, wrote, executor, reaper>>
  BY DEF ScheduleNodeRun
<1>2. \A d \in Attempts : ExecuteJob(d) \in Jobs /\ ExecuteJob(d) # ScheduleJob(b) /\ (ExecuteJob(d) = ExecuteJob(a) => d = a)
  BY <1>0, JobsDiffer
<1>3. CASE node[b] # "PENDING"
  <2>1. UNCHANGED <<node, attempt>> /\ Deliver(ScheduleJob(b), {})
    BY <1>3 DEF ScheduleNodeRun
  <2>2. jobFenced' = jobFenced /\ \A d \in Attempts :
          /\ jobState'[ExecuteJob(d)] = jobState[ExecuteJob(d)]
          /\ jobClaims'[ExecuteJob(d)] = jobClaims[ExecuteJob(d)]
    BY <1>0, <1>2, <2>1, DeliverOthers
  <2> QED BY <1>1, <2>1, <2>2, WorkStep DEF graphVars
<1>4. CASE node[b] = "PENDING"
  <2>1. /\ node' = [node EXCEPT ![b] = "QUEUED"]
        /\ attempt' = [attempt EXCEPT ![a] = "QUEUED"]
        /\ Deliver(ScheduleJob(b), {ExecuteJob(a)})
    BY <1>4 DEF ScheduleNodeRun
  <2>2. /\ node'[b] = "QUEUED" /\ \A n \in Nodes \ {b} : node'[n] = node[n]
        /\ \A d \in Attempts : attempt'[d] = IF d = a THEN "QUEUED" ELSE attempt[d]
    BY <1>0, <2>1 DEF TypeOK
  <2>3. \A d \in Attempts : d[1] = b => attempt[d] = "ABSENT"
    BY <1>4 DEF AttemptsFit
  <2>4. /\ jobFenced' = jobFenced
        /\ \A d \in Attempts : jobClaims'[ExecuteJob(d)] = jobClaims[ExecuteJob(d)]
        /\ \A d \in Attempts \ {a} : jobState'[ExecuteJob(d)] = jobState[ExecuteJob(d)]
        /\ jobState'[ExecuteJob(a)] = "AVAILABLE"
    <3> HIDE DEF a
    <3>1. /\ \A i \in Jobs : i # ScheduleJob(b) /\ i \notin {ExecuteJob(a)} => jobState'[i] = jobState[i]
          /\ \A i \in Jobs : i # ScheduleJob(b) => jobClaims'[i] = jobClaims[i]
          /\ \A i \in {ExecuteJob(a)} : i \in Jobs /\ i # ScheduleJob(b) => jobState'[i] = "AVAILABLE"
          /\ jobFenced' = jobFenced
      BY <1>0, <2>1, DeliverOthers
    <3> QED BY <1>0, <1>2, <3>1
  <2>5. run \notin {"CANCELLED", "VERIFYING", "FAILED"}
    BY <1>4 DEF OverIsStill, Live
  <2>6. OverIsStill' /\ JoinFits'
    BY <1>1, <2>2, <2>5 DEF OverIsStill, JoinFits
  <2>7. GraphFits'
    BY <1>1, <1>4, <2>2 DEF GraphFits, Settled
  <2>8. AttemptsFit'
    <3> HIDE DEF a
    <3> QED BY <1>0, <1>4, <2>2, FirstFits
  <2>9. \A d \in Attempts : d[1] = a[1] => reaper[d] = "none"
    BY <1>0, <2>3 DEF ReaperFits
  <2> HIDE DEF a
  <2> QED BY <1>0, <1>1, <2>2, <2>3, <2>4, <2>6, <2>7, <2>8, <2>9, QueueStep
<1> QED
  BY <1>3, <1>4

LEMMA HandlerFailsRest ==
  ASSUME IInv, TypeInv', NEW j \in Jobs \ {ExecuteJob(a) : a \in Attempts}, HandlerFails(j) PROVE Rest'
<1>1. TypeOK /\ \A a \in Attempts : ExecuteJob(a) \in Jobs /\ ExecuteJob(a) # j
  BY JobsNamed DEF IInv, TypeInv
<1>2. \A a \in Attempts : /\ jobState'[ExecuteJob(a)] = jobState[ExecuteJob(a)]
                          /\ jobClaims'[ExecuteJob(a)] = jobClaims[ExecuteJob(a)]
  BY <1>1 DEF HandlerFails, TypeOK
<1> QED
  BY <1>2, WorkStep DEF HandlerFails

LEMMA ClaimRest == ASSUME IInv, TypeInv', NEW a \in Attempts, ClaimExecute(a) PROVE Rest'
<1> DEFINE j == ExecuteJob(a)
<1>1. TypeOK /\ TypeOK' /\ j \in Jobs /\ \A d \in Attempts : ExecuteJob(d) \in Jobs /\ (ExecuteJob(d) = j => d = a)
  BY JobsNamed, JobsDiffer DEF IInv, TypeInv
<1>2. /\ jobState[j] = "AVAILABLE" /\ jobState'[j] = "LEASED" /\ jobClaims'[j] = jobClaims[j] + 1
      /\ \A d \in Attempts \ {a} : /\ jobState'[ExecuteJob(d)] = jobState[ExecuteJob(d)]
                                   /\ jobClaims'[ExecuteJob(d)] = jobClaims[ExecuteJob(d)]
  BY <1>1 DEF ClaimExecute, Claimable, TypeOK
<1>3. jobClaims'[j] \in 1..MaxClaims
  BY <1>1, <1>2, EngineAssumption DEF ClaimExecute, Claimable, TypeOK
<1>4. /\ executor'[a][jobClaims'[j]] = "claimed"
      /\ \A d \in Attempts, e \in 1..MaxClaims : d # a \/ e # jobClaims'[j] => executor'[d][e] = executor[d][e]
  <2>1. At(a, jobClaims'[j], "claimed")
    BY <1>2 DEF ClaimExecute
  <2> QED BY <1>1, <1>3, <2>1, AtMeans
<1>5. attempt[a] # "ABSENT"
  BY <1>2 DEF IInv, JobsFit
<1>6. UNCHANGED <<graphVars, attempt, jobFenced, reaper>>
  BY DEF ClaimExecute
<1> QED
  BY <1>2, <1>4, <1>5, <1>6, WorkStep

LEMMA LoseRest == ASSUME IInv, TypeInv', NEW a \in Attempts, LeaseExpires(a) \/ LeaseLost(a) PROVE Rest'
<1> DEFINE j == ExecuteJob(a)
<1>1. TypeOK /\ j \in Jobs /\ \A d \in Attempts : ExecuteJob(d) \in Jobs /\ (ExecuteJob(d) = j => d = a)
  BY JobsNamed, JobsDiffer DEF IInv, TypeInv
<1>2. /\ jobState[j] = "LEASED" /\ jobState' = [jobState EXCEPT ![j] = Redelivery(jobClaims[j])]
      /\ UNCHANGED <<graphVars, attempt, jobClaims, jobFenced, executor, reaper>>
  BY DEF LeaseExpires, LeaseLost
<1>3. /\ jobState'[j] \in {"DEAD", "AVAILABLE"} /\ (jobState'[j] = "AVAILABLE" => jobClaims'[j] < MaxClaims)
      /\ \A d \in Attempts \ {a} : jobState'[ExecuteJob(d)] = jobState[ExecuteJob(d)]
  BY <1>1, <1>2, EngineAssumption DEF Redelivery, TypeOK
<1> QED
  BY <1>2, <1>3, WorkStep

(* cancelMutatingAttemptTx of an attempt that is RUNNING. *)
LEMMA CancelMutatingRest ==
  ASSUME IInv, TypeInv', NEW a \in Attempts, CancelMutatingAttempt(a), UNCHANGED jobVars,
         \A d \in Attempts, c \in 1..MaxClaims :
           executor'[d][c] \in {executor[d][c], "none"} \/ (d = a /\ executor'[d][c] = "returned"),
         \A d \in Attempts : reaper'[d] \in {reaper[d], "none"},
         \A c \in 1..MaxClaims : executor'[a][c] \in {executor[a][c], "none"} \/ executor[a][c] = "writing"
  PROVE  Rest'
<1> USE DEF jobVars
<1>0. TypeOK /\ TypeOK' /\ GraphInv /\ a[1] \in Branches
  BY AttemptParts DEF IInv, TypeInv, GraphInv
<1>1. CASE attempt[a] # "RUNNING"
  <2>1. UNCHANGED <<graphVars, attempt>>
    BY <1>1 DEF CancelMutatingAttempt
  <2>2. \A c \in 1..MaxClaims : executor'[a][c] \in {executor[a][c], "none"} \/ attempt[a] \notin {"ABSENT", "QUEUED"}
    BY DEF IInv, ExecutorsFit
  <2> QED BY <2>1, <2>2, WorkStep
<1>2. CASE attempt[a] = "RUNNING"
  <2>1. /\ attempt' = [attempt EXCEPT ![a] = "INDETERMINATE"]
        /\ SettleBranch(a[1], "CANCELLED")
    BY <1>2 DEF CancelMutatingAttempt
  <2>2. \A d \in Attempts : attempt'[d] = IF d = a THEN "INDETERMINATE" ELSE attempt[d]
    BY <1>0, <2>1 DEF TypeOK
  <2>3. node[a[1]] = "RUNNING"
    BY <1>2, LiveIsLast DEF IInv
  <2>4. "CANCELLED" \in Settled
    BY DEF Settled
  <2>5. /\ GraphFits' /\ JoinFits' /\ OverIsStill'
        /\ node'[a[1]] = "CANCELLED" /\ \A d \in Branches \ {a[1]} : node'[d] = node[d]
        /\ Cancelled(run') <=> Cancelled(run)
    BY <1>0, <2>1, <2>3, <2>4, SettleFits
  <2>6. Over("INDETERMINATE")
    BY DEF Over, AttemptStates
  <2> QED BY <1>0, <1>2, <2>2, <2>5, <2>6, EndStep
<1> QED
  BY <1>1, <1>2

LEMMA ReaperRest == ASSUME IInv, TypeInv', NEW a \in Attempts, ReaperStep(a) PROVE Rest'
<1> USE DEF jobVars, graphVars
<1>0. TypeOK /\ GraphInv /\ a[1] \in Branches
  BY AttemptParts DEF IInv, TypeInv, GraphInv
<1>1. CASE ListOrphan(a)
  BY <1>1, LookStep DEF ListOrphan
<1>2. CASE InspectOrphan(a)
  <2>1. attempt[a] \notin {"ABSENT", "QUEUED"}
    BY <1>2 DEF InspectOrphan, IInv, ReaperFits
  <2>2. \E pc \in {"cancel", "terminate"} : Reaping(a, pc)
    BY <1>2 DEF InspectOrphan
  <2> QED BY <1>2, <2>1, <2>2, LookStep DEF InspectOrphan
<1>3. CASE CancelOrphan(a)
  <2>1. \A d \in Attempts : reaper'[d] \in {reaper[d], "none"}
    BY <1>0, <1>3 DEF CancelOrphan, Reaping, TypeOK
  <2> QED BY <1>3, <2>1, CancelMutatingRest DEF CancelOrphan
<1>4. CASE TerminateInterruptedAttempt(a)
  <2>1. CASE attempt[a] # "RUNNING"
    BY <1>4, <2>1, LookStep DEF TerminateInterruptedAttempt
  <2>2. CASE attempt[a] = "RUNNING"
    <3>1. PICK s \in {"INDETERMINATE", "LOST"} : attempt' = [attempt EXCEPT ![a] = s]
      BY <1>4, <2>2 DEF TerminateInterruptedAttempt
    <3>2. Over(s) /\ s # "SUCCEEDED" /\ \A d \in Attempts : attempt'[d] = IF d = a THEN s ELSE attempt[d]
      BY <1>0, <3>1 DEF TypeOK, Over, AttemptStates
    <3>3. node[a[1]] = "RUNNING"
      BY <2>2, LiveIsLast DEF IInv
    <3>4. UNCHANGED <<graphVars, jobVars, executor>> /\ Reaping(a, "decide")
      BY <1>4, <2>2 DEF TerminateInterruptedAttempt
    <3>5. \A d \in Attempts : reaper'[d] = reaper[d] \/ (d = a /\ reaper'[d] = "decide")
      BY <1>0, <3>4 DEF Reaping, TypeOK
    <3>6. GraphFits' /\ JoinFits' /\ OverIsStill'
      BY <1>0, <3>4, GraphKeeps
    <3> QED BY <2>2, <3>2, <3>3, <3>4, <3>5, <3>6, EndStep
  <2> QED BY <2>1, <2>2
<1>5. CASE DecideRecovery(a)
  <2>1. \E pc \in {"retry", "none"} : Reaping(a, pc)
    BY <1>5 DEF DecideRecovery
  <2> QED BY <1>5, <2>1, LookStep DEF DecideRecovery
<1>6. CASE RetryOrphan(a)
  <2> DEFINE next == <<a[1], a[2] + 1>>
  <2>1. /\ reaper[a] = "retry" /\ Reaping(a, "none")
        /\ UNCHANGED <<graphVars, intent, jobClaims, jobFenced, wrote, executor, faults>>
    BY <1>6 DEF RetryOrphan
  <2>2. next \in Attempts /\ next[1] = a[1] /\ next[2] = a[2] + 1 /\ a[2] \in Nat
    BY <2>1, NextAttempt, AttemptParts DEF IInv, TypeInv, RetryWithinPolicy
  <2>3. reaper'[a] = "none" /\ \A d \in Attempts : d # a => reaper'[d] = reaper[d]
    BY <1>0, <2>1 DEF Reaping, TypeOK
  <2>4. CASE UNCHANGED <<attempt, jobState, jobOfRun>>
    BY <2>1, <2>3, <2>4, WorkStep
  <2>5. CASE /\ node[a[1]] = "RUNNING"
             /\ attempt' = [attempt EXCEPT ![next] = "QUEUED"]
             /\ jobState' = [jobState EXCEPT ![ExecuteJob(next)] = "AVAILABLE"]
    <3> HIDE DEF next
    <3>1. /\ attempt[a] \notin {"ABSENT", "QUEUED", "RUNNING"}
          /\ \A d \in Attempts : d[1] = a[1] /\ d[2] > a[2] => attempt[d] = "ABSENT"
      BY <2>1 DEF IInv, ReaperFits
    <3>2. attempt[next] = "ABSENT"
      BY <2>2, <3>1
    <3>3. \A d \in Attempts : attempt'[d] = IF d = next THEN "QUEUED" ELSE attempt[d]
      BY <1>0, <2>2, <2>5 DEF TypeOK
    <3>4. ExecuteJob(next) \in Jobs /\ \A d \in Attempts : ExecuteJob(d) \in Jobs /\ (ExecuteJob(d) = ExecuteJob(next) => d = next)
      BY <2>2, JobsNamed, JobsDiffer
    <3>5. /\ jobState'[ExecuteJob(next)] = "AVAILABLE"
          /\ \A d \in Attempts \ {next} : jobState'[ExecuteJob(d)] = jobState[ExecuteJob(d)]
      BY <1>0, <2>5, <3>4 DEF TypeOK
    <3>6. Over(attempt[a]) /\ attempt[a] # "SUCCEEDED" /\ a # next
      BY <1>0, <2>5, <3>1, <3>2 DEF TypeOK, Over, IInv, AttemptsFit
    <3>7. AttemptsFit'
      <4>1. /\ attempt[a] # "ABSENT" /\ Over(attempt'[a]) /\ attempt'[a] # "SUCCEEDED" /\ attempt'[next] = "QUEUED"
            /\ \A d \in Attempts \ {a, next} : attempt'[d] = attempt[d]
        BY <2>2, <3>1, <3>3, <3>6
      <4>2. next = <<a[1], a[2] + 1>> /\ node' = node
        BY <2>1 DEF next
      <4> QED BY <2>2, <2>5, <3>1, <4>1, <4>2, NextFits DEF IInv
    <3>8. \A d \in Attempts : d[1] = next[1] /\ next[2] > d[2] =>
            reaper'[d] = "none" \/ reaper[d] \notin {"decide", "retry"}
      <4> SUFFICES ASSUME NEW d \in Attempts, d[1] = a[1], a[2] + 1 > d[2], d # a,
                          reaper[d] \in {"decide", "retry"}
                   PROVE  FALSE
        BY <2>2, <2>3
      <4>1. d[2] \in Nat /\ a[2] > d[2]
        BY <2>2, AttemptParts
      <4>2. attempt[a] = "ABSENT"
        BY <4>1 DEF IInv, ReaperFits
      <4> QED BY <3>1, <4>2
    <3>9. GraphFits' /\ JoinFits' /\ OverIsStill'
      BY <1>0, <2>1, GraphKeeps
    <3>10. \A d \in Attempts : reaper'[d] \in {reaper[d], "none"}
      BY <2>3
    <3>11. UNCHANGED <<run, branch, jobFenced, executor, jobClaims>>
      BY <2>1
    <3> QED BY <2>2, <3>2, <3>3, <3>5, <3>7, <3>8, <3>9, <3>10, <3>11, QueueStep
  <2> QED BY <1>6, <2>4, <2>5 DEF RetryOrphan
<1> QED
  BY <1>1, <1>2, <1>3, <1>4, <1>5, <1>6 DEF ReaperStep

LEMMA ReaperDiesRest == ASSUME IInv, TypeInv', NEW a \in Attempts, ReaperDies(a) PROVE Rest'
<1>1. \A d \in Attempts : reaper'[d] \in {reaper[d], "none"}
  BY DEF ReaperDies, Reaping, IInv, TypeInv, TypeOK
<1> QED
  BY <1>1, WorkStep DEF ReaperDies, jobVars

LEMMA ExecutorRest == ASSUME IInv, TypeInv', NEW a \in Attempts, NEW c \in 1..MaxClaims, ExecutorStep(a, c) PROVE Rest'
<1> USE DEF jobVars
<1> DEFINE j == ExecuteJob(a)
<1>0. /\ TypeOK /\ TypeOK' /\ GraphInv /\ a[1] \in Branches /\ a[1] \in Nodes
      /\ j \in Jobs /\ \A d \in Attempts : ExecuteJob(d) \in Jobs /\ (ExecuteJob(d) = j => d = a)
  BY AttemptParts, JobsNamed, JobsDiffer, SomeNodes DEF IInv, TypeInv, GraphInv
<1>1. \A pc : At(a, c, pc) =>
        /\ executor'[a][c] = pc
        /\ \A d \in Attempts, e \in 1..MaxClaims : d # a \/ e # c => executor'[d][e] = executor[d][e]
  BY <1>0, AtMeans
<1>2. \A s : attempt' = [attempt EXCEPT ![a] = s] => \A d \in Attempts : attempt'[d] = IF d = a THEN s ELSE attempt[d]
  BY <1>0 DEF TypeOK
<1>3. CASE Admit(a, c)
  <2>0. executor[a][c] = "claimed" /\ UNCHANGED <<jobVars, reaper>>
    BY <1>3 DEF Admit
  <2>1. attempt[a] # "ABSENT"
    BY <2>0 DEF IInv, ExecutorsFit
  <2>2. CASE ~Admissible(a) /\ At(a, c, "returned") /\ UNCHANGED <<graphVars, attempt>>
    <3>1. attempt[a] # "QUEUED" \/ Cancelled(run)
      BY <2>2 DEF Admissible
    <3> QED BY <1>1, <2>0, <2>1, <2>2, <3>1, WorkStep
  <2>3. CASE /\ Admissible(a) /\ At(a, c, "running")
             /\ node' = IF node[a[1]] = "QUEUED" THEN [node EXCEPT ![a[1]] = "RUNNING"] ELSE node
             /\ attempt' = [attempt EXCEPT ![a] = "RUNNING"]
             /\ UNCHANGED <<run, branch>>
    <3>1. attempt[a] = "QUEUED" /\ node[a[1]] \in {"QUEUED", "RUNNING"}
      BY <2>3, LiveIsLast DEF Admissible, IInv
    <3>2. /\ node'[a[1]] = "RUNNING" /\ \A n \in Nodes \ {a[1]} : node'[n] = node[n]
          /\ \A d \in Attempts : attempt'[d] = IF d = a THEN "RUNNING" ELSE attempt[d]
      BY <1>0, <1>2, <2>3, <3>1 DEF TypeOK
    <3>3. run \notin {"CANCELLED", "VERIFYING", "FAILED"}
      BY <1>0, <3>1 DEF IInv, OverIsStill, Live
    <3>4. OverIsStill' /\ JoinFits'
      BY <1>0, <2>3, <3>2, <3>3, SomeNodes DEF OverIsStill, JoinFits, IInv
    <3>5. GraphFits'
      BY <2>3, <3>1, <3>2, SomeNodes DEF GraphFits, IInv, Settled
    <3>6. AttemptsFit'
      BY <3>1, <3>2, SomeNodes, StartFits DEF IInv
    <3>7. Onward /\ \A d \in Attempts : attempt'[d] = "ABSENT" <=> attempt[d] = "ABSENT"
      BY <3>1, <3>2 DEF Onward
    <3>8. ReaperFits'
      BY <2>0, <3>7, ReaperKeeps DEF IInv
    <3>9. ExecutorsFit'
      <4>1. ExecutorsFit /\ (Cancelled(run) => Cancelled(run'))
        BY <2>3 DEF IInv
      <4>2. \A d \in Attempts, e \in 1..MaxClaims :
              \/ executor'[d][e] \in {executor[d][e], "none"}
              \/ d = a /\ e = c /\ executor'[d][e] = "running"
        BY <1>1, <2>3
      <4> QED BY <3>2, <3>7, <4>1, <4>2, ExecutorsKeep
    <3>10. JobsFit'
      <4>1. JobsFit /\ (Cancelled(run) => Cancelled(run'))
        BY <2>3 DEF IInv
      <4>2. \A d \in Attempts : attempt'[d] = "QUEUED" => attempt[d] = "QUEUED"
        BY <3>2
      <4> QED BY <2>0, <3>7, <4>1, <4>2, JobsKeep
    <3>11. OrphanIsNeverHeld'
      <4>1. reaper[a] = "none"
        BY <3>1 DEF IInv, ReaperFits
      <4> SUFFICES ASSUME NEW d \in Attempts, reaper'[d] \in {"listed", "cancel", "terminate"}, attempt'[d] = "RUNNING"
                   PROVE  /\ reaper[d] \in {"listed", "cancel", "terminate"} /\ attempt[d] = "RUNNING"
                          /\ \A e \in 1..MaxClaims :
                               /\ Holds(d, e)' => Holds(d, e)
                               /\ executor'[d][e] \in {"running", "writing"} => executor[d][e] \in {"running", "writing"}
        BY OrphansKeep DEF IInv
      <4>2. d # a /\ reaper[d] = reaper'[d]
        BY <2>0, <4>1
      <4>3. \A e \in 1..MaxClaims : executor'[d][e] = executor[d][e]
        BY <1>1, <2>3, <4>2
      <4> QED BY <2>0, <3>2, <4>2, <4>3 DEF Holds, ExecuteJob
    <3> QED BY <3>4, <3>5, <3>6, <3>8, <3>9, <3>10, <3>11 DEF Rest
  <2> QED BY <1>3, <2>2, <2>3 DEF Admit
<1>4. CASE BlockAdmission(a, c)
  <2>0. attempt[a] = "QUEUED" /\ UNCHANGED <<intent, jobVars, wrote, reaper, faults>>
    BY <1>4 DEF BlockAdmission, Admissible
  <2>1. CASE At(a, c, "none") /\ UNCHANGED <<graphVars, attempt>>
    BY <1>1, <2>0, <2>1, WorkStep
  <2>2. CASE /\ node[a[1]] = "QUEUED" /\ BlockNode(a[1])
             /\ attempt' = [attempt EXCEPT ![a] = "BLOCKED"]
             /\ At(a, c, "returned")
    <3>1. /\ GraphFits' /\ JoinFits' /\ OverIsStill'
          /\ node'[a[1]] = "BLOCKED" /\ \A d \in Branches \ {a[1]} : node'[d] = node[d]
          /\ Cancelled(run') <=> Cancelled(run)
      BY <1>0, <2>2, BlockFits
    <3>2. Over("BLOCKED") /\ \A d \in Attempts : attempt'[d] = IF d = a THEN "BLOCKED" ELSE attempt[d]
      BY <1>2, <2>2 DEF Over, AttemptStates
    <3>3. \A d \in Attempts, e \in 1..MaxClaims :
            executor'[d][e] \in {executor[d][e], "none"} \/ (d = a /\ executor'[d][e] = "returned")
      BY <1>1, <2>2
    <3> QED BY <2>0, <3>1, <3>2, <3>3, EndStep
  <2> QED BY <1>4, <2>1, <2>2 DEF BlockAdmission
<1>5. CASE AcquireWriteLease(a, c)
  <2>1. /\ executor[a][c] = "running" /\ UNCHANGED <<graphVars, attempt, jobVars, reaper>>
        /\ \E pc \in {"writing", "none"} : At(a, c, pc)
    BY <1>5 DEF AcquireWriteLease
  <2>2. attempt[a] # "ABSENT"
    BY <2>1 DEF IInv, ExecutorsFit
  <2> QED BY <1>1, <2>1, <2>2, WorkStep
<1>6. CASE FinalizeExecutionAttempt(a, c)
  <2>0. /\ executor[a][c] \in {"running", "writing"} /\ At(a, c, "none")
        /\ UNCHANGED <<intent, jobClaims, jobOfRun, jobFenced, wrote, reaper, faults>>
    BY <1>6 DEF FinalizeExecutionAttempt
  <2>1. \A d \in Attempts, e \in 1..MaxClaims : executor'[d][e] \in {executor[d][e], "none"}
    BY <1>1, <2>0
  <2>2. CASE UNCHANGED <<graphVars, attempt, jobState>>
    BY <2>0, <2>1, <2>2, WorkStep
  <2>3. CASE attempt[a] = "RUNNING" /\ MayRetry(a) /\ Retry(a)
    <3> DEFINE next == <<a[1], a[2] + 1>>
    <3>1. next \in Attempts /\ next[1] = a[1] /\ next[2] = a[2] + 1 /\ a[2] \in Nat
      BY <2>3, NextAttempt, AttemptParts DEF MayRetry
    <3>2. /\ attempt' = [attempt EXCEPT ![a] = "FAILED", ![next] = "QUEUED"]
          /\ jobState' = [jobState EXCEPT ![j] = "SUCCEEDED", ![ExecuteJob(next)] = "AVAILABLE"]
          /\ UNCHANGED graphVars
      BY <2>3 DEF Retry
    <3>3. node[a[1]] = "RUNNING" /\ \A d \in Attempts : d[1] = a[1] /\ d[2] > a[2] => attempt[d] = "ABSENT"
      BY <2>3, LiveIsLast DEF IInv
    <3>4. attempt[next] = "ABSENT" /\ next # a
      BY <2>3, <3>1, <3>3
    <3>5. ExecuteJob(next) \in Jobs /\ \A d \in Attempts : (ExecuteJob(d) = ExecuteJob(next) => d = next)
      BY <3>1, JobsNamed, JobsDiffer
    <3>6. next = <<a[1], a[2] + 1>>
      OBVIOUS
    <3> HIDE DEF next
    <3>7. /\ attempt'[a] = "FAILED" /\ attempt'[next] = "QUEUED"
          /\ \A d \in Attempts \ {a, next} : attempt'[d] = attempt[d]
      BY <1>0, <3>1, <3>2, <3>4 DEF TypeOK
    <3>8. /\ jobState'[j] = "SUCCEEDED" /\ jobState'[ExecuteJob(next)] = "AVAILABLE"
          /\ \A d \in Attempts \ {a, next} : jobState'[ExecuteJob(d)] = jobState[ExecuteJob(d)]
      <4> HIDE DEF j
      <4> QED BY <1>0, <3>1, <3>2, <3>4, <3>5 DEF TypeOK, j
    <3>9. AttemptsFit'
      <4>1. Over(attempt'[a]) /\ attempt'[a] # "SUCCEEDED" /\ node' = node
        BY <3>2, <3>7 DEF Over, AttemptStates, graphVars
      <4> QED BY <2>3, <3>1, <3>3, <3>6, <3>7, <4>1, NextFits DEF IInv
    <3>10. \A d \in Attempts : d[1] = next[1] /\ next[2] > d[2] => reaper[d] \notin {"decide", "retry"}
      <4> SUFFICES ASSUME NEW d \in Attempts, d[1] = a[1], a[2] + 1 > d[2], reaper[d] \in {"decide", "retry"}
                   PROVE  FALSE
        BY <3>1
      <4>1. attempt[d] # "RUNNING" /\ \A e \in Attempts : e[1] = d[1] /\ e[2] > d[2] => attempt[e] = "ABSENT"
        BY DEF IInv, ReaperFits
      <4>2. d # a /\ d[2] \in Nat
        BY <2>3, <4>1, AttemptParts
      <4>3. d[2] # a[2]
        BY <4>2, AttemptParts
      <4> QED BY <2>3, <3>1, <4>1, <4>2, <4>3
    <3>11. GraphFits' /\ JoinFits' /\ OverIsStill'
      BY <1>0, <3>2, GraphKeeps
    <3>12. /\ \A d \in Attempts \ {next} :
                attempt'[d] = attempt[d] \/ (attempt[d] = "RUNNING" /\ attempt'[d] = "FAILED")
           /\ \A d \in Attempts \ {next} :
                \/ jobState'[ExecuteJob(d)] = jobState[ExecuteJob(d)] /\ jobClaims'[ExecuteJob(d)] = jobClaims[ExecuteJob(d)]
                \/ attempt'[d] = "FAILED" /\ jobState'[ExecuteJob(d)] = "SUCCEEDED"
      BY <2>0, <2>3, <3>7, <3>8
    <3>13. UNCHANGED <<run, branch, jobFenced, reaper, jobClaims>>
      BY <2>0, <3>2 DEF graphVars
    <3> QED BY <2>1, <3>1, <3>4, <3>7, <3>8, <3>9, <3>10, <3>11, <3>12, <3>13, QueueStep
  <2>4. ASSUME attempt[a] = "RUNNING", NEW s \in Reports(a, c), attempt' = [attempt EXCEPT ![a] = s],
               JobSucceeds(j), IF s = "BLOCKED" THEN BlockNode(a[1]) ELSE SettleBranch(a[1], s)
        PROVE  Rest'
    <3>1. s \in {"FAILED", "BLOCKED", "SUCCEEDED", "CANCELLED"}
      BY DEF Reports
    <3>2. node[a[1]] = "RUNNING"
      BY <2>4, LiveIsLast DEF IInv
    <3>3. /\ GraphFits' /\ JoinFits' /\ OverIsStill'
          /\ node'[a[1]] = s /\ \A d \in Branches \ {a[1]} : node'[d] = node[d]
          /\ Cancelled(run') <=> Cancelled(run)
      <4>1. CASE s = "BLOCKED"
        BY <1>0, <2>4, <3>2, <4>1, BlockFits
      <4>2. CASE s # "BLOCKED"
        <5>1. s \in Settled /\ SettleBranch(a[1], s)
          BY <2>4, <3>1, <4>2 DEF Settled
        <5> QED BY <1>0, <3>2, <5>1, SettleFits
      <4> QED BY <4>1, <4>2
    <3>4. Over(s) /\ \A d \in Attempts : attempt'[d] = IF d = a THEN s ELSE attempt[d]
      BY <1>2, <2>4, <3>1 DEF Over, AttemptStates
    <3>5. \A d \in Attempts :
            \/ jobState'[ExecuteJob(d)] = jobState[ExecuteJob(d)] /\ jobClaims'[ExecuteJob(d)] = jobClaims[ExecuteJob(d)]
            \/ d = a /\ jobState'[ExecuteJob(d)] = "SUCCEEDED"
      BY <1>0, <2>0, <2>4 DEF JobSucceeds, TypeOK
    <3> QED BY <2>0, <2>1, <2>4, <3>1, <3>3, <3>4, <3>5, EndStep
  <2> QED BY <1>6, <2>2, <2>3, <2>4 DEF FinalizeExecutionAttempt
<1>7. CASE CancelExecution(a, c)
  <2>1. /\ executor[a][c] = "writing" /\ CancelMutatingAttempt(a) /\ At(a, c, "returned")
        /\ UNCHANGED <<jobVars, wrote, reaper, faults>>
    BY <1>7 DEF CancelExecution
  <2>2. /\ \A d \in Attempts, e \in 1..MaxClaims :
             executor'[d][e] \in {executor[d][e], "none"} \/ (d = a /\ executor'[d][e] = "returned")
        /\ \A e \in 1..MaxClaims : executor'[a][e] \in {executor[a][e], "none"} \/ executor[a][e] = "writing"
    BY <1>1, <2>1
  <2> QED BY <2>1, <2>2, CancelMutatingRest
<1>8. CASE CompleteJob(a, c)
  <2>1. /\ executor[a][c] = "returned" /\ At(a, c, "none")
        /\ UNCHANGED <<graphVars, attempt, jobClaims, jobFenced, reaper>>
        /\ \/ Holds(a, c) /\ JobSucceeds(j)
           \/ UNCHANGED jobState
    BY <1>8 DEF CompleteJob
  <2>2. attempt[a] = "QUEUED" => Cancelled(run)
    BY <2>1 DEF IInv, ExecutorsFit
  <2>3. \A d \in Attempts :
          \/ jobState'[ExecuteJob(d)] = jobState[ExecuteJob(d)]
          \/ d = a /\ jobState[ExecuteJob(d)] = "LEASED" /\ jobState'[ExecuteJob(d)] = "SUCCEEDED"
    BY <1>0, <2>1 DEF Holds, JobSucceeds, TypeOK
  <2> QED BY <1>1, <2>1, <2>2, <2>3, WorkStep
<1> QED
  BY <1>3, <1>4, <1>5, <1>6, <1>7, <1>8 DEF ExecutorStep

LEMMA ExecutorDiesRest ==
  ASSUME IInv, TypeInv', NEW a \in Attempts, NEW c \in 1..MaxClaims, ExecutorDies(a, c) PROVE Rest'
<1>1. \A d \in Attempts, e \in 1..MaxClaims : executor'[d][e] \in {executor[d][e], "none"}
  BY AtMeans DEF ExecutorDies, IInv, TypeInv
<1> QED
  BY <1>1, WorkStep DEF ExecutorDies, jobVars

LEMMA CancelRest == ASSUME IInv, TypeInv', CancelRun PROVE Rest'
<1>0. TypeOK /\ \A a \in Attempts : ExecuteJob(a) \in Jobs /\ ExecuteJob(a) # CoordinatorJob
  BY JobsNamed, JobsDiffer DEF IInv, TypeInv
<1>1. /\ run' = "CANCELLING" /\ UNCHANGED <<node, branch, attempt, jobClaims, executor, reaper>>
      /\ \A a \in Attempts :
           LET j == ExecuteJob(a) IN
           jobState'[j] = jobState[j] \/ (jobState[j] = "AVAILABLE" /\ jobState'[j] = "CANCELLED")
  BY <1>0 DEF CancelRun
<1>2. GraphFits' /\ OverIsStill'
  BY <1>1 DEF IInv, GraphFits, OverIsStill
<1>3. JoinFits'
  BY <1>1 DEF IInv, JoinFits
<1>4. AttemptsFit'
  BY <1>1, AttemptsKeep DEF IInv
<1>5. ReaperFits'
  BY <1>1 DEF IInv, ReaperFits
<1>6. Cancelled(run')
  BY <1>1 DEF Cancelled
<1>7. ExecutorsFit'
  BY <1>1, <1>6 DEF IInv, ExecutorsFit
<1>8. JobsFit'
  <2> SUFFICES ASSUME NEW a \in Attempts
               PROVE  LET j == ExecuteJob(a) IN
                      /\ jobState'[j] = "ABSENT" <=> attempt'[a] = "ABSENT"
                      /\ jobState'[j] = "ABSENT" => jobClaims'[j] = 0
                      /\ jobState'[j] = "AVAILABLE" => jobClaims'[j] < MaxClaims
    BY <1>6 DEF JobsFit, ExecuteJob
  <2> QED BY <1>1 DEF IInv, JobsFit
<1>9. OrphanIsNeverHeld'
  BY <1>1 DEF IInv, OrphanIsNeverHeld, Holds, ExecuteJob
<1> QED
  BY <1>2, <1>3, <1>4, <1>5, <1>7, <1>8, <1>9 DEF Rest

LEMMA QuiesceRest ==
  ASSUME IInv, TypeInv', run = "CANCELLING", Quiesce, UNCHANGED <<jobFenced, executor, reaper>>,
         \A a \in Attempts : /\ jobState'[ExecuteJob(a)] = jobState[ExecuteJob(a)]
                             /\ jobClaims'[ExecuteJob(a)] = jobClaims[ExecuteJob(a)]
  PROVE  Rest'
<1>0. GraphInv /\ TypeOK /\ TypeOK' /\ Cancelled(run)
  BY DEF IInv, GraphInv, TypeInv, Cancelled
<1>1. /\ GraphFits' /\ JoinFits' /\ OverIsStill'
      /\ \A b \in Branches : node'[b] = IF b \in ToCancel THEN "CANCELLED" ELSE node[b]
      /\ Cancelled(run')
  BY <1>0, QuiesceFits
<1>2. \A d \in Attempts : attempt'[d] = IF attempt[d] = "QUEUED" THEN "CANCELLED" ELSE attempt[d]
  BY DEF Quiesce
<1>3. Onward /\ \A d \in Attempts : attempt'[d] = "ABSENT" <=> attempt[d] = "ABSENT"
  BY <1>2 DEF Onward
<1>4. AttemptsFit'
  BY <1>0, <1>1, <1>2, SweepFits DEF IInv
<1>5. ReaperFits'
  BY <1>3, ReaperKeeps DEF IInv
<1>6. ExecutorsFit'
  BY <1>1, <1>3, ExecutorsKeep DEF IInv
<1>7. JobsFit'
  <2>1. JobsFit /\ \A d \in Attempts : attempt'[d] # "QUEUED"
    BY <1>2 DEF IInv
  <2> QED BY <1>1, <1>3, <2>1, JobsKeep
<1>8. OrphanIsNeverHeld'
  BY <1>2 DEF IInv, OrphanIsNeverHeld, Holds, ExecuteJob
<1> QED
  BY <1>1, <1>4, <1>5, <1>6, <1>7, <1>8 DEF Rest

LEMMA CoordinatorRest == ASSUME IInv, TypeInv', CancelRunCoordinator PROVE Rest'
<1>0. TypeOK /\ CoordinatorJob \in Jobs /\ \A a \in Attempts : ExecuteJob(a) \in Jobs /\ ExecuteJob(a) # CoordinatorJob
  BY JobsNamed, JobsDiffer DEF IInv, TypeInv
<1>1. /\ jobFenced' = jobFenced
      /\ \A a \in Attempts : /\ jobState'[ExecuteJob(a)] = jobState[ExecuteJob(a)]
                             /\ jobClaims'[ExecuteJob(a)] = jobClaims[ExecuteJob(a)]
  <2>1. CASE Deliver(CoordinatorJob, {})
    BY <1>0, <2>1, DeliverOthers
  <2>2. CASE ~Deliver(CoordinatorJob, {})
    BY <1>0, <2>2 DEF CancelRunCoordinator, TypeOK
  <2> QED BY <2>1, <2>2
<1>2. UNCHANGED <<executor, reaper>>
  BY DEF CancelRunCoordinator
<1>3. CASE UNCHANGED <<graphVars, intent, attempt>>
  BY <1>1, <1>2, <1>3, WorkStep
<1>4. CASE run = "CANCELLING" /\ Quiesce
  BY <1>1, <1>2, <1>4, QuiesceRest
<1> QED
  BY <1>3, <1>4 DEF CancelRunCoordinator

LEMMA IInvStep == ASSUME IInv, [Next]_vars PROVE IInv'
<1>1. TypeInv'
  BY TypeStep, RetryStep DEF IInv, TypeInv
<1>2. Rest'
  <2>1. CASE UNCHANGED vars
    BY <2>1, WorkStep DEF vars, graphVars
  <2>2. CASE SweepStrandedIntent
    BY <1>1, <2>2, QuiesceRest DEF SweepStrandedIntent, jobVars
  <2> QED
    BY <1>1, <2>1, <2>2, AdvanceRest, ScheduleRest, HandlerFailsRest, ClaimRest, LoseRest, ReaperRest,
       ReaperDiesRest, ExecutorRest, ExecutorDiesRest, CancelRest, CoordinatorRest DEF Next
<1> QED
  BY <1>1, <1>2 DEF IInv, Rest

LEMMA IInvInit == ASSUME Init PROVE IInv
<1> USE DEF Init
<1> USE JobsNamed, SomeNodes
<1>1. TypeInv
  BY EngineAssumption DEF TypeInv, TypeOK, RetryWithinPolicy, RunStates, NodeStates, AttemptStates, Settled
<1>2. GraphFits /\ OverIsStill
  BY DEF GraphFits, OverIsStill
<1>3. JoinFits
  BY EngineAssumption DEF JoinFits, Settled
<1>4. AttemptsFit
  BY AttemptParts DEF AttemptsFit, OneLiveAttempt, LiveAttempts, AttemptsOf
<1>5. ReaperFits /\ OrphanIsNeverHeld /\ ExecutorsFit
  BY DEF ReaperFits, OrphanIsNeverHeld, ExecutorsFit
<1>6. JobsFit
  <2>1. \A a \in Attempts : ExecuteJob(a) \in Jobs /\ ExecuteJob(a) # AdvanceJob
    BY JobsDiffer
  <2> QED BY <2>1 DEF JobsFit
<1> QED
  BY <1>1, <1>2, <1>3, <1>4, <1>5, <1>6 DEF IInv

LEMMA Invariant == Spec => []IInv
BY IInvInit, IInvStep, PTL DEF Spec

(* The reaper works from a list it read earlier; no attempt that is still   *)
(* RUNNING on it is the work of a handler that holds its job's lease.       *)
THEOREM OrphansAreNotHeld == Spec => []OrphanIsNeverHeld
<1>1. IInv => OrphanIsNeverHeld
  BY DEF IInv
<1> QED
  BY <1>1, Invariant, PTL

(* When the run is said to be over, no attempt of it is under way and no    *)
(* branch is open but one that is blocked.                                  *)
THEOREM SettledIsQuiet == Spec => []SettledRunIsQuiet
<1>1. ASSUME IInv, run \in {"CANCELLED", "VERIFYING", "FAILED"}, NEW b \in Branches
      PROVE  LiveAttempts(b) = {} /\ (branch[b] = "ACTIVE" => node[b] = "BLOCKED")
  <2>1. node[b] \notin Live
    BY <1>1, SomeNodes DEF IInv, OverIsStill
  <2>2. LiveAttempts(b) = {}
    BY <1>1, <2>1, LiveIsLast DEF IInv, LiveAttempts, AttemptsOf, Live
  <2>3. branch[b] = "ACTIVE" => node[b] = "BLOCKED"
    BY <1>1, <2>1 DEF IInv, GraphFits, Live, Settled
  <2> QED BY <2>2, <2>3
<1>2. IInv => SettledRunIsQuiet
  BY <1>1 DEF SettledRunIsQuiet
<1> QED
  BY <1>2, Invariant, PTL

(* One success is counted for a node run that succeeded, and none else. *)
LEMMA SuccessIsCounted ==
  ASSUME IInv, NEW b \in Branches
  PROVE  Cardinality({a \in AttemptsOf(b) : attempt[a] = "SUCCEEDED"})
           = IF node[b] = "SUCCEEDED" THEN 1 ELSE 0
<1> DEFINE S == {a \in AttemptsOf(b) : attempt[a] = "SUCCEEDED"}
<1>1. CASE node[b] = "SUCCEEDED"
  <2>1. PICK a \in Attempts : a[1] = b /\ attempt[a] = "SUCCEEDED"
    BY <1>1 DEF IInv, AttemptsFit
  <2>2. S = {a}
    BY <2>1 DEF IInv, AttemptsFit, AttemptsOf
  <2>3. Cardinality({a}) = 1
    BY FS_Singleton
  <2> QED BY <1>1, <2>2, <2>3
<1>2. CASE node[b] # "SUCCEEDED"
  <2>1. S = {}
    BY <1>2 DEF IInv, AttemptsFit, AttemptsOf
  <2>2. Cardinality({}) = 0
    BY FS_EmptySet
  <2> QED BY <1>2, <2>1, <2>2
<1> QED
  BY <1>1, <1>2

(* Attempts, jobs, node runs, tokens and the join agree: one attempt under  *)
(* way at a time, one success for a branch that succeeded, a verdict of the *)
(* join that stands, and no QUEUED attempt left without its job.            *)
THEOREM BranchesDoAgree == Spec => []BranchesAgree
<1>1. ASSUME IInv PROVE BranchesAgree
  <2> USE <1>1 DEF IInv
  <2>1. OneLiveAttempt
    BY DEF AttemptsFit
  <2>2. BranchOutcomesAgree
    BY SuccessIsCounted DEF BranchOutcomesAgree, GraphFits, Settled
  <2>3. JoinVerdictStands
    BY DEF JoinFits, JoinVerdictStands
  <2>4. QueuedAttemptHasJob
    <3> SUFFICES ASSUME run = "RUNNING", NEW a \in Attempts, attempt[a] = "QUEUED"
                 PROVE  \/ jobState[ExecuteJob(a)] = "DEAD"
                        \/ Claimable(ExecuteJob(a))
                        \/ jobState[ExecuteJob(a)] = "LEASED"
      BY DEF QueuedAttemptHasJob
    <3>1. ~Cancelled(run)
      BY DEF Cancelled
    <3>2. jobState[ExecuteJob(a)] \in {"ABSENT", "AVAILABLE", "LEASED", "SUCCEEDED", "DEAD", "CANCELLED"}
      BY JobsNamed DEF TypeInv, TypeOK
    <3>3. jobFenced = {} /\ jobState[ExecuteJob(a)] \notin {"ABSENT", "SUCCEEDED", "CANCELLED"}
          /\ (jobState[ExecuteJob(a)] = "AVAILABLE" => jobClaims[ExecuteJob(a)] < MaxClaims)
      BY <3>1 DEF JobsFit
    <3> QED BY <3>2, <3>3 DEF Claimable
  <2> QED BY <2>1, <2>2, <2>3, <2>4 DEF BranchesAgree
<1> QED
  BY <1>1, Invariant, PTL

=============================================================================
