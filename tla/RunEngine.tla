----------------------------- MODULE RunEngine ------------------------------
(***************************************************************************)
(* One workflow run: its node runs, execution attempts and branch tokens,  *)
(* the jobs that drive them, cancellation of the run, and the recovery     *)
(* reaper (internal/app/runtime).                                          *)
(*                                                                         *)
(* The workflow is START -> FORK -> one executable node per branch ->      *)
(* JOIN -> END.  Every action on the database is one write transaction of  *)
(* the code; what interleaves is what happens between them: executors of   *)
(* several branches, a handler whose lease ran out and that goes on, the   *)
(* reaper working from a list read earlier, a cancellation at any moment.  *)
(*                                                                         *)
(* Jobs are what JobQueue promises of them: a job is delivered at least    *)
(* once while it has claims left, to one valid lease at a time.  A lease   *)
(* that expires and the row's recovery are one action here.                *)
(***************************************************************************)
EXTENDS Naturals, FiniteSets

CONSTANTS
  Branches,    \* the branches of the fork; each names its executable node
  Mutating,    \* the branches whose node mounts a repository for writing
  JoinMode,    \* "ALL", "ANY" or "QUORUM"
  QuorumCount,
  MaxAttempts, \* [Branches -> Nat \ {0}], maxAttempts of the node's attempt policy
  MaxClaims,   \* max_claims of every job
  MaxFaults,   \* bound: crashes, lost leases and failed handlers in a behaviour
  None         \* no branch

ASSUME EngineAssumption ==
  /\ IsFiniteSet(Branches) /\ Branches # {}  \* a FORK without branches is rejected
  /\ Mutating \subseteq Branches
  /\ JoinMode \in {"ALL", "ANY", "QUORUM"}
  /\ QuorumCount \in Nat
  /\ MaxAttempts \in [Branches -> Nat \ {0}]
  /\ MaxClaims \in Nat \ {0}
  /\ MaxFaults \in Nat
  /\ None \notin Branches
  /\ Branches \intersect {"START", "JOIN", "END"} = {}

(* The FORK node run is created SUCCEEDED in the transaction that routes START. *)
Nodes == Branches \union {"START", "JOIN", "END"}
Attempts == UNION {{b} \X (1..MaxAttempts[b]) : b \in Branches}

AdvanceJob == <<"ADVANCE_RUN", None, 0>>
ScheduleJob(b) == <<"SCHEDULE_NODE_RUN", b, 0>>
ExecuteJob(a) == <<"EXECUTE_NODE", a[1], a[2]>>
CoordinatorJob == <<"CANCEL_RUN_COORDINATOR", None, 0>>

RunWork == {AdvanceJob} \union {ScheduleJob(b) : b \in Branches}
             \union {ExecuteJob(a) : a \in Attempts}
Jobs == RunWork \union {CoordinatorJob}

VARIABLES
  run,       \* workflow_runs.state
  intent,    \* run_cancellation_intents.state, "NONE" before there is one
  node,      \* node_runs.state, "ABSENT" before the row exists
  branch,    \* branch_tokens.state, "ABSENT" before the row exists
  attempt,   \* execution_attempts.state, "ABSENT" before the row exists
  jobState,  \* durable_jobs.state, "ABSENT" before the row exists
  jobClaims, \* durable_jobs.claim_count, which is also the number of the last lease
  jobOfRun,  \* the jobs enqueued with a run_id
  jobFenced, \* the jobs whose cancel_epoch is set
  wrote,     \* the attempts that acquired a write lease
  executor,  \* executor[a][c]: where the EXECUTE_NODE handler of the c-th claim is
  reaper,    \* reaper[a]: what the recovery reaper is about to do with a
  faults     \* bound: faults so far

jobVars == <<jobState, jobClaims, jobOfRun, jobFenced>>
graphVars == <<run, node, branch>>
vars == <<run, intent, node, branch, attempt, jobState, jobClaims, jobOfRun,
          jobFenced, wrote, executor, reaper, faults>>

Cancelled(r) == r \in {"CANCELLING", "CANCELLED"}

Init ==
  /\ run = "RUNNING"
  /\ intent = "NONE"
  /\ node = [n \in Nodes |-> IF n = "START" THEN "RUNNING" ELSE "ABSENT"]
  /\ branch = [b \in Branches |-> "ABSENT"]
  /\ attempt = [a \in Attempts |-> "ABSENT"]
  /\ jobState = [j \in Jobs |-> IF j = AdvanceJob THEN "AVAILABLE" ELSE "ABSENT"]
  /\ jobClaims = [j \in Jobs |-> 0]
  /\ jobOfRun = {}
  /\ jobFenced = {}
  /\ wrote = {}
  /\ executor = [a \in Attempts |-> [c \in 1..MaxClaims |-> "none"]]
  /\ reaper = [a \in Attempts |-> "none"]
  /\ faults = 0

------------------------------------------------------------------------------
(* The graph: what a settled branch does to the join and to the run. *)

With(tokens, s) == Cardinality({b \in Branches : tokens[b] = s})

Infeasible(tokens) ==
  CASE JoinMode = "ALL" -> With(tokens, "FAILED") + With(tokens, "CANCELLED") > 0
    [] JoinMode = "ANY" -> With(tokens, "SUCCEEDED") + With(tokens, "ACTIVE") = 0
    [] JoinMode = "QUORUM" ->
         With(tokens, "SUCCEEDED") + With(tokens, "ACTIVE") < QuorumCount

(* Mutant: a join of mode ANY does not wait for the branches still under way. *)
SatisfiedEarly(tokens) ==
  CASE JoinMode = "ALL" -> With(tokens, "SUCCEEDED") = Cardinality(Branches)
    [] JoinMode = "ANY" -> With(tokens, "SUCCEEDED") >= 1
    [] JoinMode = "QUORUM" -> With(tokens, "SUCCEEDED") >= QuorumCount

Satisfied(tokens) ==
  /\ With(tokens, "ACTIVE") = 0
  /\ CASE JoinMode = "ALL" -> With(tokens, "SUCCEEDED") = Cardinality(Branches)
       [] JoinMode = "ANY" -> With(tokens, "SUCCEEDED") >= 1
       [] JoinMode = "QUORUM" -> With(tokens, "SUCCEEDED") >= QuorumCount

(* evaluateJoinTx: the join is created on its first evaluation and decided  *)
(* once; a satisfied join routes to END, unless the run is being cancelled. *)
EvaluateJoin(nodes, tokens) ==
  IF nodes["JOIN"] \notin {"ABSENT", "WAITING"} THEN nodes
  ELSE IF Infeasible(tokens) THEN [nodes EXCEPT !["JOIN"] = "FAILED"]
  ELSE IF ~Satisfied(tokens) THEN [nodes EXCEPT !["JOIN"] = "WAITING"]
  ELSE IF Cancelled(run) THEN [nodes EXCEPT !["JOIN"] = "SUCCEEDED"]
  ELSE [nodes EXCEPT !["JOIN"] = "SUCCEEDED", !["END"] = "SUCCEEDED"]

(* Mutant: a RUNNING node run does not count as live. *)
LiveNotRunning == {"PENDING", "QUEUED", "WAITING"}

Live == {"PENDING", "QUEUED", "RUNNING", "WAITING"}

(* reconcileRunTerminalityTx: the run's next state, given its node runs. *)
Reconciled(nodes) ==
  LET live == \E n \in Nodes : nodes[n] \in Live
      blocked == \E n \in Nodes : nodes[n] = "BLOCKED"
  IN IF run = "CANCELLING" /\ ~live THEN "CANCELLED"
     ELSE IF run # "RUNNING" \/ live \/ blocked THEN run
     ELSE IF nodes["END"] = "SUCCEEDED" THEN "VERIFYING" ELSE "FAILED"

(* A branch's node run settles as s and its token with it, the join is      *)
(* evaluated and the run reconciled.                                        *)
SettleBranch(b, s) ==
  LET tokens == [branch EXCEPT ![b] = s]
      nodes == EvaluateJoin([node EXCEPT ![b] = s], tokens)
  IN /\ branch' = tokens
     /\ node' = nodes
     /\ run' = Reconciled(nodes)

(* Mutant: the token of a blocked branch settles with its node run. *)
BlockNodeAndToken(b) == SettleBranch(b, "BLOCKED")

(* A node run is put in BLOCKED with a blocker on its work item. *)
BlockNode(b) ==
  /\ node' = [node EXCEPT ![b] = "BLOCKED"]
  /\ run' = Reconciled(node')
  /\ UNCHANGED branch

------------------------------------------------------------------------------
(* Jobs. *)

Claimable(j) ==
  jobState[j] = "AVAILABLE" /\ jobClaims[j] < MaxClaims /\ j \notin jobFenced

(* The state a claimed job goes back to when its lease runs out at claim c. *)
Redelivery(c) == IF c >= MaxClaims THEN "DEAD" ELSE "AVAILABLE"

(* A handler of one transaction is delivered: it completes its job, or it   *)
(* dies between its commit and that, and the job comes back.  The jobs in   *)
(* "new" are enqueued by the transaction.                                   *)
Deliver(j, new) ==
  \E s \in {"SUCCEEDED", Redelivery(jobClaims[j] + 1)} :
    /\ jobState' = [i \in Jobs |-> IF i = j THEN s
                                   ELSE IF i \in new THEN "AVAILABLE" ELSE jobState[i]]
    /\ jobClaims' = [jobClaims EXCEPT ![j] = @ + 1]
    /\ IF s = "SUCCEEDED" THEN UNCHANGED faults
       ELSE faults < MaxFaults /\ faults' = faults + 1
    /\ UNCHANGED <<jobOfRun, jobFenced>>

(* The handler fails or dies before its transaction commits. *)
HandlerFails(j) ==
  /\ Claimable(j)
  /\ faults < MaxFaults
  /\ faults' = faults + 1
  /\ jobState' = [jobState EXCEPT ![j] = Redelivery(jobClaims[j] + 1)]
  /\ jobClaims' = [jobClaims EXCEPT ![j] = @ + 1]
  /\ UNCHANGED <<graphVars, intent, attempt, jobOfRun, jobFenced, wrote, executor, reaper>>

(* ADVANCE_RUN on START: route it into the fork, once.  A run being         *)
(* cancelled is routed no further.                                          *)
AdvanceRun ==
  /\ Claimable(AdvanceJob)
  /\ IF node["START"] # "RUNNING"
     THEN UNCHANGED graphVars /\ Deliver(AdvanceJob, {})
     ELSE IF Cancelled(run)
     THEN /\ node' = [node EXCEPT !["START"] = "SUCCEEDED"]
          /\ run' = Reconciled(node')
          /\ UNCHANGED branch
          /\ Deliver(AdvanceJob, {})
     ELSE /\ node' = [n \in Nodes |-> IF n = "START" THEN "SUCCEEDED"
                                      ELSE IF n \in Branches THEN "PENDING" ELSE node[n]]
          /\ branch' = [b \in Branches |-> "ACTIVE"]
          /\ UNCHANGED run
          /\ Deliver(AdvanceJob, {ScheduleJob(b) : b \in Branches})
  /\ UNCHANGED <<intent, attempt, wrote, executor, reaper>>

(* SCHEDULE_NODE_RUN: the node run gets its first attempt; the run's state  *)
(* is not looked at.                                                        *)
ScheduleNodeRun(b) ==
  /\ Claimable(ScheduleJob(b))
  /\ IF node[b] # "PENDING"
     THEN UNCHANGED <<node, attempt>> /\ Deliver(ScheduleJob(b), {})
     ELSE /\ node' = [node EXCEPT ![b] = "QUEUED"]
          /\ attempt' = [attempt EXCEPT ![<<b, 1>>] = "QUEUED"]
          /\ Deliver(ScheduleJob(b), {ExecuteJob(<<b, 1>>)})
  /\ UNCHANGED <<run, branch, intent, wrote, executor, reaper>>

------------------------------------------------------------------------------
(* EXECUTE_NODE: the handler of claim c of attempt a's job.  It is at       *)
(* "claimed", "running" (attempt RUNNING), "writing" (and holding a write   *)
(* lease) or "returned" (without error, before the pool completes the job). *)

Holds(a, c) == jobState[ExecuteJob(a)] = "LEASED" /\ jobClaims[ExecuteJob(a)] = c

At(a, c, pc) == executor' = [executor EXCEPT ![a][c] = pc]

JobSucceeds(j) == jobState' = [jobState EXCEPT ![j] = "SUCCEEDED"]

ClaimExecute(a) ==
  LET j == ExecuteJob(a) IN
  /\ Claimable(j)
  /\ jobState' = [jobState EXCEPT ![j] = "LEASED"]
  /\ jobClaims' = [jobClaims EXCEPT ![j] = @ + 1]
  /\ At(a, jobClaims[j] + 1, "claimed")
  /\ UNCHANGED <<graphVars, intent, attempt, jobOfRun, jobFenced, wrote, reaper, faults>>

(* Mutant: a redelivered job takes over an attempt that is already RUNNING. *)
AdmissibleAgain(a) == attempt[a] \in {"QUEUED", "RUNNING"} /\ ~Cancelled(run)

(* admitOrClaimRunning goes on only with a QUEUED attempt of a run that is not cancelled. *)
Admissible(a) == attempt[a] = "QUEUED" /\ ~Cancelled(run)

(* The job's lease is not looked at here. *)
Admit(a, c) ==
  /\ executor[a][c] = "claimed"
  /\ \/ /\ ~Admissible(a)
        /\ At(a, c, "returned")
        /\ UNCHANGED <<graphVars, attempt>>
     \/ /\ Admissible(a)
        /\ At(a, c, "running")
        /\ node' = IF node[a[1]] = "QUEUED" THEN [node EXCEPT ![a[1]] = "RUNNING"] ELSE node
        /\ attempt' = [attempt EXCEPT ![a] = "RUNNING"]
        /\ UNCHANGED <<run, branch>>
  /\ UNCHANGED <<intent, jobVars, wrote, reaper, faults>>

(* blockAdmission: a capability or a grant is missing.  Only a QUEUED node  *)
(* run can be blocked: for a retry the transaction and the handler fail.    *)
BlockAdmission(a, c) ==
  /\ executor[a][c] = "claimed"
  /\ Admissible(a)
  /\ IF node[a[1]] = "QUEUED"
     THEN /\ BlockNode(a[1])
          /\ attempt' = [attempt EXCEPT ![a] = "BLOCKED"]
          /\ At(a, c, "returned")
     ELSE At(a, c, "none") /\ UNCHANGED <<graphVars, attempt>>
  /\ UNCHANGED <<intent, jobVars, wrote, reaper, faults>>

AcquireWriteLease(a, c) ==
  /\ executor[a][c] = "running"
  /\ a[1] \in Mutating
  /\ IF Holds(a, c)
     THEN wrote' = wrote \union {a} /\ At(a, c, "writing")
     ELSE UNCHANGED wrote /\ At(a, c, "none")
  /\ UNCHANGED <<graphVars, intent, attempt, jobVars, reaper, faults>>

(* What an executor may report: success needs the write lease a mutating    *)
(* node works under; CANCELLED is reported of a cancelled run, and not by   *)
(* an executor that may have written.                                       *)
Reports(a, c) ==
  {"FAILED", "BLOCKED"}
    \union (IF a[1] \in Mutating /\ executor[a][c] = "running" THEN {} ELSE {"SUCCEEDED"})
    \union (IF Cancelled(run) /\ executor[a][c] = "running" THEN {"CANCELLED"} ELSE {})

(* Mutant: the job of the next attempt is not enqueued. *)
RetryWithoutJob(a) ==
  /\ attempt' = [attempt EXCEPT ![a] = "FAILED", ![<<a[1], a[2] + 1>>] = "QUEUED"]
  /\ JobSucceeds(ExecuteJob(a))
  /\ UNCHANGED graphVars

(* decideRetryOrExhaustion: the next attempt is QUEUED with a job of its    *)
(* own while the node run stays RUNNING.                                    *)
Retry(a) ==
  LET next == <<a[1], a[2] + 1>> IN
  /\ attempt' = [attempt EXCEPT ![a] = "FAILED", ![next] = "QUEUED"]
  /\ jobState' = [jobState EXCEPT ![ExecuteJob(a)] = "SUCCEEDED",
                                  ![ExecuteJob(next)] = "AVAILABLE"]
  /\ UNCHANGED graphVars

(* Mutant: a cancelled run is retried. *)
MayRetryCancelled(a) == a[2] < MaxAttempts[a[1]]

MayRetry(a) == a[2] < MaxAttempts[a[1]] /\ ~Cancelled(run)

(* FinalizeExecutionAttempt checks the job's lease and that the attempt is  *)
(* RUNNING; it fails, as a whole, when either is not so.  Whether an error  *)
(* is retryable is up to the executor.                                      *)
FinalizeExecutionAttempt(a, c) ==
  /\ executor[a][c] \in {"running", "writing"}
  /\ At(a, c, "none")
  /\ IF ~Holds(a, c) \/ attempt[a] # "RUNNING"
     THEN UNCHANGED <<graphVars, attempt, jobState>>
     ELSE \E s \in Reports(a, c) :
            \/ s = "FAILED" /\ MayRetry(a) /\ Retry(a)
            \/ /\ attempt' = [attempt EXCEPT ![a] = s]
               /\ JobSucceeds(ExecuteJob(a))
               /\ IF s = "BLOCKED" THEN BlockNode(a[1]) ELSE SettleBranch(a[1], s)
  /\ UNCHANGED <<intent, jobClaims, jobOfRun, jobFenced, wrote, reaper, faults>>

(* cancelMutatingAttemptTx, for an executor that may have written and for   *)
(* an orphan that had: no lease is checked, only that the attempt is still  *)
(* RUNNING; the run's cancellation intent is completed in passing.          *)
CancelMutatingAttempt(a) ==
  IF attempt[a] # "RUNNING"
  THEN UNCHANGED <<graphVars, attempt, intent>>
  ELSE /\ attempt' = [attempt EXCEPT ![a] = "INDETERMINATE"]
       /\ SettleBranch(a[1], "CANCELLED")
       /\ intent' = "COMPLETED"

(* The poll saw the cancellation and the process was stopped. *)
CancelExecution(a, c) ==
  /\ executor[a][c] = "writing"
  /\ Cancelled(run)
  /\ CancelMutatingAttempt(a)
  /\ At(a, c, "returned")
  /\ UNCHANGED <<jobVars, wrote, reaper, faults>>

(* The pool completes the job of a handler that returned no error; a lost   *)
(* lease is ignored.                                                        *)
CompleteJob(a, c) ==
  /\ executor[a][c] = "returned"
  /\ IF Holds(a, c) THEN JobSucceeds(ExecuteJob(a)) ELSE UNCHANGED jobState
  /\ At(a, c, "none")
  /\ UNCHANGED <<graphVars, intent, attempt, jobClaims, jobOfRun, jobFenced,
                 wrote, reaper, faults>>

(* The handler's process dies, or the handler fails and leaves the job LEASED. *)
ExecutorDies(a, c) ==
  /\ executor[a][c] # "none"
  /\ faults < MaxFaults
  /\ faults' = faults + 1
  /\ At(a, c, "none")
  /\ UNCHANGED <<graphVars, intent, attempt, jobVars, wrote, reaper>>

(* The lease runs out and the row is recovered: because its handler is gone, ... *)
LeaseExpires(a) ==
  LET j == ExecuteJob(a) IN
  /\ jobState[j] = "LEASED"
  /\ executor[a][jobClaims[j]] = "none"
  /\ jobState' = [jobState EXCEPT ![j] = Redelivery(jobClaims[j])]
  /\ UNCHANGED <<graphVars, intent, attempt, jobClaims, jobOfRun, jobFenced,
                 wrote, executor, reaper, faults>>

(* ... or because the handler is slow: it goes on without the lease. *)
LeaseLost(a) ==
  LET j == ExecuteJob(a) IN
  /\ jobState[j] = "LEASED"
  /\ executor[a][jobClaims[j]] # "none"
  /\ faults < MaxFaults
  /\ faults' = faults + 1
  /\ jobState' = [jobState EXCEPT ![j] = Redelivery(jobClaims[j])]
  /\ UNCHANGED <<graphVars, intent, attempt, jobClaims, jobOfRun, jobFenced,
                 wrote, executor, reaper>>

------------------------------------------------------------------------------
(* Cancelling the run. *)

(* The rows FenceAndCancelRunJobs updates: it finds them by run_id. *)
ToFence == {j \in RunWork \intersect jobOfRun : jobState[j] \in {"AVAILABLE", "LEASED"}}

CancelRun ==
  /\ intent = "NONE"
  /\ run \in {"RUNNING", "VERIFYING"}
  /\ run' = "CANCELLING"
  /\ intent' = "REQUESTED"
  /\ jobFenced' = jobFenced \union ToFence
  /\ jobState' = [j \in Jobs |->
                    IF j = CoordinatorJob THEN "AVAILABLE"
                    ELSE IF j \in ToFence /\ jobState[j] = "AVAILABLE"
                    THEN "CANCELLED" ELSE jobState[j]]
  /\ UNCHANGED <<node, branch, attempt, jobClaims, jobOfRun, wrote, executor, reaper, faults>>

(* Node runs the coordinator cancels: those that wait, and RUNNING ones     *)
(* that never had an attempt.                                               *)
ToCancel ==
  {n \in Nodes : \/ node[n] \in {"PENDING", "QUEUED", "WAITING"}
                 \/ node[n] = "RUNNING" /\ \A a \in Attempts :
                                            a[1] = n => attempt[a] = "ABSENT"}

(* The coordinator's transaction over a run that is CANCELLING.  It fails,  *)
(* as a whole, when someone else has completed the intent.                  *)
Quiesce ==
  /\ intent = "REQUESTED"
  /\ intent' = "COMPLETED"
  /\ attempt' = [a \in Attempts |-> IF attempt[a] = "QUEUED" THEN "CANCELLED" ELSE attempt[a]]
  /\ LET cancelled == [n \in Nodes |-> IF n \in ToCancel THEN "CANCELLED" ELSE node[n]]
         tokens == [b \in Branches |-> IF b \in ToCancel THEN "CANCELLED" ELSE branch[b]]
     IN /\ branch' = tokens
        \* A WAITING join is cancelled before or after the last branch decides it.
        /\ \/ node' = IF tokens = branch THEN cancelled ELSE EvaluateJoin(cancelled, tokens)
           \/ /\ node["JOIN"] = "WAITING"
              /\ node' = EvaluateJoin([cancelled EXCEPT !["JOIN"] = "WAITING"], tokens)
              /\ node'["JOIN"] # "WAITING"
        /\ run' = Reconciled(node')

CancelRunCoordinator ==
  /\ Claimable(CoordinatorJob)
  /\ IF run # "CANCELLING"
     THEN UNCHANGED <<graphVars, intent, attempt>> /\ Deliver(CoordinatorJob, {})
     ELSE \/ Quiesce /\ Deliver(CoordinatorJob, {})
          \/ /\ intent # "REQUESTED"
             /\ jobState' = [jobState EXCEPT ![CoordinatorJob] =
                               Redelivery(jobClaims[CoordinatorJob] + 1)]
             /\ jobClaims' = [jobClaims EXCEPT ![CoordinatorJob] = @ + 1]
             /\ UNCHANGED <<graphVars, intent, attempt, jobOfRun, jobFenced, faults>>
  /\ UNCHANGED <<wrote, executor, reaper>>

(* sweepStrandedRunIntents: the reaper runs the coordinator again for an    *)
(* intent that is still REQUESTED.                                          *)
SweepStrandedIntent ==
  /\ run = "CANCELLING"
  /\ Quiesce
  /\ UNCHANGED <<jobVars, wrote, executor, reaper, faults>>

------------------------------------------------------------------------------
(* The recovery reaper.  It lists orphaned attempts in one transaction and  *)
(* then works on each in several; two reapers may overlap, so the attempts  *)
(* listed are worked on independently.                                      *)

Reaping(a, pc) == reaper' = [reaper EXCEPT ![a] = pc]

(* ListOrphanedRunningExecutionAttempts: RUNNING, and its job not held. *)
ListOrphan(a) ==
  /\ reaper[a] = "none"
  /\ attempt[a] = "RUNNING"
  /\ jobState[ExecuteJob(a)] # "LEASED"
  /\ Reaping(a, "listed")
  /\ UNCHANGED <<graphVars, intent, attempt, jobVars, wrote, executor, faults>>

(* recoverOneAttempt reads whether the attempt has a write lease and, if    *)
(* so, whether its run is cancelled.                                        *)
InspectOrphan(a) ==
  /\ reaper[a] = "listed"
  /\ Reaping(a, IF a \in wrote /\ Cancelled(run) THEN "cancel" ELSE "terminate")
  /\ UNCHANGED <<graphVars, intent, attempt, jobVars, wrote, executor, faults>>

(* finalizeCancelledMutatingOrphan *)
CancelOrphan(a) ==
  /\ reaper[a] = "cancel"
  /\ CancelMutatingAttempt(a)
  /\ Reaping(a, "none")
  /\ UNCHANGED <<jobVars, wrote, executor, faults>>

(* Mutant: the recovery goes on before the attempt is terminated. *)
TerminateInterruptedAttemptLater(a) ==
  /\ reaper[a] = "terminate"
  /\ Reaping(a, IF attempt[a] = "RUNNING" THEN "decide" ELSE "none")
  /\ UNCHANGED <<graphVars, intent, attempt, jobVars, wrote, executor, faults>>

TerminateInterruptedAttempt(a) ==
  /\ reaper[a] = "terminate"
  /\ IF attempt[a] = "RUNNING"
     THEN /\ attempt' = [attempt EXCEPT ![a] = IF a \in wrote THEN "INDETERMINATE" ELSE "LOST"]
          /\ Reaping(a, "decide")
     ELSE Reaping(a, "none") /\ UNCHANGED attempt
  /\ UNCHANGED <<graphVars, intent, jobVars, wrote, executor, faults>>

(* decideRecoveryNextAction: RETRY and FRESH_START lead to a new attempt,   *)
(* ESCALATE records a decision and changes nothing.  Whether the workspace  *)
(* of an INDETERMINATE attempt was touched, and whether there is a          *)
(* checkpoint to start from, is up to the attempt.                          *)
DecideRecovery(a) ==
  /\ reaper[a] = "decide"
  /\ \E mutated \in (IF a \in wrote THEN BOOLEAN ELSE {FALSE}), checkpoint \in BOOLEAN :
       LET again == /\ a[2] < MaxAttempts[a[1]]
                    /\ IF mutated THEN checkpoint ELSE ~Cancelled(run)
       IN Reaping(a, IF again THEN "retry" ELSE "none")
  /\ UNCHANGED <<graphVars, intent, attempt, jobVars, wrote, executor, faults>>

(* retryAttempt and consumeFreshStart: the job is enqueued with its run_id, *)
(* so the queue refuses it, and with it the transaction, for a cancelled    *)
(* run.                                                                     *)
RetryOrphan(a) ==
  LET next == <<a[1], a[2] + 1>> IN
  /\ reaper[a] = "retry"
  /\ Reaping(a, "none")
  /\ IF node[a[1]] = "RUNNING" /\ ~Cancelled(run)
     THEN /\ attempt' = [attempt EXCEPT ![next] = "QUEUED"]
          /\ jobState' = [jobState EXCEPT ![ExecuteJob(next)] = "AVAILABLE"]
          /\ jobOfRun' = jobOfRun \union {ExecuteJob(next)}
     ELSE UNCHANGED <<attempt, jobState, jobOfRun>>
  /\ UNCHANGED <<graphVars, intent, jobClaims, jobFenced, wrote, executor, faults>>

(* The reaper dies, or stops at an error, between two of its transactions. *)
ReaperDies(a) ==
  /\ reaper[a] # "none"
  /\ faults < MaxFaults
  /\ faults' = faults + 1
  /\ Reaping(a, "none")
  /\ UNCHANGED <<graphVars, intent, attempt, jobVars, wrote, executor>>

------------------------------------------------------------------------------
ExecutorStep(a, c) ==
  \/ Admit(a, c)
  \/ BlockAdmission(a, c)
  \/ AcquireWriteLease(a, c)
  \/ FinalizeExecutionAttempt(a, c)
  \/ CancelExecution(a, c)
  \/ CompleteJob(a, c)

ReaperStep(a) ==
  \/ ListOrphan(a)
  \/ InspectOrphan(a)
  \/ CancelOrphan(a)
  \/ TerminateInterruptedAttempt(a)
  \/ DecideRecovery(a)
  \/ RetryOrphan(a)

Next ==
  \/ AdvanceRun
  \/ \E b \in Branches : ScheduleNodeRun(b)
  \/ \E j \in Jobs \ {ExecuteJob(a) : a \in Attempts} : HandlerFails(j)
  \/ \E a \in Attempts : ClaimExecute(a) \/ LeaseExpires(a) \/ LeaseLost(a)
                           \/ ReaperStep(a) \/ ReaperDies(a)
  \/ \E a \in Attempts, c \in 1..MaxClaims : ExecutorStep(a, c) \/ ExecutorDies(a, c)
  \/ CancelRun
  \/ CancelRunCoordinator
  \/ SweepStrandedIntent

Spec == Init /\ [][Next]_vars

(***************************************************************************)
(* Waiting jobs are delivered, executors come back (the attempt's timeout  *)
(* sees to it), the leases of dead handlers run out, and the reaper beats. *)
(* Nothing is assumed of cancellations and faults.                         *)
(***************************************************************************)
Fairness ==
  /\ WF_vars(AdvanceRun)
  /\ \A b \in Branches : WF_vars(ScheduleNodeRun(b))
  /\ WF_vars(CancelRunCoordinator)
  /\ WF_vars(SweepStrandedIntent)
  /\ \A a \in Attempts :
       /\ WF_vars(ClaimExecute(a))
       /\ WF_vars(LeaseExpires(a))
       /\ WF_vars(ReaperStep(a))
       /\ \A c \in 1..MaxClaims : WF_vars(ExecutorStep(a, c))

FairSpec == Spec /\ Fairness

------------------------------------------------------------------------------
(* Properties. *)

RunStates == {"RUNNING", "CANCELLING", "CANCELLED", "VERIFYING", "FAILED"}
NodeStates == {"ABSENT", "PENDING", "QUEUED", "RUNNING", "WAITING", "BLOCKED",
               "SUCCEEDED", "FAILED", "CANCELLED"}
AttemptStates == {"ABSENT", "QUEUED", "RUNNING", "BLOCKED", "SUCCEEDED", "FAILED",
                  "CANCELLED", "LOST", "INDETERMINATE"}
Settled == {"SUCCEEDED", "FAILED", "CANCELLED"}

TypeOK ==
  /\ run \in RunStates
  /\ intent \in {"NONE", "REQUESTED", "COMPLETED"}
  /\ node \in [Nodes -> NodeStates]
  /\ branch \in [Branches -> {"ABSENT", "ACTIVE"} \union Settled]
  /\ attempt \in [Attempts -> AttemptStates]
  /\ jobState \in [Jobs -> {"ABSENT", "AVAILABLE", "LEASED", "SUCCEEDED", "DEAD", "CANCELLED"}]
  /\ jobClaims \in [Jobs -> 0..MaxClaims]
  /\ jobOfRun \subseteq Jobs
  /\ jobFenced \subseteq jobOfRun
  /\ wrote \subseteq Attempts
  /\ executor \in [Attempts -> [1..MaxClaims ->
                     {"none", "claimed", "running", "writing", "returned"}]]
  /\ reaper \in [Attempts -> {"none", "listed", "cancel", "terminate", "decide", "retry"}]
  /\ faults \in 0..MaxFaults

AttemptsOf(b) == {a \in Attempts : a[1] = b}
LiveAttempts(b) == {a \in AttemptsOf(b) : attempt[a] \in {"QUEUED", "RUNNING"}}

(* A node run never has two attempts under way, whether the next one comes  *)
(* from a failure or from the reaper, and nothing follows a live attempt.   *)
(* While one is under way its node run is too: no cancellation, recovery or *)
(* late executor settles the node run over a live attempt.                  *)
OneLiveAttempt ==
  \A b \in Branches : \A a \in LiveAttempts(b) :
    /\ \A n \in AttemptsOf(b) : n[2] > a[2] => attempt[n] = "ABSENT"
    /\ node[b] = "RUNNING" \/ (node[b] = "QUEUED" /\ attempt[a] = "QUEUED")

(* When the run is said to be over, nothing of it is under way: no attempt, *)
(* no branch but one that is blocked.                                       *)
SettledRunIsQuiet ==
  run \in {"CANCELLED", "VERIFYING", "FAILED"} =>
    \A b \in Branches :
      LiveAttempts(b) = {} /\ (branch[b] = "ACTIVE" => node[b] = "BLOCKED")

(* The reaper works from a list read earlier; an attempt on it that is      *)
(* still RUNNING is, at any later time, no valid lease holder's work.       *)
OrphanIsNeverHeld ==
  \A a \in Attempts :
    reaper[a] \in {"listed", "cancel", "terminate"} /\ attempt[a] = "RUNNING" =>
      \A c \in 1..MaxClaims : Holds(a, c) => executor[a][c] \notin {"running", "writing"}

(* A branch settles once and as one thing: its node run and its token       *)
(* agree, and a success is the success of exactly one attempt, whatever     *)
(* executors of earlier attempts still do.                                  *)
BranchOutcomesAgree ==
  \A b \in Branches :
    /\ branch[b] \in Settled <=> node[b] \in Settled
    /\ branch[b] \in Settled => branch[b] = node[b]
    /\ Cardinality({a \in AttemptsOf(b) : attempt[a] = "SUCCEEDED"})
         = IF node[b] = "SUCCEEDED" THEN 1 ELSE 0

(* The successes a join asks for. *)
Needed == CASE JoinMode = "ALL" -> Cardinality(Branches)
            [] JoinMode = "ANY" -> 1
            [] JoinMode = "QUORUM" -> QuorumCount

(* The join is decided as soon as every branch settled, and its verdict     *)
(* stands: whatever branches do later, a join that succeeded has all its    *)
(* branches settled and enough of them succeeded, and one that failed can   *)
(* no longer get enough.                                                    *)
JoinVerdictStands ==
  /\ (\A b \in Branches : branch[b] \in Settled) => node["JOIN"] \in Settled
  /\ node["JOIN"] = "SUCCEEDED" =>
       /\ \A b \in Branches : branch[b] \in Settled
       /\ With(branch, "SUCCEEDED") >= Needed
  /\ node["JOIN"] = "FAILED" => With(branch, "SUCCEEDED") + With(branch, "ACTIVE") < Needed
  /\ run = "VERIFYING" => node["JOIN"] = "SUCCEEDED"

(* A QUEUED attempt of a run that goes on has a job that still leads to it, *)
(* or one that used up its claims: no delivery settles the job and leaves   *)
(* the attempt behind.                                                      *)
QueuedAttemptHasJob ==
  run = "RUNNING" =>
    \A a \in Attempts :
      attempt[a] = "QUEUED" =>
        \/ jobState[ExecuteJob(a)] = "DEAD"
        \/ Claimable(ExecuteJob(a))
        \/ jobState[ExecuteJob(a)] = "LEASED"

(* What attempts, jobs, node runs, tokens and the join say of a branch agrees, *)
(* also when executors, the reaper and the executors it makes room for die one *)
(* after the other.                                                            *)
BranchesAgree == OneLiveAttempt /\ BranchOutcomesAgree /\ JoinVerdictStands /\ QueuedAttemptHasJob

(* Once the run is being cancelled no attempt starts and none is retried,   *)
(* not by the failure of another, nor by a reaper that decided to before.   *)
CancelStopsAttempts ==
  [][Cancelled(run) =>
       \A a \in Attempts :
         /\ attempt'[a] = "RUNNING" => attempt[a] = "RUNNING"
         /\ attempt[a] = "ABSENT" /\ a[2] > 1 => attempt'[a] = "ABSENT"]_vars

(* A RUNNING node run whose attempts are all over and that the reaper is    *)
(* not working on: nothing in the code touches it again.                    *)
Abandoned(b) ==
  /\ node[b] = "RUNNING"
  /\ LiveAttempts(b) = {}
  /\ \A a \in AttemptsOf(b) : reaper[a] = "none"

(* A QUEUED attempt whose job used up its claims. *)
Undeliverable(b) ==
  \E a \in AttemptsOf(b) : attempt[a] = "QUEUED" /\ jobState[ExecuteJob(a)] = "DEAD"

(* A run goes on to its end, unless it is cancelled or one of its branches  *)
(* waits for an operator: blocked, abandoned by an escalation or a crash of *)
(* the reaper, or QUEUED with a job that is DEAD.                           *)
RunEnds ==
  run = "RUNNING" ~>
    \/ run # "RUNNING"
    \/ \E b \in Branches : node[b] = "BLOCKED" \/ Abandoned(b) \/ Undeliverable(b)

(* What the coordinator's sweep leaves none of: work no one has started. *)
Unswept ==
  \/ \E n \in Nodes : node[n] \in {"PENDING", "QUEUED"}
  \/ \E a \in Attempts : attempt[a] = "QUEUED"

(* A join the last branch to finish created after the sweep, and that waits *)
(* for a blocked branch: nothing cancels it any more.                       *)
JoinAwaitsBlocked ==
  /\ node["JOIN"] = "WAITING"
  /\ \E b \in Branches : node[b] = "BLOCKED"

(* A cancelled run settles, but for the three ways it is known not to: a    *)
(* node run abandoned after a technical retry, an intent completed by         *)
(* a mutating attempt before the sweep, which then fails at each delivery   *)
(* (Unswept), and a join that waits for a blocked branch (JoinIsStranded in *)
(* WorkflowGraph is its like).                                              *)
CancelSettles ==
  run = "CANCELLING" ~>
    \/ run = "CANCELLED"
    \/ \E b \in Branches : Abandoned(b)
    \/ intent = "COMPLETED" /\ (Unswept \/ JoinAwaitsBlocked)

(* Both: whatever fails, a run comes to an end or to an operator. *)
RunSettles == RunEnds /\ CancelSettles
==============================================================================
