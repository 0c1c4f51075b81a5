# A verification project for `aw`

`aw` runs agent workflows: it keeps projects, work items and versioned workflow
definitions in one SQLite database, executes each node of a workflow as a
durable job, lets agents write into git worktrees, and carries a result through
completion, approval and release. This directory holds TLA+ modules of its core,
the TLC configurations that model-check them and the theorems TLAPS proves about
them. Paths below are under `src/internal/` unless they start with `docs/`.

To repeat the checks, in this directory: `tlc -config JobQueue.cfg JobQueueMC`
(and likewise for the other configurations, `RunEngineRecovery.cfg` with `RunEngineMC`
and so on), and `tlapm` of each `*_proofs.tla`.

## 1. The system

### How it is built

A modular monolith, `domain <- app <- adapters <- cmd`. One process serves HTTP
and a pool of workers; several worker processes may share the database. Two
facts decide how to model it:

* every state change is a write transaction, and SQLite runs write transactions
  one at a time (`_txlock=immediate`). A transaction is therefore one action,
  and everything *between* two transactions of a handler interleaves with
  everything else;
* asynchronous work is a row of `durable_jobs`, delivered at least once, under a
  lease that may be lost while its handler goes on. Handlers are idempotent by
  checking the state they are about to change, and fenced where they commit by
  the lease's token.

### Inventory

| component | state | operations | what is hard | what makes it correct |
|---|---|---|---|---|
| Job queue and pool (`adapters/sqlite/scheduling.go`, `app/workerpool`) | `durable_jobs` rows; goroutines and their copy of the lease | enqueue, claim, heartbeat, validate, complete, recover, fence; start, shut down, crash | expiry against heartbeat, equal owner names, last claim, cancellation of leased rows | one valid holder, no claim lost, a cancelled run is not claimed, everything settles |
| Write leases (same file) | `write_leases` per workspace and generation | acquire several, heartbeat, validate, release, take over | takeover from a holder that is over, partial sets | one writer per workspace; a fence that only grows |
| Run engine (`app/runtime`: `commands`, `advance`, `schedule`, `completion`) | `workflow_runs`, `node_runs`, `branch_tokens` | start, route, fork, join, schedule, reconcile | branches settling in any order, redelivery | the join decides once and stands; the run ends only when quiet |
| Execution (`execute`, `finalize`, `agent_node_executor_cancellation`) | `execution_attempts` | admit, block, run, report, retry, finalize | executor without its lease, retry against cancellation | one live attempt, one outcome per node run |
| Cancellation (`cancel_run`, `cancel_run_coordinator`) | run state, `run_cancellation_intents`, fences | cancel, sweep | the sweep races every other handler | nothing new starts; the run reaches CANCELLED |
| Recovery reaper (`recovery_reaper`, `app/worker/interruption.go`) | attempts, decisions, its own generation | list, classify, terminate, retry, escalate, resume intents | works from a list read earlier, in several transactions | never acts on a live holder's attempt; never forks an attempt |
| Waits and approvals (`wait`, `approval`) | registrations, requests, timer jobs | register, signal, decide, time out | timer against answer | one outcome |
| Work items, scope, blockers (`app/work`, `retry_blocked_activation`, `cancel_work_item`) | items, blockers, scope requests | activate, block, resolve, reactivate, cancel | resolution against cancellation of the run | a blocker is resolved once and reactivates once |
| Completion (`completion_policy`, `completion_orchestrator`) | VERIFYING runs | sweep, evaluate, rework, complete | a decision on a run that moved on | one decision per run version |
| Workspaces (`workspaceprovision`, `workspacereconcile`, `workspacerelease`) | workspace sets, worktrees | provision, reconcile, release | release against writers and jobs | nothing is released that is used |
| Release sets (`releasesetcommit`, `approvalrelease`) | local commits of several repositories | prepare, commit, approve | one of several steps failing | resumed, not repeated |
| Projections (`projection*`) | rows, checkpoint and lease of each generation, rebuild operations | consume, request, snapshot, build, catch up, cut over, clean up | consumers, builders that lost their job and cleanups share generations; poison half way | no event missed or applied twice; one operation cuts over, once; consumers catch up |
| Messages, attachments, artifacts (`message`, `artifact*`) | rows and content-addressed files | append, attach, sweep | sweep against a new reference | nothing referenced is purged |
| Agent events, activity | append-only rows under a job lease | append | late writers | order per stream |
| Catalog, definitions, compiler, policies | versioned rows | create, publish, archive, validate | little: sequential commands | published versions are immutable |
| Providers, processes, git, probes | outside state | run, stop, probe | I/O | - |
| Delivery (HTTP, CLI, web), kit, gates | none of their own | translate requests | - | - |

The components meet in three ways: a handler's transaction enqueues the next job
(`ADVANCE_RUN` -> `SCHEDULE_NODE_RUN` -> `EXECUTE_NODE`); several actors change
the same rows (executors, coordinator, reaper, commands); and the reducer
`reconcileRunTerminalityTx` at the tail of every transaction that settles
something decides what the run has become.

The hazards, each at its line and with the properties that cover it, are in
`PROJECT.json`.

## 2. Modules

| module | contents |
|---|---|
| `FencedLease` | what a fenced lease promises: abstract, no clock, no owner, no storage |
| `JobQueue` | the queue and the pool; `LeaseSpec` says it implements `FencedLease` |
| `RunEngine` | one run with a fork: node runs, attempts, tokens, jobs, cancellation, reaper |
| `WorkflowGraph` | what the validator accepts, and the routing of one run over any such document, with waits and approvals |
| `WorkspaceSet` | the worktrees of a work item: write leases, quarantine, reconciliation, release |
| `LocalCommit` | local commits of one worktree against its git log, with adoption |
| `WorkItem` | one work item over its runs: blockers, activations taken up again, completion, cancellation of the item |
| `Projection` | one projection of the event journal: its consumers, its generations and their rebuild |
| `JobQueue_proofs`, `RunEngine_proofs`, `WorkflowGraph_proofs`, `WorkflowCommits_proofs`, `WorkspaceSet_proofs`, `LocalCommit_proofs`, `WorkItem_proofs`, `Projection_proofs` | theorems |
| `JobQueueMC`, `RunEngineMC`, `WorkflowGraphMC`, `WorkspaceSetMC`, `LocalCommitMC`, `WorkItemMC`, `ProjectionMC` | values of the constants for TLC |

The modules overlap in the rows they share and cut them apart at a transaction:
`JobQueue` proves what the others assume of a job's lease (a claim, a redelivery,
a handler that goes on without its lease); `RunEngine` looks at attempts and takes
the routing of one small workflow, `WorkflowGraph` looks at the routing of many
workflows and takes an attempt as one step that succeeds, fails or blocks;
`WorkspaceSet` and `LocalCommit` look at what an attempt or an operation does to a
worktree and take the attempt's own life as it is in `RunEngine`. `WorkItem` looks at
several runs of one item, one after the other, and takes a run as branches side by
side whose activations run, end or are blocked. `Projection` reads only the journal that
the transactions of all the others append to, and takes the job of a rebuild as `JobQueue`
gives it.

### `JobQueue`

State: the columns of `durable_jobs` that decide something (`state`, `claims`,
`token`, `owner`, `until` for `lease_until`, `wait` for `available_at`,
`fenced` for `cancel_epoch`), the runs being cancelled and projects archived
that its statements read, the state of each process's pool and, per worker
goroutine, its `leaseBox`. `lastWork` is a history variable: the token under
which the last fenced transaction on a job ran.

Times are what is left of them, so that the states are finite without a bound on
behaviours: `Tick` counts every lease, delay and local copy down together.
A shutdown is taken apart as the code has it: no more claims and no reaper, then
at the end of the grace period the handlers' contexts (and heartbeats) are
cancelled, then `Run` waits for the workers. A crash loses goroutines and keeps
rows. `HeartbeatJob` has the code's three answers: renewed, lost, or an error
that is retried until the local copy has run out.

`HandlerReturns`, `HandlerFails`, `WorkUnderLease` and `FinishUnderLease` are
what any handler may do: a handler checks the lease only in its fenced
transactions, and goes on when it is lost.

### `RunEngine`

The workflow is START -> FORK -> one executable node per branch -> JOIN -> END.
`MaxAttempts` is the attempt policy of each node. Every transaction of the
handlers is an action:

| action | code |
|---|---|
| `AdvanceRun`, `ScheduleNodeRun` | `advanceRunTx` on START with `dispatchForkBranches`; `ScheduleExecutableNodeRun` |
| `EvaluateJoin`, `Reconciled`, `SettleBranch` | `evaluateJoinTx`, `reconcileRunTerminalityTx`: operators, because they run inside every settling transaction |
| `ClaimExecute`, `LeaseExpires`, `LeaseLost`, `CompleteJob`, `Deliver` | what `JobQueue` gives: claims, expiry, delivery at least once |
| `Admit`, `BlockAdmission` | `admitOrClaimRunning`, `blockAdmission` |
| `AcquireWriteLease` | `AcquireWriteLeases`, as a guard on the job's lease |
| `FinalizeExecutionAttempt`, `Retry` | `FinalizeExecutionAttempt` with `decideRetryOrExhaustion`, `requestScopeExpansionTx`, `decideCancelledOutcomeTx` |
| `CancelExecution`, `CancelOrphan` | `finalizeMutatingCancellation`, `finalizeCancelledMutatingOrphan`, both through `cancelMutatingAttemptTx` |
| `CancelRun`, `CancelRunCoordinator`, `SweepStrandedIntent` | `cancelRunTx`, the coordinator's handler, the reaper running it again |
| `ListOrphan`, `InspectOrphan`, `TerminateInterruptedAttempt`, `DecideRecovery`, `RetryOrphan` | one transaction each of the reaper's work on an attempt |
| `ExecutorDies`, `HandlerFails`, `ReaperDies` | crashes and errors between transactions, counted by `MaxFaults` |

`executor[a][c]` is the handler of the c-th claim of attempt a's job, so the
handler of an earlier claim lives on beside the later one. `reaper[a]` is where
the reaper's work on a listed attempt is; two reapers may overlap, so attempts
are worked on independently of each other.

Abstractions: a handler of a single transaction is atomic with its delivery, and
its redelivery after the commit is kept (`Deliver`); lease expiry and the
recovery of the row are one action; optimistic versions are folded into the
state checks made in the same transaction; `TIMED_OUT` is `FAILED`; whether an
error is retryable, a workspace was touched or a checkpoint exists is
nondeterministic; the FORK node run exists only inside START's transaction,
where it is created SUCCEEDED.

### `WorkflowGraph`

`doc` is the document of the run's workflow version: the type of each node, its
edges by outcome, its cycle budget (0 for none) and the mode of its join. `Init`
takes it from the `Candidates` that are `Accepted`, the operator that translates
the validator's rules on topology (start and end, reachability, bounded cycles,
forks and joins, declared outcomes). So what publishing promises is what the
routing is checked against, but for one shape, which `BranchesHaveWork` excludes from
`Accepted`: a fork all of whose branches lead straight to the join. Publishing takes it,
and the transaction that enters the fork decides the join and routes on
(advance.go:1083-1108); here the join of a fork that is entered waits, as a branch with
work to do has an ACTIVE token. A node with two edges chooses between `ok` and `alt`;
for a FORK they are its two branches, for a node with a budget `alt` is the edge
of its escalation.

`rows` are the node runs by node key and activation sequence, each with its
iteration, branch token, registration or request (`reg`), timer job and, for a
join, the sequence of its fork; `tokens` the branch tokens; `run` and `intent` as
in `RunEngine`. A transaction is computed by operators on a *world*, the rows and
tokens it will write, with `ok` false once it would fail: `Create` (a UNIQUE key),
`Activate`, `Dispatch`, `Route`, `EvaluateJoin`, `Settle`, `Advance`, and
`Reconciled` in `Commit` at its tail. Where the code returns early the operators are
IF/ELSE chains: of a CASE whose guards overlap TLC takes the first branch, and the
language any.

| action | code |
|---|---|
| `AdvanceRun`, `StartTask`, `FinishTask`, `FailTask`, `CancelTask` | `advanceRunTx` on structural nodes; an executable node as one step to RUNNING and one to its outcome with the routing that follows |
| `SignalWait`, `ResolveApproval` | a signal, a decision |
| `TimerFires`, `TimerFiresLate`, `TimerDies` | the timer job of a wait or an approval, in time, after the answer, or DEAD |
| `CancelRun`, `CoordinatorSweep` | the cancellation with its sweep of waits and approvals |

Left out of `workflow_graph`: documents with an inner cycle that no budget bounds (`Budgeted`; the
validator accepts them, validation.go:320, and their runs need not end, although
docs/design/06:259 wants each cycle bounded); forks of other than two branches, a
START with two outcomes; an escalation that leads to a join (but for
`workflow_graph_join`) or out of a branch.
A routing defect, which fails the run, is not told apart from a transaction that
does not commit. PAUSE is a WAIT of mode DURATION, as in the code.

### `WorkspaceSet`

The worktrees of a work item, by repository and generation. `tree` is what is on
disk (files clean, dirty or gone, and which attempt moved HEAD), `row` the
recorded state, version and revision, `lease` the write leases, `attempt` and
`executor` the attempts and what their handlers know, `recovery` what the reaper
still has to do for an attempt, `release` the release's job and `releaser` its
handlers, one per claim. `left` bounds the events: cancellations, crashes, lost
and expired leases, reconciliations, revisions recorded.

| action | code |
|---|---|
| `StartRun`, `Retry`, `Admit` | pinning of the newest READY worktrees, the next attempt of a node run, admission with the load of the rows |
| `AcquireWriteLeases`, `ReleaseWriteLeases` | all or none, takeover of a lease that expired or whose holder is not RUNNING, fence + 1; all or none again |
| `Edit`, `FinalizeExecutionAttempt`, `CancelExecution` | the agent in a worktree; the fenced end of an attempt; its cancellation with the quarantine of the worktrees it moved |
| `TerminateInterruptedAttempt`, `QuarantineInterrupted` | the reaper, which compares two columns of the row; the quarantine is a transaction of its own |
| `ReconcileWorkspace`, `AdvanceRevision` | `workspacereconcile`: a changed worktree is quarantined, a clean quarantined one gets a successor; a local commit or an adoption |
| `RequestWorkspaceSetRelease` to `CompleteRelease` | `workspacerelease`: the checks of the request, then worktree by worktree the removal on disk and the row, then the set |
| `LoseJobLease`, `ExecutorDies`, `LeaseExpires`, `LoseRelease`, `ReleaserStops` | faults |

A handler's report and its finalization are one step; a conflict of leases and the
FAILED attempt that follows are one step; a worktree missing at the report counts
as the executor's death. Who may release is left open: the release authority is a
decision of people. A reconciliation's job key can be used once per version
(workspacereconcile/commands.go:226), a release's likewise, and an older
generation that stays QUARANTINED blocks the release. `HeartbeatWriteLeases` has
no caller in the program and no action here.

### `LocalCommit`

`log` is the history of one worktree: whose marker each commit carries, whether its
delivery had lost a lease (`late`), and whether it hides the commit of an open
operation from HEAD (`buries`). `row` is the recorded worktree, its revision a place
in `log`; `op` and `job` the rows of the operations; `lease` the row of
`local_commit_write_leases`. `ex[<<o, k>>]` is the handler of operation o's k-th
delivery. Its steps are those of `execute.go`: `AcquireLocalCommitWriteLease`,
`LoadRepositoryWorkspace`, `FindLocalCommitByMarker`,
`PinReleaseSetLocalCommitParent`, `CreateLocalCommit`, `ResolveHead`, `Finalize` in
one transaction that compares the row's version, or
`QuarantineRepositoryWorkspace`, `FailTerminal`, and
`ReleaseLocalCommitWriteLease`. A crash is a handler that takes no further step
(`JobExpires`, `LeaseExpires`). `AuditHead` and `AdoptWorkspaceHead` are the two
halves of an adoption; `Edit`, `CommitOutside` and `Quarantine` are others in the
worktree.

Not in the model: selected files and parking (CHANGESET_DRIFT), the sealing of a
release set, the approval that requests a commit, resets and amends, generations
of a worktree, the write leases of attempts in an adoption.

### `WorkItem`

`item` is the status of the work item and `intent` its cancellation intent; `run` are
its runs in the order of their start; `node[<<r, b, k>>]` is the k-th activation of
branch b's node in run r (IDLE is RUNNING with no attempt at work, UNROUTED a success
short of the join in a run that is being cancelled); `join` is the state of the run's
JOIN and `swept` are the runs whose own cancellation intent is COMPLETED; `blocker` are
the rows of `work_item_blockers` by kind and by what opened them; `origin` is the scope request's own record of a blocked activation,
and `commit` the local commit an approval of a run asked for. `listed` is what a
completion sweep has read and may still decide, `looked` what an operator has seen and
may still retry. As in `WorkflowGraph`, a transaction is computed by operators on a
*world*: `Opened`, `Closed`, `RunEnded`, `Reconciled` (the reducer at the tail),
`ItemReconciled` (the item's own cancellation), `RunStarted`, `Activated`.

| action | code |
|---|---|
| `MarkWorkItemReady`, `StartWorkflowRun`, `RetryWorkItem`, `CancelWorkItem` | the commands on the item; the retry closes the blockers of its finished runs and starts a run, in one transaction |
| `CancelRun`, `CancelRunCoordinator` | as in `RunEngine`, with the blocker and the item's reconciliation at the end of the run; the coordinator sweeps a run once, its waiting join too, and leaves alone what is RUNNING |
| `Admit`, `FinalizeExecutionAttempt`, `BlockAdmission` | one activation, with `Joined` and `Reconciled` behind it; an attempt that ends as cancelled may complete the run's intent in passing |
| `LeaveRunning` | an attempt is over and its node run stays RUNNING: a technical retry waits, or the worker was lost |
| `RequestScopeExpansion`, `ReactivateBlockedNodeRun`, `CloseScopeExpansion` | an attempt's report that it needs more scope, and the reconciler of scope requests |
| `LoadForRetry`, `RetryBlockedActivation`, `ResolveWorkItemBlocker` | operators: the look before the transaction, and the transaction |
| `RequestApprovalCommit`, `LocalCommitFails` | the local commit that an approval asks for, which fails later and blocks the item |
| `Sweep`, `Pass`, `Block`, `Fail`, `Rework` | `completion_orchestrator` lists; `completion_policy` decides |

Abstractions: branches are joined as by ALL, of the join there is what keeps a cancelled
run from its end, and how branches are routed and executed is in the other modules, so a
routing defect that fails a run is not here; optimistic versions are folded into the states compared; which verdict the rules and the
evidence give is a choice; waived evidence, the replay of a recorded decision and the
sibling item of `RecreateWorkItem` are left out. The reaper's sweep of work item intents
has no action: each transaction that ends a run reconciles the item itself, so it never
finds more to do than they did. A run that stays CANCELLING ends in no transaction, and
its item waits with it: `Stranded` says how that comes about (4, 6 and 11 below), and the
second half of `ItemSettles` excepts it.

### `Projection`

`journal` is `domain_events`, `active` the active generation, `ckpt` and `rows` the
checkpoint and the rows of each generation; `op` the rebuild operations, `job` their jobs.
`proc` is where a process is: a consumer in its round, or the handler of an operation's
k-th delivery. `seen` is the phase the handler last read or wrote: it goes on from there
even when the operation has moved. A handler and a consumer share `RoundStep`, as they
share `applyLeasedBatch`.

| action | code |
|---|---|
| `AcquireActive`, `RoundStep` | `ApplyBatch`: the lease in one transaction; the batch read, then rows and cursor in another, or the poison recorded in a third |
| `RequestProjectionRebuild` | the command: one open operation at a time |
| `Claim`, `Return` | a delivery loads the operation; the pool completes its job |
| `Snapshot`, `SnapshotFails` | `snapshotStep`: rows and cursor of the active generation copied in one transaction, refused if the shadow's checkpoint is there |
| `ValidateJobLease`, `AcquireShadow`, `RecordProgress`, `EnterCuttingOver` | `buildRound`: look at the job, `ReplayGenerationBatch`, `advanceOperation` |
| `FailOperation`, `Cutover`, `StepFails` | the ends of a rebuild, each one transaction with the job, and what refuses them |
| `Cleanup` | `CleanupOrphanedShadowGeneration` with `DiscardGeneration` |
| `CheckpointLeaseExpires`, `CheckpointLeaseLost`, `JobLeaseExpires`, `JobLeaseLost`, `Stop` | time and crashes; what strikes a process that is at work is a fault |
| `AppendEvent`, `Upgrade` | the journal grows; a new version of the program has a reducer for what was poison |

Abstractions: a row is how often each event was applied to it, which tells apart what
order and count can spoil; events a projection skips (another project's, classified
Ignore, the request's own event) are left out of `journal`; STALE is LIVE with more to
come. A fence token is who was granted the lease last, except in a generation that was
discarded and made again, where tokens start over (`FenceMatches`). A lease that ran out
has the holder `Gone` when nobody is at work under it. `MaxGeneration` bounds the model
only; numbers above the operations plus one are not reached. W0 and the cursor of the
cutover are written on the operation for reports and read by nobody, and are left out, as
are command receipts; the project is taken to be ACTIVE. Nothing in the program calls the
cleanup yet: here it may come at any time, for a FAILED operation or, as a fault, for one
whose grace period is said to be over.

## 3. Runs

| run | bounds | about | size |
|---|---|---|---|
| `job_queue` | 2 processes with a worker each and one owner name, a job of a run and the run's coordinator, 2 claims and 1, lease of 2 ticks, 1 stop | safety, `LeaseSpec`, `JobsSettle` | 412 k states |
| `run_engine` | 2 branches, the mutating one with 2 attempts, 2 claims, 1 fault, join ALL | safety, `RunSettles` | 196 k |
| `run_engine_recovery` | 2 branches of 2 attempts, 1 claim, 3 faults, join ANY | `BranchesAgree` through repeated crashes, the join of mode ANY | 1.37 M |
| `workflow_graph` | every accepted document of two families (`Loops`, `Forks` in `WorkflowGraphMC`): any wiring of two nodes; forks of two branches that may be entered again | publishing against routing, answers, transactions that commit, `RunSettles` | 93 k |
| `workspace_set` | 2 attempts, a set of one worktree with 3 events or of two with 1, 2 generations, a release with 2 handlers | writers, quarantine and release | 2.0 M |
| `local_commit` | 2 operations with 2 deliveries each, 4 events | no second commit; records agree with the log | 1.04 M |
| `work_item` | 2 branches, 2 activations of a node, 2 events, a second run being one of them | the item against its runs and blockers, blocked work, cancellation, `ItemSettles` | 272 k |
| `projection` | 1 consumer, 2 operations, the second delivered twice, 2 events in batches of 2, 1 round of catching up, 1 fault, a cleanup of each FAILED operation | generations, operations and jobs against each other; the cutover | 1.37 M |
| `projection_settles` | 2 consumers, 1 operation delivered twice, 2 events, 1 fault | `ProjectionSettles`: rebuilds end, consumers catch up | 195 k |
| `workspace_set_quarantine`, `projection_poison`, `workflow_graph_join` | smaller still | statements of comments that do not hold | |

Why the bounds are enough to be interesting. Two workers are needed for one to
lose what the other gains; with two claims a job is recovered once and given up
once; a lease of two ticks can be renewed, be half way, and run out. Two
branches are the least that can disagree; two attempts give one retry, by the
executor or by the reaper; one fault suffices for an orphan, a redelivery or an
executor without a lease. A claim more than faults keeps a job from going DEAD by
faults alone in `run_engine`; in `run_engine_recovery` one lost lease is enough
for that, and three faults let an executor, the reaper that recovers it and the
next executor all die. The two families of documents hold the cases of the
routing: cycles with a budget, their escalation, a fork that is entered again
and whose join must not count the earlier round's tokens, an empty branch, waits
and approvals with timers. Two worktrees are needed for a set that is partly released or partly
leased; three events on one worktree let a lease be lost, a worker die and a
worktree be replaced in one behaviour. In `local_commit` the requests count as
events: four let both operations be requested and two things happen to them, or
three to one. In `work_item` a second run is what a retry or a late decision on the
first can meet, a second activation is one that was taken up again, and two events let
both branches be blocked, one be blocked while a local commit fails, or one thing go wrong
before or in a second run. Each way in which a run is stranded takes one event or none:
without any one of the disjuncts of `Stranded`, `ItemSettles` is violated. In `projection`
two operations are what it takes for one to meet what the other left behind (a checkpoint,
a late cleanup, a handler that goes on); a batch of two can be full, half full or poisoned
at its second event, after the first was applied. Two consumers in `projection_settles`
take the lease from each other and from the builder whose shadow became active.

All bounds are constants: `MaxStops`, `MaxDelay`, `MaxFaults`, `MaxEvents`,
`MaxGeneration`, `MaxRuns`, `MaxActivations`; `MaxClaims`, `ReleaseClaims` and `MaxAttempts` are the code's own
limits, with smaller values. Deadlock is not checked: when everything is settled
and the events are used up the system rightly stops.

### Properties worth knowing

* `AtMostOneHolder`: two goroutines never both pass `ValidateActiveJob` for a job,
  even under one owner name: the token decides, not the owner.
* `LocalLeaseIsCurrent`: the heartbeat loop's own copy of the expiry is never
  more optimistic than the row, which is what makes its retry on errors safe.
* `CancelledRunIsNotClaimed`: for jobs that carry their run's id, cancellation
  holds through enqueue, claim and recovery.
* `BranchesAgree`, in four parts: executors that lost their lease, retries, the sweep and
  the reaper agree on one attempt (`OneLiveAttempt`) and one outcome for each node run
  (`BranchOutcomesAgree`), the join's verdict is never contradicted
  (`JoinVerdictStands`), and what is QUEUED is not left behind by its job
  (`QueuedAttemptHasJob`).
* `OrphanIsNeverHeld`: an attempt on the reaper's list and still RUNNING is never
  the work of a valid lease holder. It rests on admission taking QUEUED attempts
  only: a redelivered job never takes a RUNNING attempt over.
* `SettledRunIsQuiet`: a run that is over has nothing under way, whoever settled last.
* `OnePlaceAtATime`, `JoinSpeaksForItsFork`, `OverMeansQuiet`:
  in every accepted document the outer path and each branch are in one place at a
  time, a branch lies between its fork and its join, a join speaks for the tokens
  of its own fork's node run although the fork may be entered again, and END is
  reached on one path. `CyclesAreBounded`: a path whose budget is used up leaves the
  cycle (`EscalationLeavesForGood`), and no node is entered more often than its budget
  allows (`BudgetIsKept`), although the runtime looks at the budget of an edge's target
  only, not at that of an exit (advance.go:601) or of a branch's first node (:1111).
* `AnswerStands`: once a wait or an approval is closed, by whoever came first, a
  late timer, signal or decision changes nothing of its node run.
* `RunningWriterOwnsItsWorktrees`: an attempt at work holds every worktree it
  writes, so no two write in one. `ReleaseSparesEarlierWriters`: no worktree is
  removed under an attempt that was granted its leases before the release was
  requested; nothing looks again afterwards, which is why the later ones are not in
  it. `ReleasedSetIsEmpty`, `OneReadyWorktree`: what is recorded as released is
  gone in every generation, and only the newest generation may be written.
* `OperationsTellTheLog`: a replayed delivery makes no second commit and an
  operation's record agrees with the history, for operations whose commits were
  made under the leases and are not hidden from HEAD (9 and 10 below are what
  these exceptions are for). `RevisionOnlyAdvances`: deliveries and adoptions do
  not undo each other, whichever commits last.
* `StatusTellsTheRuns`: the item and its runs are changed by commands, reducers, sweeps
  and local commits that look at each other's rows at different times, and still agree.
  `BlockedWorkIsTakenUpOnce`: a blocked activation goes on at most once, with its
  blocker closed in the same transaction, and nothing that was taken up late is left to
  execute in a run that is over.
* `CancellationStands`: no sweep that listed a run earlier, no retry and no closed blocker
  brings a finished run or item back or starts work for an item to be cancelled.
* `ItemSettles`: a run that verifies is decided, but for the case in 13 below, and the
  cancellation of an item is carried through, unless a run of it is `Stranded`: CANCELLING
  with a node run that is RUNNING and not executed, with an intent that was completed before
  the sweep, or with a join that waits for a branch that is blocked or was not routed to it.
* `RowsFoldTheJournal`: the rows of every generation are the journal up to its cursor, each
  event applied once, although consumers, two deliveries of a builder, snapshots and
  cleanups write them, and although leases change hands between reading and writing.
  `CutoverStands`, `OperationsTellTheGenerations`: of handlers that act on an operation they
  read earlier one cuts over, once; the active generation is always there.
* `ProjectionSettles`: a rebuild ends or its job is DEAD, and the consumers catch up with the
  journal or find poison, whichever generation became active and whose lease was on it.
* `RunSettles` of `RunEngine` and of `WorkflowGraph` name, as alternatives, the states in
  which the code leaves a run to an operator (`Abandoned`, `Undeliverable`, `Unswept`,
  `JoinAwaitsBlocked`, `JoinIsStranded`); `Stranded` of `WorkItem` is what they come to for
  the item of a cancelled run. They are part of what the properties say: everything else
  does end.

### Disagreements between the code and its comments and documents

Shown by a run:

1. `MutationIsQuarantined` (`workspace_set_quarantine`): an attempt that moved HEAD
   before its worker died is INDETERMINATE and its worktree stays READY; the reaper
   compares two columns of the row, of which neither shows what the agent did.
2. `PoisonKeepsOldActive` (`projection_poison`): a builder records a poison event by making
   its shadow DEGRADED, and fails the operation in a later transaction. When it dies in
   between, the next delivery finds a DEGRADED generation, which a round leaves as it is,
   takes that for having caught up and makes it the active one.
3. `JoinIsShared` (`workflow_graph_join`): a branch that reaches its join is to leave only its
   settled token there. Routing looks for a JOIN at the target of the outcome that was
   chosen; when the budget of that target is used up and its escalation leads to the JOIN,
   an edge publishing accepts, the JOIN is activated like any node. Nothing moves that node
   run, the token stays ACTIVE, and the run never ends.

Met while modelling, and part of what the properties except:

4. cancel_run_coordinator.go:133-136 takes a node run that is RUNNING for genuine work after
   the sweep. A technical retry leaves it RUNNING with its next attempt QUEUED; cancelled in
   that window, the run stays CANCELLING with no fault at all. A read-only orphan that is
   escalated ends in the same way (`Abandoned`, an alternative of `RunSettles`; the first
   disjunct of `Stranded` in `WorkItem`).
5. `CancelRun` is said to fence every RUN_WORK job of the run. Jobs are found by `run_id`,
   and only the reaper's retries have one: starting, routing, scheduling and technical
   retries enqueue without it. What keeps a cancelled run from going on is the handlers'
   own look at the run (`CancelStopsAttempts` holds). In `RunEngine` the fence therefore
   reaches the jobs of the reaper's retries alone.
6. A branch that completes a node after the cancellation, short of its join, leaves its
   token ACTIVE; the join waits for it and the run stays CANCELLING (`JoinIsStranded`). A
   BLOCKED branch ends in the same way (`JoinAwaitsBlocked`). In `WorkItem` both are the last
   disjunct of `Stranded`.
7. A fork's branches get the sequences after the fork's own, and each step its own plus
   one, so two branches that pass through one node may give it one sequence; `node_runs`
   is unique on it and the second transaction never commits. One branch is enough when its
   fork is entered again three steps later: a node met at distance 5 in the first round and
   at 2 in the second gets one sequence twice (gate, fork and join on a cycle; TLC finds it
   in a document of eleven nodes). `Tidy` names what a document must be for neither to
   happen, and in every run of a tidy one `NextStepCommits` holds (`EveryTransactionCommits`);
   those of `workflow_graph` are tidy. Publishing does not ask for it, and of every accepted
   document `NextStepCommits` is no theorem.
8. A quarantined worktree answers each delivery of an operation with a lease
   conflict; its job goes DEAD and the operation stays REQUESTED, where
   `handler.go:28-34` has it fail.
9. The marker that tells a redelivery that its commit exists is looked for at HEAD
   only. An outside commit on top of it, before the redelivery, lets the operation
   FAIL although its commit is in the log, or commit a second time, where
   docs/design/08:482 has it found.
10. A delivery that outlives its job's lease and its write lease still commits: git
   is not fenced. And a commit from outside between the pin of the parent, the
   commit and `rev-parse` gives a recorded parent or result that is not the
   commit's own.
11. The intent of a cancelled run is COMPLETED by a mutating attempt that sees the
    cancellation before the coordinator ran. The coordinator then conflicts until its
    job is DEAD, and the reaper does not resume a COMPLETED intent (`Unswept`, an
    alternative of `CancelSettles` in `RunEngine`; the second disjunct of `Stranded` in
    `WorkItem`). An item whose run is left in one of the ways of 4, 6 and here stays with its
    cancellation REQUESTED.
12. The new activation of a REWORK is PENDING with no job (completion_policy.go:868;
    worker.go:604 calls it a known gap), so a run sent back that way does not go on; and
    a run that completion blocked has no blocker, so only a cancellation ends it.
13. `completion_orchestrator.go:60-64` has a run VERIFYING only while its item is
    ACTIVE. A local commit that fails opens RELEASE_FAILED and blocks the item whatever
    the run does; the sweep lists runs of ACTIVE items, and the blocker is not closed
    while the run is unfinished. Only a cancellation leads out (`ItemSettles` excepts
    this case by `HeldByRelease`).
14. A scope blocker whose run has ended stays open: operators may not close it
    (`ResolveWorkItemBlocker`) and the reconciler closes those of RUNNING runs only. The
    item stays BLOCKED until it is cancelled.
15. The shadow of a FAILED operation keeps its checkpoint, and the next operation's shadow
    has the same number. Without a cleanup, which nothing calls, each of its snapshots
    fails until its job is DEAD; the operation stays REQUESTED, and an open operation keeps
    out every later one.
16. A consumer and a rebuild are said to be unable to meet on one generation
    (projectionrebuildworker/execute.go:162). While there is no active generation a
    rebuild makes generation 1 its shadow, and a first consumer then takes that generation
    1 for the active one: both apply to it. Its lease and cursor keep the rows right
    (`RowsFoldTheJournal`).
17. A FAILED operation's shadow is "always safe to discard" (cleanup.go:24). Its number may
    by then be the shadow of a later operation, whose builder brings the generation back
    empty and makes it the active one, to be filled again from the start by what comes
    next. `CutoverStands` names the case, and `OneIsOpen` of `Projection_proofs` that this
    is the only one.

### Fairness

`JobQueue!Fairness`: time passes; workers of a running pool poll (`ClaimJob`);
handlers come back, as every executor runs under the attempt's timeout; the
reaper's ticker fires; a drained pool returns and an operator starts it again.
No fairness for heartbeats, enqueuers, cancellation, shutdown or crashes: a
handler that never renews its lease is allowed for. `ClaimJob` is fair per
worker, not per job; with a bounded number of jobs and claims priorities do not
starve anyone. The conditions under which an action can be taken (`TimeRuns`,
`CanClaim`, `CanRecover`, `Drained`) are written out instead of ENABLED, so that
TLC evaluates them quickly.

`RunEngine!Fairness`: a job that stays claimable is delivered (`JobsSettle`), an
executor takes its next step, the lease of a handler that is gone runs out, and
the reaper takes its next step on a listed attempt and sweeps intents. None for
`CancelRun` and for faults.

`WorkflowGraph!FairSpec` is weak fairness of `Work` (jobs are delivered until they
are done, an execution ends, a timer job fires unless it is DEAD) and of
`CoordinatorSweep`. Nobody has to signal, decide or cancel, and which outcome a
node chooses is not fair. `ProgressSpec` is what this comes to when steps do not go
on for ever, with ENABLED spelled out as `CanWork`. `RunEnds` holds although nobody
answers, as in the documents checked every wait and approval has a timer.

`WorkItem!Fairness` is weak fairness of `Program` as a whole: what the program does by
itself (the coordinator's job, the completion sweep and its decisions, executions that
end) does not stop altogether while some of it can go on. No fairness for operators:
nobody has to answer, retry, resolve or cancel. That is less than what delivery at least
once gives, and enough.

`Projection!FairSpec`: a consumer that can take a step takes it, a delivery is made and a
handler goes on, and a lease that nobody works under runs out, of a job or of a generation.
`driveProjections` calls the consumers for ever, the pool delivers, and time passes. No
fairness for requests, events, upgrades, cleanups and faults.

`WorkspaceSet` and `LocalCommit` state safety only.

## 4. Proofs

`JobQueue_proofs` proves, for every set of jobs, workers, processes and runs and
every value of the bounds, from the assumptions `JobsAssumption`,
`WorkersAssumption`, `TimeAssumption` and `NoneAssumption`:

* `TypeCorrect`: `Spec => []TypeOK`. `TypeOK` is inductive.
* `MutualExclusion`: `Spec => []AtMostOneHolder`. What is inductive is that a
  worker's token is at most its job's and that two busy workers on one job have
  different tokens (`TokensDistinct`): a claim takes a token above all earlier
  ones. Mutual exclusion follows because a holder's token equals the row's.
* `ClaimsAreKept`: `Spec => []NoClaimIsLost`, with the number of claims bounded
  by `MaxClaims` in the invariant.
* `CopyIsCurrent`: `Spec => []LocalLeaseIsCurrent`. A row whose holder may still think
  it has the lease is never waiting to be claimed (`CopyIsBehindRow`): it is leased with
  the worker's token and no earlier expiry, or settled. It is put back in the queue
  only when its lease, and so every copy of it, has run out.
* `CancelStopsClaims`: the action property `CancelledRunIsNotClaimed`, from the
  invariant that work of a cancelled run that is not settled is fenced
  (`CancelledWorkIsFenced`): the fence of `CancelRun` and the refusal in
  `enqueueJobTx` together leave no gap.
* `QueueImplementsLease`: `Spec => LeaseSpec`. Each step of the queue maps to a
  step of `FencedLease` or a stutter: claims to `Grant`, fenced work to `Commit`,
  the pool's completion to `Settle`, `Tick` to `Lapse`, recovery and
  cancellation to `Close`.

`RunEngine_proofs` proves, for any branches, attempt policies, join mode and
bounds, from `EngineAssumption`:

* `EngineTypeCorrect`: `Spec => []TypeOK`. `TypeOK` alone is not inductive: the
  transaction of the reaper that enqueues the next attempt does not look at the
  attempt policy, so the job it names exists only because `DecideRecovery` looked
  earlier. `RetryWithinPolicy` carries that over the gap between the two.
* `CancelStopsNewAttempts`: `Spec => CancelStopsAttempts`. In a cancelled run
  admission, technical retry and the reaper's retry are each refused by a check of
  their own; `CancelledStep` goes through the steps that change an attempt and
  finds that the others only end one, or create the first of a node run.
* `OrphansAreNotHeld`: `Spec => []OrphanIsNeverHeld`, `SettledIsQuiet`: `Spec =>
  []SettledRunIsQuiet`, and `BranchesDoAgree`: `Spec => []BranchesAgree`. The three need
  one inductive invariant, `IInv`, because each table is written by handlers that have
  looked at the others only:
  - `GraphFits`: a token is there with its node run and settles with it. `JoinFits`: the
    tokens that can still succeed only become fewer, so a verdict of the join stands; END
    and VERIFYING follow a join that succeeded. `OverIsStill`: no node run is under way
    in a run that is over.
  - `AttemptsFit`: the attempts of a node run come in order, one of them live, and the one
    that succeeded is what its node run succeeded by.
  - `ReaperFits`: the reaper works on attempts that were started, and creates the next
    attempt of one that is over and was the last. `ExecutorsFit`: an executor is at work
    only on an attempt that was started. Together with `OrphanIsNeverHeld` itself these are what
    a listing of the reaper is worth after any number of other steps.
  - `JobsFit`: an attempt and its job are there together, and the job of a QUEUED attempt
    is over only by its claims or by the run's cancellation.

  `EngineAssumption` says that a FORK has finitely many branches and at least one
  (validation.go refuses one without): a join over no branch is decided of nothing.

`WorkspaceSet_proofs` proves, for any repositories, generations, attempts and bounds, from
`SetAssumption`. One inductive invariant, `IInv`, serves all of it:

* `TypeCorrect`: `Spec => []TypeOK`, with the pins and grants typed exactly (`Typed`).
* `WritersOwn`: `Spec => []RunningWriterOwnsItsWorktrees`, and `NoSharedWorktree`: of two
  running attempts at work none has a worktree the other pinned. `GrantsFollowPins` says
  that a batch is granted in whole or not at all, and that an attempt that has not begun
  knows no token that a late release could use.
* `ReadyIsNewest`: `Spec => []OneReadyWorktree`. `GenerationsInOrder`: the generations of a
  repository follow one another without a gap and only the last one is READY, so the
  next generation is the one that a recreation adds.
* `ReleasedIsEmpty`: `Spec => []ReleasedSetIsEmpty`. What a releaser works from is a list it
  read when it claimed the job. `ReleaseCoversTheSet`: what it has behind it is
  released, and the entries name every worktree, or one that they name is quarantined,
  which no releaser gets past. That is why what was recreated after the request cannot be missed.
* `EarlierWritersSpared`: `Spec => ReleaseSparesEarlierWriters`. `EarlierWritersAreDone`
  carries what the request saw of the leases to a removal any number of steps later:
  from the request on, who runs and works either was granted late or has nothing pinned.

`LocalCommit_proofs` proves, for any operations, deliveries and number of events,
from `CommitAssumption`:

* `TypeCorrect`: `Spec => []TypeOK`.
* `RevisionAdvances`: `Spec => RevisionOnlyAdvances`. The invariant `SnapshotsHold`
  is about what a delivery or an adoption carries: a version it read of the row is
  never newer than the row's, and while the row has that version, what will be
  recorded is not behind what is recorded. Each write raises the version and a
  write with an old one is refused; the comparison of versions is enough, and the
  write leases are not needed for it.
* `LogIsTold`: `Spec => []OperationsTellTheLog`. `OperationKnows` says that the commit of an
  open operation, if there is one, is at HEAD as long as it is not buried: that is where
  the next delivery looks, so it makes no second one. `DeliveryKnows` says what a look is
  worth later: a delivery that found no marker knows that there is no commit as long as it
  has the job (whoever else commits for the operation does so late), and that no other
  operation has committed after its parent as long as it has the write lease. The first
  keeps commits from being doubled, the second is why the recorded range is the
  operation's; neither lease does both. The claim about a COMMITTED operation turns out
  to hold without the proviso about late and buried commits.

`WorkItem_proofs` proves, for any branches, runs, activations and events, from
`ItemAssumption` (what a branch makes of the join decides when a cancelled run ends, not
whether the rows agree: the safety theorems hold for any state of the join):

* `TypeCorrect`: `Spec => []TypeOK`. Runs are started one after the other
  (`InOrder`); without it the run that `RunStarted` starts need not be one of `Runs`.
* `EndsAreFinal`: `Spec => CancellationStands`. `Consistent` says what the rows of an item
  agree on: from the request to cancel it on, its runs are finished or being cancelled;
  the request is completed exactly when the item is CANCELLED, and never pending for one
  that is DONE. That is why no verdict of completion meets a cancelled item: a run that
  verifies belongs to an item nobody has asked to cancel (`VerifyingRun`); `Rework` does
  not look at the item, and need not. `Follows` is
  `EndsStand` between two worlds; it is transitive (`FollowsOn`), so each operator has a
  lemma that it keeps a world consistent and follows from it, and an action is the chain
  of its operators.
* `StatusTells`: `Spec => []StatusTellsTheRuns`. `Told` says it of a world, and that a request
  to cancel is pending only while a run is under way: a run that ends then takes the item
  with it, and a `RetryWorkItem` or `StartWorkflowRun` meets no unfinished run. With
  `Consistent` that is inductive, and each operator has its lemma again. The last blocker to
  close may let an item go on because whoever closes it has looked at the runs: the ones who
  take work up ask for a RUNNING run, `ResolveWorkItemBlocker` that all are finished
  (`ClosedTells`).
* `TakenUpOnce`: `Spec => []BlockedWorkIsTakenUpOnce`. `WorkFits` is the strengthening: the
  activations of a branch are the first n and all but the last of them are over or blocked
  (`Chained`); what is not blocked has no blocker of its own (`HoldFits`); a run verifies
  when each branch has succeeded last, and a run that is over or verifies has no last
  activation to execute (`RunFits`). That is why a `Rework` leaves nothing blocked behind it.
  `OriginFits` ties a report to its blocker: one that is still PENDING has it open, so nobody
  else took the activation up (`PendingReport`).

`Projection_proofs` proves, for any consumers, operations, deliveries, batches, rounds and
bounds, from `ProjectionAssumption`:

* `TypeCorrect`: `Spec => []TypeOK`. `TypeOK` is not inductive: what a handler works on is
  a generation only because of what it saw. `HandlersKnow` says what that is worth later: an
  operation seen started has a shadow and is started or over, and while the handler holds
  the job its phase is the one that was seen or a final one. `OneIsOpen` says that one
  operation at a time is open, and what can have become of its shadow. The three together
  are inductive (`Known`), by `Outside`, `RoundStep` and `Handling`, the three kinds of steps.
* `RowsAreFolded`: `Spec => []RowsFoldTheJournal`, with a cursor of 0 in a generation that
  is not there (`FoldedAt`). A batch is the events after the cursor it was read at, and the
  transaction that applies it compares the cursor; who holds which lease is not needed.
* `OperationsTell`: `Spec => []OperationsTellTheGenerations`, inductive with `Known`: when an
  operation cuts over no other is started, so the active generation never passes a shadow.
* `CutoverIsSafe`: `Spec => CutoverStands`, a fact about single steps from `Known`.

`WorkflowGraph_proofs` proves, for any finite documents, of any size, that `Accepted` takes
(an assumption on constants, `GraphAssumption`, says only what a document is), in the shape
section 2 gives them and without the forks that `BranchesHaveWork` excludes (the lemmas do
not use it; it is there so that the model they are about is the code's). "Every accepted
document" below means these:

* `GraphIsSound`: `Spec => []GraphInv`, the inductive invariant. Most of it is `Sound`, which
  is said of a document and a world, so that every operator of a transaction has a lemma
  that it takes a sound world to a sound one (`Activated`, `JoinsMeet`, `Dispatched`,
  `Entered`, `Routed`, `JoinEvaluated`, `Settled`, `Advanced`, `SweptIsSound`); an action is
  one of these and `Commits`. `Keeps`, that what is not live is not touched, and `Moves`,
  that an ACTIVE token has a live node run, are carried along the same chain. The parts:
  - `OneAfterAnother`: the node runs of a path (an outer path, a branch) have different
    sequences, all but the last are over, and each leads to the later ones by edges of the
    document, from an exhausted node by its exit. `OuterOnly`, `BranchesLieWithin`: forks
    and ENDs are on the outer path, a branch within the region its fork gives it.
  - `HasFork`: a token or a join's node run has its fork's. `OuterPathAwaits`: while a token
    is ACTIVE nothing follows its fork on the outer path but the join, not decided yet. So
    one fork at a time is under way, and the sequences of two rounds do not mix.
  - `OpenWhileWaiting`, `JoinsSpeak`: what the properties say, of any world.
  - `RunFits`: the run's state agrees with its node runs and with the intent.
* What links the validator's walk to this are the lemmas on `Closure`: as many steps as there
  are nodes reach a set that no edge leaves (`ClosureIsClosed`), the least one
  (`ClosureIsLeast`). With them `ExitLeaves` (an exit does not lead back), `Regions` (a
  branch stays in its region up to the join), `JoinsOfForks` and `NothingAfterEnd` hold of
  every accepted document. `Closure` is a recursive function; that it exists is proved too
  (`Iterates`), from well-foundedness, as the induction theorems of the library cannot be
  used.
* `TypeIsKept`, `OverIsQuiet`, `PathsAreOne`, `JoinsDecideByTheirFork`, `EscalationIsFinal`:
  `TypeOK`, `OverMeansQuiet`, `OnePlaceAtATime`, `JoinSpeaksForItsFork`,
  `EscalationLeavesForGood` are invariants. Reconciliation may look at the latest node runs
  alone because what is live is the last of its path and END has no way on.
* `FirstAnswerStands`: `Spec => AnswerStands`, of every step (`EveryStep`).

The safety theorems need no assumption on two branches giving one node one sequence (7
above): that transaction does not commit, and what holds of the state before goes on to hold.
They include the documents of `workflow_graph_join`: a JOIN that is activated like any node
is stuck, but does no harm to the others.

`WorkflowCommits_proofs` goes on from there, from the same assumption:

* `EveryTransactionCommits`: `Spec => [](Tidy(doc) => NextStepCommits)`. A document is `Tidy`
  when a node belongs to one branch or to the outer path; when no escalation leads to a join
  or out of a fork; and when a branch of a fork that can be entered again gives each of its
  nodes one distance from the fork. The validator could check each of the three. The theorem
  is for all of them; TLC evaluates in `DocumentsAreTidy` that the accepted documents of
  `workflow_graph` are among them.
  - `GraphInv` says which node runs follow which, and not where they are. `Placed` says it: a
    node run of the outer path is at an outer node, one of a branch at a node of that branch,
    with the sequence that its distance from the fork gives. `Numbered` says that the node
    runs of a node have different iterations, those not skipped within the node's budget.
    `OrderInv`, the three together, is inductive.
  - `PlaceIsFree`: the node and sequence a path goes to next have no node run. On its own
    path sequences grow; another path has it neither at an outer node nor in another
    branch; and two rounds of one branch count one distance from two sequences.
  - With it each operator *succeeds*: from a world that is `Fine` (sound, in order, not failed) it
    leads to one (`ActivateSucceeds` up to `AdvanceSucceeds`, `EndedSucceeds`, `SweepSucceeds`),
    along the chain of `WorkflowGraph_proofs`, whose lemmas on what a transaction writes
    (`EvaluateJoinIs`, `AnsweredRow`, `SweepFollows`) serve both.
  - That a used up budget has an exit (`NoDefect`) holds of every accepted document.
* `CyclesEnd`: `Spec => [](Tidy(doc) => CyclesAreBounded)`, from the same invariant; as
  iterations differ, a node has one node run for each iteration at most. `Route` keeps to
  the budget of the node an edge leads to. Where the code does not look at the budget, it is
  not used yet:
  - The first node of a branch. All node runs of a node with a budget are of one path
    (`OnePathOnly`), and the path of a branch begins there. For a fork with a budget in a branch is
    never entered again (`BudgetedBranch`): the exit stays in the branch, from everywhere in a
    branch the join can be reached (`BranchesReachTheJoin`), and a fork's loop passes its
    join (`LoopsPassTheJoin`), so the exit would lead back to the node.
  - An exit. Had the path been at the exit before, the exit would reach the exhausted node
    again, which `ExitLeaves` excludes.

Only model-checked: all liveness (`JobsSettle`, both `RunSettles`, `ItemSettles`,
`ProjectionSettles`), as the provers do not handle fairness and ENABLED. Every invariant and
every other action property of the passing runs is a theorem, `NextStepCommits` and
`CyclesAreBounded` with the hypothesis `Tidy(doc)` (half of the latter, `EscalationIsFinal`,
without it).

## 5. Plan

Done: the modules of section 2. Left, in order:

1. Provisioning of workspaces and the sealing of release sets.
2. The retention sweep of artifacts against new references.
3. A QUORUM join over three branches, as a run of `RunEngine`.

## 6. Not modelled, and why

Executors, providers, git and the file system are I/O: what they return is a
nondeterministic choice (`Reports`, `Edit`, `CommitOutside`). Evidence, shared state,
context snapshots, events and activity are data no property here tells apart.
In `RunEngine` BLOCKED is final, so properties that mention it speak of the time
before an operator acts; what happens then is in `WorkItem`, where an attempt is one
step. Forks all of whose branches lead straight to the join are accepted by the validator and
not by `Accepted` (`WorkflowGraph` in section 2). Provisioning and baselines, the sealing of a release set, selected files and
parking, and the evaluation of completion rules are not modelled. The components listed as `not_modelled` in
`PROJECT.json` have their reason there.
