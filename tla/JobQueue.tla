------------------------------ MODULE JobQueue ------------------------------
(***************************************************************************)
(* The durable job queue (internal/adapters/sqlite/scheduling.go, table    *)
(* durable_jobs) and the pool of workers that drains it                    *)
(* (internal/app/workerpool/pool.go).                                      *)
(*                                                                         *)
(* Every action on a row is one SQL statement or one write transaction;    *)
(* SQLite runs them one at a time.  What interleaves is everything between *)
(* them: a worker claims a job, its handler runs, its heartbeat goroutine  *)
(* renews the lease, the clock moves, the reaper of any process recovers   *)
(* expired rows, a process dies and comes back under the same owner name.  *)
(*                                                                         *)
(* Times are kept as what is left of them: until[j] > 0 stands for         *)
(* lease_until > now, wait[j] = 0 for available_at <= now.  Tick lets all  *)
(* of them run down together, so the state is finite with no bound on the  *)
(* length of a behaviour.                                                  *)
(***************************************************************************)
EXTENDS Naturals, FiniteSets

CONSTANTS
  Jobs,       \* rows of durable_jobs, one per idempotency key
  Runs,       \* workflow runs
  Projects,
  Procs,      \* processes running a pool
  Workers,    \* worker goroutines
  None,       \* SQL NULL
  JobClass,   \* [Jobs -> {"RUN_WORK", "CONTROL"}], ports.ClassifyJobKind of the kind
  JobRun,     \* [Jobs -> Runs \union {None}], run_id
  JobProject, \* [Jobs -> Projects \union {None}], project_id
  Priority,   \* [Jobs -> Nat]
  MaxClaims,  \* [Jobs -> Nat \ {0}], max_claims
  ProcOf,     \* [Workers -> Procs]
  Owner,      \* [Workers -> STRING], the owner name a worker claims with
  LeaseTTL,   \* ticks a claim or a heartbeat keeps a lease valid
  MaxDelay,   \* [Jobs -> Nat], bound: ticks a job may wait for its available_at
  MaxStops    \* bound: shutdowns and crashes of processes in a behaviour

ASSUME JobsAssumption ==
  /\ JobClass \in [Jobs -> {"RUN_WORK", "CONTROL"}]
  /\ JobRun \in [Jobs -> Runs \union {None}]
  /\ JobProject \in [Jobs -> Projects \union {None}]
  /\ Priority \in [Jobs -> Nat]
  /\ MaxClaims \in [Jobs -> Nat \ {0}]

ASSUME WorkersAssumption == ProcOf \in [Workers -> Procs]

ASSUME TimeAssumption ==
  /\ LeaseTTL \in Nat \ {0}
  /\ MaxDelay \in [Jobs -> Nat]
  /\ MaxStops \in Nat

ASSUME NoneAssumption == None \notin Jobs \union Runs \union Projects

VARIABLES
  state,      \* state[j]: the row's state, "ABSENT" before it is inserted
  claims,     \* claim_count
  token,      \* lease_token
  owner,      \* lease_owner
  until,      \* ticks left before lease_until
  wait,       \* ticks left before available_at
  fenced,     \* the jobs whose cancel_epoch is set
  cancelling, \* the runs in CANCELLING or CANCELLED
  archived,   \* the projects with status ARCHIVED
  proc,       \* "up", "draining" (asked to shut down), "cancelled" (out of
              \* grace, its jobs are asked to stop) or "down"
  worker,     \* what each goroutine holds in memory
  lastWork,   \* history: the token the last fenced transaction on j ran under
  stops       \* bound: shutdowns and crashes so far

rowVars == <<state, claims, token, owner, until, wait>>
envVars == <<cancelling, archived>>
vars == <<state, claims, token, owner, until, wait, fenced, cancelling,
          archived, proc, worker, lastWork, stops>>

States == {"ABSENT", "AVAILABLE", "LEASED", "SUCCEEDED", "DEAD", "CANCELLED"}
Terminal == {"SUCCEEDED", "DEAD", "CANCELLED"}

(***************************************************************************)
(* A worker: at "idle" it polls; at "handling" its handler runs a job under *)
(* the lease in its box (job, token, until), with a heartbeat goroutine     *)
(* while beating; at "returned" the handler came back without error and the *)
(* pool is about to complete the job.                                       *)
(***************************************************************************)
Idle == [pc |-> "idle", job |-> None, token |-> 0, until |-> 0, beating |-> FALSE]

Worker ==
  [pc : {"idle", "handling", "returned"}, job : Jobs \union {None},
   token : Nat, until : Nat, beating : BOOLEAN]

Init ==
  /\ state = [j \in Jobs |-> "ABSENT"]
  /\ claims = [j \in Jobs |-> 0]
  /\ token = [j \in Jobs |-> 0]
  /\ owner = [j \in Jobs |-> None]
  /\ until = [j \in Jobs |-> 0]
  /\ wait = [j \in Jobs |-> 0]
  /\ fenced = {}
  /\ cancelling = {}
  /\ archived = {}
  /\ proc = [p \in Procs |-> "down"]
  /\ worker = [w \in Workers |-> Idle]
  /\ lastWork = [j \in Jobs |-> 0]
  /\ stops = 0

------------------------------------------------------------------------------
(* Writers of the queue. *)

(* enqueueJobTx refuses run work of a run that is being cancelled. *)
FencedAtEnqueue(j) ==
  JobClass[j] = "RUN_WORK" /\ JobRun[j] # None /\ JobRun[j] \in cancelling

EnqueueJob(j) ==
  /\ state[j] = "ABSENT"
  /\ ~FencedAtEnqueue(j)
  /\ state' = [state EXCEPT ![j] = "AVAILABLE"]
  /\ wait' \in {[wait EXCEPT ![j] = d] : d \in 0..MaxDelay[j]}
  /\ UNCHANGED <<claims, token, owner, until, fenced, envVars, proc, worker,
                 lastWork, stops>>

(* Mutant: the class filter is forgotten, control work is fenced too. *)
ToFenceAnyClass(r) ==
  {j \in Jobs : JobRun[j] = r /\ state[j] \in {"AVAILABLE", "LEASED"} /\ j \notin fenced}

(* Mutant: jobs a worker holds are not fenced. *)
ToFenceWaitingOnly(r) ==
  {j \in Jobs : /\ JobRun[j] = r /\ JobClass[j] = "RUN_WORK"
                /\ state[j] = "AVAILABLE" /\ j \notin fenced}

(* The rows FenceAndCancelRunJobs updates: run work of r, not settled, not yet fenced. *)
ToFence(r) ==
  {j \in Jobs : /\ JobRun[j] = r
                /\ JobClass[j] = "RUN_WORK"
                /\ state[j] \in {"AVAILABLE", "LEASED"}
                /\ j \notin fenced}

(* CancelRun's transaction: the run becomes CANCELLING and its jobs are fenced. *)
FenceAndCancelRunJobs(r) ==
  /\ r \notin cancelling
  /\ cancelling' = cancelling \union {r}
  /\ fenced' = fenced \union ToFence(r)
  /\ state' = [j \in Jobs |->
                 IF j \in ToFence(r) /\ state[j] = "AVAILABLE"
                 THEN "CANCELLED" ELSE state[j]]
  /\ UNCHANGED <<claims, token, owner, until, wait, archived, proc, worker,
                 lastWork, stops>>

(* TransitionProjectStatus: a project is archived or restored. *)
ArchiveOrRestoreProject(p) ==
  /\ archived' = IF p \in archived THEN archived \ {p} ELSE archived \union {p}
  /\ UNCHANGED <<rowVars, fenced, cancelling, proc, worker, lastWork, stops>>

------------------------------------------------------------------------------
(* A worker and the row it works on. *)

(* The candidate CTE of ClaimJob. *)
Claimable(j) ==
  /\ state[j] = "AVAILABLE"
  /\ claims[j] < MaxClaims[j]
  /\ wait[j] = 0
  /\ JobClass[j] = "CONTROL" \/ j \notin fenced
  /\ JobProject[j] \notin archived

(* ORDER BY priority DESC: created_at and id only break ties. *)
FirstClaimable(j) ==
  /\ Claimable(j)
  /\ \A k \in Jobs : Claimable(k) => Priority[k] <= Priority[j]

ClaimJob(w) ==
  /\ proc[ProcOf[w]] = "up"
  /\ worker[w].pc = "idle"
  /\ \E j \in Jobs :
       /\ FirstClaimable(j)
       /\ state' = [state EXCEPT ![j] = "LEASED"]
       /\ claims' = [claims EXCEPT ![j] = @ + 1]
       /\ token' = [token EXCEPT ![j] = @ + 1]
       /\ owner' = [owner EXCEPT ![j] = Owner[w]]
       /\ until' = [until EXCEPT ![j] = LeaseTTL]
       /\ worker' = [worker EXCEPT ![w] =
                       [pc |-> "handling", job |-> j, token |-> token[j] + 1,
                        until |-> LeaseTTL, beating |-> TRUE]]
  /\ UNCHANGED <<wait, fenced, envVars, proc, lastWork, stops>>

(* Mutant: no check of the token. *)
HoldsLeaseByOwner(w) ==
  LET j == worker[w].job IN
  /\ state[j] = "LEASED"
  /\ owner[j] = Owner[w]
  /\ until[j] > 0

(* Mutant: no check of the expiry. *)
HoldsLeaseExpired(w) ==
  LET j == worker[w].job IN
  /\ state[j] = "LEASED"
  /\ owner[j] = Owner[w]
  /\ token[j] = worker[w].token

(* The WHERE clause HeartbeatJob, CompleteJob and ValidateActiveJob share. *)
HoldsLease(w) ==
  LET j == worker[w].job IN
  /\ state[j] = "LEASED"
  /\ owner[j] = Owner[w]
  /\ token[j] = worker[w].token
  /\ until[j] > 0

Busy(w) == worker[w].pc # "idle"
Beating(w) == worker[w].pc = "handling" /\ worker[w].beating

(* Mutant: a beat adds LeaseTTL to what is left instead of starting it anew. *)
HeartbeatAddsUp(w) ==
  /\ Beating(w)
  /\ HoldsLease(w)
  /\ until' = [until EXCEPT ![worker[w].job] = @ + LeaseTTL]
  /\ worker' = [worker EXCEPT ![w].until = LeaseTTL]
  /\ UNCHANGED <<state, claims, token, owner, wait, fenced, envVars, proc,
                 lastWork, stops>>

(* Mutant: the worker renews its copy whatever the row says. *)
HeartbeatIgnoresLoss(w) ==
  /\ Beating(w)
  /\ until' = IF HoldsLease(w) THEN [until EXCEPT ![worker[w].job] = LeaseTTL]
              ELSE until
  /\ worker' = [worker EXCEPT ![w].until = LeaseTTL]
  /\ UNCHANGED <<state, claims, token, owner, wait, fenced, envVars, proc,
                 lastWork, stops>>

(* One beat of heartbeatLoop: renewed, lost, or an error that is not an     *)
(* answer, which is retried until the lease the worker knows has run out.   *)
HeartbeatJob(w) ==
  /\ Beating(w)
  /\ \/ /\ HoldsLease(w)
        /\ until' = [until EXCEPT ![worker[w].job] = LeaseTTL]
        /\ worker' = [worker EXCEPT ![w].until = LeaseTTL]
     \/ /\ ~HoldsLease(w) \/ worker[w].until = 0
        /\ worker' = [worker EXCEPT ![w].beating = FALSE]
        /\ UNCHANGED until
  /\ UNCHANGED <<state, claims, token, owner, wait, fenced, envVars, proc,
                 lastWork, stops>>

(* A handler's fenced transaction that is not its last: ValidateActiveJob, then work. *)
WorkUnderLease(w) ==
  /\ worker[w].pc = "handling"
  /\ HoldsLease(w)
  /\ lastWork' = [lastWork EXCEPT ![worker[w].job] = worker[w].token]
  /\ UNCHANGED <<rowVars, fenced, envVars, proc, worker, stops>>

(* A handler's last fenced transaction: ValidateActiveJob, work and CompleteJob at once. *)
FinishUnderLease(w) ==
  LET j == worker[w].job IN
  /\ worker[w].pc = "handling"
  /\ HoldsLease(w)
  /\ lastWork' = [lastWork EXCEPT ![j] = worker[w].token]
  /\ state' = [state EXCEPT ![j] = "SUCCEEDED"]
  /\ until' = [until EXCEPT ![j] = 0]
  /\ UNCHANGED <<claims, token, owner, wait, fenced, envVars, proc, worker, stops>>

(* The handler comes back without error, its lease lost or not: losing it   *)
(* does not stop the handler.  The heartbeat goroutine is stopped.          *)
HandlerReturns(w) ==
  /\ worker[w].pc = "handling"
  /\ worker' = [worker EXCEPT ![w].pc = "returned", ![w].beating = FALSE]
  /\ UNCHANGED <<rowVars, fenced, envVars, proc, lastWork, stops>>

(* The handler fails, panics, or has no registration: the row is left as it is. *)
HandlerFails(w) ==
  /\ worker[w].pc = "handling"
  /\ worker' = [worker EXCEPT ![w] = Idle]
  /\ UNCHANGED <<rowVars, fenced, envVars, proc, lastWork, stops>>

(* runJob's CompleteJob: the error is ignored, and may come from the database. *)
CompleteJob(w) ==
  LET j == worker[w].job IN
  /\ worker[w].pc = "returned"
  /\ \/ /\ HoldsLease(w)
        /\ state' = [state EXCEPT ![j] = "SUCCEEDED"]
        /\ until' = [until EXCEPT ![j] = 0]
     \/ UNCHANGED <<state, until>>
  /\ worker' = [worker EXCEPT ![w] = Idle]
  /\ UNCHANGED <<claims, token, owner, wait, fenced, envVars, proc, lastWork, stops>>

------------------------------------------------------------------------------
(* Recovery, processes and time. *)

Expired(j) == state[j] = "LEASED" /\ until[j] = 0

(* Mutant: off by one in the comparison with max_claims. *)
RecoverRowsOffByOne ==
  /\ state' = [j \in Jobs |->
                 IF ~Expired(j) THEN state[j]
                 ELSE IF claims[j] > MaxClaims[j] THEN "DEAD" ELSE "AVAILABLE"]
  /\ wait' = [j \in Jobs |-> IF Expired(j) THEN 0 ELSE wait[j]]
  /\ owner' = [j \in Jobs |-> IF Expired(j) THEN None ELSE owner[j]]
  /\ UNCHANGED <<claims, token, until>>

RecoverRows ==
  /\ state' = [j \in Jobs |->
                 IF ~Expired(j) THEN state[j]
                 ELSE IF claims[j] >= MaxClaims[j] THEN "DEAD" ELSE "AVAILABLE"]
  /\ wait' = [j \in Jobs |-> IF Expired(j) THEN 0 ELSE wait[j]]
  /\ owner' = [j \in Jobs |-> IF Expired(j) THEN None ELSE owner[j]]
  /\ UNCHANGED <<claims, token, until>>

(* runRecoveryReaper: a beat of the reaper of a running process. *)
RecoverExpiredJobs(p) ==
  /\ proc[p] = "up"
  /\ RecoverRows
  /\ UNCHANGED <<fenced, envVars, proc, worker, lastWork, stops>>

(* Pool.Run: the startup scan, then the workers and the reaper. *)
StartPool(p) ==
  /\ proc[p] = "down"
  /\ proc' = [proc EXCEPT ![p] = "up"]
  /\ RecoverRows
  /\ UNCHANGED <<fenced, envVars, worker, lastWork, stops>>

(* Shutdown is asked for: no new claims, no reaper; handlers run on. *)
ShutdownPool(p) ==
  /\ proc[p] = "up"
  /\ stops < MaxStops
  /\ stops' = stops + 1
  /\ proc' = [proc EXCEPT ![p] = "draining"]
  /\ UNCHANGED <<rowVars, fenced, envVars, worker, lastWork>>

(* The grace period is over: the context of every handler is cancelled, and *)
(* with it its heartbeat; a handler may still finish what it does.          *)
CancelJobs(p) ==
  /\ proc[p] = "draining"
  /\ proc' = [proc EXCEPT ![p] = "cancelled"]
  /\ worker' = [w \in Workers |->
                  IF ProcOf[w] = p THEN [worker[w] EXCEPT !.beating = FALSE]
                  ELSE worker[w]]
  /\ UNCHANGED <<rowVars, fenced, envVars, lastWork, stops>>

(* Pool.Run returns once every worker has stopped. *)
PoolDrained(p) ==
  /\ proc[p] \in {"draining", "cancelled"}
  /\ \A w \in Workers : ProcOf[w] = p => ~Busy(w)
  /\ proc' = [proc EXCEPT ![p] = "down"]
  /\ UNCHANGED <<rowVars, fenced, envVars, worker, lastWork, stops>>

(* The process dies: what its goroutines held is gone, the rows are not. *)
Crash(p) ==
  /\ proc[p] # "down"
  /\ stops < MaxStops
  /\ stops' = stops + 1
  /\ proc' = [proc EXCEPT ![p] = "down"]
  /\ worker' = [w \in Workers |-> IF ProcOf[w] = p THEN Idle ELSE worker[w]]
  /\ UNCHANGED <<rowVars, fenced, envVars, lastWork>>

Less(n) == IF n = 0 THEN 0 ELSE n - 1

(* Time passes for the rows and for the worker's own copy of its lease. *)
Tick ==
  /\ until' = [j \in Jobs |-> Less(until[j])]
  /\ wait' = [j \in Jobs |-> Less(wait[j])]
  /\ worker' = [w \in Workers |-> [worker[w] EXCEPT !.until = Less(@)]]
  /\ UNCHANGED <<state, claims, token, owner, fenced, envVars, proc, lastWork, stops>>

------------------------------------------------------------------------------
WorkerStep(w) ==
  \/ ClaimJob(w)
  \/ HeartbeatJob(w)
  \/ WorkUnderLease(w)
  \/ FinishUnderLease(w)
  \/ HandlerReturns(w)
  \/ HandlerFails(w)
  \/ CompleteJob(w)

ProcStep(p) ==
  \/ RecoverExpiredJobs(p)
  \/ StartPool(p)
  \/ ShutdownPool(p)
  \/ CancelJobs(p)
  \/ PoolDrained(p)
  \/ Crash(p)

Next ==
  \/ \E j \in Jobs : EnqueueJob(j)
  \/ \E r \in Runs : FenceAndCancelRunJobs(r)
  \/ \E p \in Projects : ArchiveOrRestoreProject(p)
  \/ \E w \in Workers : WorkerStep(w)
  \/ \E p \in Procs : ProcStep(p)
  \/ Tick

Spec == Init /\ [][Next]_vars

(* A handler comes back sooner or later, and its worker goes on. *)
WorkerReturns(w) == HandlerReturns(w) \/ HandlerFails(w) \/ CompleteJob(w)

(***************************************************************************)
(* What the scheduling of the code gives: time passes, handlers return, a  *)
(* running worker polls and a running reaper beats on their tickers, a     *)
(* drained pool returns and an operator starts it again.  Nothing is       *)
(* assumed of heartbeats, enqueuers, cancellations, shutdowns and crashes. *)
(* Each line is a WF_vars, with its ENABLED written out as the guard of    *)
(* the action: TLC decides it in a third of the time.                      *)
(***************************************************************************)
TimeRuns == (\E j \in Jobs : until[j] + wait[j] > 0) \/ (\E w \in Workers : worker[w].until > 0)
CanClaim(w) == proc[ProcOf[w]] = "up" /\ worker[w].pc = "idle" /\ \E j \in Jobs : Claimable(j)
CanRecover(p) == proc[p] = "up" /\ \E j \in Jobs : Expired(j)
Drained(p) ==
  proc[p] \in {"draining", "cancelled"} /\ \A w \in Workers : ProcOf[w] = p => ~Busy(w)

Fairness ==
  /\ []<>~TimeRuns \/ []<><<Tick>>_vars
  /\ \A w \in Workers :
       /\ []<>~CanClaim(w) \/ []<><<ClaimJob(w)>>_vars
       /\ []<>~Busy(w) \/ []<><<WorkerReturns(w)>>_vars
  /\ \A p \in Procs :
       /\ []<>~CanRecover(p) \/ []<><<RecoverExpiredJobs(p)>>_vars
       /\ []<>(proc[p] # "down") \/ []<><<StartPool(p)>>_vars
       /\ []<>~Drained(p) \/ []<><<PoolDrained(p)>>_vars

FairSpec == Spec /\ Fairness

------------------------------------------------------------------------------
(* Properties. *)

TypeOK ==
  /\ state \in [Jobs -> States]
  /\ claims \in [Jobs -> Nat]
  /\ token \in [Jobs -> Nat]
  /\ owner \in [Jobs -> {Owner[w] : w \in Workers} \union {None}]
  /\ until \in [Jobs -> 0..LeaseTTL]
  /\ wait \in [Jobs -> Nat]
  /\ fenced \subseteq Jobs
  /\ cancelling \subseteq Runs
  /\ archived \subseteq Projects
  /\ proc \in [Procs -> {"up", "draining", "cancelled", "down"}]
  /\ worker \in [Workers -> Worker]
  /\ lastWork \in [Jobs -> Nat]
  /\ stops \in 0..MaxStops

(* Two goroutines never both pass ValidateActiveJob for one job, whatever   *)
(* the clock and the reaper did since either claimed it, and even when two  *)
(* of them claim under the same owner name (a --worker-id used twice).      *)
AtMostOneHolder ==
  \A w1, w2 \in Workers :
    w1 # w2 /\ Busy(w1) /\ Busy(w2) /\ HoldsLease(w1) /\ HoldsLease(w2)
      => worker[w1].job # worker[w2].job

(* The lease a worker thinks it still has is the lease on the row: the      *)
(* heartbeat loop, which gives up on errors by that copy alone, never goes  *)
(* on past the point where another worker may have claimed the job.         *)
LocalLeaseIsCurrent ==
  \A w \in Workers :
    LET j == worker[w].job IN
    Busy(w) /\ worker[w].until > 0 /\ state[j] = "LEASED" =>
      token[j] = worker[w].token /\ until[j] >= worker[w].until

(* No row is stranded: a job waiting to be claimed has a claim left, and a  *)
(* job is given up as DEAD only after its last claim.                       *)
NoClaimIsLost ==
  \A j \in Jobs :
    /\ state[j] = "AVAILABLE" => claims[j] < MaxClaims[j]
    /\ state[j] = "DEAD" => claims[j] = MaxClaims[j]

(* From the transaction that cancels a run, no worker newly obtains run     *)
(* work of it: not by claiming a waiting job, not by a job enqueued later,  *)
(* not after a crash put a leased one back in the queue.                    *)
CancelledRunIsNotClaimed ==
  [][\A j \in Jobs :
       JobClass[j] = "RUN_WORK" /\ JobRun[j] \in cancelling
         => token'[j] = token[j] /\ (state[j] = "ABSENT" => state'[j] = "ABSENT")]_vars

(* What the queue promises its handlers, with no clock and no owner: the    *)
(* lease of a job is in force while the row is LEASED and not expired.      *)
FL == INSTANCE FencedLease WITH
  Keys <- Jobs,
  fence <- token,
  open <- {j \in Jobs : state[j] = "LEASED" /\ until[j] > 0},
  closed <- {j \in Jobs : state[j] \in Terminal},
  committed <- lastWork

(* The queue implements the fenced lease: tokens only grow, fenced          *)
(* transactions run under the grant in force, and a settled job is never    *)
(* granted or worked on again.                                              *)
LeaseSpec == FL!Spec

(* Every job enqueued is settled in the end, unless it is work of a run     *)
(* being cancelled or its project is archived: a crash, a lost lease or a   *)
(* failing handler costs claims, never the job; and control work is carried *)
(* out whatever is cancelled.                                               *)
JobsSettle ==
  \A j \in Jobs :
    state[j] \in {"AVAILABLE", "LEASED"}
      ~> \/ state[j] \in {"SUCCEEDED", "DEAD"}
         \/ JobClass[j] = "RUN_WORK" /\ JobRun[j] \in cancelling
         \/ JobProject[j] \in archived
==============================================================================
