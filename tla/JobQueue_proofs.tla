--------------------------- MODULE JobQueue_proofs ---------------------------
(***************************************************************************)
(* What JobQueue guarantees for every set of jobs, runs, projects,         *)
(* processes and workers, every lease time and every max_claims.           *)
(***************************************************************************)
EXTENDS JobQueue, TLAPS

USE DEF rowVars, envVars, vars

(* A worker's record stays one when a field gets a value of its type. *)
LEMMA WorkerUpdated ==
  ASSUME NEW r \in Worker, NEW n \in Nat, NEW b \in BOOLEAN
  PROVE  /\ [r EXCEPT !.until = n] \in Worker
         /\ [r EXCEPT !.beating = b] \in Worker
         /\ [r EXCEPT !.pc = "returned", !.beating = b] \in Worker
  BY DEF Worker

(* What is left of a time only shrinks. *)
LEMMA LessIsLess ==
  ASSUME NEW n \in Nat
  PROVE  Less(n) \in Nat /\ Less(n) <= n /\ (Less(n) > 0 => n > 0)
  BY DEF Less

(* Every variable keeps its type: the table's rows, the workers' memory. *)
THEOREM TypeCorrect == Spec => []TypeOK
<1> USE JobsAssumption, WorkersAssumption, TimeAssumption, NoneAssumption
<1>1. Init => TypeOK
  BY DEF Init, TypeOK, States, Worker, Idle
<1>2. TypeOK /\ [Next]_vars => TypeOK'
  <2> SUFFICES ASSUME TypeOK, [Next]_vars PROVE TypeOK'
    OBVIOUS
  <2> USE DEF TypeOK
  <2>1. ASSUME NEW j \in Jobs, EnqueueJob(j) PROVE TypeOK'
    BY <2>1 DEF EnqueueJob, States
  <2>2. ASSUME NEW r \in Runs, FenceAndCancelRunJobs(r) PROVE TypeOK'
    BY <2>2 DEF FenceAndCancelRunJobs, ToFence, States
  <2>3. ASSUME NEW p \in Projects, ArchiveOrRestoreProject(p) PROVE TypeOK'
    BY <2>3 DEF ArchiveOrRestoreProject
  <2>4. ASSUME NEW w \in Workers, ClaimJob(w) PROVE TypeOK'
    <3>1. PICK j \in Jobs :
            /\ state' = [state EXCEPT ![j] = "LEASED"]
            /\ claims' = [claims EXCEPT ![j] = @ + 1]
            /\ token' = [token EXCEPT ![j] = @ + 1]
            /\ owner' = [owner EXCEPT ![j] = Owner[w]]
            /\ until' = [until EXCEPT ![j] = LeaseTTL]
            /\ worker' = [worker EXCEPT ![w] =
                            [pc |-> "handling", job |-> j, token |-> token[j] + 1,
                             until |-> LeaseTTL, beating |-> TRUE]]
      BY <2>4 DEF ClaimJob
    <3>2. worker' \in [Workers -> Worker]
      BY <3>1 DEF Worker
    <3>3. QED
      BY <2>4, <3>1, <3>2 DEF ClaimJob, States
  <2>5. ASSUME NEW w \in Workers, HeartbeatJob(w) PROVE TypeOK'
    <3>1. worker[w] \in Worker
      OBVIOUS
    <3>2. \/ worker' = [worker EXCEPT ![w] = [worker[w] EXCEPT !.until = LeaseTTL]]
          \/ worker' = [worker EXCEPT ![w] = [worker[w] EXCEPT !.beating = FALSE]]
      BY <2>5 DEF HeartbeatJob
    <3>3. worker' \in [Workers -> Worker]
      <4>1. LeaseTTL \in Nat /\ FALSE \in BOOLEAN
        OBVIOUS
      <4>2. [worker[w] EXCEPT !.until = LeaseTTL] \in Worker
        BY <3>1, <4>1, WorkerUpdated
      <4>3. [worker[w] EXCEPT !.beating = FALSE] \in Worker
        BY <3>1, <4>1, WorkerUpdated
      <4>4. QED
        BY <3>2, <4>2, <4>3
    <3>4. until' \in [Jobs -> 0..LeaseTTL]
      BY <2>5 DEF HeartbeatJob
    <3>5. QED
      BY <2>5, <3>3, <3>4 DEF HeartbeatJob
  <2>6. ASSUME NEW w \in Workers, WorkUnderLease(w) PROVE TypeOK'
    BY <2>6 DEF WorkUnderLease, Worker
  <2>7. ASSUME NEW w \in Workers, FinishUnderLease(w) PROVE TypeOK'
    <3>1. worker[w].token \in Nat
      BY DEF Worker
    <3>2. lastWork' \in [Jobs -> Nat]
      <4>1. lastWork' = [lastWork EXCEPT ![worker[w].job] = worker[w].token]
        BY <2>7 DEF FinishUnderLease
      <4>2. QED
        BY <4>1 DEF Worker
    <3>3. until' \in [Jobs -> 0..LeaseTTL]
      <4>1. until' = [until EXCEPT ![worker[w].job] = 0]
        BY <2>7 DEF FinishUnderLease
      <4>2. 0 \in 0..LeaseTTL
        OBVIOUS
      <4>3. QED
        BY <4>1, <4>2
    <3>4. state' \in [Jobs -> States]
      BY <2>7 DEF FinishUnderLease, States
    <3>5. QED
      BY <2>7, <3>2, <3>3, <3>4 DEF FinishUnderLease
  <2>8. ASSUME NEW w \in Workers, HandlerReturns(w) PROVE TypeOK'
    <3>1. worker[w] \in Worker
      OBVIOUS
    <3>2. worker' = [worker EXCEPT ![w] =
                       [worker[w] EXCEPT !.pc = "returned", !.beating = FALSE]]
      BY <2>8 DEF HandlerReturns
    <3>3. worker' \in [Workers -> Worker]
      BY <3>1, <3>2, WorkerUpdated
    <3>4. QED
      BY <2>8, <3>3 DEF HandlerReturns
  <2>9. ASSUME NEW w \in Workers, HandlerFails(w) PROVE TypeOK'
    BY <2>9 DEF HandlerFails, Worker, Idle
  <2>10. ASSUME NEW w \in Workers, CompleteJob(w) PROVE TypeOK'
    <3>1. worker' \in [Workers -> Worker]
      BY <2>10 DEF CompleteJob, Worker, Idle
    <3>2. state' \in [Jobs -> States] /\ until' \in [Jobs -> 0..LeaseTTL]
      BY <2>10 DEF CompleteJob, States
    <3>3. QED
      BY <2>10, <3>1, <3>2 DEF CompleteJob
  <2>11. ASSUME RecoverRows
         PROVE /\ state' \in [Jobs -> States] /\ wait' \in [Jobs -> Nat]
               /\ owner' \in [Jobs -> {Owner[w] : w \in Workers} \union {None}]
    BY <2>11 DEF RecoverRows, States
  <2>12. ASSUME NEW p \in Procs, RecoverExpiredJobs(p) PROVE TypeOK'
    BY <2>11, <2>12 DEF RecoverExpiredJobs, RecoverRows
  <2>13. ASSUME NEW p \in Procs, StartPool(p) PROVE TypeOK'
    BY <2>11, <2>13 DEF StartPool, RecoverRows
  <2>14. ASSUME NEW p \in Procs, ShutdownPool(p) PROVE TypeOK'
    BY <2>14 DEF ShutdownPool
  <2>15. ASSUME NEW p \in Procs, CancelJobs(p) PROVE TypeOK'
    <3>1. \A w \in Workers : [worker[w] EXCEPT !.beating = FALSE] \in Worker
      BY WorkerUpdated
    <3>2. worker' \in [Workers -> Worker]
      BY <2>15, <3>1 DEF CancelJobs
    <3>3. QED
      BY <2>15, <3>2 DEF CancelJobs
  <2>16. ASSUME NEW p \in Procs, PoolDrained(p) PROVE TypeOK'
    BY <2>16 DEF PoolDrained
  <2>17. ASSUME NEW p \in Procs, Crash(p) PROVE TypeOK'
    BY <2>17 DEF Crash, Worker, Idle
  <2>18. ASSUME Tick PROVE TypeOK'
    <3>1. ASSUME NEW w \in Workers
          PROVE  [worker[w] EXCEPT !.until = Less(@)] \in Worker
      <4>1. worker[w].until \in Nat
        BY DEF Worker
      <4>2. QED
        BY <4>1, WorkerUpdated, LessIsLess
    <3>2. worker' \in [Workers -> Worker]
      BY <2>18, <3>1 DEF Tick
    <3>3. \A j \in Jobs : Less(until[j]) \in 0..LeaseTTL /\ Less(wait[j]) \in Nat
      BY LessIsLess
    <3>4. QED
      BY <2>18, <3>2, <3>3 DEF Tick
  <2>19. CASE UNCHANGED vars
    BY <2>19
  <2>20. QED
    BY <2>1, <2>2, <2>3, <2>4, <2>5, <2>6, <2>7, <2>8, <2>9, <2>10, <2>12, <2>13,
       <2>14, <2>15, <2>16, <2>17, <2>18, <2>19
       DEF Next, WorkerStep, ProcStep
<1>3. QED
  BY <1>1, <1>2, PTL DEF Spec

------------------------------------------------------------------------------
(***************************************************************************)
(* Fencing.  Each claim gives the row a token no worker has seen, so no    *)
(* two goroutines ever hold one job under one token.                       *)
(***************************************************************************)
TokensDistinct ==
  /\ \A w \in Workers :
       Busy(w) => /\ worker[w].job \in Jobs
                  /\ worker[w].token <= token[worker[w].job]
  /\ \A w1, w2 \in Workers :
       w1 # w2 /\ Busy(w1) /\ Busy(w2) /\ worker[w1].job = worker[w2].job
         => worker[w1].token # worker[w2].token

(* Steps that only keep, change in another field, or drop what workers hold. *)
LEMMA NoNewHolding ==
  ASSUME TokensDistinct, token' = token,
         \A w \in Workers :
           \/ worker'[w].pc = "idle"
           \/ /\ Busy(w)
              /\ worker'[w].job = worker[w].job
              /\ worker'[w].token = worker[w].token
  PROVE  TokensDistinct'
  BY DEF TokensDistinct, Busy

LEMMA TokensDistinctStep == TypeOK /\ TokensDistinct /\ [Next]_vars => TokensDistinct'
<1> SUFFICES ASSUME TypeOK, TokensDistinct, [Next]_vars PROVE TokensDistinct'
  OBVIOUS
<1>1. ASSUME worker' = worker, token' = token PROVE TokensDistinct'
  BY <1>1 DEF TokensDistinct, Busy
<1>2. ASSUME NEW w \in Workers, ClaimJob(w) PROVE TokensDistinct'
  <2>1. PICK j \in Jobs :
          /\ token' = [token EXCEPT ![j] = @ + 1]
          /\ worker' = [worker EXCEPT ![w] =
                          [pc |-> "handling", job |-> j, token |-> token[j] + 1,
                           until |-> LeaseTTL, beating |-> TRUE]]
    BY <1>2 DEF ClaimJob
  <2>2. /\ token \in [Jobs -> Nat]
        /\ worker \in [Workers -> Worker]
    BY DEF TypeOK
  <2>3. token'[j] = token[j] + 1 /\ \A k \in Jobs : k # j => token'[k] = token[k]
    BY <2>1, <2>2
  <2>4. /\ worker'[w].job = j
        /\ worker'[w].token = token[j] + 1
        /\ \A v \in Workers : v # w => worker'[v] = worker[v]
    BY <2>1, <2>2
  <2>5. \A v \in Workers : worker[v].token \in Nat
    BY <2>2 DEF Worker
  <2>6. \A v \in Workers : v # w /\ Busy(v) /\ worker[v].job = j => worker[v].token < token[j] + 1
    BY <2>2, <2>5 DEF TokensDistinct
  <2>7. \A v \in Workers :
          Busy(v)' => worker'[v].job \in Jobs /\ worker'[v].token <= token'[worker'[v].job]
    <3>1. ASSUME NEW v \in Workers, Busy(v)'
          PROVE  worker'[v].job \in Jobs /\ worker'[v].token <= token'[worker'[v].job]
      <4>1. CASE v = w
        BY <4>1, <2>2, <2>3, <2>4
      <4>2. CASE v # w
        <5>1. /\ worker'[v] = worker[v]
              /\ worker[v].job \in Jobs
              /\ worker[v].token <= token[worker[v].job]
          BY <3>1, <4>2, <2>4 DEF TokensDistinct, Busy
        <5>2. token[worker[v].job] <= token'[worker[v].job]
          BY <5>1, <2>2, <2>3
        <5>3. token[worker[v].job] \in Nat /\ token'[worker[v].job] \in Nat
          BY <5>1, <2>2, <2>3
        <5>4. QED
          BY <5>1, <5>2, <5>3, <2>5
      <4>3. QED
        BY <4>1, <4>2
    <3>2. QED
      BY <3>1
  <2>8. \A v1, v2 \in Workers :
          v1 # v2 /\ Busy(v1)' /\ Busy(v2)' /\ worker'[v1].job = worker'[v2].job
            => worker'[v1].token # worker'[v2].token
    BY <2>2, <2>4, <2>5, <2>6 DEF TokensDistinct, Busy
  <2>9. QED
    BY <2>7, <2>8 DEF TokensDistinct
<1>3. ASSUME NEW w \in Workers,
             HeartbeatJob(w) \/ HandlerReturns(w) \/ HandlerFails(w) \/ CompleteJob(w)
      PROVE  TokensDistinct'
  <2>1. token' = token
    BY <1>3 DEF HeartbeatJob, HandlerReturns, HandlerFails, CompleteJob
  <2>2. worker \in [Workers -> Worker]
    BY DEF TypeOK
  <2>3. Busy(w)
    BY <1>3 DEF HeartbeatJob, HandlerReturns, HandlerFails, CompleteJob, Beating, Busy
  <2>4. \A v \in Workers \ {w} : worker'[v] = worker[v]
    BY <1>3, <2>2 DEF HeartbeatJob, HandlerReturns, HandlerFails, CompleteJob
  <2>5. \/ worker'[w].pc = "idle"
        \/ /\ worker'[w].job = worker[w].job
           /\ worker'[w].token = worker[w].token
    BY <1>3, <2>2 DEF HeartbeatJob, HandlerReturns, HandlerFails, CompleteJob, Idle, Worker
  <2>6. \A v \in Workers : \/ worker'[v].pc = "idle"
                           \/ /\ Busy(v)
                              /\ worker'[v].job = worker[v].job
                              /\ worker'[v].token = worker[v].token
    BY <2>3, <2>4, <2>5 DEF Busy
  <2>7. QED
    BY <2>1, <2>6, NoNewHolding
<1>4. ASSUME NEW p \in Procs, CancelJobs(p) \/ Crash(p) PROVE TokensDistinct'
  <2>1. token' = token /\ worker \in [Workers -> Worker]
    BY <1>4 DEF CancelJobs, Crash, TypeOK
  <2>2. ASSUME NEW v \in Workers
        PROVE  \/ worker'[v].pc = "idle"
               \/ /\ Busy(v)
                  /\ worker'[v].job = worker[v].job
                  /\ worker'[v].token = worker[v].token
    BY <1>4, <2>1 DEF CancelJobs, Crash, Idle, Busy, Worker
  <2>3. QED
    BY <2>1, <2>2, NoNewHolding
<1>5. CASE Tick
  <2>1. token' = token /\ worker \in [Workers -> Worker]
    BY <1>5 DEF Tick, TypeOK
  <2>2. ASSUME NEW v \in Workers
        PROVE  \/ worker'[v].pc = "idle"
               \/ /\ Busy(v)
                  /\ worker'[v].job = worker[v].job
                  /\ worker'[v].token = worker[v].token
    BY <1>5, <2>1 DEF Tick, Busy, Worker
  <2>3. QED
    BY <2>1, <2>2, NoNewHolding
<1>6. CASE UNCHANGED vars
  BY <1>1, <1>6
<1>7. ASSUME NEW j \in Jobs, EnqueueJob(j) PROVE TokensDistinct'
  BY <1>1, <1>7 DEF EnqueueJob
<1>8. ASSUME NEW r \in Runs, FenceAndCancelRunJobs(r) PROVE TokensDistinct'
  BY <1>1, <1>8 DEF FenceAndCancelRunJobs
<1>9. ASSUME NEW p \in Projects, ArchiveOrRestoreProject(p) PROVE TokensDistinct'
  BY <1>1, <1>9 DEF ArchiveOrRestoreProject
<1>10. ASSUME NEW w \in Workers, WorkUnderLease(w) \/ FinishUnderLease(w)
       PROVE  TokensDistinct'
  BY <1>1, <1>10 DEF WorkUnderLease, FinishUnderLease
<1>11. ASSUME NEW p \in Procs,
              \/ RecoverExpiredJobs(p) \/ StartPool(p)
              \/ ShutdownPool(p) \/ PoolDrained(p)
       PROVE  TokensDistinct'
  BY <1>1, <1>11 DEF RecoverExpiredJobs, StartPool, RecoverRows, ShutdownPool, PoolDrained
<1>12. QED
  BY <1>2, <1>3, <1>4, <1>5, <1>6, <1>7, <1>8, <1>9, <1>10, <1>11
     DEF Next, WorkerStep, ProcStep

(* Two goroutines never both pass ValidateActiveJob for one job, whether or *)
(* not the owner names of the workers are unique.                           *)
THEOREM MutualExclusion == Spec => []AtMostOneHolder
<1>1. Init => TokensDistinct
  BY DEF Init, TokensDistinct, Busy, Idle
<1>2. TokensDistinct => AtMostOneHolder
  BY DEF TokensDistinct, AtMostOneHolder, HoldsLease
<1>3. QED
  BY <1>1, <1>2, TypeCorrect, TokensDistinctStep, PTL DEF Spec

------------------------------------------------------------------------------
(***************************************************************************)
(* Claims.  A row put back in the queue always has a claim left.           *)
(***************************************************************************)
ClaimsCounted ==
  \A j \in Jobs :
    /\ state[j] = "ABSENT" => claims[j] = 0
    /\ state[j] = "AVAILABLE" => claims[j] < MaxClaims[j]
    /\ state[j] = "LEASED" => claims[j] <= MaxClaims[j]
    /\ state[j] = "DEAD" => claims[j] = MaxClaims[j]

LEMMA ClaimsCountedStep == TypeOK /\ ClaimsCounted /\ [Next]_vars => ClaimsCounted'
<1> SUFFICES ASSUME TypeOK, ClaimsCounted, [Next]_vars PROVE ClaimsCounted'
  OBVIOUS
<1>0. /\ state \in [Jobs -> States]
      /\ claims \in [Jobs -> Nat]
      /\ MaxClaims \in [Jobs -> Nat \ {0}]
  BY JobsAssumption DEF TypeOK
<1>1. ASSUME state' = state, claims' = claims PROVE ClaimsCounted'
  BY <1>1 DEF ClaimsCounted
<1>2. ASSUME NEW j \in Jobs, EnqueueJob(j) PROVE ClaimsCounted'
  BY <1>0, <1>2 DEF EnqueueJob, ClaimsCounted
<1>3. ASSUME NEW r \in Runs, FenceAndCancelRunJobs(r) PROVE ClaimsCounted'
  BY <1>0, <1>3 DEF FenceAndCancelRunJobs, ClaimsCounted
<1>4. ASSUME NEW w \in Workers, ClaimJob(w) PROVE ClaimsCounted'
  <2>1. PICK j \in Jobs :
          /\ Claimable(j)
          /\ state' = [state EXCEPT ![j] = "LEASED"]
          /\ claims' = [claims EXCEPT ![j] = @ + 1]
    BY <1>4 DEF ClaimJob, FirstClaimable
  <2>2. claims[j] < MaxClaims[j]
    BY <2>1 DEF Claimable
  <2>3. QED
    BY <1>0, <2>1, <2>2 DEF ClaimsCounted
<1>5. ASSUME NEW w \in Workers, FinishUnderLease(w) \/ CompleteJob(w)
      PROVE  ClaimsCounted'
  <2>1. claims' = claims
    BY <1>5 DEF FinishUnderLease, CompleteJob
  <2>2. \A j \in Jobs : state'[j] = state[j] \/ state'[j] = "SUCCEEDED"
    BY <1>0, <1>5 DEF FinishUnderLease, CompleteJob
  <2>3. QED
    BY <2>1, <2>2 DEF ClaimsCounted
<1>6. ASSUME RecoverRows PROVE ClaimsCounted'
  <2>1. claims' = claims
    BY <1>6 DEF RecoverRows
  <2>2. ASSUME NEW j \in Jobs, Expired(j)
        PROVE  /\ claims[j] <= MaxClaims[j]
               /\ state'[j] = IF claims[j] >= MaxClaims[j] THEN "DEAD" ELSE "AVAILABLE"
    BY <1>6, <2>2 DEF RecoverRows, Expired, ClaimsCounted
  <2>3. \A j \in Jobs : ~Expired(j) => state'[j] = state[j]
    BY <1>6 DEF RecoverRows
  <2>4. QED
    BY <1>0, <2>1, <2>2, <2>3 DEF ClaimsCounted
<1>7. ASSUME NEW p \in Procs, RecoverExpiredJobs(p) \/ StartPool(p) PROVE ClaimsCounted'
  BY <1>6, <1>7 DEF RecoverExpiredJobs, StartPool
<1>8. ASSUME NEW p \in Projects, ArchiveOrRestoreProject(p) PROVE ClaimsCounted'
  BY <1>1, <1>8 DEF ArchiveOrRestoreProject
<1>9. ASSUME NEW w \in Workers,
             HeartbeatJob(w) \/ WorkUnderLease(w) \/ HandlerReturns(w) \/ HandlerFails(w)
      PROVE  ClaimsCounted'
  BY <1>1, <1>9 DEF HeartbeatJob, WorkUnderLease, HandlerReturns, HandlerFails
<1>10. ASSUME NEW p \in Procs,
              ShutdownPool(p) \/ CancelJobs(p) \/ PoolDrained(p) \/ Crash(p)
       PROVE  ClaimsCounted'
  BY <1>1, <1>10 DEF ShutdownPool, CancelJobs, PoolDrained, Crash
<1>11. CASE Tick \/ UNCHANGED vars
  BY <1>1, <1>11 DEF Tick
<1>12. QED
  BY <1>2, <1>3, <1>4, <1>5, <1>7, <1>8, <1>9, <1>10, <1>11 DEF Next, WorkerStep, ProcStep

(* No row waits in the queue with no claim left, and none is DEAD before    *)
(* its last claim.                                                          *)
THEOREM ClaimsAreKept == Spec => []NoClaimIsLost
<1>1. Init => ClaimsCounted
  BY DEF Init, ClaimsCounted
<1>2. ClaimsCounted => NoClaimIsLost
  BY DEF ClaimsCounted, NoClaimIsLost
<1>3. QED
  BY <1>1, <1>2, TypeCorrect, ClaimsCountedStep, PTL DEF Spec

------------------------------------------------------------------------------
(***************************************************************************)
(* Cancellation.  Every live row of run work of a cancelled run is fenced, *)
(* so no claim can reach it, and no row of that run is inserted any more.  *)
(***************************************************************************)
CancelledWorkIsFenced ==
  \A j \in Jobs :
    JobClass[j] = "RUN_WORK" /\ JobRun[j] \in cancelling /\ state[j] \in {"AVAILABLE", "LEASED"}
      => j \in fenced

LEMMA CancelledWorkIsFencedStep ==
  TypeOK /\ CancelledWorkIsFenced /\ [Next]_vars => CancelledWorkIsFenced'
<1> SUFFICES ASSUME TypeOK, CancelledWorkIsFenced, [Next]_vars
             PROVE  CancelledWorkIsFenced'
  OBVIOUS
<1>0. /\ state \in [Jobs -> States]
      /\ cancelling \subseteq Runs
      /\ None \notin Runs
  BY NoneAssumption DEF TypeOK
<1>1. ASSUME fenced' = fenced, cancelling' = cancelling,
             \A j \in Jobs : state'[j] \in {"AVAILABLE", "LEASED"}
                               => state[j] \in {"AVAILABLE", "LEASED"}
      PROVE  CancelledWorkIsFenced'
  BY <1>1 DEF CancelledWorkIsFenced
<1>2. ASSUME NEW j \in Jobs, EnqueueJob(j) PROVE CancelledWorkIsFenced'
  BY <1>0, <1>2 DEF EnqueueJob, FencedAtEnqueue, CancelledWorkIsFenced
<1>3. ASSUME NEW r \in Runs, FenceAndCancelRunJobs(r) PROVE CancelledWorkIsFenced'
  <2>1. ASSUME NEW j \in Jobs, JobClass[j] = "RUN_WORK", JobRun[j] \in cancelling',
               state'[j] \in {"AVAILABLE", "LEASED"}
        PROVE  j \in fenced'
    <3>1. state[j] \in {"AVAILABLE", "LEASED"}
      BY <1>0, <1>3, <2>1 DEF FenceAndCancelRunJobs
    <3>2. CASE JobRun[j] \in cancelling
      BY <1>3, <2>1, <3>1, <3>2 DEF FenceAndCancelRunJobs, CancelledWorkIsFenced
    <3>3. CASE JobRun[j] = r
      BY <1>3, <2>1, <3>1, <3>3 DEF FenceAndCancelRunJobs, ToFence
    <3>4. QED
      BY <1>3, <2>1, <3>2, <3>3 DEF FenceAndCancelRunJobs
  <2>2. QED
    BY <2>1 DEF CancelledWorkIsFenced
<1>4. ASSUME NEW w \in Workers, ClaimJob(w) PROVE CancelledWorkIsFenced'
  BY <1>0, <1>1, <1>4 DEF ClaimJob, FirstClaimable, Claimable
<1>5. ASSUME NEW w \in Workers, FinishUnderLease(w) \/ CompleteJob(w)
      PROVE  CancelledWorkIsFenced'
  <2>1. \A j \in Jobs : state'[j] = state[j] \/ state'[j] = "SUCCEEDED"
    BY <1>0, <1>5 DEF FinishUnderLease, CompleteJob
  <2>2. QED
    BY <1>1, <1>5, <2>1 DEF FinishUnderLease, CompleteJob
<1>6. ASSUME NEW p \in Procs, RecoverExpiredJobs(p) \/ StartPool(p)
      PROVE  CancelledWorkIsFenced'
  BY <1>1, <1>6 DEF RecoverExpiredJobs, StartPool, RecoverRows, Expired
<1>7. ASSUME NEW p \in Projects, ArchiveOrRestoreProject(p) PROVE CancelledWorkIsFenced'
  BY <1>1, <1>7 DEF ArchiveOrRestoreProject
<1>8. ASSUME NEW w \in Workers,
             HeartbeatJob(w) \/ WorkUnderLease(w) \/ HandlerReturns(w) \/ HandlerFails(w)
      PROVE  CancelledWorkIsFenced'
  BY <1>1, <1>8 DEF HeartbeatJob, WorkUnderLease, HandlerReturns, HandlerFails
<1>9. ASSUME NEW p \in Procs,
             ShutdownPool(p) \/ CancelJobs(p) \/ PoolDrained(p) \/ Crash(p)
      PROVE  CancelledWorkIsFenced'
  BY <1>1, <1>9 DEF ShutdownPool, CancelJobs, PoolDrained, Crash
<1>10. CASE Tick \/ UNCHANGED vars
  BY <1>1, <1>10 DEF Tick
<1>11. QED
  BY <1>2, <1>3, <1>4, <1>5, <1>6, <1>7, <1>8, <1>9, <1>10 DEF Next, WorkerStep, ProcStep

(* From the transaction that cancels a run on, no worker obtains run work   *)
(* of it and no new row of it appears.                                      *)
THEOREM CancelStopsClaims == Spec => CancelledRunIsNotClaimed
<1> DEFINE Quiet ==
      \A j \in Jobs :
        JobClass[j] = "RUN_WORK" /\ JobRun[j] \in cancelling
          => token'[j] = token[j] /\ (state[j] = "ABSENT" => state'[j] = "ABSENT")
<1>1. Init => CancelledWorkIsFenced
  BY DEF Init, CancelledWorkIsFenced
<1>2. TypeOK /\ CancelledWorkIsFenced /\ [Next]_vars => [Quiet]_vars
  <2> SUFFICES ASSUME TypeOK, CancelledWorkIsFenced, Next PROVE Quiet
    OBVIOUS
  <2>0. /\ state \in [Jobs -> States] /\ token \in [Jobs -> Nat]
        /\ cancelling \subseteq Runs /\ None \notin Runs
    BY NoneAssumption DEF TypeOK
  <2>1. ASSUME token' = token, \A j \in Jobs : state[j] = "ABSENT" => state'[j] = "ABSENT"
        PROVE  Quiet
    BY <2>1
  <2>2. ASSUME NEW j \in Jobs, EnqueueJob(j) PROVE Quiet
    BY <2>0, <2>2 DEF EnqueueJob, FencedAtEnqueue
  <2>3. ASSUME NEW r \in Runs, FenceAndCancelRunJobs(r) PROVE Quiet
    BY <2>1, <2>3 DEF FenceAndCancelRunJobs, ToFence
  <2>4. ASSUME NEW w \in Workers, ClaimJob(w) PROVE Quiet
    <3>1. PICK j \in Jobs : /\ Claimable(j)
                            /\ state' = [state EXCEPT ![j] = "LEASED"]
                            /\ token' = [token EXCEPT ![j] = @ + 1]
      BY <2>4 DEF ClaimJob, FirstClaimable
    <3>2. ~(JobClass[j] = "RUN_WORK" /\ JobRun[j] \in cancelling) /\ state[j] = "AVAILABLE"
      BY <3>1 DEF Claimable, CancelledWorkIsFenced
    <3>3. QED
      BY <2>0, <3>1, <3>2
  <2>5. ASSUME NEW w \in Workers,
               \/ HeartbeatJob(w) \/ WorkUnderLease(w) \/ HandlerReturns(w) \/ HandlerFails(w)
        PROVE  Quiet
    BY <2>1, <2>5 DEF HeartbeatJob, WorkUnderLease, HandlerReturns, HandlerFails
  <2>6. ASSUME NEW w \in Workers, FinishUnderLease(w) \/ CompleteJob(w) PROVE Quiet
    BY <2>0, <2>1, <2>6 DEF FinishUnderLease, CompleteJob, HoldsLease
  <2>7. ASSUME NEW p \in Procs, RecoverExpiredJobs(p) \/ StartPool(p) PROVE Quiet
    BY <2>1, <2>7 DEF RecoverExpiredJobs, StartPool, RecoverRows, Expired
  <2>8. ASSUME NEW p \in Projects, ArchiveOrRestoreProject(p) PROVE Quiet
    BY <2>1, <2>8 DEF ArchiveOrRestoreProject
  <2>9. ASSUME NEW p \in Procs,
               ShutdownPool(p) \/ CancelJobs(p) \/ PoolDrained(p) \/ Crash(p)
        PROVE  Quiet
    BY <2>1, <2>9 DEF ShutdownPool, CancelJobs, PoolDrained, Crash
  <2>10. CASE Tick
    BY <2>1, <2>10 DEF Tick
  <2>11. QED
    BY <2>2, <2>3, <2>4, <2>5, <2>6, <2>7, <2>8, <2>9, <2>10 DEF Next, WorkerStep, ProcStep
<1>3. QED
  BY <1>1, <1>2, TypeCorrect, CancelledWorkIsFencedStep, PTL
     DEF Spec, CancelledRunIsNotClaimed

------------------------------------------------------------------------------
(***************************************************************************)
(* The queue implements the fenced lease.                                  *)
(***************************************************************************)
Open == {j \in Jobs : state[j] = "LEASED" /\ until[j] > 0}
Closed == {j \in Jobs : state[j] \in Terminal}

LEMMA LeaseInit == Init => FL!Init
  BY DEF Init, FL!Init, Terminal

(* A step that keeps the open and closed sets, the tokens and the history is a stutter. *)
LEMMA LeaseStutter ==
  ASSUME token' = token, lastWork' = lastWork, Open' = Open, Closed' = Closed
  PROVE  UNCHANGED FL!vars
  BY DEF FL!vars, Open, Closed

LEMMA LeaseStep == TypeOK /\ [Next]_vars => [FL!Next]_(FL!vars)
<1> SUFFICES ASSUME TypeOK, [Next]_vars PROVE FL!Next \/ UNCHANGED FL!vars
  OBVIOUS
<1> USE DEF Terminal
<1>0. /\ state \in [Jobs -> States]
      /\ token \in [Jobs -> Nat]
      /\ until \in [Jobs -> Nat]
      /\ lastWork \in [Jobs -> Nat]
      /\ worker \in [Workers -> Worker]
      /\ LeaseTTL \in Nat \ {0}
  BY TimeAssumption DEF TypeOK
<1>1. ASSUME token' = token, lastWork' = lastWork, state' = state, until' = until
      PROVE  UNCHANGED FL!vars
  BY <1>1 DEF FL!vars
<1>2. ASSUME NEW j \in Jobs, EnqueueJob(j) PROVE UNCHANGED FL!vars
  <2>1. Open' = Open /\ Closed' = Closed
    BY <1>0, <1>2 DEF EnqueueJob, Open, Closed
  <2>2. QED
    BY <1>2, <2>1, LeaseStutter DEF EnqueueJob
<1>3. ASSUME NEW r \in Runs, FenceAndCancelRunJobs(r) PROVE FL!Next \/ UNCHANGED FL!vars
  <2>1. /\ Open' = Open /\ Closed \subseteq Closed' /\ Closed' \in SUBSET Jobs
        /\ Closed' \intersect Open = {}
        /\ token' = token /\ lastWork' = lastWork
    BY <1>0, <1>3 DEF FenceAndCancelRunJobs, Open, Closed
  <2>2. CASE Closed' = Closed
    BY <2>1, <2>2, LeaseStutter
  <2>3. CASE Closed' # Closed
    <3>1. FL!Close
      BY <2>1, <2>3 DEF FL!Close, Open, Closed
    <3>2. QED
      BY <3>1 DEF FL!Next
  <2>4. QED
    BY <2>2, <2>3
<1>4. ASSUME NEW w \in Workers, ClaimJob(w) PROVE FL!Next
  <2>1. PICK j \in Jobs : /\ Claimable(j)
                          /\ state' = [state EXCEPT ![j] = "LEASED"]
                          /\ token' = [token EXCEPT ![j] = @ + 1]
                          /\ until' = [until EXCEPT ![j] = LeaseTTL]
    BY <1>4 DEF ClaimJob, FirstClaimable
  <2>2. state[j] = "AVAILABLE" /\ lastWork' = lastWork
    BY <1>4, <2>1 DEF Claimable, ClaimJob
  <2>3. /\ j \notin Open \union Closed
        /\ Open' = Open \union {j}
        /\ Closed' = Closed
    BY <1>0, <2>1, <2>2 DEF Open, Closed
  <2>4. FL!Grant(j)
    BY <2>1, <2>2, <2>3 DEF FL!Grant, Open, Closed
  <2>5. QED
    BY <2>4 DEF FL!Next
<1>5. ASSUME NEW w \in Workers, HeartbeatJob(w) PROVE UNCHANGED FL!vars
  <2>1. Open' = Open /\ Closed' = Closed
    BY <1>0, <1>5 DEF HeartbeatJob, HoldsLease, Open, Closed
  <2>2. QED
    BY <1>5, <2>1, LeaseStutter DEF HeartbeatJob
<1>6. ASSUME NEW w \in Workers, WorkUnderLease(w) PROVE FL!Next \/ UNCHANGED FL!vars
  <2>1. CASE worker[w].job \in Jobs
    <3>0. PICK j \in Jobs : j = worker[w].job
      BY <2>1
    <3>1. j \in Open
      BY <1>6, <3>0 DEF WorkUnderLease, HoldsLease, Open
    <3>2. lastWork' = [lastWork EXCEPT ![j] = token[j]]
      BY <1>6, <3>0 DEF WorkUnderLease, HoldsLease
    <3>3. token' = token /\ state' = state /\ until' = until
      BY <1>6 DEF WorkUnderLease
    <3>4. FL!Commit(j)
      BY <3>1, <3>2, <3>3 DEF FL!Commit, Open
    <3>5. QED
      BY <3>4 DEF FL!Next
  <2>2. CASE worker[w].job \notin Jobs
    <3>1. lastWork' = lastWork
      BY <1>0, <1>6, <2>2 DEF WorkUnderLease
    <3>2. QED
      BY <1>1, <1>6, <3>1 DEF WorkUnderLease
  <2>3. QED
    BY <2>1, <2>2
<1>7. ASSUME NEW w \in Workers, FinishUnderLease(w) PROVE FL!Next \/ UNCHANGED FL!vars
  <2> DEFINE j == worker[w].job
  <2>0. /\ lastWork' = [lastWork EXCEPT ![j] = token[j]]
        /\ state' = [state EXCEPT ![j] = "SUCCEEDED"]
        /\ until' = [until EXCEPT ![j] = 0]
        /\ token' = token
        /\ state[j] = "LEASED"
        /\ until[j] > 0
    BY <1>7 DEF FinishUnderLease, HoldsLease
  <2> HIDE DEF j
  <2>1. CASE j \in Jobs
    <3>1. PICK k \in Jobs : k = j
      BY <2>1
    <3>2. k \in Open /\ Open' = Open \ {k} /\ Closed' = Closed \union {k}
      BY <1>0, <2>0, <3>1 DEF Open, Closed
    <3>3. FL!Commit(k)
      BY <2>0, <3>1, <3>2 DEF FL!Commit, Open, Closed
    <3>4. QED
      BY <3>3 DEF FL!Next
  <2>2. CASE j \notin Jobs
    <3>1. lastWork' = lastWork /\ state' = state /\ until' = until
      BY <1>0, <2>0, <2>2
    <3>2. QED
      BY <1>1, <2>0, <3>1
  <2>3. QED
    BY <2>1, <2>2
<1>8. ASSUME NEW w \in Workers, CompleteJob(w) PROVE FL!Next \/ UNCHANGED FL!vars
  <2> DEFINE j == worker[w].job
  <2>0. token' = token /\ lastWork' = lastWork
    BY <1>8 DEF CompleteJob
  <2>1. CASE state' = state /\ until' = until
    BY <1>1, <2>0, <2>1
  <2>2. CASE ~(state' = state /\ until' = until)
    <3>1. /\ state' = [state EXCEPT ![j] = "SUCCEEDED"]
          /\ until' = [until EXCEPT ![j] = 0]
          /\ state[j] = "LEASED"
          /\ until[j] > 0
      BY <1>8, <2>2 DEF CompleteJob, HoldsLease
    <3>2. j \in Jobs
      BY <1>0, <2>2, <3>1
    <3> HIDE DEF j
    <3>3. PICK k \in Jobs : k = j
      BY <3>2
    <3>4. k \in Open /\ Open' = Open \ {k} /\ Closed' = Closed \union {k}
      BY <1>0, <3>1, <3>3 DEF Open, Closed
    <3>5. FL!Settle(k)
      BY <2>0, <3>4 DEF FL!Settle, Open, Closed
    <3>6. QED
      BY <3>5 DEF FL!Next
  <2>3. QED
    BY <2>1, <2>2
<1>9. ASSUME RecoverRows, lastWork' = lastWork PROVE FL!Next \/ UNCHANGED FL!vars
  <2>1. /\ Open' = Open /\ Closed \subseteq Closed' /\ Closed' \in SUBSET Jobs
        /\ Closed' \intersect Open = {}
        /\ token' = token
    BY <1>0, <1>9 DEF RecoverRows, Expired, Open, Closed
  <2>2. CASE Closed' = Closed
    BY <1>9, <2>1, <2>2, LeaseStutter
  <2>3. CASE Closed' # Closed
    <3>1. FL!Close
      BY <1>9, <2>1, <2>3 DEF FL!Close, Open, Closed
    <3>2. QED
      BY <3>1 DEF FL!Next
  <2>4. QED
    BY <2>2, <2>3
<1>10. CASE Tick
  <2>1. /\ Open' \in SUBSET Open /\ Closed' = Closed
        /\ token' = token /\ lastWork' = lastWork
    <3>1. \A j \in Jobs : until'[j] > 0 => until[j] > 0
      BY <1>0, <1>10, LessIsLess DEF Tick
    <3>2. QED
      BY <1>10, <3>1 DEF Tick, Open, Closed
  <2>2. CASE Open' = Open
    BY <2>1, <2>2, LeaseStutter
  <2>3. CASE Open' # Open
    <3>1. FL!Lapse
      BY <2>1, <2>3 DEF FL!Lapse, Open, Closed
    <3>2. QED
      BY <3>1 DEF FL!Next
  <2>4. QED
    BY <2>2, <2>3
<1>11. ASSUME NEW p \in Procs, RecoverExpiredJobs(p) \/ StartPool(p)
       PROVE  FL!Next \/ UNCHANGED FL!vars
  BY <1>9, <1>11 DEF RecoverExpiredJobs, StartPool
<1>12. ASSUME NEW w \in Workers, HandlerReturns(w) \/ HandlerFails(w)
       PROVE  UNCHANGED FL!vars
  BY <1>1, <1>12 DEF HandlerReturns, HandlerFails
<1>13. ASSUME NEW p \in Procs,
              ShutdownPool(p) \/ CancelJobs(p) \/ PoolDrained(p) \/ Crash(p)
       PROVE  UNCHANGED FL!vars
  BY <1>1, <1>13 DEF ShutdownPool, CancelJobs, PoolDrained, Crash
<1>14. ASSUME NEW p \in Projects, ArchiveOrRestoreProject(p) PROVE UNCHANGED FL!vars
  BY <1>1, <1>14 DEF ArchiveOrRestoreProject
<1>15. CASE UNCHANGED vars
  BY <1>1, <1>15
<1>16. QED
  BY <1>2, <1>3, <1>4, <1>5, <1>6, <1>7, <1>8, <1>10, <1>11, <1>12, <1>13, <1>14, <1>15
     DEF Next, WorkerStep, ProcStep

(* The queue implements the fenced lease: whatever clocks, reapers, crashes *)
(* and zombies do, tokens only grow, a fenced transaction runs only under   *)
(* the grant in force, and a settled job is never granted nor worked on.    *)
THEOREM QueueImplementsLease == Spec => LeaseSpec
<1>1. Spec => FL!Init
  BY LeaseInit DEF Spec
<1>2. QED
  BY <1>1, TypeCorrect, LeaseStep, PTL DEF Spec, LeaseSpec, FL!Spec
------------------------------------------------------------------------------
(***************************************************************************)
(* The worker's copy of its lease.  A row whose holder may still think it  *)
(* has the lease is not waiting to be claimed: it is put back in the queue *)
(* only when its lease, and so every copy of it, has run out.              *)
(***************************************************************************)
CopyIsBehindRow ==
  \A w \in Workers :
    LET j == worker[w].job IN
    /\ worker[w].until <= LeaseTTL
    /\ Busy(w) /\ worker[w].until > 0 =>
         /\ j \in Jobs /\ state[j] \in {"LEASED"} \union Terminal
         /\ state[j] = "LEASED" => token[j] = worker[w].token /\ worker[w].until <= until[j]

(* Steps after which a worker knows no more than before, and the row of the   *)
(* job it may hold is as it was, settled, or renewed.                         *)
LEMMA RowsKeepUp ==
  ASSUME TypeOK, CopyIsBehindRow,
         \A w \in Workers : /\ worker'[w].until \in Nat /\ worker'[w].until <= worker[w].until
                            /\ \/ worker'[w].pc = "idle"
                               \/ /\ Busy(w) /\ worker'[w].job = worker[w].job
                                  /\ worker'[w].token = worker[w].token,
         \A j \in Jobs : state[j] \in {"LEASED"} \union Terminal =>
           \/ state'[j] \in Terminal
           \/ state'[j] = state[j] /\ token'[j] = token[j] /\ until'[j] = until[j]
           \/ state'[j] = state[j] /\ token'[j] = token[j] /\ until'[j] = LeaseTTL
           \/ until[j] = 0 /\ state[j] = "LEASED"
  PROVE  CopyIsBehindRow'
<1> SUFFICES ASSUME NEW w \in Workers
             PROVE  /\ worker'[w].until <= LeaseTTL
                    /\ Busy(w)' /\ worker'[w].until > 0 =>
                         /\ worker'[w].job \in Jobs /\ state'[worker'[w].job] \in {"LEASED"} \union Terminal
                         /\ state'[worker'[w].job] = "LEASED" =>
                              /\ token'[worker'[w].job] = worker'[w].token
                              /\ worker'[w].until <= until'[worker'[w].job]
  BY DEF CopyIsBehindRow
<1>1. worker[w].until \in Nat /\ worker[w].until <= LeaseTTL /\ LeaseTTL \in Nat
  BY TimeAssumption DEF TypeOK, Worker, CopyIsBehindRow
<1>2. worker'[w].until \in Nat /\ worker'[w].until <= worker[w].until
  OBVIOUS
<1>3. ASSUME Busy(w)', worker'[w].until > 0
      PROVE  /\ worker'[w].job \in Jobs /\ state'[worker'[w].job] \in {"LEASED"} \union Terminal
             /\ state'[worker'[w].job] = "LEASED" =>
                  /\ token'[worker'[w].job] = worker'[w].token
                  /\ worker'[w].until <= until'[worker'[w].job]
  <2> DEFINE j == worker[w].job
  <2>1. Busy(w) /\ worker'[w].job = j /\ worker'[w].token = worker[w].token /\ worker[w].until > 0
    BY <1>1, <1>2, <1>3 DEF Busy
  <2>2. /\ j \in Jobs /\ state[j] \in {"LEASED"} \union Terminal
        /\ state[j] = "LEASED" => token[j] = worker[w].token /\ worker[w].until <= until[j]
    BY <2>1 DEF CopyIsBehindRow
  <2>3. until[j] \in Nat
    BY <2>2, TimeAssumption DEF TypeOK
  <2> QED
    BY <1>1, <1>2, <2>1, <2>2, <2>3 DEF Terminal
<1> QED
  BY <1>1, <1>2, <1>3

LEMMA CopyIsBehindRowStep == TypeOK /\ TokensDistinct /\ CopyIsBehindRow /\ [Next]_vars => CopyIsBehindRow'
<1> SUFFICES ASSUME TypeOK, TokensDistinct, CopyIsBehindRow, [Next]_vars PROVE CopyIsBehindRow'
  OBVIOUS
<1>0. /\ worker \in [Workers -> Worker] /\ LeaseTTL \in Nat
      /\ state \in [Jobs -> States] /\ token \in [Jobs -> Nat] /\ until \in [Jobs -> 0..LeaseTTL]
      /\ \A w \in Workers : worker[w].until \in Nat
  BY TimeAssumption DEF TypeOK, Worker
<1>1. ASSUME worker' = worker, \A j \in Jobs : token'[j] = token[j],
             \A j \in Jobs : state[j] \in {"LEASED"} \union Terminal =>
               \/ state'[j] \in Terminal \/ (state'[j] = state[j] /\ until'[j] = until[j])
               \/ until[j] = 0 /\ state[j] = "LEASED"
      PROVE  CopyIsBehindRow'
  <2>1. \A w \in Workers : \/ worker'[w].pc = "idle"
                           \/ Busy(w) /\ worker'[w].job = worker[w].job /\ worker'[w].token = worker[w].token
    BY <1>1 DEF Busy
  <2> QED
    BY <1>0, <1>1, <2>1, RowsKeepUp
<1>2. ASSUME \A w \in Workers : \/ worker'[w] = worker[w] \/ worker'[w] = Idle
                                \/ worker'[w] = [worker[w] EXCEPT !.beating = FALSE]
                                \/ worker'[w] = [worker[w] EXCEPT !.pc = "returned", !.beating = FALSE] /\ Busy(w),
             \A j \in Jobs : token'[j] = token[j],
             \A j \in Jobs : state'[j] \in Terminal \/ (state'[j] = state[j] /\ until'[j] = until[j])
      PROVE  CopyIsBehindRow'
  <2>1. ASSUME NEW w \in Workers
        PROVE  /\ worker'[w].until \in Nat /\ worker'[w].until <= worker[w].until
               /\ \/ worker'[w].pc = "idle"
                  \/ Busy(w) /\ worker'[w].job = worker[w].job /\ worker'[w].token = worker[w].token
    <3>1. worker[w] \in Worker /\ worker[w].until \in Nat
      BY <1>0
    <3>2. CASE worker'[w] = worker[w]
      BY <3>1, <3>2 DEF Busy, Worker
    <3>3. CASE worker'[w] = Idle
      BY <3>1, <3>3 DEF Idle
    <3>4. CASE worker'[w] = [worker[w] EXCEPT !.beating = FALSE]
      BY <3>1, <3>4 DEF Busy, Worker
    <3>5. CASE worker'[w] = [worker[w] EXCEPT !.pc = "returned", !.beating = FALSE] /\ Busy(w)
      BY <3>1, <3>5 DEF Busy, Worker
    <3> QED
      BY <1>2, <3>2, <3>3, <3>4, <3>5
  <2>2. \A w \in Workers : /\ worker'[w].until \in Nat /\ worker'[w].until <= worker[w].until
                           /\ \/ worker'[w].pc = "idle"
                              \/ /\ Busy(w) /\ worker'[w].job = worker[w].job
                                 /\ worker'[w].token = worker[w].token
    BY <2>1
  <2>3. \A j \in Jobs : state[j] \in {"LEASED"} \union Terminal =>
          \/ state'[j] \in Terminal
          \/ state'[j] = state[j] /\ token'[j] = token[j] /\ until'[j] = until[j]
          \/ state'[j] = state[j] /\ token'[j] = token[j] /\ until'[j] = LeaseTTL
          \/ until[j] = 0 /\ state[j] = "LEASED"
    BY <1>2
  <2> HIDE <1>2
  <2> QED
    BY <2>2, <2>3, RowsKeepUp
<1>3. ASSUME NEW j \in Jobs, EnqueueJob(j) PROVE CopyIsBehindRow'
  BY <1>0, <1>1, <1>3 DEF EnqueueJob, Terminal
<1>4. ASSUME NEW r \in Runs, FenceAndCancelRunJobs(r) PROVE CopyIsBehindRow'
  BY <1>0, <1>1, <1>4 DEF FenceAndCancelRunJobs, Terminal
<1>5. ASSUME NEW p \in Projects, ArchiveOrRestoreProject(p) PROVE CopyIsBehindRow'
  BY <1>1, <1>5 DEF ArchiveOrRestoreProject
<1>6. ASSUME NEW w \in Workers, ClaimJob(w) PROVE CopyIsBehindRow'
  <2>1. PICK j \in Jobs :
          /\ state[j] = "AVAILABLE"
          /\ state' = [state EXCEPT ![j] = "LEASED"]
          /\ token' = [token EXCEPT ![j] = @ + 1]
          /\ until' = [until EXCEPT ![j] = LeaseTTL]
          /\ worker' = [worker EXCEPT ![w] =
                          [pc |-> "handling", job |-> j, token |-> token[j] + 1,
                           until |-> LeaseTTL, beating |-> TRUE]]
    BY <1>6 DEF ClaimJob, FirstClaimable, Claimable
  <2>2. worker'[w].job = j /\ worker'[w].token = token'[j] /\ worker'[w].until = LeaseTTL
    BY <1>0, <2>1
  <2>3. ASSUME NEW v \in Workers, v # w, Busy(v), worker[v].until > 0
        PROVE  worker'[v] = worker[v] /\ worker[v].job # j /\ worker[v].job \in Jobs
    BY <1>0, <2>1, <2>3 DEF CopyIsBehindRow, Terminal
  <2>4. \A v \in Workers : v # w => worker'[v] = worker[v]
    BY <1>0, <2>1
  <2>5. \A k \in Jobs : k # j => state'[k] = state[k] /\ token'[k] = token[k] /\ until'[k] = until[k]
    BY <1>0, <2>1
  <2>6. state'[j] = "LEASED" /\ until'[j] = LeaseTTL
    BY <1>0, <2>1
  <2> QED
    BY <1>0, <2>1, <2>2, <2>3, <2>4, <2>5, <2>6 DEF CopyIsBehindRow, Busy
<1>7. ASSUME NEW w \in Workers, HeartbeatJob(w) PROVE CopyIsBehindRow'
  <2>1. state' = state /\ token' = token
    BY <1>7 DEF HeartbeatJob
  <2>2. CASE worker' = [worker EXCEPT ![w].beating = FALSE] /\ until' = until
    BY <1>0, <1>2, <2>1, <2>2
  <2>3. CASE /\ HoldsLease(w) /\ until' = [until EXCEPT ![worker[w].job] = LeaseTTL]
             /\ worker' = [worker EXCEPT ![w].until = LeaseTTL]
    <3>1. worker'[w].until = LeaseTTL /\ worker'[w].job = worker[w].job /\ worker'[w].token = worker[w].token
      BY <1>0, <2>3 DEF Worker
    <3>2. \A v \in Workers : v # w => worker'[v] = worker[v]
      BY <1>0, <2>3
    <3>3. \A k \in Jobs : until'[k] = until[k] \/ until'[k] = LeaseTTL
      BY <1>0, <2>3
    <3>4. worker[w].job \in Jobs /\ state[worker[w].job] = "LEASED" /\ token[worker[w].job] = worker[w].token
          /\ until'[worker[w].job] = LeaseTTL
      <4>1. worker[w].job \in Jobs
        BY <1>7 DEF HeartbeatJob, Beating, TokensDistinct, Busy
      <4> QED
        BY <1>0, <2>3, <4>1 DEF HoldsLease
    <3>5. \A v \in Workers : worker[v].until <= LeaseTTL
      BY DEF CopyIsBehindRow
    <3> QED
      BY <1>0, <2>1, <3>1, <3>2, <3>3, <3>4, <3>5 DEF CopyIsBehindRow, Busy
  <2> QED
    BY <1>7, <2>2, <2>3 DEF HeartbeatJob
<1>8. ASSUME NEW w \in Workers, WorkUnderLease(w) PROVE CopyIsBehindRow'
  BY <1>1, <1>8 DEF WorkUnderLease
<1>9. ASSUME NEW w \in Workers, FinishUnderLease(w) PROVE CopyIsBehindRow'
  <2>1. worker' = worker /\ token' = token
    BY <1>9 DEF FinishUnderLease
  <2>2. ASSUME NEW j \in Jobs PROVE state'[j] \in Terminal \/ (state'[j] = state[j] /\ until'[j] = until[j])
    BY <1>0, <1>9 DEF FinishUnderLease, Terminal
  <2>3. \A j \in Jobs : token'[j] = token[j]
    BY <2>1
  <2>4. \A j \in Jobs : state[j] \in {"LEASED"} \union Terminal =>
          \/ state'[j] \in Terminal \/ (state'[j] = state[j] /\ until'[j] = until[j])
          \/ until[j] = 0 /\ state[j] = "LEASED"
    BY <2>2
  <2> QED
    BY <1>1, <2>1, <2>3, <2>4
<1>10. ASSUME NEW w \in Workers, HandlerReturns(w) \/ HandlerFails(w) PROVE CopyIsBehindRow'
  BY <1>0, <1>2, <1>10 DEF HandlerReturns, HandlerFails, Busy
<1>11. ASSUME NEW w \in Workers, CompleteJob(w) PROVE CopyIsBehindRow'
  <2>1. worker' = [worker EXCEPT ![w] = Idle] /\ token' = token
    BY <1>11 DEF CompleteJob
  <2>2. ASSUME NEW j \in Jobs PROVE state'[j] \in Terminal \/ (state'[j] = state[j] /\ until'[j] = until[j])
    BY <1>0, <1>11 DEF CompleteJob, Terminal
  <2>3. \A v \in Workers : \/ worker'[v] = worker[v] \/ worker'[v] = Idle
                           \/ worker'[v] = [worker[v] EXCEPT !.beating = FALSE]
                           \/ worker'[v] = [worker[v] EXCEPT !.pc = "returned", !.beating = FALSE] /\ Busy(v)
    BY <1>0, <2>1
  <2>4. \A j \in Jobs : token'[j] = token[j]
    BY <2>1
  <2>5. \A j \in Jobs : state'[j] \in Terminal \/ (state'[j] = state[j] /\ until'[j] = until[j])
    BY <2>2
  <2> QED
    BY <1>2, <2>3, <2>4, <2>5
<1>12. ASSUME RecoverRows, worker' = worker PROVE CopyIsBehindRow'
  BY <1>0, <1>1, <1>12 DEF RecoverRows, Expired
<1>13. ASSUME NEW p \in Procs, RecoverExpiredJobs(p) \/ StartPool(p) PROVE CopyIsBehindRow'
  BY <1>12, <1>13 DEF RecoverExpiredJobs, StartPool
<1>14. ASSUME NEW p \in Procs, ShutdownPool(p) \/ PoolDrained(p) PROVE CopyIsBehindRow'
  BY <1>1, <1>14 DEF ShutdownPool, PoolDrained
<1>15. ASSUME NEW p \in Procs, CancelJobs(p) \/ Crash(p) PROVE CopyIsBehindRow'
  BY <1>0, <1>2, <1>15 DEF CancelJobs, Crash
<1>16. CASE Tick
  <2>1. /\ state' = state /\ token' = token /\ \A j \in Jobs : until'[j] = Less(until[j])
        /\ \A w \in Workers : worker'[w] = [worker[w] EXCEPT !.until = Less(worker[w].until)]
    BY <1>0, <1>16 DEF Tick
  <2>2. \A w \in Workers : /\ worker'[w].pc = worker[w].pc /\ worker'[w].job = worker[w].job
                           /\ worker'[w].token = worker[w].token /\ worker'[w].until = Less(worker[w].until)
    <3> SUFFICES ASSUME NEW w \in Workers
                 PROVE  /\ worker'[w].pc = worker[w].pc /\ worker'[w].job = worker[w].job
                        /\ worker'[w].token = worker[w].token /\ worker'[w].until = Less(worker[w].until)
      OBVIOUS
    <3> DEFINE n == Less(worker[w].until)
    <3>1. worker'[w] = [worker[w] EXCEPT !.until = n]
      BY <2>1
    <3>2. worker[w] \in Worker
      BY <1>0
    <3> HIDE DEF n
    <3>3. /\ [worker[w] EXCEPT !.until = n].pc = worker[w].pc /\ [worker[w] EXCEPT !.until = n].job = worker[w].job
          /\ [worker[w] EXCEPT !.until = n].token = worker[w].token /\ [worker[w] EXCEPT !.until = n].until = n
      BY <3>2 DEF Worker
    <3> QED
      BY <3>1, <3>3 DEF n
  <2>3. \A m, n \in Nat : m <= n => Less(m) <= Less(n) /\ Less(m) <= m
    BY DEF Less
  <2>4. \A w \in Workers : worker[w].until > 0 \/ Less(worker[w].until) = 0
    BY <1>0 DEF Less
  <2>5. \A j \in Jobs : until[j] \in Nat
    BY <1>0
  <2> QED
    BY <1>0, <2>1, <2>2, <2>3, <2>4, <2>5 DEF CopyIsBehindRow, Busy, Less
<1>17. CASE UNCHANGED vars
  BY <1>1, <1>17
<1> QED
  BY <1>3, <1>4, <1>5, <1>6, <1>7, <1>8, <1>9, <1>10, <1>11, <1>13, <1>14, <1>15, <1>16, <1>17
     DEF Next, WorkerStep, ProcStep

(* The heartbeat loop gives up on errors by its own copy of the lease alone: *)
(* while that copy is in force, nobody else has claimed the job.             *)
THEOREM CopyIsCurrent == Spec => []LocalLeaseIsCurrent
<1>1. Init => CopyIsBehindRow
  BY TimeAssumption DEF Init, CopyIsBehindRow, Busy, Idle
<1>2. TypeOK /\ CopyIsBehindRow => LocalLeaseIsCurrent
  BY TimeAssumption DEF TypeOK, Worker, CopyIsBehindRow, LocalLeaseIsCurrent
<1>3. Init => TokensDistinct
  BY DEF Init, TokensDistinct, Busy, Idle
<1>4. QED
  BY <1>1, <1>2, <1>3, TypeCorrect, TokensDistinctStep, CopyIsBehindRowStep, PTL DEF Spec

==============================================================================
