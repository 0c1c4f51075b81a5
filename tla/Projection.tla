------------------------------ MODULE Projection ------------------------------
(***************************************************************************)
(* A projection of the event journal and its rebuild (app/projection,      *)
(* app/projectionrebuild, app/projectionrebuildworker).  Consumers apply   *)
(* the journal to the rows of the active generation, batch by batch; a     *)
(* rebuild copies those rows into a shadow generation, applies what came   *)
(* after them in the same way, and makes the shadow the active one.  The   *)
(* checkpoint of a generation carries its cursor, its status and the lease *)
(* of whoever applies to it.                                               *)
(*                                                                         *)
(* Each action is one transaction.  STALE is LIVE with more to come and is *)
(* not told apart from it; a row is abstracted to the events it was        *)
(* reduced from.                                                           *)
(***************************************************************************)
EXTENDS Integers, Sequences, FiniteSets

CONSTANTS
  Consumers,     \* workers that keep the active generation up to date
  Ops,           \* rebuild operations in the order of their requests, each with its job
  MaxClaims,     \* claims of its job
  BatchSize,     \* events of a batch
  MaxRounds,     \* Deps.MaxCutoverCatchUpRounds
  MaxEvents,     \* bound of the journal
  MaxFaults,     \* bound: processes that stop, leases lost by who is at work, cleanups
  MaxGeneration, \* bound of generation numbers; more than Ops + 1 are never used
  None,          \* a lease nobody was granted yet
  Gone           \* whoever let a lease run out

Handlers == UNION {{o} \X (1..MaxClaims[o]) : o \in Ops}

ASSUME ProjectionAssumption ==
  /\ Ops \subseteq Nat
  /\ MaxClaims \in [Ops -> Nat \ {0}] /\ BatchSize \in Nat \ {0}
  /\ MaxRounds \in Nat /\ MaxEvents \in Nat /\ MaxFaults \in Nat /\ MaxGeneration \in Nat \ {0}
  /\ Consumers \intersect Handlers = {} /\ {None, Gone} \intersect (Consumers \union Handlers) = {}
  /\ None # Gone

VARIABLES
  journal, \* domain_events, but for those a projection skips (another project's, or
           \* classified Ignore): an event to apply, or poison, which no reducer takes
  active,  \* projection_generations.active_generation, 0 if there is no row
  ckpt,    \* projection_checkpoints, by generation
  rows,    \* projection_rows, by generation: how often each event was applied
  op,      \* projection_rebuild_operations
  job,     \* durable_jobs
  proc,    \* a round of a consumer, or the handler of an operation's k-th delivery
  left     \* how many of MaxFaults are still to come

vars == <<journal, active, ckpt, rows, op, job, proc, left>>

Actors == Consumers \union Handlers
Generations == 1..MaxGeneration
Positions == 1..MaxEvents

Started == {"SNAPSHOTTING", "BUILDING", "CUTTING_OVER"}
Open == {"REQUESTED"} \union Started
Terminal == {"SUCCEEDED", "FAILED"}
Phases == {"NONE"} \union Open \union Terminal

Absent == [status |-> "NONE", cursor |-> 0, holder |-> None, held |-> FALSE]
NoRows == [p \in Positions |-> 0]
Off == [pc |-> "off", seen |-> "NONE", rounds |-> 0, more |-> FALSE,
        gen |-> 0, cursor |-> 0, reborn |-> FALSE]

Init ==
  /\ journal = <<>> /\ active = 0
  /\ ckpt = [g \in Generations |-> Absent]
  /\ rows = [g \in Generations |-> NoRows]
  /\ op = [o \in Ops |-> [phase |-> "NONE", shadow |-> 0]]
  /\ job = [o \in Ops |-> [state |-> "NONE", claims |-> 0]]
  /\ proc = [a \in Actors |-> Off]
  /\ left = MaxFaults

-----------------------------------------------------------------------------
HoldsJob(h) == job[h[1]] = [state |-> "LEASED", claims |-> h[2]]

Exists(g) == ckpt[g].status # "NONE"

(* Mutant: a lease that ran out is not given to somebody else. *)
GrantableToHolder(g, a) == ckpt[g].holder \in {None, a}

(* AcquireOrRenewConsumerLease: a free lease, or one's own; the row is made if  *)
(* there is none.                                                               *)
Grantable(g, a) == ~ckpt[g].held \/ ckpt[g].holder = a
Granted(g, a) ==
  [status |-> IF Exists(g) THEN ckpt[g].status ELSE "LIVE", cursor |-> ckpt[g].cursor,
   holder |-> a, held |-> TRUE]

(* The fence token is the one a was granted: nobody was granted the lease after *)
(* it.  The tokens of a generation that was discarded and made again start over *)
(* (reborn), so an old one may or may not be the current one.                   *)
FenceMatches(a) ==
  LET holder == ckpt[proc[a].gen].holder
  IN  IF proc[a].reborn THEN (IF holder = None THEN {FALSE} ELSE BOOLEAN) ELSE {holder = a}

(* The compare-and-swap of UpsertProjectionCheckpoint can succeed, can fail. *)
CursorMatches(a) == Exists(proc[a].gen) /\ ckpt[proc[a].gen].cursor = proc[a].cursor
Current(a) == CursorMatches(a) /\ TRUE \in FenceMatches(a)
Superseded(a) == ~CursorMatches(a) \/ FALSE \in FenceMatches(a)

(* Where a round that scanned a batch leaves its process: a consumer is done,   *)
(* a handler goes on to record its progress.                                    *)
RoundOver(a, more) ==
  IF a \in Consumers THEN Off
  ELSE [Off EXCEPT !.pc = "applied", !.seen = proc[a].seen, !.rounds = proc[a].rounds, !.more = more]

(* A round that was granted the lease; a DEGRADED generation stays as it is. *)
RoundBegins(a, g) ==
  IF ckpt[g].status = "DEGRADED" THEN RoundOver(a, FALSE)
  ELSE [proc[a] EXCEPT !.pc = "leased", !.gen = g, !.cursor = ckpt[g].cursor, !.reborn = FALSE]

Becomes(a, p) == proc' = [proc EXCEPT ![a] = p]
Stops(a) == Becomes(a, Off)

(* One of the bounded faults. *)
Fault == left > 0 /\ left' = left - 1

-----------------------------------------------------------------------------
(* Whatever else the program does appends events. *)
AppendEvent(kind) ==
  /\ Len(journal) < MaxEvents
  /\ journal' = Append(journal, kind)
  /\ UNCHANGED <<active, ckpt, rows, op, job, proc, left>>

(* A new version of the program has a reducer for what was poison. *)
Upgrade(p) ==
  /\ journal[p] = "poison"
  /\ journal' = [journal EXCEPT ![p] = "apply"]
  /\ UNCHANGED <<active, ckpt, rows, op, job, proc, left>>

(* ApplyBatch, first transaction: generation 1 if there is none, and its lease. *)
AcquireActive(c) ==
  LET g == IF active = 0 THEN 1 ELSE active
  IN  /\ proc[c].pc = "off" /\ Grantable(g, c)
      /\ active' = g
      /\ ckpt' = [ckpt EXCEPT ![g] = Granted(g, c)]
      /\ Becomes(c, RoundBegins(c, g))
      /\ UNCHANGED <<journal, rows, op, job, left>>

(* applyLeasedBatch *)
BatchEnd(a) ==
  IF proc[a].cursor + BatchSize < Len(journal) THEN proc[a].cursor + BatchSize ELSE Len(journal)
Batch(a) == (proc[a].cursor + 1)..BatchEnd(a)
Poisoned(a) == \E p \in Batch(a) : journal[p] = "poison"

NothingNew(a) ==
  /\ proc[a].pc = "leased" /\ Batch(a) = {}
  /\ Becomes(a, RoundOver(a, FALSE))
  /\ UNCHANGED <<journal, active, ckpt, rows, op, job, left>>

(* Mutant: the cursor is the position to read next, not the last one applied. *)
ApplyAndPointAhead(a) ==
  LET g == proc[a].gen
  IN  /\ proc[a].pc = "leased" /\ Batch(a) # {} /\ ~Poisoned(a) /\ Current(a)
      /\ ckpt' = [ckpt EXCEPT ![g].cursor = BatchEnd(a) + 1]
      /\ Becomes(a, RoundOver(a, Cardinality(Batch(a)) = BatchSize))
      /\ UNCHANGED <<journal, active, rows, op, job, left>>

(* Rows and cursor change in one transaction, under the lease. *)
ApplyEvents(a) ==
  LET g == proc[a].gen
  IN  /\ proc[a].pc = "leased" /\ Batch(a) # {} /\ ~Poisoned(a) /\ Current(a)
      /\ rows' = [rows EXCEPT ![g] =
                    [p \in Positions |-> IF p \in Batch(a) /\ journal[p] = "apply" THEN @[p] + 1 ELSE @[p]]]
      /\ ckpt' = [ckpt EXCEPT ![g].cursor = BatchEnd(a)]
      /\ Becomes(a, RoundOver(a, Cardinality(Batch(a)) = BatchSize))
      /\ UNCHANGED <<journal, active, op, job, left>>

(* A poison event rolls the batch back, the events before it included. *)
FindPoison(a) ==
  /\ proc[a].pc = "leased" /\ Poisoned(a)
  /\ Becomes(a, [proc[a] EXCEPT !.pc = "poisoned"])
  /\ UNCHANGED <<journal, active, ckpt, rows, op, job, left>>

(* The poison is recorded by a transaction of its own, at the last good cursor. *)
RecordPoison(a) ==
  /\ proc[a].pc = "poisoned" /\ Current(a)
  /\ ckpt' = [ckpt EXCEPT ![proc[a].gen].status = "DEGRADED"]
  /\ Becomes(a, IF a \in Consumers THEN Off ELSE [RoundOver(a, FALSE) EXCEPT !.pc = "failing"])
  /\ UNCHANGED <<journal, active, rows, op, job, left>>

(* Another round has taken the lease, or moved the cursor: the transaction fails. *)
LoseRound(a) ==
  /\ \/ proc[a].pc = "leased" /\ Batch(a) # {} /\ ~Poisoned(a)
     \/ proc[a].pc = "poisoned"
  /\ Superseded(a) /\ Stops(a)
  /\ UNCHANGED <<journal, active, ckpt, rows, op, job, left>>

-----------------------------------------------------------------------------
(* RequestProjectionRebuild: one operation that is not terminal at a time. *)
RequestProjectionRebuild(o) ==
  /\ op[o].phase = "NONE"
  /\ \A other \in Ops : op[other].phase \notin Open /\ (other < o => op[other].phase # "NONE")
  /\ op' = [op EXCEPT ![o].phase = "REQUESTED"]
  /\ job' = [job EXCEPT ![o].state = "AVAILABLE"]
  /\ UNCHANGED <<journal, active, ckpt, rows, proc, left>>

(* Where the loop of ExecuteProjectionRebuild goes with an operation it has just *)
(* read: a terminal one ends the delivery.                                      *)
Loop(phase, rounds) ==
  [Off EXCEPT !.pc = IF phase \in Terminal THEN "return" ELSE "next", !.seen = phase, !.rounds = rounds]

Fresh(h) == op[h[1]]
Shadow(h) == op[h[1]].shadow

(* The next delivery, which loads the operation. *)
Claim(h) ==
  /\ job[h[1]] = [state |-> "AVAILABLE", claims |-> h[2] - 1]
  /\ job' = [job EXCEPT ![h[1]] = [state |-> "LEASED", claims |-> h[2]]]
  /\ Becomes(h, Loop(Fresh(h).phase, 0))
  /\ UNCHANGED <<journal, active, ckpt, rows, op, left>>

(* A handler that returns without an error: the pool completes the job. *)
Return(h) ==
  /\ proc[h].pc = "return"
  /\ job' = IF HoldsJob(h) THEN [job EXCEPT ![h[1]].state = "DONE"] ELSE job
  /\ Stops(h)
  /\ UNCHANGED <<journal, active, ckpt, rows, op, left>>

(* A transaction of h that finds another phase than it expects, or that has     *)
(* lost the job: the delivery ends, with an error in the second case, and the   *)
(* job's lease is left to run out.                                              *)
Refused(h) ==
  /\ Fresh(h).phase \in Terminal \/ ~HoldsJob(h)
  /\ Becomes(h, IF Fresh(h).phase \in Terminal THEN Loop(Fresh(h).phase, 0) ELSE Off)
  /\ UNCHANGED <<journal, active, ckpt, rows, op, job, left>>

(* Mutant: a transition looks at the operation only, not at the job's lease. *)
AdmittedByPhase(h) == Fresh(h).phase \notin Terminal

Admitted(h) == Fresh(h).phase \notin Terminal /\ HoldsJob(h)

(* snapshotStep: the rows of the active generation, copied, and their cursor W0. *)
(* A generation is seeded once: what an earlier operation left of it is in the   *)
(* way.                                                                          *)
SnapshotOf == IF active = 0 THEN 1 ELSE active + 1

(* Mutant: the shadow starts at 0, as a new generation does. *)
FromTheStart == 0

W0 == IF active = 0 THEN 0 ELSE ckpt[active].cursor

Snapshot(h) ==
  /\ proc[h].pc = "next" /\ proc[h].seen = "REQUESTED"
  /\ Fresh(h).phase = "REQUESTED" /\ HoldsJob(h) /\ SnapshotOf <= MaxGeneration /\ ~Exists(SnapshotOf)
  /\ ckpt' = [ckpt EXCEPT ![SnapshotOf] = [Absent EXCEPT !.status = "LIVE", !.cursor = W0]]
  /\ rows' = [rows EXCEPT ![SnapshotOf] = IF active = 0 THEN @ ELSE rows[active]]
  /\ op' = [op EXCEPT ![h[1]] = [phase |-> "SNAPSHOTTING", shadow |-> SnapshotOf]]
  /\ Becomes(h, Loop("SNAPSHOTTING", 0))
  /\ UNCHANGED <<journal, active, job, left>>

SnapshotFails(h) ==
  /\ proc[h].pc = "next" /\ proc[h].seen = "REQUESTED"
  /\ \/ Fresh(h).phase # "REQUESTED" /\ Becomes(h, Loop(Fresh(h).phase, 0))
     \/ Fresh(h).phase = "REQUESTED" /\ (~HoldsJob(h) \/ (SnapshotOf <= MaxGeneration /\ Exists(SnapshotOf))) /\ Stops(h)
  /\ UNCHANGED <<journal, active, ckpt, rows, op, job, left>>

(* buildRound: the job's lease is looked at before the shadow's is touched. *)
Building(h) == proc[h].seen \in {"SNAPSHOTTING", "BUILDING"}
CatchingUp(h) == proc[h].seen = "CUTTING_OVER" /\ proc[h].rounds < MaxRounds

ValidateJobLease(h) ==
  /\ proc[h].pc = "next" /\ (Building(h) \/ CatchingUp(h))
  /\ Becomes(h, IF HoldsJob(h) THEN [proc[h] EXCEPT !.pc = "validated"] ELSE Off)
  /\ UNCHANGED <<journal, active, ckpt, rows, op, job, left>>

(* ReplayGenerationBatch, first transaction.  A generation that has been        *)
(* discarded comes to life again, empty.                                        *)
AcquireShadow(h) ==
  /\ proc[h].pc = "validated"
  /\ \/ /\ Grantable(Shadow(h), h)
        /\ ckpt' = [ckpt EXCEPT ![Shadow(h)] = Granted(Shadow(h), h)]
        /\ Becomes(h, RoundBegins(h, Shadow(h)))
     \/ /\ ~Grantable(Shadow(h), h) /\ Stops(h)
        /\ UNCHANGED ckpt
  /\ UNCHANGED <<journal, active, rows, op, job, left>>

(* advanceOperation after a round: while building, a batch that was not full    *)
(* leads to CUTTING_OVER; while cutting over, to the cutover itself.            *)
RecordProgress(h) ==
  /\ proc[h].pc = "applied" /\ Admitted(h)
  /\ op' = [op EXCEPT ![h[1]].phase = IF Building(h) THEN "BUILDING" ELSE "CUTTING_OVER"]
  /\ Becomes(h, IF Building(h)
                THEN [Loop("BUILDING", 0) EXCEPT !.pc = IF proc[h].more THEN "next" ELSE "caught up"]
                ELSE [Loop("CUTTING_OVER", proc[h].rounds + 1) EXCEPT
                        !.pc = IF proc[h].more THEN "next" ELSE "cutover"])
  /\ UNCHANGED <<journal, active, ckpt, rows, job, left>>

EnterCuttingOver(h) ==
  /\ proc[h].pc = "caught up" /\ Admitted(h)
  /\ op' = [op EXCEPT ![h[1]].phase = "CUTTING_OVER"]
  /\ Becomes(h, Loop("CUTTING_OVER", 0))
  /\ UNCHANGED <<journal, active, ckpt, rows, job, left>>

FailOperation(h) ==
  /\ proc[h].pc = "failing" /\ Admitted(h)
  /\ op' = [op EXCEPT ![h[1]].phase = "FAILED"]
  /\ job' = [job EXCEPT ![h[1]].state = "DONE"]
  /\ Stops(h)
  /\ UNCHANGED <<journal, active, ckpt, rows, left>>

(* One transaction: the shadow's lease once more, the swap, the operation and   *)
(* its job.                                                                     *)
AtCutover(h) ==
  \/ proc[h].pc = "cutover"
  \/ proc[h].pc = "next" /\ proc[h].seen = "CUTTING_OVER" /\ ~CatchingUp(h)

Cutover(h) ==
  /\ AtCutover(h) /\ Fresh(h).phase = "CUTTING_OVER" /\ HoldsJob(h) /\ Grantable(Shadow(h), h)
  /\ ckpt' = [ckpt EXCEPT ![Shadow(h)] = Granted(Shadow(h), h)]
  /\ active' = Shadow(h)
  /\ op' = [op EXCEPT ![h[1]].phase = "SUCCEEDED"]
  /\ job' = [job EXCEPT ![h[1]].state = "DONE"]
  /\ Stops(h)
  /\ UNCHANGED <<journal, rows, left>>

StepFails(h) ==
  \/ proc[h].pc \in {"applied", "caught up", "failing"} /\ Refused(h)
  \/ /\ AtCutover(h)
     /\ \/ Refused(h)
        \/ /\ Admitted(h) /\ (Fresh(h).phase # "CUTTING_OVER" \/ ~Grantable(Shadow(h), h))
           /\ Stops(h)
           /\ UNCHANGED <<journal, active, ckpt, rows, op, job, left>>

(* Mutant: a FAILED operation's shadow "was never activated". *)
AnyGeneration(g) == TRUE

(* DiscardGeneration never discards the active one. *)
Discardable(g) == g # active

(* CleanupOrphanedShadowGeneration, for whoever calls it: of a FAILED           *)
(* operation, or one whose grace period is over, the shadow is discarded unless *)
(* it is active.                                                                *)
Cleanup(o) ==
  /\ op[o].shadow # 0 /\ op[o].phase # "SUCCEEDED"
  /\ op' = [op EXCEPT ![o].phase = "FAILED"]
  /\ IF Discardable(op[o].shadow)
     THEN /\ ckpt' = [ckpt EXCEPT ![op[o].shadow] = Absent]
          /\ rows' = [rows EXCEPT ![op[o].shadow] = NoRows]
          /\ proc' = [a \in Actors |-> IF proc[a].gen = op[o].shadow THEN [proc[a] EXCEPT !.reborn = TRUE]
                                        ELSE proc[a]]
     ELSE UNCHANGED <<ckpt, rows, proc>>
  /\ IF op[o].phase = "FAILED" THEN UNCHANGED left ELSE Fault
  /\ UNCHANGED <<journal, active, job>>

-----------------------------------------------------------------------------
(* Time, and processes that stop: a crash, a shutdown, a handler whose context  *)
(* is cancelled.  A worker comes back under its own name.  A lease runs out     *)
(* under nobody, or, as a fault, under a holder that is still at work.          *)
AtWork(a, g) == a \in Actors /\ proc[a].gen = g

CheckpointLeaseExpires(g) ==
  /\ ckpt[g].held /\ ~AtWork(ckpt[g].holder, g)
  /\ ckpt' = [ckpt EXCEPT ![g].held = FALSE, ![g].holder = Gone]
  /\ UNCHANGED <<journal, active, rows, op, job, proc, left>>

CheckpointLeaseLost(g) ==
  /\ ckpt[g].held /\ AtWork(ckpt[g].holder, g)
  /\ Fault
  /\ ckpt' = [ckpt EXCEPT ![g].held = FALSE]
  /\ UNCHANGED <<journal, active, rows, op, job, proc>>

HandlerOf(o) == proc[<<o, job[o].claims>>]
JobRecovered(o) ==
  /\ job[o].state = "LEASED"
  /\ job' = [job EXCEPT ![o].state = IF job[o].claims < MaxClaims[o] THEN "AVAILABLE" ELSE "DEAD"]
  /\ UNCHANGED <<journal, active, ckpt, rows, op, proc>>

JobLeaseExpires(o) == JobRecovered(o) /\ HandlerOf(o).pc = "off" /\ UNCHANGED left
JobLeaseLost(o) == JobRecovered(o) /\ HandlerOf(o).pc # "off" /\ Fault

Stop(a) ==
  /\ proc[a].pc # "off"
  /\ Fault /\ Stops(a)
  /\ UNCHANGED <<journal, active, ckpt, rows, op, job>>

-----------------------------------------------------------------------------
RoundStep(a) == NothingNew(a) \/ ApplyEvents(a) \/ FindPoison(a) \/ RecordPoison(a) \/ LoseRound(a)
HandlerStep(h) ==
  /\ proc[h].pc # "off"
  /\ \/ Snapshot(h) \/ SnapshotFails(h) \/ ValidateJobLease(h) \/ AcquireShadow(h) \/ RoundStep(h)
     \/ RecordProgress(h) \/ EnterCuttingOver(h) \/ FailOperation(h) \/ Cutover(h) \/ StepFails(h)
     \/ Return(h)

Next ==
  \/ \E kind \in {"apply", "poison"} : AppendEvent(kind)
  \/ \E p \in 1..Len(journal) : Upgrade(p)
  \/ \E c \in Consumers : AcquireActive(c) \/ RoundStep(c)
  \/ \E o \in Ops : RequestProjectionRebuild(o) \/ Cleanup(o) \/ JobLeaseExpires(o) \/ JobLeaseLost(o)
  \/ \E h \in Handlers : Claim(h) \/ HandlerStep(h)
  \/ \E g \in Generations : CheckpointLeaseExpires(g) \/ CheckpointLeaseLost(g)
  \/ \E a \in Actors : Stop(a)

Spec == Init /\ [][Next]_vars

(* A consumer, and a handler, that can take a step takes it; a job is claimed; *)
(* a lease nobody works under runs out.  Faults and cleanups need not happen.  *)
FairSpec ==
  /\ Spec
  /\ \A c \in Consumers : WF_vars(AcquireActive(c) \/ RoundStep(c))
  /\ \A h \in Handlers : WF_vars(Claim(h)) /\ WF_vars(HandlerStep(h))
  /\ \A o \in Ops : WF_vars(JobLeaseExpires(o))
  /\ \A g \in Generations : WF_vars(CheckpointLeaseExpires(g))

-----------------------------------------------------------------------------
Checkpoints ==
  [status: {"NONE", "LIVE", "DEGRADED"}, cursor: 0..MaxEvents, holder: Actors \union {None, Gone},
   held: BOOLEAN]
Operations == [phase: Phases, shadow: 0..MaxGeneration]
Jobs == [state: {"NONE", "AVAILABLE", "LEASED", "DONE", "DEAD"}, claims: Nat]
Processes ==
  [pc: {"off", "next", "validated", "leased", "poisoned", "applied", "failing", "caught up", "cutover",
        "return"},
   seen: Phases, rounds: Nat, more: BOOLEAN, gen: 0..MaxGeneration, cursor: 0..MaxEvents, reborn: BOOLEAN]

TypeOK ==
  /\ journal \in Seq({"apply", "poison"}) /\ Len(journal) <= MaxEvents
  /\ active \in 0..MaxGeneration
  /\ ckpt \in [Generations -> Checkpoints]
  /\ rows \in [Generations -> [Positions -> Nat]]
  /\ op \in [Ops -> Operations]
  /\ job \in [Ops -> Jobs]
  /\ proc \in [Actors -> Processes]
  /\ left \in 0..MaxFaults

(* "Cursor never exceeds applied data": whatever consumers, builders, snapshots *)
(* and cleanups did to a generation, its rows are what every event up to its    *)
(* cursor, each applied once, makes of them, and no poison was passed over.     *)
Folded(r, cursor) ==
  \A p \in Positions :
    /\ r[p] = IF p <= cursor /\ journal[p] = "apply" THEN 1 ELSE 0
    /\ p <= cursor => p <= Len(journal) /\ journal[p] # "poison"
RowsFoldTheJournal == \A g \in Generations : Exists(g) => Folded(rows[g], ckpt[g].cursor)

(* What operations and jobs say of the generations: the active one is there to   *)
(* be read, and came from the first consumer or from an operation that           *)
(* SUCCEEDED; a shadow under construction is the one after it (or the first); a  *)
(* job is DONE only when its operation is terminal, and with SUCCEEDED at once.  *)
OperationsTellTheGenerations ==
  /\ active # 0 => Exists(active)
  /\ active > 1 => \E o \in Ops : op[o] = [phase |-> "SUCCEEDED", shadow |-> active]
  /\ \A o \in Ops :
       /\ op[o].phase \in Started => op[o].shadow \in {1, active + 1} /\ active <= op[o].shadow
       /\ op[o].phase = "SUCCEEDED" => op[o].shadow <= active /\ job[o].state = "DONE"
       /\ job[o].state = "DONE" => op[o].phase \in Terminal

(* An operation's phases go one way and its ends stand; the active generation    *)
(* changes for generation 1 of a first consumer, or to the shadow of an          *)
(* operation that holds its job and is cutting over, whose rows are there: only  *)
(* a second cleanup of an earlier operation can have thrown them away.           *)
Rank == [NONE |-> 0, REQUESTED |-> 1, SNAPSHOTTING |-> 2, BUILDING |-> 3, CUTTING_OVER |-> 4,
         SUCCEEDED |-> 5, FAILED |-> 5]
CutsOver(o) ==
  /\ op[o].phase = "CUTTING_OVER" /\ op'[o].phase = "SUCCEEDED" /\ active' = op[o].shadow
  /\ job[o].state = "LEASED" /\ job'[o].state = "DONE"
  /\ \/ Exists(active')
     \/ \E other \in Ops \ {o} : op[other] = [phase |-> "FAILED", shadow |-> active']
CutoverStands ==
  [][/\ \A o \in Ops : op'[o].phase = op[o].phase \/ Rank[op[o].phase] < Rank[op'[o].phase]
     /\ active' # active => (active = 0 /\ active' = 1) \/ \E o \in Ops : CutsOver(o)
     /\ \A o \in Ops : op'[o].phase = "SUCCEEDED" /\ op[o].phase # "SUCCEEDED" => CutsOver(o)]_vars

(* A rebuild that was requested ends, or its job uses up its claims.  *)
RebuildSettles == \A o \in Ops :
  (op[o].phase = "REQUESTED") ~> (op[o].phase \in Terminal \/ job[o].state = "DEAD")

(* A consumer catches up with the journal, whichever generation became active    *)
(* and however its lease changed hands, unless it found poison.                  *)
ConsumerCatchesUp ==
  <>[](active # 0 /\ (ckpt[active].cursor = Len(journal) \/ ckpt[active].status = "DEGRADED"))

(* Both: consumers and builders do not keep each other from their ends. *)
ProjectionSettles == RebuildSettles /\ ConsumerCatchesUp

(* "Poison keeps the old generation active" (app/projectionrebuildworker): what  *)
(* replaces an active generation is not DEGRADED.                                *)
PoisonKeepsOldActive ==
  [][active' # active /\ active # 0 => ckpt'[active'].status # "DEGRADED"]_vars
=============================================================================
