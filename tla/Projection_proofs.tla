--------------------------- MODULE Projection_proofs ---------------------------
(***************************************************************************)
(* Theorems about Projection: the rows of every generation are its journal *)
(* up to its cursor, operations and generations tell of each other what    *)
(* they should, and the active generation changes by a cutover only, for   *)
(* any consumers, operations, claims and bounds.                           *)
(***************************************************************************)
EXTENDS Projection, TLAPS

(* A handler is a delivery of an operation's job. *)
LEMMA HandlerParts ==
  ASSUME NEW h \in Handlers
  PROVE  h[1] \in Ops /\ h[2] \in Nat \ {0} /\ h = <<h[1], h[2]>> /\ h \in Actors /\ h \notin Consumers
<1>1. PICK o \in Ops : h \in {o} \X (1..MaxClaims[o])
  BY DEF Handlers
<1>2. h[1] = o /\ h[2] \in 1..MaxClaims[o] /\ h = <<h[1], h[2]>>
  BY <1>1
<1> QED
  BY <1>2, ProjectionAssumption DEF Actors

(* Within an operation, handlers are told apart by their claim. *)
LEMMA OneHolder ==
  ASSUME NEW h \in Handlers, NEW k \in Handlers, HoldsJob(h), HoldsJob(k), h[1] = k[1]
  PROVE  h = k
<1>1. h[2] = k[2]
  BY DEF HoldsJob
<1> QED
  BY <1>1, HandlerParts

(* A process that is at work on its operation. *)
Underway == {"validated", "leased", "poisoned", "applied", "failing", "caught up", "cutover"}

(* What a handler knows of its operation: that it was started or has ended, and *)
(* while the handler holds the job, its phase.                                  *)
Knows(h) ==
  /\ proc[h].pc \in Underway => proc[h].seen \in Started
  /\ proc[h].seen \in Started => op[h[1]].shadow # 0 /\ op[h[1]].phase \in Started \union Terminal
  /\ proc[h].pc = "return" => op[h[1]].phase \in Terminal
  /\ HoldsJob(h) /\ proc[h].pc # "off" =>
       op[h[1]].phase = proc[h].seen \/ op[h[1]].phase \in Terminal
HandlersKnow == \A h \in Handlers : Knows(h)

(* One operation at a time is open, a started one has a shadow, and only a      *)
(* cleanup of an earlier operation throws it away.                              *)
OneIsOpen ==
  /\ \A o, p \in Ops : op[o].phase \in Open /\ op[p].phase \in Open => o = p
  /\ \A o \in Ops :
       /\ op[o].phase \in Started => op[o].shadow # 0
       /\ op[o].phase = "NONE" => job[o].state = "NONE"
       /\ op[o].phase \in Started =>
            \/ Exists(op[o].shadow)
            \/ \E other \in Ops \ {o} : op[other] = [phase |-> "FAILED", shadow |-> op[o].shadow]

Known == TypeOK /\ HandlersKnow /\ OneIsOpen

-----------------------------------------------------------------------------
(* The records that the actions build are of their types. *)
LEMMA OffTyped == Off \in Processes /\ Off.pc = "off" /\ Off.seen = "NONE" /\ Off.gen = 0
BY ProjectionAssumption DEF Off, Processes, Phases

LEMMA RoundOverTyped ==
  ASSUME TypeOK, NEW a \in Actors, NEW more \in BOOLEAN
  PROVE  RoundOver(a, more) \in Processes
BY OffTyped DEF TypeOK, RoundOver, Processes

LEMMA LoopTyped ==
  ASSUME NEW phase \in Phases, NEW rounds \in Nat
  PROVE  Loop(phase, rounds) \in Processes
BY OffTyped DEF Loop, Processes

LEMMA GrantedTyped ==
  ASSUME TypeOK, NEW a \in Actors, NEW g \in Generations
  PROVE  Granted(g, a) \in Checkpoints /\ Granted(g, a).cursor = ckpt[g].cursor
         /\ Granted(g, a).status # "NONE"
BY DEF TypeOK, Granted, Checkpoints, Exists

LEMMA RoundBeginsTyped ==
  ASSUME TypeOK, NEW a \in Actors, NEW g \in Generations
  PROVE  RoundBegins(a, g) \in Processes
<1>1. proc[a] \in Processes /\ ckpt[g] \in Checkpoints /\ g \in 0..MaxGeneration
  BY DEF TypeOK, Generations
<1>2. ckpt[g].cursor \in 0..MaxEvents
  BY <1>1 DEF Checkpoints
<1>3. [proc[a] EXCEPT !.pc = "leased", !.gen = g, !.cursor = ckpt[g].cursor, !.reborn = FALSE] \in Processes
  BY <1>1, <1>2 DEF Processes
<1> QED
  BY <1>3, RoundOverTyped DEF RoundBegins

LEMMA BatchEndTyped ==
  ASSUME TypeOK, NEW a \in Actors
  PROVE  BatchEnd(a) \in 0..MaxEvents /\ BatchEnd(a) <= Len(journal)
<1>0. BatchSize \in Nat /\ MaxEvents \in Nat
  BY ProjectionAssumption
<1>1. proc[a].cursor \in 0..MaxEvents
  BY DEF TypeOK, Processes
<1>2. Len(journal) \in Nat /\ Len(journal) <= MaxEvents
  BY DEF TypeOK
<1> QED
  BY <1>0, <1>1, <1>2 DEF BatchEnd

-----------------------------------------------------------------------------
(* Type correctness, action by action. *)
LEMMA InitKnown == Init => Known
<1> SUFFICES ASSUME Init PROVE Known
  OBVIOUS
<1>1. MaxEvents \in Nat /\ MaxFaults \in Nat /\ MaxGeneration \in Nat
  BY ProjectionAssumption
<1>2. Absent \in Checkpoints /\ NoRows \in [Positions -> Nat]
  BY <1>1 DEF Absent, Checkpoints, NoRows
<1>3. TypeOK
  BY <1>1, <1>2, OffTyped DEF Init, TypeOK, Operations, Jobs, Phases
<1>4. HandlersKnow
  BY OffTyped, HandlerParts DEF Init, HandlersKnow, Knows, Underway, Started
<1>5. OneIsOpen
  BY DEF Init, OneIsOpen, Open, Started
<1> QED
  BY <1>3, <1>4, <1>5 DEF Known

(* Steps of a round. *)
LEMMA RoundTyped ==
  ASSUME TypeOK, NEW a \in Actors, RoundStep(a)
  PROVE  TypeOK'
<1>1. /\ RoundOver(a, FALSE) \in Processes /\ Off \in Processes
      /\ RoundOver(a, Cardinality(Batch(a)) = BatchSize) \in Processes
  BY RoundOverTyped, OffTyped
<1>2. CASE NothingNew(a)
  BY <1>1, <1>2 DEF NothingNew, Becomes, TypeOK
<1>3. CASE ApplyEvents(a)
  <2>1. BatchEnd(a) \in 0..MaxEvents
    BY BatchEndTyped
  <2>2. ckpt' \in [Generations -> Checkpoints]
    BY <1>3, <2>1 DEF ApplyEvents, TypeOK, Checkpoints
  <2>3. rows' \in [Generations -> [Positions -> Nat]]
    <3> DEFINE g == proc[a].gen
               r == [p \in Positions |-> IF p \in Batch(a) /\ journal[p] = "apply" THEN rows[g][p] + 1
                                         ELSE rows[g][p]]
    <3>1. rows' = [rows EXCEPT ![g] = r]
      BY <1>3 DEF ApplyEvents
    <3>2. CASE g \in Generations
      <4>1. r \in [Positions -> Nat]
        BY <3>2 DEF TypeOK
      <4> QED
        BY <3>1, <4>1 DEF TypeOK
    <3>3. CASE g \notin Generations
      BY <3>1, <3>3 DEF TypeOK
    <3> QED
      BY <3>2, <3>3
  <2> QED
    BY <1>1, <1>3, <2>2, <2>3 DEF ApplyEvents, Becomes, TypeOK
<1>4. CASE FindPoison(a)
  BY <1>4 DEF FindPoison, Becomes, TypeOK, Processes
<1>5. CASE RecordPoison(a)
  <2>1. [RoundOver(a, FALSE) EXCEPT !.pc = "failing"] \in Processes
    BY <1>1 DEF Processes
  <2>2. ckpt' \in [Generations -> Checkpoints]
    BY <1>5 DEF RecordPoison, TypeOK, Checkpoints
  <2> QED
    BY <1>1, <1>5, <2>1, <2>2 DEF RecordPoison, Becomes, TypeOK
<1>6. CASE LoseRound(a)
  BY <1>1, <1>6 DEF LoseRound, Stops, Becomes, TypeOK
<1> QED
  BY <1>2, <1>3, <1>4, <1>5, <1>6 DEF RoundStep

(* Steps of consumers, of time and of whatever else the program does. *)
Outside ==
  \/ \E kind \in {"apply", "poison"} : AppendEvent(kind)
  \/ \E p \in 1..Len(journal) : Upgrade(p)
  \/ \E c \in Consumers : AcquireActive(c)
  \/ \E o \in Ops : RequestProjectionRebuild(o) \/ Cleanup(o) \/ JobLeaseExpires(o) \/ JobLeaseLost(o)
  \/ \E g \in Generations : CheckpointLeaseExpires(g) \/ CheckpointLeaseLost(g)
  \/ \E a \in Actors : Stop(a)

LEMMA FaultTyped == ASSUME TypeOK, Fault PROVE left' \in 0..MaxFaults
BY ProjectionAssumption DEF TypeOK, Fault

LEMMA OutsideTyped ==
  ASSUME TypeOK, Outside
  PROVE  TypeOK'
<1>0. MaxEvents \in Nat /\ MaxFaults \in Nat /\ MaxGeneration \in Nat \ {0}
  BY ProjectionAssumption
<1>1. ASSUME NEW kind \in {"apply", "poison"}, AppendEvent(kind) PROVE TypeOK'
  <2>1. journal' \in Seq({"apply", "poison"}) /\ Len(journal') <= MaxEvents
    BY <1>0, <1>1 DEF AppendEvent, TypeOK
  <2> QED
    BY <1>1, <2>1 DEF AppendEvent, TypeOK
<1>2. ASSUME NEW p \in 1..Len(journal), Upgrade(p) PROVE TypeOK'
  <2>1. journal' \in Seq({"apply", "poison"}) /\ Len(journal') <= MaxEvents
    BY <1>0, <1>2 DEF Upgrade, TypeOK
  <2> QED
    BY <1>2, <2>1 DEF Upgrade, TypeOK
<1>3. ASSUME NEW c \in Consumers, AcquireActive(c) PROVE TypeOK'
  <2> DEFINE g == IF active = 0 THEN 1 ELSE active
  <2>1. g \in Generations /\ c \in Actors
    BY <1>0 DEF TypeOK, Generations, Actors
  <2>2. /\ active' = g /\ ckpt' = [ckpt EXCEPT ![g] = Granted(g, c)]
        /\ proc' = [proc EXCEPT ![c] = RoundBegins(c, g)]
        /\ UNCHANGED <<journal, rows, op, job, left>>
    BY <1>3 DEF AcquireActive, Becomes
  <2>3. Granted(g, c) \in Checkpoints /\ RoundBegins(c, g) \in Processes
    BY <2>1, GrantedTyped, RoundBeginsTyped
  <2> HIDE DEF g
  <2> QED
    BY <2>1, <2>2, <2>3 DEF TypeOK, Generations
<1>4. ASSUME NEW o \in Ops, RequestProjectionRebuild(o) PROVE TypeOK'
  BY <1>4 DEF RequestProjectionRebuild, TypeOK, Operations, Jobs, Phases, Open
<1>5. ASSUME NEW o \in Ops, Cleanup(o) PROVE TypeOK'
  <2>1. Absent \in Checkpoints /\ NoRows \in [Positions -> Nat]
    BY <1>0 DEF Absent, Checkpoints, NoRows
  <2>2. op' \in [Ops -> Operations]
    BY <1>5 DEF Cleanup, TypeOK, Operations, Phases, Terminal
  <2>3. left' \in 0..MaxFaults
    BY <1>5, FaultTyped DEF Cleanup, TypeOK
  <2>4. /\ ckpt' \in [Generations -> Checkpoints] /\ rows' \in [Generations -> [Positions -> Nat]]
        /\ proc' \in [Actors -> Processes]
    <3>1. CASE Discardable(op[o].shadow)
      <4>1. \A a \in Actors : [proc[a] EXCEPT !.reborn = TRUE] \in Processes
        BY DEF TypeOK, Processes
      <4>2. /\ ckpt' = [ckpt EXCEPT ![op[o].shadow] = Absent]
            /\ rows' = [rows EXCEPT ![op[o].shadow] = NoRows]
            /\ proc' = [a \in Actors |-> IF proc[a].gen = op[o].shadow THEN [proc[a] EXCEPT !.reborn = TRUE]
                                         ELSE proc[a]]
        BY <1>5, <3>1 DEF Cleanup
      <4>3. proc' \in [Actors -> Processes]
        BY <4>1, <4>2 DEF TypeOK
      <4> QED
        BY <2>1, <4>2, <4>3 DEF TypeOK
    <3>2. CASE ~Discardable(op[o].shadow)
      BY <1>5, <3>2 DEF Cleanup, TypeOK
    <3> QED
      BY <3>1, <3>2
  <2> QED
    BY <1>5, <2>2, <2>3, <2>4 DEF Cleanup, TypeOK
<1>6. ASSUME NEW o \in Ops, JobLeaseExpires(o) \/ JobLeaseLost(o) PROVE TypeOK'
  <2>1. JobRecovered(o) /\ left' \in 0..MaxFaults
    BY <1>6, FaultTyped DEF JobLeaseExpires, JobLeaseLost, TypeOK
  <2> DEFINE state == IF job[o].claims < MaxClaims[o] THEN "AVAILABLE" ELSE "DEAD"
  <2>2. job' = [job EXCEPT ![o] = [job[o] EXCEPT !.state = state]]
    BY <2>1 DEF JobRecovered
  <2>3. [job[o] EXCEPT !.state = state] \in Jobs
    BY DEF TypeOK, Jobs
  <2>4. job' \in [Ops -> Jobs]
    BY <2>2, <2>3 DEF TypeOK
  <2> QED
    BY <2>1, <2>4 DEF JobRecovered, TypeOK
<1>7. ASSUME NEW g \in Generations, CheckpointLeaseExpires(g) \/ CheckpointLeaseLost(g) PROVE TypeOK'
  <2>0. ckpt[g] \in Checkpoints
    BY DEF TypeOK
  <2>1. ckpt' \in [Generations -> Checkpoints]
    <3>1. CASE CheckpointLeaseExpires(g)
      <4>1. ckpt' = [ckpt EXCEPT ![g] = [ckpt[g] EXCEPT !.held = FALSE, !.holder = Gone]]
        BY <3>1 DEF CheckpointLeaseExpires, TypeOK
      <4>2. [ckpt[g] EXCEPT !.held = FALSE, !.holder = Gone] \in Checkpoints
        BY <2>0 DEF Checkpoints
      <4> QED
        BY <4>1, <4>2 DEF TypeOK
    <3>2. CASE CheckpointLeaseLost(g)
      BY <3>2 DEF CheckpointLeaseLost, TypeOK, Checkpoints
    <3> QED
      BY <1>7, <3>1, <3>2
  <2>2. left' \in 0..MaxFaults
    BY <1>7, FaultTyped DEF CheckpointLeaseExpires, CheckpointLeaseLost, TypeOK
  <2> QED
    BY <1>7, <2>1, <2>2 DEF CheckpointLeaseExpires, CheckpointLeaseLost, TypeOK
<1>8. ASSUME NEW a \in Actors, Stop(a) PROVE TypeOK'
  BY <1>8, FaultTyped, OffTyped DEF Stop, Stops, Becomes, TypeOK
<1> QED
  BY <1>1, <1>2, <1>3, <1>4, <1>5, <1>6, <1>7, <1>8 DEF Outside

(* Steps of a handler that are not those of a round. *)
Handling(h) ==
  Claim(h) \/ Snapshot(h) \/ SnapshotFails(h) \/ ValidateJobLease(h) \/ AcquireShadow(h) \/ RecordProgress(h)
  \/ EnterCuttingOver(h) \/ FailOperation(h) \/ Cutover(h) \/ StepFails(h) \/ Return(h)

(* The shadow that a handler was let at is a generation. *)
LEMMA ShadowTyped ==
  ASSUME Known, NEW h \in Handlers, proc[h].seen \in Started
  PROVE  Shadow(h) \in Generations
BY HandlerParts, ProjectionAssumption DEF Known, TypeOK, HandlersKnow, Knows, Shadow, Generations, Operations

(* At the cutover too, the operation was seen started. *)
LEMMA SeenAtCutover ==
  ASSUME Known, NEW h \in Handlers, AtCutover(h)
  PROVE  proc[h].seen \in Started
BY DEF Known, HandlersKnow, Knows, Underway, AtCutover, Started

LEMMA JobTyped ==
  ASSUME TypeOK, NEW o \in Ops, NEW s \in {"NONE", "AVAILABLE", "LEASED", "DONE", "DEAD"}
  PROVE  [job EXCEPT ![o].state = s] \in [Ops -> Jobs]
BY DEF TypeOK, Jobs

LEMMA PhaseTyped ==
  ASSUME TypeOK, NEW o \in Ops, NEW p \in Phases
  PROVE  [op EXCEPT ![o].phase = p] \in [Ops -> Operations]
BY DEF TypeOK, Operations

LEMMA ProcTyped ==
  ASSUME TypeOK, NEW a \in Actors, NEW p \in Processes, Becomes(a, p)
  PROVE  proc' \in [Actors -> Processes]
BY DEF TypeOK, Becomes

LEMMA HandlingTyped ==
  ASSUME Known, NEW h \in Handlers, Handling(h)
  PROVE  TypeOK'
<1>0. TypeOK /\ h \in Actors /\ h[1] \in Ops /\ h[2] \in Nat /\ MaxEvents \in Nat /\ MaxGeneration \in Nat
  BY HandlerParts, ProjectionAssumption DEF Known
<1>a. Fresh(h).phase \in Phases /\ op[h[1]] \in Operations /\ proc[h].seen \in Phases /\ proc[h].rounds \in Nat
  BY <1>0 DEF TypeOK, Fresh, Operations, Processes
<1>b. /\ {"SNAPSHOTTING", "BUILDING", "CUTTING_OVER", "SUCCEEDED", "FAILED"} \subseteq Phases
      /\ {"LEASED", "DONE"} \subseteq {"NONE", "AVAILABLE", "LEASED", "DONE", "DEAD"}
  BY DEF Phases, Open, Started, Terminal
<1>c. Off \in Processes /\ \A p \in Phases : Loop(p, 0) \in Processes
  BY OffTyped, LoopTyped
<1>1. CASE Claim(h)
  <2>1. job' \in [Ops -> Jobs]
    BY <1>0, <1>1 DEF Claim, TypeOK, Jobs
  <2> QED
    BY <1>0, <1>1, <1>a, <1>c, <2>1 DEF Claim, Becomes, TypeOK
<1>2. CASE Snapshot(h)
  <2>1. SnapshotOf \in Generations /\ W0 \in 0..MaxEvents
    BY <1>0, <1>2, ProjectionAssumption DEF Snapshot, SnapshotOf, W0, TypeOK, Generations, Checkpoints
  <2>2. [Absent EXCEPT !.status = "LIVE", !.cursor = W0] \in Checkpoints
    BY <1>0, <2>1 DEF Absent, Checkpoints
  <2>3. (IF active = 0 THEN rows[SnapshotOf] ELSE rows[active]) \in [Positions -> Nat]
    BY <1>0, <2>1 DEF TypeOK, Generations
  <2>4. [phase |-> "SNAPSHOTTING", shadow |-> SnapshotOf] \in Operations
    BY <1>b, <2>1, <1>0 DEF Operations, Generations
  <2>5. /\ ckpt' \in [Generations -> Checkpoints] /\ op' \in [Ops -> Operations]
        /\ rows' \in [Generations -> [Positions -> Nat]]
    <3>1. rows' = [rows EXCEPT ![SnapshotOf] = IF active = 0 THEN rows[SnapshotOf] ELSE rows[active]]
      BY <1>2 DEF Snapshot
    <3> QED
      BY <1>0, <1>2, <2>1, <2>2, <2>3, <2>4, <3>1 DEF Snapshot, TypeOK
  <2>6. proc' \in [Actors -> Processes]
    BY <1>0, <1>2, <1>b, <1>c, ProcTyped DEF Snapshot
  <2> QED
    BY <1>0, <1>2, <2>5, <2>6 DEF Snapshot, TypeOK
<1>3. CASE SnapshotFails(h)
  <2>1. proc' \in [Actors -> Processes]
    BY <1>0, <1>3, <1>a, <1>c, ProcTyped DEF SnapshotFails, Stops
  <2> QED
    BY <1>0, <1>3, <2>1 DEF SnapshotFails, TypeOK
<1>4. CASE ValidateJobLease(h)
  <2>1. [proc[h] EXCEPT !.pc = "validated"] \in Processes
    BY <1>0 DEF TypeOK, Processes
  <2>2. proc' \in [Actors -> Processes]
    BY <1>0, <1>4, <1>c, <2>1, ProcTyped DEF ValidateJobLease
  <2> QED
    BY <1>0, <1>4, <2>2 DEF ValidateJobLease, TypeOK
<1>5. CASE AcquireShadow(h)
  <2>1. Shadow(h) \in Generations
    BY <1>5, ShadowTyped DEF AcquireShadow, Known, HandlersKnow, Knows, Underway
  <2>2. Granted(Shadow(h), h) \in Checkpoints /\ RoundBegins(h, Shadow(h)) \in Processes
    BY <1>0, <2>1, GrantedTyped, RoundBeginsTyped
  <2>3. proc' \in [Actors -> Processes]
    BY <1>0, <1>5, <1>c, <2>2, ProcTyped DEF AcquireShadow, Stops
  <2>4. ckpt' \in [Generations -> Checkpoints]
    BY <1>0, <1>5, <2>1, <2>2 DEF AcquireShadow, TypeOK
  <2> QED
    BY <1>0, <1>5, <2>3, <2>4 DEF AcquireShadow, TypeOK
<1>6. CASE RecordProgress(h)
  <2> DEFINE phase == IF Building(h) THEN "BUILDING" ELSE "CUTTING_OVER"
             next == IF Building(h)
                     THEN [Loop("BUILDING", 0) EXCEPT !.pc = IF proc[h].more THEN "next" ELSE "caught up"]
                     ELSE [Loop("CUTTING_OVER", proc[h].rounds + 1) EXCEPT
                             !.pc = IF proc[h].more THEN "next" ELSE "cutover"]
  <2>1. op' = [op EXCEPT ![h[1]].phase = phase] /\ Becomes(h, next) /\ UNCHANGED <<journal, active, ckpt, rows, job, left>>
    BY <1>6 DEF RecordProgress
  <2>2. op' \in [Ops -> Operations]
    BY <1>0, <1>b, <2>1, PhaseTyped
  <2>3. Loop("BUILDING", 0) \in Processes /\ Loop("CUTTING_OVER", proc[h].rounds + 1) \in Processes
    BY <1>a, <1>b, <1>c, LoopTyped
  <2>4. \A p \in Processes, pc \in {"next", "caught up", "cutover"} : [p EXCEPT !.pc = pc] \in Processes
    BY DEF Processes
  <2>5. next \in Processes
    BY <2>3, <2>4
  <2>6. proc' \in [Actors -> Processes]
    BY <1>0, <2>1, <2>5, ProcTyped
  <2> QED
    BY <1>0, <2>1, <2>2, <2>6 DEF TypeOK
<1>7. CASE EnterCuttingOver(h)
  <2>1. proc' \in [Actors -> Processes] /\ op' \in [Ops -> Operations]
    BY <1>0, <1>7, <1>b, <1>c, ProcTyped, PhaseTyped DEF EnterCuttingOver
  <2> QED
    BY <1>0, <1>7, <2>1 DEF EnterCuttingOver, TypeOK
<1>8. CASE FailOperation(h)
  <2>1. proc' \in [Actors -> Processes] /\ op' \in [Ops -> Operations] /\ job' \in [Ops -> Jobs]
    BY <1>0, <1>8, <1>b, <1>c, ProcTyped, PhaseTyped, JobTyped DEF FailOperation, Stops
  <2> QED
    BY <1>0, <1>8, <2>1 DEF FailOperation, TypeOK
<1>9. CASE Cutover(h)
  <2>1. Shadow(h) \in Generations
    BY <1>9, ShadowTyped, SeenAtCutover DEF Cutover
  <2>2. Granted(Shadow(h), h) \in Checkpoints
    BY <1>0, <2>1, GrantedTyped
  <2>3. proc' \in [Actors -> Processes] /\ op' \in [Ops -> Operations] /\ job' \in [Ops -> Jobs]
    BY <1>0, <1>9, <1>b, <1>c, ProcTyped, PhaseTyped, JobTyped DEF Cutover, Stops
  <2>4. ckpt' \in [Generations -> Checkpoints] /\ active' \in 0..MaxGeneration
    BY <1>0, <1>9, <2>1, <2>2 DEF Cutover, TypeOK, Generations
  <2> QED
    BY <1>0, <1>9, <2>3, <2>4 DEF Cutover, TypeOK
<1>10. CASE StepFails(h)
  <2>1. proc' \in [Actors -> Processes]
    BY <1>0, <1>10, <1>a, <1>c, ProcTyped DEF StepFails, Refused, Stops
  <2> QED
    BY <1>0, <1>10, <2>1 DEF StepFails, Refused, TypeOK
<1>11. CASE Return(h)
  <2>1. proc' \in [Actors -> Processes] /\ job' \in [Ops -> Jobs]
    BY <1>0, <1>11, <1>b, <1>c, ProcTyped, JobTyped DEF Return, Stops, TypeOK
  <2> QED
    BY <1>0, <1>11, <2>1 DEF Return, TypeOK
<1> QED
  BY <1>1, <1>2, <1>3, <1>4, <1>5, <1>6, <1>7, <1>8, <1>9, <1>10, <1>11 DEF Handling

-----------------------------------------------------------------------------
(* What handlers know holds on.  A handler that a step leaves alone goes on     *)
(* knowing it, if the step treats its operation as steps do.                    *)
Onward(o) ==
  /\ op'[o].shadow = op[o].shadow \/ op[o].phase \notin Started \union Terminal
  /\ op[o].phase \in Terminal => op'[o].phase \in Terminal
  /\ op[o].phase \in Started => op'[o].phase \in Started \union Terminal

LEMMA KnowsStill ==
  ASSUME Known, NEW k \in Handlers, Onward(k[1]),
         proc'[k].pc = proc[k].pc, proc'[k].seen = proc[k].seen,
         HoldsJob(k)' /\ proc[k].pc # "off" =>
           HoldsJob(k) /\ (op'[k[1]].phase = op[k[1]].phase \/ op'[k[1]].phase \in Terminal)
  PROVE  Knows(k)'
<1>1. Knows(k)
  BY DEF Known, HandlersKnow
<1>2. Started \intersect Terminal = {}
  BY DEF Started, Terminal
<1> QED
  BY <1>1, <1>2 DEF Knows, Onward

LEMMA OffKnows ==
  ASSUME NEW h, proc'[h] = Off
  PROVE  Knows(h)'
BY OffTyped DEF Knows, Underway, Started

(* A step that leaves operations and jobs alone. *)
LEMMA QuietKnows ==
  ASSUME Known, UNCHANGED <<op, job>>, NEW k \in Handlers, proc'[k].pc = proc[k].pc, proc'[k].seen = proc[k].seen
  PROVE  Knows(k)'
BY KnowsStill DEF Onward, HoldsJob

LEMMA QuietStepKnows ==
  ASSUME Known, UNCHANGED <<op, job>>, NEW a \in Actors, NEW p, Becomes(a, p),
         a \in Handlers => Knows(a)'
  PROVE  HandlersKnow'
<1> SUFFICES ASSUME NEW k \in Handlers PROVE Knows(k)'
  BY DEF HandlersKnow
<1>1. CASE k = a
  BY <1>1
<1>2. CASE k # a
  <2>1. proc'[k] = proc[k]
    BY <1>2, HandlerParts DEF Known, TypeOK, Becomes
  <2> QED
    BY <2>1, QuietKnows
<1> QED
  BY <1>1, <1>2

(* Where a round leaves a handler. *)
LEMMA RoundOverSeen ==
  ASSUME NEW h \in Handlers, NEW more
  PROVE  RoundOver(h, more).pc = "applied" /\ RoundOver(h, more).seen = proc[h].seen
BY HandlerParts DEF RoundOver, Off

LEMMA RoundKnows ==
  ASSUME Known, NEW a \in Actors, RoundStep(a)
  PROVE  HandlersKnow'
<1>0. TypeOK /\ proc[a] \in Processes /\ UNCHANGED <<op, job>>
  BY DEF Known, TypeOK, RoundStep, NothingNew, ApplyEvents, FindPoison, RecordPoison, LoseRound
<1>1. proc[a].pc \in {"leased", "poisoned"}
  BY DEF RoundStep, NothingNew, ApplyEvents, FindPoison, RecordPoison, LoseRound
<1>2. PICK p : /\ Becomes(a, p)
               /\ \/ p = Off
                  \/ a \in Handlers /\ p.seen = proc[a].seen /\ p.pc \in {"applied", "poisoned", "failing"}
                  \/ a \notin Handlers
  <2>1. CASE a \in Handlers
    <3>1. a \notin Consumers
      BY <2>1, HandlerParts
    <3>2. CASE NothingNew(a)
      BY <2>1, <3>2, RoundOverSeen DEF NothingNew
    <3>3. CASE ApplyEvents(a)
      BY <2>1, <3>3, RoundOverSeen DEF ApplyEvents
    <3>4. CASE FindPoison(a)
      <4>1. /\ [proc[a] EXCEPT !.pc = "poisoned"].seen = proc[a].seen
            /\ [proc[a] EXCEPT !.pc = "poisoned"].pc = "poisoned"
        BY <1>0 DEF Processes
      <4>2. Becomes(a, [proc[a] EXCEPT !.pc = "poisoned"])
        BY <3>4 DEF FindPoison
      <4> QED
        BY <2>1, <4>1, <4>2
    <3>5. CASE RecordPoison(a)
      <4>1. RoundOver(a, FALSE) \in Processes
        BY <1>0, RoundOverTyped
      <4>2. [RoundOver(a, FALSE) EXCEPT !.pc = "failing"].seen = proc[a].seen
            /\ [RoundOver(a, FALSE) EXCEPT !.pc = "failing"].pc = "failing"
        BY <2>1, <4>1, RoundOverSeen DEF Processes
      <4> QED
        BY <2>1, <3>1, <3>5, <4>2 DEF RecordPoison
    <3>6. CASE LoseRound(a)
      BY <3>6 DEF LoseRound, Stops
    <3> QED
      BY <3>2, <3>3, <3>4, <3>5, <3>6 DEF RoundStep
  <2>2. CASE a \notin Handlers
    BY <2>2 DEF RoundStep, NothingNew, ApplyEvents, FindPoison, RecordPoison, LoseRound, Stops
  <2> QED
    BY <2>1, <2>2
<1>3. ASSUME a \in Handlers PROVE Knows(a)'
  <2>1. proc'[a] = p
    BY <1>0, <1>2 DEF TypeOK, Becomes
  <2>2. Knows(a)
    BY <1>3 DEF Known, HandlersKnow
  <2>3. CASE p = Off
    BY <1>3, <2>1, <2>3, OffKnows
  <2>4. CASE p.seen = proc[a].seen /\ p.pc \in {"applied", "poisoned", "failing"}
    <3>1. proc[a].seen \in Started
      BY <1>1, <2>2 DEF Knows, Underway
    <3>2. HoldsJob(a)' = HoldsJob(a) /\ op'[a[1]] = op[a[1]]
      BY <1>0 DEF HoldsJob
    <3> QED
      BY <1>1, <2>1, <2>2, <2>4, <3>1, <3>2 DEF Knows
  <2> QED
    BY <1>2, <1>3, <2>3, <2>4
<1> QED
  BY <1>0, <1>2, <1>3, QuietStepKnows

LEMMA OutsideKnows ==
  ASSUME Known, Outside
  PROVE  HandlersKnow'
<1>0. TypeOK /\ HandlersKnow
  BY DEF Known
<1> SUFFICES ASSUME NEW k \in Handlers PROVE Knows(k)'
  BY DEF HandlersKnow
<1>a. k[1] \in Ops /\ k \in Actors /\ k \notin Consumers /\ proc[k] \in Processes /\ op[k[1]] \in Operations
  BY <1>0, HandlerParts DEF TypeOK
<1>1. ASSUME NEW kind \in {"apply", "poison"}, AppendEvent(kind) PROVE Knows(k)'
  BY <1>1, QuietKnows DEF AppendEvent
<1>2. ASSUME NEW p \in 1..Len(journal), Upgrade(p) PROVE Knows(k)'
  BY <1>2, QuietKnows DEF Upgrade
<1>3. ASSUME NEW c \in Consumers, AcquireActive(c) PROVE Knows(k)'
  <2>1. proc'[k] = proc[k] /\ UNCHANGED <<op, job>>
    BY <1>0, <1>3, <1>a DEF AcquireActive, Becomes, TypeOK
  <2> QED
    BY <2>1, QuietKnows
<1>4. ASSUME NEW o \in Ops, RequestProjectionRebuild(o) PROVE Knows(k)'
  <2>1. /\ op[o].phase = "NONE" /\ UNCHANGED proc
        /\ op' = [op EXCEPT ![o].phase = "REQUESTED"] /\ job' = [job EXCEPT ![o].state = "AVAILABLE"]
    BY <1>4 DEF RequestProjectionRebuild
  <2>2. Onward(k[1])
    BY <1>0, <1>a, <2>1 DEF Onward, TypeOK, Operations, Started, Terminal
  <2>3. CASE k[1] = o
    <3>1. job'[o].state = "AVAILABLE"
      BY <1>0, <2>1 DEF TypeOK, Jobs
    <3>2. ~HoldsJob(k)'
      BY <2>3, <3>1 DEF HoldsJob
    <3> QED
      BY <2>1, <2>2, <3>2, KnowsStill
  <2>4. CASE k[1] # o
    <3>1. job'[k[1]] = job[k[1]] /\ op'[k[1]] = op[k[1]]
      BY <1>0, <1>a, <2>1, <2>4 DEF TypeOK
    <3>2. HoldsJob(k)' = HoldsJob(k)
      BY <3>1 DEF HoldsJob
    <3> QED
      BY <2>1, <2>2, <3>1, <3>2, KnowsStill
  <2> QED
    BY <2>3, <2>4
<1>5. ASSUME NEW o \in Ops, Cleanup(o) PROVE Knows(k)'
  <2>1. proc'[k].pc = proc[k].pc /\ proc'[k].seen = proc[k].seen
    <3>1. CASE Discardable(op[o].shadow)
      <4>1. proc'[k] = [proc[k] EXCEPT !.reborn = TRUE] \/ proc'[k] = proc[k]
        BY <1>5, <1>a, <3>1 DEF Cleanup
      <4> QED
        BY <1>a, <4>1 DEF Processes
    <3>2. CASE ~Discardable(op[o].shadow)
      BY <1>5, <3>2 DEF Cleanup
    <3> QED
      BY <3>1, <3>2
  <2>2. op' = [op EXCEPT ![o].phase = "FAILED"] /\ UNCHANGED job
    BY <1>5 DEF Cleanup
  <2>3. Onward(k[1]) /\ (op'[k[1]].phase = op[k[1]].phase \/ op'[k[1]].phase \in Terminal)
    BY <1>0, <1>a, <2>2 DEF Onward, TypeOK, Operations, Terminal
  <2>4. HoldsJob(k)' = HoldsJob(k)
    BY <2>2 DEF HoldsJob
  <2> QED
    BY <2>1, <2>3, <2>4, KnowsStill
<1>6. ASSUME NEW o \in Ops, JobLeaseExpires(o) \/ JobLeaseLost(o) PROVE Knows(k)'
  <2> DEFINE state == IF job[o].claims < MaxClaims[o] THEN "AVAILABLE" ELSE "DEAD"
  <2>1. job' = [job EXCEPT ![o].state = state] /\ UNCHANGED <<op, proc>>
    BY <1>6 DEF JobLeaseExpires, JobLeaseLost, JobRecovered
  <2>2. HoldsJob(k)' => HoldsJob(k)
    <3>1. CASE k[1] = o
      <4>1. job'[o].state = state
        BY <1>0, <2>1 DEF TypeOK, Jobs
      <4> QED
        BY <3>1, <4>1 DEF HoldsJob
    <3>2. CASE k[1] # o
      BY <1>0, <1>a, <2>1, <3>2 DEF HoldsJob, TypeOK
    <3> QED
      BY <3>1, <3>2
  <2> QED
    BY <2>1, <2>2, KnowsStill DEF Onward
<1>7. ASSUME NEW g \in Generations, CheckpointLeaseExpires(g) \/ CheckpointLeaseLost(g) PROVE Knows(k)'
  BY <1>7, QuietKnows DEF CheckpointLeaseExpires, CheckpointLeaseLost
<1>8. ASSUME NEW a \in Actors, Stop(a) PROVE Knows(k)'
  <2>1. proc' = [proc EXCEPT ![a] = Off] /\ UNCHANGED <<op, job>>
    BY <1>8 DEF Stop, Stops, Becomes
  <2>2. CASE k = a
    BY <1>0, <1>a, <2>1, <2>2, OffKnows DEF TypeOK
  <2>3. CASE k # a
    <3>1. proc'[k] = proc[k]
      BY <1>0, <1>a, <2>1, <2>3 DEF TypeOK
    <3> QED
      BY <2>1, <3>1, QuietKnows
  <2> QED
    BY <2>2, <2>3
<1> QED
  BY <1>1, <1>2, <1>3, <1>4, <1>5, <1>6, <1>7, <1>8 DEF Outside

(* A step of h that changes its own operation at most, and has the job if it    *)
(* does not end it.                                                             *)
LEMMA OthersKnow ==
  ASSUME Known, NEW h \in Handlers, NEW p, Becomes(h, p), Onward(h[1]),
         \A o \in Ops \ {h[1]} : op'[o] = op[o],
         \/ HoldsJob(h)
         \/ op'[h[1]].phase = op[h[1]].phase \/ op'[h[1]].phase \in Terminal,
         \A k \in Handlers \ {h} : HoldsJob(k)' => HoldsJob(k),
         Knows(h)'
  PROVE  HandlersKnow'
<1> SUFFICES ASSUME NEW k \in Handlers, k # h PROVE Knows(k)'
  BY DEF HandlersKnow
<1>1. proc'[k] = proc[k] /\ k[1] \in Ops
  BY HandlerParts DEF Known, TypeOK, Becomes
<1>2. CASE k[1] = h[1]
  <2>1. HoldsJob(k)' => ~HoldsJob(h) /\ HoldsJob(k)
    BY <1>2, OneHolder
  <2> QED
    BY <1>1, <1>2, <2>1, KnowsStill
<1>3. CASE k[1] # h[1]
  <2>1. op'[k[1]] = op[k[1]]
    BY <1>1, <1>3
  <2> QED
    BY <1>1, <2>1, KnowsStill DEF Onward
<1> QED
  BY <1>2, <1>3

LEMMA JobUnclaimed ==
  ASSUME TypeOK, NEW h \in Handlers,
         UNCHANGED job \/ job' = [job EXCEPT ![h[1]].state = "DONE"]
  PROVE  \A k \in Handlers : HoldsJob(k)' => HoldsJob(k)
<1> SUFFICES ASSUME NEW k \in Handlers, HoldsJob(k)' PROVE HoldsJob(k)
  OBVIOUS
<1>1. CASE UNCHANGED job
  BY <1>1 DEF HoldsJob
<1>2. CASE job' = [job EXCEPT ![h[1]].state = "DONE"]
  <2>1. h[1] \in Ops /\ k[1] \in Ops
    BY HandlerParts
  <2>2. k[1] # h[1]
    <3>1. job'[h[1]].state = "DONE"
      BY <1>2, <2>1 DEF TypeOK, Jobs
    <3> QED
      BY <3>1 DEF HoldsJob
  <2> QED
    BY <1>2, <2>1, <2>2 DEF HoldsJob, TypeOK
<1> QED
  BY <1>1, <1>2

LEMMA LoopKnows ==
  ASSUME NEW h, NEW rounds, NEW phase, proc'[h] = Loop(phase, rounds),
         op'[h[1]].phase = phase, phase \in Started => op'[h[1]].shadow # 0
  PROVE  Knows(h)'
<1>1. proc'[h].seen = phase /\ proc'[h].pc = IF phase \in Terminal THEN "return" ELSE "next"
  BY DEF Loop, Off
<1> QED
  BY <1>1 DEF Knows, Underway

(* A step of a handler that changes neither operations nor jobs. *)
LEMMA IdleKnows ==
  ASSUME Known, NEW h \in Handlers, NEW p, Becomes(h, p), UNCHANGED <<op, job>>,
         \/ p = Off
         \/ p = Loop(Fresh(h).phase, 0)
         \/ p.pc \in Underway /\ p.seen = proc[h].seen /\ p.seen \in Started
            /\ proc[h].pc # "off"
  PROVE  HandlersKnow'
<1>0. h[1] \in Ops /\ h \in Actors /\ h \notin Consumers
  BY HandlerParts
<1>1. proc'[h] = p /\ Knows(h)
  BY <1>0 DEF Known, TypeOK, Becomes, HandlersKnow
<1>2. Knows(h)'
  <2>1. CASE p = Off
    BY <1>1, <2>1, OffKnows
  <2>2. CASE p = Loop(Fresh(h).phase, 0)
    <3>1. op'[h[1]].phase = Fresh(h).phase
          /\ (Fresh(h).phase \in Started => op'[h[1]].shadow # 0)
      BY <1>0 DEF Known, OneIsOpen, Fresh
    <3> QED
      BY <1>1, <2>2, <3>1, LoopKnows
  <2>3. CASE p.pc \in Underway /\ p.seen = proc[h].seen /\ p.seen \in Started /\ proc[h].pc # "off"
    <3>1. HoldsJob(h)' = HoldsJob(h) /\ op'[h[1]] = op[h[1]] /\ p.pc # "return"
      BY <2>3 DEF HoldsJob, Underway
    <3> QED
      BY <1>1, <2>3, <3>1 DEF Knows
  <2> QED
    BY <2>1, <2>2, <2>3
<1> QED
  BY <1>0, <1>2, QuietStepKnows

LEMMA HandlingKnows ==
  ASSUME Known, NEW h \in Handlers, Handling(h)
  PROVE  HandlersKnow'
<1>0. TypeOK /\ HandlersKnow /\ OneIsOpen /\ Knows(h) /\ h \in Actors /\ h[1] \in Ops /\ h \notin Consumers
  BY HandlerParts DEF Known, HandlersKnow
<1>a. op[h[1]] \in Operations /\ proc[h] \in Processes /\ Fresh(h) = op[h[1]]
  BY <1>0 DEF TypeOK, Fresh
<1>b. \A k \in Handlers \ {h} : (UNCHANGED job \/ job' = [job EXCEPT ![h[1]].state = "DONE"]) =>
        (HoldsJob(k)' => HoldsJob(k))
  BY <1>0, JobUnclaimed
<1>1. CASE Claim(h)
  <2>1. proc'[h] = Loop(Fresh(h).phase, 0) /\ UNCHANGED op
    BY <1>0, <1>1 DEF Claim, Becomes, TypeOK
  <2>2. Knows(h)'
    <3>1. op'[h[1]].phase = Fresh(h).phase /\ (Fresh(h).phase \in Started => op'[h[1]].shadow # 0)
      BY <1>0, <2>1 DEF OneIsOpen, Fresh
    <3> QED
      BY <2>1, <3>1, LoopKnows
  <2>3. ASSUME NEW k \in Handlers, k # h PROVE HoldsJob(k)' => HoldsJob(k)
    <3>1. CASE k[1] = h[1]
      <4>1. k[2] # h[2]
        BY <2>3, <3>1, HandlerParts
      <4>2. job'[h[1]] = [state |-> "LEASED", claims |-> h[2]]
        BY <1>0, <1>1 DEF Claim, TypeOK
      <4> QED
        BY <3>1, <4>1, <4>2 DEF HoldsJob
    <3>2. CASE k[1] # h[1]
      BY <1>0, <1>1, <3>2, HandlerParts DEF Claim, TypeOK, HoldsJob
    <3> QED
      BY <3>1, <3>2
  <2>4. Becomes(h, Loop(Fresh(h).phase, 0)) /\ Onward(h[1])
    BY <1>1, <2>1 DEF Claim, Onward
  <2> QED
    BY <2>1, <2>2, <2>3, <2>4, OthersKnow
<1>2. CASE Snapshot(h)
  <2>1. /\ op' = [op EXCEPT ![h[1]] = [phase |-> "SNAPSHOTTING", shadow |-> SnapshotOf]]
        /\ Becomes(h, Loop("SNAPSHOTTING", 0)) /\ UNCHANGED job
        /\ op[h[1]].phase = "REQUESTED" /\ HoldsJob(h)
    BY <1>2, <1>a DEF Snapshot
  <2>2. SnapshotOf # 0
    BY <1>0 DEF SnapshotOf, TypeOK
  <2>3. op'[h[1]] = [phase |-> "SNAPSHOTTING", shadow |-> SnapshotOf]
        /\ proc'[h] = Loop("SNAPSHOTTING", 0)
    BY <1>0, <2>1 DEF TypeOK, Becomes
  <2>4. Knows(h)'
    BY <2>2, <2>3, LoopKnows
  <2>5. Onward(h[1]) /\ \A o \in Ops \ {h[1]} : op'[o] = op[o]
    BY <1>0, <2>1 DEF Onward, Started, Terminal, TypeOK
  <2> QED
    BY <1>b, <2>1, <2>4, <2>5, OthersKnow
<1>3. CASE SnapshotFails(h)
  BY <1>3, IdleKnows DEF SnapshotFails, Stops
<1>4. CASE ValidateJobLease(h)
  <2> DEFINE p == [proc[h] EXCEPT !.pc = "validated"]
  <2>1. (Becomes(h, p) \/ Becomes(h, Off)) /\ UNCHANGED <<op, job>>
        /\ proc[h].pc = "next" /\ proc[h].seen \in Started
    BY <1>4 DEF ValidateJobLease, Building, CatchingUp, Started
  <2>2. p.pc = "validated" /\ p.seen = proc[h].seen
    BY <1>a DEF Processes
  <2>3. p.pc \in Underway
    BY <2>2 DEF Underway
  <2> QED
    BY <2>1, <2>2, <2>3, IdleKnows
<1>5. CASE AcquireShadow(h)
  <2> DEFINE p == RoundBegins(h, Shadow(h))
  <2>1. (Becomes(h, p) \/ Becomes(h, Off)) /\ UNCHANGED <<op, job>> /\ proc[h].pc = "validated"
    BY <1>5 DEF AcquireShadow, Stops
  <2>2. p.pc \in {"leased", "applied"} /\ p.seen = proc[h].seen
    BY <1>a, RoundOverSeen DEF RoundBegins, Processes
  <2>3. p.pc \in Underway /\ proc[h].seen \in Started
    BY <1>0, <2>1, <2>2 DEF Underway, Knows
  <2> QED
    BY <2>1, <2>2, <2>3, IdleKnows
<1>6. CASE RecordProgress(h) \/ EnterCuttingOver(h)
  <2>0. /\ op[h[1]].phase = proc[h].seen /\ proc[h].seen \in Started /\ op[h[1]].shadow # 0 /\ HoldsJob(h)
        /\ UNCHANGED job
    BY <1>0, <1>6, <1>a DEF RecordProgress, EnterCuttingOver, Admitted, Knows, Underway
  <2> DEFINE Goes(phase, rounds, pc) ==
               /\ phase \in {"BUILDING", "CUTTING_OVER"}
               /\ op' = [op EXCEPT ![h[1]].phase = phase]
               /\ Becomes(h, [Loop(phase, rounds) EXCEPT !.pc = pc])
               /\ pc # "return"
  <2>a. \E phase, rounds, pc : Goes(phase, rounds, pc)
    <3>1. CASE RecordProgress(h) /\ Building(h)
      <4>1. Goes("BUILDING", 0, IF proc[h].more THEN "next" ELSE "caught up")
        BY <3>1 DEF RecordProgress
      <4> HIDE DEF Goes
      <4> QED
        BY <4>1
    <3>2. CASE RecordProgress(h) /\ ~Building(h)
      <4>1. Goes("CUTTING_OVER", proc[h].rounds + 1, IF proc[h].more THEN "next" ELSE "cutover")
        BY <3>2 DEF RecordProgress
      <4> HIDE DEF Goes
      <4> QED
        BY <4>1
    <3>3. CASE EnterCuttingOver(h)
      <4>1. Loop("CUTTING_OVER", 0) = [Loop("CUTTING_OVER", 0) EXCEPT !.pc = "next"]
        BY DEF Loop, Off, Terminal
      <4>2. Goes("CUTTING_OVER", 0, "next")
        BY <3>3, <4>1 DEF EnterCuttingOver
      <4> HIDE DEF Goes
      <4> QED
        BY <4>2
    <3> QED
      BY <1>6, <3>1, <3>2, <3>3
  <2>1. PICK phase, rounds, pc : Goes(phase, rounds, pc)
    BY <2>a
  <2>2. [Loop(phase, rounds) EXCEPT !.pc = pc].seen = phase /\ [Loop(phase, rounds) EXCEPT !.pc = pc].pc = pc
    BY DEF Loop, Off
  <2>3. /\ proc'[h].seen = phase /\ proc'[h].pc = pc
        /\ op'[h[1]].phase = phase /\ op'[h[1]].shadow = op[h[1]].shadow
    BY <1>0, <1>a, <2>1, <2>2 DEF Becomes, TypeOK, Operations
  <2>4. Knows(h)'
    BY <2>0, <2>1, <2>3 DEF Knows, Started
  <2>5. Onward(h[1]) /\ \A o \in Ops \ {h[1]} : op'[o] = op[o]
    BY <1>0, <2>0, <2>1, <2>3 DEF Onward, Started, Terminal, TypeOK
  <2> QED
    BY <1>b, <2>0, <2>1, <2>4, <2>5, OthersKnow
<1>7. CASE FailOperation(h) \/ Cutover(h)
  <2>1. PICK end \in Terminal : op' = [op EXCEPT ![h[1]].phase = end]
    BY <1>7 DEF FailOperation, Cutover, Terminal
  <2>2. Becomes(h, Off) /\ job' = [job EXCEPT ![h[1]].state = "DONE"] /\ HoldsJob(h)
    BY <1>7 DEF FailOperation, Cutover, Stops, Admitted
  <2>3. Knows(h)'
    BY <1>0, <2>2, OffKnows DEF Becomes, TypeOK
  <2>4. Onward(h[1]) /\ \A o \in Ops \ {h[1]} : op'[o] = op[o]
    BY <1>0, <1>a, <2>1 DEF Onward, TypeOK, Operations
  <2> QED
    BY <1>b, <2>2, <2>3, <2>4, OthersKnow
<1>8. CASE StepFails(h)
  BY <1>8, IdleKnows DEF StepFails, Refused, Stops
<1>9. CASE Return(h)
  <2>1. Becomes(h, Off) /\ (UNCHANGED job \/ job' = [job EXCEPT ![h[1]].state = "DONE"]) /\ UNCHANGED op
    BY <1>9 DEF Return, Stops
  <2>2. Knows(h)' /\ Onward(h[1])
    BY <1>0, <2>1, OffKnows DEF Becomes, TypeOK, Onward
  <2> QED
    BY <1>b, <2>1, <2>2, OthersKnow
<1> QED
  BY <1>1, <1>2, <1>3, <1>4, <1>5, <1>6, <1>7, <1>8, <1>9 DEF Handling

-----------------------------------------------------------------------------
(* One operation is open.  Most steps leave an operation's shadow, and neither  *)
(* open nor start one.                                                          *)
Steady(q) ==
  /\ op'[q].shadow = op[q].shadow
  /\ op'[q].phase \in Open => op[q].phase \in Open
  /\ op'[q].phase \in Started => op[q].phase \in Started
  /\ op[q].phase = "FAILED" => op'[q].phase = "FAILED"
  /\ op'[q].phase = "NONE" => op[q].phase = "NONE" /\ (job[q].state = "NONE" => job'[q].state = "NONE")

LEMMA SteadyOpens ==
  ASSUME Known, TypeOK', \A q \in Ops : Steady(q),
         \A g \in Generations : Exists(g) => Exists(g)'
  PROVE  OneIsOpen'
<1>1. \A q, r \in Ops : op'[q].phase \in Open /\ op'[r].phase \in Open => q = r
  BY DEF Known, OneIsOpen, Steady
<1>2. ASSUME NEW q \in Ops PROVE op'[q].phase = "NONE" => job'[q].state = "NONE"
  BY DEF Known, OneIsOpen, Steady
<1>3. ASSUME NEW q \in Ops, op'[q].phase \in Started
      PROVE  /\ op'[q].shadow # 0
             /\ \/ Exists(op[q].shadow)'
                \/ \E other \in Ops \ {q} : op'[other] = [phase |-> "FAILED", shadow |-> op'[q].shadow]
  <2>0. MaxGeneration \in Nat /\ op[q].shadow \in 0..MaxGeneration
    BY ProjectionAssumption DEF Known, TypeOK, Operations
  <2>a. op[q].phase \in Started /\ op'[q].shadow = op[q].shadow /\ op[q].shadow # 0
    BY <1>3 DEF Known, OneIsOpen, Steady
  <2>1. /\ op[q].phase \in Started /\ op'[q].shadow = op[q].shadow /\ op[q].shadow # 0
        /\ op[q].shadow \in Generations
    BY <2>0, <2>a DEF Generations
  <2>2. CASE Exists(op[q].shadow)
    <3>1. Exists(op[q].shadow)'
      BY <2>1, <2>2 DEF Exists
    <3> QED
      BY <2>1, <3>1
  <2>3. CASE ~Exists(op[q].shadow)
    <3>1. PICK other \in Ops \ {q} : op[other] = [phase |-> "FAILED", shadow |-> op[q].shadow]
      BY <2>1, <2>3 DEF Known, OneIsOpen
    <3>2. op'[other] \in Operations /\ op'[other].phase = "FAILED" /\ op'[other].shadow = op'[q].shadow
      BY <2>1, <3>1 DEF Steady, TypeOK
    <3>3. op'[other] = [phase |-> "FAILED", shadow |-> op'[q].shadow]
      BY <3>2 DEF Operations
    <3> QED
      BY <2>1, <3>3
  <2> QED
    BY <2>2, <2>3
<1> QED
  BY <1>1, <1>2, <1>3 DEF OneIsOpen

(* A lease is granted on a checkpoint that was there or is there now. *)
LEMMA StillThere ==
  ASSUME TypeOK, NEW a \in Actors, NEW d, ckpt' = [ckpt EXCEPT ![d] = Granted(d, a)]
  PROVE  \A g \in Generations : Exists(g) => Exists(g)'
<1> SUFFICES ASSUME NEW g \in Generations, Exists(g) PROVE Exists(g)'
  OBVIOUS
<1>1. ckpt'[g] = ckpt[g] \/ ckpt'[g] = Granted(g, a)
  BY DEF TypeOK
<1> QED
  BY <1>1, GrantedTyped DEF Exists

LEMMA RoundOpens ==
  ASSUME Known, TypeOK', NEW a \in Actors, RoundStep(a)
  PROVE  OneIsOpen'
<1>1. UNCHANGED <<op, job>>
  BY DEF RoundStep, NothingNew, ApplyEvents, FindPoison, RecordPoison, LoseRound
<1>2. \A g \in Generations : Exists(g) => Exists(g)'
  <2>1. CASE UNCHANGED ckpt
    BY <2>1 DEF Exists
  <2>2. CASE ApplyEvents(a)
    BY <2>2 DEF ApplyEvents, Exists, Known, TypeOK, Checkpoints
  <2>3. CASE RecordPoison(a)
    BY <2>3 DEF RecordPoison, Exists, Known, TypeOK, Checkpoints
  <2> QED
    BY <2>1, <2>2, <2>3 DEF RoundStep, NothingNew, FindPoison, LoseRound
<1> QED
  BY <1>1, <1>2, SteadyOpens DEF Steady

LEMMA OutsideOpens ==
  ASSUME Known, TypeOK', Outside
  PROVE  OneIsOpen'
<1>0. TypeOK /\ OneIsOpen
  BY DEF Known
<1>1. CASE UNCHANGED <<op, job, ckpt>>
  BY <1>1, SteadyOpens DEF Steady, Exists
<1>2. ASSUME NEW c \in Consumers, AcquireActive(c) PROVE OneIsOpen'
  <2>1. UNCHANGED <<op, job>> /\ c \in Actors
        /\ \E d : ckpt' = [ckpt EXCEPT ![d] = Granted(d, c)]
    BY <1>2 DEF AcquireActive, Actors
  <2> QED
    BY <1>0, <2>1, StillThere, SteadyOpens DEF Steady
<1>3. ASSUME NEW o \in Ops, RequestProjectionRebuild(o) PROVE OneIsOpen'
  <2>1. /\ op[o].phase = "NONE" /\ \A q \in Ops : op[q].phase \notin Open
        /\ op' = [op EXCEPT ![o].phase = "REQUESTED"] /\ job' = [job EXCEPT ![o].state = "AVAILABLE"]
        /\ UNCHANGED ckpt
    BY <1>3 DEF RequestProjectionRebuild
  <2>2. op'[o].phase = "REQUESTED" /\ \A q \in Ops \ {o} : op'[q] = op[q] /\ job'[q] = job[q]
    BY <1>0, <2>1 DEF TypeOK, Operations
  <2>3. \A q \in Ops : op'[q].phase \notin Started
    BY <2>1, <2>2 DEF Open, Started
  <2> QED
    BY <1>0, <2>1, <2>2, <2>3 DEF OneIsOpen
<1>4. ASSUME NEW o \in Ops, Cleanup(o) PROVE OneIsOpen'
  <2>1. /\ op' = [op EXCEPT ![o].phase = "FAILED"] /\ UNCHANGED job
        /\ \/ UNCHANGED ckpt
           \/ ckpt' = [ckpt EXCEPT ![op[o].shadow] = Absent]
    BY <1>4 DEF Cleanup
  <2>2. op'[o].phase = "FAILED" /\ op'[o].shadow = op[o].shadow /\ \A q \in Ops \ {o} : op'[q] = op[q]
    BY <1>0, <2>1 DEF TypeOK, Operations
  <2>3. \A q \in Ops : Steady(q) /\ (op'[q].phase \in Started => q # o)
    BY <2>1, <2>2 DEF Steady, Open, Started
  <2>4. \A q, r \in Ops : op'[q].phase \in Open /\ op'[r].phase \in Open => q = r
    BY <1>0, <2>3 DEF Steady, OneIsOpen
  <2>5. ASSUME NEW q \in Ops, op'[q].phase \in Started
        PROVE  /\ op'[q].shadow # 0
               /\ \/ Exists(op[q].shadow)'
                  \/ \E other \in Ops \ {q} : op'[other] = [phase |-> "FAILED", shadow |-> op'[q].shadow]
    <3>1. q # o /\ op'[q] = op[q] /\ op[q].phase \in Started /\ op[q].shadow # 0
      BY <1>0, <2>2, <2>3, <2>5 DEF OneIsOpen
    <3>2. CASE op[q].shadow = op[o].shadow
      <4>1. op'[o] = [phase |-> "FAILED", shadow |-> op'[q].shadow]
        <5>1. op'[o] \in Operations
          BY DEF TypeOK
        <5>2. op'[o].shadow = op'[q].shadow
          BY <2>2, <3>1, <3>2
        <5> QED
          BY <2>2, <5>1, <5>2 DEF Operations
      <4> QED
        BY <3>1, <4>1
    <3>3. CASE op[q].shadow # op[o].shadow /\ Exists(op[q].shadow)
      <4>1. op[q].shadow \in Generations
        BY <1>0, <3>1, ProjectionAssumption DEF TypeOK, Operations, Generations
      <4>2. ckpt'[op[q].shadow] = ckpt[op[q].shadow]
        BY <1>0, <2>1, <3>3, <4>1 DEF TypeOK
      <4>3. Exists(op[q].shadow)'
        BY <3>1, <3>3, <4>2 DEF Exists
      <4> QED
        BY <3>1, <4>3
    <3>4. CASE ~Exists(op[q].shadow)
      <4>1. PICK other \in Ops \ {q} : op[other] = [phase |-> "FAILED", shadow |-> op[q].shadow]
        BY <1>0, <3>1, <3>4 DEF OneIsOpen
      <4>2. op'[other].phase = "FAILED" /\ op'[other].shadow = op[q].shadow /\ op'[other] \in Operations
        BY <2>2, <4>1 DEF TypeOK
      <4>3. op'[other] = [phase |-> "FAILED", shadow |-> op'[q].shadow]
        BY <3>1, <4>2 DEF Operations
      <4> QED
        BY <3>1, <4>3
    <3> QED
      BY <3>2, <3>3, <3>4
  <2>6. \A q \in Ops : op'[q].phase = "NONE" => job'[q].state = "NONE"
    BY <1>0, <2>1, <2>3 DEF Steady, OneIsOpen
  <2> QED
    BY <2>4, <2>5, <2>6 DEF OneIsOpen
<1>5. ASSUME NEW o \in Ops, JobLeaseExpires(o) \/ JobLeaseLost(o) PROVE OneIsOpen'
  <2>1. /\ job[o].state = "LEASED" /\ UNCHANGED <<op, ckpt>>
        /\ \E s : job' = [job EXCEPT ![o].state = s]
    BY <1>5 DEF JobLeaseExpires, JobLeaseLost, JobRecovered
  <2>2. \A q \in Ops \ {o} : job'[q] = job[q]
    BY <1>0, <2>1 DEF TypeOK
  <2> QED
    BY <2>1, <2>2, SteadyOpens DEF Steady, Exists
<1>6. ASSUME NEW g \in Generations, CheckpointLeaseExpires(g) \/ CheckpointLeaseLost(g) PROVE OneIsOpen'
  <2>1. UNCHANGED <<op, job>>
    BY <1>6 DEF CheckpointLeaseExpires, CheckpointLeaseLost
  <2>2. \A d \in Generations : ckpt'[d].status = ckpt[d].status
    <3> SUFFICES ASSUME NEW d \in Generations PROVE ckpt'[d].status = ckpt[d].status
      OBVIOUS
    <3>1. ckpt[g] \in Checkpoints
      BY <1>0 DEF TypeOK
    <3>2. \/ ckpt' = [ckpt EXCEPT ![g] = [ckpt[g] EXCEPT !.held = FALSE, !.holder = Gone]]
          \/ ckpt' = [ckpt EXCEPT ![g] = [ckpt[g] EXCEPT !.held = FALSE]]
      BY <1>0, <1>6 DEF CheckpointLeaseExpires, CheckpointLeaseLost, TypeOK
    <3>3. /\ [ckpt[g] EXCEPT !.held = FALSE, !.holder = Gone].status = ckpt[g].status
          /\ [ckpt[g] EXCEPT !.held = FALSE].status = ckpt[g].status
      BY <3>1 DEF Checkpoints
    <3>4. CASE d = g
      <4>1. ckpt'[g].status = ckpt[g].status
        BY <1>0, <3>2, <3>3 DEF TypeOK
      <4> QED
        BY <3>4, <4>1
    <3>5. CASE d # g
      BY <1>0, <3>2, <3>5 DEF TypeOK
    <3> QED
      BY <3>4, <3>5
  <2> QED
    BY <2>1, <2>2, SteadyOpens DEF Steady, Exists
<1> QED
  BY <1>1, <1>2, <1>3, <1>4, <1>5, <1>6 DEF Outside, AppendEvent, Upgrade, Stop

LEMMA HandlingOpens ==
  ASSUME Known, TypeOK', NEW h \in Handlers, Handling(h)
  PROVE  OneIsOpen'
<1>0. TypeOK /\ OneIsOpen /\ Knows(h) /\ h \in Actors /\ h[1] \in Ops
  BY HandlerParts DEF Known, HandlersKnow
<1>1. CASE UNCHANGED <<op, job, ckpt>>
  BY <1>1, SteadyOpens DEF Steady, Exists
<1>2. CASE Claim(h)
  <2>1. /\ job[h[1]].state = "AVAILABLE" /\ UNCHANGED <<op, ckpt>>
        /\ \A q \in Ops \ {h[1]} : job'[q] = job[q]
    BY <1>0, <1>2 DEF Claim, TypeOK
  <2> QED
    BY <2>1, SteadyOpens DEF Steady, Exists
<1>3. CASE Snapshot(h)
  <2> DEFINE o == h[1]
             s == SnapshotOf
  <2>1. /\ op' = [op EXCEPT ![o] = [phase |-> "SNAPSHOTTING", shadow |-> s]]
        /\ op[o].phase = "REQUESTED" /\ UNCHANGED job
        /\ ckpt' = [ckpt EXCEPT ![s] = [Absent EXCEPT !.status = "LIVE", !.cursor = W0]]
    BY <1>3 DEF Snapshot, Fresh
  <2>2. s \in Generations
    <3>1. s <= MaxGeneration /\ MaxGeneration \in Nat
      BY <1>3, ProjectionAssumption DEF Snapshot
    <3>2. active \in 0..MaxGeneration
      BY <1>0 DEF TypeOK
    <3> QED
      BY <3>1, <3>2 DEF SnapshotOf, Generations
  <2>3. ckpt'[s].status = "LIVE"
    BY <1>0, <2>1, <2>2 DEF TypeOK, Absent
  <2>4. op'[o].phase = "SNAPSHOTTING" /\ op'[o].shadow = s /\ \A q \in Ops \ {o} : op'[q] = op[q]
    BY <1>0, <2>1 DEF TypeOK
  <2>5. \A q \in Ops \ {o} : op[q].phase \notin Open
    BY <1>0, <2>1 DEF OneIsOpen, Open
  <2>6. \A q \in Ops \ {o} : op'[q].phase \notin Started
    BY <2>4, <2>5 DEF Open
  <2>7. s # 0
    BY <2>2, ProjectionAssumption DEF Generations
  <2>8. Exists(op[o].shadow)'
    BY <2>3, <2>4 DEF Exists
  <2> HIDE DEF s
  <2>9. \A q, r \in Ops : op'[q].phase \in Open /\ op'[r].phase \in Open => q = r
    BY <2>4, <2>5
  <2>10. \A q \in Ops : op'[q].phase = "NONE" => job'[q].state = "NONE"
    BY <1>0, <2>1, <2>4 DEF OneIsOpen
  <2>11. ASSUME NEW q \in Ops, op'[q].phase \in Started
         PROVE op'[q].shadow # 0 /\ Exists(op[q].shadow)'
    <3>1. q = o
      BY <2>6, <2>11
    <3> QED
      BY <2>4, <2>7, <2>8, <3>1
  <2> QED
    BY <2>9, <2>10, <2>11 DEF OneIsOpen
<1>4. CASE AcquireShadow(h)
  <2>1. UNCHANGED <<op, job>> /\ (UNCHANGED ckpt \/ ckpt' = [ckpt EXCEPT ![Shadow(h)] = Granted(Shadow(h), h)])
    BY <1>4 DEF AcquireShadow
  <2>2. \A g \in Generations : Exists(g) => Exists(g)'
    BY <1>0, <2>1, StillThere DEF Exists
  <2> QED
    BY <2>1, <2>2, SteadyOpens DEF Steady
<1>5. CASE RecordProgress(h) \/ EnterCuttingOver(h)
  <2>1. op[h[1]].phase \in Started
    BY <1>0, <1>5 DEF RecordProgress, EnterCuttingOver, Admitted, Fresh, Knows, Underway
  <2>2. UNCHANGED <<job, ckpt>> /\ \E p \in Started : op' = [op EXCEPT ![h[1]].phase = p]
    BY <1>5 DEF RecordProgress, EnterCuttingOver, Started
  <2>3. \A q \in Ops \ {h[1]} : op'[q] = op[q]
    BY <1>0, <2>2 DEF TypeOK
  <2>4. op'[h[1]].phase \in Started /\ op'[h[1]].shadow = op[h[1]].shadow
    BY <1>0, <2>2 DEF TypeOK, Operations
  <2>5. Steady(h[1])
    BY <2>1, <2>4 DEF Steady, Started, Open
  <2>6. \A q \in Ops : Steady(q)
    BY <2>2, <2>3, <2>5 DEF Steady
  <2> QED
    BY <2>2, <2>6, SteadyOpens DEF Exists
<1>6. CASE FailOperation(h) \/ Cutover(h)
  <2>1. op[h[1]].phase # "FAILED" /\ \E p \in Terminal : op' = [op EXCEPT ![h[1]].phase = p]
    BY <1>6 DEF FailOperation, Cutover, Admitted, Fresh, Terminal
  <2>2. job' = [job EXCEPT ![h[1]].state = "DONE"]
    BY <1>6 DEF FailOperation, Cutover
  <2>3. \A q \in Ops \ {h[1]} : op'[q] = op[q] /\ job'[q] = job[q]
    BY <1>0, <2>1, <2>2 DEF TypeOK
  <2>4. op'[h[1]].phase \in Terminal /\ op'[h[1]].shadow = op[h[1]].shadow
    BY <1>0, <2>1 DEF TypeOK, Operations
  <2>5. Steady(h[1])
    BY <2>1, <2>4 DEF Steady, Started, Open, Terminal
  <2>6. \A q \in Ops : Steady(q)
    BY <2>3, <2>5 DEF Steady
  <2>7. \A g \in Generations : Exists(g) => Exists(g)'
    <3>1. CASE FailOperation(h)
      BY <3>1 DEF FailOperation, Exists
    <3>2. CASE Cutover(h)
      BY <1>0, <3>2, StillThere DEF Cutover
    <3> QED
      BY <1>6, <3>1, <3>2
  <2> QED
    BY <2>6, <2>7, SteadyOpens
<1>7. CASE Return(h)
  <2>1. UNCHANGED <<op, ckpt>> /\ op[h[1]].phase # "NONE"
    BY <1>0, <1>7 DEF Return, Knows, Terminal
  <2>2. \A q \in Ops \ {h[1]} : job'[q] = job[q]
    BY <1>0, <1>7 DEF Return, TypeOK
  <2> QED
    BY <2>1, <2>2, SteadyOpens DEF Steady, Exists
<1> QED
  BY <1>1, <1>2, <1>3, <1>4, <1>5, <1>6, <1>7
     DEF Handling, SnapshotFails, ValidateJobLease, StepFails, Refused

-----------------------------------------------------------------------------
(* The kinds of steps. *)
LEMMA Kinds ==
  ASSUME Next
  PROVE  Outside \/ (\E a \in Actors : RoundStep(a)) \/ (\E h \in Handlers : Handling(h))
<1>1. Consumers \subseteq Actors /\ Handlers \subseteq Actors
  BY DEF Actors
<1> QED
  BY <1>1 DEF Next, Outside, HandlerStep, Handling

LEMMA KnownStays == Known /\ [Next]_vars => Known'
<1> SUFFICES ASSUME Known, [Next]_vars PROVE Known'
  OBVIOUS
<1>1. CASE UNCHANGED vars
  BY <1>1 DEF vars, Known, TypeOK, HandlersKnow, Knows, HoldsJob, OneIsOpen, Exists
<1>2. CASE Outside
  BY <1>2, OutsideTyped, OutsideKnows, OutsideOpens DEF Known
<1>3. ASSUME NEW a \in Actors, RoundStep(a) PROVE Known'
  BY <1>3, RoundTyped, RoundKnows, RoundOpens DEF Known
<1>4. ASSUME NEW h \in Handlers, Handling(h) PROVE Known'
  BY <1>4, HandlingTyped, HandlingKnows, HandlingOpens DEF Known
<1> QED
  BY <1>1, <1>2, <1>3, <1>4, Kinds

LEMMA SpecKnown == Spec => []Known
<1> QED
  BY InitKnown, KnownStays, PTL DEF Spec

(* Every state of a behaviour is of its type: in particular a handler never *)
(* applies events to a generation its operation was not given.              *)
THEOREM TypeCorrect == Spec => []TypeOK
<1>1. Known => TypeOK
  BY DEF Known
<1> QED
  BY <1>1, SpecKnown, PTL

-----------------------------------------------------------------------------
(* The rows of every generation are those of its cursor; one that was never     *)
(* made, or was discarded, has none.                                            *)
FoldedAt(g) == Folded(rows[g], ckpt[g].cursor) /\ (~Exists(g) => ckpt[g].cursor = 0)
AllFolded == \A g \in Generations : FoldedAt(g)

(* A step that leaves events, rows and cursors. *)
LEMMA SameFold ==
  ASSUME AllFolded, UNCHANGED <<journal, rows>>,
         \A g \in Generations : ckpt'[g].cursor = ckpt[g].cursor /\ (Exists(g) => Exists(g)')
  PROVE  AllFolded'
<1> SUFFICES ASSUME NEW g \in Generations PROVE FoldedAt(g)'
  BY DEF AllFolded
<1>1. FoldedAt(g)
  BY DEF AllFolded
<1> QED
  BY <1>1 DEF FoldedAt, Folded

LEMMA GrantKeepsCursor ==
  ASSUME TypeOK, NEW a \in Actors, NEW d, ckpt' = [ckpt EXCEPT ![d] = Granted(d, a)]
  PROVE  \A g \in Generations : ckpt'[g].cursor = ckpt[g].cursor /\ (Exists(g) => Exists(g)')
<1> SUFFICES ASSUME NEW g \in Generations PROVE ckpt'[g].cursor = ckpt[g].cursor
  BY StillThere
<1>1. ckpt'[g] = ckpt[g] \/ ckpt'[g] = Granted(g, a)
  BY DEF TypeOK
<1> QED
  BY <1>1, GrantedTyped

LEMMA InitFolded == Init => AllFolded
<1> SUFFICES ASSUME Init, NEW g \in Generations PROVE FoldedAt(g)
  BY DEF AllFolded
<1>1. ckpt[g] = Absent /\ rows[g] = NoRows /\ MaxEvents \in Nat
  BY ProjectionAssumption DEF Init
<1> QED
  BY <1>1 DEF FoldedAt, Folded, Absent, NoRows, Positions, Exists

(* A batch applied under the cursor it was read at. *)
LEMMA BatchFolds ==
  ASSUME TypeOK, AllFolded, NEW a \in Actors, ApplyEvents(a)
  PROVE  AllFolded'
<1> DEFINE g == proc[a].gen
           c == ckpt[g].cursor
           e == BatchEnd(a)
           r == [p \in Positions |-> IF p \in Batch(a) /\ journal[p] = "apply" THEN rows[g][p] + 1
                                     ELSE rows[g][p]]
<1>1. /\ Exists(g) /\ proc[a].cursor = c /\ Batch(a) # {} /\ ~Poisoned(a) /\ UNCHANGED journal
      /\ rows' = [rows EXCEPT ![g] = r]
      /\ ckpt' = [ckpt EXCEPT ![g].cursor = e]
  BY DEF ApplyEvents, Current, CursorMatches
<1> SUFFICES ASSUME NEW d \in Generations PROVE FoldedAt(d)'
  BY DEF AllFolded
<1>0. FoldedAt(d)
  BY DEF AllFolded
<1>2. CASE d # g
  <2>1. rows'[d] = rows[d] /\ ckpt'[d] = ckpt[d]
    BY <1>1, <1>2 DEF TypeOK
  <2> QED
    BY <1>0, <1>1, <2>1 DEF FoldedAt, Folded, Exists
<1>3. CASE d = g
  <2>1. c \in Nat /\ e \in Nat /\ e <= Len(journal) /\ Len(journal) \in Nat
    <3>1. ckpt[g] \in Checkpoints /\ MaxEvents \in Nat
      BY <1>3, ProjectionAssumption DEF TypeOK
    <3> QED
      BY <3>1, BatchEndTyped DEF TypeOK, Checkpoints
  <2>2. Batch(a) = (c + 1)..e /\ c < e
    <3>1. Batch(a) = (c + 1)..e
      BY <1>1 DEF Batch
    <3> QED
      BY <1>1, <2>1, <3>1
  <2>3. rows'[d] = r /\ ckpt'[d].cursor = e /\ Exists(d)'
    <3>1. rows'[g] = r /\ ckpt'[g] = [ckpt[g] EXCEPT !.cursor = e] /\ ckpt[g] \in Checkpoints
      BY <1>1, <1>3 DEF TypeOK
    <3>2. ckpt'[g].cursor = e /\ ckpt'[g].status = ckpt[g].status
      BY <3>1 DEF Checkpoints
    <3> QED
      BY <1>1, <1>3, <3>1, <3>2 DEF Exists
  <2>4. Folded(rows[g], c)
    BY <1>0, <1>3 DEF FoldedAt
  <2>5. \A p \in Batch(a) : journal[p] # "poison"
    BY <1>1 DEF Poisoned
  <2>6. ASSUME NEW p \in Positions
        PROVE  /\ r[p] = IF p <= e /\ journal[p] = "apply" THEN 1 ELSE 0
               /\ p <= e => p <= Len(journal) /\ journal[p] # "poison"
    <3>0. p \in Nat
      BY ProjectionAssumption DEF Positions
    <3> DEFINE b == Batch(a)
               old == rows[g]
    <3>a. /\ old[p] = IF p <= c /\ journal[p] = "apply" THEN 1 ELSE 0
          /\ p <= c => p <= Len(journal) /\ journal[p] # "poison"
          /\ r[p] = IF p \in b /\ journal[p] = "apply" THEN old[p] + 1 ELSE old[p]
          /\ b = (c + 1)..e
      BY <2>2, <2>4 DEF Folded
    <3>b. p \in b => journal[p] # "poison"
      BY <2>5
    <3> HIDE DEF b, c, e, g, r, old
    <3> QED
      BY <2>1, <2>2, <3>0, <3>a, <3>b
  <2> HIDE DEF r, e, c
  <2>7. Folded(rows[d], ckpt[d].cursor)'
    BY <1>1, <2>3, <2>6 DEF Folded
  <2> QED
    BY <2>3, <2>7 DEF FoldedAt
<1> QED
  BY <1>2, <1>3

LEMMA OutsideFolds ==
  ASSUME TypeOK, TypeOK', AllFolded, Outside
  PROVE  AllFolded'
<1>0. MaxEvents \in Nat /\ \A p \in Positions : p \in Nat
  BY ProjectionAssumption DEF Positions
<1>1. ASSUME NEW kind \in {"apply", "poison"}, AppendEvent(kind) PROVE AllFolded'
  <2>1. UNCHANGED <<ckpt, rows>> /\ Len(journal) \in Nat /\ Len(journal') = Len(journal) + 1
        /\ \A p \in 1..Len(journal) : journal'[p] = journal[p]
    BY <1>1 DEF AppendEvent, TypeOK
  <2> SUFFICES ASSUME NEW g \in Generations PROVE FoldedAt(g)'
    BY DEF AllFolded
  <2>2. FoldedAt(g) /\ ckpt[g].cursor \in Nat
    BY <1>0 DEF AllFolded, TypeOK, Checkpoints
  <2>3. \A p \in Positions : p <= ckpt[g].cursor => p \in 1..Len(journal)
    BY <1>0, <2>1, <2>2 DEF FoldedAt, Folded, Positions
  <2> QED
    BY <1>0, <2>1, <2>2, <2>3 DEF FoldedAt, Folded, Exists
<1>2. ASSUME NEW q \in 1..Len(journal), Upgrade(q) PROVE AllFolded'
  <2>1. UNCHANGED <<ckpt, rows>> /\ Len(journal') = Len(journal) /\ journal[q] = "poison"
        /\ \A p \in 1..Len(journal) : journal'[p] = IF p = q THEN "apply" ELSE journal[p]
    BY <1>2 DEF Upgrade, TypeOK
  <2> SUFFICES ASSUME NEW g \in Generations PROVE FoldedAt(g)'
    BY DEF AllFolded
  <2>2. FoldedAt(g)
    BY DEF AllFolded
  <2>3. \A p \in Positions : p <= ckpt[g].cursor => p \in 1..Len(journal) /\ p # q
    BY <1>0, <2>1, <2>2 DEF FoldedAt, Folded, Positions, TypeOK
  <2> QED
    BY <2>1, <2>2, <2>3 DEF FoldedAt, Folded, Exists
<1>3. ASSUME NEW c \in Consumers, AcquireActive(c) PROVE AllFolded'
  <2>1. UNCHANGED <<journal, rows>> /\ c \in Actors
        /\ \E d : ckpt' = [ckpt EXCEPT ![d] = Granted(d, c)]
    BY <1>3 DEF AcquireActive, Actors
  <2> QED
    BY <2>1, GrantKeepsCursor, SameFold
<1>4. ASSUME NEW o \in Ops, Cleanup(o) PROVE AllFolded'
  <2> SUFFICES ASSUME NEW g \in Generations PROVE FoldedAt(g)'
    BY DEF AllFolded
  <2>1. FoldedAt(g) /\ UNCHANGED journal
    BY <1>4 DEF AllFolded, Cleanup
  <2>2. CASE ckpt'[g] = ckpt[g] /\ rows'[g] = rows[g]
    BY <2>1, <2>2 DEF FoldedAt, Folded, Exists
  <2>3. CASE ckpt'[g] = Absent /\ rows'[g] = NoRows
    BY <1>0, <2>3 DEF FoldedAt, Folded, Absent, NoRows, Positions, Exists
  <2>4. \/ UNCHANGED <<ckpt, rows>>
        \/ \E d : ckpt' = [ckpt EXCEPT ![d] = Absent] /\ rows' = [rows EXCEPT ![d] = NoRows]
    BY <1>4 DEF Cleanup
  <2> QED
    BY <2>2, <2>3, <2>4 DEF TypeOK
<1>5. ASSUME NEW d \in Generations, CheckpointLeaseExpires(d) \/ CheckpointLeaseLost(d) PROVE AllFolded'
  <2>1. UNCHANGED <<journal, rows>> /\ ckpt[d] \in Checkpoints
    BY <1>5 DEF CheckpointLeaseExpires, CheckpointLeaseLost, TypeOK
  <2>2. \/ ckpt' = [ckpt EXCEPT ![d] = [ckpt[d] EXCEPT !.held = FALSE, !.holder = Gone]]
        \/ ckpt' = [ckpt EXCEPT ![d] = [ckpt[d] EXCEPT !.held = FALSE]]
    BY <1>5 DEF CheckpointLeaseExpires, CheckpointLeaseLost, TypeOK
  <2>3. /\ [ckpt[d] EXCEPT !.held = FALSE, !.holder = Gone].cursor = ckpt[d].cursor
        /\ [ckpt[d] EXCEPT !.held = FALSE, !.holder = Gone].status = ckpt[d].status
        /\ [ckpt[d] EXCEPT !.held = FALSE].cursor = ckpt[d].cursor
        /\ [ckpt[d] EXCEPT !.held = FALSE].status = ckpt[d].status
    BY <2>1 DEF Checkpoints
  <2>4. ASSUME NEW g \in Generations
        PROVE  ckpt'[g].cursor = ckpt[g].cursor /\ (Exists(g) => Exists(g)')
    <3>1. CASE g = d
      <4>1. ckpt'[d].cursor = ckpt[d].cursor /\ ckpt'[d].status = ckpt[d].status
        BY <2>2, <2>3 DEF TypeOK
      <4> QED
        BY <3>1, <4>1 DEF Exists
    <3>2. CASE g # d
      <4>1. ckpt'[g] = ckpt[g]
        BY <2>2, <3>2 DEF TypeOK
      <4> QED
        BY <4>1 DEF Exists
    <3> QED
      BY <3>1, <3>2
  <2> QED
    BY <2>1, <2>4, SameFold
<1>6. CASE UNCHANGED <<journal, rows, ckpt>>
  BY <1>6, SameFold DEF Exists
<1> QED
  BY <1>1, <1>2, <1>3, <1>4, <1>5, <1>6
     DEF Outside, RequestProjectionRebuild, JobLeaseExpires, JobLeaseLost, JobRecovered, Stop

LEMMA HandlingFolds ==
  ASSUME Known, AllFolded, NEW h \in Handlers, Handling(h)
  PROVE  AllFolded'
<1>0. TypeOK /\ h \in Actors
  BY HandlerParts DEF Known
<1>1. CASE UNCHANGED <<journal, rows, ckpt>>
  BY <1>1, SameFold DEF Exists
<1>2. CASE AcquireShadow(h) \/ Cutover(h)
  <2>1. UNCHANGED <<journal, rows>>
        /\ (UNCHANGED ckpt \/ \E d : ckpt' = [ckpt EXCEPT ![d] = Granted(d, h)])
    BY <1>2 DEF AcquireShadow, Cutover
  <2>2. \A g \in Generations : ckpt'[g].cursor = ckpt[g].cursor /\ (Exists(g) => Exists(g)')
    BY <1>0, <2>1, GrantKeepsCursor DEF Exists
  <2> QED
    BY <2>1, <2>2, SameFold
<1>3. CASE Snapshot(h)
  <2> DEFINE s == SnapshotOf
             seed == IF active = 0 THEN rows[s] ELSE rows[active]
  <2> SUFFICES ASSUME NEW g \in Generations PROVE FoldedAt(g)'
    BY DEF AllFolded
  <2>1. /\ ckpt' = [ckpt EXCEPT ![s] = [Absent EXCEPT !.status = "LIVE", !.cursor = W0]]
        /\ rows' = [rows EXCEPT ![s] = seed]
        /\ UNCHANGED journal /\ ~Exists(s)
    BY <1>3 DEF Snapshot
  <2>2. FoldedAt(g)
    BY DEF AllFolded
  <2>3. CASE g # s
    <3>1. ckpt'[g] = ckpt[g] /\ rows'[g] = rows[g]
      BY <1>0, <2>1, <2>3 DEF TypeOK
    <3> QED
      BY <2>1, <2>2, <3>1 DEF FoldedAt, Folded, Exists
  <2>4. CASE g = s
    <3>1. Folded(seed, W0)
      <4>1. CASE active = 0
        BY <2>1, <2>2, <2>4, <4>1 DEF FoldedAt, W0
      <4>2. CASE active # 0
        <5>1. active \in Generations
          BY <1>0, <4>2, ProjectionAssumption DEF TypeOK, Generations
        <5> QED
          BY <4>2, <5>1 DEF AllFolded, FoldedAt, W0
      <4> QED
        BY <4>1, <4>2
    <3>2. rows'[g] = seed /\ ckpt'[g] = [Absent EXCEPT !.status = "LIVE", !.cursor = W0]
      BY <1>0, <2>1, <2>4 DEF TypeOK
    <3>3. ckpt'[g].cursor = W0 /\ ckpt'[g].status = "LIVE"
      BY <3>2 DEF Absent
    <3> HIDE DEF seed
    <3> QED
      BY <2>1, <3>1, <3>2, <3>3 DEF FoldedAt, Folded, Exists
  <2> QED
    BY <2>3, <2>4
<1> QED
  BY <1>1, <1>2, <1>3
     DEF Handling, Claim, SnapshotFails, ValidateJobLease, RecordProgress, EnterCuttingOver, FailOperation,
         StepFails, Refused, Return

LEMMA RoundFolds ==
  ASSUME TypeOK, AllFolded, NEW a \in Actors, RoundStep(a)
  PROVE  AllFolded'
<1>1. CASE UNCHANGED <<journal, rows, ckpt>>
  BY <1>1, SameFold DEF Exists
<1>2. CASE RecordPoison(a)
  <2>1. UNCHANGED <<journal, rows>>
        /\ ckpt' = [ckpt EXCEPT ![proc[a].gen] = [ckpt[proc[a].gen] EXCEPT !.status = "DEGRADED"]]
    BY <1>2 DEF RecordPoison
  <2>2. ASSUME NEW g \in Generations
        PROVE  ckpt'[g].cursor = ckpt[g].cursor /\ (Exists(g) => Exists(g)')
    <3>1. ckpt'[g] = ckpt[g] \/ ckpt'[g] = [ckpt[g] EXCEPT !.status = "DEGRADED"]
      BY <2>1 DEF TypeOK
    <3>2. [ckpt[g] EXCEPT !.status = "DEGRADED"].cursor = ckpt[g].cursor
          /\ [ckpt[g] EXCEPT !.status = "DEGRADED"].status = "DEGRADED"
      BY DEF TypeOK, Checkpoints
    <3> QED
      BY <3>1, <3>2 DEF Exists
  <2> QED
    BY <2>1, <2>2, SameFold
<1> QED
  BY <1>1, <1>2, BatchFolds DEF RoundStep, NothingNew, FindPoison, LoseRound

(* "Cursor never exceeds applied data", for every generation and however        *)
(* consumers, builders, snapshots and cleanups came to share it: the rows of a  *)
(* generation are its journal up to its cursor, each event applied once.        *)
THEOREM RowsAreFolded == Spec => []RowsFoldTheJournal
<1>1. Known /\ AllFolded /\ Known' /\ [Next]_vars => AllFolded'
  <2> SUFFICES ASSUME Known, AllFolded, Known', [Next]_vars PROVE AllFolded'
    OBVIOUS
  <2>1. CASE UNCHANGED vars
    BY <2>1, SameFold DEF vars, Exists
  <2>2. CASE Outside
    BY <2>2, OutsideFolds DEF Known
  <2>3. ASSUME NEW a \in Actors, RoundStep(a) PROVE AllFolded'
    BY <2>3, RoundFolds DEF Known
  <2>4. ASSUME NEW h \in Handlers, Handling(h) PROVE AllFolded'
    BY <2>4, HandlingFolds
  <2> QED
    BY <2>1, <2>2, <2>3, <2>4, Kinds
<1>2. AllFolded => RowsFoldTheJournal
  BY DEF AllFolded, FoldedAt, RowsFoldTheJournal
<1> QED
  BY <1>1, <1>2, InitFolded, SpecKnown, PTL DEF Spec

-----------------------------------------------------------------------------
(* What operations tell of the generations, said of one operation. *)
TellsOf(o) ==
  /\ op[o].phase \in Started => op[o].shadow \in {1, active + 1} /\ active <= op[o].shadow
  /\ op[o].phase = "SUCCEEDED" => op[o].shadow <= active /\ job[o].state = "DONE"
  /\ job[o].state = "DONE" => op[o].phase \in Terminal

(* A step that leaves the active generation, and at most changes one operation *)
(* or its job.                                                                 *)
LEMMA TellsStill ==
  ASSUME OperationsTellTheGenerations, UNCHANGED active, active # 0 => Exists(active)', NEW o \in Ops,
         \A q \in Ops \ {o} : op'[q] = op[q] /\ job'[q] = job[q],
         op'[o] = op[o] \/ op[o].phase # "SUCCEEDED",
         TellsOf(o)'
  PROVE  OperationsTellTheGenerations'
<1>1. \A q \in Ops : TellsOf(q)'
  BY DEF OperationsTellTheGenerations, TellsOf
<1>2. active > 1 => \E q \in Ops : op'[q] = [phase |-> "SUCCEEDED", shadow |-> active]
  <2> SUFFICES ASSUME active > 1 PROVE \E q \in Ops : op'[q] = [phase |-> "SUCCEEDED", shadow |-> active]
    OBVIOUS
  <2>1. PICK q \in Ops : op[q] = [phase |-> "SUCCEEDED", shadow |-> active]
    BY DEF OperationsTellTheGenerations
  <2>2. op'[q] = op[q]
    BY <2>1
  <2> QED
    BY <2>1, <2>2
<1> QED
  BY <1>1, <1>2 DEF OperationsTellTheGenerations, TellsOf

LEMMA ActiveIsAGeneration == ASSUME TypeOK, active # 0 PROVE active \in Generations
BY ProjectionAssumption DEF TypeOK, Generations

LEMMA QuietTells ==
  ASSUME TypeOK, OperationsTellTheGenerations, UNCHANGED <<op, job, active>>,
         \A g \in Generations : Exists(g) => Exists(g)'
  PROVE  OperationsTellTheGenerations'
<1>1. active # 0 => Exists(active)'
  BY ActiveIsAGeneration DEF OperationsTellTheGenerations
<1> QED
  BY <1>1 DEF OperationsTellTheGenerations

LEMMA RoundTells ==
  ASSUME TypeOK, OperationsTellTheGenerations, NEW a \in Actors, RoundStep(a)
  PROVE  OperationsTellTheGenerations'
<1>1. \A g \in Generations : Exists(g) => Exists(g)'
  <2>1. CASE UNCHANGED ckpt
    BY <2>1 DEF Exists
  <2>2. CASE ApplyEvents(a)
    BY <2>2 DEF ApplyEvents, Exists, TypeOK, Checkpoints
  <2>3. CASE RecordPoison(a)
    BY <2>3 DEF RecordPoison, Exists, TypeOK, Checkpoints
  <2> QED
    BY <2>1, <2>2, <2>3 DEF RoundStep, NothingNew, FindPoison, LoseRound
<1>2. UNCHANGED <<op, job, active>>
  BY DEF RoundStep, NothingNew, ApplyEvents, FindPoison, RecordPoison, LoseRound
<1> QED
  BY <1>1, <1>2, QuietTells

LEMMA OutsideTells ==
  ASSUME Known, OperationsTellTheGenerations, Outside
  PROVE  OperationsTellTheGenerations'
<1>0. TypeOK /\ OneIsOpen /\ (active # 0 => active \in Generations /\ Exists(active))
  BY ActiveIsAGeneration DEF Known, OperationsTellTheGenerations
<1>1. CASE UNCHANGED <<op, job, active, ckpt>>
  BY <1>0, <1>1, QuietTells DEF Exists
<1>2. ASSUME NEW c \in Consumers, AcquireActive(c) PROVE OperationsTellTheGenerations'
  <2> DEFINE d == IF active = 0 THEN 1 ELSE active
  <2>1. /\ active' = d /\ UNCHANGED <<op, job>> /\ c \in Actors
        /\ ckpt' = [ckpt EXCEPT ![d] = Granted(d, c)]
    BY <1>2 DEF AcquireActive, Actors
  <2>2. CASE active # 0
    BY <1>0, <2>1, <2>2, StillThere, QuietTells
  <2>3. CASE active = 0
    <3>1. 1 \in Generations /\ active' = 1
      BY <2>1, <2>3, ProjectionAssumption DEF Generations
    <3>2. Exists(active)'
      BY <1>0, <2>1, <2>3, <3>1, GrantedTyped DEF Exists, TypeOK
    <3>3. ASSUME NEW q \in Ops PROVE TellsOf(q)'
      <4>1. TellsOf(q) /\ op[q].shadow \in Nat
        BY <1>0, ProjectionAssumption DEF OperationsTellTheGenerations, TellsOf, TypeOK, Operations
      <4> QED
        BY <2>1, <2>3, <3>1, <4>1 DEF TellsOf
    <3> QED
      BY <3>1, <3>2, <3>3 DEF OperationsTellTheGenerations, TellsOf
  <2> QED
    BY <2>2, <2>3
<1>3. ASSUME NEW o \in Ops, RequestProjectionRebuild(o) PROVE OperationsTellTheGenerations'
  <2>1. /\ op[o].phase = "NONE" /\ UNCHANGED <<ckpt, active>>
        /\ op' = [op EXCEPT ![o].phase = "REQUESTED"] /\ job' = [job EXCEPT ![o].state = "AVAILABLE"]
    BY <1>3 DEF RequestProjectionRebuild
  <2>2. /\ op'[o].phase = "REQUESTED" /\ job'[o].state = "AVAILABLE"
        /\ \A q \in Ops \ {o} : op'[q] = op[q] /\ job'[q] = job[q]
    BY <1>0, <2>1 DEF TypeOK, Operations, Jobs
  <2>3. TellsOf(o)'
    BY <2>2 DEF TellsOf, Started
  <2> QED
    BY <1>0, <2>1, <2>2, <2>3, TellsStill DEF Exists
<1>4. ASSUME NEW o \in Ops, Cleanup(o) PROVE OperationsTellTheGenerations'
  <2>1. /\ op[o].phase # "SUCCEEDED" /\ UNCHANGED <<job, active>>
        /\ op' = [op EXCEPT ![o].phase = "FAILED"]
        /\ \/ UNCHANGED ckpt
           \/ op[o].shadow # active /\ ckpt' = [ckpt EXCEPT ![op[o].shadow] = Absent]
    BY <1>4 DEF Cleanup, Discardable
  <2>2. op'[o].phase = "FAILED" /\ \A q \in Ops \ {o} : op'[q] = op[q]
    BY <1>0, <2>1 DEF TypeOK, Operations
  <2>3. TellsOf(o)'
    BY <2>2 DEF TellsOf, Started, Terminal
  <2>4. active # 0 => Exists(active)'
    BY <1>0, <2>1 DEF Exists, TypeOK
  <2> QED
    BY <2>1, <2>2, <2>3, <2>4, TellsStill
<1>5. ASSUME NEW o \in Ops, JobLeaseExpires(o) \/ JobLeaseLost(o) PROVE OperationsTellTheGenerations'
  <2> DEFINE s == IF job[o].claims < MaxClaims[o] THEN "AVAILABLE" ELSE "DEAD"
  <2>1. /\ job[o].state = "LEASED" /\ UNCHANGED <<op, ckpt, active>>
        /\ job' = [job EXCEPT ![o].state = s]
    BY <1>5 DEF JobLeaseExpires, JobLeaseLost, JobRecovered
  <2>2. job'[o].state = s /\ \A q \in Ops \ {o} : job'[q] = job[q]
    BY <1>0, <2>1 DEF TypeOK, Jobs
  <2>3. TellsOf(o)'
    <3>1. TellsOf(o) /\ op[o].phase # "SUCCEEDED" /\ s # "DONE"
      BY <2>1 DEF OperationsTellTheGenerations, TellsOf
    <3> QED
      BY <2>1, <2>2, <3>1 DEF TellsOf
  <2> QED
    BY <1>0, <2>1, <2>2, <2>3, TellsStill DEF Exists
<1>6. ASSUME NEW d \in Generations, CheckpointLeaseExpires(d) \/ CheckpointLeaseLost(d)
      PROVE  OperationsTellTheGenerations'
  <2>1. UNCHANGED <<op, job, active>>
        /\ \E c : ckpt' = [ckpt EXCEPT ![d] = c] /\ c.status = ckpt[d].status
    <3>1. [ckpt[d] EXCEPT !.held = FALSE, !.holder = Gone].status = ckpt[d].status
          /\ [ckpt[d] EXCEPT !.held = FALSE].status = ckpt[d].status
      BY <1>0 DEF TypeOK, Checkpoints
    <3>2. \/ ckpt' = [ckpt EXCEPT ![d] = [ckpt[d] EXCEPT !.held = FALSE, !.holder = Gone]]
          \/ ckpt' = [ckpt EXCEPT ![d] = [ckpt[d] EXCEPT !.held = FALSE]]
      BY <1>0, <1>6 DEF CheckpointLeaseExpires, CheckpointLeaseLost, TypeOK
    <3>3. UNCHANGED <<op, job, active>>
      BY <1>6 DEF CheckpointLeaseExpires, CheckpointLeaseLost
    <3> QED
      BY <3>1, <3>2, <3>3
  <2>2. \A g \in Generations : Exists(g) => Exists(g)'
    BY <1>0, <2>1 DEF Exists, TypeOK
  <2> QED
    BY <1>0, <2>1, <2>2, QuietTells
<1> QED
  BY <1>1, <1>2, <1>3, <1>4, <1>5, <1>6 DEF Outside, AppendEvent, Upgrade, Stop

LEMMA HandlingTells ==
  ASSUME Known, TypeOK', OperationsTellTheGenerations, NEW h \in Handlers, Handling(h)
  PROVE  OperationsTellTheGenerations'
<1> DEFINE o == h[1]
<1>0. TypeOK /\ OneIsOpen /\ Knows(h) /\ h \in Actors /\ o \in Ops /\ TellsOf(o)
      /\ (active # 0 => active \in Generations /\ Exists(active)) /\ op[o] \in Operations
  BY HandlerParts, ActiveIsAGeneration
     DEF Known, HandlersKnow, OperationsTellTheGenerations, TellsOf, TypeOK
<1>1. CASE UNCHANGED <<op, job, active, ckpt>>
  BY <1>0, <1>1, QuietTells DEF Exists
<1>2. CASE Claim(h)
  <2>1. /\ job[o].state = "AVAILABLE" /\ UNCHANGED <<op, ckpt, active>> /\ job'[o].state = "LEASED"
        /\ \A q \in Ops \ {o} : job'[q] = job[q]
    BY <1>0, <1>2 DEF Claim, TypeOK
  <2>2. TellsOf(o)'
    BY <1>0, <2>1 DEF TellsOf
  <2> QED
    BY <1>0, <2>1, <2>2, TellsStill DEF Exists
<1>3. CASE Snapshot(h)
  <2>1. /\ op' = [op EXCEPT ![o] = [phase |-> "SNAPSHOTTING", shadow |-> SnapshotOf]]
        /\ op[o].phase = "REQUESTED" /\ UNCHANGED <<job, active>> /\ job[o].state = "LEASED"
        /\ ckpt' = [ckpt EXCEPT ![SnapshotOf] = [Absent EXCEPT !.status = "LIVE", !.cursor = W0]]
    BY <1>3 DEF Snapshot, Fresh, HoldsJob
  <2>2. op'[o].phase = "SNAPSHOTTING" /\ op'[o].shadow = SnapshotOf /\ \A q \in Ops \ {o} : op'[q] = op[q]
    BY <1>0, <2>1 DEF TypeOK
  <2>3. SnapshotOf \in {1, active + 1} /\ active <= SnapshotOf /\ SnapshotOf # active
    BY <1>0, ProjectionAssumption DEF SnapshotOf, TypeOK
  <2>4. TellsOf(o)'
    BY <2>1, <2>2, <2>3 DEF TellsOf
  <2>5. active # 0 => Exists(active)'
    BY <1>0, <2>1, <2>3 DEF Exists, TypeOK
  <2> QED
    BY <1>0, <2>1, <2>2, <2>4, <2>5, TellsStill
<1>4. CASE AcquireShadow(h)
  <2>1. UNCHANGED <<op, job, active>>
        /\ (UNCHANGED ckpt \/ ckpt' = [ckpt EXCEPT ![Shadow(h)] = Granted(Shadow(h), h)])
    BY <1>4 DEF AcquireShadow
  <2>2. \A g \in Generations : Exists(g) => Exists(g)'
    BY <1>0, <2>1, StillThere DEF Exists
  <2> QED
    BY <1>0, <2>1, <2>2, QuietTells
<1>5. CASE RecordProgress(h) \/ EnterCuttingOver(h)
  <2>1. op[o].phase \in Started /\ job[o].state = "LEASED"
    <3>1. Admitted(h) /\ proc[h].pc \in {"applied", "caught up"}
      BY <1>5 DEF RecordProgress, EnterCuttingOver
    <3>2. op[o].phase \in Started
      <4>1. HoldsJob(h) /\ op[o].phase \notin Terminal
        BY <3>1 DEF Admitted, Fresh
      <4>2. proc[h].seen \in Started /\ proc[h].pc # "off"
        BY <1>0, <3>1 DEF Knows, Underway
      <4> QED
        BY <1>0, <4>1, <4>2 DEF Knows
    <3>3. job[o] = [state |-> "LEASED", claims |-> h[2]]
      BY <3>1 DEF Admitted, HoldsJob
    <3>4. job[o].state = "LEASED"
      BY <3>3
    <3> QED
      BY <3>2, <3>4
  <2>2. UNCHANGED <<job, ckpt, active>> /\ \E p \in Started : op' = [op EXCEPT ![o].phase = p]
    BY <1>5 DEF RecordProgress, EnterCuttingOver, Started
  <2>3. op'[o].phase \in Started /\ op'[o].shadow = op[o].shadow /\ \A q \in Ops \ {o} : op'[q] = op[q]
    BY <1>0, <2>2 DEF TypeOK, Operations
  <2>4. op[o].phase # "SUCCEEDED" /\ op'[o].phase # "SUCCEEDED"
    BY <2>1, <2>3 DEF Started
  <2>5. TellsOf(o)'
    <3>1. op[o].shadow \in {1, active + 1} /\ active <= op[o].shadow
      BY <1>0, <2>1 DEF TellsOf
    <3>2. job'[o].state = "LEASED" /\ active' = active
      BY <2>1, <2>2
    <3> QED
      BY <2>3, <2>4, <3>1, <3>2 DEF TellsOf
  <2> QED
    BY <1>0, <2>2, <2>3, <2>4, <2>5, TellsStill DEF Exists
<1>6. CASE FailOperation(h)
  <2>1. /\ op[o].phase # "SUCCEEDED" /\ UNCHANGED <<ckpt, active>>
        /\ op' = [op EXCEPT ![o].phase = "FAILED"] /\ job' = [job EXCEPT ![o].state = "DONE"]
    BY <1>6 DEF FailOperation, Admitted, Fresh, Terminal
  <2>2. op'[o].phase = "FAILED" /\ \A q \in Ops \ {o} : op'[q] = op[q] /\ job'[q] = job[q]
    BY <1>0, <2>1 DEF TypeOK, Operations
  <2>3. TellsOf(o)'
    BY <2>2 DEF TellsOf, Started, Terminal
  <2> QED
    BY <1>0, <2>1, <2>2, <2>3, TellsStill DEF Exists
<1>7. CASE Cutover(h)
  <2> DEFINE s == op[o].shadow
  <2>1. /\ op[o].phase = "CUTTING_OVER" /\ active' = s
        /\ ckpt' = [ckpt EXCEPT ![s] = Granted(s, h)]
        /\ op' = [op EXCEPT ![o].phase = "SUCCEEDED"] /\ job' = [job EXCEPT ![o].state = "DONE"]
    BY <1>7 DEF Cutover, Fresh, Shadow
  <2>2. /\ op'[o].phase = "SUCCEEDED" /\ op'[o].shadow = s /\ job'[o].state = "DONE"
        /\ \A q \in Ops \ {o} : op'[q] = op[q] /\ job'[q] = job[q]
    BY <1>0, <2>1 DEF TypeOK, Operations, Jobs
  <2>3. op'[o] = [phase |-> "SUCCEEDED", shadow |-> s]
    <3>1. op'[o] \in Operations
      BY <1>0 DEF TypeOK
    <3> QED
      BY <2>2, <3>1 DEF Operations
  <2>4. active <= s /\ s # 0 /\ op[o].phase \in Started
    BY <1>0, <2>1 DEF TellsOf, OneIsOpen, Started
  <2>5. active \in Nat /\ \A q \in Ops : op[q].shadow \in Nat
    BY <1>0, ProjectionAssumption DEF TypeOK, Operations
  <2>6. s \in Generations
    <3>1. s \in 0..MaxGeneration /\ MaxGeneration \in Nat
      BY <1>0, ProjectionAssumption DEF Operations
    <3> QED
      BY <2>4, <3>1 DEF Generations
  <2>7. Exists(active)'
    BY <1>0, <2>1, <2>6, GrantedTyped DEF Exists, TypeOK
  <2>8. ASSUME NEW q \in Ops PROVE TellsOf(q)'
    <3>1. CASE q = o
      BY <2>1, <2>2, <2>5, <3>1 DEF TellsOf, Started, Terminal
    <3>2. CASE q # o
      <4>1. op'[q] = op[q] /\ job'[q] = job[q] /\ TellsOf(q)
        BY <2>2, <3>2 DEF OperationsTellTheGenerations, TellsOf
      <4>2. op[q].phase \notin Started
        BY <1>0, <2>4, <3>2 DEF OneIsOpen, Open
      <4> QED
        <5>1. op[q].phase = "SUCCEEDED" => op[q].shadow <= s
          <6>1. op[q].phase = "SUCCEEDED" => op[q].shadow <= active
            BY <4>1 DEF TellsOf
          <6>2. s \in Nat /\ op[q].shadow \in Nat
            BY <1>0, <2>5
          <6> QED
            BY <2>4, <2>5, <6>1, <6>2
        <5> QED
          BY <2>1, <4>1, <4>2, <5>1 DEF TellsOf
    <3> QED
      BY <3>1, <3>2
  <2>9. \E q \in Ops : op'[q] = [phase |-> "SUCCEEDED", shadow |-> active']
    BY <1>0, <2>1, <2>3
  <2> QED
    BY <2>7, <2>8, <2>9 DEF OperationsTellTheGenerations, TellsOf
<1>8. CASE Return(h)
  <2>1. UNCHANGED <<op, ckpt, active>> /\ op[o].phase \in Terminal
        /\ (UNCHANGED job \/ job' = [job EXCEPT ![o].state = "DONE"])
    BY <1>0, <1>8 DEF Return, Knows
  <2>2. /\ job'[o].state = job[o].state \/ job'[o].state = "DONE"
        /\ \A q \in Ops \ {o} : job'[q] = job[q]
    BY <1>0, <2>1 DEF TypeOK, Jobs
  <2>3. TellsOf(o)'
    BY <1>0, <2>1, <2>2 DEF TellsOf
  <2> QED
    BY <1>0, <2>1, <2>2, <2>3, TellsStill DEF Exists
<1> QED
  BY <1>1, <1>2, <1>3, <1>4, <1>5, <1>6, <1>7, <1>8
     DEF Handling, SnapshotFails, ValidateJobLease, StepFails, Refused

(* The active generation is there and came from the first consumer or from an   *)
(* operation that SUCCEEDED; what is under construction is the one after it; no *)
(* job is DONE before its operation, whatever order deliveries, cleanups and    *)
(* lost leases came in.                                                         *)
THEOREM OperationsTell == Spec => []OperationsTellTheGenerations
<1>1. Init => OperationsTellTheGenerations
  BY DEF Init, OperationsTellTheGenerations, Started
<1>2. Known /\ OperationsTellTheGenerations /\ Known' /\ [Next]_vars => OperationsTellTheGenerations'
  <2> SUFFICES ASSUME Known, OperationsTellTheGenerations, Known', [Next]_vars
               PROVE  OperationsTellTheGenerations'
    OBVIOUS
  <2>1. CASE UNCHANGED vars
    BY <2>1, QuietTells DEF vars, Exists, Known
  <2>2. CASE Outside
    BY <2>2, OutsideTells
  <2>3. ASSUME NEW a \in Actors, RoundStep(a) PROVE OperationsTellTheGenerations'
    BY <2>3, RoundTells DEF Known
  <2>4. ASSUME NEW h \in Handlers, Handling(h) PROVE OperationsTellTheGenerations'
    BY <2>4, HandlingTells DEF Known
  <2> QED
    BY <2>1, <2>2, <2>3, <2>4, Kinds
<1> QED
  BY <1>1, <1>2, SpecKnown, PTL DEF Spec

-----------------------------------------------------------------------------
(* What a step does to operations and to the active generation. *)
Progress(o) == op'[o].phase = op[o].phase \/ Rank[op[o].phase] < Rank[op'[o].phase]
CutoverStep ==
  /\ \A o \in Ops : Progress(o)
  /\ active' # active => (active = 0 /\ active' = 1) \/ \E o \in Ops : CutsOver(o)
  /\ \A o \in Ops : op'[o].phase = "SUCCEEDED" /\ op[o].phase # "SUCCEEDED" => CutsOver(o)

LEMMA OutsideStands ==
  ASSUME Known, Outside
  PROVE  CutoverStep
<1>0. TypeOK
  BY DEF Known
<1>1. CASE UNCHANGED <<op, active>>
  BY <1>1 DEF CutoverStep, Progress
<1>2. ASSUME NEW c \in Consumers, AcquireActive(c) PROVE CutoverStep
  BY <1>2 DEF AcquireActive, CutoverStep, Progress
<1>3. ASSUME NEW o \in Ops, RequestProjectionRebuild(o) PROVE CutoverStep
  <2>1. /\ op[o].phase = "NONE" /\ UNCHANGED active
        /\ op' = [op EXCEPT ![o] = [op[o] EXCEPT !.phase = "REQUESTED"]]
    BY <1>3 DEF RequestProjectionRebuild
  <2>2. op'[o].phase = "REQUESTED"
    BY <1>0, <2>1 DEF TypeOK, Operations
  <2>3. Rank[op[o].phase] < Rank[op'[o].phase]
    BY <2>1, <2>2 DEF Rank
  <2> QED
    BY <1>0, <2>1, <2>2, <2>3 DEF CutoverStep, Progress, TypeOK
<1>4. ASSUME NEW o \in Ops, Cleanup(o) PROVE CutoverStep
  <2>1. /\ op[o].phase # "SUCCEEDED" /\ UNCHANGED active
        /\ op' = [op EXCEPT ![o] = [op[o] EXCEPT !.phase = "FAILED"]]
    BY <1>4 DEF Cleanup
  <2>2. op'[o].phase = "FAILED"
    BY <1>0, <2>1 DEF TypeOK, Operations
  <2>3. op'[o].phase = op[o].phase \/ Rank[op[o].phase] < Rank[op'[o].phase]
    <3>1. op[o].phase \in Phases
      BY <1>0 DEF TypeOK, Operations
    <3> QED
      BY <2>1, <2>2, <3>1 DEF Rank, Phases, Open, Started, Terminal
  <2> QED
    BY <1>0, <2>1, <2>2, <2>3 DEF CutoverStep, Progress, TypeOK
<1> QED
  BY <1>1, <1>2, <1>3, <1>4
     DEF Outside, AppendEvent, Upgrade, Stop, JobLeaseExpires, JobLeaseLost, JobRecovered,
         CheckpointLeaseExpires, CheckpointLeaseLost

LEMMA HandlingStands ==
  ASSUME Known, NEW h \in Handlers, Handling(h)
  PROVE  CutoverStep
<1> DEFINE o == h[1]
<1>0. TypeOK /\ OneIsOpen /\ Knows(h) /\ o \in Ops /\ op[o] \in Operations /\ Fresh(h) = op[o]
  BY HandlerParts DEF Known, HandlersKnow, TypeOK, Fresh
<1>1. CASE UNCHANGED <<op, active>>
  BY <1>1 DEF CutoverStep, Progress
<1>2. ASSUME NEW p, op' = [op EXCEPT ![o] = p], UNCHANGED active, p.phase # "SUCCEEDED",
             p.phase = op[o].phase \/ Rank[op[o].phase] < Rank[p.phase]
      PROVE  CutoverStep
  <2>1. op'[o] = p /\ \A q \in Ops \ {o} : op'[q] = op[q]
    BY <1>0, <1>2 DEF TypeOK
  <2> QED
    BY <1>2, <2>1 DEF CutoverStep, Progress
<1>3. CASE Snapshot(h)
  <2> DEFINE p == [phase |-> "SNAPSHOTTING", shadow |-> SnapshotOf]
  <2>1. op' = [op EXCEPT ![o] = p] /\ UNCHANGED active /\ op[o].phase = "REQUESTED"
    BY <1>0, <1>3 DEF Snapshot
  <2>2. p.phase = "SNAPSHOTTING"
    OBVIOUS
  <2> HIDE DEF p
  <2>3. Rank[op[o].phase] < Rank[p.phase]
    BY <2>1, <2>2 DEF Rank
  <2> QED
    BY <1>2, <2>1, <2>2, <2>3
<1>4. CASE RecordProgress(h) \/ EnterCuttingOver(h)
  <2>1. HoldsJob(h) /\ op[o].phase \notin Terminal /\ proc[h].pc \in {"applied", "caught up"} /\ UNCHANGED active
    BY <1>0, <1>4 DEF RecordProgress, EnterCuttingOver, Admitted
  <2>2. proc[h].seen \in Started /\ op[o].phase = proc[h].seen
    <3>1. proc[h].seen \in Started /\ proc[h].pc # "off"
      BY <1>0, <2>1 DEF Knows, Underway
    <3> QED
      BY <1>0, <2>1, <3>1 DEF Knows
  <2>3. PICK phase : /\ op' = [op EXCEPT ![o] = [op[o] EXCEPT !.phase = phase]]
                     /\ phase = "CUTTING_OVER" \/ (phase = "BUILDING" /\ Building(h))
    <3>1. CASE RecordProgress(h) /\ Building(h)
      <4>1. op' = [op EXCEPT ![o] = [op[o] EXCEPT !.phase = "BUILDING"]] /\ Building(h)
        BY <3>1 DEF RecordProgress
      <4>2. "BUILDING" = "CUTTING_OVER" \/ ("BUILDING" = "BUILDING" /\ Building(h))
        BY <4>1
      <4> QED
        BY <4>1, <4>2
    <3>2. CASE ~(RecordProgress(h) /\ Building(h))
      <4>1. op' = [op EXCEPT ![o] = [op[o] EXCEPT !.phase = "CUTTING_OVER"]]
        BY <1>4, <3>2 DEF RecordProgress, EnterCuttingOver
      <4> QED
        BY <4>1
    <3> QED
      BY <3>1, <3>2
  <2> DEFINE p == [op[o] EXCEPT !.phase = phase]
  <2>4. p.phase = phase
    BY <1>0 DEF Operations
  <2> HIDE DEF p
  <2>5. phase = op[o].phase \/ Rank[op[o].phase] < Rank[phase]
    BY <2>2, <2>3 DEF Building, Started, Rank
  <2> QED
    BY <1>2, <2>1, <2>3, <2>4, <2>5 DEF p
<1>5. CASE FailOperation(h)
  <2> DEFINE p == [op[o] EXCEPT !.phase = "FAILED"]
  <2>1. op' = [op EXCEPT ![o] = p] /\ UNCHANGED active /\ op[o].phase \notin Terminal
    BY <1>0, <1>5 DEF FailOperation, Admitted
  <2>2. p.phase = "FAILED" /\ op[o].phase \in Phases
    BY <1>0 DEF Operations
  <2> HIDE DEF p
  <2>3. Rank[op[o].phase] < Rank["FAILED"]
    BY <2>1, <2>2 DEF Rank, Phases, Open, Started, Terminal
  <2> QED
    BY <1>2, <2>1, <2>2, <2>3
<1>6. CASE Cutover(h)
  <2>1. /\ op[o].phase = "CUTTING_OVER" /\ active' = op[o].shadow /\ job[o] = [state |-> "LEASED", claims |-> h[2]]
        /\ op' = [op EXCEPT ![o].phase = "SUCCEEDED"] /\ job' = [job EXCEPT ![o].state = "DONE"]
    BY <1>0, <1>6 DEF Cutover, Shadow, HoldsJob
  <2>2. /\ op'[o].phase = "SUCCEEDED" /\ job'[o].state = "DONE" /\ job[o].state = "LEASED"
        /\ \A q \in Ops \ {o} : op'[q] = op[q]
    BY <1>0, <2>1 DEF TypeOK, Operations, Jobs
  <2>3. Exists(op[o].shadow) \/ \E other \in Ops \ {o} : op[other] = [phase |-> "FAILED", shadow |-> op[o].shadow]
    BY <1>0, <2>1 DEF OneIsOpen, Started
  <2>4. CutsOver(o)
    BY <2>1, <2>2, <2>3 DEF CutsOver
  <2>5. Rank[op[o].phase] < Rank[op'[o].phase]
    BY <2>1, <2>2 DEF Rank
  <2> QED
    BY <1>0, <2>2, <2>4, <2>5 DEF CutoverStep, Progress
<1> QED
  BY <1>1, <1>3, <1>4, <1>5, <1>6
     DEF Handling, Claim, SnapshotFails, ValidateJobLease, AcquireShadow, StepFails, Refused, Return

(* An operation goes one way and its end stands; the active generation changes  *)
(* only for that of a first consumer, or by the cutover of an operation that    *)
(* holds its job.                                                               *)
THEOREM CutoverIsSafe == Spec => CutoverStands
<1>1. Known /\ [Next]_vars => [CutoverStep]_vars
  <2> SUFFICES ASSUME Known, Next PROVE CutoverStep
    OBVIOUS
  <2>1. CASE Outside
    BY <2>1, OutsideStands
  <2>2. ASSUME NEW a \in Actors, RoundStep(a) PROVE CutoverStep
    <3>1. UNCHANGED <<op, active>>
      BY <2>2 DEF RoundStep, NothingNew, ApplyEvents, FindPoison, RecordPoison, LoseRound
    <3> QED
      BY <3>1 DEF CutoverStep, Progress
  <2>3. ASSUME NEW h \in Handlers, Handling(h) PROVE CutoverStep
    BY <2>3, HandlingStands
  <2> QED
    BY <2>1, <2>2, <2>3, Kinds
<1>2. Spec => [][CutoverStep]_vars
  BY <1>1, SpecKnown, PTL DEF Spec
<1> QED
  BY <1>2 DEF CutoverStands, CutoverStep, Progress
================================================================================
