------------------------------- MODULE WorkItem ------------------------------
(***************************************************************************)
(* One work item over its runs (app/runtime, app/work): runs that verify,  *)
(* fail or are cancelled, the blockers they open on the item and who       *)
(* closes them, activations that are blocked and taken up again, the       *)
(* completion sweep, and the cancellation of the item.                     *)
(*                                                                         *)
(* A run is seen as branches that advance side by side, each the chain of  *)
(* the activations of one node; how a branch is routed, joined and         *)
(* executed is in WorkflowGraph and RunEngine.  Each action is one write   *)
(* transaction, or a look at the database before one.                      *)
(***************************************************************************)
EXTENDS Naturals, FiniteSets, FiniteSetsExt

CONSTANTS
  Branches,       \* branches of a run
  MaxRuns,        \* bound: runs of the item
  MaxActivations, \* bound: activations of a node in a run
  MaxEvents       \* bound: activations blocked or left IDLE, local commits asked for,
                  \* runs started after the first

Runs == 1..MaxRuns
Activations == Runs \X Branches \X (1..MaxActivations)

ASSUME ItemAssumption ==
  /\ MaxRuns \in Nat \ {0} /\ MaxActivations \in Nat \ {0} /\ MaxEvents \in Nat
  /\ IsFiniteSet(Branches) /\ Branches # {}

(* What an operator may close, and RetryWorkItem among it; RELEASE_FAILED is  *)
(* of a local commit that an approval of the run asked for.                   *)
RetryResolvable == {"RUN_CANCELLED", "RUN_FAILED", "COMPLETION_POLICY_FAILED"}
RunBlockers == (RetryResolvable \union {"RELEASE_FAILED"}) \X Runs
Blockers == RunBlockers \union ({"ADMISSION", "SCOPE_EXPANSION_REQUIRED"} \X Activations)

VARIABLES
  item,     \* work_items.status
  intent,   \* work_item_cancellation_intents
  run,      \* workflow_runs.state, in the order of their start
  node,     \* node_runs.state; PENDING is one that no job leads to, IDLE one that is
            \* RUNNING while no attempt of it is, UNROUTED one that SUCCEEDED short of
            \* the join in a run being cancelled
  join,     \* node_runs.state of the run's JOIN
  swept,    \* runs whose own run_cancellation_intents row is COMPLETED
  blocker,  \* work_item_blockers.state
  origin,   \* scope_expansion_origins.reconcile_status, by the blocked activation
  commit,   \* the local commit a run asked for
  listed,   \* runs that a completion sweep has listed and may still decide
  looked,   \* activations that an operator looked at and may still retry
  left      \* how many of MaxEvents are still to come

settling == <<join, swept>>
vars == <<item, intent, run, node, blocker, origin, commit, listed, looked, left, settling>>
rows == <<item, intent, run, node, blocker>>
looks == <<listed, looked>>

Init ==
  /\ item = "BACKLOG" /\ intent = "NONE"
  /\ run = [r \in Runs |-> "ABSENT"]
  /\ node = [a \in Activations |-> "ABSENT"]
  /\ blocker = [b \in Blockers |-> "NONE"]
  /\ origin = [a \in Activations |-> "NONE"]
  /\ commit = [r \in Runs |-> "NONE"]
  /\ join = [r \in Runs |-> "ABSENT"] /\ swept = {}
  /\ listed = {} /\ looked = {}
  /\ left = MaxEvents

-----------------------------------------------------------------------------
(* One of the bounded events. *)
Event == left > 0 /\ left' = left - 1

(* A transaction is computed on the rows it will write. *)

World == [item |-> item, intent |-> intent, run |-> run, node |-> node, blocker |-> blocker]

Commit(world) ==
  \E w \in {world} :
    /\ item' = w.item /\ intent' = w.intent /\ run' = w.run
    /\ node' = w.node /\ blocker' = w.blocker

Finished == {"SUCCEEDED", "FAILED", "CANCELLED"}
Outcomes == Finished \union {"UNROUTED"}
Live == {"PENDING", "QUEUED", "RUNNING", "IDLE"}

AllFinished(w) == \A r \in Runs : w.run[r] \in Finished \union {"ABSENT"}
Started(w) == {r \in Runs : w.run[r] # "ABSENT"}
OpenBlockers(w) == {b \in Blockers : w.blocker[b] = "OPEN"}

(* The activations of a branch, and the one that counts. *)
Chain(w, r, b) == {k \in 1..MaxActivations : w.node[<<r, b, k>>] # "ABSENT"}
Latest(w, r, b) == w.node[<<r, b, Max(Chain(w, r, b))>>]

Opened(w, b) ==
  [w EXCEPT !.blocker[b] = "OPEN", !.item = IF @ = "ACTIVE" THEN "BLOCKED" ELSE @]

(* The last blocker to close lets the item go on, unless it is being cancelled. *)
Closed(w, b, status) ==
  LET x == [w EXCEPT !.blocker[b] = "RESOLVED"] IN
    IF OpenBlockers(x) = {} /\ x.intent # "REQUESTED" /\ x.item = "BLOCKED"
      THEN [x EXCEPT !.item = status] ELSE x

(* Mutant: runs of the item are not looked at. *)
ItemReconciledAtOnce(w) ==
  IF w.intent = "REQUESTED" THEN [w EXCEPT !.item = "CANCELLED", !.intent = "COMPLETED"] ELSE w

ItemReconciled(w) ==
  IF w.intent = "REQUESTED" /\ AllFinished(w)
    THEN [w EXCEPT !.item = "CANCELLED", !.intent = "COMPLETED"] ELSE w

(* The end of a run opens a blocker, unless the item itself is cancelled. *)
RunEnded(w, r, state, kind) ==
  LET x == [w EXCEPT !.run[r] = state] IN
    ItemReconciled(IF x.intent = "NONE" THEN Opened(x, <<kind, r>>) ELSE x)

(* The branches' tokens.  A branch that is blocked, or that was not routed to  *)
(* the join any more, keeps its token ACTIVE.                                 *)
Tokens(w, r) ==
  {IF Latest(w, r, b) \in Finished THEN Latest(w, r, b) ELSE "ACTIVE" : b \in Branches}

(* The join, of mode ALL: it is there from the first branch that reaches it on, *)
(* and decided once.                                                          *)
Verdict(tokens) ==
  CASE tokens \intersect {"FAILED", "CANCELLED"} # {} -> "FAILED"
    [] tokens = {"SUCCEEDED"} -> "SUCCEEDED"
    [] tokens = {"ACTIVE"} -> "ABSENT"
    [] OTHER -> "WAITING"
Joined(w, r) == IF join[r] \in {"ABSENT", "WAITING"} THEN Verdict(Tokens(w, r)) ELSE join[r]

(* Mutant: what is blocked holds a cancellation up. *)
ReconciledWithoutBlocked(w, r, j) ==
  LET states == {Latest(w, r, b) : b \in Branches} IN
  CASE w.run[r] = "CANCELLING" /\ states \subseteq Finished /\ j # "WAITING" ->
         RunEnded(w, r, "CANCELLED", "RUN_CANCELLED")
    [] w.run[r] = "RUNNING" /\ states = {"SUCCEEDED"} -> [w EXCEPT !.run[r] = "VERIFYING"]
    [] w.run[r] = "RUNNING" /\ states \subseteq Finished /\ states # {"SUCCEEDED"} ->
         RunEnded(w, r, "FAILED", "RUN_FAILED")
    [] OTHER -> w

(* What the run has become, at the tail of what settled or blocked an activation *)
(* and made j of the join.  A join that waits is live as any node run; with a  *)
(* branch still to settle it only matters to a run being cancelled.            *)
Reconciled(w, r, j) ==
  LET states == {Latest(w, r, b) : b \in Branches} IN
  CASE w.run[r] = "CANCELLING" /\ states \intersect Live = {} /\ j # "WAITING" ->
         RunEnded(w, r, "CANCELLED", "RUN_CANCELLED")
    [] w.run[r] = "RUNNING" /\ states = {"SUCCEEDED"} -> [w EXCEPT !.run[r] = "VERIFYING"]
    [] w.run[r] = "RUNNING" /\ states \subseteq Finished /\ states # {"SUCCEEDED"} ->
         RunEnded(w, r, "FAILED", "RUN_FAILED")
    [] OTHER -> w

(* The next activation of a branch; the bound on activations is here. *)
CanActivate(w, r, b) == Max(Chain(w, r, b)) < MaxActivations
Activated(w, r, b, state) == [w EXCEPT !.node[<<r, b, Max(Chain(w, r, b)) + 1>>] = state]

-----------------------------------------------------------------------------
(* The item and its runs. *)

MarkWorkItemReady ==
  /\ item = "BACKLOG"
  /\ item' = "READY"
  /\ UNCHANGED <<intent, run, node, blocker, origin, commit, listed, looked, left, settling>>

(* A started run is taken as far as the first node of each branch. *)
CanStart(w) == w.item = "READY" /\ w.intent # "REQUESTED" /\ Started(w) # Runs
RunStarted(w) ==
  LET r == Cardinality(Started(w)) + 1 IN
    [w EXCEPT !.item = "ACTIVE", !.run[r] = "RUNNING",
              !.node = [a \in Activations |-> IF a[1] = r /\ a[3] = 1 THEN "QUEUED" ELSE @[a]]]

StartWorkflowRun ==
  /\ CanStart(World)
  /\ Commit(RunStarted(World))
  /\ IF Started(World) = {} THEN UNCHANGED left ELSE Event
  /\ UNCHANGED <<origin, commit, looks, settling>>

(* Closes the blockers its finished runs left and starts another, or does nothing. *)
RetryWorkItem ==
  LET last == Cardinality(Started(World))
      closed == [World EXCEPT
        !.blocker = [b \in Blockers |-> IF @[b] = "OPEN" THEN "RESOLVED" ELSE @[b]],
        !.item = IF @ = "BLOCKED" /\ intent # "REQUESTED" /\ OpenBlockers(World) # {}
                   THEN "READY" ELSE @]
  IN
  /\ item \in {"BLOCKED", "READY"} /\ last > 0
  /\ AllFinished(World) /\ run[last] \in {"FAILED", "CANCELLED"}
  /\ \A b \in OpenBlockers(World) : b[1] \in RetryResolvable
  /\ CanStart(closed)
  /\ Commit(RunStarted(closed))
  /\ Event
  /\ UNCHANGED <<origin, commit, looks, settling>>

(* Mutant: the state of the intent for that of the run. *)
CancelRunRequested(r) ==
  /\ run[r] \in {"RUNNING", "VERIFYING", "BLOCKED"}
  /\ run' = [run EXCEPT ![r] = "REQUESTED"]
  /\ UNCHANGED <<item, intent, node, blocker, origin, commit, listed, looked, left, settling>>

CancelRun(r) ==
  /\ run[r] \in {"RUNNING", "VERIFYING", "BLOCKED"}
  /\ run' = [run EXCEPT ![r] = "CANCELLING"]
  /\ UNCHANGED <<item, intent, node, blocker, origin, commit, listed, looked, left, settling>>

(* One cancellation in the life of an item, also for RecreateWorkItem, which  *)
(* asks that every run is finished and goes on with a sibling.                *)
CancelWorkItem ==
  /\ intent = "NONE" /\ item \notin {"DONE", "CANCELLED"}
  /\ Commit(ItemReconciled([World EXCEPT !.intent = "REQUESTED",
       !.run = [r \in Runs |-> IF @[r] \in Finished \union {"ABSENT"} THEN @[r] ELSE "CANCELLING"]]))
  /\ UNCHANGED <<origin, commit, listed, looked, left, settling>>

(* The coordinator cancels what nobody executes, the join that waits among it, *)
(* and completes the run's intent, once: after another has completed it each   *)
(* delivery fails, and the reaper does not run it again.  A node run that is   *)
(* RUNNING is left alone, whatever has become of its attempts.                 *)
CancelRunCoordinator(r) ==
  LET w == [World EXCEPT !.node = [a \in Activations |->
              IF a[1] = r /\ @[a] \in {"PENDING", "QUEUED"} THEN "CANCELLED" ELSE @[a]]]
      j == IF Joined(w, r) = "WAITING" THEN "CANCELLED" ELSE Joined(w, r)
  IN
  /\ run[r] = "CANCELLING" /\ r \notin swept
  /\ swept' = swept \union {r}
  /\ join' = [join EXCEPT ![r] = j]
  /\ Commit(Reconciled(w, r, j))
  /\ UNCHANGED <<origin, commit, looks, left>>

-----------------------------------------------------------------------------
(* Activations. *)

MayAdmit(a) == node[a] \in {"QUEUED", "IDLE"} /\ run[a[1]] \notin {"CANCELLING", "CANCELLED"}

Admit(a) ==
  /\ MayAdmit(a)
  /\ node' = [node EXCEPT ![a] = "RUNNING"]
  /\ UNCHANGED <<item, intent, run, blocker, origin, commit, listed, looked, left, settling>>

BlockAdmission(a) ==
  /\ Event
  /\ MayAdmit(a) /\ node[a] = "QUEUED"
  /\ Commit(Reconciled(
       Opened([World EXCEPT !.node[a] = "BLOCKED"], <<"ADMISSION", a>>), a[1], join[a[1]]))
  /\ UNCHANGED <<origin, commit, listed, looked, settling>>

(* An attempt is over and its node run stays RUNNING: after a technical retry  *)
(* the next one is QUEUED, after the loss of its worker it may be.             *)
LeaveRunning(a) ==
  /\ Event
  /\ node[a] = "RUNNING"
  /\ node' = [node EXCEPT ![a] = "IDLE"]
  /\ UNCHANGED <<item, intent, run, blocker, origin, commit, looks, settling>>

(* A mutating attempt that sees the cancellation completes the run's intent in *)
(* passing.                                                                   *)
FinalizeExecutionAttempt(a, outcome) ==
  LET r == a[1]
      w == [World EXCEPT !.node[a] = outcome]
      j == Joined(w, r)
  IN
  /\ node[a] = "RUNNING"
  /\ outcome \in {"CANCELLED", "UNROUTED"} => run[r] = "CANCELLING"
  /\ swept' \in {swept, IF outcome = "CANCELLED" THEN swept \union {r} ELSE swept}
  /\ join' = [join EXCEPT ![r] = j]
  /\ Commit(Reconciled(w, r, j))
  /\ UNCHANGED <<origin, commit, looks, left>>

(* The report of an attempt that needs more scope; it does not look at the run. *)
RequestScopeExpansion(a) ==
  /\ Event
  /\ node[a] = "RUNNING"
  /\ origin' = [origin EXCEPT ![a] = "PENDING"]
  /\ Commit(Reconciled(
       Opened([World EXCEPT !.node[a] = "BLOCKED"], <<"SCOPE_EXPANSION_REQUIRED", a>>), a[1], join[a[1]]))
  /\ UNCHANGED <<commit, listed, looked, settling>>

(* The request was rejected, its run is no longer RUNNING, or the worktrees it *)
(* needs cannot be had; REJECTED stands for NEEDS_RECOVERY too.               *)
CloseScopeExpansion(a) ==
  /\ origin[a] = "PENDING"
  /\ origin' = [origin EXCEPT ![a] = "REJECTED"]
  /\ UNCHANGED <<rows, commit, looks, left, settling>>

ReactivateBlockedNodeRun(a) ==
  /\ origin[a] = "PENDING" /\ run[a[1]] = "RUNNING" /\ node[a] = "BLOCKED"
  /\ CanActivate(World, a[1], a[2])
  /\ origin' = [origin EXCEPT ![a] = "REACTIVATED"]
  /\ LET w == Activated(World, a[1], a[2], "QUEUED")
         b == <<"SCOPE_EXPANSION_REQUIRED", a>>
     IN Commit(IF blocker[b] = "OPEN" THEN Closed(w, b, "ACTIVE") ELSE w)
  /\ UNCHANGED <<commit, looks, left, settling>>

(* Mutant: the run is not asked for. *)
RetryableInAnyRun(a) == node[a] = "BLOCKED" /\ blocker[<<"ADMISSION", a>>] = "OPEN"

(* What an operator's retry asks of the blocked activation, twice. *)
Retryable(a) ==
  node[a] = "BLOCKED" /\ blocker[<<"ADMISSION", a>>] = "OPEN" /\ run[a[1]] = "RUNNING"

LoadForRetry(a) ==
  /\ Retryable(a)
  /\ looked' = looked \union {a}
  /\ UNCHANGED <<rows, origin, commit, listed, left, settling>>

RetryBlockedActivation(a) ==
  /\ a \in looked /\ Retryable(a)
  /\ CanActivate(World, a[1], a[2])
  /\ Commit(Closed(Activated(World, a[1], a[2], "QUEUED"), <<"ADMISSION", a>>, "ACTIVE"))
  /\ UNCHANGED <<origin, commit, looks, left, settling>>

ResolveWorkItemBlocker(b) ==
  /\ blocker[b] = "OPEN" /\ b[1] # "SCOPE_EXPANSION_REQUIRED"
  /\ AllFinished(World)
  /\ Commit(Closed(World, b, "READY"))
  /\ UNCHANGED <<origin, commit, looks, left, settling>>

-----------------------------------------------------------------------------
(* The local commit of an approval, which is carried out on its own. *)

RequestApprovalCommit(r) ==
  /\ Event
  /\ run[r] = "RUNNING" /\ commit[r] = "NONE"
  /\ commit' = [commit EXCEPT ![r] = "REQUESTED"]
  /\ UNCHANGED <<rows, origin, looks, settling>>

LocalCommitFails(r) ==
  /\ commit[r] = "REQUESTED"
  /\ commit' = [commit EXCEPT ![r] = "FAILED"]
  /\ Commit(IF intent = "NONE" THEN Opened(World, <<"RELEASE_FAILED", r>>) ELSE World)
  /\ UNCHANGED <<origin, looks, left, settling>>

-----------------------------------------------------------------------------
(* Completion.  A run is VERIFYING in one version of its row only: after a   *)
(* REWORK it does not come back, as no job leads to the new activation.  So  *)
(* what was listed is compared by its state.                                 *)

Sweep(r) ==
  /\ run[r] = "VERIFYING" /\ item = "ACTIVE"
  /\ listed' = listed \union {r}
  /\ UNCHANGED <<rows, origin, commit, looked, left, settling>>

(* Mutant: what the sweep listed is not compared with the row. *)
MayDecideListed(r) == r \in listed

MayDecide(r) == r \in listed /\ run[r] = "VERIFYING"
SiblingUnderWay(r) == \E s \in Runs \ {r} : run[s] \in {"RUNNING", "VERIFYING", "CANCELLING"}

Pass(r) ==
  /\ MayDecide(r) /\ item = "ACTIVE" /\ ~SiblingUnderWay(r)
  /\ run' = [run EXCEPT ![r] = "SUCCEEDED"] /\ item' = "DONE"
  /\ UNCHANGED <<intent, node, blocker, origin, commit, listed, looked, left, settling>>

(* BLOCKED with no blocker: only a cancellation leads out of it. *)
Block(r) ==
  /\ MayDecide(r) /\ item = "ACTIVE"
  /\ run' = [run EXCEPT ![r] = "BLOCKED"] /\ item' = "BLOCKED"
  /\ UNCHANGED <<intent, node, blocker, origin, commit, listed, looked, left, settling>>

Fail(r) ==
  /\ MayDecide(r) /\ item = "ACTIVE" /\ ~SiblingUnderWay(r)
  /\ Commit(Opened([World EXCEPT !.run[r] = "FAILED"], <<"COMPLETION_POLICY_FAILED", r>>))
  /\ UNCHANGED <<origin, commit, looks, left, settling>>

(* Does not look at the item. *)
Rework(r) ==
  /\ MayDecide(r) /\ ~SiblingUnderWay(r)
  /\ \E b \in Branches :
       /\ CanActivate(World, r, b)
       /\ Commit(Activated([World EXCEPT !.run[r] = "RUNNING"], r, b, "PENDING"))
  /\ UNCHANGED <<origin, commit, looks, left, settling>>

Evaluate(r) == Pass(r) \/ Block(r) \/ Fail(r) \/ Rework(r)

-----------------------------------------------------------------------------
Next ==
  \/ MarkWorkItemReady \/ StartWorkflowRun \/ RetryWorkItem \/ CancelWorkItem
  \/ \E r \in Runs :
       \/ CancelRun(r) \/ CancelRunCoordinator(r)
       \/ RequestApprovalCommit(r) \/ LocalCommitFails(r)
       \/ Sweep(r) \/ Evaluate(r)
  \/ \E a \in Activations :
       \/ Admit(a) \/ LeaveRunning(a) \/ BlockAdmission(a) \/ RequestScopeExpansion(a)
       \/ \E outcome \in Outcomes : FinalizeExecutionAttempt(a, outcome)
       \/ CloseScopeExpansion(a) \/ ReactivateBlockedNodeRun(a)
       \/ LoadForRetry(a) \/ RetryBlockedActivation(a)
  \/ \E b \in Blockers : ResolveWorkItemBlocker(b)

Spec == Init /\ [][Next]_vars

(* What the program does by itself: the coordinator's job is delivered, the    *)
(* sweep beats and decides, an execution ends.  Nobody has to answer, to      *)
(* retry or to cancel.  That these steps do not all stop is enough.           *)
Program ==
  \/ \E r \in Runs : CancelRunCoordinator(r) \/ Sweep(r) \/ Evaluate(r)
  \/ \E a \in Activations :
       RequestScopeExpansion(a) \/ \E outcome \in Outcomes : FinalizeExecutionAttempt(a, outcome)

Fairness == WF_vars(Program)

FairSpec == Spec /\ Fairness

-----------------------------------------------------------------------------
(* Properties. *)

TypeOK ==
  /\ item \in {"BACKLOG", "READY", "ACTIVE", "BLOCKED", "DONE", "CANCELLED"}
  /\ intent \in {"NONE", "REQUESTED", "COMPLETED"}
  /\ run \in [Runs -> {"ABSENT", "RUNNING", "VERIFYING", "BLOCKED", "CANCELLING"} \union Finished]
  /\ node \in [Activations -> {"ABSENT", "BLOCKED"} \union Live \union Outcomes]
  /\ blocker \in [Blockers -> {"NONE", "OPEN", "RESOLVED"}]
  /\ origin \in [Activations -> {"NONE", "PENDING", "REACTIVATED", "REJECTED"}]
  /\ commit \in [Runs -> {"NONE", "REQUESTED", "FAILED"}]
  /\ join \in [Runs -> {"ABSENT", "WAITING"} \union Finished]
  /\ swept \subseteq Runs
  /\ listed \subseteq Runs
  /\ looked \subseteq Activations
  /\ left \in 0..MaxEvents

UnderWay == {r \in Runs : run[r] \notin Finished \union {"ABSENT"}}

(* The item's status tells what its runs are doing, whichever of runs, sweep, *)
(* operators and local commits came last: at most one run is unfinished; an   *)
(* ACTIVE item has one that goes on, or is being cancelled; an item that is   *)
(* READY or over has none, and is DONE by the run that succeeded; a BLOCKED   *)
(* item has an open blocker, or a run that completion blocked or that is      *)
(* being cancelled.                                                           *)
StatusTellsTheRuns ==
  /\ Cardinality(UnderWay) <= 1
  /\ item = "ACTIVE" => \E r \in UnderWay : run[r] # "BLOCKED"
  /\ item \in {"BACKLOG", "READY", "DONE", "CANCELLED"} => UnderWay = {}
  /\ item = "DONE" <=> \E r \in Runs : run[r] = "SUCCEEDED"
  /\ item = "BLOCKED" =>
       \/ OpenBlockers(World) # {}
       \/ \E r \in UnderWay : run[r] \in {"BLOCKED", "CANCELLING"}

(* The activations tell what became of the blockers that hold them up: while  *)
(* its run goes on, what is blocked last in a branch has its one blocker OPEN *)
(* for somebody to close, and a blocked activation was taken up again if and  *)
(* only if its blocker was closed, by its report's reconciler or by one of    *)
(* the operators who looked at it.  A run that is over or verifies has        *)
(* nothing left to execute, whatever was taken up as it ended.                *)
HeldUp(a) == {b \in {"ADMISSION", "SCOPE_EXPANSION_REQUIRED"} \X {a} : blocker[b] # "NONE"}
TakenUp(a) == a[3] < MaxActivations /\ node[<<a[1], a[2], a[3] + 1>>] # "ABSENT"

BlockedWorkIsTakenUpOnce ==
  /\ \A a \in Activations : node[a] = "BLOCKED" =>
       /\ Cardinality(HeldUp(a)) = 1
       /\ TakenUp(a) => \A b \in HeldUp(a) : blocker[b] = "RESOLVED"
       /\ run[a[1]] = "RUNNING" /\ ~TakenUp(a) => \A b \in HeldUp(a) : blocker[b] = "OPEN"
  /\ \A a \in Activations : origin[a] = "REACTIVATED" => TakenUp(a)
  /\ \A a \in Activations :
       run[a[1]] \in Finished \union {"VERIFYING", "BLOCKED"} => node[a] \notin Live

(* What has ended stays so, and a cancellation is not overtaken: no sweep that *)
(* listed a run earlier, no retry and no closed blocker brings a finished run  *)
(* or item back; a run being cancelled becomes CANCELLED; from the request to  *)
(* cancel the item on no run of it starts, none succeeds, and the item can     *)
(* only be blocked by a late report before it is CANCELLED.                    *)
Starts == \E r \in Runs : run[r] = "ABSENT" /\ run'[r] # "ABSENT"
Succeeds == \E r \in Runs : run[r] # "SUCCEEDED" /\ run'[r] = "SUCCEEDED"

EndsStand ==
  /\ item \in {"DONE", "CANCELLED"} => item' = item
  /\ \A r \in Runs :
       /\ run[r] \in Finished => run'[r] = run[r]
       /\ run[r] = "CANCELLING" => run'[r] \in {"CANCELLING", "CANCELLED"}
  /\ intent # "NONE" =>
       /\ ~Starts /\ ~Succeeds
       /\ item' # item => item' = "CANCELLED" \/ (item = "ACTIVE" /\ item' = "BLOCKED")

CancellationStands == [][EndsStand]_vars

(* How a cancelled run may stay CANCELLING: a node run is RUNNING and nothing   *)
(* executes it, which the sweep takes for work; the sweep does not come, as a   *)
(* mutating attempt completed the intent; or a branch reached the join after    *)
(* the sweep, and it waits for one that is blocked or was not routed to it.     *)
Stranded(r) ==
  /\ run[r] = "CANCELLING"
  /\ \/ \E a \in Activations : a[1] = r /\ node[a] = "IDLE"
     \/ r \in swept /\ \E a \in Activations : a[1] = r /\ node[a] \in {"PENDING", "QUEUED"}
     \/ /\ r \in swept /\ join[r] = "WAITING"
        /\ \E b \in Branches : Latest(World, r, b) \in {"BLOCKED", "UNROUTED"}

(* A run that verifies is decided, unless a failed local commit, of this run   *)
(* or an earlier one, blocks the item: the sweep lists runs of ACTIVE items    *)
(* only, and the blocker cannot be closed while the run is unfinished.  A      *)
(* request to cancel the item is carried through, whatever is blocked, unless  *)
(* a run of it is stranded.                                                    *)
Verifying == \E r \in Runs : run[r] = "VERIFYING"
HeldByRelease == item = "BLOCKED" /\ \E s \in Runs : blocker[<<"RELEASE_FAILED", s>>] = "OPEN"

ItemSettles ==
  /\ Verifying ~> (~Verifying \/ HeldByRelease)
  /\ intent = "REQUESTED" ~> (item = "CANCELLED" \/ \E r \in Runs : Stranded(r))
=============================================================================
