--------------------------- MODULE WorkItem_proofs ---------------------------
(***************************************************************************)
(* Theorems about WorkItem, for any number of runs, branches, activations  *)
(* and events: its type invariant; that what has ended stays so and a      *)
(* cancellation is not overtaken; that the item's status tells what its    *)
(* runs are doing; and that blocked work is taken up once, when its        *)
(* blocker is closed.                                                      *)
(*                                                                         *)
(* A transaction is a chain of operators on a world.  Each of them keeps a *)
(* consistent world consistent and follows from the world it is given; the *)
(* actions then only have to be taken apart into their operators.          *)
(***************************************************************************)
EXTENDS WorkItem, FiniteSetTheorems, TLAPS

Statuses == {"BACKLOG", "READY", "ACTIVE", "BLOCKED", "DONE", "CANCELLED"}
Intents == {"NONE", "REQUESTED", "COMPLETED"}
RunStates == {"ABSENT", "RUNNING", "VERIFYING", "BLOCKED", "CANCELLING"} \union Finished
NodeStates == {"ABSENT", "BLOCKED"} \union Live \union Outcomes
BlockerStates == {"NONE", "OPEN", "RESOLVED"}
JoinStates == {"ABSENT", "WAITING"} \union Finished

Worlds == [item : Statuses, intent : Intents, run : [Runs -> RunStates],
           node : [Activations -> NodeStates], blocker : [Blockers -> BlockerStates]]

(* Runs are started one after the other; from the request to cancel the item   *)
(* on they are finished or being cancelled; the request ends with the item     *)
(* CANCELLED, and is never pending for one that is DONE, or in the BACKLOG and *)
(* so without runs.                                                            *)
InOrder(w) == \E n \in 0..MaxRuns : Started(w) = 1..n
Consistent(w) ==
  /\ w \in Worlds
  /\ InOrder(w)
  /\ w.intent # "NONE" => \A r \in Runs : w.run[r] \in {"ABSENT", "CANCELLING"} \union Finished
  /\ w.intent = "COMPLETED" <=> w.item = "CANCELLED"
  /\ w.item = "DONE" => w.intent = "NONE"
  /\ w.item = "BACKLOG" => w.intent = "NONE" /\ \A r \in Runs : w.run[r] = "ABSENT"

(* What EndsStand says of a step, of a world and one that is made of it. *)
Follows(v, w) ==
  /\ v.item \in {"DONE", "CANCELLED"} => w.item = v.item
  /\ v.intent # "NONE" =>
       /\ w.intent # "NONE"
       /\ w.item # v.item => w.item = "CANCELLED" \/ (v.item = "ACTIVE" /\ w.item = "BLOCKED")
  /\ \A r \in Runs :
       /\ v.run[r] \in Finished => w.run[r] = v.run[r]
       /\ v.run[r] = "CANCELLING" => w.run[r] \in {"CANCELLING", "CANCELLED"}
       /\ v.intent # "NONE" =>
            /\ v.run[r] = "ABSENT" => w.run[r] = "ABSENT"
            /\ v.run[r] # "SUCCEEDED" => w.run[r] # "SUCCEEDED"

Rest ==
  /\ origin \in [Activations -> {"NONE", "PENDING", "REACTIVATED", "REJECTED"}]
  /\ commit \in [Runs -> {"NONE", "REQUESTED", "FAILED"}]
  /\ join \in [Runs -> JoinStates]
  /\ swept \subseteq Runs
  /\ listed \subseteq Runs
  /\ looked \subseteq Activations
  /\ left \in 0..MaxEvents

Inv == Consistent(World) /\ Rest

------------------------------------------------------------------------------
(* The invariant contains the type invariant. *)
LEMMA InvTyped == Inv => TypeOK
BY DEF Inv, Consistent, World, Worlds, Rest, TypeOK, Statuses, Intents, RunStates,
       NodeStates, BlockerStates, JoinStates

(* Following is transitive. *)
LEMMA FollowsOn ==
  ASSUME NEW u, NEW v, NEW w, Follows(u, v), Follows(v, w)
  PROVE  Follows(u, w)
BY DEF Follows, Finished

(* Whether runs are in order depends on which of them are absent only. *)
LEMMA SameOrder ==
  ASSUME NEW v, NEW w, InOrder(v),
         \A r \in Runs : v.run[r] = "ABSENT" <=> w.run[r] = "ABSENT"
  PROVE  InOrder(w)
<1>1. Started(v) = Started(w)
  BY DEF Started
<1> QED
  BY <1>1 DEF InOrder

------------------------------------------------------------------------------
(* A world that differs in its activations only. *)
LEMMA NodesChange ==
  ASSUME NEW w, Consistent(w), NEW f \in [Activations -> NodeStates]
  PROVE  /\ Consistent([w EXCEPT !.node = f])
         /\ Follows(w, [w EXCEPT !.node = f])
<1> DEFINE x == [w EXCEPT !.node = f]
<1>1. /\ x \in Worlds /\ x.item = w.item /\ x.intent = w.intent
      /\ x.run = w.run /\ x.node = f /\ x.blocker = w.blocker
  BY DEF Consistent, Worlds
<1> HIDE DEF x
<1>2. InOrder(x)
  BY <1>1, SameOrder DEF Consistent
<1>3. Consistent(x)
  BY <1>1, <1>2 DEF Consistent
<1>4. Follows(w, x)
  BY <1>1 DEF Follows, Finished
<1> QED
  BY <1>3, <1>4 DEF x

(* One activation changes. *)
LEMMA NodeChanges ==
  ASSUME NEW w, Consistent(w), NEW a, NEW s \in NodeStates
  PROVE  /\ Consistent([w EXCEPT !.node[a] = s])
         /\ Follows(w, [w EXCEPT !.node[a] = s])
<1>1. w.node \in [Activations -> NodeStates]
  BY DEF Consistent, Worlds
<1>2. [w.node EXCEPT ![a] = s] \in [Activations -> NodeStates]
  BY <1>1
<1>3. [w EXCEPT !.node[a] = s] = [w EXCEPT !.node = [w.node EXCEPT ![a] = s]]
  OBVIOUS
<1> QED
  BY <1>2, <1>3, NodesChange

(* Opening a blocker may block an ACTIVE item, and changes no run. *)
LEMMA OpenedKeeps ==
  ASSUME NEW w, Consistent(w), NEW b
  PROVE  /\ Consistent(Opened(w, b)) /\ Follows(w, Opened(w, b))
         /\ Opened(w, b).run = w.run /\ Opened(w, b).intent = w.intent
<1> DEFINE x == Opened(w, b)
<1>0. w \in Worlds
  BY DEF Consistent
<1>1. [w.blocker EXCEPT ![b] = "OPEN"] \in [Blockers -> BlockerStates]
  BY <1>0 DEF Worlds, BlockerStates
<1>2. x = [w EXCEPT !.blocker = [w.blocker EXCEPT ![b] = "OPEN"],
                    !.item = IF w.item = "ACTIVE" THEN "BLOCKED" ELSE w.item]
  BY <1>0 DEF Opened, Worlds
<1>3. /\ x \in Worlds /\ x.intent = w.intent /\ x.run = w.run
      /\ x.item = IF w.item = "ACTIVE" THEN "BLOCKED" ELSE w.item
  BY <1>0, <1>1, <1>2 DEF Worlds, Statuses
<1> HIDE DEF x
<1>4. InOrder(x)
  BY <1>3, SameOrder DEF Consistent
<1>5. Consistent(x)
  BY <1>3, <1>4 DEF Consistent
<1>6. Follows(w, x)
  BY <1>3 DEF Follows, Finished
<1> QED
  BY <1>3, <1>5, <1>6 DEF x

(* Closing one lets a BLOCKED item go on, unless it is being cancelled. *)
LEMMA ClosedKeeps ==
  ASSUME NEW w, Consistent(w), NEW b, NEW status \in {"ACTIVE", "READY"}
  PROVE  Consistent(Closed(w, b, status)) /\ Follows(w, Closed(w, b, status))
<1> DEFINE x == [w EXCEPT !.blocker[b] = "RESOLVED"]
<1>0. w \in Worlds
  BY DEF Consistent
<1>1. [w.blocker EXCEPT ![b] = "RESOLVED"] \in [Blockers -> BlockerStates]
  BY <1>0 DEF Worlds, BlockerStates
<1>2. x = [w EXCEPT !.blocker = [w.blocker EXCEPT ![b] = "RESOLVED"]]
  OBVIOUS
<1>3. x \in Worlds /\ x.intent = w.intent /\ x.run = w.run /\ x.item = w.item
  BY <1>0, <1>1, <1>2 DEF Worlds
<1>4. Closed(w, b, status) =
        IF OpenBlockers(x) = {} /\ x.intent # "REQUESTED" /\ x.item = "BLOCKED"
          THEN [x EXCEPT !.item = status] ELSE x
  BY DEF Closed
<1> HIDE DEF x
<1>5. InOrder(x) /\ Consistent(x) /\ Follows(w, x)
  BY <1>3, SameOrder DEF Consistent, Follows, Finished
<1> DEFINE y == [x EXCEPT !.item = status]
<1>6. y \in Worlds /\ y.intent = x.intent /\ y.run = x.run /\ y.item = status
  BY <1>3 DEF Worlds, Statuses
<1> HIDE DEF y
<1>7. ASSUME x.intent # "REQUESTED", x.item = "BLOCKED"
      PROVE  Consistent(y) /\ Follows(w, y)
  <2>1. x.intent = "NONE"
    BY <1>5, <1>7, <1>3 DEF Consistent, Worlds, Intents
  <2>2. InOrder(y)
    BY <1>5, <1>6, SameOrder
  <2>3. Consistent(y)
    BY <1>6, <2>1, <2>2 DEF Consistent
  <2>4. Follows(w, y)
    BY <1>3, <1>6, <1>7, <2>1 DEF Follows, Finished
  <2> QED
    BY <2>3, <2>4
<1> QED
  BY <1>4, <1>5, <1>7 DEF y

(* The item is CANCELLED with its last run, if that was asked for. *)
LEMMA ItemReconciledKeeps ==
  ASSUME NEW w, Consistent(w)
  PROVE  Consistent(ItemReconciled(w)) /\ Follows(w, ItemReconciled(w))
<1> DEFINE x == [w EXCEPT !.item = "CANCELLED", !.intent = "COMPLETED"]
<1>1. /\ x \in Worlds /\ x.run = w.run
      /\ x.item = "CANCELLED" /\ x.intent = "COMPLETED"
  BY DEF Consistent, Worlds, Statuses, Intents
<1>2. ItemReconciled(w) = IF w.intent = "REQUESTED" /\ AllFinished(w) THEN x ELSE w
  BY DEF ItemReconciled
<1> HIDE DEF x
<1>3. Follows(w, w)
  BY DEF Follows, Finished
<1>4. ASSUME w.intent = "REQUESTED"
      PROVE  Consistent(x) /\ Follows(w, x)
  <2>1. InOrder(x)
    BY <1>1, SameOrder DEF Consistent
  <2>2. Consistent(x)
    BY <1>1, <1>4, <2>1 DEF Consistent
  <2>3. w.item # "DONE" /\ w.item # "CANCELLED"
    BY <1>4 DEF Consistent
  <2>4. Follows(w, x)
    BY <1>1, <2>3 DEF Follows, Finished
  <2> QED
    BY <2>2, <2>4
<1> QED
  BY <1>2, <1>3, <1>4

(* One run changes its state, as its row allows. *)
LEMMA RunChanges ==
  ASSUME NEW w, Consistent(w), NEW r \in Runs, NEW s \in RunStates,
         w.run[r] # "ABSENT", s # "ABSENT", w.run[r] \notin Finished,
         w.run[r] = "CANCELLING" => s = "CANCELLED",
         w.intent # "NONE" => s # "SUCCEEDED" /\ s \in {"CANCELLING"} \union Finished
  PROVE  LET x == [w EXCEPT !.run[r] = s] IN
           /\ Consistent(x) /\ Follows(w, x)
           /\ x.intent = w.intent /\ x.item = w.item
           /\ x.run = [w.run EXCEPT ![r] = s]
           /\ x.node = w.node /\ x.blocker = w.blocker
<1> DEFINE x == [w EXCEPT !.run[r] = s]
<1>1. /\ x \in Worlds /\ x.item = w.item /\ x.intent = w.intent
      /\ x.run = [w.run EXCEPT ![r] = s]
      /\ x.node = w.node /\ x.blocker = w.blocker
  BY DEF Consistent, Worlds
<1> HIDE DEF x
<1>2. w.run \in [Runs -> RunStates]
  BY DEF Consistent, Worlds
<1>3. \A t \in Runs : x.run[t] = IF t = r THEN s ELSE w.run[t]
  BY <1>1, <1>2
<1>4. InOrder(x)
  BY <1>3, SameOrder DEF Consistent
<1>5. Consistent(x)
  BY <1>1, <1>3, <1>4 DEF Consistent
<1>6. Follows(w, x)
  BY <1>1, <1>3 DEF Follows
<1> QED
  BY <1>1, <1>5, <1>6 DEF x

(* The end of a run. *)
LEMMA RunEndedKeeps ==
  ASSUME NEW w, Consistent(w), NEW r \in Runs, NEW s \in {"FAILED", "CANCELLED"}, NEW kind,
         w.run[r] # "ABSENT", w.run[r] \notin Finished,
         w.run[r] = "CANCELLING" => s = "CANCELLED"
  PROVE  Consistent(RunEnded(w, r, s, kind)) /\ Follows(w, RunEnded(w, r, s, kind))
<1> DEFINE x == [w EXCEPT !.run[r] = s]
           y == IF x.intent = "NONE" THEN Opened(x, <<kind, r>>) ELSE x
<1>1. RunEnded(w, r, s, kind) = ItemReconciled(y)
  BY DEF RunEnded
<1>2. Consistent(x) /\ Follows(w, x)
  BY RunChanges DEF RunStates, Finished
<1> HIDE DEF x
<1>3. Consistent(y) /\ Follows(w, y)
  BY <1>2, OpenedKeeps, FollowsOn
<1> HIDE DEF y
<1>4. Consistent(ItemReconciled(y)) /\ Follows(y, ItemReconciled(y))
  BY <1>3, ItemReconciledKeeps
<1> QED
  BY <1>1, <1>3, <1>4, FollowsOn

(* What a run becomes at the tail of what settled an activation. *)
LEMMA ReconciledKeeps ==
  ASSUME NEW w, Consistent(w), NEW r \in Runs, NEW j
  PROVE  Consistent(Reconciled(w, r, j)) /\ Follows(w, Reconciled(w, r, j))
<1> DEFINE cancelled == RunEnded(w, r, "CANCELLED", "RUN_CANCELLED")
           failed == RunEnded(w, r, "FAILED", "RUN_FAILED")
           verifying == [w EXCEPT !.run[r] = "VERIFYING"]
<1>1. \/ w.run[r] = "CANCELLING" /\ Reconciled(w, r, j) = cancelled
      \/ w.run[r] = "RUNNING" /\ Reconciled(w, r, j) \in {verifying, failed}
      \/ Reconciled(w, r, j) = w
  BY DEF Reconciled
<1>2. Follows(w, w)
  BY DEF Follows, Finished
<1>3. w.run[r] = "CANCELLING" => Consistent(cancelled) /\ Follows(w, cancelled)
  BY RunEndedKeeps DEF Finished
<1>4. w.run[r] = "RUNNING" => Consistent(failed) /\ Follows(w, failed)
  BY RunEndedKeeps DEF Finished
<1>5. w.run[r] = "RUNNING" => Consistent(verifying) /\ Follows(w, verifying)
  <2> SUFFICES ASSUME w.run[r] = "RUNNING" PROVE Consistent(verifying) /\ Follows(w, verifying)
    OBVIOUS
  <2>1. w.intent = "NONE"
    BY DEF Consistent, Finished
  <2> QED
    BY <2>1, RunChanges DEF RunStates, Finished
<1> QED
  BY <1>1, <1>2, <1>3, <1>4, <1>5

------------------------------------------------------------------------------
(* A transaction that commits a consistent world that follows. *)
LEMMA Committed ==
  ASSUME Inv, Rest', NEW w, Consistent(w), Follows(World, w), Commit(w)
  PROVE  Inv' /\ EndsStand
<1>1. /\ item' = w.item /\ intent' = w.intent /\ run' = w.run
      /\ node' = w.node /\ blocker' = w.blocker
  BY DEF Commit
<1>2. w = [item |-> w.item, intent |-> w.intent, run |-> w.run, node |-> w.node, blocker |-> w.blocker]
  BY DEF Consistent, Worlds
<1>3. World' = w
  BY <1>1, <1>2 DEF World
<1>4. Consistent(World)'
  BY <1>3 DEF Consistent, InOrder, Started
<1>5. /\ World.item = item /\ World.intent = intent /\ World.run = run
  BY DEF World
<1>6. EndsStand
  BY <1>1, <1>5 DEF Follows, EndsStand, Starts, Succeeds
<1> QED
  BY <1>4, <1>6 DEF Inv

(* The rows are untouched. *)
LEMMA Untouched ==
  ASSUME Inv, Rest', UNCHANGED rows
  PROVE  Inv' /\ EndsStand
<1>1. World' = World
  BY DEF rows, World
<1>2. Consistent(World)'
  BY <1>1 DEF Inv, Consistent, InOrder, Started
<1>3. EndsStand
  BY DEF rows, EndsStand, Starts, Succeeds, Finished
<1> QED
  BY <1>2, <1>3 DEF Inv

LEMMA Initially == Init => Inv
<1> SUFFICES ASSUME Init PROVE Inv
  OBVIOUS
<1>1. World \in Worlds
  BY DEF Init, World, Worlds, Statuses, Intents, RunStates, NodeStates, BlockerStates
<1>2. Started(World) = 1..0 /\ 0 \in 0..MaxRuns
  BY ItemAssumption DEF Init, World, Started
<1>3. Consistent(World)
  BY <1>1, <1>2 DEF Consistent, InOrder, Init, World
<1>4. Rest
  BY ItemAssumption DEF Init, Rest, JoinStates
<1> QED
  BY <1>3, <1>4 DEF Inv

(* The next run is an absent one, as long as the item is not being cancelled. *)
LEMMA RunStartedKeeps ==
  ASSUME NEW w, Consistent(w), CanStart(w)
  PROVE  Consistent(RunStarted(w)) /\ Follows(w, RunStarted(w))
<1> DEFINE r == Cardinality(Started(w)) + 1
           f == [a \in Activations |-> IF a[1] = r /\ a[3] = 1 THEN "QUEUED" ELSE w.node[a]]
           x == [w EXCEPT !.item = "ACTIVE", !.run = [w.run EXCEPT ![r] = "RUNNING"], !.node = f]
<1>0. /\ w \in Worlds /\ w.item = "READY" /\ w.intent = "NONE"
  BY DEF Consistent, CanStart, Worlds, Intents
<1>1. PICK n \in 0..MaxRuns : Started(w) = 1..n
  BY DEF Consistent, InOrder
<1>2. Cardinality(1..n) = n
  BY ItemAssumption, FS_Interval
<1>3. n # MaxRuns
  BY <1>1 DEF CanStart, Runs
<1>4. r = n + 1 /\ r \in Runs /\ w.run[r] = "ABSENT"
  <2>1. r = n + 1
    BY <1>1, <1>2
  <2>2. n + 1 \in Runs /\ n + 1 \notin 1..n
    BY <1>3, ItemAssumption DEF Runs
  <2> QED
    BY <2>1, <2>2, <1>1 DEF Started
<1>5. f \in [Activations -> NodeStates]
  BY <1>0 DEF Worlds, NodeStates, Live
<1>6. RunStarted(w) = x
  BY <1>0 DEF RunStarted, Worlds
<1> HIDE DEF f, r
<1>7. [w.run EXCEPT ![r] = "RUNNING"] \in [Runs -> RunStates]
  BY <1>0 DEF Worlds, RunStates
<1>8. /\ x \in Worlds /\ x.item = "ACTIVE" /\ x.intent = "NONE"
      /\ x.run = [w.run EXCEPT ![r] = "RUNNING"]
  BY <1>0, <1>5, <1>7 DEF Worlds, Statuses
<1> HIDE DEF x
<1>9. \A t \in Runs : x.run[t] = IF t = r THEN "RUNNING" ELSE w.run[t]
  BY <1>0, <1>8 DEF Worlds
<1>10. Started(x) = 1..(n + 1)
  <2>1. Started(x) = Started(w) \union {r}
    BY <1>4, <1>9 DEF Started
  <2>2. (1..n) \union {n + 1} = 1..(n + 1)
    BY ItemAssumption
  <2> QED
    BY <2>1, <2>2, <1>1, <1>4
<1>11. n + 1 \in 0..MaxRuns
  BY <1>4, ItemAssumption DEF Runs
<1>12. Consistent(x)
  BY <1>8, <1>10, <1>11 DEF Consistent, InOrder
<1>13. Follows(w, x)
  BY <1>0, <1>4, <1>8, <1>9 DEF Follows, Finished
<1> QED
  BY <1>6, <1>12, <1>13

------------------------------------------------------------------------------
(* One lemma per action, or per group of actions that change the same rows. *)

LEMMA ReadyStep == Inv /\ MarkWorkItemReady => Inv' /\ EndsStand
<1> SUFFICES ASSUME Inv, MarkWorkItemReady PROVE Inv' /\ EndsStand
  OBVIOUS
<1> DEFINE w == [World EXCEPT !.item = "READY"]
<1>1. Rest'
  BY DEF Inv, Rest, settling, MarkWorkItemReady
<1>2. w = [item |-> "READY", intent |-> intent, run |-> run, node |-> node, blocker |-> blocker]
  BY DEF World
<1>3. Commit(w)
  BY <1>2 DEF Commit, MarkWorkItemReady
<1>4. w \in Worlds
  BY <1>2 DEF Inv, Consistent, World, Worlds, Statuses
<1>5. intent = "NONE" /\ item = "BACKLOG" /\ \A r \in Runs : run[r] = "ABSENT"
  BY DEF Inv, Consistent, World, MarkWorkItemReady
<1>6. InOrder(w)
  BY <1>2, SameOrder DEF Inv, Consistent, World
<1>7. Consistent(w)
  BY <1>2, <1>4, <1>5, <1>6 DEF Consistent
<1>8. Follows(World, w)
  BY <1>2, <1>5 DEF Follows, World, Finished
<1> HIDE DEF w
<1> QED
  BY <1>1, <1>3, <1>7, <1>8, Committed

LEMMA EventCounts ==
  ASSUME Inv, Event
  PROVE  left' \in 0..MaxEvents
BY ItemAssumption DEF Inv, Rest, Event

LEMMA StartStep == Inv /\ StartWorkflowRun => Inv' /\ EndsStand
<1> SUFFICES ASSUME Inv, StartWorkflowRun PROVE Inv' /\ EndsStand
  OBVIOUS
<1>1. Rest'
  BY EventCounts DEF Inv, Rest, settling, looks, StartWorkflowRun
<1>2. CanStart(World) /\ Commit(RunStarted(World))
  BY DEF StartWorkflowRun
<1> QED
  BY <1>1, <1>2, RunStartedKeeps, Committed DEF Inv

(* A retry starts the next run on the item with its finished runs' blockers     *)
(* closed.                                                                     *)
LEMMA RetryCloses ==
  ASSUME Inv, RetryWorkItem
  PROVE  \E w : /\ Consistent(w) /\ Follows(World, w) /\ CanStart(w) /\ Commit(RunStarted(w))
                /\ w.run = run /\ w.node = node
                /\ \A c \in Blockers : w.blocker[c] = blocker[c] \/ c[1] \in RetryResolvable
<1> DEFINE b == [c \in Blockers |-> IF blocker[c] = "OPEN" THEN "RESOLVED" ELSE blocker[c]]
           i == IF item = "BLOCKED" /\ intent # "REQUESTED" /\ OpenBlockers(World) # {}
                  THEN "READY" ELSE item
           w == [World EXCEPT !.blocker = b, !.item = i]
<1>2. w = [World EXCEPT !.blocker = [c \in Blockers |-> IF @[c] = "OPEN" THEN "RESOLVED" ELSE @[c]],
                        !.item = IF @ = "BLOCKED" /\ intent # "REQUESTED" /\ OpenBlockers(World) # {}
                                   THEN "READY" ELSE @]
  <2> DEFINE g == [c \in Blockers |-> IF World.blocker[c] = "OPEN" THEN "RESOLVED" ELSE World.blocker[c]]
             j == IF World.item = "BLOCKED" /\ intent # "REQUESTED" /\ OpenBlockers(World) # {}
                    THEN "READY" ELSE World.item
  <2>1. World.blocker = blocker /\ World.item = item
    BY DEF World
  <2>2. g = b /\ j = i
    BY <2>1
  <2> HIDE DEF b, i
  <2> QED
    BY <2>2
<1>3. CanStart(w) /\ Commit(RunStarted(w))
  BY <1>2 DEF RetryWorkItem
<1>4. World \in Worlds
  BY DEF Inv, Consistent
<1>5. b \in [Blockers -> BlockerStates] /\ i \in Statuses
  BY <1>4 DEF World, Worlds, BlockerStates, Statuses
<1>0. World.item = item /\ World.intent = intent /\ World.run = run
  BY DEF World
<1>1. \A c \in Blockers : b[c] = blocker[c] \/ c[1] \in RetryResolvable
  BY DEF RetryWorkItem, OpenBlockers, World
<1> HIDE DEF b, i
<1>7. /\ w \in Worlds /\ w.item = i /\ w.intent = intent /\ w.run = run
      /\ w.node = node /\ w.blocker = b
  BY <1>0, <1>4, <1>5 DEF Worlds, World
<1>6. i = "READY" /\ intent # "REQUESTED" /\ item \in {"BLOCKED", "READY"}
  BY <1>3, <1>7 DEF CanStart, RetryWorkItem
<1> HIDE DEF w
<1>8. intent = "NONE"
  BY <1>0, <1>4, <1>6 DEF Inv, Consistent, Worlds, Intents
<1>9. InOrder(w)
  BY <1>0, <1>7, SameOrder DEF Inv, Consistent
<1>10. Consistent(w)
  BY <1>6, <1>7, <1>8, <1>9 DEF Consistent
<1>11. Follows(World, w)
  BY <1>0, <1>6, <1>7, <1>8 DEF Follows, Finished
<1> QED
  BY <1>1, <1>3, <1>7, <1>10, <1>11

LEMMA RetryStep == Inv /\ RetryWorkItem => Inv' /\ EndsStand
<1> SUFFICES ASSUME Inv, RetryWorkItem PROVE Inv' /\ EndsStand
  OBVIOUS
<1>1. Rest'
  BY EventCounts DEF Inv, Rest, settling, looks, RetryWorkItem
<1>2. PICK w : Consistent(w) /\ Follows(World, w) /\ CanStart(w) /\ Commit(RunStarted(w))
  BY RetryCloses
<1>3. Consistent(RunStarted(w)) /\ Follows(w, RunStarted(w))
  BY <1>2, RunStartedKeeps
<1>4. Follows(World, RunStarted(w))
  BY <1>2, <1>3, FollowsOn
<1> QED
  BY <1>1, <1>2, <1>3, <1>4, Committed

LEMMA CancelRunStep ==
  ASSUME Inv, NEW r \in Runs, CancelRun(r)
  PROVE  Inv' /\ EndsStand
<1> DEFINE w == [World EXCEPT !.run[r] = "CANCELLING"]
<1>1. Rest'
  BY DEF Inv, Rest, settling, CancelRun
<1>2. w = [item |-> item, intent |-> intent, run |-> [run EXCEPT ![r] = "CANCELLING"],
           node |-> node, blocker |-> blocker]
  BY DEF World
<1>3. Commit(w)
  BY <1>2 DEF Commit, CancelRun
<1>4. /\ run[r] \notin {"ABSENT", "CANCELLING"} \union Finished
      /\ intent # "NONE" => run[r] \in {"ABSENT", "CANCELLING"} \union Finished
  BY DEF CancelRun, Finished, Inv, Consistent, World
<1>5. Consistent(w) /\ Follows(World, w)
  BY <1>4, RunChanges DEF Inv, RunStates, World
<1> HIDE DEF w
<1> QED
  BY <1>1, <1>3, <1>5, Committed

(* The request to cancel the item: every unfinished run is being cancelled. *)
LEMMA CancelAsks ==
  ASSUME Inv, CancelWorkItem
  PROVE  \E x \in Worlds :
           /\ Commit(ItemReconciled(x))
           /\ x.item = item /\ x.intent = "REQUESTED" /\ x.node = node /\ x.blocker = blocker
           /\ \A r \in Runs : x.run[r] = IF run[r] \in Finished \union {"ABSENT"}
                                          THEN run[r] ELSE "CANCELLING"
<1> DEFINE f == [r \in Runs |-> IF run[r] \in Finished \union {"ABSENT"} THEN run[r] ELSE "CANCELLING"]
           x == [World EXCEPT !.intent = "REQUESTED", !.run = f]
<1>1. x = [World EXCEPT !.intent = "REQUESTED",
             !.run = [r \in Runs |-> IF @[r] \in Finished \union {"ABSENT"} THEN @[r] ELSE "CANCELLING"]]
  <2> DEFINE g == [r \in Runs |-> IF World.run[r] \in Finished \union {"ABSENT"}
                                    THEN World.run[r] ELSE "CANCELLING"]
  <2>1. World.run = run
    BY DEF World
  <2>2. g = f
    BY <2>1
  <2> HIDE DEF f
  <2> QED
    BY <2>2
<1>2. Commit(ItemReconciled(x))
  BY <1>1 DEF CancelWorkItem
<1>3. World \in Worlds
  BY DEF Inv, Consistent
<1>4. f \in [Runs -> RunStates]
  BY <1>3 DEF World, Worlds, RunStates, Finished
<1>5. \A r \in Runs : f[r] = IF run[r] \in Finished \union {"ABSENT"} THEN run[r] ELSE "CANCELLING"
  OBVIOUS
<1> HIDE DEF f
<1>6. /\ x \in Worlds /\ x.item = item /\ x.intent = "REQUESTED" /\ x.run = f
      /\ x.node = node /\ x.blocker = blocker
  BY <1>3, <1>4 DEF World, Worlds, Intents
<1> HIDE DEF x
<1> QED
  BY <1>2, <1>5, <1>6

LEMMA CancelItemStep == Inv /\ CancelWorkItem => Inv' /\ EndsStand
<1> SUFFICES ASSUME Inv, CancelWorkItem PROVE Inv' /\ EndsStand
  OBVIOUS
<1>1. Rest' /\ intent = "NONE" /\ item \notin {"DONE", "CANCELLED"}
  BY DEF Inv, Rest, settling, CancelWorkItem
<1>2. PICK x \in Worlds :
        /\ Commit(ItemReconciled(x))
        /\ x.item = item /\ x.intent = "REQUESTED" /\ x.node = node /\ x.blocker = blocker
        /\ \A r \in Runs : x.run[r] = IF run[r] \in Finished \union {"ABSENT"}
                                       THEN run[r] ELSE "CANCELLING"
  BY CancelAsks
<1>3. /\ \A r \in Runs : x.run[r] = "ABSENT" <=> run[r] = "ABSENT"
      /\ \A r \in Runs : x.run[r] \in {"ABSENT", "CANCELLING"} \union Finished
      /\ \A r \in Runs : run[r] \in Finished => x.run[r] = run[r]
      /\ \A r \in Runs : run[r] = "CANCELLING" => x.run[r] = "CANCELLING"
  BY <1>2 DEF Finished
<1>4. World.item = item /\ World.intent = intent /\ World.run = run
  BY DEF World
<1>5. InOrder(x)
  BY <1>3, <1>4, SameOrder DEF Inv, Consistent
<1>6. Follows(World, x)
  BY <1>1, <1>2, <1>3, <1>4 DEF Follows
<1>7. CASE item # "BACKLOG"
  <2>1. Consistent(x)
    BY <1>1, <1>2, <1>3, <1>5, <1>7 DEF Consistent
  <2>2. Consistent(ItemReconciled(x)) /\ Follows(x, ItemReconciled(x))
    BY <2>1, ItemReconciledKeeps
  <2> QED
    BY <1>1, <1>2, <1>6, <2>2, FollowsOn, Committed
<1>8. CASE item = "BACKLOG"
  <2> DEFINE y == [x EXCEPT !.item = "CANCELLED", !.intent = "COMPLETED"]
  <2>1. \A r \in Runs : run[r] = "ABSENT"
    BY <1>4, <1>8 DEF Inv, Consistent
  <2>2. AllFinished(x)
    BY <1>3, <2>1 DEF AllFinished
  <2>3. ItemReconciled(x) = y
    BY <1>2, <2>2 DEF ItemReconciled
  <2>4. y \in Worlds /\ y.item = "CANCELLED" /\ y.intent = "COMPLETED" /\ y.run = x.run
    BY <1>2 DEF Worlds, Statuses, Intents
  <2> HIDE DEF y
  <2>5. InOrder(y)
    BY <1>5, <2>4, SameOrder
  <2>6. Consistent(y)
    BY <1>3, <2>4, <2>5 DEF Consistent
  <2>7. Follows(World, y)
    BY <1>1, <1>3, <1>4, <1>8, <2>4 DEF Follows
  <2> QED
    BY <1>1, <1>2, <2>3, <2>6, <2>7, Committed
<1> QED
  BY <1>7, <1>8

(* What a settled branch makes of the join. *)
LEMMA JoinedTyped ==
  ASSUME Inv, NEW w, NEW r \in Runs
  PROVE  Joined(w, r) \in JoinStates
BY DEF Inv, Rest, Joined, Verdict, JoinStates, Finished

LEMMA CoordinatorStep ==
  ASSUME Inv, NEW r \in Runs, CancelRunCoordinator(r)
  PROVE  Inv' /\ EndsStand
<1> DEFINE f == [a \in Activations |->
                   IF a[1] = r /\ node[a] \in {"PENDING", "QUEUED"} THEN "CANCELLED" ELSE node[a]]
           x == [World EXCEPT !.node = f]
           j == IF Joined(x, r) = "WAITING" THEN "CANCELLED" ELSE Joined(x, r)
<1>1. Rest'
  BY JoinedTyped DEF Inv, Rest, CancelRunCoordinator, looks, JoinStates, Finished
<1>2. World.node = node
  BY DEF World
<1>3. f = [a \in Activations |->
             IF a[1] = r /\ World.node[a] \in {"PENDING", "QUEUED"} THEN "CANCELLED" ELSE World.node[a]]
  BY <1>2
<1>4. f \in [Activations -> NodeStates]
  BY DEF Inv, Consistent, World, Worlds, NodeStates, Outcomes, Finished
<1> HIDE DEF f
<1>5. Commit(Reconciled(x, r, j))
  BY <1>3 DEF CancelRunCoordinator
<1>6. Consistent(x) /\ Follows(World, x)
  BY <1>4, NodesChange DEF Inv
<1> HIDE DEF x
<1>7. Consistent(Reconciled(x, r, j)) /\ Follows(x, Reconciled(x, r, j))
  BY <1>6, ReconciledKeeps
<1> QED
  BY <1>1, <1>5, <1>6, <1>7, FollowsOn, Committed

(* An activation changes, and its run is reconciled. *)
LEMMA SettledKeeps ==
  ASSUME Inv, NEW a \in Activations, NEW s \in NodeStates, NEW j
  PROVE  LET x == Reconciled([World EXCEPT !.node[a] = s], a[1], j) IN
           Consistent(x) /\ Follows(World, x)
<1> DEFINE w == [World EXCEPT !.node[a] = s]
<1>1. Consistent(w) /\ Follows(World, w)
  BY NodeChanges DEF Inv
<1>2. a[1] \in Runs
  BY DEF Activations
<1> HIDE DEF w
<1>3. Consistent(Reconciled(w, a[1], j)) /\ Follows(w, Reconciled(w, a[1], j))
  BY <1>1, <1>2, ReconciledKeeps
<1>4. Follows(World, Reconciled(w, a[1], j))
  BY <1>1, <1>3, FollowsOn
<1> QED
  BY <1>3, <1>4 DEF w

(* An activation is blocked, with its blocker. *)
LEMMA BlockedKeeps ==
  ASSUME Inv, NEW a \in Activations, NEW b, NEW j
  PROVE  LET x == Reconciled(Opened([World EXCEPT !.node[a] = "BLOCKED"], b), a[1], j) IN
           Consistent(x) /\ Follows(World, x)
<1> DEFINE w == [World EXCEPT !.node[a] = "BLOCKED"]
           y == Opened(w, b)
<1>1. Consistent(w) /\ Follows(World, w)
  BY NodeChanges DEF Inv, NodeStates
<1>2. a[1] \in Runs
  BY DEF Activations
<1> HIDE DEF w
<1>3. Consistent(y) /\ Follows(w, y)
  BY <1>1, OpenedKeeps
<1> HIDE DEF y
<1>4. Consistent(Reconciled(y, a[1], j)) /\ Follows(y, Reconciled(y, a[1], j))
  BY <1>2, <1>3, ReconciledKeeps
<1>5. Follows(World, Reconciled(y, a[1], j))
  BY <1>1, <1>3, <1>4, FollowsOn
<1> QED
  BY <1>4, <1>5 DEF w, y

LEMMA AdmitStep ==
  ASSUME Inv, NEW a \in Activations, Admit(a)
  PROVE  Inv' /\ EndsStand
<1> DEFINE w == [World EXCEPT !.node[a] = "RUNNING"]
<1>1. Rest'
  BY DEF Inv, Rest, settling, Admit
<1>2. w = [item |-> item, intent |-> intent, run |-> run,
           node |-> [node EXCEPT ![a] = "RUNNING"], blocker |-> blocker]
  BY DEF World
<1>3. Commit(w)
  BY <1>2 DEF Commit, Admit
<1>4. Consistent(w) /\ Follows(World, w)
  BY NodeChanges DEF Inv, NodeStates, Live
<1> HIDE DEF w
<1> QED
  BY <1>1, <1>3, <1>4, Committed

LEMMA LeaveRunningStep ==
  ASSUME Inv, NEW a \in Activations, LeaveRunning(a)
  PROVE  Inv' /\ EndsStand
<1> DEFINE w == [World EXCEPT !.node[a] = "IDLE"]
<1>1. Rest'
  BY EventCounts DEF Inv, Rest, settling, LeaveRunning, looks
<1>2. w = [item |-> item, intent |-> intent, run |-> run,
           node |-> [node EXCEPT ![a] = "IDLE"], blocker |-> blocker]
  BY DEF World
<1>3. Commit(w)
  BY <1>2 DEF Commit, LeaveRunning
<1>4. Consistent(w) /\ Follows(World, w)
  BY NodeChanges DEF Inv, NodeStates, Live
<1> HIDE DEF w
<1> QED
  BY <1>1, <1>3, <1>4, Committed

LEMMA BlockAdmissionStep ==
  ASSUME Inv, NEW a \in Activations, BlockAdmission(a)
  PROVE  Inv' /\ EndsStand
<1>1. Rest'
  BY EventCounts DEF Inv, Rest, settling, BlockAdmission
<1>2. Commit(Reconciled(Opened([World EXCEPT !.node[a] = "BLOCKED"], <<"ADMISSION", a>>), a[1], join[a[1]]))
  BY DEF BlockAdmission
<1> QED
  BY <1>1, <1>2, BlockedKeeps, Committed

LEMMA ScopeStep ==
  ASSUME Inv, NEW a \in Activations, RequestScopeExpansion(a)
  PROVE  Inv' /\ EndsStand
<1>1. Rest'
  BY EventCounts DEF Inv, Rest, settling, RequestScopeExpansion, looks
<1>2. Commit(Reconciled(
         Opened([World EXCEPT !.node[a] = "BLOCKED"], <<"SCOPE_EXPANSION_REQUIRED", a>>), a[1], join[a[1]]))
  BY DEF RequestScopeExpansion
<1> QED
  BY <1>1, <1>2, BlockedKeeps, Committed

LEMMA FinalizeStep ==
  ASSUME Inv, NEW a \in Activations, NEW outcome \in Outcomes, FinalizeExecutionAttempt(a, outcome)
  PROVE  Inv' /\ EndsStand
<1> DEFINE j == Joined([World EXCEPT !.node[a] = outcome], a[1])
<1>1. Rest'
  <2>1. a[1] \in Runs /\ j \in JoinStates
    BY JoinedTyped DEF Inv, Activations
  <2> QED
    BY <2>1 DEF Inv, Rest, FinalizeExecutionAttempt, looks
<1>2. Commit(Reconciled([World EXCEPT !.node[a] = outcome], a[1], j))
  BY DEF FinalizeExecutionAttempt
<1>3. outcome \in NodeStates
  BY DEF NodeStates
<1> QED
  BY <1>1, <1>2, <1>3, SettledKeeps, Committed

(* What changes none of the rows: looks of operators and of the sweep, the     *)
(* requests of approvals, and the reports whose scope is refused.              *)
LEMMA LookStep ==
  ASSUME Inv,
         \/ \E r \in Runs : Sweep(r) \/ RequestApprovalCommit(r)
         \/ \E a \in Activations : CloseScopeExpansion(a) \/ LoadForRetry(a)
  PROVE  Inv' /\ EndsStand
<1>1. CASE \E r \in Runs : Sweep(r)
  <2>1. Rest' /\ UNCHANGED rows
    BY <1>1 DEF Inv, Rest, settling, Sweep
  <2> QED
    BY <2>1, Untouched
<1>2. CASE \E r \in Runs : RequestApprovalCommit(r)
  <2>1. Rest' /\ UNCHANGED rows
    BY <1>2, EventCounts DEF Inv, Rest, settling, RequestApprovalCommit, looks
  <2> QED
    BY <2>1, Untouched
<1>3. CASE \E a \in Activations : CloseScopeExpansion(a)
  <2>1. Rest' /\ UNCHANGED rows
    BY <1>3 DEF Inv, Rest, settling, CloseScopeExpansion, looks
  <2> QED
    BY <2>1, Untouched
<1>4. CASE \E a \in Activations : LoadForRetry(a)
  <2>1. Rest' /\ UNCHANGED rows
    BY <1>4 DEF Inv, Rest, settling, LoadForRetry
  <2> QED
    BY <2>1, Untouched
<1> QED
  BY <1>1, <1>2, <1>3, <1>4

(* The next activation of a branch. *)
LEMMA ActivatedKeeps ==
  ASSUME NEW w, Consistent(w), NEW r, NEW b, NEW s \in Live
  PROVE  Consistent(Activated(w, r, b, s)) /\ Follows(w, Activated(w, r, b, s))
BY NodeChanges DEF Activated, NodeStates

LEMMA ReactivateStep ==
  ASSUME Inv, NEW a \in Activations, ReactivateBlockedNodeRun(a)
  PROVE  Inv' /\ EndsStand
<1> DEFINE w == Activated(World, a[1], a[2], "QUEUED")
           b == <<"SCOPE_EXPANSION_REQUIRED", a>>
           x == Closed(w, b, "ACTIVE")
<1>1. Rest'
  BY DEF Inv, Rest, settling, ReactivateBlockedNodeRun, looks
<1>2. Commit(w) \/ Commit(x)
  BY DEF ReactivateBlockedNodeRun
<1>3. Consistent(w) /\ Follows(World, w)
  BY ActivatedKeeps DEF Inv, Live
<1> HIDE DEF w
<1>4. Consistent(x) /\ Follows(w, x)
  BY <1>3, ClosedKeeps
<1> HIDE DEF x
<1> QED
  BY <1>1, <1>2, <1>3, <1>4, FollowsOn, Committed

LEMMA RetryActivationStep ==
  ASSUME Inv, NEW a \in Activations, RetryBlockedActivation(a)
  PROVE  Inv' /\ EndsStand
<1> DEFINE w == Activated(World, a[1], a[2], "QUEUED")
           x == Closed(w, <<"ADMISSION", a>>, "ACTIVE")
<1>1. Rest'
  BY DEF Inv, Rest, settling, RetryBlockedActivation, looks
<1>2. Commit(x)
  BY DEF RetryBlockedActivation
<1>3. Consistent(w) /\ Follows(World, w)
  BY ActivatedKeeps DEF Inv, Live
<1> HIDE DEF w
<1>4. Consistent(x) /\ Follows(w, x)
  BY <1>3, ClosedKeeps
<1> HIDE DEF x
<1> QED
  BY <1>1, <1>2, <1>3, <1>4, FollowsOn, Committed

LEMMA ResolveStep ==
  ASSUME Inv, NEW b \in Blockers, ResolveWorkItemBlocker(b)
  PROVE  Inv' /\ EndsStand
<1>1. Rest' /\ Commit(Closed(World, b, "READY"))
  BY DEF Inv, Rest, settling, ResolveWorkItemBlocker, looks
<1>2. Consistent(Closed(World, b, "READY")) /\ Follows(World, Closed(World, b, "READY"))
  BY ClosedKeeps DEF Inv
<1> QED
  BY <1>1, <1>2, Committed

LEMMA CommitFailsStep ==
  ASSUME Inv, NEW r \in Runs, LocalCommitFails(r)
  PROVE  Inv' /\ EndsStand
<1> DEFINE x == Opened(World, <<"RELEASE_FAILED", r>>)
<1>1. Rest'
  BY DEF Inv, Rest, settling, LocalCommitFails, looks
<1>2. Commit(x) \/ Commit(World)
  BY DEF LocalCommitFails
<1>3. Consistent(x) /\ Follows(World, x)
  BY OpenedKeeps DEF Inv
<1>4. Consistent(World) /\ Follows(World, World)
  BY DEF Inv, Follows, Finished
<1> HIDE DEF x
<1> QED
  BY <1>1, <1>2, <1>3, <1>4, Committed

------------------------------------------------------------------------------
(* Completion decides on a run that verifies, so on an item that nobody has    *)
(* asked to cancel.                                                            *)
LEMMA VerifyingRun ==
  ASSUME Inv, NEW r \in Runs, MayDecide(r)
  PROVE  run[r] = "VERIFYING" /\ intent = "NONE" /\ item # "BACKLOG"
BY DEF MayDecide, Inv, Consistent, World, Finished

(* The verdict that changes the item with the run. *)
LEMMA DecidedKeeps ==
  ASSUME Inv, Rest', NEW r \in Runs, MayDecide(r), item = "ACTIVE",
         NEW s \in {"SUCCEEDED", "BLOCKED"}, NEW i \in {"DONE", "BLOCKED"},
         run' = [run EXCEPT ![r] = s], item' = i, UNCHANGED <<intent, node, blocker>>
  PROVE  Inv' /\ EndsStand
<1> DEFINE w == [World EXCEPT !.run[r] = s]
           x == [item |-> i, intent |-> intent, run |-> [run EXCEPT ![r] = s],
                 node |-> node, blocker |-> blocker]
<1>1. run[r] = "VERIFYING" /\ intent = "NONE"
  BY VerifyingRun
<1>2. w = [item |-> item, intent |-> intent, run |-> [run EXCEPT ![r] = s],
           node |-> node, blocker |-> blocker]
  BY DEF World
<1>3. Consistent(w) /\ Follows(World, w)
  BY <1>1, RunChanges DEF Inv, RunStates, Finished, World
<1>4. Commit(x)
  BY DEF Commit
<1>5. /\ x \in Worlds /\ x.item = i /\ x.intent = "NONE" /\ x.run = w.run
      /\ w.item = "ACTIVE" /\ w.intent = "NONE"
  BY <1>1, <1>2, <1>3 DEF Consistent, Worlds, Statuses
<1> HIDE DEF w, x
<1>6. InOrder(x)
  BY <1>3, <1>5, SameOrder DEF Consistent
<1>7. Consistent(x)
  BY <1>5, <1>6 DEF Consistent
<1>8. Follows(w, x)
  BY <1>5 DEF Follows, Finished
<1> QED
  BY <1>3, <1>4, <1>7, <1>8, FollowsOn, Committed

LEMMA FailStep ==
  ASSUME Inv, NEW r \in Runs, Fail(r)
  PROVE  Inv' /\ EndsStand
<1> DEFINE w == [World EXCEPT !.run[r] = "FAILED"]
           x == Opened(w, <<"COMPLETION_POLICY_FAILED", r>>)
<1>1. Rest' /\ MayDecide(r) /\ Commit(x)
  BY DEF Inv, Rest, settling, Fail, looks
<1>2. run[r] = "VERIFYING" /\ intent = "NONE"
  BY <1>1, VerifyingRun
<1>3. Consistent(w) /\ Follows(World, w)
  BY <1>2, RunChanges DEF Inv, RunStates, Finished, World
<1> HIDE DEF w
<1>4. Consistent(x) /\ Follows(w, x)
  BY <1>3, OpenedKeeps
<1> HIDE DEF x
<1> QED
  BY <1>1, <1>3, <1>4, FollowsOn, Committed

LEMMA ReworkStep ==
  ASSUME Inv, NEW r \in Runs, Rework(r)
  PROVE  Inv' /\ EndsStand
<1> DEFINE w == [World EXCEPT !.run[r] = "RUNNING"]
<1>1. Rest' /\ MayDecide(r)
  BY DEF Inv, Rest, settling, Rework, looks
<1>2. PICK b \in Branches : Commit(Activated(w, r, b, "PENDING"))
  BY DEF Rework
<1>3. run[r] = "VERIFYING" /\ intent = "NONE"
  BY <1>1, VerifyingRun
<1>4. Consistent(w) /\ Follows(World, w)
  BY <1>3, RunChanges DEF Inv, RunStates, Finished, World
<1> HIDE DEF w
<1> DEFINE x == Activated(w, r, b, "PENDING")
<1>5. Consistent(x) /\ Follows(w, x)
  BY <1>4, ActivatedKeeps DEF Live
<1>6. Commit(x)
  BY <1>2
<1> HIDE DEF x
<1> QED
  BY <1>1, <1>4, <1>5, <1>6, FollowsOn, Committed

LEMMA EvaluateStep ==
  ASSUME Inv, NEW r \in Runs, Evaluate(r)
  PROVE  Inv' /\ EndsStand
<1>1. CASE Pass(r)
  <2>1. Rest'
    BY <1>1 DEF Inv, Rest, settling, Pass
  <2> QED
    BY <1>1, <2>1, DecidedKeeps DEF Pass
<1>2. CASE Block(r)
  <2>1. Rest'
    BY <1>2 DEF Inv, Rest, settling, Block
  <2> QED
    BY <1>2, <2>1, DecidedKeeps DEF Block
<1> QED
  BY <1>1, <1>2, FailStep, ReworkStep DEF Evaluate

------------------------------------------------------------------------------
(* Every step keeps the invariant and lets what has ended stand. *)
LEMMA StepKeeps == Inv /\ [Next]_vars => Inv' /\ EndsStand
<1> SUFFICES ASSUME Inv, [Next]_vars PROVE Inv' /\ EndsStand
  OBVIOUS
<1>1. CASE MarkWorkItemReady \/ StartWorkflowRun \/ RetryWorkItem \/ CancelWorkItem
  BY <1>1, ReadyStep, StartStep, RetryStep, CancelItemStep
<1>2. CASE \E r \in Runs : CancelRun(r) \/ CancelRunCoordinator(r)
  BY <1>2, CancelRunStep, CoordinatorStep
<1>3. CASE \E r \in Runs : RequestApprovalCommit(r) \/ Sweep(r)
  BY <1>3, LookStep
<1>4. CASE \E r \in Runs : LocalCommitFails(r) \/ Evaluate(r)
  BY <1>4, CommitFailsStep, EvaluateStep
<1>5. CASE \E a \in Activations : \/ Admit(a) \/ LeaveRunning(a)
                                  \/ BlockAdmission(a) \/ RequestScopeExpansion(a)
  BY <1>5, AdmitStep, LeaveRunningStep, BlockAdmissionStep, ScopeStep
<1>6. CASE \E a \in Activations : \E outcome \in Outcomes : FinalizeExecutionAttempt(a, outcome)
  BY <1>6, FinalizeStep
<1>7. CASE \E a \in Activations : CloseScopeExpansion(a) \/ LoadForRetry(a)
  BY <1>7, LookStep
<1>8. CASE \E a \in Activations : ReactivateBlockedNodeRun(a) \/ RetryBlockedActivation(a)
  BY <1>8, ReactivateStep, RetryActivationStep
<1>9. CASE \E b \in Blockers : ResolveWorkItemBlocker(b)
  BY <1>9, ResolveStep
<1>10. CASE UNCHANGED vars
  <2>1. Rest' /\ UNCHANGED rows
    BY <1>10 DEF Inv, Rest, vars, settling, rows
  <2> QED
    BY <2>1, Untouched
<1> QED
  BY <1>1, <1>2, <1>3, <1>4, <1>5, <1>6, <1>7, <1>8, <1>9, <1>10 DEF Next

(* Every variable keeps its type, for any number of runs, branches,           *)
(* activations and events: the states the rows of an item can have.           *)
THEOREM TypeCorrect == Spec => []TypeOK
<1>1. Spec => []Inv
  BY Initially, StepKeeps, PTL DEF Spec
<1> QED
  BY <1>1, InvTyped, PTL

(* What has ended stays so and a cancellation is not overtaken, by a sweep's   *)
(* stale list, a retry, a closed blocker or a failed local commit: no run is   *)
(* started for an item that is to be cancelled, none of its runs succeeds, and *)
(* a finished run or item does not come back.                                  *)
THEOREM EndsAreFinal == Spec => CancellationStands
<1>1. Spec => []Inv
  BY Initially, StepKeeps, PTL DEF Spec
<1>2. Spec => [][EndsStand]_vars
  BY <1>1, StepKeeps, PTL DEF Spec
<1> QED
  BY <1>2 DEF CancellationStands

------------------------------------------------------------------------------
(***************************************************************************)
(* The item's status and its runs.                                         *)
(***************************************************************************)
UnderWayIn(w) == {r \in Runs : w.run[r] \notin Finished \union {"ABSENT"}}

(* StatusTellsTheRuns of a world; and a request to cancel the item is pending   *)
(* only while a run is under way, for it to end with.                           *)
Told(w) ==
  /\ \A r, s \in UnderWayIn(w) : r = s
  /\ w.item = "ACTIVE" => \E r \in UnderWayIn(w) : w.run[r] # "BLOCKED"
  /\ w.item \in {"BACKLOG", "READY", "DONE", "CANCELLED"} => UnderWayIn(w) = {}
  /\ w.item = "DONE" <=> \E r \in Runs : w.run[r] = "SUCCEEDED"
  /\ w.item = "BLOCKED" =>
       \/ OpenBlockers(w) # {}
       \/ \E r \in UnderWayIn(w) : w.run[r] \in {"BLOCKED", "CANCELLING"}
  /\ w.intent = "REQUESTED" => UnderWayIn(w) # {}

StatusInv == Inv /\ Told(World)

(* What is under way depends on the runs only. *)
LEMMA ToldNodes ==
  ASSUME NEW w, NEW x, Told(w), x.item = w.item, x.intent = w.intent, x.run = w.run,
         x.blocker = w.blocker
  PROVE  Told(x)
<1>1. UnderWayIn(x) = UnderWayIn(w) /\ OpenBlockers(x) = OpenBlockers(w)
  BY DEF UnderWayIn, OpenBlockers
<1> QED
  BY <1>1 DEF Told

(* Nothing is under way when all runs are finished. *)
LEMMA AllFinishedUnderWay ==
  ASSUME NEW w, Consistent(w)
  PROVE  AllFinished(w) <=> UnderWayIn(w) = {}
BY DEF AllFinished, UnderWayIn

LEMMA OpenedTells ==
  ASSUME NEW w, Consistent(w), Told(w), NEW b \in Blockers
  PROVE  Told(Opened(w, b))
<1> DEFINE x == Opened(w, b)
<1>0. w \in Worlds
  BY DEF Consistent
<1>1. /\ x.run = w.run /\ x.intent = w.intent
      /\ x.item = IF w.item = "ACTIVE" THEN "BLOCKED" ELSE w.item
      /\ x.blocker = [w.blocker EXCEPT ![b] = "OPEN"]
  BY <1>0 DEF Opened, Worlds
<1> HIDE DEF x
<1>2. b \in OpenBlockers(x) /\ UnderWayIn(x) = UnderWayIn(w)
  BY <1>0, <1>1 DEF OpenBlockers, UnderWayIn, Worlds
<1>3. Told(x)
  BY <1>1, <1>2 DEF Told
<1> QED
  BY <1>3 DEF x

(* The last blocker to close lets the item go on where its runs are: ACTIVE    *)
(* with a run that goes on, READY when all are finished.                       *)
LEMMA ClosedTells ==
  ASSUME NEW w, Consistent(w), Told(w), NEW b, NEW status \in {"ACTIVE", "READY"},
         status = "ACTIVE" => \E r \in Runs : w.run[r] = "RUNNING",
         status = "READY" => AllFinished(w)
  PROVE  Told(Closed(w, b, status))
<1> DEFINE x == [w EXCEPT !.blocker[b] = "RESOLVED"]
<1>0. w \in Worlds
  BY DEF Consistent
<1>1. x.item = w.item /\ x.intent = w.intent /\ x.run = w.run
  BY <1>0 DEF Worlds
<1>2. Closed(w, b, status) =
        IF OpenBlockers(x) = {} /\ x.intent # "REQUESTED" /\ x.item = "BLOCKED"
          THEN [x EXCEPT !.item = status] ELSE x
  BY DEF Closed
<1>3. x \in Worlds
  <2>1. [w.blocker EXCEPT ![b] = "RESOLVED"] \in [Blockers -> BlockerStates]
    BY <1>0 DEF Worlds, BlockerStates
  <2> QED BY <1>0, <2>1 DEF Worlds
<1> HIDE DEF x
<1>4. UnderWayIn(x) = UnderWayIn(w)
  BY <1>1 DEF UnderWayIn
<1>5. CASE OpenBlockers(x) = {} /\ x.intent # "REQUESTED" /\ x.item = "BLOCKED"
  <2> DEFINE y == [x EXCEPT !.item = status]
  <2>1. y.item = status /\ y.intent = w.intent /\ y.run = w.run
    BY <1>1, <1>3 DEF Worlds
  <2> HIDE DEF y
  <2>2. UnderWayIn(y) = UnderWayIn(w)
    BY <2>1 DEF UnderWayIn
  <2>3. status = "READY" => UnderWayIn(w) = {}
    BY AllFinishedUnderWay
  <2>4. status = "ACTIVE" => \E r \in UnderWayIn(w) : w.run[r] # "BLOCKED"
    BY DEF UnderWayIn, Finished
  <2>5. w.item = "BLOCKED" /\ w.intent # "REQUESTED"
    BY <1>1, <1>5
  <2>6. Told(y)
    BY <2>1, <2>2, <2>3, <2>4, <2>5 DEF Told
  <2> QED BY <1>2, <1>5, <2>6 DEF y
<1>6. CASE ~(OpenBlockers(x) = {} /\ x.intent # "REQUESTED" /\ x.item = "BLOCKED")
  <2>1. x.item = "BLOCKED" =>
          \/ OpenBlockers(x) # {}
          \/ \E r \in UnderWayIn(x) : x.run[r] \in {"BLOCKED", "CANCELLING"}
    <3> SUFFICES ASSUME x.item = "BLOCKED", OpenBlockers(x) = {}
                 PROVE  \E r \in UnderWayIn(x) : x.run[r] \in {"BLOCKED", "CANCELLING"}
      OBVIOUS
    <3>1. w.intent = "REQUESTED"
      BY <1>1, <1>6
    <3>2. PICK r \in UnderWayIn(w) : TRUE
      BY <3>1 DEF Told
    <3>3. w.run[r] = "CANCELLING"
      BY <3>1, <3>2 DEF Consistent, UnderWayIn
    <3> QED BY <1>1, <1>4, <3>2, <3>3
  <2>2. Told(x)
    BY <1>1, <1>4, <2>1 DEF Told
  <2> QED BY <1>2, <1>6, <2>2
<1> QED
  BY <1>5, <1>6

(* A run ends: nothing is under way any more, and the item is BLOCKED by the   *)
(* blocker of that end, or CANCELLED with it.                                  *)
LEMMA RunEndedTells ==
  ASSUME NEW w, Consistent(w), Told(w), NEW r \in Runs, NEW s \in {"FAILED", "CANCELLED"},
         NEW kind, <<kind, r>> \in Blockers,
         w.run[r] # "ABSENT", w.run[r] \notin Finished, w.run[r] = "CANCELLING" => s = "CANCELLED"
  PROVE  Told(RunEnded(w, r, s, kind))
<1> DEFINE x == [w EXCEPT !.run[r] = s]
           y == IF x.intent = "NONE" THEN Opened(x, <<kind, r>>) ELSE x
           z == [y EXCEPT !.item = "CANCELLED", !.intent = "COMPLETED"]
<1>0. w \in Worlds /\ r \in UnderWayIn(w)
  BY DEF Consistent, UnderWayIn
<1>1. RunEnded(w, r, s, kind) = IF y.intent = "REQUESTED" /\ AllFinished(y) THEN z ELSE y
  BY DEF RunEnded, ItemReconciled
<1>2. /\ x \in Worlds /\ x.item = w.item /\ x.intent = w.intent
      /\ \A t \in Runs : x.run[t] = IF t = r THEN s ELSE w.run[t]
  BY <1>0 DEF Worlds, RunStates, Finished
<1> HIDE DEF x
<1>3. UnderWayIn(x) = {}
  BY <1>0, <1>2 DEF Told, UnderWayIn, Finished
<1>4. /\ w.item \in {"ACTIVE", "BLOCKED"}
      /\ \A t \in Runs : x.run[t] # "SUCCEEDED"
  <2>1. w.item \in {"ACTIVE", "BLOCKED"}
    BY <1>0 DEF Told, Worlds, Statuses
  <2>2. \A t \in Runs : w.run[t] # "SUCCEEDED"
    BY <2>1 DEF Told
  <2> QED BY <1>2, <2>1, <2>2
<1>5. CASE w.intent = "NONE"
  <2>1. /\ y.run = x.run /\ y.intent = "NONE" /\ y.item = "BLOCKED"
        /\ y.blocker = [x.blocker EXCEPT ![<<kind, r>>] = "OPEN"]
    BY <1>2, <1>4, <1>5 DEF Opened, Worlds
  <2> HIDE DEF y
  <2>2. <<kind, r>> \in OpenBlockers(y)
    BY <1>2, <2>1 DEF OpenBlockers, Worlds
  <2>3. UnderWayIn(y) = {}
    BY <1>3, <2>1 DEF UnderWayIn
  <2>4. Told(y)
    BY <1>4, <2>1, <2>2, <2>3 DEF Told
  <2> QED BY <1>1, <2>1, <2>4
<1>6. CASE w.intent # "NONE"
  <2>1. w.intent = "REQUESTED"
    BY <1>0, <1>4, <1>6 DEF Consistent, Worlds, Intents
  <2>2. y = x
    BY <1>2, <1>6
  <2>3. AllFinished(x)
    BY <1>3 DEF AllFinished, UnderWayIn
  <2>4. z.item = "CANCELLED" /\ z.intent = "COMPLETED" /\ z.run = x.run
    BY <1>2, <2>2 DEF Worlds
  <2> HIDE DEF y, z
  <2>5. UnderWayIn(z) = {}
    BY <1>3, <2>4 DEF UnderWayIn
  <2>6. Told(z)
    BY <1>4, <2>4, <2>5 DEF Told
  <2> QED BY <1>1, <1>2, <2>1, <2>2, <2>3, <2>6
<1> QED
  BY <1>5, <1>6

(* The run's own blockers are among the item's. *)
LEMMA EndBlockers ==
  ASSUME NEW r \in Runs
  PROVE  /\ <<"RUN_CANCELLED", r>> \in Blockers /\ <<"RUN_FAILED", r>> \in Blockers
         /\ <<"COMPLETION_POLICY_FAILED", r>> \in Blockers /\ <<"RELEASE_FAILED", r>> \in Blockers
BY DEF Blockers, RunBlockers, RetryResolvable

(* A run that goes on under another name leaves the item as it is. *)
LEMMA RunGoesOn ==
  ASSUME NEW w, Consistent(w), Told(w), NEW r \in Runs,
         w.run[r] \in {"RUNNING", "VERIFYING", "BLOCKED"}, NEW s \in {"RUNNING", "VERIFYING", "CANCELLING"},
         w.run[r] = "BLOCKED" => s = "CANCELLING"
  PROVE  Told([w EXCEPT !.run[r] = s])
<1> DEFINE x == [w EXCEPT !.run[r] = s]
<1>1. /\ x.item = w.item /\ x.intent = w.intent /\ x.blocker = w.blocker
      /\ \A t \in Runs : x.run[t] = IF t = r THEN s ELSE w.run[t]
  BY DEF Consistent, Worlds
<1> HIDE DEF x
<1>2. UnderWayIn(x) = UnderWayIn(w) /\ r \in UnderWayIn(w)
  BY <1>1 DEF UnderWayIn, Finished
<1>3. OpenBlockers(x) = OpenBlockers(w)
  BY <1>1 DEF OpenBlockers
<1>4. \A t \in UnderWayIn(w) : t = r
  BY <1>2 DEF Told
<1>5. Told(x)
  BY <1>1, <1>2, <1>3, <1>4 DEF Told
<1> QED
  BY <1>5 DEF x

LEMMA ReconciledTells ==
  ASSUME NEW w, Consistent(w), Told(w), NEW r \in Runs, NEW j
  PROVE  Told(Reconciled(w, r, j))
<1> DEFINE cancelled == RunEnded(w, r, "CANCELLED", "RUN_CANCELLED")
           failed == RunEnded(w, r, "FAILED", "RUN_FAILED")
           verifying == [w EXCEPT !.run[r] = "VERIFYING"]
<1>1. \/ w.run[r] = "CANCELLING" /\ Reconciled(w, r, j) = cancelled
      \/ w.run[r] = "RUNNING" /\ Reconciled(w, r, j) \in {verifying, failed}
      \/ Reconciled(w, r, j) = w
  BY DEF Reconciled
<1>2. w.run[r] = "CANCELLING" => Told(cancelled)
  BY RunEndedTells, EndBlockers DEF Finished
<1>3. w.run[r] = "RUNNING" => Told(failed)
  BY RunEndedTells, EndBlockers DEF Finished
<1>4. w.run[r] = "RUNNING" => Told(verifying)
  BY RunGoesOn
<1> QED
  BY <1>1, <1>2, <1>3, <1>4

(* The next run is the only one under way. *)
LEMMA RunStartedTells ==
  ASSUME NEW w, Consistent(w), CanStart(w), UnderWayIn(w) = {},
         \A t \in Runs : w.run[t] # "SUCCEEDED"
  PROVE  Told(RunStarted(w))
<1> DEFINE r == Cardinality(Started(w)) + 1
           x == RunStarted(w)
<1>0. w \in Worlds /\ w.item = "READY" /\ w.intent = "NONE"
  BY DEF Consistent, CanStart, Worlds, Intents
<1>1. x.item = "ACTIVE" /\ x.intent = "NONE" /\ \A t \in Runs : x.run[t] = IF t = r THEN "RUNNING" ELSE w.run[t]
  BY <1>0 DEF RunStarted, Worlds
<1>2. r \in Runs
  <2>1. PICK n \in 0..MaxRuns : Started(w) = 1..n
    BY DEF Consistent, InOrder
  <2>2. Cardinality(1..n) = n
    BY ItemAssumption, FS_Interval
  <2>3. n # MaxRuns
    BY <2>1 DEF CanStart, Runs
  <2> QED BY <2>1, <2>2, <2>3, ItemAssumption DEF Runs
<1> HIDE DEF x, r
<1>3. UnderWayIn(x) = {r}
  BY <1>1, <1>2 DEF UnderWayIn, Finished
<1>4. Told(x)
  BY <1>1, <1>2, <1>3 DEF Told
<1> QED
  BY <1>4 DEF x

------------------------------------------------------------------------------
(* The same actions, one by one. *)

LEMMA ToldCommitted ==
  ASSUME NEW w \in Worlds, Told(w), Commit(w)
  PROVE  Told(World)'
<1>1. /\ item' = w.item /\ intent' = w.intent /\ run' = w.run
      /\ node' = w.node /\ blocker' = w.blocker
  BY DEF Commit
<1>2. w = [item |-> w.item, intent |-> w.intent, run |-> w.run, node |-> w.node, blocker |-> w.blocker]
  BY DEF Worlds
<1>3. World' = w
  BY <1>1, <1>2 DEF World
<1> QED
  BY <1>3 DEF Told, UnderWayIn, OpenBlockers

LEMMA ToldUntouched ==
  ASSUME StatusInv, UNCHANGED rows
  PROVE  Told(World)'
<1>1. World' = World
  BY DEF rows, World
<1> QED
  BY <1>1 DEF StatusInv, Told, UnderWayIn, OpenBlockers

LEMMA ReadyTells ==
  ASSUME StatusInv, MarkWorkItemReady
  PROVE  Told(World)'
<1>1. /\ World'.item = "READY" /\ World'.intent = World.intent /\ World'.run = World.run
      /\ World.item = "BACKLOG"
  BY DEF World, MarkWorkItemReady
<1>2. UnderWayIn(World)' = UnderWayIn(World)
  BY <1>1 DEF UnderWayIn
<1> QED
  BY <1>1, <1>2 DEF StatusInv, Told

LEMMA StartTells ==
  ASSUME StatusInv, StartWorkflowRun
  PROVE  Told(World)'
<1>1. CanStart(World) /\ Commit(RunStarted(World))
  BY DEF StartWorkflowRun
<1>2. World.item = "READY" /\ Consistent(World) /\ Told(World)
  BY <1>1 DEF CanStart, StatusInv, Inv
<1>3. UnderWayIn(World) = {} /\ \A t \in Runs : World.run[t] # "SUCCEEDED"
  BY <1>2 DEF Told
<1>4. Told(RunStarted(World)) /\ RunStarted(World) \in Worlds
  BY <1>1, <1>2, <1>3, RunStartedTells, RunStartedKeeps DEF Consistent
<1> QED
  BY <1>1, <1>4, ToldCommitted

LEMMA RetryTells ==
  ASSUME StatusInv, RetryWorkItem
  PROVE  Told(World)'
<1>1. PICK w : Consistent(w) /\ CanStart(w) /\ Commit(RunStarted(w)) /\ w.run = run
  BY RetryCloses DEF StatusInv
<1>2. World.item \in {"BLOCKED", "READY"} /\ AllFinished(World) /\ World.run = run
  BY DEF RetryWorkItem, World
<1>3. UnderWayIn(w) = {}
  BY <1>1, <1>2 DEF AllFinished, UnderWayIn
<1>4. \A t \in Runs : w.run[t] # "SUCCEEDED"
  BY <1>1, <1>2 DEF StatusInv, Told
<1>5. Told(RunStarted(w)) /\ RunStarted(w) \in Worlds
  BY <1>1, <1>3, <1>4, RunStartedTells, RunStartedKeeps DEF Consistent
<1> QED
  BY <1>1, <1>5, ToldCommitted

LEMMA CancelRunTells ==
  ASSUME StatusInv, NEW r \in Runs, CancelRun(r)
  PROVE  Told(World)'
<1> DEFINE w == [World EXCEPT !.run[r] = "CANCELLING"]
<1>1. w = [item |-> item, intent |-> intent, run |-> [run EXCEPT ![r] = "CANCELLING"],
           node |-> node, blocker |-> blocker]
  BY DEF World
<1>2. Commit(w)
  BY <1>1 DEF Commit, CancelRun
<1>3. World.run[r] \in {"RUNNING", "VERIFYING", "BLOCKED"}
  BY DEF CancelRun, World
<1>4. Told(w)
  BY <1>3, RunGoesOn DEF StatusInv, Inv
<1>5. w \in Worlds
  BY DEF StatusInv, Inv, Consistent, Worlds, RunStates
<1> HIDE DEF w
<1> QED
  BY <1>2, <1>4, <1>5, ToldCommitted

(* The item is CANCELLED at once when nothing is under way. *)
LEMMA CancelItemTells ==
  ASSUME StatusInv, CancelWorkItem
  PROVE  Told(World)'
<1>1. item \notin {"DONE", "CANCELLED"}
  BY DEF CancelWorkItem
<1>2. PICK x \in Worlds :
        /\ Commit(ItemReconciled(x))
        /\ x.item = item /\ x.intent = "REQUESTED" /\ x.node = node /\ x.blocker = blocker
        /\ \A r \in Runs : x.run[r] = IF run[r] \in Finished \union {"ABSENT"}
                                       THEN run[r] ELSE "CANCELLING"
  BY CancelAsks DEF StatusInv
<1>3. World.item = item /\ World.run = run
  BY DEF World
<1>4. /\ UnderWayIn(x) = UnderWayIn(World)
      /\ \A r \in UnderWayIn(x) : x.run[r] = "CANCELLING"
      /\ \A r \in Runs : x.run[r] # "SUCCEEDED"
  <2>1. \A r \in Runs : World.run[r] # "SUCCEEDED"
    BY <1>1, <1>3 DEF StatusInv, Told
  <2> QED
    BY <1>2, <1>3, <2>1 DEF UnderWayIn, Finished
<1>5. CASE UnderWayIn(x) = {}
  <2> DEFINE y == [x EXCEPT !.item = "CANCELLED", !.intent = "COMPLETED"]
  <2>1. AllFinished(x)
    BY <1>5 DEF AllFinished, UnderWayIn
  <2>2. ItemReconciled(x) = y
    BY <1>2, <2>1 DEF ItemReconciled
  <2>3. y \in Worlds /\ y.item = "CANCELLED" /\ y.intent = "COMPLETED" /\ y.run = x.run
    BY <1>2 DEF Worlds, Statuses, Intents
  <2> HIDE DEF y
  <2>4. UnderWayIn(y) = {}
    BY <1>5, <2>3 DEF UnderWayIn
  <2>5. Told(y)
    BY <1>4, <2>3, <2>4 DEF Told
  <2> QED
    BY <1>2, <2>2, <2>3, <2>5, ToldCommitted
<1>6. CASE UnderWayIn(x) # {}
  <2>1. ~AllFinished(x)
    BY <1>6 DEF AllFinished, UnderWayIn
  <2>2. ItemReconciled(x) = x
    BY <2>1 DEF ItemReconciled
  <2>3. Told(x)
    BY <1>1, <1>2, <1>3, <1>4, <1>6 DEF StatusInv, Told
  <2> QED
    BY <1>2, <2>2, <2>3, ToldCommitted
<1> QED
  BY <1>5, <1>6

LEMMA CoordinatorTells ==
  ASSUME StatusInv, NEW r \in Runs, CancelRunCoordinator(r)
  PROVE  Told(World)'
<1> DEFINE f == [a \in Activations |->
                   IF a[1] = r /\ World.node[a] \in {"PENDING", "QUEUED"} THEN "CANCELLED" ELSE World.node[a]]
           x == [World EXCEPT !.node = f]
           j == IF Joined(x, r) = "WAITING" THEN "CANCELLED" ELSE Joined(x, r)
<1>1. f \in [Activations -> NodeStates]
  BY DEF StatusInv, Inv, Consistent, World, Worlds, NodeStates, Outcomes, Finished
<1>2. Commit(Reconciled(x, r, j))
  BY DEF CancelRunCoordinator
<1> HIDE DEF f
<1>3. /\ x.item = World.item /\ x.intent = World.intent /\ x.run = World.run
      /\ x.blocker = World.blocker
  BY DEF World
<1>4. Consistent(x)
  BY <1>1, NodesChange DEF StatusInv, Inv
<1> HIDE DEF x
<1>5. Told(x)
  BY <1>3, ToldNodes DEF StatusInv
<1>6. Told(Reconciled(x, r, j)) /\ Reconciled(x, r, j) \in Worlds
  BY <1>4, <1>5, ReconciledTells, ReconciledKeeps DEF Consistent
<1> QED
  BY <1>2, <1>6, ToldCommitted

(* An activation changes; the item is told of its runs as before. *)
LEMMA NodeTells ==
  ASSUME StatusInv, NEW a, NEW s \in NodeStates
  PROVE  Consistent([World EXCEPT !.node[a] = s]) /\ Told([World EXCEPT !.node[a] = s])
<1> DEFINE w == [World EXCEPT !.node[a] = s]
<1>1. /\ w.item = World.item /\ w.intent = World.intent /\ w.run = World.run
      /\ w.blocker = World.blocker
  BY DEF World
<1>2. Consistent(w)
  BY NodeChanges DEF StatusInv, Inv
<1> HIDE DEF w
<1>3. Told(w)
  BY <1>1, ToldNodes DEF StatusInv
<1> QED
  BY <1>2, <1>3 DEF w

LEMMA SettledTells ==
  ASSUME StatusInv, NEW a \in Activations, NEW s \in NodeStates, NEW j,
         Commit(Reconciled([World EXCEPT !.node[a] = s], a[1], j))
  PROVE  Told(World)'
<1> DEFINE w == [World EXCEPT !.node[a] = s]
<1>1. Consistent(w) /\ Told(w)
  BY NodeTells
<1>2. a[1] \in Runs /\ Commit(Reconciled(w, a[1], j))
  BY DEF Activations
<1> HIDE DEF w
<1>3. Told(Reconciled(w, a[1], j)) /\ Reconciled(w, a[1], j) \in Worlds
  BY <1>1, <1>2, ReconciledTells, ReconciledKeeps DEF Consistent
<1> QED
  BY <1>2, <1>3, ToldCommitted

LEMMA BlockedTells ==
  ASSUME StatusInv, NEW a \in Activations, NEW b \in Blockers, NEW j,
         Commit(Reconciled(Opened([World EXCEPT !.node[a] = "BLOCKED"], b), a[1], j))
  PROVE  Told(World)'
<1> DEFINE w == [World EXCEPT !.node[a] = "BLOCKED"]
           y == Opened(w, b)
<1>1. Consistent(w) /\ Told(w)
  BY NodeTells DEF NodeStates
<1>2. a[1] \in Runs /\ Commit(Reconciled(y, a[1], j))
  BY DEF Activations
<1> HIDE DEF w
<1>3. Consistent(y) /\ Told(y)
  BY <1>1, OpenedKeeps, OpenedTells
<1> HIDE DEF y
<1>4. Told(Reconciled(y, a[1], j)) /\ Reconciled(y, a[1], j) \in Worlds
  BY <1>2, <1>3, ReconciledTells, ReconciledKeeps DEF Consistent
<1> QED
  BY <1>2, <1>4, ToldCommitted

LEMMA AdmitTells ==
  ASSUME StatusInv, NEW a \in Activations, Admit(a)
  PROVE  Told(World)'
<1> DEFINE w == [World EXCEPT !.node[a] = "RUNNING"]
<1>1. w = [item |-> item, intent |-> intent, run |-> run,
           node |-> [node EXCEPT ![a] = "RUNNING"], blocker |-> blocker]
  BY DEF World
<1>2. Commit(w)
  BY <1>1 DEF Commit, Admit
<1>3. Told(w) /\ w \in Worlds
  BY NodeTells DEF NodeStates, Live, Consistent
<1> HIDE DEF w
<1> QED
  BY <1>2, <1>3, ToldCommitted

LEMMA LeaveRunningTells ==
  ASSUME StatusInv, NEW a \in Activations, LeaveRunning(a)
  PROVE  Told(World)'
<1> DEFINE w == [World EXCEPT !.node[a] = "IDLE"]
<1>1. w = [item |-> item, intent |-> intent, run |-> run,
           node |-> [node EXCEPT ![a] = "IDLE"], blocker |-> blocker]
  BY DEF World
<1>2. Commit(w)
  BY <1>1 DEF Commit, LeaveRunning
<1>3. Told(w) /\ w \in Worlds
  BY NodeTells DEF NodeStates, Live, Consistent
<1> HIDE DEF w
<1> QED
  BY <1>2, <1>3, ToldCommitted

LEMMA HoldBlocker ==
  ASSUME NEW a \in Activations
  PROVE  <<"ADMISSION", a>> \in Blockers /\ <<"SCOPE_EXPANSION_REQUIRED", a>> \in Blockers
BY DEF Blockers

(* The next activation of a branch, and the blocker that it takes the place of. *)
LEMMA ActivatedTells ==
  ASSUME StatusInv, NEW r \in Runs, run[r] = "RUNNING", NEW b, NEW c
  PROVE  LET w == Activated(World, r, b, "QUEUED") IN
           /\ Consistent(w) /\ Told(w)
           /\ Closed(w, c, "ACTIVE") \in Worlds /\ Told(Closed(w, c, "ACTIVE"))
<1> DEFINE w == Activated(World, r, b, "QUEUED")
<1>1. w.run = run
  BY DEF Activated, World
<1>2. Consistent(w) /\ Told(w)
  BY NodeTells DEF Activated, NodeStates, Live
<1> HIDE DEF w
<1>3. Told(Closed(w, c, "ACTIVE")) /\ Closed(w, c, "ACTIVE") \in Worlds
  BY <1>1, <1>2, ClosedTells, ClosedKeeps DEF Consistent
<1> QED
  BY <1>2, <1>3 DEF w

LEMMA ReactivateTells ==
  ASSUME StatusInv, NEW a \in Activations, ReactivateBlockedNodeRun(a)
  PROVE  Told(World)'
<1> DEFINE w == Activated(World, a[1], a[2], "QUEUED")
           x == Closed(w, <<"SCOPE_EXPANSION_REQUIRED", a>>, "ACTIVE")
<1>1. a[1] \in Runs /\ run[a[1]] = "RUNNING" /\ (Commit(w) \/ Commit(x))
  BY DEF ReactivateBlockedNodeRun, Activations
<1>2. w \in Worlds /\ Told(w) /\ x \in Worlds /\ Told(x)
  BY <1>1, ActivatedTells DEF Consistent
<1> HIDE DEF w, x
<1> QED
  BY <1>1, <1>2, ToldCommitted

LEMMA RetryActivationTells ==
  ASSUME StatusInv, NEW a \in Activations, RetryBlockedActivation(a)
  PROVE  Told(World)'
<1> DEFINE x == Closed(Activated(World, a[1], a[2], "QUEUED"), <<"ADMISSION", a>>, "ACTIVE")
<1>1. a[1] \in Runs /\ run[a[1]] = "RUNNING" /\ Commit(x)
  BY DEF RetryBlockedActivation, Retryable, Activations
<1>2. x \in Worlds /\ Told(x)
  BY <1>1, ActivatedTells
<1> HIDE DEF x
<1> QED
  BY <1>1, <1>2, ToldCommitted

LEMMA ResolveTells ==
  ASSUME StatusInv, NEW b \in Blockers, ResolveWorkItemBlocker(b)
  PROVE  Told(World)'
<1>1. AllFinished(World) /\ Commit(Closed(World, b, "READY"))
  BY DEF ResolveWorkItemBlocker
<1>2. Told(Closed(World, b, "READY")) /\ Closed(World, b, "READY") \in Worlds
  BY <1>1, ClosedTells, ClosedKeeps DEF StatusInv, Inv, Consistent
<1> QED
  BY <1>1, <1>2, ToldCommitted

LEMMA CommitFailsTells ==
  ASSUME StatusInv, NEW r \in Runs, LocalCommitFails(r)
  PROVE  Told(World)'
<1> DEFINE x == Opened(World, <<"RELEASE_FAILED", r>>)
<1>1. Commit(x) \/ Commit(World)
  BY DEF LocalCommitFails
<1>2. x \in Worlds /\ Told(x)
  BY EndBlockers, OpenedKeeps, OpenedTells DEF StatusInv, Inv, Consistent
<1>3. World \in Worlds /\ Told(World)
  BY DEF StatusInv, Inv, Consistent
<1> HIDE DEF x
<1> QED
  BY <1>1, <1>2, <1>3, ToldCommitted

(* The verdict on the one run that is under way. *)
LEMMA EvaluateTells ==
  ASSUME StatusInv, NEW r \in Runs, Evaluate(r)
  PROVE  Told(World)'
<1>0. MayDecide(r) /\ Consistent(World) /\ Told(World)
  BY DEF Evaluate, Pass, Block, Fail, Rework, StatusInv, Inv
<1>1. run[r] = "VERIFYING" /\ intent = "NONE"
  BY <1>0, VerifyingRun DEF StatusInv
<1>2. \A t \in UnderWayIn(World) : t = r
  BY <1>0, <1>1 DEF Told, UnderWayIn, World, Finished
<1>3. World.run = run /\ World.item = item /\ World.intent = intent
  BY DEF World
<1>4. run \in [Runs -> RunStates]
  BY <1>0 DEF Consistent, Worlds, World
<1>5. CASE Pass(r)
  <2>1. /\ World'.item = "DONE" /\ World'.intent = "NONE"
        /\ \A t \in Runs : World'.run[t] = IF t = r THEN "SUCCEEDED" ELSE run[t]
    BY <1>1, <1>4, <1>5 DEF Pass, World
  <2>2. UnderWayIn(World)' = {}
    BY <1>2, <1>3, <2>1 DEF UnderWayIn, Finished
  <2> QED
    BY <2>1, <2>2 DEF Told
<1>6. CASE Block(r)
  <2>1. /\ World'.item = "BLOCKED" /\ World'.intent = "NONE" /\ World.item = "ACTIVE"
        /\ \A t \in Runs : World'.run[t] = IF t = r THEN "BLOCKED" ELSE run[t]
    BY <1>1, <1>4, <1>6 DEF Block, World
  <2>2. UnderWayIn(World)' = {r}
    BY <1>2, <1>3, <2>1 DEF UnderWayIn, Finished
  <2>3. \A t \in Runs : World'.run[t] # "SUCCEEDED"
    BY <1>0, <1>3, <2>1 DEF Told
  <2> QED
    BY <2>1, <2>2, <2>3 DEF Told
<1>7. CASE Fail(r)
  <2> DEFINE w == [World EXCEPT !.run[r] = "FAILED"]
             b == <<"COMPLETION_POLICY_FAILED", r>>
             x == Opened(w, b)
  <2>1. Commit(x) /\ item = "ACTIVE"
    BY <1>7 DEF Fail
  <2>2. Consistent(w)
    BY <1>0, <1>1, <1>3, RunChanges DEF RunStates, Finished
  <2>3. /\ w.item = "ACTIVE" /\ w.intent = "NONE"
        /\ \A t \in Runs : w.run[t] = IF t = r THEN "FAILED" ELSE run[t]
    BY <1>1, <1>3, <1>4, <2>1 DEF World
  <2> HIDE DEF w
  <2>4. /\ x.item = "BLOCKED" /\ x.intent = "NONE" /\ x.run = w.run
        /\ x.blocker = [w.blocker EXCEPT ![b] = "OPEN"] /\ x \in Worlds
    BY <2>2, <2>3, OpenedKeeps DEF Opened, Consistent, Worlds
  <2> HIDE DEF x
  <2>5. b \in OpenBlockers(x)
    BY <2>2, <2>4, EndBlockers DEF OpenBlockers, Consistent, Worlds
  <2>6. UnderWayIn(x) = {}
    BY <1>2, <1>3, <2>3, <2>4 DEF UnderWayIn, Finished
  <2>7. \A t \in Runs : x.run[t] # "SUCCEEDED"
    BY <1>0, <1>3, <2>1, <2>3, <2>4 DEF Told
  <2>8. Told(x)
    BY <2>4, <2>5, <2>6, <2>7 DEF Told
  <2> QED
    BY <2>1, <2>4, <2>8, ToldCommitted
<1>8. CASE Rework(r)
  <2> DEFINE w == [World EXCEPT !.run[r] = "RUNNING"]
  <2>1. PICK b \in Branches : Commit(Activated(w, r, b, "PENDING"))
    BY <1>8 DEF Rework
  <2>2. Consistent(w)
    BY <1>0, <1>1, <1>3, RunChanges DEF RunStates, Finished
  <2>3. Told(w)
    BY <1>0, <1>1, <1>3, RunGoesOn
  <2> HIDE DEF w
  <2> DEFINE x == Activated(w, r, b, "PENDING")
  <2>4. x \in Worlds
    BY <2>2, ActivatedKeeps DEF Live, Consistent
  <2>5. x.item = w.item /\ x.intent = w.intent /\ x.run = w.run /\ x.blocker = w.blocker
    BY <2>2 DEF Activated, Consistent, Worlds
  <2>6. Commit(x)
    BY <2>1
  <2> HIDE DEF x
  <2>7. Told(x)
    BY <2>3, <2>5, ToldNodes
  <2> QED
    BY <2>4, <2>6, <2>7, ToldCommitted
<1> QED
  BY <1>5, <1>6, <1>7, <1>8 DEF Evaluate

LEMMA StepTells == StatusInv /\ [Next]_vars => StatusInv'
<1> SUFFICES ASSUME StatusInv, [Next]_vars PROVE StatusInv'
  OBVIOUS
<1>0. Inv'
  BY StepKeeps DEF StatusInv
<1>1. CASE MarkWorkItemReady \/ StartWorkflowRun \/ RetryWorkItem \/ CancelWorkItem
  BY <1>0, <1>1, ReadyTells, StartTells, RetryTells, CancelItemTells DEF StatusInv
<1>2. CASE \E r \in Runs : \/ CancelRun(r) \/ CancelRunCoordinator(r)
                           \/ LocalCommitFails(r) \/ Evaluate(r)
  BY <1>0, <1>2, CancelRunTells, CoordinatorTells, CommitFailsTells, EvaluateTells DEF StatusInv
<1>3. CASE \E a \in Activations : Admit(a) \/ LeaveRunning(a)
  BY <1>0, <1>3, AdmitTells, LeaveRunningTells DEF StatusInv
<1>4. CASE \E a \in Activations : BlockAdmission(a) \/ RequestScopeExpansion(a)
  <2>1. PICK a \in Activations : BlockAdmission(a) \/ RequestScopeExpansion(a)
    BY <1>4
  <2> QED
    BY <1>0, <2>1, HoldBlocker, BlockedTells DEF StatusInv, BlockAdmission, RequestScopeExpansion
<1>5. CASE \E a \in Activations : \E outcome \in Outcomes : FinalizeExecutionAttempt(a, outcome)
  BY <1>0, <1>5, SettledTells DEF StatusInv, FinalizeExecutionAttempt, NodeStates
<1>6. CASE \E a \in Activations : ReactivateBlockedNodeRun(a) \/ RetryBlockedActivation(a)
  BY <1>0, <1>6, ReactivateTells, RetryActivationTells DEF StatusInv
<1>7. CASE \E b \in Blockers : ResolveWorkItemBlocker(b)
  BY <1>0, <1>7, ResolveTells DEF StatusInv
<1>8. CASE \/ \E r \in Runs : RequestApprovalCommit(r) \/ Sweep(r)
           \/ \E a \in Activations : CloseScopeExpansion(a) \/ LoadForRetry(a)
           \/ UNCHANGED vars
  <2>1. UNCHANGED rows
    BY <1>8 DEF RequestApprovalCommit, Sweep, CloseScopeExpansion, LoadForRetry, vars, rows
  <2> QED
    BY <1>0, <2>1, ToldUntouched DEF StatusInv
<1> QED
  BY <1>1, <1>2, <1>3, <1>4, <1>5, <1>6, <1>7, <1>8 DEF Next

LEMMA ToldFirst == Init => StatusInv
<1> SUFFICES ASSUME Init PROVE StatusInv
  OBVIOUS
<1>1. /\ World.item = "BACKLOG" /\ World.intent = "NONE"
      /\ \A r \in Runs : World.run[r] = "ABSENT"
  BY DEF Init, World
<1>2. UnderWayIn(World) = {}
  BY <1>1 DEF UnderWayIn
<1> QED
  BY <1>1, <1>2, Initially DEF StatusInv, Told

LEMMA ToldIsStatus == StatusInv => StatusTellsTheRuns
<1> SUFFICES ASSUME StatusInv PROVE StatusTellsTheRuns
  OBVIOUS
<1>1. UnderWayIn(World) = UnderWay /\ World.item = item /\ World.run = run
  BY DEF UnderWayIn, UnderWay, World
<1>2. Told(World)
  BY DEF StatusInv
<1>3. Cardinality(UnderWay) <= 1
  <2>1. CASE UnderWay = {}
    BY <2>1, FS_EmptySet
  <2>2. CASE \E r \in UnderWay : TRUE
    <3>1. PICK r \in UnderWay : TRUE
      BY <2>2
    <3>2. UnderWay = {r}
      BY <1>1, <1>2, <3>1 DEF Told
    <3> QED
      BY <3>2, FS_Singleton
  <2> QED
    BY <2>1, <2>2
<1> QED
  BY <1>1, <1>2, <1>3 DEF Told, StatusTellsTheRuns

(* The status of the item tells what its runs are doing, whichever of runs,    *)
(* sweeps, operators and local commits came last, for any number of runs and   *)
(* branches: at most one run is unfinished, an ACTIVE item has one that goes   *)
(* on, an item that is over has none, and a BLOCKED one has a reason.          *)
THEOREM StatusTells == Spec => []StatusTellsTheRuns
<1>1. Spec => []StatusInv
  BY ToldFirst, StepTells, PTL DEF Spec
<1> QED
  BY <1>1, ToldIsStatus, PTL

------------------------------------------------------------------------------
(***************************************************************************)
(* Blocked work and who takes it up.                                       *)
(***************************************************************************)
HoldBlockers == {"ADMISSION", "SCOPE_EXPANSION_REQUIRED"} \X Activations
HeldUpIn(w, a) == {b \in {"ADMISSION", "SCOPE_EXPANSION_REQUIRED"} \X {a} : w.blocker[b] # "NONE"}
TakenUpIn(w, a) == a[3] < MaxActivations /\ w.node[<<a[1], a[2], a[3] + 1>>] # "ABSENT"

(* The activations of a branch are the first n, and all but the last are over   *)
(* or blocked; a run has some in every branch when it has started.              *)
ChainFits(w, r, b, n) ==
  /\ Chain(w, r, b) = 1..n
  /\ \A k \in 1..(n - 1) : w.node[<<r, b, k>>] \in Finished \union {"BLOCKED"}

Chained(w) ==
  \A r \in Runs, b \in Branches :
    IF w.run[r] = "ABSENT" THEN Chain(w, r, b) = {}
    ELSE \E n \in 1..MaxActivations : ChainFits(w, r, b, n)

(* What is blocked has one blocker, closed when it was taken up, and OPEN when  *)
(* it was not and its run goes on.                                              *)
HoldFits(w, a) ==
  /\ w.node[a] # "BLOCKED" => HeldUpIn(w, a) = {}
  /\ w.node[a] = "BLOCKED" =>
       /\ \E b \in HeldUpIn(w, a) : HeldUpIn(w, a) = {b}
       /\ TakenUpIn(w, a) => \A b \in HeldUpIn(w, a) : w.blocker[b] = "RESOLVED"
       /\ w.run[a[1]] = "RUNNING" /\ ~TakenUpIn(w, a) => \A b \in HeldUpIn(w, a) : w.blocker[b] = "OPEN"

(* A run verifies when every branch has succeeded last, and has nothing to      *)
(* execute once it does or is over.                                             *)
RunFits(w, r) ==
  /\ w.run[r] = "VERIFYING" => \A b \in Branches : Latest(w, r, b) = "SUCCEEDED"
  /\ w.run[r] \in {"VERIFYING", "BLOCKED"} \union Finished => \A b \in Branches : Latest(w, r, b) \notin Live

WorkFits(w) ==
  /\ Chained(w)
  /\ \A a \in Activations : HoldFits(w, a)
  /\ \A r \in Runs : RunFits(w, r)

(* No activation goes away; and the blockers of reports stay as they are. *)
Grows(v, w) == \A a \in Activations : v.node[a] # "ABSENT" => w.node[a] # "ABSENT"
SameReports(v, w) ==
  \A a \in Activations :
    w.blocker[<<"SCOPE_EXPANSION_REQUIRED", a>>] = v.blocker[<<"SCOPE_EXPANSION_REQUIRED", a>>]

(* The report that asked for more scope knows what became of its blocker. *)
OriginFits ==
  \A a \in Activations :
    /\ origin[a] # "NONE" => blocker[<<"SCOPE_EXPANSION_REQUIRED", a>>] # "NONE"
    /\ blocker[<<"SCOPE_EXPANSION_REQUIRED", a>>] = "RESOLVED" => origin[a] = "REACTIVATED"
    /\ origin[a] = "REACTIVATED" => TakenUp(a)

WorkInv == Inv /\ WorkFits(World) /\ OriginFits

------------------------------------------------------------------------------
(* Activations and chains. *)

LEMMA ActivationParts ==
  ASSUME NEW a \in Activations
  PROVE  /\ a[1] \in Runs /\ a[2] \in Branches /\ a[3] \in 1..MaxActivations
         /\ a = <<a[1], a[2], a[3]>>
BY DEF Activations

LEMMA MaxOfFirst == \A n \in Nat \ {0} : Max(1..n) = n
<1> TAKE n \in Nat \ {0}
<1>1. n \in 1..n /\ \A y \in 1..n : n >= y
  OBVIOUS
<1>2. \A x \in 1..n : (\A y \in 1..n : x >= y) => x = n
  OBVIOUS
<1> QED
  BY <1>1, <1>2 DEF Max

(* The chain of a branch of a started run, and its last activation. *)
LEMMA LastOfChain ==
  ASSUME NEW w, NEW r \in Runs, NEW b \in Branches, NEW n \in 1..MaxActivations, ChainFits(w, r, b, n)
  PROVE  /\ Max(Chain(w, r, b)) = n /\ Latest(w, r, b) = w.node[<<r, b, n>>]
         /\ \A k \in 1..n : <<r, b, k>> \in Activations /\ w.node[<<r, b, k>>] # "ABSENT"
         /\ \A k \in 1..MaxActivations : k > n => w.node[<<r, b, k>>] = "ABSENT"
         /\ \A k \in 1..(n - 1) : TakenUpIn(w, <<r, b, k>>)
         /\ ~TakenUpIn(w, <<r, b, n>>)
<1>1. n \in Nat \ {0} /\ MaxActivations \in Nat
  BY ItemAssumption
<1>2. Max(Chain(w, r, b)) = n
  BY <1>1, MaxOfFirst DEF ChainFits
<1>3. \A k \in 1..MaxActivations : k \in 1..n <=> w.node[<<r, b, k>>] # "ABSENT"
  BY DEF ChainFits, Chain
<1>4. \A k \in 1..n : <<r, b, k>> \in Activations /\ w.node[<<r, b, k>>] # "ABSENT"
  BY <1>1, <1>3 DEF Activations
<1>5. \A k \in 1..(n - 1) : TakenUpIn(w, <<r, b, k>>)
  <2> TAKE k \in 1..(n - 1)
  <2>1. k < MaxActivations /\ k + 1 \in 1..n /\ k + 1 \in 1..MaxActivations
    BY <1>1
  <2> QED BY <1>3, <2>1 DEF TakenUpIn
<1>6. ~TakenUpIn(w, <<r, b, n>>)
  <2>1. n < MaxActivations => n + 1 \in 1..MaxActivations /\ n + 1 \notin 1..n
    BY <1>1
  <2> QED BY <1>3, <2>1 DEF TakenUpIn
<1> QED
  BY <1>1, <1>2, <1>3, <1>4, <1>5, <1>6 DEF Latest

(* An activation that is there is of a started run, and taken up or the last. *)
LEMMA WhereItIs ==
  ASSUME NEW w, WorkFits(w), NEW a \in Activations, w.node[a] # "ABSENT"
  PROVE  /\ w.run[a[1]] # "ABSENT"
         /\ w.node[a] \in Finished \union {"BLOCKED"} \/ ~TakenUpIn(w, a)
         /\ ~TakenUpIn(w, a) => /\ Max(Chain(w, a[1], a[2])) = a[3]
                                /\ Latest(w, a[1], a[2]) = w.node[a]
<1>1. PICK r \in Runs, b \in Branches, k \in 1..MaxActivations : a = <<r, b, k>>
  BY DEF Activations
<1>2. a[1] = r /\ a[2] = b /\ a[3] = k
  BY <1>1
<1>3. k \in Chain(w, r, b)
  BY <1>1 DEF Chain
<1>4. w.run[r] # "ABSENT"
  BY <1>3 DEF WorkFits, Chained
<1>5. PICK n \in 1..MaxActivations : ChainFits(w, r, b, n)
  BY <1>4 DEF WorkFits, Chained
<1>6. k \in 1..n /\ n \in Nat
  BY <1>3, <1>5 DEF ChainFits
<1>7. CASE k = n
  <2>1. Max(Chain(w, r, b)) = n /\ Latest(w, r, b) = w.node[<<r, b, n>>] /\ ~TakenUpIn(w, <<r, b, n>>)
    BY <1>5, LastOfChain
  <2> QED
    BY <1>1, <1>2, <1>4, <1>7, <2>1
<1>8. CASE k # n
  <2>1. k \in 1..(n - 1)
    BY <1>6, <1>8
  <2>2. \A j \in 1..(n - 1) : TakenUpIn(w, <<r, b, j>>)
    BY <1>5, LastOfChain
  <2>3. w.node[<<r, b, k>>] \in Finished \union {"BLOCKED"}
    BY <1>5, <2>1 DEF ChainFits
  <2> QED
    BY <1>1, <1>2, <1>4, <2>1, <2>2, <2>3
<1> QED
  BY <1>7, <1>8

(* What can still be executed is the last of its branch, in a run that goes on  *)
(* or is being cancelled.                                                       *)
LEMMA LiveIsLast ==
  ASSUME NEW w, w \in Worlds, WorkFits(w), NEW a \in Activations, w.node[a] \in Live
  PROVE  /\ w.run[a[1]] \in {"RUNNING", "CANCELLING"}
         /\ ~TakenUpIn(w, a)
<1>1. a[1] \in Runs /\ a[2] \in Branches
  BY ActivationParts
<1>2. w.node[a] \notin Finished \union {"BLOCKED", "ABSENT"}
  BY DEF Live, Finished
<1>3. w.run[a[1]] # "ABSENT" /\ ~TakenUpIn(w, a) /\ Latest(w, a[1], a[2]) = w.node[a]
  BY <1>2, WhereItIs
<1>4. w.run[a[1]] \in RunStates
  BY <1>1 DEF Worlds
<1> QED
  BY <1>1, <1>3, <1>4 DEF WorkFits, RunFits, RunStates

------------------------------------------------------------------------------
(* What the work depends on. *)

LEMMA HoldParts ==
  ASSUME NEW a \in Activations
  PROVE  \A b \in {"ADMISSION", "SCOPE_EXPANSION_REQUIRED"} \X {a} :
           /\ b \in HoldBlockers /\ b \in Blockers
           /\ b = <<"ADMISSION", a>> \/ b = <<"SCOPE_EXPANSION_REQUIRED", a>>
BY DEF HoldBlockers, Blockers

(* Which activations are there decides which of them count, and which were      *)
(* taken up.                                                                    *)
LEMMA SameShape ==
  ASSUME NEW w, NEW x, \A a \in Activations : x.node[a] = "ABSENT" <=> w.node[a] = "ABSENT"
  PROVE  /\ \A r \in Runs, b \in Branches : Chain(x, r, b) = Chain(w, r, b)
         /\ \A a \in Activations : TakenUpIn(x, a) <=> TakenUpIn(w, a)
<1>1. \A r \in Runs, b \in Branches, k \in 1..MaxActivations : <<r, b, k>> \in Activations
  BY DEF Activations
<1>2. \A r \in Runs, b \in Branches : Chain(x, r, b) = Chain(w, r, b)
  BY <1>1 DEF Chain
<1>3. ASSUME NEW a \in Activations, a[3] < MaxActivations
      PROVE  <<a[1], a[2], a[3] + 1>> \in Activations
  BY <1>3, ItemAssumption DEF Activations
<1> QED
  BY <1>2, <1>3 DEF TakenUpIn

(* The last activation of a branch is an activation. *)
LEMMA LatestIs ==
  ASSUME NEW w, WorkFits(w), NEW r \in Runs, NEW b \in Branches, w.run[r] # "ABSENT"
  PROVE  \E k \in 1..MaxActivations :
           /\ Max(Chain(w, r, b)) = k /\ <<r, b, k>> \in Activations
           /\ Latest(w, r, b) = w.node[<<r, b, k>>] /\ ~TakenUpIn(w, <<r, b, k>>)
           /\ w.node[<<r, b, k>>] # "ABSENT"
<1>1. PICK n \in 1..MaxActivations : ChainFits(w, r, b, n)
  BY DEF WorkFits, Chained
<1>2. Max(Chain(w, r, b)) = n /\ Latest(w, r, b) = w.node[<<r, b, n>>] /\ ~TakenUpIn(w, <<r, b, n>>)
  BY <1>1, LastOfChain
<1>3. n \in Chain(w, r, b)
  BY <1>1 DEF ChainFits
<1> QED
  BY <1>2, <1>3 DEF Chain, Activations

(* The same activations under the same blockers, in runs that go on, or that    *)
(* change to a state that fits them.                                            *)
LEMMA RunsFit ==
  ASSUME NEW w, WorkFits(w), NEW x, x.node = w.node,
         \A b \in HoldBlockers : x.blocker[b] = w.blocker[b],
         \A r \in Runs : \/ x.run[r] = w.run[r]
                         \/ /\ w.run[r] # "ABSENT" /\ x.run[r] \notin {"ABSENT", "RUNNING"}
                            /\ RunFits(x, r)
  PROVE  WorkFits(x) /\ Grows(w, x) /\ SameReports(w, x)
<1>1. \A r \in Runs, b \in Branches : Chain(x, r, b) = Chain(w, r, b) /\ Latest(x, r, b) = Latest(w, r, b)
  BY DEF Chain, Latest
<1>2. Chained(x)
  BY <1>1 DEF WorkFits, Chained, ChainFits
<1>3. ASSUME NEW a \in Activations PROVE HoldFits(x, a)
  <2>1. HeldUpIn(x, a) = HeldUpIn(w, a) /\ \A b \in HeldUpIn(w, a) : x.blocker[b] = w.blocker[b]
    BY HoldParts DEF HeldUpIn
  <2>2. TakenUpIn(x, a) <=> TakenUpIn(w, a)
    BY DEF TakenUpIn
  <2>3. a[1] \in Runs
    BY ActivationParts
  <2>4. x.run[a[1]] = "RUNNING" => w.run[a[1]] = "RUNNING"
    BY <2>3
  <2>5. HoldFits(w, a)
    BY DEF WorkFits
  <2> QED
    BY <2>1, <2>2, <2>4, <2>5 DEF HoldFits
<1>4. ASSUME NEW r \in Runs PROVE RunFits(x, r)
  BY <1>1 DEF WorkFits, RunFits
<1>5. Grows(w, x)
  BY DEF Grows
<1>6. SameReports(w, x)
  BY DEF SameReports, HoldBlockers
<1> QED
  BY <1>2, <1>3, <1>4, <1>5, <1>6 DEF WorkFits

(* Activations that could still be executed settle, or come closer to it. *)
LEMMA NodesFit ==
  ASSUME NEW w, w \in Worlds, WorkFits(w), NEW x, x.run = w.run,
         \A b \in HoldBlockers : x.blocker[b] = w.blocker[b],
         \A a \in Activations : \/ x.node[a] = w.node[a]
                                \/ w.node[a] \in Live /\ x.node[a] \in Live \union Outcomes
  PROVE  WorkFits(x) /\ Grows(w, x) /\ SameReports(w, x)
<1>1. /\ \A a \in Activations : x.node[a] = "ABSENT" <=> w.node[a] = "ABSENT"
      /\ \A a \in Activations : x.node[a] = "BLOCKED" <=> w.node[a] = "BLOCKED"
  BY DEF Live, Outcomes, Finished
<1>2. /\ \A r \in Runs, b \in Branches : Chain(x, r, b) = Chain(w, r, b)
      /\ \A a \in Activations : TakenUpIn(x, a) <=> TakenUpIn(w, a)
  BY <1>1, SameShape
<1>3. Chained(x)
  <2>1. ASSUME NEW r \in Runs, NEW b \in Branches, NEW n \in 1..MaxActivations, ChainFits(w, r, b, n)
        PROVE  ChainFits(x, r, b, n)
    <3>1. \A k \in 1..(n - 1) : <<r, b, k>> \in Activations
      BY ItemAssumption DEF Activations
    <3>2. \A k \in 1..(n - 1) : w.node[<<r, b, k>>] \notin Live
      BY <2>1 DEF ChainFits, Live, Finished
    <3> QED
      BY <1>2, <2>1, <3>1, <3>2 DEF ChainFits
  <2> QED
    BY <1>2, <2>1 DEF WorkFits, Chained
<1>4. ASSUME NEW a \in Activations PROVE HoldFits(x, a)
  <2>1. HeldUpIn(x, a) = HeldUpIn(w, a) /\ \A b \in HeldUpIn(w, a) : x.blocker[b] = w.blocker[b]
    BY HoldParts DEF HeldUpIn
  <2>2. HoldFits(w, a)
    BY DEF WorkFits
  <2> QED
    BY <1>1, <1>2, <2>1, <2>2 DEF HoldFits
<1>5. ASSUME NEW r \in Runs PROVE RunFits(x, r)
  <2> SUFFICES ASSUME x.run[r] \in {"VERIFYING", "BLOCKED"} \union Finished, NEW b \in Branches
               PROVE  Latest(x, r, b) = Latest(w, r, b)
    BY DEF RunFits, WorkFits
  <2>1. w.run[r] # "ABSENT" /\ Latest(w, r, b) \notin Live
    BY DEF WorkFits, RunFits, Finished
  <2>2. PICK k \in 1..MaxActivations :
          /\ Max(Chain(w, r, b)) = k /\ <<r, b, k>> \in Activations
          /\ Latest(w, r, b) = w.node[<<r, b, k>>]
    BY <2>1, LatestIs
  <2> QED
    BY <1>2, <2>1, <2>2 DEF Latest
<1>6. Grows(w, x)
  BY <1>1 DEF Grows
<1>7. SameReports(w, x)
  BY DEF SameReports, HoldBlockers
<1> QED
  BY <1>3, <1>4, <1>5, <1>6, <1>7 DEF WorkFits

(* An activation that was to be executed is blocked, with its one blocker. *)
LEMMA BlockedFits ==
  ASSUME NEW w, w \in Worlds, WorkFits(w), NEW a \in Activations, w.node[a] \in Live,
         NEW kind \in {"ADMISSION", "SCOPE_EXPANSION_REQUIRED"}
  PROVE  LET x == Opened([w EXCEPT !.node[a] = "BLOCKED"], <<kind, a>>) IN
           /\ WorkFits(x) /\ Grows(w, x)
           /\ x.blocker = [w.blocker EXCEPT ![<<kind, a>>] = "OPEN"]
<1> DEFINE x == Opened([w EXCEPT !.node[a] = "BLOCKED"], <<kind, a>>)
<1>1. x.run = w.run /\ x.blocker = [w.blocker EXCEPT ![<<kind, a>>] = "OPEN"]
  BY DEF Opened, Worlds
<1>2. /\ \A c \in Activations : x.node[c] = IF c = a THEN "BLOCKED" ELSE w.node[c]
      /\ \A b \in Blockers : x.blocker[b] = IF b = <<kind, a>> THEN "OPEN" ELSE w.blocker[b]
  BY DEF Opened, Worlds
<1> HIDE DEF x
<1>3. w.run[a[1]] \in {"RUNNING", "CANCELLING"} /\ ~TakenUpIn(w, a)
  BY LiveIsLast
<1>4. \A c \in Activations : x.node[c] = "ABSENT" <=> w.node[c] = "ABSENT"
  BY <1>2 DEF Live
<1>5. /\ \A r \in Runs, b \in Branches : Chain(x, r, b) = Chain(w, r, b)
      /\ \A c \in Activations : TakenUpIn(x, c) <=> TakenUpIn(w, c)
  BY <1>4, SameShape
<1>6. Chained(x)
  <2>1. ASSUME NEW r \in Runs, NEW b \in Branches, NEW n \in 1..MaxActivations, ChainFits(w, r, b, n)
        PROVE  ChainFits(x, r, b, n)
    <3>1. \A k \in 1..(n - 1) : <<r, b, k>> \in Activations
      BY ItemAssumption DEF Activations
    <3> QED
      BY <1>2, <1>5, <2>1, <3>1 DEF ChainFits
  <2> QED
    BY <1>1, <1>5, <2>1 DEF WorkFits, Chained
<1>7. ASSUME NEW c \in Activations PROVE HoldFits(x, c)
  <2>1. HoldFits(w, c)
    BY DEF WorkFits
  <2>2. CASE c # a
    <3>1. \A b \in {"ADMISSION", "SCOPE_EXPANSION_REQUIRED"} \X {c} : x.blocker[b] = w.blocker[b]
      BY <1>2, <2>2, HoldParts
    <3>2. HeldUpIn(x, c) = HeldUpIn(w, c) /\ \A b \in HeldUpIn(w, c) : x.blocker[b] = w.blocker[b]
      BY <3>1 DEF HeldUpIn
    <3>3. x.node[c] = w.node[c] /\ (TakenUpIn(x, c) <=> TakenUpIn(w, c)) /\ x.run = w.run
      BY <1>1, <1>2, <1>5, <2>2
    <3> QED
      BY <2>1, <3>2, <3>3 DEF HoldFits
  <2>3. CASE c = a
    <3>1. HeldUpIn(w, a) = {}
      BY <2>1, <2>3 DEF HoldFits, Live
    <3>2. <<kind, a>> \in {"ADMISSION", "SCOPE_EXPANSION_REQUIRED"} \X {a}
      OBVIOUS
    <3>3. \A b \in {"ADMISSION", "SCOPE_EXPANSION_REQUIRED"} \X {a} :
            x.blocker[b] = IF b = <<kind, a>> THEN "OPEN" ELSE "NONE"
      BY <1>2, <3>1, HoldParts DEF HeldUpIn
    <3>4. HeldUpIn(x, a) = {<<kind, a>>}
      BY <3>2, <3>3 DEF HeldUpIn
    <3>5. ~TakenUpIn(x, a) /\ x.node[a] = "BLOCKED" /\ x.blocker[<<kind, a>>] = "OPEN"
      BY <1>2, <1>3, <1>5, <3>2, <3>3
    <3> QED
      BY <2>3, <3>4, <3>5 DEF HoldFits
  <2> QED
    BY <2>2, <2>3
<1>8. ASSUME NEW r \in Runs PROVE RunFits(x, r)
  <2> SUFFICES ASSUME x.run[r] \in {"VERIFYING", "BLOCKED"} \union Finished, NEW b \in Branches
               PROVE  Latest(x, r, b) = Latest(w, r, b)
    BY <1>1 DEF RunFits, WorkFits
  <2>1. w.run[r] # "ABSENT" /\ a[1] # r
    BY <1>1, <1>3 DEF Finished
  <2>2. PICK k \in 1..MaxActivations :
          /\ Max(Chain(w, r, b)) = k /\ <<r, b, k>> \in Activations
          /\ Latest(w, r, b) = w.node[<<r, b, k>>]
    BY <2>1, LatestIs
  <2>3. <<r, b, k>> # a
    BY <2>1, ActivationParts
  <2> QED
    BY <1>2, <1>5, <2>2, <2>3 DEF Latest
<1>9. Grows(w, x)
  BY <1>4 DEF Grows
<1> QED
  BY <1>1, <1>6, <1>7, <1>8, <1>9 DEF WorkFits, x

(* A branch of a started run has a last activation, and none after it. *)
LEMMA ChainEnds ==
  ASSUME NEW w, WorkFits(w), NEW r \in Runs, NEW b \in Branches, w.run[r] # "ABSENT"
  PROVE  \E n \in 1..MaxActivations :
           /\ ChainFits(w, r, b, n) /\ Max(Chain(w, r, b)) = n
           /\ Latest(w, r, b) = w.node[<<r, b, n>>]
           /\ \A k \in 1..MaxActivations : k > n => w.node[<<r, b, k>>] = "ABSENT"
<1>1. PICK n \in 1..MaxActivations : ChainFits(w, r, b, n)
  BY DEF WorkFits, Chained
<1>2. Max(Chain(w, r, b)) = n /\ Latest(w, r, b) = w.node[<<r, b, n>>] /\ ~TakenUpIn(w, <<r, b, n>>)
  BY <1>1, LastOfChain
<1>3. \A k \in 1..MaxActivations : k > n => w.node[<<r, b, k>>] = "ABSENT"
  BY <1>1, ItemAssumption DEF ChainFits, Chain
<1> QED
  BY <1>1, <1>2, <1>3

(* The next activation of a branch whose last one is over or blocked. *)
LEMMA Appended ==
  ASSUME NEW w, w \in Worlds, WorkFits(w), NEW r \in Runs, NEW b \in Branches, w.run[r] # "ABSENT",
         Latest(w, r, b) \in Finished \union {"BLOCKED"}, CanActivate(w, r, b),
         NEW s \in Live, NEW x, x.node = Activated(w, r, b, s).node,
         \A t \in Runs : x.run[t] = "ABSENT" <=> w.run[t] = "ABSENT"
  PROVE  \E n \in 1..(MaxActivations - 1) :
           /\ n = Max(Chain(w, r, b)) /\ <<r, b, n>> \in Activations /\ <<r, b, n + 1>> \in Activations
           /\ w.node[<<r, b, n + 1>>] = "ABSENT" /\ w.node[<<r, b, n>>] = Latest(w, r, b)
           /\ \A a \in Activations : x.node[a] = IF a = <<r, b, n + 1>> THEN s ELSE w.node[a]
           /\ \A a \in Activations : TakenUpIn(x, a) <=> TakenUpIn(w, a) \/ a = <<r, b, n>>
           /\ Chained(x) /\ Grows(w, x)
           /\ \A t \in Runs, c \in Branches :
                (t # r \/ c # b) /\ w.run[t] # "ABSENT" => Latest(x, t, c) = Latest(w, t, c)
<1>0. MaxActivations \in Nat \ {0}
  BY ItemAssumption
<1>1. PICK n \in 1..MaxActivations :
        /\ ChainFits(w, r, b, n) /\ Max(Chain(w, r, b)) = n
        /\ Latest(w, r, b) = w.node[<<r, b, n>>]
        /\ \A k \in 1..MaxActivations : k > n => w.node[<<r, b, k>>] = "ABSENT"
  BY ChainEnds
<1>2. /\ Max(Chain(w, r, b)) = n /\ Latest(w, r, b) = w.node[<<r, b, n>>]
      /\ \A k \in 1..MaxActivations : k > n => w.node[<<r, b, k>>] = "ABSENT"
  BY <1>1
<1>3. /\ n < MaxActivations /\ n \in 1..(MaxActivations - 1)
      /\ n + 1 \in 1..MaxActivations /\ n + 1 > n
  BY <1>0, <1>2 DEF CanActivate
<1>4. /\ <<r, b, n>> \in Activations /\ <<r, b, n + 1>> \in Activations
      /\ w.node[<<r, b, n + 1>>] = "ABSENT"
  BY <1>2, <1>3 DEF Activations
<1>5. \A a \in Activations : x.node[a] = IF a = <<r, b, n + 1>> THEN s ELSE w.node[a]
  BY <1>2, <1>4 DEF Activated, Worlds
<1>6. \A a \in Activations : x.node[a] # "ABSENT" <=> w.node[a] # "ABSENT" \/ a = <<r, b, n + 1>>
  BY <1>5, <1>4 DEF Live
<1>7. Grows(w, x)
  BY <1>6 DEF Grows
<1>8. \A a \in Activations : TakenUpIn(x, a) <=> TakenUpIn(w, a) \/ a = <<r, b, n>>
  <2> TAKE a \in Activations
  <2>1. PICK t \in Runs, c \in Branches, k \in 1..MaxActivations : a = <<t, c, k>>
    BY DEF Activations
  <2>2. a[1] = t /\ a[2] = c /\ a[3] = k
    BY <2>1
  <2>3. CASE k < MaxActivations
    <3>1. <<t, c, k + 1>> \in Activations
      BY <1>0, <2>3 DEF Activations
    <3>2. <<t, c, k + 1>> = <<r, b, n + 1>> <=> <<t, c, k>> = <<r, b, n>>
      OBVIOUS
    <3> QED
      BY <1>6, <2>1, <2>2, <2>3, <3>1, <3>2 DEF TakenUpIn
  <2>4. CASE ~(k < MaxActivations)
    BY <1>3, <2>1, <2>2, <2>4 DEF TakenUpIn
  <2> QED
    BY <2>3, <2>4
<1>9. ASSUME NEW t \in Runs, NEW c \in Branches, t # r \/ c # b
      PROVE  /\ Chain(x, t, c) = Chain(w, t, c)
             /\ \A k \in 1..MaxActivations : x.node[<<t, c, k>>] = w.node[<<t, c, k>>]
  <2>1. \A k \in 1..MaxActivations : <<t, c, k>> \in Activations /\ <<t, c, k>> # <<r, b, n + 1>>
    BY <1>9 DEF Activations
  <2> QED
    BY <1>5, <2>1 DEF Chain
<1>10. ChainFits(x, r, b, n + 1)
  <2>1. \A k \in 1..MaxActivations : <<r, b, k>> \in Activations /\ (<<r, b, k>> = <<r, b, n + 1>> <=> k = n + 1)
    BY DEF Activations
  <2>2. Chain(x, r, b) = Chain(w, r, b) \union {n + 1}
    BY <1>3, <1>6, <2>1 DEF Chain
  <2>3. Chain(x, r, b) = 1..(n + 1)
    BY <1>1, <1>3, <2>2 DEF ChainFits
  <2>4. ASSUME NEW k \in 1..n PROVE x.node[<<r, b, k>>] \in Finished \union {"BLOCKED"}
    <3>1. k \in 1..MaxActivations /\ k # n + 1
      BY <1>0, <1>3
    <3>2. x.node[<<r, b, k>>] = w.node[<<r, b, k>>]
      BY <1>5, <2>1, <3>1
    <3>3. k = n \/ k \in 1..(n - 1)
      BY <1>3
    <3> QED
      BY <1>1, <1>2, <3>2, <3>3 DEF ChainFits
  <2>5. (n + 1) - 1 = n
    BY <1>3
  <2> QED
    BY <2>3, <2>4, <2>5 DEF ChainFits
<1>11. Chained(x)
  <2> SUFFICES ASSUME NEW t \in Runs, NEW c \in Branches
               PROVE  IF x.run[t] = "ABSENT" THEN Chain(x, t, c) = {}
                      ELSE \E m \in 1..MaxActivations : ChainFits(x, t, c, m)
    BY DEF Chained
  <2>1. CASE t = r /\ c = b
    BY <1>3, <1>10, <2>1
  <2>2. CASE t # r \/ c # b
    <3>1. CASE w.run[t] = "ABSENT"
      BY <1>9, <2>2, <3>1 DEF WorkFits, Chained
    <3>2. CASE w.run[t] # "ABSENT"
      <4>1. PICK m \in 1..MaxActivations : ChainFits(w, t, c, m)
        BY <3>2 DEF WorkFits, Chained
      <4>2. \A k \in 1..(m - 1) : k \in 1..MaxActivations
        BY <1>0
      <4>3. ChainFits(x, t, c, m)
        BY <1>9, <2>2, <4>1, <4>2 DEF ChainFits
      <4> QED
        BY <3>2, <4>3
    <3> QED
      BY <3>1, <3>2
  <2> QED
    BY <2>1, <2>2
<1>12. ASSUME NEW t \in Runs, NEW c \in Branches, t # r \/ c # b, w.run[t] # "ABSENT"
       PROVE  Latest(x, t, c) = Latest(w, t, c)
  <2>1. PICK k \in 1..MaxActivations : Max(Chain(w, t, c)) = k
    BY <1>12, LatestIs
  <2> QED
    BY <1>9, <1>12, <2>1 DEF Latest
<1> QED
  BY <1>2, <1>3, <1>4, <1>5, <1>7, <1>8, <1>11, <1>12

(* A run that verified is taken up again: all that is blocked in it was taken   *)
(* up before.                                                                   *)
LEMMA ReworkFits ==
  ASSUME NEW w, w \in Worlds, WorkFits(w), NEW r \in Runs, NEW b \in Branches,
         w.run[r] = "VERIFYING", CanActivate(w, r, b)
  PROVE  LET x == Activated([w EXCEPT !.run[r] = "RUNNING"], r, b, "PENDING") IN
           WorkFits(x) /\ Grows(w, x) /\ SameReports(w, x)
<1> DEFINE x == Activated([w EXCEPT !.run[r] = "RUNNING"], r, b, "PENDING")
<1>1. /\ \A t \in Runs : x.run[t] = IF t = r THEN "RUNNING" ELSE w.run[t]
      /\ x.blocker = w.blocker
      /\ x.node = Activated(w, r, b, "PENDING").node
  BY DEF Activated, Worlds, Chain
<1> HIDE DEF x
<1>2. \A c \in Branches : Latest(w, r, c) = "SUCCEEDED"
  BY DEF WorkFits, RunFits
<1>3. PICK n \in 1..(MaxActivations - 1) :
           /\ n = Max(Chain(w, r, b)) /\ <<r, b, n>> \in Activations /\ <<r, b, n + 1>> \in Activations
           /\ w.node[<<r, b, n + 1>>] = "ABSENT" /\ w.node[<<r, b, n>>] = Latest(w, r, b)
           /\ \A a \in Activations : x.node[a] = IF a = <<r, b, n + 1>> THEN "PENDING" ELSE w.node[a]
           /\ \A a \in Activations : TakenUpIn(x, a) <=> TakenUpIn(w, a) \/ a = <<r, b, n>>
           /\ Chained(x) /\ Grows(w, x)
           /\ \A t \in Runs, c \in Branches :
                (t # r \/ c # b) /\ w.run[t] # "ABSENT" => Latest(x, t, c) = Latest(w, t, c)
  <2>1. Latest(w, r, b) \in Finished \union {"BLOCKED"} /\ "PENDING" \in Live
    BY <1>2 DEF Finished, Live
  <2>2. \A t \in Runs : x.run[t] = "ABSENT" <=> w.run[t] = "ABSENT"
    BY <1>1
  <2> QED
    BY <1>1, <2>1, <2>2, Appended
<1>4. ASSUME NEW a \in Activations PROVE HoldFits(x, a)
  <2>1. HoldFits(w, a) /\ HeldUpIn(x, a) = HeldUpIn(w, a)
    BY <1>1 DEF WorkFits, HeldUpIn
  <2>2. CASE a = <<r, b, n + 1>>
    BY <1>3, <2>1, <2>2 DEF HoldFits
  <2>3. CASE a # <<r, b, n + 1>> /\ w.node[a] # "BLOCKED"
    BY <1>3, <2>1, <2>3 DEF HoldFits
  <2>4. CASE a # <<r, b, n + 1>> /\ w.node[a] = "BLOCKED"
    <3>1. a # <<r, b, n>>
      BY <1>2, <1>3, <2>4
    <3>2. a[1] = r => TakenUpIn(w, a)
      <4>1. a[2] \in Branches
        BY ActivationParts
      <4> QED
        BY <1>2, <2>4, <4>1, WhereItIs
    <3>3. a[1] \in Runs
      BY ActivationParts
    <3>4. x.run[a[1]] = "RUNNING" => a[1] = r \/ w.run[a[1]] = "RUNNING"
      BY <1>1, <3>3
    <3>5. x.node[a] = "BLOCKED" /\ (TakenUpIn(x, a) <=> TakenUpIn(w, a))
      BY <1>3, <2>4, <3>1
    <3> QED
      BY <1>1, <2>1, <2>4, <3>2, <3>4, <3>5 DEF HoldFits
  <2> QED
    BY <2>2, <2>3, <2>4
<1>5. ASSUME NEW t \in Runs PROVE RunFits(x, t)
  <2>1. CASE t = r
    BY <1>1, <2>1 DEF RunFits, Finished
  <2>2. CASE t # r
    BY <1>1, <1>3, <2>2 DEF WorkFits, RunFits, Finished
  <2> QED
    BY <2>1, <2>2
<1>6. SameReports(w, x)
  BY <1>1 DEF SameReports
<1> QED
  BY <1>3, <1>4, <1>5, <1>6 DEF WorkFits, x

(* What is blocked is taken up: its blocker is closed and the next activation   *)
(* is there.                                                                    *)
LEMMA TakenUpFits ==
  ASSUME NEW w, w \in Worlds, WorkFits(w), NEW a \in Activations, w.node[a] = "BLOCKED",
         ~TakenUpIn(w, a), CanActivate(w, a[1], a[2]), w.run[a[1]] = "RUNNING",
         NEW blk \in HeldUpIn(w, a)
  PROVE  LET x == Closed(Activated(w, a[1], a[2], "QUEUED"), blk, "ACTIVE") IN
           /\ WorkFits(x) /\ Grows(w, x) /\ TakenUpIn(x, a)
           /\ x.blocker = [w.blocker EXCEPT ![blk] = "RESOLVED"]
<1> DEFINE r == a[1]
           b == a[2]
           y == Activated(w, r, b, "QUEUED")
           x == Closed(y, blk, "ACTIVE")
<1>0. y \in Worlds /\ y.run = w.run /\ y.blocker = w.blocker
  BY DEF Activated, Worlds, NodeStates, Live
<1> HIDE DEF y
<1>1. x.run = w.run /\ x.node = y.node /\ x.blocker = [w.blocker EXCEPT ![blk] = "RESOLVED"]
  BY <1>0 DEF Closed, Worlds
<1> HIDE DEF x
<1>2. r \in Runs /\ b \in Branches /\ a = <<r, b, a[3]>>
  BY ActivationParts
<1> HIDE DEF r, b
<1>3. Latest(w, r, b) = "BLOCKED" /\ Max(Chain(w, r, b)) = a[3] /\ w.run[r] # "ABSENT"
  BY WhereItIs DEF r, b
<1>4. PICK n \in 1..(MaxActivations - 1) :
           /\ n = Max(Chain(w, r, b)) /\ <<r, b, n>> \in Activations /\ <<r, b, n + 1>> \in Activations
           /\ w.node[<<r, b, n + 1>>] = "ABSENT" /\ w.node[<<r, b, n>>] = Latest(w, r, b)
           /\ \A c \in Activations : x.node[c] = IF c = <<r, b, n + 1>> THEN "QUEUED" ELSE w.node[c]
           /\ \A c \in Activations : TakenUpIn(x, c) <=> TakenUpIn(w, c) \/ c = <<r, b, n>>
           /\ Chained(x) /\ Grows(w, x)
           /\ \A t \in Runs, c \in Branches :
                (t # r \/ c # b) /\ w.run[t] # "ABSENT" => Latest(x, t, c) = Latest(w, t, c)
  <2>1. Latest(w, r, b) \in Finished \union {"BLOCKED"} /\ "QUEUED" \in Live
    BY <1>3 DEF Live
  <2>2. \A t \in Runs : x.run[t] = "ABSENT" <=> w.run[t] = "ABSENT"
    BY <1>1
  <2>3. x.node = Activated(w, r, b, "QUEUED").node /\ CanActivate(w, r, b)
    BY <1>1 DEF y, r, b
  <2> QED
    BY <1>2, <1>3, <2>1, <2>2, <2>3, Appended
<1>5. a = <<r, b, n>>
  BY <1>2, <1>3, <1>4
<1>6. blk \in {"ADMISSION", "SCOPE_EXPANSION_REQUIRED"} \X {a} /\ HeldUpIn(w, a) = {blk}
  BY DEF WorkFits, HoldFits, HeldUpIn
<1>7. \A d \in Blockers : x.blocker[d] = IF d = blk THEN "RESOLVED" ELSE w.blocker[d]
  BY <1>1 DEF Worlds
<1>8. ASSUME NEW c \in Activations PROVE HoldFits(x, c)
  <2>1. HoldFits(w, c)
    BY DEF WorkFits
  <2>2. CASE c = a
    <3>1. HeldUpIn(x, a) = {blk} /\ x.blocker[blk] = "RESOLVED"
      BY <1>6, <1>7, HoldParts DEF HeldUpIn
    <3> QED
      BY <1>4, <1>5, <2>1, <2>2, <3>1 DEF HoldFits
  <2>3. CASE c # a
    <3>1. \A d \in {"ADMISSION", "SCOPE_EXPANSION_REQUIRED"} \X {c} : x.blocker[d] = w.blocker[d]
      BY <1>6, <1>7, <2>3, HoldParts
    <3>2. HeldUpIn(x, c) = HeldUpIn(w, c) /\ \A d \in HeldUpIn(w, c) : x.blocker[d] = w.blocker[d]
      BY <3>1 DEF HeldUpIn
    <3>3. CASE c = <<r, b, n + 1>>
      BY <1>4, <2>1, <3>2, <3>3 DEF HoldFits
    <3>4. CASE c # <<r, b, n + 1>>
      <4>1. x.node[c] = w.node[c] /\ (TakenUpIn(x, c) <=> TakenUpIn(w, c))
        BY <1>4, <1>5, <2>3, <3>4
      <4> QED
        BY <1>1, <2>1, <3>2, <4>1 DEF HoldFits
    <3> QED
      BY <3>3, <3>4
  <2> QED
    BY <2>2, <2>3
<1>9. ASSUME NEW t \in Runs PROVE RunFits(x, t)
  <2>1. CASE t = r
    BY <1>1, <2>1 DEF RunFits, Finished, r
  <2>2. CASE t # r
    BY <1>1, <1>4, <2>2 DEF WorkFits, RunFits, Finished
  <2> QED
    BY <2>1, <2>2
<1>10. TakenUpIn(x, a)
  BY <1>4, <1>5
<1> QED
  BY <1>1, <1>4, <1>8, <1>9, <1>10 DEF WorkFits, x, y, r, b

(* An operator closes a blocker of an item whose runs are all finished. *)
LEMMA ResolvedFits ==
  ASSUME NEW w, w \in Worlds, WorkFits(w), AllFinished(w), NEW d \in Blockers, w.blocker[d] = "OPEN",
         d[1] # "SCOPE_EXPANSION_REQUIRED"
  PROVE  LET x == Closed(w, d, "READY") IN
           WorkFits(x) /\ Grows(w, x) /\ SameReports(w, x)
<1> DEFINE x == Closed(w, d, "READY")
<1>1. x.run = w.run /\ x.node = w.node /\ x.blocker = [w.blocker EXCEPT ![d] = "RESOLVED"]
  BY DEF Closed, Worlds
<1> HIDE DEF x
<1>2. \A c \in Blockers : x.blocker[c] = IF c = d THEN "RESOLVED" ELSE w.blocker[c]
  BY <1>1 DEF Worlds
<1>3. Chained(x) /\ \A r \in Runs : RunFits(x, r)
  <2>1. \A r \in Runs, b \in Branches : Chain(x, r, b) = Chain(w, r, b) /\ Latest(x, r, b) = Latest(w, r, b)
    BY <1>1 DEF Chain, Latest
  <2> QED
    BY <1>1, <2>1 DEF WorkFits, Chained, ChainFits, RunFits
<1>4. ASSUME NEW a \in Activations PROVE HoldFits(x, a)
  <2>1. \A c \in {"ADMISSION", "SCOPE_EXPANSION_REQUIRED"} \X {a} :
          /\ x.blocker[c] # "NONE" <=> w.blocker[c] # "NONE"
          /\ w.blocker[c] = "RESOLVED" => x.blocker[c] = "RESOLVED"
    BY <1>2, HoldParts
  <2>2. /\ HeldUpIn(x, a) = HeldUpIn(w, a)
        /\ \A c \in HeldUpIn(w, a) : w.blocker[c] = "RESOLVED" => x.blocker[c] = "RESOLVED"
    BY <2>1 DEF HeldUpIn
  <2>3. x.run[a[1]] # "RUNNING"
    BY <1>1, ActivationParts DEF AllFinished, Finished
  <2>4. TakenUpIn(x, a) <=> TakenUpIn(w, a)
    BY <1>1 DEF TakenUpIn
  <2>5. HoldFits(w, a)
    BY DEF WorkFits
  <2> QED
    BY <1>1, <2>2, <2>3, <2>4, <2>5 DEF HoldFits
<1>5. Grows(w, x) /\ SameReports(w, x)
  BY <1>1, <1>2, HoldBlocker DEF Grows, SameReports
<1> QED
  BY <1>3, <1>4, <1>5 DEF WorkFits, x

(* A started run has its first activations, under no blocker. *)
LEMMA StartedFits ==
  ASSUME NEW w, Consistent(w), WorkFits(w), CanStart(w)
  PROVE  LET x == RunStarted(w) IN
           WorkFits(x) /\ Grows(w, x) /\ SameReports(w, x)
<1> DEFINE r == Cardinality(Started(w)) + 1
           x == RunStarted(w)
<1>1. w \in Worlds
  BY DEF Consistent
<1>2. /\ \A t \in Runs : x.run[t] = IF t = r THEN "RUNNING" ELSE w.run[t]
      /\ \A a \in Activations : x.node[a] = IF a[1] = r /\ a[3] = 1 THEN "QUEUED" ELSE w.node[a]
      /\ x.blocker = w.blocker
  BY <1>1 DEF RunStarted, Worlds
<1>3. r \in Runs /\ w.run[r] = "ABSENT"
  <2>1. PICK n \in 0..MaxRuns : Started(w) = 1..n
    BY DEF Consistent, InOrder
  <2>2. Cardinality(1..n) = n
    BY ItemAssumption, FS_Interval
  <2>3. n # MaxRuns
    BY <2>1 DEF CanStart, Runs
  <2>4. n + 1 \in Runs /\ n + 1 \notin 1..n
    BY <2>3, ItemAssumption DEF Runs
  <2> QED
    BY <2>1, <2>2, <2>4 DEF Started
<1> HIDE DEF x, r
<1>4. \A b \in Branches, k \in 1..MaxActivations : w.node[<<r, b, k>>] = "ABSENT"
  BY <1>3 DEF WorkFits, Chained, Chain
<1>5. \A t \in Runs, b \in Branches, k \in 1..MaxActivations :
        x.node[<<t, b, k>>] = IF t = r THEN IF k = 1 THEN "QUEUED" ELSE "ABSENT" ELSE w.node[<<t, b, k>>]
  BY <1>2, <1>4 DEF Activations
<1>6. \A t \in Runs, b \in Branches : t # r => Chain(x, t, b) = Chain(w, t, b)
  BY <1>5 DEF Chain
<1>7. \A b \in Branches : Chain(x, r, b) = {1}
  BY <1>3, <1>5, ItemAssumption DEF Chain
<1>8. ASSUME NEW t \in Runs, NEW b \in Branches
      PROVE  IF x.run[t] = "ABSENT" THEN Chain(x, t, b) = {}
             ELSE \E m \in 1..MaxActivations : ChainFits(x, t, b, m)
  <2>1. CASE t = r
    <3>1. {1} = 1..1 /\ 1..(1 - 1) = {} /\ 1 \in 1..MaxActivations
      BY ItemAssumption
    <3>2. ChainFits(x, r, b, 1)
      BY <1>7, <3>1 DEF ChainFits
    <3> QED
      BY <1>2, <2>1, <3>1, <3>2
  <2>2. CASE t # r /\ w.run[t] = "ABSENT"
    BY <1>2, <1>6, <2>2 DEF WorkFits, Chained
  <2>3. CASE t # r /\ w.run[t] # "ABSENT"
    <3>1. PICK m \in 1..MaxActivations : ChainFits(w, t, b, m)
      BY <2>3 DEF WorkFits, Chained
    <3>2. \A k \in 1..(m - 1) : k \in 1..MaxActivations
      BY ItemAssumption
    <3>3. ChainFits(x, t, b, m)
      BY <1>5, <1>6, <2>3, <3>1, <3>2 DEF ChainFits
    <3> QED
      BY <1>2, <2>3, <3>3
  <2> QED
    BY <2>1, <2>2, <2>3
<1>9. ASSUME NEW a \in Activations PROVE HoldFits(x, a)
  <2>1. PICK t \in Runs, b \in Branches, k \in 1..MaxActivations : a = <<t, b, k>>
    BY DEF Activations
  <2>2. a[1] = t /\ a[2] = b /\ a[3] = k
    BY <2>1
  <2>3. HoldFits(w, a) /\ HeldUpIn(x, a) = HeldUpIn(w, a)
    BY <1>2 DEF WorkFits, HeldUpIn
  <2>4. CASE t = r
    <3>1. w.node[a] = "ABSENT" /\ x.node[a] \in {"QUEUED", "ABSENT"}
      BY <1>4, <1>5, <2>1, <2>4
    <3> QED
      BY <2>3, <3>1 DEF HoldFits
  <2>5. CASE t # r
    <3>1. k < MaxActivations => k + 1 \in 1..MaxActivations
      BY ItemAssumption
    <3>2. x.node[a] = w.node[a] /\ (TakenUpIn(x, a) <=> TakenUpIn(w, a))
      BY <1>5, <2>1, <2>2, <2>5, <3>1 DEF TakenUpIn
    <3> QED
      BY <1>2, <2>2, <2>3, <2>5, <3>2 DEF HoldFits
  <2> QED
    BY <2>4, <2>5
<1>10. ASSUME NEW t \in Runs PROVE RunFits(x, t)
  <2>1. CASE t = r
    BY <1>2, <2>1 DEF RunFits, Finished
  <2>2. CASE t # r
    <3> SUFFICES ASSUME x.run[t] \in {"VERIFYING", "BLOCKED"} \union Finished, NEW b \in Branches
                 PROVE  Latest(x, t, b) = Latest(w, t, b)
      BY <1>2, <2>2 DEF RunFits, WorkFits
    <3>1. w.run[t] # "ABSENT"
      BY <1>2, <2>2 DEF Finished
    <3>2. PICK k \in 1..MaxActivations : Max(Chain(w, t, b)) = k
      BY <3>1, LatestIs
    <3> QED
      BY <1>5, <1>6, <2>2, <3>2 DEF Latest
  <2> QED
    BY <2>1, <2>2
<1>11. Grows(w, x)
  BY <1>2 DEF Grows
<1>12. SameReports(w, x)
  BY <1>2 DEF SameReports
<1> QED
  BY <1>8, <1>9, <1>10, <1>11, <1>12 DEF WorkFits, Chained, x

(* The run itself, at the tail of what settled or blocked an activation. *)
LEMMA ReconciledFits ==
  ASSUME NEW w, w \in Worlds, WorkFits(w), NEW r \in Runs, NEW j
  PROVE  LET x == Reconciled(w, r, j) IN
           WorkFits(x) /\ Grows(w, x) /\ SameReports(w, x)
<1> DEFINE x == Reconciled(w, r, j)
           states == {Latest(w, r, b) : b \in Branches}
<1>1. ASSUME NEW s \in Finished, NEW kind \in {"RUN_CANCELLED", "RUN_FAILED"}
      PROVE  LET y == RunEnded(w, r, s, kind) IN
               /\ y.node = w.node /\ \A t \in Runs : y.run[t] = IF t = r THEN s ELSE w.run[t]
               /\ \A b \in HoldBlockers : y.blocker[b] = w.blocker[b]
  <2> DEFINE u == [w EXCEPT !.run[r] = s]
             v == IF u.intent = "NONE" THEN Opened(u, <<kind, r>>) ELSE u
  <2>1. /\ u \in Worlds /\ u.node = w.node /\ u.blocker = w.blocker
        /\ \A t \in Runs : u.run[t] = IF t = r THEN s ELSE w.run[t]
    BY DEF Worlds, RunStates
  <2> HIDE DEF u
  <2>2. \A b \in HoldBlockers : b # <<kind, r>>
    BY DEF HoldBlockers
  <2>3. /\ v.node = u.node /\ v.run = u.run
        /\ v.blocker \in {u.blocker, [u.blocker EXCEPT ![<<kind, r>>] = "OPEN"]}
        /\ v \in Worlds
    <3>1. <<kind, r>> \in Blockers
      BY EndBlockers
    <3> QED
      BY <2>1, <3>1 DEF Opened, Worlds, BlockerStates, Statuses
  <2> HIDE DEF v
  <2>4. \A b \in HoldBlockers : v.blocker[b] = w.blocker[b]
    <3>1. u.blocker \in [Blockers -> BlockerStates] /\ HoldBlockers \subseteq Blockers
      BY <2>1 DEF Worlds, HoldBlockers, Blockers
    <3>2. \A b \in Blockers : b # <<kind, r>> => v.blocker[b] = u.blocker[b]
      BY <2>3, <3>1
    <3> QED
      BY <2>1, <2>2, <3>1, <3>2
  <2>5. /\ ItemReconciled(v).node = v.node /\ ItemReconciled(v).run = v.run
        /\ ItemReconciled(v).blocker = v.blocker
    BY <2>3 DEF ItemReconciled, Worlds
  <2>6. RunEnded(w, r, s, kind) = ItemReconciled(v)
    BY DEF RunEnded, u, v
  <2> QED
    BY <2>1, <2>3, <2>4, <2>5, <2>6
<1>2. \/ x = w
      \/ /\ x.node = w.node /\ \A b \in HoldBlockers : x.blocker[b] = w.blocker[b]
         /\ w.run[r] \in {"RUNNING", "CANCELLING"}
         /\ \E s \in {"VERIFYING"} \union Finished :
              /\ \A t \in Runs : x.run[t] = IF t = r THEN s ELSE w.run[t]
              /\ s = "VERIFYING" => states = {"SUCCEEDED"}
              /\ s # "VERIFYING" => states \intersect Live = {}
  <2>1. CASE w.run[r] = "CANCELLING" /\ states \intersect Live = {} /\ j # "WAITING"
    <3>1. x = RunEnded(w, r, "CANCELLED", "RUN_CANCELLED")
      BY <2>1 DEF Reconciled
    <3> HIDE DEF x, states
    <3> QED
      BY <1>1, <2>1, <3>1 DEF Finished
  <2>2. CASE w.run[r] = "RUNNING" /\ states = {"SUCCEEDED"}
    <3>1. x = [w EXCEPT !.run[r] = "VERIFYING"]
      BY <2>2 DEF Reconciled, Finished
    <3> HIDE DEF x, states
    <3> QED
      BY <2>2, <3>1 DEF Worlds
  <2>3. CASE w.run[r] = "RUNNING" /\ states \subseteq Finished /\ states # {"SUCCEEDED"}
    <3>1. x = RunEnded(w, r, "FAILED", "RUN_FAILED")
      BY <2>3 DEF Reconciled
    <3> HIDE DEF x, states
    <3>2. states \intersect Live = {}
      BY <2>3 DEF Finished, Live
    <3> QED
      BY <1>1, <2>3, <3>1, <3>2 DEF Finished
  <2>4. CASE /\ ~(w.run[r] = "CANCELLING" /\ states \intersect Live = {} /\ j # "WAITING")
             /\ ~(w.run[r] = "RUNNING" /\ states = {"SUCCEEDED"})
             /\ ~(w.run[r] = "RUNNING" /\ states \subseteq Finished /\ states # {"SUCCEEDED"})
    BY <2>4 DEF Reconciled
  <2> QED
    BY <2>1, <2>2, <2>3, <2>4
<1> HIDE DEF x
<1>3. CASE x = w
  BY <1>3 DEF Grows, SameReports, x
<1>4. CASE x # w
  <2>1. PICK s \in {"VERIFYING"} \union Finished :
          /\ x.node = w.node /\ \A b \in HoldBlockers : x.blocker[b] = w.blocker[b]
          /\ w.run[r] \in {"RUNNING", "CANCELLING"}
          /\ \A t \in Runs : x.run[t] = IF t = r THEN s ELSE w.run[t]
          /\ s = "VERIFYING" => states = {"SUCCEEDED"}
          /\ s # "VERIFYING" => states \intersect Live = {}
    BY <1>2, <1>4
  <2>2. \A b \in Branches : Latest(x, r, b) = Latest(w, r, b)
    BY <2>1 DEF Latest, Chain
  <2>3. /\ s = "VERIFYING" => \A b \in Branches : Latest(w, r, b) = "SUCCEEDED"
        /\ \A b \in Branches : Latest(w, r, b) \notin Live
    BY <2>1 DEF Live
  <2>4. RunFits(x, r)
    BY <2>1, <2>2, <2>3 DEF RunFits, Finished
  <2>5. s \notin {"ABSENT", "RUNNING"}
    BY DEF Finished
  <2>6. WorkFits(x) /\ Grows(w, x) /\ SameReports(w, x)
    BY <2>1, <2>4, <2>5, RunsFit
  <2> QED
    BY <2>6 DEF x
<1> QED
  BY <1>3, <1>4

------------------------------------------------------------------------------
(* The actions, one by one: the world they commit fits, and what it grew from   *)
(* tells the reports what became of them.                                       *)

LEMMA FitCommitted ==
  ASSUME NEW w, w \in Worlds, WorkFits(w), Commit(w)
  PROVE  /\ WorkFits(World)' /\ World' = w /\ node' = w.node /\ blocker' = w.blocker
<1>1. /\ item' = w.item /\ intent' = w.intent /\ run' = w.run
      /\ node' = w.node /\ blocker' = w.blocker
  BY DEF Commit
<1>2. w = [item |-> w.item, intent |-> w.intent, run |-> w.run, node |-> w.node, blocker |-> w.blocker]
  BY DEF Worlds
<1>3. World' = w
  BY <1>1, <1>2 DEF World
<1> QED
  BY <1>1, <1>3 DEF WorkFits, Chained, ChainFits, Chain, HoldFits, HeldUpIn, TakenUpIn, RunFits, Latest

(* The activations that were taken up stay so. *)
LEMMA TakenUpStays ==
  ASSUME \A a \in Activations : node[a] # "ABSENT" => node'[a] # "ABSENT"
  PROVE  \A a \in Activations : TakenUp(a) => TakenUp(a)'
<1> TAKE a \in Activations
<1> SUFFICES ASSUME TakenUp(a) PROVE TakenUp(a)'
  OBVIOUS
<1>1. <<a[1], a[2], a[3] + 1>> \in Activations
  BY ItemAssumption DEF TakenUp, Activations
<1> QED
  BY <1>1 DEF TakenUp

LEMMA WorkCommitted ==
  ASSUME OriginFits, UNCHANGED origin, NEW w, w \in Worlds, WorkFits(w),
         Grows(World, w), SameReports(World, w), Commit(w)
  PROVE  WorkFits(World)' /\ OriginFits'
<1>1. WorkFits(World)' /\ node' = w.node /\ blocker' = w.blocker
  BY FitCommitted
<1>2. /\ \A a \in Activations : node[a] # "ABSENT" => node'[a] # "ABSENT"
      /\ \A a \in Activations : blocker'[<<"SCOPE_EXPANSION_REQUIRED", a>>] = blocker[<<"SCOPE_EXPANSION_REQUIRED", a>>]
  BY <1>1 DEF Grows, SameReports, World
<1>3. \A a \in Activations : TakenUp(a) => TakenUp(a)'
  BY <1>2, TakenUpStays
<1>4. OriginFits'
  BY <1>2, <1>3 DEF OriginFits
<1> QED
  BY <1>1, <1>4

(* Of two steps of a transaction. *)
LEMMA GrowsOn ==
  ASSUME NEW u, NEW v, NEW w, Grows(u, v), Grows(v, w)
  PROVE  /\ Grows(u, w)
         /\ SameReports(u, v) /\ SameReports(v, w) => SameReports(u, w)
BY DEF Grows, SameReports

(* What touches neither activations nor runs, nor the blockers of what is       *)
(* blocked.                                                                     *)
LEMMA FitsUntouched ==
  ASSUME WorkInv, UNCHANGED <<run, node>>, UNCHANGED origin,
         \A b \in HoldBlockers : blocker'[b] = blocker[b]
  PROVE  WorkFits(World)' /\ OriginFits'
<1>1. /\ World.node = node /\ World'.node = node /\ World.run = run /\ World'.run = run
      /\ World.blocker = blocker /\ World'.blocker = blocker'
  BY DEF World
<1>2. WorkFits(World)'
  <2>1. PICK x : x = World'
    OBVIOUS
  <2>2. WorkFits(x)
    BY <1>1, <2>1, RunsFit DEF WorkInv
  <2> QED
    BY <2>1, <2>2 DEF WorkFits, Chained, ChainFits, Chain, HoldFits, HeldUpIn, TakenUpIn, RunFits, Latest
<1>3. \A a \in Activations : blocker'[<<"SCOPE_EXPANSION_REQUIRED", a>>] = blocker[<<"SCOPE_EXPANSION_REQUIRED", a>>]
  BY DEF HoldBlockers
<1>4. \A a \in Activations : TakenUp(a) <=> TakenUp(a)'
  BY DEF TakenUp
<1>5. OriginFits'
  BY <1>3, <1>4 DEF WorkInv, OriginFits
<1> QED
  BY <1>2, <1>5

LEMMA ReadyFits ==
  ASSUME WorkInv, MarkWorkItemReady
  PROVE  WorkFits(World)' /\ OriginFits'
BY FitsUntouched DEF MarkWorkItemReady

LEMMA LookFits ==
  ASSUME WorkInv, UNCHANGED <<rows, origin>>
  PROVE  WorkFits(World)' /\ OriginFits'
BY FitsUntouched DEF rows

LEMMA StartFits ==
  ASSUME WorkInv, StartWorkflowRun
  PROVE  WorkFits(World)' /\ OriginFits'
<1>1. CanStart(World) /\ Commit(RunStarted(World)) /\ UNCHANGED origin
  BY DEF StartWorkflowRun
<1>2. RunStarted(World) \in Worlds
  BY <1>1, RunStartedKeeps DEF WorkInv, Inv, Consistent
<1>3. WorkFits(RunStarted(World)) /\ Grows(World, RunStarted(World)) /\ SameReports(World, RunStarted(World))
  BY <1>1, StartedFits DEF WorkInv, Inv
<1> QED
  BY <1>1, <1>2, <1>3, WorkCommitted DEF WorkInv

LEMMA RetryFits ==
  ASSUME WorkInv, RetryWorkItem
  PROVE  WorkFits(World)' /\ OriginFits'
<1>1. PICK w : /\ Consistent(w) /\ CanStart(w) /\ Commit(RunStarted(w))
               /\ w.run = run /\ w.node = node
               /\ \A c \in Blockers : w.blocker[c] = blocker[c] \/ c[1] \in RetryResolvable
  BY RetryCloses DEF WorkInv
<1>2. \A b \in HoldBlockers : w.blocker[b] = World.blocker[b]
  BY <1>1 DEF HoldBlockers, Blockers, RetryResolvable, World
<1>3. w.node = World.node /\ w.run = World.run
  BY <1>1 DEF World
<1>4. WorkFits(w) /\ Grows(World, w) /\ SameReports(World, w)
  BY <1>2, <1>3, RunsFit DEF WorkInv
<1>5. RunStarted(w) \in Worlds
  BY <1>1, RunStartedKeeps DEF Consistent
<1>6. WorkFits(RunStarted(w)) /\ Grows(w, RunStarted(w)) /\ SameReports(w, RunStarted(w))
  BY <1>1, <1>4, StartedFits
<1>7. Grows(World, RunStarted(w)) /\ SameReports(World, RunStarted(w))
  BY <1>4, <1>6, GrowsOn
<1>8. UNCHANGED origin
  BY DEF RetryWorkItem
<1> QED
  BY <1>1, <1>5, <1>6, <1>7, <1>8, WorkCommitted DEF WorkInv

(* A run that is asked to stop, or decided, under the same blockers. *)
LEMMA RunDecidedFits ==
  ASSUME WorkInv, NEW r \in Runs, run[r] # "ABSENT", UNCHANGED <<node, origin>>,
         \A b \in HoldBlockers : blocker'[b] = blocker[b],
         NEW s \in {"CANCELLING", "SUCCEEDED", "BLOCKED", "FAILED"},
         \A t \in Runs : run'[t] = IF t = r THEN s ELSE run[t],
         s # "CANCELLING" => run[r] = "VERIFYING"
  PROVE  WorkFits(World)' /\ OriginFits'
<1>1. PICK x : x = World'
  OBVIOUS
<1>2. /\ World.node = node /\ x.node = node /\ World.run = run /\ x.run = run'
      /\ World.blocker = blocker /\ x.blocker = blocker'
  BY <1>1 DEF World
<1>3. RunFits(x, r)
  <2>1. \A b \in Branches : Latest(x, r, b) = Latest(World, r, b)
    BY <1>2 DEF Latest, Chain
  <2>2. RunFits(World, r)
    BY DEF WorkInv, WorkFits
  <2> QED
    BY <1>2, <2>1, <2>2 DEF RunFits, Finished
<1>4. WorkFits(x)
  BY <1>2, <1>3, RunsFit DEF WorkInv
<1>5. WorkFits(World)'
  BY <1>1, <1>4 DEF WorkFits, Chained, ChainFits, Chain, HoldFits, HeldUpIn, TakenUpIn, RunFits, Latest
<1>6. \A a \in Activations : blocker'[<<"SCOPE_EXPANSION_REQUIRED", a>>] = blocker[<<"SCOPE_EXPANSION_REQUIRED", a>>]
  BY DEF HoldBlockers
<1>7. \A a \in Activations : TakenUp(a) <=> TakenUp(a)'
  BY DEF TakenUp
<1>8. OriginFits'
  BY <1>6, <1>7 DEF WorkInv, OriginFits
<1> QED
  BY <1>5, <1>8

LEMMA CancelRunFits ==
  ASSUME WorkInv, NEW r \in Runs, CancelRun(r)
  PROVE  WorkFits(World)' /\ OriginFits'
<1>1. run \in [Runs -> RunStates]
  BY DEF WorkInv, Inv, Consistent, World, Worlds
<1>2. run[r] # "ABSENT" /\ UNCHANGED <<node, origin, blocker>>
  BY DEF CancelRun
<1>3. \A t \in Runs : run'[t] = IF t = r THEN "CANCELLING" ELSE run[t]
  BY <1>1 DEF CancelRun
<1> QED
  BY <1>2, <1>3, RunDecidedFits

LEMMA CancelItemFits ==
  ASSUME WorkInv, CancelWorkItem
  PROVE  WorkFits(World)' /\ OriginFits'
<1>1. PICK x \in Worlds :
        /\ Commit(ItemReconciled(x))
        /\ x.item = item /\ x.intent = "REQUESTED" /\ x.node = node /\ x.blocker = blocker
        /\ \A r \in Runs : x.run[r] = IF run[r] \in Finished \union {"ABSENT"}
                                       THEN run[r] ELSE "CANCELLING"
  BY CancelAsks DEF WorkInv
<1> DEFINE y == ItemReconciled(x)
<1>2. y \in Worlds /\ y.node = x.node /\ y.run = x.run /\ y.blocker = x.blocker
  BY DEF ItemReconciled, Worlds, Statuses, Intents
<1>3. Commit(y)
  BY <1>1
<1> HIDE DEF y
<1>4. World.node = node /\ World.blocker = blocker /\ World.run = run
  BY DEF World
<1>5. \A r \in Runs : \/ y.run[r] = World.run[r]
                      \/ /\ World.run[r] # "ABSENT" /\ y.run[r] \notin {"ABSENT", "RUNNING"}
                         /\ RunFits(y, r)
  BY <1>1, <1>2, <1>4 DEF RunFits, Finished
<1>6. WorkFits(y) /\ Grows(World, y) /\ SameReports(World, y)
  BY <1>1, <1>2, <1>4, <1>5, RunsFit DEF WorkInv
<1>7. UNCHANGED origin
  BY DEF CancelWorkItem
<1> QED
  BY <1>2, <1>3, <1>6, <1>7, WorkCommitted DEF WorkInv

(* The world before the run is reconciled, and the one after. *)
LEMMA ReconciledCommitted ==
  ASSUME OriginFits, UNCHANGED origin, NEW w, Consistent(w), WorkFits(w), Grows(World, w),
         SameReports(World, w), NEW r \in Runs, NEW j, Commit(Reconciled(w, r, j))
  PROVE  WorkFits(World)' /\ OriginFits'
<1> DEFINE x == Reconciled(w, r, j)
<1>1. x \in Worlds /\ Commit(x)
  BY ReconciledKeeps DEF Consistent
<1>2. WorkFits(x) /\ Grows(w, x) /\ SameReports(w, x)
  BY ReconciledFits DEF Consistent
<1> HIDE DEF x
<1>3. Grows(World, x) /\ SameReports(World, x)
  BY <1>2, GrowsOn
<1> QED
  BY <1>1, <1>2, <1>3, WorkCommitted

LEMMA CoordinatorFits ==
  ASSUME WorkInv, NEW r \in Runs, CancelRunCoordinator(r)
  PROVE  WorkFits(World)' /\ OriginFits'
<1> DEFINE f == [a \in Activations |->
                   IF a[1] = r /\ World.node[a] \in {"PENDING", "QUEUED"} THEN "CANCELLED" ELSE World.node[a]]
           x == [World EXCEPT !.node = f]
           j == IF Joined(x, r) = "WAITING" THEN "CANCELLED" ELSE Joined(x, r)
<1>1. f \in [Activations -> NodeStates]
  BY DEF WorkInv, Inv, Consistent, World, Worlds, NodeStates, Outcomes, Finished
<1>2. Commit(Reconciled(x, r, j)) /\ UNCHANGED origin
  BY DEF CancelRunCoordinator
<1>3. \A a \in Activations : \/ f[a] = World.node[a]
                             \/ World.node[a] \in Live /\ f[a] \in Live \union Outcomes
  BY DEF Live, Outcomes, Finished
<1> HIDE DEF f
<1>4. x.run = World.run /\ x.blocker = World.blocker /\ x.node = f
  BY DEF World
<1>5. Consistent(x)
  BY <1>1, NodesChange DEF WorkInv, Inv
<1> HIDE DEF x
<1>6. WorkFits(x) /\ Grows(World, x) /\ SameReports(World, x)
  BY <1>3, <1>4, NodesFit DEF WorkInv, Inv, Consistent
<1> QED
  BY <1>2, <1>5, <1>6, ReconciledCommitted DEF WorkInv

(* An activation that could still be executed settles or is admitted. *)
LEMMA NodeFits ==
  ASSUME WorkInv, NEW a \in Activations, node[a] \in Live, NEW s \in Live \union Outcomes
  PROVE  LET x == [World EXCEPT !.node[a] = s] IN
           Consistent(x) /\ WorkFits(x) /\ Grows(World, x) /\ SameReports(World, x)
<1> DEFINE x == [World EXCEPT !.node[a] = s]
<1>1. Consistent(x)
  BY NodeChanges DEF WorkInv, Inv, NodeStates
<1>2. World \in Worlds /\ World.node[a] \in Live
  BY DEF WorkInv, Inv, Consistent, World
<1>3. /\ x.run = World.run /\ x.blocker = World.blocker
      /\ \A c \in Activations : x.node[c] = IF c = a THEN s ELSE World.node[c]
  BY <1>2 DEF World, Worlds
<1> HIDE DEF x
<1>4. WorkFits(x) /\ Grows(World, x) /\ SameReports(World, x)
  BY <1>2, <1>3, NodesFit DEF WorkInv
<1> QED
  BY <1>1, <1>4 DEF x

LEMMA AdmitFits ==
  ASSUME WorkInv, NEW a \in Activations, Admit(a)
  PROVE  WorkFits(World)' /\ OriginFits'
<1> DEFINE w == [World EXCEPT !.node[a] = "RUNNING"]
<1>1. w = [item |-> item, intent |-> intent, run |-> run,
           node |-> [node EXCEPT ![a] = "RUNNING"], blocker |-> blocker]
  BY DEF World
<1>2. Commit(w) /\ UNCHANGED origin /\ node[a] \in Live
  BY <1>1 DEF Commit, Admit, MayAdmit, Live
<1>3. w \in Worlds /\ WorkFits(w) /\ Grows(World, w) /\ SameReports(World, w)
  BY <1>2, NodeFits DEF Live, Consistent
<1> HIDE DEF w
<1> QED
  BY <1>2, <1>3, WorkCommitted DEF WorkInv

LEMMA LeaveRunningFits ==
  ASSUME WorkInv, NEW a \in Activations, LeaveRunning(a)
  PROVE  WorkFits(World)' /\ OriginFits'
<1> DEFINE w == [World EXCEPT !.node[a] = "IDLE"]
<1>1. w = [item |-> item, intent |-> intent, run |-> run,
           node |-> [node EXCEPT ![a] = "IDLE"], blocker |-> blocker]
  BY DEF World
<1>2. Commit(w) /\ UNCHANGED origin /\ node[a] \in Live
  BY <1>1 DEF Commit, LeaveRunning, Live
<1>3. w \in Worlds /\ WorkFits(w) /\ Grows(World, w) /\ SameReports(World, w)
  BY <1>2, NodeFits DEF Live, Consistent
<1> HIDE DEF w
<1> QED
  BY <1>2, <1>3, WorkCommitted DEF WorkInv

LEMMA FinalizeFits ==
  ASSUME WorkInv, NEW a \in Activations, NEW outcome \in Outcomes, FinalizeExecutionAttempt(a, outcome)
  PROVE  WorkFits(World)' /\ OriginFits'
<1> DEFINE w == [World EXCEPT !.node[a] = outcome]
           j == Joined(w, a[1])
<1>1. /\ a[1] \in Runs /\ Commit(Reconciled(w, a[1], j)) /\ UNCHANGED origin
      /\ node[a] \in Live
  BY DEF FinalizeExecutionAttempt, Live, Activations
<1>2. Consistent(w) /\ WorkFits(w) /\ Grows(World, w) /\ SameReports(World, w)
  BY <1>1, NodeFits
<1> HIDE DEF w
<1> QED
  BY <1>1, <1>2, ReconciledCommitted DEF WorkInv

LEMMA BlockAdmissionFits ==
  ASSUME WorkInv, NEW a \in Activations, BlockAdmission(a)
  PROVE  WorkFits(World)' /\ OriginFits'
<1> DEFINE w == [World EXCEPT !.node[a] = "BLOCKED"]
           b == <<"ADMISSION", a>>
           x == Opened(w, b)
           j == join[a[1]]
<1>1. /\ a[1] \in Runs /\ Commit(Reconciled(x, a[1], j)) /\ UNCHANGED origin
      /\ World.node[a] \in Live
  BY DEF BlockAdmission, MayAdmit, Live, Activations, World
<1>2. World \in Worlds /\ WorkFits(World)
  BY DEF WorkInv, Inv, Consistent
<1>3. Consistent(w)
  BY NodeChanges DEF WorkInv, Inv, NodeStates
<1>4. Consistent(x)
  BY <1>3, OpenedKeeps
<1>5. WorkFits(x) /\ Grows(World, x) /\ x.blocker = [World.blocker EXCEPT ![b] = "OPEN"]
  BY <1>1, <1>2, BlockedFits
<1> HIDE DEF w, x
<1>6. SameReports(World, x)
  BY <1>2, <1>5, HoldBlocker DEF SameReports, Worlds
<1> QED
  BY <1>1, <1>4, <1>5, <1>6, ReconciledCommitted DEF WorkInv

LEMMA ScopeFits ==
  ASSUME WorkInv, NEW a \in Activations, RequestScopeExpansion(a)
  PROVE  WorkFits(World)' /\ OriginFits'
<1> DEFINE w == [World EXCEPT !.node[a] = "BLOCKED"]
           b == <<"SCOPE_EXPANSION_REQUIRED", a>>
           x == Opened(w, b)
           y == Reconciled(x, a[1], join[a[1]])
<1>1. /\ a[1] \in Runs /\ Commit(y) /\ World.node[a] \in Live
      /\ origin' = [origin EXCEPT ![a] = "PENDING"]
  BY DEF RequestScopeExpansion, Live, Activations, World
<1>2. World \in Worlds /\ WorkFits(World)
  BY DEF WorkInv, Inv, Consistent
<1>3. Consistent(w)
  BY NodeChanges DEF WorkInv, Inv, NodeStates
<1>4. Consistent(x)
  BY <1>3, OpenedKeeps
<1>5. WorkFits(x) /\ Grows(World, x) /\ x.blocker = [World.blocker EXCEPT ![b] = "OPEN"]
  BY <1>1, <1>2, BlockedFits
<1> HIDE DEF w, x
<1>6. y \in Worlds /\ WorkFits(y) /\ Grows(x, y) /\ SameReports(x, y)
  BY <1>1, <1>4, <1>5, ReconciledKeeps, ReconciledFits DEF Consistent
<1> HIDE DEF y
<1>7. Grows(World, y)
  BY <1>5, <1>6, GrowsOn
<1>8. WorkFits(World)' /\ node' = y.node /\ blocker' = y.blocker
  BY <1>1, <1>6, FitCommitted
<1>9. \A c \in Activations : TakenUp(c) => TakenUp(c)'
  BY <1>7, <1>8, TakenUpStays DEF Grows, World
<1>10. \A c \in Activations : blocker'[<<"SCOPE_EXPANSION_REQUIRED", c>>] =
         IF c = a THEN "OPEN" ELSE blocker[<<"SCOPE_EXPANSION_REQUIRED", c>>]
  BY <1>2, <1>5, <1>6, <1>8, HoldBlocker DEF SameReports, World, Worlds
<1>11. \A c \in Activations : origin'[c] = IF c = a THEN "PENDING" ELSE origin[c]
  BY <1>1 DEF WorkInv, Inv, Rest
<1>12. OriginFits'
  BY <1>9, <1>10, <1>11 DEF WorkInv, OriginFits
<1> QED
  BY <1>8, <1>12

LEMMA CloseScopeFits ==
  ASSUME WorkInv, NEW a \in Activations, CloseScopeExpansion(a)
  PROVE  WorkFits(World)' /\ OriginFits'
<1>1. World' = World /\ blocker' = blocker /\ node' = node
  BY DEF CloseScopeExpansion, rows, World
<1>2. WorkFits(World)'
  BY <1>1 DEF WorkInv, WorkFits, Chained, ChainFits, Chain, HoldFits, HeldUpIn, TakenUpIn, RunFits, Latest
<1>3. \A c \in Activations : origin'[c] = IF c = a THEN "REJECTED" ELSE origin[c]
  BY DEF CloseScopeExpansion, WorkInv, Inv, Rest
<1>4. origin[a] = "PENDING"
  BY DEF CloseScopeExpansion
<1>5. \A c \in Activations : TakenUp(c) <=> TakenUp(c)'
  BY <1>1 DEF TakenUp
<1>6. OriginFits'
  BY <1>1, <1>3, <1>4, <1>5 DEF WorkInv, OriginFits
<1> QED
  BY <1>2, <1>6

(* A report that is still pending holds its activation up by its one blocker,   *)
(* which is OPEN: nobody else can have taken it up.                             *)
LEMMA PendingReport ==
  ASSUME WorkInv, NEW a \in Activations, origin[a] = "PENDING", node[a] = "BLOCKED", run[a[1]] = "RUNNING"
  PROVE  LET b == <<"SCOPE_EXPANSION_REQUIRED", a>> IN
           /\ b \in HeldUpIn(World, a) /\ blocker[b] = "OPEN" /\ ~TakenUpIn(World, a)
<1> DEFINE b == <<"SCOPE_EXPANSION_REQUIRED", a>>
<1>1. HoldFits(World, a) /\ World.node = node /\ World.run = run /\ World.blocker = blocker
  BY DEF WorkInv, WorkFits, World
<1>2. blocker[b] # "NONE" /\ blocker[b] # "RESOLVED"
  BY DEF WorkInv, OriginFits
<1>3. b \in HeldUpIn(World, a)
  BY <1>1, <1>2 DEF HeldUpIn
<1> QED
  BY <1>1, <1>2, <1>3 DEF HoldFits

LEMMA ReactivateFits ==
  ASSUME WorkInv, NEW a \in Activations, ReactivateBlockedNodeRun(a)
  PROVE  WorkFits(World)' /\ OriginFits'
<1> DEFINE w == Activated(World, a[1], a[2], "QUEUED")
           b == <<"SCOPE_EXPANSION_REQUIRED", a>>
           x == Closed(w, b, "ACTIVE")
<1>1. /\ origin[a] = "PENDING" /\ run[a[1]] = "RUNNING" /\ node[a] = "BLOCKED"
      /\ CanActivate(World, a[1], a[2]) /\ origin' = [origin EXCEPT ![a] = "REACTIVATED"]
  BY DEF ReactivateBlockedNodeRun
<1>2. b \in HeldUpIn(World, a) /\ blocker[b] = "OPEN" /\ ~TakenUpIn(World, a)
  BY <1>1, PendingReport
<1>3. Commit(x)
  BY <1>2 DEF ReactivateBlockedNodeRun
<1>4. World \in Worlds /\ WorkFits(World) /\ World.run = run /\ World.node = node /\ World.blocker = blocker
  BY DEF WorkInv, Inv, Consistent, World
<1>5. /\ WorkFits(x) /\ Grows(World, x) /\ TakenUpIn(x, a)
      /\ x.blocker = [World.blocker EXCEPT ![b] = "RESOLVED"]
  BY <1>1, <1>2, <1>4, TakenUpFits
<1>6. Consistent(w)
  BY ActivatedKeeps DEF WorkInv, Inv, Live
<1>7. x \in Worlds
  BY <1>6, ClosedKeeps DEF Consistent
<1> HIDE DEF w, x
<1>8. WorkFits(World)' /\ node' = x.node /\ blocker' = x.blocker
  BY <1>3, <1>5, <1>7, FitCommitted
<1>9. (\A c \in Activations : TakenUp(c) => TakenUp(c)') /\ TakenUp(a)'
  BY <1>4, <1>5, <1>8, TakenUpStays DEF Grows, TakenUp, TakenUpIn
<1>10. \A c \in Activations : blocker'[<<"SCOPE_EXPANSION_REQUIRED", c>>] =
         IF c = a THEN "RESOLVED" ELSE blocker[<<"SCOPE_EXPANSION_REQUIRED", c>>]
  BY <1>4, <1>5, <1>8, HoldBlocker DEF Worlds
<1>11. \A c \in Activations : origin'[c] = IF c = a THEN "REACTIVATED" ELSE origin[c]
  BY <1>1 DEF WorkInv, Inv, Rest
<1>12. OriginFits'
  BY <1>9, <1>10, <1>11 DEF WorkInv, OriginFits
<1> QED
  BY <1>8, <1>12

LEMMA RetryActivationFits ==
  ASSUME WorkInv, NEW a \in Activations, RetryBlockedActivation(a)
  PROVE  WorkFits(World)' /\ OriginFits'
<1> DEFINE w == Activated(World, a[1], a[2], "QUEUED")
           b == <<"ADMISSION", a>>
           x == Closed(w, b, "ACTIVE")
<1>1. /\ run[a[1]] = "RUNNING" /\ node[a] = "BLOCKED" /\ blocker[b] = "OPEN"
      /\ CanActivate(World, a[1], a[2]) /\ Commit(x) /\ UNCHANGED origin
  BY DEF RetryBlockedActivation, Retryable
<1>2. World \in Worlds /\ WorkFits(World) /\ World.run = run /\ World.node = node /\ World.blocker = blocker
  BY DEF WorkInv, Inv, Consistent, World
<1>3. b \in HeldUpIn(World, a)
  BY <1>1, <1>2 DEF HeldUpIn
<1>4. ~TakenUpIn(World, a)
  BY <1>1, <1>2, <1>3 DEF WorkFits, HoldFits
<1>5. /\ WorkFits(x) /\ Grows(World, x)
      /\ x.blocker = [World.blocker EXCEPT ![b] = "RESOLVED"]
  BY <1>1, <1>2, <1>3, <1>4, TakenUpFits
<1>6. Consistent(w)
  BY ActivatedKeeps DEF WorkInv, Inv, Live
<1>7. x \in Worlds
  BY <1>6, ClosedKeeps DEF Consistent
<1> HIDE DEF w, x
<1>8. SameReports(World, x)
  BY <1>2, <1>5, HoldBlocker DEF SameReports, Worlds
<1> QED
  BY <1>1, <1>5, <1>7, <1>8, WorkCommitted DEF WorkInv

LEMMA ResolveFits ==
  ASSUME WorkInv, NEW b \in Blockers, ResolveWorkItemBlocker(b)
  PROVE  WorkFits(World)' /\ OriginFits'
<1> DEFINE x == Closed(World, b, "READY")
<1>1. /\ AllFinished(World) /\ Commit(x) /\ UNCHANGED origin
      /\ World.blocker[b] = "OPEN" /\ b[1] # "SCOPE_EXPANSION_REQUIRED"
  BY DEF ResolveWorkItemBlocker, World
<1>2. World \in Worlds /\ WorkFits(World) /\ x \in Worlds
  BY ClosedKeeps DEF WorkInv, Inv, Consistent
<1>3. WorkFits(x) /\ Grows(World, x) /\ SameReports(World, x)
  BY <1>1, <1>2, ResolvedFits
<1> HIDE DEF x
<1> QED
  BY <1>1, <1>2, <1>3, WorkCommitted DEF WorkInv

(* The blockers of a run are none of what is blocked in it. *)
LEMMA OtherBlocker ==
  ASSUME NEW r \in Runs, NEW kind \in {"RELEASE_FAILED", "COMPLETION_POLICY_FAILED"}
  PROVE  \A b \in HoldBlockers : b \in Blockers /\ b # <<kind, r>>
BY DEF HoldBlockers, Blockers

LEMMA CommitFailsFits ==
  ASSUME WorkInv, NEW r \in Runs, LocalCommitFails(r)
  PROVE  WorkFits(World)' /\ OriginFits'
<1> DEFINE b == <<"RELEASE_FAILED", r>>
           x == Opened(World, b)
<1>1. (Commit(x) \/ Commit(World)) /\ UNCHANGED origin
  BY DEF LocalCommitFails
<1>2. World \in Worlds
  BY DEF WorkInv, Inv, Consistent
<1>3. x.run = World.run /\ x.node = World.node /\ x.blocker = [World.blocker EXCEPT ![b] = "OPEN"]
  BY <1>2 DEF Opened, Worlds
<1>4. World.run = run /\ World.node = node /\ World.blocker = blocker
  BY DEF World
<1> HIDE DEF x
<1>5. /\ run' = run /\ node' = node
      /\ blocker' \in {blocker, [blocker EXCEPT ![b] = "OPEN"]}
  BY <1>1, <1>3, <1>4 DEF Commit
<1>6. \A c \in HoldBlockers : blocker'[c] = blocker[c]
  BY <1>2, <1>4, <1>5, OtherBlocker DEF Worlds
<1> QED
  BY <1>1, <1>5, <1>6, FitsUntouched

LEMMA EvaluateFits ==
  ASSUME WorkInv, NEW r \in Runs, Evaluate(r)
  PROVE  WorkFits(World)' /\ OriginFits'
<1>1. MayDecide(r) /\ UNCHANGED origin
  BY DEF Evaluate, Pass, Block, Fail, Rework
<1>2. run[r] = "VERIFYING" /\ Consistent(World)
  BY <1>1, VerifyingRun DEF WorkInv, Inv
<1>3. World \in Worlds /\ World.run = run /\ World.node = node /\ World.blocker = blocker
  BY <1>2 DEF Consistent, World
<1>4. run \in [Runs -> RunStates] /\ blocker \in [Blockers -> BlockerStates]
  BY <1>3 DEF Worlds
<1>5. CASE Pass(r)
  <2>1. /\ \A t \in Runs : run'[t] = IF t = r THEN "SUCCEEDED" ELSE run[t]
        /\ UNCHANGED <<node, blocker, origin>>
    BY <1>4, <1>5 DEF Pass
  <2> QED
    BY <1>2, <2>1, RunDecidedFits
<1>6. CASE Block(r)
  <2>1. /\ \A t \in Runs : run'[t] = IF t = r THEN "BLOCKED" ELSE run[t]
        /\ UNCHANGED <<node, blocker, origin>>
    BY <1>4, <1>6 DEF Block
  <2> QED
    BY <1>2, <2>1, RunDecidedFits
<1>7. CASE Fail(r)
  <2> DEFINE b == <<"COMPLETION_POLICY_FAILED", r>>
             x == Opened([World EXCEPT !.run[r] = "FAILED"], b)
  <2>1. Commit(x)
    BY <1>7 DEF Fail
  <2>2. /\ x.run = [run EXCEPT ![r] = "FAILED"] /\ x.node = node
        /\ x.blocker = [blocker EXCEPT ![b] = "OPEN"]
    BY <1>3 DEF Opened, Worlds
  <2> HIDE DEF x
  <2>3. /\ run' = [run EXCEPT ![r] = "FAILED"] /\ UNCHANGED node
        /\ blocker' = [blocker EXCEPT ![b] = "OPEN"]
    BY <2>1, <2>2 DEF Commit
  <2>4. /\ \A t \in Runs : run'[t] = IF t = r THEN "FAILED" ELSE run[t]
        /\ \A c \in HoldBlockers : blocker'[c] = blocker[c]
    BY <1>4, <2>3, OtherBlocker
  <2> QED
    BY <1>1, <1>2, <2>3, <2>4, RunDecidedFits
<1>8. CASE Rework(r)
  <2> DEFINE v == [World EXCEPT !.run[r] = "RUNNING"]
  <2>1. PICK b \in Branches : CanActivate(World, r, b) /\ Commit(Activated(v, r, b, "PENDING"))
    BY <1>8 DEF Rework
  <2> DEFINE x == Activated(v, r, b, "PENDING")
  <2>2. WorkFits(x) /\ Grows(World, x) /\ SameReports(World, x)
    BY <1>2, <1>3, <2>1, ReworkFits DEF WorkInv
  <2>3. v \in Worlds
    BY <1>3 DEF Worlds, RunStates
  <2>4. x \in Worlds
    BY <2>3 DEF Activated, Worlds, NodeStates, Live
  <2>5. Commit(x)
    BY <2>1
  <2> HIDE DEF x
  <2> QED
    BY <1>1, <2>2, <2>4, <2>5, WorkCommitted DEF WorkInv
<1> QED
  BY <1>5, <1>6, <1>7, <1>8 DEF Evaluate

LEMMA StepFits == WorkInv /\ [Next]_vars => WorkInv'
<1> SUFFICES ASSUME WorkInv, [Next]_vars PROVE WorkInv'
  OBVIOUS
<1>0. Inv'
  BY StepKeeps DEF WorkInv
<1>1. CASE MarkWorkItemReady \/ StartWorkflowRun \/ RetryWorkItem \/ CancelWorkItem
  BY <1>0, <1>1, ReadyFits, StartFits, RetryFits, CancelItemFits DEF WorkInv
<1>2. CASE \E r \in Runs : \/ CancelRun(r) \/ CancelRunCoordinator(r)
                           \/ LocalCommitFails(r) \/ Evaluate(r)
  BY <1>0, <1>2, CancelRunFits, CoordinatorFits, CommitFailsFits, EvaluateFits DEF WorkInv
<1>3. CASE \E a \in Activations : \/ Admit(a) \/ LeaveRunning(a)
                                  \/ BlockAdmission(a) \/ RequestScopeExpansion(a)
  BY <1>0, <1>3, AdmitFits, LeaveRunningFits, BlockAdmissionFits, ScopeFits DEF WorkInv
<1>4. CASE \E a \in Activations : \E outcome \in Outcomes : FinalizeExecutionAttempt(a, outcome)
  BY <1>0, <1>4, FinalizeFits DEF WorkInv
<1>5. CASE \E a \in Activations : CloseScopeExpansion(a) \/ ReactivateBlockedNodeRun(a)
  BY <1>0, <1>5, CloseScopeFits, ReactivateFits DEF WorkInv
<1>6. CASE \E a \in Activations : RetryBlockedActivation(a)
  BY <1>0, <1>6, RetryActivationFits DEF WorkInv
<1>7. CASE \E b \in Blockers : ResolveWorkItemBlocker(b)
  BY <1>0, <1>7, ResolveFits DEF WorkInv
<1>8. CASE \/ \E r \in Runs : RequestApprovalCommit(r) \/ Sweep(r)
           \/ \E a \in Activations : LoadForRetry(a)
           \/ UNCHANGED vars
  <2>1. UNCHANGED <<rows, origin>>
    BY <1>8 DEF RequestApprovalCommit, Sweep, LoadForRetry, vars, rows
  <2> QED
    BY <1>0, <2>1, LookFits DEF WorkInv
<1> QED
  BY <1>1, <1>2, <1>3, <1>4, <1>5, <1>6, <1>7, <1>8 DEF Next

LEMMA FitsFirst == Init => WorkInv
<1> SUFFICES ASSUME Init PROVE WorkInv
  OBVIOUS
<1>1. /\ \A r \in Runs : World.run[r] = "ABSENT"
      /\ \A a \in Activations : World.node[a] = "ABSENT" /\ origin[a] = "NONE"
      /\ \A b \in Blockers : World.blocker[b] = "NONE" /\ blocker[b] = "NONE"
  BY DEF Init, World
<1>2. Chained(World)
  BY <1>1 DEF Chained, Chain, Activations
<1>3. \A a \in Activations : HoldFits(World, a)
  BY <1>1, HoldParts DEF HoldFits, HeldUpIn
<1>4. \A r \in Runs : RunFits(World, r)
  BY <1>1 DEF RunFits, Finished
<1>5. OriginFits
  BY <1>1, HoldBlocker DEF OriginFits
<1> QED
  BY <1>2, <1>3, <1>4, <1>5, Initially DEF WorkInv, WorkFits

LEMMA FitsIsTakenUpOnce == WorkInv => BlockedWorkIsTakenUpOnce
<1> SUFFICES ASSUME WorkInv PROVE BlockedWorkIsTakenUpOnce
  OBVIOUS
<1>1. World \in Worlds /\ WorkFits(World) /\ World.run = run /\ World.node = node /\ World.blocker = blocker
  BY DEF WorkInv, Inv, Consistent, World
<1>2. \A a \in Activations : HeldUp(a) = HeldUpIn(World, a) /\ (TakenUp(a) <=> TakenUpIn(World, a))
  BY <1>1 DEF HeldUp, HeldUpIn, TakenUp, TakenUpIn
<1>3. ASSUME NEW a \in Activations, node[a] = "BLOCKED"
      PROVE  /\ Cardinality(HeldUp(a)) = 1
             /\ TakenUp(a) => \A b \in HeldUp(a) : blocker[b] = "RESOLVED"
             /\ run[a[1]] = "RUNNING" /\ ~TakenUp(a) => \A b \in HeldUp(a) : blocker[b] = "OPEN"
  <2>1. HoldFits(World, a)
    BY <1>1 DEF WorkFits
  <2>2. PICK b : HeldUp(a) = {b}
    BY <1>1, <1>2, <1>3, <2>1 DEF HoldFits
  <2>3. Cardinality(HeldUp(a)) = 1
    BY <2>2, FS_Singleton
  <2> QED
    BY <1>1, <1>2, <1>3, <2>1, <2>3 DEF HoldFits
<1>4. \A a \in Activations : origin[a] = "REACTIVATED" => TakenUp(a)
  BY DEF WorkInv, OriginFits
<1>5. ASSUME NEW a \in Activations, run[a[1]] \in Finished \union {"VERIFYING", "BLOCKED"}
      PROVE  node[a] \notin Live
  BY <1>1, <1>5, LiveIsLast DEF Finished
<1> QED
  BY <1>3, <1>4, <1>5 DEF BlockedWorkIsTakenUpOnce

(* What is blocked has one blocker, is taken up once, when that is closed, and  *)
(* has it open while it waits and its run goes on: whoever came first, the      *)
(* reconciler of the report, or any of the operators that looked at it.  No run *)
(* that is over or verifies has anything left to execute.                       *)
THEOREM TakenUpOnce == Spec => []BlockedWorkIsTakenUpOnce
<1>1. Spec => []WorkInv
  BY FitsFirst, StepFits, PTL DEF Spec
<1> QED
  BY <1>1, FitsIsTakenUpOnce, PTL

=============================================================================
