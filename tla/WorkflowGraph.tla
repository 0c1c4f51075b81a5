---------------------------- MODULE WorkflowGraph ---------------------------
(***************************************************************************)
(* How a run moves through any workflow document that publishing accepts   *)
(* (internal/domain/workflow/validation.go and internal/app/runtime:       *)
(* advance.go, wait.go, approval.go, cancel_run_coordinator.go,            *)
(* completion.go).                                                         *)
(*                                                                         *)
(* RunEngine fixes one graph and looks inside an execution.  Here the      *)
(* graph is chosen among documents, and an executable node is a TASK that  *)
(* starts and ends; what is in question is routing: iterations and their   *)
(* budgets, escalation, repeated forks, joins, waits and approvals with    *)
(* their timers, cancellation, and when the run is over.                   *)
(*                                                                         *)
(* A node run is known by the columns that are unique in its table, its    *)
(* node's key and its activation sequence.  A branch token is known by its *)
(* fork's activation sequence and the fork's outcome.  Each action is one  *)
(* write transaction; one that inserts a row that is already there fails   *)
(* as a whole.                                                             *)
(***************************************************************************)
EXTENDS Naturals, FiniteSets, FiniteSetsExt, Functions

CONSTANT Candidates \* documents a user may try to publish

(* "ok" is every first outcome: the completion outcome of a wait, a branch of *)
(* a fork.  "alt" is the other one: a wait's timeout outcome, the escalation  *)
(* outcome of an approval and of a cycle policy, another branch.              *)
Outcomes == {"ok", "alt"}
Types == {"START", "TASK", "ROUTER", "WAIT", "PAUSE", "APPROVAL", "FORK", "JOIN", "END"}
Registering == {"WAIT", "PAUSE", "APPROVAL"} \* PAUSE is a WAIT of mode DURATION

(* budget[k] is maxIterations of k's cycle policy, 0 when it has none.  mode  *)
(* is the join's mode.                                                        *)
IsDocument(d) ==
  /\ DOMAIN d = {"type", "edge", "budget", "mode"}
  /\ IsFiniteSet(DOMAIN d.type)
  /\ d.type \in [DOMAIN d.type -> Types]
  /\ DOMAIN d.edge = DOMAIN d.type
  /\ \A k \in DOMAIN d.type :
       DOMAIN d.edge[k] \subseteq Outcomes /\ Range(d.edge[k]) \subseteq DOMAIN d.type
  /\ d.budget \in [DOMAIN d.type -> Nat]
  /\ d.mode \in {"ALL", "ANY"}

ASSUME GraphAssumption == \A d \in Candidates : IsDocument(d)

-----------------------------------------------------------------------------
(* What publishing accepts. *)

(* The nodes reached from the set K along edges that do not leave a node of a *)
(* type in Stops; K is among them.                                            *)
Further(d, M, Stops) ==
  M \union UNION {Range(d.edge[k]) : k \in {m \in M : d.type[m] \notin Stops}}

Closure(d, K, Stops) ==
  LET step[n \in Nat] == IF n = 0 THEN K ELSE Further(d, step[n - 1], Stops)
  IN step[Cardinality(DOMAIN d.type)]

NodesOfType(d, t) == {k \in DOMAIN d.type : d.type[k] = t}

(* The nodes that share a cycle with k: its strongly connected component, empty *)
(* when k is on no cycle.                                                       *)
Cycle(d, k) ==
  {j \in Closure(d, Range(d.edge[k]), {}) : k \in Closure(d, Range(d.edge[j]), {})}

EscalationLeaves(d, k) == d.budget[k] > 0 /\ d.edge[k]["alt"] \notin Cycle(d, k)

(* Mutant: one escalation out of each cycle is enough. *)
BoundedCyclesOnce(d) ==
  \A k \in DOMAIN d.type : Cycle(d, k) # {} => \E j \in Cycle(d, k) : EscalationLeaves(d, j)

(* Some node of every cycle has a policy whose escalation leaves the cycle, and *)
(* no node of a cycle has one whose escalation stays.                           *)
BoundedCycles(d) ==
  \A k \in DOMAIN d.type : Cycle(d, k) # {} =>
    /\ \E j \in Cycle(d, k) : EscalationLeaves(d, j)
    /\ d.budget[k] > 0 => EscalationLeaves(d, k)

(* What a branch meets first, whichever way it goes. *)
BranchRegion(d, k) == Closure(d, {k}, {"JOIN", "FORK", "END"})
FirstJoins(d, f) ==
  {k \in NodesOfType(d, "JOIN") : \E b \in Range(d.edge[f]) : k \in BranchRegion(d, b)}

ForkJoinTopology(d) ==
  \A f \in NodesOfType(d, "FORK") :
    /\ \A b \in Range(d.edge[f]), k \in DOMAIN d.type :
         k \in BranchRegion(d, b) => d.type[k] \notin {"FORK", "END"}
    /\ Cardinality(FirstJoins(d, f)) = 1
    /\ \A g \in NodesOfType(d, "FORK") \ {f} : FirstJoins(d, f) # FirstJoins(d, g)

(* Narrower than the validator, which takes a fork all of whose branches lead    *)
(* straight to the join: the transaction that enters such a fork decides its     *)
(* join too and routes on from there.  Here one branch at least has work to do,  *)
(* so whenever a fork is entered its join waits.                                 *)
BranchesHaveWork(d) ==
  \A f \in NodesOfType(d, "FORK") : \E b \in Range(d.edge[f]) : d.type[b] # "JOIN"

(* A START has one outcome and a FORK two branches in every candidate; the      *)
(* validator would take more of either.                                         *)
OutcomesDeclared(d, k) ==
  LET outs == DOMAIN d.edge[k] IN
    CASE d.type[k] = "END" -> outs = {}
      [] d.type[k] \in {"ROUTER", "JOIN", "START", "PAUSE"} -> outs = {"ok"}
      [] d.type[k] = "FORK" -> outs = Outcomes
      [] OTHER -> "ok" \in outs

Accepted(d) ==
  /\ Cardinality(NodesOfType(d, "START")) = 1
  /\ NodesOfType(d, "END") # {}
  /\ \A k \in DOMAIN d.type :
       /\ OutcomesDeclared(d, k)
       /\ d.budget[k] > 0 => "alt" \in DOMAIN d.edge[k]
       /\ Range(d.edge[k]) \intersect NodesOfType(d, "START") = {}
       /\ Closure(d, {k}, {}) \intersect NodesOfType(d, "END") # {}
  /\ Closure(d, NodesOfType(d, "START"), {}) = DOMAIN d.type
  /\ BoundedCycles(d)
  /\ ForkJoinTopology(d)
  /\ BranchesHaveWork(d)

-----------------------------------------------------------------------------
VARIABLES
  doc,    \* the document of the run's workflow version
  run,    \* workflow_runs.state
  intent, \* run_cancellation_intents.state, "NONE" before there is one
  rows,   \* node_runs: a record for each <<node key, activation sequence>>
  tokens  \* branch_tokens.state: a state for each <<fork's sequence, outcome>>

vars == <<doc, run, intent, rows, tokens>>

NoToken == <<0, "none">>
Type(id) == doc.type[id[1]]
Cancelled == run \in {"CANCELLING", "CANCELLED"}

(* The columns of a node run, and with them what its wait registration or      *)
(* approval request (reg) and its timer job (timer) have come to.              *)
Row(s, i, t, g) == [state |-> s, iteration |-> i, token |-> t, outcome |-> "none",
                    reg |-> g, timer |-> IF g = "OPEN" THEN "SET" ELSE "NONE",
                    fork |-> 0]

Live(r) == r.state \in {"PENDING", "RUNNING", "WAITING"}
Open(r) == r.reg = "OPEN"

(* What a transaction works on.  ok turns FALSE when an INSERT meets a row with *)
(* the same node key and sequence; the transaction then rolls back.             *)
World == [rows |-> rows, tokens |-> tokens, ok |-> TRUE]

Create(w, id, r) ==
  IF id \in DOMAIN w.rows
  THEN [w EXCEPT !.ok = FALSE]
  ELSE [w EXCEPT !.rows = [x \in {id} \union DOMAIN @ |-> IF x = id THEN r ELSE @[x]]]

Iteration(w, k) ==
  LET taken == {w.rows[id].iteration : id \in {x \in DOMAIN w.rows : x[1] = k}}
  IN IF taken = {} THEN 0 ELSE Max(taken) + 1

(* Mutant: an approval's node run is not made to wait. *)
FirstStateApprovalPending(k) ==
  CASE doc.type[k] \in {"START", "ROUTER"} -> "RUNNING"
    [] doc.type[k] \in {"WAIT", "PAUSE"}   -> "WAITING"
    [] doc.type[k] \in {"END", "FORK"}     -> "SUCCEEDED"
    [] OTHER                               -> "PENDING"

FirstState(k) ==
  CASE doc.type[k] \in {"START", "ROUTER"} -> "RUNNING"
    [] doc.type[k] \in Registering         -> "WAITING"
    [] doc.type[k] \in {"END", "FORK"}     -> "SUCCEEDED"
    [] OTHER                               -> "PENDING"

Activate(w, k, s, t) ==
  Create(w, <<k, s>>, Row(FirstState(k), Iteration(w, k), t,
                          IF doc.type[k] \in Registering THEN "OPEN" ELSE "NONE"))

(* The join of a fork: one node run for the fork's node run f, however often   *)
(* the fork is entered, found again by an identifier made from both.           *)
JoinOf(f) == CHOOSE j \in FirstJoins(doc, f[1]) : TRUE
JoinRow(f) == <<JoinOf(f), f[2] + 1>>
HasJoinRow(w, f) == JoinRow(f) \in DOMAIN w.rows /\ w.rows[JoinRow(f)].fork = f[2]

WithJoinRow(w, f) ==
  IF HasJoinRow(w, f) THEN w
  ELSE Create(w, JoinRow(f),
              [Row("WAITING", Iteration(w, JoinOf(f)), NoToken, "NONE") EXCEPT !.fork = f[2]])

(* All tokens first, then a node run per branch in the order of the outcomes,  *)
(* which the compiler sorts.  A branch that leads straight to the join has     *)
(* only its token; the join is looked at, and waits for the other branch,      *)
(* which has work to do (BranchesHaveWork) and so an ACTIVE token.             *)
Dispatch(w, f) ==
  LET ts == {<<f[2], o>> : o \in Outcomes}
      to(o) == doc.edge[f[1]][o]
      straight(o) == doc.type[to(o)] = "JOIN"
      first(o) == IF straight(o) THEN "SUCCEEDED" ELSE "ACTIVE"
      w0 == [w EXCEPT !.tokens = [t \in ts \union DOMAIN @ |-> IF t \in ts THEN first(t[2]) ELSE @[t]]]
      branch(v, o, s) == IF straight(o) THEN WithJoinRow(v, f)
                                        ELSE Activate(v, to(o), s, <<f[2], o>>)
  IN branch(branch(w0, "alt", f[2] + 1), "ok", f[2] + IF straight("alt") THEN 1 ELSE 2)

Enter(w, k, s, t) ==
  LET v == Activate(w, k, s, t)
  IN IF doc.type[k] = "FORK" /\ v.ok THEN Dispatch(v, <<k, s>>) ELSE v

(* Mutant: the first time a node is entered is not counted. *)
ExhaustedLate(w, k) == doc.budget[k] > 0 /\ Iteration(w, k) > doc.budget[k] + 1

(* checkCycleEscalationRoutable: k's budget is used up and its escalation does *)
(* not leave the cycle.                                                        *)
Exhausted(w, k) == doc.budget[k] > 0 /\ Iteration(w, k) > doc.budget[k]
RoutingDefect(w, k) == Exhausted(w, k) /\ doc.edge[k]["alt"] \in Cycle(doc, k)

(* Mutant: an exhausted node is left by its first outcome. *)
ExitFirst(k) == doc.edge[k]["ok"]

(* Where an exhausted node is left to. *)
Exit(k) == doc.edge[k]["alt"]

(* From the node run id to the target of its outcome o.  A target whose budget *)
(* is used up is recorded as SKIPPED, and its escalation target is entered.    *)
Route(w, id, o) ==
  LET k == doc.edge[id[1]][o]
      s == id[2] + 1
      t == w.rows[id].token
      skipped == [Row("SKIPPED", Iteration(w, k), t, "NONE") EXCEPT !.outcome = "alt"]
  IN IF Exhausted(w, k) THEN Enter(Create(w, <<k, s>>, skipped), Exit(k), s + 1, t)
                        ELSE Enter(w, k, s, t)

Complete(w, id, o) == [w EXCEPT !.rows[id].state = "SUCCEEDED", !.rows[id].outcome = o]

(* Mutant: the tokens of every fork of the run are counted. *)
BranchesOfRun(f, ts) == {ts[t] : t \in DOMAIN ts}

(* The states of fork f's tokens. *)
BranchesOf(f, ts) == {ts[t] : t \in {x \in DOMAIN ts : x[1] = f[2]}}

(* Mutant: a branch that succeeded decides a join of mode ANY at once. *)
VerdictEarly(f, ts) ==
  LET states == BranchesOf(f, ts)
      infeasible == IF doc.mode = "ALL" THEN states \intersect {"FAILED", "CANCELLED"} # {}
                                        ELSE states \intersect {"SUCCEEDED", "ACTIVE"} = {}
  IN IF infeasible THEN "FAILED"
     ELSE IF "ACTIVE" \notin states \/ (doc.mode = "ANY" /\ "SUCCEEDED" \in states) THEN "SUCCEEDED"
     ELSE "WAITING"

(* The verdict of fork f's join on the tokens ts. *)
Verdict(f, ts) ==
  LET states == BranchesOf(f, ts)
      infeasible == IF doc.mode = "ALL" THEN states \intersect {"FAILED", "CANCELLED"} # {}
                                        ELSE states \intersect {"SUCCEEDED", "ACTIVE"} = {}
  IN IF infeasible THEN "FAILED" ELSE IF "ACTIVE" \notin states THEN "SUCCEEDED" ELSE "WAITING"

(* evaluateJoinTx: a join that still waits and has a verdict fails, or succeeds *)
(* and routes, unless the run is being cancelled.                               *)
EvaluateJoin(w, f) ==
  LET v == WithJoinRow(w, f)
      j == JoinRow(f)
      verdict == Verdict(f, v.tokens)
  IN IF ~v.ok \/ v.rows[j].state # "WAITING" \/ verdict = "WAITING" THEN v
     ELSE IF verdict = "FAILED" THEN [v EXCEPT !.rows[j].state = "FAILED"]
     ELSE IF Cancelled THEN Complete(v, j, "ok") ELSE Route(Complete(v, j, "ok"), j, "ok")

ForkOf(t) == CHOOSE id \in DOMAIN rows : id[2] = t[1] /\ Type(id) = "FORK"

Settle(w, t, s) ==
  IF t = NoToken THEN w ELSE EvaluateJoin([w EXCEPT !.tokens[t] = s], ForkOf(t))

(* advanceRunTx for a node run that is RUNNING or WAITING.  A branch that comes *)
(* to its join settles its token even when the run is being cancelled; any      *)
(* other route is then not taken.  A routing defect, which publishing is to     *)
(* exclude, is not told apart from a transaction that does not commit.          *)
Advance(w, id, o) ==
  LET k == doc.edge[id[1]][o]
      v == Complete(w, id, o)
      t == w.rows[id].token
  IN IF t # NoToken /\ doc.type[k] = "JOIN" THEN Settle(v, t, "SUCCEEDED")
     ELSE IF Cancelled THEN v
     ELSE IF RoutingDefect(w, k) THEN [w EXCEPT !.ok = FALSE]
     ELSE Route(v, id, o)

(* Mutant: the first node run of each node and token. *)
LatestFirst(w) ==
  {id \in DOMAIN w.rows : \A x \in DOMAIN w.rows :
     (x[1] = id[1] /\ w.rows[x].token = w.rows[id].token) => x[2] >= id[2]}

(* reconcileRunTerminalityTx, on the latest node run of each node and token. *)
Latest(w) ==
  {id \in DOMAIN w.rows : \A x \in DOMAIN w.rows :
     (x[1] = id[1] /\ w.rows[x].token = w.rows[id].token) => x[2] <= id[2]}

Reconciled(w) ==
  LET latest == Latest(w)
      live == \E id \in latest : Live(w.rows[id])
      ended == \E id \in latest : Type(id) = "END" /\ w.rows[id].state = "SUCCEEDED"
  IN IF live \/ run \notin {"RUNNING", "CANCELLING"} THEN run
     ELSE IF run = "CANCELLING" THEN "CANCELLED"
     ELSE IF ended THEN "VERIFYING" ELSE "FAILED"

Commit(world) ==
  \E w \in {world} :
    /\ w.ok
    /\ rows' = w.rows
    /\ tokens' = w.tokens
    /\ run' = Reconciled(w)

-----------------------------------------------------------------------------
Init ==
  /\ doc \in {d \in Candidates : Accepted(d)}
  /\ run = "RUNNING"
  /\ intent = "NONE"
  /\ rows = [id \in NodesOfType(doc, "START") \X {1} |-> Row("RUNNING", 0, NoToken, "NONE")]
  /\ tokens = <<>>

(* The ADVANCE_RUN job of a node without a choice. *)
Structural(id) == rows[id].state = "RUNNING" /\ Type(id) \in {"START", "ROUTER"}

AdvanceRun(id) ==
  /\ Structural(id)
  /\ Commit(Advance(World, id, "ok"))
  /\ UNCHANGED <<doc, intent>>

StartTask(id) ==
  /\ rows[id].state = "PENDING" /\ Type(id) = "TASK" /\ ~Cancelled
  /\ rows' = [rows EXCEPT ![id].state = "RUNNING"]
  /\ UNCHANGED <<doc, run, intent, tokens>>

(* An executor may choose any outcome but the one its cycle policy escalates by. *)
Selectable(id) == DOMAIN doc.edge[id[1]] \ (IF doc.budget[id[1]] > 0 THEN {"alt"} ELSE {})

RunningTask(id) == rows[id].state = "RUNNING" /\ Type(id) = "TASK"

FinishTask(id, o) ==
  /\ RunningTask(id) /\ o \in Selectable(id)
  /\ Commit(Advance(World, id, o))
  /\ UNCHANGED <<doc, intent>>

(* The last attempt failed, or was cancelled by the run's cancellation. *)
Ended(id, s) == Settle([World EXCEPT !.rows[id].state = s], rows[id].token, s)

FailTask(id) ==
  /\ RunningTask(id)
  /\ Commit(Ended(id, "FAILED"))
  /\ UNCHANGED <<doc, intent>>

CancelTask(id) ==
  /\ RunningTask(id) /\ Cancelled
  /\ Commit(Ended(id, "CANCELLED"))
  /\ UNCHANGED <<doc, intent>>

(* A wait registration or an approval request is closed and its node run moves *)
(* on by outcome o, in one transaction.                                        *)
Answer(id, g, o, tm) ==
  Commit(Advance([World EXCEPT !.rows[id].reg = g, !.rows[id].timer = tm], id, o))

(* SignalWait does not look at the registration's signal name. *)
SignalWait(id) ==
  /\ Open(rows[id]) /\ Type(id) \in {"WAIT", "PAUSE"}
  /\ Answer(id, "CONSUMED", "ok", rows[id].timer)
  /\ UNCHANGED <<doc, intent>>

ResolveApproval(id, o) ==
  /\ Open(rows[id]) /\ Type(id) = "APPROVAL" /\ o \in DOMAIN doc.edge[id[1]]
  /\ Answer(id, "DECIDED", o, rows[id].timer)
  /\ UNCHANGED <<doc, intent>>

(* The state a due timer gives an open registration. *)
Expired(id) ==
  CASE Type(id) = "WAIT"  -> "TIMED_OUT"
    [] Type(id) = "PAUSE" -> "ELAPSED"
    [] OTHER              -> "ESCALATED"

TimerOutcome(id) ==
  IF Type(id) # "PAUSE" /\ "alt" \in DOMAIN doc.edge[id[1]] THEN "alt" ELSE "ok"

(* Mutant: a timer does not look whether it is too late. *)
TimerDueAnyway(id) == rows[id].timer = "SET" /\ rows[id].reg # "NONE"

TimerDue(id) == rows[id].timer = "SET" /\ Open(rows[id])

(* A timer job is delivered at least once: the worker may die after the commit, *)
(* and then the timer is still set.                                             *)
TimerFires(id) ==
  /\ TimerDue(id)
  /\ \E tm \in {"SET", "DONE"} : Answer(id, Expired(id), TimerOutcome(id), tm)
  /\ UNCHANGED <<doc, intent>>

TimerFiresLate(id) ==
  /\ rows[id].timer = "SET" /\ ~Open(rows[id])
  /\ rows' = [rows EXCEPT ![id].timer = "DONE"]
  /\ UNCHANGED <<doc, run, intent, tokens>>

(* The timer job has used up its claims. *)
TimerDies(id) ==
  /\ TimerDue(id)
  /\ rows' = [rows EXCEPT ![id].timer = "DEAD"]
  /\ UNCHANGED <<doc, run, intent, tokens>>

CancelRun ==
  /\ run \in {"RUNNING", "VERIFYING"}
  /\ run' = "CANCELLING"
  /\ intent' = "REQUESTED"
  /\ UNCHANGED <<doc, rows, tokens>>

(* Mutant: a RUNNING node run is always left to its executor. *)
SweepableNotRunning(id) == rows[id].state \in {"PENDING", "WAITING"}

(* The sweep cancels what has not started: PENDING and WAITING node runs, and   *)
(* RUNNING ones that no executor holds.  It takes the node runs by sequence,    *)
(* those of one sequence in any order; a join shares its sequence with the      *)
(* first node of a branch, and joinFirst says which of the two is taken first.  *)
Sweepable(id) ==
  rows[id].state \in {"PENDING", "WAITING"} \/ (rows[id].state = "RUNNING" /\ Type(id) # "TASK")

Swept(joinFirst) ==
  LET cut == {id \in DOMAIN rows : Sweepable(id)}
      gone == {rows[id].token : id \in cut} \ {NoToken}
      cancelled(ts) == [t \in DOMAIN tokens |-> IF t \in ts THEN "CANCELLED" ELSE tokens[t]]
      before(id) == {x \in cut : x[2] < id[2] \/ (x[2] = id[2] /\ ~joinFirst)}
      atJoin(id) == cancelled({rows[x].token : x \in before(id)})
      verdict(id) == Verdict(ForkOf(<<rows[id].fork, "ok">>), atJoin(id))
      final(id) ==
        IF rows[id].fork = 0 \/ verdict(id) = "WAITING"
        THEN [rows[id] EXCEPT !.state = "CANCELLED", !.reg = IF @ = "OPEN" THEN "CANCELLED" ELSE @]
        ELSE [rows[id] EXCEPT !.state = verdict(id),
                              !.outcome = IF verdict(id) = "SUCCEEDED" THEN "ok" ELSE @]
      w == [rows |-> [id \in DOMAIN rows |-> IF id \in cut THEN final(id) ELSE rows[id]],
            tokens |-> cancelled(gone), ok |-> TRUE]
      forks == {ForkOf(t) : t \in gone}
  IN IF forks = {} THEN w ELSE EvaluateJoin(w, CHOOSE f \in forks : TRUE)

CoordinatorSweep ==
  /\ run = "CANCELLING" /\ intent = "REQUESTED"
  /\ \E joinFirst \in BOOLEAN : Commit(Swept(joinFirst))
  /\ intent' = "COMPLETED"
  /\ UNCHANGED doc

Next ==
  \/ \E id \in DOMAIN rows :
       \/ AdvanceRun(id) \/ StartTask(id) \/ FailTask(id) \/ CancelTask(id)
       \/ SignalWait(id) \/ TimerFires(id) \/ TimerFiresLate(id) \/ TimerDies(id)
       \/ \E o \in Outcomes : FinishTask(id, o) \/ ResolveApproval(id, o)
  \/ CancelRun \/ CoordinatorSweep

Spec == Init /\ [][Next]_vars

(* Jobs are delivered until they are done and an execution ends; a timer job    *)
(* fires unless it used up its claims first.  Nobody has to send a signal, to   *)
(* decide an approval or to cancel a run, and a choice of outcome is not fair.  *)
Work ==
  \E id \in DOMAIN rows :
    \/ run = "RUNNING" /\ (AdvanceRun(id) \/ StartTask(id))
    \/ FailTask(id) \/ CancelTask(id) \/ TimerFires(id)
    \/ \E o \in Outcomes : FinishTask(id, o)

FairSpec == Spec /\ WF_vars(Work) /\ WF_vars(CoordinatorSweep)

(* What this fairness comes to when steps do not go on forever: the run does    *)
(* not stand still while there is work.  TLC decides it faster, with ENABLED    *)
(* spelled out.                                                                 *)
CanWork ==
  \/ \E id \in DOMAIN rows :
       \/ run = "RUNNING" /\ Structural(id) /\ Advance(World, id, "ok").ok
       \/ run = "RUNNING" /\ rows[id].state = "PENDING" /\ Type(id) = "TASK"
       \/ RunningTask(id) /\ (Ended(id, "FAILED").ok \/ \E o \in Selectable(id) : Advance(World, id, o).ok)
       \/ TimerDue(id) /\ Advance(World, id, TimerOutcome(id)).ok
  \/ run = "CANCELLING" /\ intent = "REQUESTED" /\ \E joinFirst \in BOOLEAN : Swept(joinFirst).ok

ProgressSpec == Spec /\ ([]<>~CanWork \/ []<><<TRUE>>_vars)

-----------------------------------------------------------------------------
(* The columns hold what they may hold, and a node run has an open registration *)
(* or request exactly while it waits for an answer.                             *)
RowType ==
  [state: {"PENDING", "RUNNING", "WAITING", "SUCCEEDED", "FAILED", "CANCELLED", "SKIPPED"},
   iteration: Nat, token: {NoToken} \union DOMAIN tokens, outcome: Outcomes \union {"none"},
   reg: {"NONE", "OPEN", "CONSUMED", "DECIDED", "TIMED_OUT", "ELAPSED", "ESCALATED", "CANCELLED"},
   timer: {"NONE", "SET", "DONE", "DEAD"}, fork: Nat]

TypeOK ==
  /\ run \in {"RUNNING", "VERIFYING", "FAILED", "CANCELLING", "CANCELLED"}
  /\ intent \in {"NONE", "REQUESTED", "COMPLETED"}
  /\ \A t \in DOMAIN tokens :
       t[2] \in Outcomes /\ tokens[t] \in {"ACTIVE", "SUCCEEDED", "FAILED", "CANCELLED"}
  /\ \A id \in DOMAIN rows :
       /\ id[1] \in DOMAIN doc.type
       /\ rows[id] \in RowType
       /\ Open(rows[id]) <=> rows[id].state = "WAITING" /\ Type(id) \in Registering

(* A run that is over has nothing left that could move: reconciliation looks at *)
(* the latest node run of each node and branch only, and must not overlook an   *)
(* older one.  A run that was not cancelled has also settled every branch.  It  *)
(* reached END on one path at most, and is verified only when it did.           *)
Ends == {id \in DOMAIN rows : Type(id) = "END"}
OverMeansQuiet ==
  /\ run \in {"VERIFYING", "FAILED", "CANCELLED"} =>
       /\ \A id \in DOMAIN rows : ~Live(rows[id])
       /\ intent = "NONE" => \A t \in DOMAIN tokens : tokens[t] # "ACTIVE"
  /\ Cardinality(Ends) <= 1
  /\ run = "VERIFYING" => Ends # {}
  /\ run = "FAILED" => Ends = {}

(* The outer path of a run and each of its branches is in one place at a time:  *)
(* an ACTIVE token has exactly one live node run, and outside the branches of a *)
(* fork that is not decided nothing else goes on.  What belongs to a branch     *)
(* lies between its fork and its join, also when the fork is entered again: the *)
(* validator's walk and the routing agree on where a branch ends.               *)
Carried(t) == {id \in DOMAIN rows : rows[id].token = t /\ Live(rows[id])}
OnePlaceAtATime ==
  /\ Cardinality(Carried(NoToken)) <= 1
  /\ ~Cancelled => \A t \in DOMAIN tokens :
       Cardinality(Carried(t)) = IF tokens[t] = "ACTIVE" THEN 1 ELSE 0
  /\ (~Cancelled /\ \E t \in DOMAIN tokens : tokens[t] = "ACTIVE") =>
       \A id \in Carried(NoToken) : rows[id].fork # 0
  /\ \A id \in DOMAIN rows : rows[id].token # NoToken =>
       /\ id[1] \in BranchRegion(doc, doc.edge[ForkOf(rows[id].token)[1]][rows[id].token[2]])
       /\ Type(id) \notin {"FORK", "END"}

(* A join speaks for the branches of its own fork's node run.                   *)
JoinSpeaksForItsFork ==
  \A id \in DOMAIN rows : rows[id].fork # 0 =>
    LET mine == {tokens[t] : t \in {x \in DOMAIN tokens : x[1] = rows[id].fork}} IN
      /\ rows[id].state = "SUCCEEDED" =>
           IF doc.mode = "ALL" THEN mine = {"SUCCEEDED"}
                               ELSE "SUCCEEDED" \in mine /\ "ACTIVE" \notin mine
      /\ rows[id].state = "FAILED" =>
           IF doc.mode = "ALL" THEN mine \intersect {"FAILED", "CANCELLED"} # {}
                               ELSE mine \subseteq {"FAILED", "CANCELLED"}

(* Once a budget is used up the path leaves the cycle for good: nothing of it   *)
(* is activated later on that path.  The validator's rule on escalation edges   *)
(* is what makes the runtime's choice an exit.                                  *)
EscalationLeavesForGood ==
  \A id \in DOMAIN rows : rows[id].state = "SKIPPED" =>
    \A x \in DOMAIN rows :
      (rows[x].token = rows[id].token /\ x[2] > id[2]) => x[1] \notin Cycle(doc, id[1])

(* No node is entered more often than its budget allows, from wherever: a first *)
(* time, and maxIterations rework rounds.  Only what Route leads to is counted  *)
(* against the budget, neither a first node of a branch nor an exit.            *)
Rounds(k) == {id \in DOMAIN rows : id[1] = k /\ rows[id].state # "SKIPPED"}
BudgetIsKept ==
  \A k \in DOMAIN doc.type : doc.budget[k] > 0 => Cardinality(Rounds(k)) <= doc.budget[k] + 1

(* Cycles end: by their budgets, and by exits that do not lead back.            *)
CyclesAreBounded == EscalationLeavesForGood /\ BudgetIsKept

(* A document is tidy when a node belongs to one branch or to the outer path,   *)
(* an escalation leads to no join and out of no fork, and whichever way a       *)
(* branch goes in a fork that can be entered again, a node is as many steps     *)
(* away from the fork.  Publishing does not ask for it.                         *)
OuterNodes(d) == Closure(d, NodesOfType(d, "START") \union NodesOfType(d, "JOIN"), {"FORK"})
BranchNodes(d, f, o) == BranchRegion(d, d.edge[f][o]) \ NodesOfType(d, "JOIN")
FirstStep(d, f, o) == IF o = "alt" \/ d.type[d.edge[f]["alt"]] = "JOIN" THEN 1 ELSE 2

(* The numberings of a branch's nodes by their distance from the fork.          *)
Distances(d, f, o) ==
  {dist \in [BranchNodes(d, f, o) -> 1..(Cardinality(DOMAIN d.type) + 2)] :
     \A k \in BranchNodes(d, f, o) :
       /\ k = d.edge[f][o] => dist[k] = FirstStep(d, f, o)
       /\ \A m \in Range(d.edge[k]) \intersect BranchNodes(d, f, o) : dist[m] = dist[k] + 1}

Tidy(d) ==
  LET forks == NodesOfType(d, "FORK") IN
    /\ \A f, g \in forks, o, p \in Outcomes :
         BranchNodes(d, f, o) \intersect BranchNodes(d, g, p) # {} => f = g /\ o = p
    /\ \A f \in forks, o \in Outcomes : BranchNodes(d, f, o) \intersect OuterNodes(d) = {}
    /\ \A k \in DOMAIN d.type : d.budget[k] > 0 => k \notin forks /\ d.type[d.edge[k]["alt"]] # "JOIN"
    /\ \A f \in forks, o \in Outcomes : Cycle(d, f) # {} => Distances(d, f, o) # {}

(* Whatever comes next, its transaction can commit: no accepted document has an *)
(* exhausted budget without an exit, and no row that is inserted, by a node     *)
(* run's outcome, by the end of an execution or by the sweep, is there already. *)
NextStepCommits ==
  /\ \A id \in DOMAIN rows :
       LET w == [World EXCEPT !.rows[id].reg = IF @ = "OPEN" THEN "CONSUMED" ELSE @] IN
         /\ (Live(rows[id]) /\ Type(id) # "JOIN" /\ rows[id].state # "PENDING") =>
              \A o \in DOMAIN doc.edge[id[1]] : Advance(w, id, o).ok
         /\ RunningTask(id) => \A s \in {"FAILED", "CANCELLED"} : Ended(id, s).ok
  /\ run = "CANCELLING" => \A joinFirst \in BOOLEAN : Swept(joinFirst).ok

(* A branch that reaches its join leaves nothing there but its settled token:   *)
(* the node run of a JOIN belongs to no single branch (docs/design/06, V4-10).  *)
JoinIsShared == \A id \in DOMAIN rows : Type(id) = "JOIN" => rows[id].token = NoToken

(* An answer stands: once a wait or an approval is closed, by whoever came      *)
(* first, a late timer, signal or decision changes nothing of its node run.     *)
AnswerStands ==
  [][\A id \in DOMAIN rows : (rows[id].reg \notin {"NONE", "OPEN"}) =>
       rows'[id] = [rows[id] EXCEPT !.timer = rows'[id].timer]]_vars

(* A run that nobody cancels is verified or fails, unless a timer job died.     *)
RunEnds ==
  (run = "RUNNING") ~> (run # "RUNNING" \/ \E id \in DOMAIN rows : rows[id].timer = "DEAD")

(* How a cancelled run may fail to become CANCELLED: a node run of a branch     *)
(* that completes after the cancellation, short of the join, is not followed    *)
(* and leaves its token ACTIVE, and the join waits for it.                      *)
JoinIsStranded ==
  \E id \in DOMAIN rows :
    /\ rows[id].fork # 0 /\ rows[id].state = "WAITING"
    /\ \E t \in DOMAIN tokens : t[1] = rows[id].fork /\ tokens[t] = "ACTIVE" /\ Carried(t) = {}

(* Runs settle: cancelled or not, a run comes to its end unless a timer job     *)
(* died or its join is stranded by a cancellation.                              *)
RunSettles ==
  /\ RunEnds
  /\ (run = "CANCELLING") ~> (run = "CANCELLED" \/ (intent = "COMPLETED" /\ JoinIsStranded))

=============================================================================
