----------------------------- MODULE LocalCommit -----------------------------
(***************************************************************************)
(* The local commits of a release set in one worktree                      *)
(* (app/releasesetcommit).  A request leaves an operation REQUESTED and a  *)
(* job; the job's handler looks for a commit that carries the operation's  *)
(* marker, makes one if HEAD does not, and records it.  Git and the        *)
(* database are changed in turn and never together, a delivery may die     *)
(* anywhere in between, and people use the worktree all the while: they    *)
(* edit, commit, and have HEAD adopted (app/workspacereconcile).           *)
(*                                                                         *)
(* Each action is one transaction, or one step in the worktree.  A crash   *)
(* is a handler that takes no further step.                                *)
(***************************************************************************)
EXTENDS Integers, Sequences, FiniteSets

CONSTANTS
  Ops,       \* operations, each with its job
  MaxClaims, \* claims of a job
  MaxEvents, \* bound: requests, lost leases, commits of others, adoptions, quarantines
  Outside,   \* whoever commits without aw
  None       \* no executor, no parent

ASSUME CommitAssumption ==
  /\ MaxClaims \in Nat \ {0} /\ MaxEvents \in Nat
  /\ Outside \notin Ops /\ None \notin Int /\ None \notin Ops \X (1..MaxClaims)

VARIABLES
  log,     \* the commits after the one the worktree was provisioned from, HEAD last:
           \* whose marker it carries, late if whoever made it no longer held both
           \* leases, buries if it hides from HEAD the commit of an open operation
  dirty,   \* there are changes to commit
  row,     \* repository_workspaces: state, version, and current_revision as a place in log
  op,      \* release_set_local_commits
  job,     \* durable_jobs
  lease,   \* local_commit_write_leases: fence, holder, live while not expired or released
  ex,      \* the handler of an operation's k-th delivery: what it has loaded and done
  adopter, \* an adoption between its look at HEAD and its transaction
  left     \* how many of MaxEvents are still to come

vars == <<log, dirty, row, op, job, lease, ex, adopter, left>>
repo == <<log, dirty>>

Executors == Ops \X (1..MaxClaims)
HEAD == Len(log)

NoOp == [state |-> "ABSENT", reason |-> "none", parent |-> None, result |-> 0, version |-> 0]
Off == [pc |-> "off", version |-> 0, rowVersion |-> 0, rev |-> 0,
        parent |-> None, result |-> 0, fence |-> 0, reason |-> "none"]
NoAdopter == [version |-> 0, head |-> 0]

Init ==
  /\ log = <<>> /\ dirty = TRUE
  /\ row = [state |-> "READY", version |-> 1, rev |-> 0]
  /\ op = [o \in Ops |-> NoOp]
  /\ job = [o \in Ops |-> [state |-> "NONE", claims |-> 0]]
  /\ lease = [fence |-> 0, holder |-> None, live |-> FALSE]
  /\ ex = [e \in Executors |-> Off]
  /\ adopter = NoAdopter
  /\ left = MaxEvents

-----------------------------------------------------------------------------
(* One of the bounded events. *)
Event == left > 0 /\ left' = left - 1

HoldsJob(e) == job[e[1]].state = "LEASED" /\ job[e[1]].claims = e[2]

(* The lease row is the one that was granted to e. *)
OwnsLease(e) == lease.live /\ lease.holder = e /\ lease.fence = ex[e].fence

(* The release leaves alone a lease that was lost. *)
Released(e) == IF OwnsLease(e) THEN [lease EXCEPT !.live = FALSE] ELSE lease

ReadyAt(version) == row.state = "READY" /\ row.version = version

Commit(who, late) ==
  /\ dirty /\ dirty' = FALSE
  /\ log' = Append(log, [of |-> who, late |-> late,
       buries |-> HEAD > 0 /\ log[HEAD].of \in Ops \ {who} /\ op[log[HEAD].of].state = "REQUESTED"])

(* The operation has a commit that HEAD no longer shows. *)
Buried(o) == \E i \in 1..(Len(log) - 1) : log[i].of = o /\ log[i + 1].buries

-----------------------------------------------------------------------------
(* requestLocalCommitTx: the worktree is READY, and no operation has had this   *)
(* marker before.                                                               *)
RequestReleaseSetLocalCommit(o) ==
  /\ op[o].state = "ABSENT" /\ row.state = "READY"
  /\ op' = [op EXCEPT ![o] = [@ EXCEPT !.state = "REQUESTED", !.version = 1]]
  /\ job' = [job EXCEPT ![o].state = "AVAILABLE"]
  /\ Event
  /\ UNCHANGED <<repo, row, lease, ex, adopter>>

(* The next delivery, which loads the operation.  The job of a settled one is   *)
(* DONE: both change in one transaction.                                        *)
Claim(e) ==
  /\ job[e[1]] = [state |-> "AVAILABLE", claims |-> e[2] - 1]
  /\ op[e[1]].state = "REQUESTED"
  /\ job' = [job EXCEPT ![e[1]] = [state |-> "LEASED", claims |-> e[2]]]
  /\ ex' = [ex EXCEPT ![e] = [Off EXCEPT !.pc = "acquire", !.version = op[e[1]].version,
                                         !.parent = op[e[1]].parent]]
  /\ UNCHANGED <<repo, row, op, lease, adopter, left>>

(* An error ends the delivery; the job's lease is left to run out. *)
GiveUp(e) == ex' = [ex EXCEPT ![e] = Off]

(* One statement: the job is leased, the worktree READY, the lease free. *)
AcquireLocalCommitWriteLease(e) ==
  /\ ex[e].pc = "acquire"
  /\ \/ /\ HoldsJob(e) /\ row.state = "READY" /\ ~lease.live
        /\ lease' = [fence |-> lease.fence + 1, holder |-> e, live |-> TRUE]
        /\ ex' = [ex EXCEPT ![e] = [@ EXCEPT !.pc = "load", !.fence = lease.fence + 1]]
     \/ /\ ~(HoldsJob(e) /\ row.state = "READY" /\ ~lease.live)
        /\ GiveUp(e)
        /\ UNCHANGED lease
  /\ UNCHANGED <<repo, row, op, job, adopter, left>>

LoadRepositoryWorkspace(e) ==
  /\ ex[e].pc = "load"
  /\ \/ /\ row.state = "READY"
        /\ ex' = [ex EXCEPT ![e] = [@ EXCEPT !.pc = "find", !.rowVersion = row.version, !.rev = row.rev]]
        /\ UNCHANGED lease
     \/ /\ row.state = "QUARANTINED"
        /\ ex' = [ex EXCEPT ![e] = [@ EXCEPT !.pc = "fail", !.reason = "WORKSPACE_QUARANTINED"]]
        /\ lease' = Released(e)
  /\ UNCHANGED <<repo, row, op, job, adopter, left>>

(* Mutant: HEAD is compared before the marker is looked for. *)
CompareHeadFirst(e) ==
  /\ ex[e].pc = "find"
  /\ ex' = [ex EXCEPT ![e] = IF HEAD # @.rev THEN [@ EXCEPT !.pc = "fail", !.reason = "HEAD_DRIFT"]
                             ELSE [@ EXCEPT !.pc = "pin", !.parent = HEAD]]
  /\ UNCHANGED <<repo, row, op, job, lease, adopter, left>>

(* Does HEAD carry the marker?  If so, it is the commit of an earlier delivery, *)
(* unless its parent is not the pinned one; if not, HEAD must be the recorded   *)
(* revision.                                                                    *)
FindLocalCommitByMarker(e) ==
  LET found == HEAD > 0 /\ log[HEAD].of = e[1]
      drifted == ex[e].parent \notin {None, HEAD - 1}
  IN
  /\ ex[e].pc = "find"
  /\ \/ /\ found /\ drifted
        /\ ex' = [ex EXCEPT ![e].pc = "quarantine"]
        /\ lease' = Released(e)
     \/ /\ found /\ ~drifted
        /\ ex' = [ex EXCEPT ![e] = [@ EXCEPT !.pc = "finalize", !.parent = HEAD - 1, !.result = HEAD]]
        /\ UNCHANGED lease
     \/ /\ ~found /\ HEAD # ex[e].rev
        /\ ex' = [ex EXCEPT ![e] = [@ EXCEPT !.pc = "fail", !.reason = "HEAD_DRIFT"]]
        /\ UNCHANGED lease
     \/ /\ ~found /\ HEAD = ex[e].rev
        /\ ex' = [ex EXCEPT ![e] = [@ EXCEPT !.pc = "pin", !.parent = HEAD]]
        /\ UNCHANGED lease
  /\ UNCHANGED <<repo, row, op, job, adopter, left>>

(* pinParent, on the operation's state and version alone. *)
PinReleaseSetLocalCommitParent(e) ==
  LET o == e[1]
      current == op[o].state = "REQUESTED" /\ op[o].version = ex[e].version
  IN
  /\ ex[e].pc = "pin"
  /\ \/ /\ current
        /\ op' = [op EXCEPT ![o] = [@ EXCEPT !.parent = ex[e].parent, !.version = op[o].version + 1]]
        /\ ex' = [ex EXCEPT ![e] = [@ EXCEPT !.pc = "create", !.version = ex[e].version + 1]]
        /\ UNCHANGED lease
     \/ /\ ~current
        /\ GiveUp(e)
        /\ lease' = Released(e)
        /\ UNCHANGED op
  /\ UNCHANGED <<repo, row, job, adopter, left>>

(* git add and git commit: no lease is looked at. *)
CreateLocalCommit(e) ==
  /\ ex[e].pc = "create"
  /\ \/ /\ Commit(e[1], ~(HoldsJob(e) /\ OwnsLease(e)))
        /\ ex' = [ex EXCEPT ![e].pc = "resolve"]
     \/ /\ ~dirty
        /\ ex' = [ex EXCEPT ![e] = [@ EXCEPT !.pc = "fail", !.reason = "NO_CHANGES"]]
        /\ UNCHANGED repo
  /\ UNCHANGED <<row, op, job, lease, adopter, left>>

(* git rev-parse HEAD, after the commit. *)
ResolveHead(e) ==
  /\ ex[e].pc = "resolve"
  /\ ex' = [ex EXCEPT ![e] = [@ EXCEPT !.pc = "finalize", !.result = HEAD]]
  /\ UNCHANGED <<repo, row, op, job, lease, adopter, left>>

(* Mutant: the row's version is not compared. *)
FinalizableAtAnyVersion(e) ==
  /\ HoldsJob(e) /\ OwnsLease(e)
  /\ op[e[1]].state = "REQUESTED" /\ op[e[1]].version = ex[e].version
  /\ row.state = "READY"

(* What the finalizing transaction looks at: both leases, the worktree READY,   *)
(* and the versions this delivery has read of the operation and of the row.     *)
Finalizable(e) ==
  /\ HoldsJob(e) /\ OwnsLease(e)
  /\ op[e[1]].state = "REQUESTED" /\ op[e[1]].version = ex[e].version
  /\ ReadyAt(ex[e].rowVersion)

(* The operation is COMMITTED, its commit the recorded revision, its job DONE.  *)
(* A failure leaves the write lease held.                                       *)
Finalize(e) ==
  LET o == e[1] IN
  /\ ex[e].pc = "finalize"
  /\ \/ /\ Finalizable(e)
        /\ op' = [op EXCEPT ![o] = [@ EXCEPT !.state = "COMMITTED", !.parent = ex[e].parent,
                                             !.result = ex[e].result, !.version = op[o].version + 1]]
        /\ row' = [row EXCEPT !.rev = ex[e].result, !.version = row.version + 1]
        /\ job' = [job EXCEPT ![o].state = "DONE"]
        /\ ex' = [ex EXCEPT ![e].pc = "release"]
     \/ /\ ~Finalizable(e)
        /\ GiveUp(e)
        /\ UNCHANGED <<op, row, job>>
  /\ UNCHANGED <<repo, lease, adopter, left>>

(* A marker whose commit has another parent than the pinned one. *)
QuarantineRepositoryWorkspace(e) ==
  /\ ex[e].pc = "quarantine"
  /\ \/ /\ ReadyAt(ex[e].rowVersion)
        /\ row' = [row EXCEPT !.state = "QUARANTINED", !.version = row.version + 1]
        /\ ex' = [ex EXCEPT ![e] = [@ EXCEPT !.pc = "fail", !.reason = "MARKER_DRIFT"]]
     \/ /\ row.state = "QUARANTINED"
        /\ ex' = [ex EXCEPT ![e] = [@ EXCEPT !.pc = "fail", !.reason = "MARKER_DRIFT"]]
        /\ UNCHANGED row
     \/ /\ row.state = "READY" /\ ~ReadyAt(ex[e].rowVersion)
        /\ GiveUp(e)
        /\ UNCHANGED row
  /\ UNCHANGED <<repo, op, job, lease, adopter, left>>

(* Mutant: the job is left to be delivered again. *)
FailAndLeaveJob(e) ==
  /\ ex[e].pc = "fail" /\ HoldsJob(e)
  /\ op' = [op EXCEPT ![e[1]] = [@ EXCEPT !.state = "FAILED", !.reason = ex[e].reason, !.version = op[e[1]].version + 1]]
  /\ GiveUp(e)
  /\ UNCHANGED <<repo, row, job, lease, adopter, left>>

(* failTerminal: the job's lease is looked at, the write lease is not. *)
FailTerminal(e) ==
  LET o == e[1]
      possible == /\ HoldsJob(e)
                  /\ op[o].state = "REQUESTED" /\ op[o].version = ex[e].version
  IN
  /\ ex[e].pc = "fail"
  /\ IF possible
     THEN /\ op' = [op EXCEPT ![o] = [@ EXCEPT !.state = "FAILED", !.reason = ex[e].reason,
                                               !.version = op[o].version + 1]]
          /\ job' = [job EXCEPT ![o].state = "DONE"]
     ELSE UNCHANGED <<op, job>>
  /\ ex' = [ex EXCEPT ![e] = IF @.reason \in {"HEAD_DRIFT", "NO_CHANGES"}
                             THEN [@ EXCEPT !.pc = "release"] ELSE Off]
  /\ UNCHANGED <<repo, row, lease, adopter, left>>

ReleaseLocalCommitWriteLease(e) ==
  /\ ex[e].pc = "release"
  /\ lease' = Released(e)
  /\ GiveUp(e)
  /\ UNCHANGED <<repo, row, op, job, adopter, left>>

-----------------------------------------------------------------------------
(* The job's lease runs out and is recovered: always after an error, and while  *)
(* its handler is at work or dead as an event.                                  *)
JobExpires(o) ==
  /\ job[o].state = "LEASED"
  /\ job' = [job EXCEPT ![o].state = IF job[o].claims < MaxClaims THEN "AVAILABLE" ELSE "DEAD"]
  /\ IF ex[<<o, job[o].claims>>].pc = "off" THEN UNCHANGED left ELSE Event
  /\ UNCHANGED <<repo, row, op, lease, ex, adopter>>

(* So does the write lease, which nobody renews, two minutes after it was       *)
(* granted.                                                                     *)
LeaseExpires ==
  /\ lease.live
  /\ lease' = [lease EXCEPT !.live = FALSE]
  /\ IF ex[lease.holder].pc # "off" /\ HoldsJob(lease.holder) THEN Event ELSE UNCHANGED left
  /\ UNCHANGED <<repo, row, op, job, ex, adopter>>

(* Agents and people change files, or drop changes. *)
Edit ==
  /\ dirty' = ~dirty
  /\ UNCHANGED <<log, row, op, job, lease, ex, adopter, left>>

CommitOutside ==
  /\ Commit(Outside, FALSE)
  /\ Event
  /\ UNCHANGED <<row, op, job, lease, ex, adopter>>

(* AdoptWorkspaceHead: a clean worktree whose HEAD is ahead of the recorded     *)
(* revision; then that HEAD is recorded if the row is the same still.  The      *)
(* leases of attempts are looked at, those of local commits are not.            *)
AuditHead ==
  /\ adopter = NoAdopter /\ row.state = "READY" /\ ~dirty /\ HEAD # row.rev
  /\ adopter' = [version |-> row.version, head |-> HEAD]
  /\ Event
  /\ UNCHANGED <<repo, row, op, job, lease, ex>>

AdoptWorkspaceHead ==
  /\ adopter # NoAdopter
  /\ row' = IF ReadyAt(adopter.version)
            THEN [row EXCEPT !.rev = adopter.head, !.version = row.version + 1] ELSE row
  /\ adopter' = NoAdopter
  /\ UNCHANGED <<repo, op, job, lease, ex, left>>

(* The reaper, a cancelled attempt or a reconciliation. *)
Quarantine ==
  /\ row.state = "READY"
  /\ row' = [row EXCEPT !.state = "QUARANTINED", !.version = row.version + 1]
  /\ Event
  /\ UNCHANGED <<repo, op, job, lease, ex, adopter>>

Step(e) ==
  \/ Claim(e) \/ AcquireLocalCommitWriteLease(e) \/ LoadRepositoryWorkspace(e)
  \/ FindLocalCommitByMarker(e) \/ PinReleaseSetLocalCommitParent(e) \/ CreateLocalCommit(e)
  \/ ResolveHead(e) \/ Finalize(e) \/ QuarantineRepositoryWorkspace(e) \/ FailTerminal(e)
  \/ ReleaseLocalCommitWriteLease(e)

Next ==
  \/ \E o \in Ops : RequestReleaseSetLocalCommit(o) \/ JobExpires(o)
  \/ \E e \in Executors : Step(e)
  \/ LeaseExpires \/ Edit \/ CommitOutside \/ AuditHead \/ AdoptWorkspaceHead \/ Quarantine

Spec == Init /\ [][Next]_vars

-----------------------------------------------------------------------------
Reasons == {"none", "WORKSPACE_QUARANTINED", "HEAD_DRIFT", "NO_CHANGES", "MARKER_DRIFT"}
Logs == Seq([of : Ops \union {Outside}, late : BOOLEAN, buries : BOOLEAN])
JobRecords == [state : {"NONE", "AVAILABLE", "LEASED", "DONE", "DEAD"}, claims : 0..MaxClaims]
Leases == [fence : Nat, holder : Executors \union {None}, live : BOOLEAN]

(* What refers to a history of n commits. *)
Rows(n) == [state : {"READY", "QUARANTINED"}, version : Nat, rev : 0..n]
OpRecords(n) == [state : {"ABSENT", "REQUESTED", "COMMITTED", "FAILED"}, reason : Reasons,
                 parent : (0..n) \union {None}, result : 0..n, version : Nat]
Deliveries(n) == [pc : {"off", "acquire", "load", "find", "pin", "create", "resolve", "finalize",
                        "quarantine", "fail", "release"},
                  version : Nat, rowVersion : Nat, rev : 0..n,
                  parent : (0..n) \union {None}, result : 0..n, fence : Nat, reason : Reasons]
Adopters(n) == [version : Nat, head : 0..n]

SettledIsDone == \A o \in Ops : job[o].state = "DONE" <=> op[o].state \in {"COMMITTED", "FAILED"}

(* The variables have their types, what aw records are commits (pinned parents, *)
(* results and the recorded revision are places in the history of the worktree, *)
(* which nobody rewrites), and an operation is settled when its job is DONE.    *)
TypeOK ==
  /\ log \in Logs /\ dirty \in BOOLEAN /\ left \in 0..MaxEvents
  /\ row \in Rows(HEAD)
  /\ op \in [Ops -> OpRecords(HEAD)]
  /\ job \in [Ops -> JobRecords]
  /\ lease \in Leases
  /\ ex \in [Executors -> Deliveries(HEAD)]
  /\ adopter \in Adopters(HEAD)
  /\ SettledIsDone

-----------------------------------------------------------------------------
CommitsOf(o) == {i \in DOMAIN log : log[i].of = o}

(* Replaying a delivery makes no second commit, and what an operation says of   *)
(* itself is what is in the worktree: at most one commit, none when it FAILED   *)
(* for what was found in a READY worktree (a quarantined one is not looked      *)
(* into), and when it is COMMITTED one after the recorded parent and not after  *)
(* the recorded result, with no other operation's commit in between             *)
(* (execute.go's reconcile-or-create, docs/design/08's "replay cannot create    *)
(* two local commits").  It has to be known of the operation that none of its   *)
(* commits was made by a delivery that had lost a lease, which Git does not     *)
(* look at, or left HEAD before it was recorded, where the marker is not looked *)
(* for.                                                                         *)
OperationsTellTheLog ==
  \A o \in Ops :
    ~Buried(o) /\ (\A i \in CommitsOf(o) : ~log[i].late) =>
      /\ Cardinality(CommitsOf(o)) <= 1
      /\ op[o].reason \in {"HEAD_DRIFT", "NO_CHANGES"} => CommitsOf(o) = {}
      /\ op[o].state = "COMMITTED" =>
           /\ \E i \in CommitsOf(o) : op[o].parent < i /\ i <= op[o].result
           /\ \A i \in (op[o].parent + 1)..op[o].result :
                log[i].of \in {o, Outside} \/ log[i].late

(* The recorded revision only moves forward: an adoption and a delivery that    *)
(* have both read the row, or two deliveries, do not undo each other, whoever   *)
(* of them commits last (the version AdvanceRepositoryWorkspaceRevision         *)
(* compares, read before the look at HEAD).                                     *)
RevisionOnlyAdvances == [][row'.rev >= row.rev]_vars
=============================================================================
