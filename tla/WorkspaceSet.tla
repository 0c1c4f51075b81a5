----------------------------- MODULE WorkspaceSet ----------------------------
(***************************************************************************)
(* The worktrees of a task family and those who use them: attempts with    *)
(* their write leases (adapters/sqlite/scheduling.go), cancellation and    *)
(* the reaper, which quarantine a worktree (app/runtime,                   *)
(* app/worker/interruption.go), reconciliation, which replaces it by one   *)
(* of the next generation (app/workspacereconcile), and the release, which *)
(* removes them all (app/workspacerelease).                                *)
(*                                                                         *)
(* A worktree is a repository and a generation.  The database's row says   *)
(* what it should be like, tree what the file system has.  Each action is  *)
(* one write transaction or one step outside the database.                 *)
(***************************************************************************)
EXTENDS Naturals, FiniteSets, FiniteSetsExt, Functions

CONSTANTS
  Repos,         \* repositories a family may have
  Attempts,      \* execution attempts that write
  ReleaseClaims, \* claims of a release job, and bound: handlers of such jobs at a time
  MaxGeneration, \* bound: generations of a repository's worktree
  MaxEvents,     \* bound, by the number of repositories of the family: cancellations,
                 \* crashes, lost or expired leases, reconciliations and advances of a
                 \* recorded revision
  None           \* no attempt, no worktree

ASSUME SetAssumption ==
  /\ ReleaseClaims \in Nat /\ MaxGeneration \in Nat \ {0} /\ MaxEvents \in [1..Cardinality(Repos) -> Nat]
  /\ IsFiniteSet(Repos) /\ None \notin Attempts

Worktrees == Repos \X (1..MaxGeneration)
Claims == 1..ReleaseClaims

VARIABLES
  set,        \* workspace_sets: state and version
  row,        \* repository_workspaces: state, version, and current_revision as rev,
              \* the number of times it advanced from base_revision
  tree,       \* the worktree on disk, and who moved its HEAD away from the recorded
              \* revision
  lease,      \* write_leases: fence, holder, and live while not expired or released
  attempt,    \* execution_attempts
  executor,   \* who executes it, and what it knows: whether it holds the job's lease,
              \* the row versions it has seen and the fences it was granted
  cancelling, \* runs that are being cancelled, each named by its first attempt
  recovery,   \* what the reaper still has to do for an attempt it terminated
  left,       \* how many of MaxEvents are still to come
  release,    \* the latest release job
  releaser    \* the handlers that are at work on release jobs

vars == <<set, row, tree, lease, attempt, executor, cancelling, recovery, left, release, releaser>>
attemptVars == <<attempt, executor, cancelling, recovery>>
releaseVars == <<release, releaser>>

Row(s) == [state |-> s, version |-> 1, rev |-> 0]
(* pin: the revision each of its worktrees had when the run started.            *)
NoAttempt == [state |-> "ABSENT", run |-> None, pin |-> <<>>]
(* late: it was granted its leases after a release was requested. *)
Idle == [pc |-> "off", held |-> FALSE, seen |-> <<>>, grant |-> <<>>, late |-> FALSE]
Clean == [files |-> "clean", mover |-> None]
Gone == [files |-> "gone", mover |-> None]
NoRelease == [active |-> FALSE, key |-> 0, entries |-> {}, claims |-> 0, holder |-> 0]
Off == [pc |-> "off", todo |-> {}, at |-> None, version |-> 0]

Init ==
  /\ set = [state |-> "READY", version |-> 1]
  /\ \E F \in SUBSET Repos \ {{}} :
       /\ row = [t \in Worktrees |-> Row(IF t[1] \in F /\ t[2] = 1 THEN "READY" ELSE "ABSENT")]
       /\ left = MaxEvents[Cardinality(F)]
  /\ tree = [t \in Worktrees |-> Clean]
  /\ lease = [t \in Worktrees |-> [fence |-> 0, holder |-> None, live |-> FALSE]]
  /\ attempt = [a \in Attempts |-> NoAttempt]
  /\ executor = [a \in Attempts |-> Idle]
  /\ cancelling = {}
  /\ recovery = [a \in Attempts |-> [at |-> None, version |-> 0]]
  /\ release = NoRelease
  /\ releaser = [c \in Claims |-> Off]

-----------------------------------------------------------------------------
(* One of the bounded events. *)
Event == left > 0 /\ left' = left - 1

(* Rows change by compare-and-set on state and version. *)

Existing == {t \in Worktrees : row[t].state # "ABSENT"}
Family == {t[1] : t \in Existing}
Newest(r) == <<r, Max({t[2] : t \in {x \in Existing : x[1] = r}})>>
IsReadyAt(t, version) == row[t].state = "READY" /\ row[t].version = version

Become(s, T) ==
  [t \in Worktrees |-> IF t \in T THEN [row[t] EXCEPT !.state = s, !.version = @ + 1] ELSE row[t]]

(* What the agent of attempt a left at t, seen from the revision it started     *)
(* from: HEAD is elsewhere.  Uncommitted changes do not show.                   *)
HeadMoved(a, t) == tree[t].mover # None \/ row[t].rev # attempt[a].pin[t]

Cancelled(a) == attempt[a].run \in cancelling
Working(a) == executor[a].pc = "working"
Pinned(a) == DOMAIN attempt[a].pin

(* AcquireWriteLeases takes over what is expired or held by an attempt that is  *)
(* not RUNNING.                                                                 *)
Free(t) ==
  \/ ~lease[t].live
  \/ attempt[lease[t].holder].state # "RUNNING"

(* Mutant: any lease that is live will do. *)
HoldsLeaseOfAnyone(a, t) == lease[t].live

(* The lease row is still the one that was granted to attempt a. *)
HoldsLease(a, t) ==
  lease[t].live /\ lease[t].holder = a /\ lease[t].fence = executor[a].grant[t]

-----------------------------------------------------------------------------
(* Attempts. *)

(* startRevisionSet: the newest READY worktree of each repository, or its first *)
(* one at its base revision.                                                    *)
Start(r) ==
  LET ready == {t \in Worktrees : t[1] = r /\ row[t].state = "READY"}
      newest == CHOOSE t \in ready : \A x \in ready : x[2] <= t[2]
  IN IF ready = {} THEN [at |-> <<r, 1>>, rev |-> 0] ELSE [at |-> newest, rev |-> row[newest].rev]

StartRun(a) ==
  /\ attempt[a].state = "ABSENT"
  /\ set.state = "READY"
  /\ \E W \in SUBSET Family \ {{}} :
       LET starts == {Start(r) : r \in W}
           pin == [t \in {s.at : s \in starts} |-> (CHOOSE s \in starts : s.at = t).rev]
       IN attempt' = [attempt EXCEPT ![a] = [state |-> "QUEUED", run |-> a, pin |-> pin]]
  /\ UNCHANGED <<set, row, tree, lease, executor, cancelling, recovery, releaseVars, left>>

(* A technical retry, or the reaper's: the next attempt of b's node run. *)
Retry(a, b) ==
  /\ attempt[a].state = "ABSENT"
  /\ attempt[b].state \in {"FAILED", "INDETERMINATE", "LOST"}
  /\ recovery[b].at = None
  /\ ~Cancelled(b)
  /\ \A x \in Attempts :
       attempt[x].run = attempt[b].run => attempt[x].state \notin {"QUEUED", "RUNNING", "SUCCEEDED"}
  /\ attempt' = [attempt EXCEPT ![a] = [attempt[b] EXCEPT !.state = "QUEUED"]]
  /\ UNCHANGED <<set, row, tree, lease, executor, cancelling, recovery, releaseVars, left>>

(* admitOrClaimRunning, and resolveExecutionResources loading the rows.  The    *)
(* handler fails when a worktree has been removed.                              *)
Admit(a) ==
  /\ attempt[a].state = "QUEUED"
  /\ ~Cancelled(a)
  /\ attempt' = [attempt EXCEPT ![a].state = "RUNNING"]
  /\ executor' = [executor EXCEPT ![a] =
       IF \E t \in Pinned(a) : tree[t] = Gone THEN Idle
       ELSE [Idle EXCEPT !.pc = "resolved", !.held = TRUE, !.seen = [t \in Pinned(a) |-> row[t].version]]]
  /\ UNCHANGED <<set, row, tree, lease, cancelling, recovery, releaseVars, left>>

Grant(a, T) ==
  /\ lease' = [t \in Worktrees |->
       IF t \in T THEN [fence |-> lease[t].fence + 1, holder |-> a, live |-> TRUE] ELSE lease[t]]
  /\ executor' = [executor EXCEPT ![a].pc = "working", ![a].late = release.key > 0,
                                  ![a].grant = [t \in T |-> lease[t].fence + 1]]

Obtainable(a) == {t \in Pinned(a) : row[t].state = "READY" /\ Free(t)}

(* Mutant: what cannot be had is left out. *)
AcquireWhatIsFree(a) ==
  /\ executor[a].pc = "resolved" /\ executor[a].held
  /\ Grant(a, Obtainable(a))
  /\ UNCHANGED <<set, row, tree, attempt, cancelling, recovery, releaseVars, left>>

(* All or none.  On a conflict the attempt is FAILED; without the job's lease   *)
(* the handler fails.                                                           *)
AcquireWriteLeases(a) ==
  /\ executor[a].pc = "resolved"
  /\ \/ /\ executor[a].held /\ Obtainable(a) = Pinned(a)
        /\ Grant(a, Pinned(a))
        /\ UNCHANGED attempt
     \/ /\ ~(executor[a].held /\ Obtainable(a) = Pinned(a))
        /\ executor' = [executor EXCEPT ![a] = Idle]
        /\ attempt' = IF executor[a].held THEN [attempt EXCEPT ![a].state = "FAILED"] ELSE attempt
        /\ UNCHANGED lease
  /\ UNCHANGED <<set, row, tree, cancelling, recovery, releaseVars, left>>

(* The agent changes files, or commits what is there and so moves HEAD. *)
Edit(a, t) ==
  /\ Working(a) /\ t \in Pinned(a) /\ tree[t] # Gone
  /\ \/ tree' = [tree EXCEPT ![t].files = "dirty"]
     \/ tree' = [tree EXCEPT ![t] = [files |-> "clean", mover |-> a]]
  /\ UNCHANGED <<set, row, lease, attemptVars, releaseVars, left>>

Granted(a) == DOMAIN executor[a].grant
Finalizable(a) ==
  /\ executor[a].held /\ attempt[a].state = "RUNNING"
  /\ \A t \in Granted(a) : HoldsLease(a, t) /\ row[t].state = "READY"

(* What the agent came to, by classify and buildEvidence, is recorded.  (A      *)
(* worktree that is gone makes the handler fail, as a crash does.)              *)
FinalizeExecutionAttempt(a) ==
  /\ Working(a)
  /\ \/ /\ Finalizable(a)
        /\ \E s \in {"SUCCEEDED", "FAILED"} : attempt' = [attempt EXCEPT ![a].state = s]
        /\ executor' = [executor EXCEPT ![a].pc = "releasing", ![a].held = FALSE]
     \/ /\ ~Finalizable(a)
        /\ executor' = [executor EXCEPT ![a] = Idle]
        /\ UNCHANGED attempt
  /\ UNCHANGED <<set, row, tree, lease, cancelling, recovery, releaseVars, left>>

(* All or none again: a lease that was lost meanwhile leaves the others as they *)
(* are, to expire.                                                              *)
ReleaseWriteLeases(a) ==
  /\ executor[a].pc = "releasing"
  /\ lease' = [t \in Worktrees |->
       IF t \in Granted(a) /\ (\A x \in Granted(a) : HoldsLease(a, x))
       THEN [lease[t] EXCEPT !.live = FALSE] ELSE lease[t]]
  /\ executor' = [executor EXCEPT ![a] = Idle]
  /\ UNCHANGED <<set, row, tree, attempt, cancelling, recovery, releaseVars, left>>

(* A run is over when its node succeeded. *)
CancelRun(a) ==
  /\ attempt[a].run = a /\ a \notin cancelling
  /\ \A x \in Attempts : attempt[x].run = a => attempt[x].state # "SUCCEEDED"
  /\ cancelling' = cancelling \union {a}
  /\ Event
  /\ UNCHANGED <<set, row, tree, lease, attempt, executor, recovery, releaseVars>>

(* finalizeMutatingCancellation: the process is stopped, every worktree is      *)
(* looked at, and the attempt is ended together with the quarantine of those    *)
(* that moved; a row that changed since the executor saw it fails all of it.    *)
CancelExecution(a) ==
  LET moved == {t \in Pinned(a) : HeadMoved(a, t)}
      possible == /\ \A t \in Pinned(a) : tree[t] # Gone
                  /\ \A t \in moved : IsReadyAt(t, executor[a].seen[t])
  IN
  /\ Working(a) /\ Cancelled(a)
  /\ \/ /\ attempt[a].state = "RUNNING" /\ possible
        /\ attempt' = [attempt EXCEPT ![a].state = "INDETERMINATE"]
        /\ row' = Become("QUARANTINED", moved)
     \/ /\ attempt[a].state # "RUNNING" \/ ~possible
        /\ UNCHANGED <<attempt, row>>
  /\ executor' = [executor EXCEPT ![a] =
       IF attempt[a].state = "RUNNING" /\ ~possible THEN Idle
       ELSE [@ EXCEPT !.pc = "releasing", !.held = FALSE]]
  /\ UNCHANGED <<set, tree, lease, cancelling, recovery, releaseVars, left>>

(* The job's lease runs out although the executor goes on. *)
LoseJobLease(a) ==
  /\ executor[a].held
  /\ executor' = [executor EXCEPT ![a].held = FALSE]
  /\ Event
  /\ UNCHANGED <<set, row, tree, lease, attempt, cancelling, recovery, releaseVars>>

ExecutorDies(a) ==
  /\ executor[a].pc # "off"
  /\ executor' = [executor EXCEPT ![a] = Idle]
  /\ Event
  /\ UNCHANGED <<set, row, tree, lease, attempt, cancelling, recovery, releaseVars>>

(* A write lease is granted for the attempt's timeout and two minutes more: it  *)
(* does not run out while the agent may be at work.                             *)
LeaseExpires(t) ==
  /\ lease[t].live /\ ~Working(lease[t].holder)
  /\ lease' = [lease EXCEPT ![t].live = FALSE]
  /\ Event
  /\ UNCHANGED <<set, row, tree, attemptVars, releaseVars>>

-----------------------------------------------------------------------------
(* The recovery reaper, on a RUNNING attempt whose job is not leased.  It finds *)
(* one worktree by the lease the attempt held, and compares the row's recorded  *)
(* revision with the row's base revision.                                       *)
Orphan(a) == attempt[a].state = "RUNNING" /\ ~executor[a].held
Held(a) == {t \in Worktrees : lease[t].holder = a}

TerminateInterruptedAttempt(a) ==
  /\ Orphan(a)
  /\ \/ /\ Held(a) = {}
        /\ attempt' = [attempt EXCEPT ![a].state = "LOST"]
        /\ UNCHANGED <<row, recovery>>
     \/ \E t \in Held(a) :
          /\ attempt' = [attempt EXCEPT ![a].state = "INDETERMINATE"]
          /\ IF Cancelled(a)
             THEN /\ row[t].rev # 0 => row[t].state = "READY"
                  /\ row' = Become("QUARANTINED", IF row[t].rev = 0 THEN {} ELSE {t})
                  /\ UNCHANGED recovery
             ELSE /\ recovery' = [recovery EXCEPT ![a] = [at |-> t, version |-> row[t].version]]
                  /\ UNCHANGED row
  /\ UNCHANGED <<set, tree, lease, executor, cancelling, releaseVars, left>>

(* ReconcileInterruptedAttempt after the termination: a transaction of its own, *)
(* or none when the reaper dies; a conflict is not looked at again.             *)
QuarantineInterrupted(a) ==
  LET t == recovery[a].at IN
  /\ t # None
  /\ \E dies \in BOOLEAN :
       row' = Become("QUARANTINED",
                     IF dies \/ row[t].rev = 0 \/ ~IsReadyAt(t, recovery[a].version) THEN {} ELSE {t})
  /\ recovery' = [recovery EXCEPT ![a] = [at |-> None, version |-> 0]]
  /\ UNCHANGED <<set, tree, lease, attempt, executor, cancelling, releaseVars, left>>

-----------------------------------------------------------------------------
(* Reconciliation, and a revision that is recorded. *)

(* Mutant: a READY worktree that changed is replaced without a quarantine. *)
ReconcileRecreatesAtOnce(r) ==
  LET t == Newest(r)
      next == <<r, t[2] + 1>>
  IN
  /\ r \in Family
  /\ \/ /\ row[t].state = "READY" /\ tree[t].files # "clean"
        /\ next \in Worktrees
        /\ row' = [row EXCEPT ![next] = Row("READY")]
     \/ /\ row[t].state = "QUARANTINED" /\ tree[t].files # "dirty"
        /\ next \in Worktrees
        /\ row' = [row EXCEPT ![next] = Row("READY")]
  /\ Event
  /\ UNCHANGED <<set, tree, lease, attemptVars, releaseVars>>

(* ExecuteWorkspaceReconciliation of the newest worktree; an older one has a    *)
(* successor, which ends it at once.  Write leases are not looked at.           *)
ReconcileWorkspace(r) ==
  LET t == Newest(r)
      next == <<r, t[2] + 1>>
  IN
  /\ r \in Family
  /\ \/ /\ row[t].state = "READY" /\ tree[t].files # "clean"
        /\ row' = Become("QUARANTINED", {t})
     \/ /\ row[t].state = "QUARANTINED" /\ tree[t].files # "dirty"
        /\ next \in Worktrees
        /\ row' = [row EXCEPT ![next] = Row("READY")]
  /\ Event
  /\ UNCHANGED <<set, tree, lease, attemptVars, releaseVars>>

(* A local commit, which does not look at write leases, or the adoption of a    *)
(* clean HEAD somebody else made, which does.                                   *)
AdvanceRevision(t) ==
  /\ row[t].state = "READY"
  /\ \/ tree[t].files = "dirty" /\ tree[t].mover = None
     \/ tree[t].files = "clean" /\ tree[t].mover # None /\ ~lease[t].live
  /\ row' = [row EXCEPT ![t].rev = @ + 1, ![t].version = @ + 1]
  /\ tree' = [tree EXCEPT ![t] = Clean]
  /\ Event
  /\ UNCHANGED <<set, lease, attemptVars, releaseVars>>

-----------------------------------------------------------------------------
(* The release of the set. *)

(* Mutant: nobody is asked for write leases. *)
RequestUnasked ==
  /\ set.state # "RELEASED" /\ set.version # release.key /\ ~release.active
  /\ \A t \in Existing : row[t].state # "QUARANTINED"
  /\ release' = [active |-> TRUE, key |-> set.version, entries |-> Existing, claims |-> 0, holder |-> 0]
  /\ UNCHANGED <<set, row, tree, lease, attemptVars, releaser, left>>

(* No quarantined worktree of any generation, no write lease, no release under  *)
(* way, and a job key that is made from the set's version and can be used once. *)
RequestWorkspaceSetRelease ==
  /\ set.state # "RELEASED" /\ set.version # release.key /\ ~release.active
  /\ \A t \in Existing : row[t].state # "QUARANTINED" /\ ~lease[t].live
  /\ release' = [active |-> TRUE, key |-> set.version, entries |-> Existing, claims |-> 0, holder |-> 0]
  /\ UNCHANGED <<set, row, tree, lease, attemptVars, releaser, left>>

ClaimRelease(c) ==
  /\ release.active /\ release.holder = 0 /\ release.claims < ReleaseClaims
  /\ releaser[c].pc = "off" /\ \A d \in Claims : d < c => releaser[d].pc # "off"
  /\ release' = [release EXCEPT !.claims = @ + 1, !.holder = c]
  /\ releaser' = [releaser EXCEPT ![c] = [Off EXCEPT !.pc = "begin"]]
  /\ UNCHANGED <<set, row, tree, lease, attemptVars, left>>

(* The claim is lost, by an error, a crash or an expired lease, after which the *)
(* handler goes on unfenced; after the last claim the job is DEAD.              *)
LoseRelease ==
  /\ release.holder # 0
  /\ release' = [release EXCEPT !.holder = 0, !.active = release.claims < ReleaseClaims]
  /\ Event
  /\ UNCHANGED <<set, row, tree, lease, attemptVars, releaser>>

BeginRelease(c) ==
  /\ releaser[c].pc = "begin"
  /\ IF set.state = "RELEASED"
     THEN /\ releaser' = [releaser EXCEPT ![c] = [Off EXCEPT !.pc = "finished"]]
          /\ UNCHANGED set
     ELSE /\ set' = IF set.state = "READY" THEN [state |-> "RELEASING", version |-> set.version + 1] ELSE set
          /\ releaser' = [releaser EXCEPT ![c] = [Off EXCEPT !.pc = "entries", !.todo = release.entries]]
  /\ UNCHANGED <<row, tree, lease, attemptVars, release, left>>

(* Mutant: a quarantined row is skipped, like a released one. *)
LoadSkipsQuarantined(c, t) ==
  /\ releaser[c].pc = "entries" /\ t \in releaser[c].todo
  /\ releaser' = [releaser EXCEPT ![c] =
       IF row[t].state = "READY" THEN [@ EXCEPT !.pc = "remove", !.at = t, !.version = row[t].version]
                                 ELSE [@ EXCEPT !.todo = releaser[c].todo \ {t}]]
  /\ UNCHANGED <<set, row, tree, lease, attemptVars, release, left>>

(* One row of the payload, in any order: a RELEASED one is skipped, and only a  *)
(* READY one goes on.                                                           *)
LoadRepositoryWorkspace(c, t) ==
  /\ releaser[c].pc = "entries" /\ t \in releaser[c].todo
  /\ row[t].state \in {"READY", "RELEASED"}
  /\ releaser' = [releaser EXCEPT ![c] =
       IF row[t].state = "READY" THEN [@ EXCEPT !.pc = "remove", !.at = t, !.version = row[t].version]
                                 ELSE [@ EXCEPT !.todo = releaser[c].todo \ {t}]]
  /\ UNCHANGED <<set, row, tree, lease, attemptVars, release, left>>

(* The worktree is removed, unless it has changes; one that is gone already is  *)
(* fine.  Whatever is an error in these steps is left to ReleaserStops.         *)
RemoveWorktree(c) ==
  /\ releaser[c].pc = "remove" /\ tree[releaser[c].at].files # "dirty"
  /\ tree' = [tree EXCEPT ![releaser[c].at] = Gone]
  /\ releaser' = [releaser EXCEPT ![c].pc = "row"]
  /\ UNCHANGED <<set, row, lease, attemptVars, release, left>>

ReleaseRepositoryWorkspace(c) ==
  LET t == releaser[c].at IN
  /\ releaser[c].pc = "row" /\ IsReadyAt(t, releaser[c].version)
  /\ row' = Become("RELEASED", {t})
  /\ releaser' = [releaser EXCEPT ![c].pc = "entries", ![c].todo = @ \ {t}]
  /\ UNCHANGED <<set, tree, lease, attemptVars, release, left>>

FinishRelease(c) ==
  /\ releaser[c].pc = "entries" /\ releaser[c].todo = {} /\ set.state = "RELEASING"
  /\ set' = [state |-> "RELEASED", version |-> set.version + 1]
  /\ releaser' = [releaser EXCEPT ![c].pc = "finished"]
  /\ UNCHANGED <<row, tree, lease, attemptVars, release, left>>

(* The pool completes the job of a handler that returned without error. *)
CompleteRelease(c) ==
  /\ releaser[c].pc = "finished"
  /\ releaser' = [releaser EXCEPT ![c] = Off]
  /\ release' = IF release.holder = c
                THEN [release EXCEPT !.holder = 0, !.active = FALSE] ELSE release
  /\ UNCHANGED <<set, row, tree, lease, attemptVars, left>>

(* An error or a crash of the handler. *)
ReleaserStops(c) ==
  /\ releaser[c].pc # "off"
  /\ releaser' = [releaser EXCEPT ![c] = Off]
  /\ Event
  /\ UNCHANGED <<set, row, tree, lease, attemptVars, release>>

-----------------------------------------------------------------------------
AttemptStep(a) ==
  \/ StartRun(a) \/ Admit(a) \/ AcquireWriteLeases(a) \/ FinalizeExecutionAttempt(a)
  \/ ReleaseWriteLeases(a)
  \/ CancelRun(a) \/ CancelExecution(a) \/ LoseJobLease(a) \/ ExecutorDies(a)
  \/ TerminateInterruptedAttempt(a) \/ QuarantineInterrupted(a)
  \/ \E b \in Attempts : Retry(a, b)
  \/ \E t \in Worktrees : Edit(a, t)

ReleaserStep(c) ==
  \/ ClaimRelease(c) \/ BeginRelease(c) \/ RemoveWorktree(c)
  \/ ReleaseRepositoryWorkspace(c) \/ FinishRelease(c)
  \/ CompleteRelease(c) \/ ReleaserStops(c)
  \/ \E t \in Worktrees : LoadRepositoryWorkspace(c, t)

Next ==
  \/ \E a \in Attempts : AttemptStep(a)
  \/ \E c \in Claims : ReleaserStep(c)
  \/ \E t \in Worktrees : LeaseExpires(t) \/ AdvanceRevision(t)
  \/ \E r \in Repos : ReconcileWorkspace(r)
  \/ RequestWorkspaceSetRelease \/ LoseRelease

Spec == Init /\ [][Next]_vars

-----------------------------------------------------------------------------
TypeOK ==
  /\ set \in [state: {"READY", "RELEASING", "RELEASED"}, version: Nat]
  /\ row \in [Worktrees -> [state: {"ABSENT", "READY", "QUARANTINED", "RELEASED"}, version: Nat, rev: Nat]]
  /\ tree \in [Worktrees -> [files: {"clean", "dirty", "gone"}, mover: Attempts \union {None}]]
  /\ lease \in [Worktrees -> [fence: Nat, holder: Attempts \union {None}, live: BOOLEAN]]
  /\ \A t \in Worktrees : lease[t].live => lease[t].holder \in Attempts
  /\ \A a \in Attempts :
       /\ attempt[a].state \in {"ABSENT", "QUEUED", "RUNNING", "SUCCEEDED", "FAILED", "INDETERMINATE", "LOST"}
       /\ Pinned(a) \subseteq Worktrees /\ Granted(a) \in {{}, Pinned(a)}
       /\ Working(a) => Granted(a) = Pinned(a)
  /\ cancelling \subseteq Attempts
  /\ release.entries \subseteq Worktrees /\ release.claims \in 0..ReleaseClaims
  /\ release.holder \in 0..ReleaseClaims
  /\ \A c \in Claims : releaser[c].todo \subseteq Worktrees

(* A RUNNING attempt at work owns every worktree it writes: nobody takes a      *)
(* lease over from it, one that was ended earlier does not free it by its late  *)
(* release, and a batch is never granted in part.  So two RUNNING attempts      *)
(* never work in one worktree.                                                  *)
RunningWriterOwnsItsWorktrees ==
  \A a \in Attempts :
    (Working(a) /\ attempt[a].state = "RUNNING") => \A t \in Pinned(a) : HoldsLease(a, t)

(* A worktree is not removed under a RUNNING attempt at work that was granted   *)
(* its leases before a release was requested: the request's look at the leases  *)
(* is enough for these.  (Nothing looks again before the removal.)              *)
ReleaseSparesEarlierWriters ==
  [][\A t \in Worktrees : (tree'[t] = Gone /\ tree[t] # Gone) =>
       \A a \in Attempts : (Working(a) /\ attempt[a].state = "RUNNING" /\ t \in Pinned(a)) =>
         executor[a].late]_vars

(* A set that is RELEASED has nothing left: every worktree of every generation  *)
(* is released and removed, whatever was quarantined or recreated meanwhile.    *)
ReleasedSetIsEmpty ==
  set.state = "RELEASED" => \A t \in Existing : row[t].state = "RELEASED" /\ tree[t] = Gone

(* A repository has one worktree at most that may be written, its newest, and   *)
(* a READY row without a worktree is one a release has begun with.              *)
OneReadyWorktree ==
  \A t \in Existing :
    /\ row[t].state = "READY" => t = Newest(t[1])
    /\ (row[t].state = "READY" /\ tree[t] = Gone) => set.state = "RELEASING"

(* The design says that a mutating attempt whose result cannot be proved is     *)
(* INDETERMINATE and its workspace QUARANTINED: in particular a worktree whose  *)
(* HEAD it moved, and which nobody accounted for, is not left READY.            *)
MutationIsQuarantined ==
  \A a \in Attempts :
    (attempt[a].state = "INDETERMINATE" /\ executor[a].pc = "off" /\ recovery[a].at = None) =>
      \A t \in Worktrees : tree[t].mover = a => row[t].state # "READY"
=============================================================================
