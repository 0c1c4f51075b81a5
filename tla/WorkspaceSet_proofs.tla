------------------------- MODULE WorkspaceSet_proofs -------------------------
(***************************************************************************)
(* Theorems about WorkspaceSet: whom a write lease belongs to, which       *)
(* worktree of a repository may be written, and what a release leaves      *)
(* behind, for any families, attempts, generations and claims.             *)
(***************************************************************************)
EXTENDS WorkspaceSet, TLAPS

-----------------------------------------------------------------------------
(* The types in full. *)
Pins == UNION {[T -> Nat] : T \in SUBSET Worktrees}
RowStates == {"ABSENT", "READY", "QUARANTINED", "RELEASED"}
SetRecords == [state: {"READY", "RELEASING", "RELEASED"}, version: Nat]
RowRecords == [state: RowStates, version: Nat, rev: Nat]
TreeRecords == [files: {"clean", "dirty", "gone"}, mover: Attempts \union {None}]
LeaseRecords == [fence: Nat, holder: Attempts \union {None}, live: BOOLEAN]
AttemptRecords ==
  [state: {"ABSENT", "QUEUED", "RUNNING", "SUCCEEDED", "FAILED", "INDETERMINATE", "LOST"},
   run: Attempts \union {None}, pin: Pins]
ExecutorRecords ==
  [pc: {"off", "resolved", "working", "releasing"}, held: BOOLEAN, seen: Pins, grant: Pins, late: BOOLEAN]
RecoveryRecords == [at: Worktrees \union {None}, version: Nat]
ReleaseRecords ==
  [active: BOOLEAN, key: Nat, entries: SUBSET Worktrees, claims: 0..ReleaseClaims, holder: 0..ReleaseClaims]
ReleaserRecords ==
  [pc: {"off", "begin", "entries", "remove", "row", "finished"}, todo: SUBSET Worktrees,
   at: Worktrees \union {None}, version: Nat]

Typed ==
  /\ set \in SetRecords /\ set.version > 0
  /\ row \in [Worktrees -> RowRecords]
  /\ tree \in [Worktrees -> TreeRecords]
  /\ lease \in [Worktrees -> LeaseRecords]
  /\ attempt \in [Attempts -> AttemptRecords]
  /\ executor \in [Attempts -> ExecutorRecords]
  /\ cancelling \subseteq Attempts
  /\ recovery \in [Attempts -> RecoveryRecords]
  /\ release \in ReleaseRecords
  /\ releaser \in [Claims -> ReleaserRecords]

(* A live lease has a holder, and an executor at work was granted what its      *)
(* attempt is pinned to; one that has not begun knows nothing.                  *)
GrantsFollowPins ==
  /\ \A t \in Worktrees : lease[t].live => lease[t].holder \in Attempts
  /\ \A a \in Attempts :
       /\ attempt[a].state \in {"ABSENT", "QUEUED"} => executor[a] = Idle
       /\ Granted(a) \in {{}, Pinned(a)}
       /\ Working(a) => Granted(a) = Pinned(a)

(* The generations of a repository follow one another, and only the last one is *)
(* READY.  What is not there yet is untouched, what is released is gone, and    *)
(* attempts are pinned to what is there.                                        *)
UpTo(r, n) == \A g \in 1..MaxGeneration : row[<<r, g>>].state # "ABSENT" <=> g <= n
GenerationsInOrder ==
  /\ \A r \in Repos : \E n \in 0..MaxGeneration : UpTo(r, n)
  /\ \A r \in Repos, g \in 1..MaxGeneration, h \in 1..MaxGeneration :
       row[<<r, g>>].state = "READY" /\ g < h => row[<<r, h>>].state = "ABSENT"
  /\ \A t \in Worktrees :
       /\ row[t].state = "ABSENT" => tree[t] = Clean
       /\ row[t].state = "RELEASED" => tree[t] = Gone
  /\ \A a \in Attempts : Pinned(a) \subseteq Existing

(* A release names every worktree, unless one that it names is quarantined, and *)
(* what a handler has behind it is released.  (A quarantined worktree stays so, *)
(* and no handler gets past it.)                                                *)
AtEntries(c) == releaser[c].pc \in {"entries", "remove", "row"}
ReleaseCoversTheSet ==
  /\ release.entries \subseteq Existing
  /\ release.key > 0 =>
       \/ Existing \subseteq release.entries
       \/ \E t \in release.entries : row[t].state = "QUARANTINED"
  /\ release.key = 0 =>
       ~release.active /\ release.holder = 0 /\ \A c \in Claims : releaser[c].pc = "off"
  /\ \A c \in Claims : AtEntries(c) =>
       /\ set.state # "READY"
       /\ releaser[c].todo \subseteq release.entries
       /\ \A t \in release.entries \ releaser[c].todo : row[t].state = "RELEASED"
       /\ releaser[c].pc # "entries" => releaser[c].at \in releaser[c].todo
       /\ releaser[c].pc = "row" => tree[releaser[c].at] = Gone
  /\ set.state = "RELEASED" => \A t \in Existing : row[t].state = "RELEASED"
  /\ \A t \in Worktrees : row[t].state = "READY" /\ tree[t] = Gone => set.state = "RELEASING"

(* Who is at work since before the release was requested has nothing to write. *)
EarlierWritersAreDone ==
  release.key > 0 =>
    \A a \in Attempts : Working(a) /\ attempt[a].state = "RUNNING" => executor[a].late \/ Pinned(a) = {}

IInv ==
  /\ Typed /\ GrantsFollowPins /\ RunningWriterOwnsItsWorktrees /\ GenerationsInOrder
  /\ ReleaseCoversTheSet /\ EarlierWritersAreDone

-----------------------------------------------------------------------------
(* Facts about the operators. *)

LEMMA PinsAre ==
  /\ \A f \in Pins : DOMAIN f \subseteq Worktrees /\ f = [t \in DOMAIN f |-> f[t]]
                     /\ \A t \in DOMAIN f : f[t] \in Nat
  /\ \A T \in SUBSET Worktrees : \A f \in [T -> Nat] : f \in Pins
BY DEF Pins

LEMMA NothingPinned == <<>> \in Pins /\ DOMAIN <<>> = {}
<1>1. <<>> \in [{} -> Nat] /\ DOMAIN <<>> = {}
  OBVIOUS
<1> QED
  BY <1>1, PinsAre

LEMMA IdleTyped == Idle \in ExecutorRecords /\ NoAttempt \in AttemptRecords /\ DOMAIN Idle.grant = {}
BY NothingPinned DEF Idle, ExecutorRecords, NoAttempt, AttemptRecords

LEMMA Initially == Init => IInv
<1> SUFFICES ASSUME Init PROVE IInv
  OBVIOUS
<1>1. PICK F \in SUBSET Repos \ {{}} :
        row = [t \in Worktrees |-> Row(IF t[1] \in F /\ t[2] = 1 THEN "READY" ELSE "ABSENT")]
  BY DEF Init
<1>2. Typed
  <2>1. set \in SetRecords /\ set.version > 0
    BY DEF Init, SetRecords
  <2>2. row \in [Worktrees -> RowRecords]
    BY <1>1 DEF Row, RowRecords, RowStates
  <2>3. tree \in [Worktrees -> TreeRecords] /\ lease \in [Worktrees -> LeaseRecords]
    BY DEF Init, Clean, TreeRecords, LeaseRecords
  <2>4. attempt \in [Attempts -> AttemptRecords] /\ executor \in [Attempts -> ExecutorRecords]
    BY IdleTyped DEF Init
  <2>5. cancelling \subseteq Attempts /\ recovery \in [Attempts -> RecoveryRecords]
    BY DEF Init, RecoveryRecords
  <2>6. release \in ReleaseRecords /\ releaser \in [Claims -> ReleaserRecords]
    BY SetAssumption DEF Init, NoRelease, Off, ReleaseRecords, ReleaserRecords
  <2> QED
    BY <2>1, <2>2, <2>3, <2>4, <2>5, <2>6 DEF Typed
<1>3. GrantsFollowPins
  BY IdleTyped, NothingPinned DEF Init, GrantsFollowPins, NoAttempt, Granted, Working, Pinned, Idle
<1>4. RunningWriterOwnsItsWorktrees
  BY DEF Init, RunningWriterOwnsItsWorktrees, Working, Idle
<1>5. GenerationsInOrder
  <2>1. \A r \in Repos, g \in 1..MaxGeneration :
          row[<<r, g>>].state = IF r \in F /\ g = 1 THEN "READY" ELSE "ABSENT"
    BY <1>1 DEF Row, Worktrees
  <2>2. ASSUME NEW r \in Repos PROVE \E n \in 0..MaxGeneration : UpTo(r, n)
    <3>1. CASE r \in F
      <4>1. 1 \in 0..MaxGeneration /\ UpTo(r, 1)
        BY <2>1, <3>1, SetAssumption DEF UpTo
      <4> QED
        BY <4>1
    <3>2. CASE r \notin F
      <4>1. 0 \in 0..MaxGeneration /\ UpTo(r, 0)
        BY <2>1, <3>2, SetAssumption DEF UpTo
      <4> QED
        BY <4>1
    <3> QED
      BY <3>1, <3>2
  <2>3. \A t \in Worktrees : tree[t] = Clean /\ row[t].state # "RELEASED"
    BY <1>1 DEF Init, Row
  <2>4. \A a \in Attempts : Pinned(a) = {}
    BY NothingPinned DEF Init, Pinned, NoAttempt
  <2> QED
    BY <2>1, <2>2, <2>3, <2>4 DEF GenerationsInOrder
<1>6. ReleaseCoversTheSet /\ EarlierWritersAreDone
  BY DEF Init, ReleaseCoversTheSet, EarlierWritersAreDone, NoRelease, Off, AtEntries, Clean, Gone
<1> QED
  BY <1>2, <1>3, <1>4, <1>5, <1>6 DEF IInv

(* The newest worktree of a repository is its last generation. *)
LEMMA NewestIsLast ==
  ASSUME NEW r \in Family, Typed, GenerationsInOrder
  PROVE  \E n \in 1..MaxGeneration :
           /\ r \in Repos /\ UpTo(r, n) /\ Newest(r) = <<r, n>> /\ <<r, n>> \in Worktrees
<1>1. PICK t \in Existing : t[1] = r
  BY DEF Family
<1>2. t \in Worktrees /\ r \in Repos /\ t[2] \in 1..MaxGeneration /\ t = <<r, t[2]>>
  BY <1>1 DEF Existing, Worktrees
<1>3. PICK n \in 0..MaxGeneration : UpTo(r, n)
  BY <1>2 DEF GenerationsInOrder
<1>4. MaxGeneration \in Nat
  BY SetAssumption
<1>5. row[<<r, t[2]>>].state # "ABSENT"
  BY <1>1, <1>2 DEF Existing
<1>6. n \in 1..MaxGeneration
  BY <1>2, <1>3, <1>4, <1>5 DEF UpTo
<1>7. <<r, n>> \in Worktrees /\ row[<<r, n>>].state # "ABSENT"
  BY <1>2, <1>3, <1>4, <1>6 DEF Worktrees, UpTo
<1> DEFINE G == {x[2] : x \in {y \in Existing : y[1] = r}}
<1>8. n \in G
  BY <1>7 DEF Existing
<1>9. \A g \in G : g \in 1..MaxGeneration /\ g <= n
  <2> SUFFICES ASSUME NEW x \in Existing, x[1] = r PROVE x[2] \in 1..MaxGeneration /\ x[2] <= n
    OBVIOUS
  <2>1. x[2] \in 1..MaxGeneration /\ x = <<r, x[2]>> /\ row[x].state # "ABSENT"
    BY DEF Existing, Worktrees
  <2> QED
    BY <1>3, <2>1 DEF UpTo
<1> HIDE DEF G
<1>10. Max(G) = n
  <2>1. \A y \in G : n >= y
    BY <1>4, <1>6, <1>9
  <2>2. ASSUME NEW m \in G, \A y \in G : m >= y PROVE m = n
    BY <1>4, <1>6, <1>8, <1>9, <2>2
  <2> QED
    BY <1>8, <2>1, <2>2 DEF Max
<1> QED
  BY <1>2, <1>3, <1>6, <1>7, <1>10 DEF Newest, G

(* A run starts at worktrees that exist. *)
LEMMA StartExists ==
  ASSUME NEW r \in Family, Typed, GenerationsInOrder
  PROVE  Start(r).at \in Existing /\ Start(r).rev \in Nat
<1> DEFINE ready == {t \in Worktrees : t[1] = r /\ row[t].state = "READY"}
           newest == CHOOSE t \in ready : \A x \in ready : x[2] <= t[2]
<1>1. Start(r) = IF ready = {} THEN [at |-> <<r, 1>>, rev |-> 0] ELSE [at |-> newest, rev |-> row[newest].rev]
  BY DEF Start
<1>2. PICK n \in 1..MaxGeneration : r \in Repos /\ UpTo(r, n)
  BY NewestIsLast
<1>3. MaxGeneration \in Nat \ {0}
  BY SetAssumption
<1>4. <<r, 1>> \in Existing
  BY <1>2, <1>3 DEF UpTo, Existing, Worktrees
<1>5. ASSUME NEW t \in ready PROVE newest \in ready
  <2>1. \A x \in ready : x[2] \in 1..MaxGeneration /\ x = <<r, x[2]>> /\ row[x].state = "READY"
    BY DEF Worktrees
  <2>2. ASSUME NEW x \in ready, ~(x[2] <= t[2]) PROVE FALSE
    <3>1. /\ x[2] \in 1..MaxGeneration /\ x = <<r, x[2]>> /\ row[x].state = "READY"
          /\ t[2] \in 1..MaxGeneration /\ t = <<r, t[2]>> /\ row[t].state = "READY"
      BY <2>1
    <3>2. t[2] < x[2]
      BY <1>3, <2>2, <3>1
    <3> QED
      BY <1>2, <3>1, <3>2 DEF GenerationsInOrder
  <2> QED
    BY <2>2
<1>6. ready \subseteq Existing /\ \A t \in ready : row[t].rev \in Nat
  BY DEF Existing, Typed, RowRecords
<1> HIDE DEF ready, newest
<1> QED
  BY <1>1, <1>4, <1>5, <1>6

(* Become changes the state of a row, and the version with it. *)
LEMMA BecomeTyped ==
  ASSUME Typed, NEW s \in RowStates, NEW T
  PROVE  /\ Become(s, T) \in [Worktrees -> RowRecords]
         /\ \A t \in Worktrees :
              /\ t \notin T => Become(s, T)[t] = row[t]
              /\ t \in T => Become(s, T)[t].state = s
<1>1. ASSUME NEW t \in Worktrees
      PROVE  /\ [row[t] EXCEPT !.state = s, !.version = @ + 1] \in RowRecords
             /\ [row[t] EXCEPT !.state = s, !.version = @ + 1].state = s
  <2>1. row[t] \in RowRecords /\ row[t].version + 1 \in Nat
    BY DEF Typed, RowRecords
  <2> QED
    BY <2>1 DEF RowRecords
<1>2. ASSUME NEW t \in Worktrees
      PROVE  Become(s, T)[t] = IF t \in T THEN [row[t] EXCEPT !.state = s, !.version = @ + 1] ELSE row[t]
  BY DEF Become
<1>3. ASSUME NEW t \in Worktrees
      PROVE  /\ Become(s, T)[t] \in RowRecords
             /\ t \notin T => Become(s, T)[t] = row[t]
             /\ t \in T => Become(s, T)[t].state = s
  BY <1>1, <1>2 DEF Typed
<1>4. Become(s, T) = [t \in Worktrees |-> Become(s, T)[t]]
  BY DEF Become
<1> HIDE DEF Become
<1> QED
  BY <1>3, <1>4

LEMMA GrantTyped ==
  ASSUME Typed, NEW a \in Attempts, NEW T, T \subseteq Worktrees, Grant(a, T)
  PROVE  /\ lease' \in [Worktrees -> LeaseRecords]
         /\ executor' \in [Attempts -> ExecutorRecords]
         /\ \A t \in Worktrees : t \notin T => lease'[t] = lease[t]
         /\ \A t \in T : /\ lease'[t].live /\ lease'[t].holder = a
                         /\ executor'[a].grant[t] = lease'[t].fence
         /\ \A b \in Attempts : b # a => executor'[b] = executor[b]
         /\ DOMAIN executor'[a].grant = T /\ executor'[a].pc = "working" /\ (executor'[a].late <=> release.key > 0)
<1> DEFINE grant == [t \in T |-> lease[t].fence + 1]
<1>1. grant \in Pins
  <2>1. grant \in [T -> Nat]
    BY DEF Typed, LeaseRecords
  <2> QED
    BY <2>1, PinsAre
<1>2. executor[a] \in ExecutorRecords /\ (release.key > 0) \in BOOLEAN
  BY DEF Typed
<1>3. lease' \in [Worktrees -> LeaseRecords]
  BY DEF Grant, Typed, LeaseRecords
<1>4. DOMAIN grant = T /\ \A t \in T : grant[t] = lease[t].fence + 1
  OBVIOUS
<1> HIDE DEF grant
<1>5. executor' = [executor EXCEPT ![a].pc = "working", ![a].late = release.key > 0, ![a].grant = grant]
  BY DEF Grant, grant
<1>6. executor'[a] = [executor[a] EXCEPT !.pc = "working", !.late = release.key > 0, !.grant = grant]
  BY <1>5 DEF Typed
<1>7. executor'[a] \in ExecutorRecords /\ executor'[a].pc = "working"
      /\ (executor'[a].late <=> release.key > 0) /\ executor'[a].grant = grant
  BY <1>1, <1>2, <1>6 DEF ExecutorRecords
<1>8. \A b \in Attempts : b # a => executor'[b] = executor[b]
  BY <1>5 DEF Typed
<1>9. executor' \in [Attempts -> ExecutorRecords]
  BY <1>5, <1>7, <1>8 DEF Typed
<1>10. \A t \in T : lease'[t] = [fence |-> lease[t].fence + 1, holder |-> a, live |-> TRUE]
  BY DEF Grant
<1>11. \A t \in Worktrees : t \notin T => lease'[t] = lease[t]
  BY DEF Grant
<1>12. \A t \in T : t \in Worktrees /\ lease'[t].live /\ lease'[t].holder = a
                   /\ executor'[a].grant[t] = lease'[t].fence
  <2> SUFFICES ASSUME NEW t \in T
               PROVE  /\ t \in Worktrees /\ lease'[t].live /\ lease'[t].holder = a
                      /\ executor'[a].grant[t] = lease'[t].fence
    OBVIOUS
  <2>1. lease'[t].live /\ lease'[t].holder = a /\ lease'[t].fence = lease[t].fence + 1
    <3>1. lease'[t] = [fence |-> lease[t].fence + 1, holder |-> a, live |-> TRUE]
      BY <1>10
    <3>2. lease'[t].holder = a /\ lease'[t].fence = lease[t].fence + 1
      BY <3>1
    <3>3. lease'[t].live
      BY <3>1
    <3> QED
      BY <3>2, <3>3
  <2>2. executor'[a].grant[t] = lease[t].fence + 1
    BY <1>4, <1>7
  <2> QED
    BY <2>1, <2>2
<1>13. DOMAIN executor'[a].grant = T
  BY <1>4, <1>7
<1> QED
  BY <1>3, <1>7, <1>8, <1>9, <1>11, <1>12, <1>13

AttemptStates == {"ABSENT", "QUEUED", "RUNNING", "SUCCEEDED", "FAILED", "INDETERMINATE", "LOST"}

(* An attempt that only changes its state keeps its run and its pins. *)
LEMMA AttemptMoves ==
  ASSUME Typed, NEW a \in Attempts, NEW s \in AttemptStates, attempt' = [attempt EXCEPT ![a].state = s]
  PROVE  /\ attempt' \in [Attempts -> AttemptRecords]
         /\ \A b \in Attempts : attempt'[b].run = attempt[b].run /\ attempt'[b].pin = attempt[b].pin
         /\ attempt'[a].state = s
         /\ \A b \in Attempts : b # a => attempt'[b] = attempt[b]
<1>1. attempt[a] \in AttemptRecords /\ attempt'[a] = [attempt[a] EXCEPT !.state = s]
  BY DEF Typed
<1>2. attempt'[a] \in AttemptRecords /\ attempt'[a].run = attempt[a].run /\ attempt'[a].pin = attempt[a].pin
      /\ attempt'[a].state = s
  BY <1>1 DEF AttemptRecords, AttemptStates
<1>3. \A b \in Attempts : b # a => attempt'[b] = attempt[b]
  BY DEF Typed
<1>4. attempt' \in [Attempts -> AttemptRecords]
  BY <1>2, <1>3 DEF Typed
<1> QED
  BY <1>2, <1>3, <1>4

(* What an executor does with its record besides getting leases. *)
LEMMA ExecutorMoves ==
  ASSUME NEW e \in ExecutorRecords
  PROVE  /\ [e EXCEPT !.held = FALSE] \in ExecutorRecords
         /\ [e EXCEPT !.pc = "releasing", !.held = FALSE] \in ExecutorRecords
         /\ [e EXCEPT !.held = FALSE].pc = e.pc /\ [e EXCEPT !.held = FALSE].grant = e.grant
         /\ [e EXCEPT !.held = FALSE].late = e.late
         /\ [e EXCEPT !.pc = "releasing", !.held = FALSE].pc = "releasing"
         /\ [e EXCEPT !.pc = "releasing", !.held = FALSE].grant = e.grant
BY DEF ExecutorRecords

LEMMA ResolvedTyped ==
  ASSUME Typed, NEW a \in Attempts
  PROVE  LET e == [Idle EXCEPT !.pc = "resolved", !.held = TRUE, !.seen = [t \in Pinned(a) |-> row[t].version]]
         IN  e \in ExecutorRecords /\ e.grant = Idle.grant /\ e.pc = "resolved"
<1>1. Pinned(a) \subseteq Worktrees
  BY PinsAre DEF Typed, Pinned, AttemptRecords
<1>2. [t \in Pinned(a) |-> row[t].version] \in Pins
  <2>1. [t \in Pinned(a) |-> row[t].version] \in [Pinned(a) -> Nat]
    BY <1>1 DEF Typed, RowRecords
  <2> QED
    BY <1>1, <2>1, PinsAre
<1> QED
  BY <1>2, IdleTyped DEF ExecutorRecords, Idle

(* The pins of a run's first attempt. *)
LEMMA StartRunPins ==
  ASSUME Typed, GenerationsInOrder, NEW W, W \subseteq Family
  PROVE  LET starts == {Start(r) : r \in W}
             pin == [t \in {s.at : s \in starts} |-> (CHOOSE s \in starts : s.at = t).rev]
         IN  pin \in Pins /\ DOMAIN pin \subseteq Existing
<1> DEFINE starts == {Start(r) : r \in W}
           pin == [t \in {s.at : s \in starts} |-> (CHOOSE s \in starts : s.at = t).rev]
<1>1. \A s \in starts : s.at \in Existing /\ s.rev \in Nat
  BY StartExists
<1>2. Existing \subseteq Worktrees
  BY DEF Existing
<1> HIDE DEF starts
<1>3. ASSUME NEW t \in {s.at : s \in starts}
      PROVE  (CHOOSE s \in starts : s.at = t).rev \in Nat
  BY <1>1
<1>4. {s.at : s \in starts} \in SUBSET Worktrees
  BY <1>1, <1>2
<1>5. pin \in [{s.at : s \in starts} -> Nat]
  BY <1>3
<1>6. pin \in Pins
  BY <1>4, <1>5, PinsAre
<1>7. DOMAIN pin \subseteq Existing
  BY <1>1
<1> QED
  BY <1>6, <1>7 DEF starts

LEMMA TypedStep == IInv /\ [Next]_vars => Typed'
<1> SUFFICES ASSUME IInv, [Next]_vars PROVE Typed'
  OBVIOUS
<1>0. Typed /\ GenerationsInOrder /\ ReleaseCoversTheSet
  BY DEF IInv
<1>1. ASSUME NEW a \in Attempts, StartRun(a) PROVE Typed'
  <2>1. PICK W \in SUBSET Family \ {{}} :
          LET starts == {Start(r) : r \in W}
              pin == [t \in {s.at : s \in starts} |-> (CHOOSE s \in starts : s.at = t).rev]
          IN  attempt' = [attempt EXCEPT ![a] = [state |-> "QUEUED", run |-> a, pin |-> pin]]
    BY <1>1 DEF StartRun
  <2> DEFINE starts == {Start(r) : r \in W}
             pin == [t \in {s.at : s \in starts} |-> (CHOOSE s \in starts : s.at = t).rev]
  <2>2. pin \in Pins
    BY <1>0, StartRunPins
  <2> HIDE DEF pin
  <2>3. [state |-> "QUEUED", run |-> a, pin |-> pin] \in AttemptRecords
    BY <2>2 DEF AttemptRecords
  <2>4. attempt' = [attempt EXCEPT ![a] = [state |-> "QUEUED", run |-> a, pin |-> pin]]
    BY <2>1 DEF pin
  <2>5. attempt' \in [Attempts -> AttemptRecords]
    BY <1>0, <2>3, <2>4 DEF Typed
  <2> QED
    BY <1>0, <1>1, <2>5 DEF StartRun, Typed, releaseVars
<1>2. ASSUME NEW a \in Attempts, NEW b \in Attempts, Retry(a, b) PROVE Typed'
  <2>1. [attempt[b] EXCEPT !.state = "QUEUED"] \in AttemptRecords
    BY <1>0 DEF Typed, AttemptRecords
  <2>2. attempt' \in [Attempts -> AttemptRecords]
    BY <1>0, <1>2, <2>1 DEF Retry, Typed
  <2> QED
    BY <1>0, <1>2, <2>2 DEF Retry, Typed, releaseVars
<1>3. ASSUME NEW a \in Attempts, Admit(a) PROVE Typed'
  <2>1. attempt' \in [Attempts -> AttemptRecords]
    BY <1>0, <1>3, AttemptMoves DEF Admit, AttemptStates
  <2>2. executor' \in [Attempts -> ExecutorRecords]
    BY <1>0, <1>3, ResolvedTyped, IdleTyped DEF Admit, Typed
  <2> QED
    BY <1>0, <1>3, <2>1, <2>2 DEF Admit, Typed, releaseVars
<1>4. ASSUME NEW a \in Attempts, AcquireWriteLeases(a) PROVE Typed'
  <2>1. CASE Grant(a, Pinned(a)) /\ UNCHANGED attempt
    <3>1. Pinned(a) \subseteq Worktrees
      BY <1>0, PinsAre DEF Typed, Pinned, AttemptRecords
    <3> QED
      BY <1>0, <1>4, <2>1, <3>1, GrantTyped DEF AcquireWriteLeases, Typed, releaseVars
  <2>2. CASE /\ executor' = [executor EXCEPT ![a] = Idle]
             /\ attempt' = IF executor[a].held THEN [attempt EXCEPT ![a].state = "FAILED"] ELSE attempt
             /\ UNCHANGED lease
    <3>1. attempt' \in [Attempts -> AttemptRecords]
      BY <1>0, <2>2, AttemptMoves DEF AttemptStates, Typed
    <3>2. executor' \in [Attempts -> ExecutorRecords]
      BY <1>0, <2>2, IdleTyped DEF Typed
    <3> QED
      BY <1>0, <1>4, <2>2, <3>1, <3>2 DEF AcquireWriteLeases, Typed, releaseVars
  <2> QED
    BY <1>4, <2>1, <2>2 DEF AcquireWriteLeases
<1>5. ASSUME NEW a \in Attempts, NEW t \in Worktrees, Edit(a, t) PROVE Typed'
  <2>1. tree' \in [Worktrees -> TreeRecords]
    <3>1. tree[t] \in TreeRecords
      BY <1>0 DEF Typed
    <3>2. [tree[t] EXCEPT !.files = "dirty"] \in TreeRecords /\ [files |-> "clean", mover |-> a] \in TreeRecords
      BY <3>1 DEF TreeRecords
    <3> QED
      BY <1>0, <1>5, <3>2 DEF Edit, Typed
  <2> QED
    BY <1>0, <1>5, <2>1 DEF Edit, Typed, attemptVars, releaseVars
<1>6. ASSUME NEW a \in Attempts, FinalizeExecutionAttempt(a) PROVE Typed'
  <2>1. attempt' \in [Attempts -> AttemptRecords]
    BY <1>0, <1>6, AttemptMoves DEF FinalizeExecutionAttempt, AttemptStates, Typed
  <2>2. executor' \in [Attempts -> ExecutorRecords]
    <3>1. executor[a] \in ExecutorRecords
      BY <1>0 DEF Typed
    <3>2. CASE executor' = [executor EXCEPT ![a].pc = "releasing", ![a].held = FALSE]
      <4>1. executor' = [executor EXCEPT ![a] = [executor[a] EXCEPT !.pc = "releasing", !.held = FALSE]]
        BY <3>2
      <4> QED
        BY <1>0, <3>1, <4>1, ExecutorMoves DEF Typed
    <3>3. CASE executor' = [executor EXCEPT ![a] = Idle]
      BY <1>0, <3>3, IdleTyped DEF Typed
    <3> QED
      BY <1>6, <3>2, <3>3 DEF FinalizeExecutionAttempt
  <2> QED
    BY <1>0, <1>6, <2>1, <2>2 DEF FinalizeExecutionAttempt, Typed, releaseVars
<1>7. ASSUME NEW a \in Attempts, ReleaseWriteLeases(a) PROVE Typed'
  <2>1. lease' \in [Worktrees -> LeaseRecords]
    <3>1. \A t \in Worktrees : [lease[t] EXCEPT !.live = FALSE] \in LeaseRecords
      BY <1>0 DEF Typed, LeaseRecords
    <3> QED
      BY <1>0, <1>7, <3>1 DEF ReleaseWriteLeases, Typed
  <2>2. executor' \in [Attempts -> ExecutorRecords]
    BY <1>0, <1>7, IdleTyped DEF ReleaseWriteLeases, Typed
  <2> QED
    BY <1>0, <1>7, <2>1, <2>2 DEF ReleaseWriteLeases, Typed, releaseVars
<1>8. ASSUME NEW a \in Attempts, CancelRun(a) PROVE Typed'
  BY <1>0, <1>8 DEF CancelRun, Typed, releaseVars
<1>9. ASSUME NEW a \in Attempts, CancelExecution(a) PROVE Typed'
  <2>1. attempt' \in [Attempts -> AttemptRecords]
    BY <1>0, <1>9, AttemptMoves DEF CancelExecution, AttemptStates, Typed
  <2>2. executor' \in [Attempts -> ExecutorRecords]
    BY <1>0, <1>9, ExecutorMoves, IdleTyped DEF CancelExecution, Typed
  <2>3. row' \in [Worktrees -> RowRecords]
    BY <1>0, <1>9, BecomeTyped DEF CancelExecution, Typed, RowStates
  <2> QED
    BY <1>0, <1>9, <2>1, <2>2, <2>3 DEF CancelExecution, Typed, releaseVars
<1>10. ASSUME NEW a \in Attempts, LoseJobLease(a) \/ ExecutorDies(a) PROVE Typed'
  <2>1. executor' \in [Attempts -> ExecutorRecords]
    <3>1. executor[a] \in ExecutorRecords
      BY <1>0 DEF Typed
    <3>2. CASE executor' = [executor EXCEPT ![a].held = FALSE]
      <4>1. executor' = [executor EXCEPT ![a] = [executor[a] EXCEPT !.held = FALSE]]
        BY <3>2
      <4> QED
        BY <1>0, <3>1, <4>1, ExecutorMoves DEF Typed
    <3>3. CASE executor' = [executor EXCEPT ![a] = Idle]
      BY <1>0, <3>3, IdleTyped DEF Typed
    <3> QED
      BY <1>10, <3>2, <3>3 DEF LoseJobLease, ExecutorDies
  <2> QED
    BY <1>0, <1>10, <2>1 DEF LoseJobLease, ExecutorDies, Typed, releaseVars
<1>11. ASSUME NEW a \in Attempts, TerminateInterruptedAttempt(a) PROVE Typed'
  <2>1. attempt' \in [Attempts -> AttemptRecords]
    BY <1>0, <1>11, AttemptMoves DEF TerminateInterruptedAttempt, AttemptStates
  <2>2. row' \in [Worktrees -> RowRecords]
    <3>1. UNCHANGED row \/ \E T : row' = Become("QUARANTINED", T)
      BY <1>11 DEF TerminateInterruptedAttempt
    <3> QED
      BY <1>0, <3>1, BecomeTyped DEF Typed, RowStates
  <2>3. recovery' \in [Attempts -> RecoveryRecords]
    <3>1. \A t \in Worktrees : [at |-> t, version |-> row[t].version] \in RecoveryRecords
      BY <1>0 DEF Typed, RowRecords, RecoveryRecords
    <3>2. Held(a) \subseteq Worktrees
      BY DEF Held
    <3>3. \/ UNCHANGED recovery
          \/ \E t \in Held(a) : recovery' = [recovery EXCEPT ![a] = [at |-> t, version |-> row[t].version]]
      BY <1>11 DEF TerminateInterruptedAttempt
    <3> QED
      BY <1>0, <1>11, <3>1, <3>2, <3>3 DEF Typed
  <2> QED
    BY <1>0, <1>11, <2>1, <2>2, <2>3 DEF TerminateInterruptedAttempt, Typed, releaseVars
<1>12. ASSUME NEW a \in Attempts, QuarantineInterrupted(a) PROVE Typed'
  <2>1. row' \in [Worktrees -> RowRecords]
    BY <1>0, <1>12, BecomeTyped DEF QuarantineInterrupted, RowStates
  <2>2. recovery' \in [Attempts -> RecoveryRecords]
    BY <1>0, <1>12 DEF QuarantineInterrupted, Typed, RecoveryRecords
  <2> QED
    BY <1>0, <1>12, <2>1, <2>2 DEF QuarantineInterrupted, Typed, releaseVars
<1>13. ASSUME NEW r \in Repos, ReconcileWorkspace(r) PROVE Typed'
  <2>1. row' \in [Worktrees -> RowRecords]
    <3>1. Row("READY") \in RowRecords
      BY DEF Row, RowRecords, RowStates
    <3> QED
      BY <1>0, <1>13, <3>1, BecomeTyped DEF ReconcileWorkspace, Typed, RowStates
  <2> QED
    BY <1>0, <1>13, <2>1 DEF ReconcileWorkspace, Typed, attemptVars, releaseVars
<1>14. ASSUME NEW t \in Worktrees, AdvanceRevision(t) \/ LeaseExpires(t) PROVE Typed'
  <2>1. row' \in [Worktrees -> RowRecords]
    <3>1. row[t] \in RowRecords /\ row[t].rev + 1 \in Nat /\ row[t].version + 1 \in Nat
      BY <1>0 DEF Typed, RowRecords
    <3>2. [row[t] EXCEPT !.rev = @ + 1, !.version = @ + 1] \in RowRecords
      BY <3>1 DEF RowRecords
    <3> QED
      BY <1>0, <1>14, <3>2 DEF AdvanceRevision, LeaseExpires, Typed
  <2>2. tree' \in [Worktrees -> TreeRecords]
    <3>1. Clean \in TreeRecords
      BY DEF Clean, TreeRecords
    <3> QED
      BY <1>0, <1>14, <3>1 DEF AdvanceRevision, LeaseExpires, Typed
  <2>3. lease' \in [Worktrees -> LeaseRecords]
    <3>1. [lease[t] EXCEPT !.live = FALSE] \in LeaseRecords
      BY <1>0 DEF Typed, LeaseRecords
    <3> QED
      BY <1>0, <1>14, <3>1 DEF AdvanceRevision, LeaseExpires, Typed
  <2> QED
    BY <1>0, <1>14, <2>1, <2>2, <2>3 DEF AdvanceRevision, LeaseExpires, Typed, attemptVars, releaseVars
<1>15. CASE RequestWorkspaceSetRelease
  <2>1. release' \in ReleaseRecords
    BY <1>0, <1>15, SetAssumption DEF RequestWorkspaceSetRelease, ReleaseRecords, Typed, SetRecords, Existing
  <2> QED
    BY <1>0, <1>15, <2>1 DEF RequestWorkspaceSetRelease, Typed, attemptVars
<1>16. CASE LoseRelease
  <2>1. release' \in ReleaseRecords
    <3>1. release \in ReleaseRecords /\ release.holder \in Nat /\ 0 \in 0..ReleaseClaims
      BY <1>0, SetAssumption DEF Typed, ReleaseRecords
    <3>2. (release.claims < ReleaseClaims) \in BOOLEAN
      OBVIOUS
    <3> HIDE <1>0
    <3> QED
      BY <1>16, <3>1, <3>2 DEF LoseRelease, ReleaseRecords
  <2> QED
    BY <1>0, <1>16, <2>1 DEF LoseRelease, Typed, attemptVars
<1>17. ASSUME NEW c \in Claims, ClaimRelease(c) \/ CompleteRelease(c) \/ ReleaserStops(c) PROVE Typed'
  <2>1. release' \in ReleaseRecords
    <3>1. release \in ReleaseRecords /\ 0 \in 0..ReleaseClaims /\ c \in 0..ReleaseClaims
      BY <1>0, SetAssumption DEF Typed, ReleaseRecords, Claims
    <3>2. CASE ClaimRelease(c)
      <4>1. release.claims + 1 \in 0..ReleaseClaims
        BY <3>1, <3>2, SetAssumption DEF ClaimRelease, ReleaseRecords
      <4> QED
        BY <3>1, <3>2, <4>1 DEF ClaimRelease, ReleaseRecords
    <3>3. CASE CompleteRelease(c) \/ ReleaserStops(c)
      BY <3>1, <3>3 DEF CompleteRelease, ReleaserStops, ReleaseRecords
    <3> QED
      BY <1>17, <3>2, <3>3
  <2>2. releaser' \in [Claims -> ReleaserRecords]
    BY <1>0, <1>17 DEF ClaimRelease, CompleteRelease, ReleaserStops, ReleaserRecords, Typed, Off
  <2> QED
    BY <1>0, <1>17, <2>1, <2>2 DEF ClaimRelease, CompleteRelease, ReleaserStops, Typed, attemptVars
<1>18. ASSUME NEW c \in Claims, BeginRelease(c) \/ FinishRelease(c) PROVE Typed'
  <2>1. set' \in SetRecords /\ set'.version > 0
    BY <1>0, <1>18 DEF BeginRelease, FinishRelease, SetRecords, Typed
  <2>2. releaser' \in [Claims -> ReleaserRecords]
    <3>1. release.entries \subseteq Worktrees
      BY <1>0 DEF Typed, ReleaseRecords
    <3>2. [Off EXCEPT !.pc = "finished"] \in ReleaserRecords
      BY DEF ReleaserRecords, Off
    <3>3. [Off EXCEPT !.pc = "entries", !.todo = release.entries] \in ReleaserRecords
      BY <3>1 DEF ReleaserRecords, Off
    <3>4. [releaser[c] EXCEPT !.pc = "finished"] \in ReleaserRecords
      BY <1>0 DEF ReleaserRecords, Typed
    <3> QED
      BY <1>0, <1>18, <3>2, <3>3, <3>4 DEF BeginRelease, FinishRelease, Typed
  <2> QED
    BY <1>0, <1>18, <2>1, <2>2 DEF BeginRelease, FinishRelease, Typed, attemptVars
<1>19. ASSUME NEW c \in Claims, NEW t \in Worktrees, LoadRepositoryWorkspace(c, t) PROVE Typed'
  <2>1. releaser' \in [Claims -> ReleaserRecords]
    <3>1. releaser[c] \in ReleaserRecords /\ row[t].version \in Nat
      BY <1>0 DEF Typed, RowRecords
    <3>2. /\ [releaser[c] EXCEPT !.pc = "remove", !.at = t, !.version = row[t].version] \in ReleaserRecords
          /\ [releaser[c] EXCEPT !.todo = @ \ {t}] \in ReleaserRecords
      BY <3>1 DEF ReleaserRecords
    <3>3. CASE row[t].state = "READY"
      <4>1. releaser' = [releaser EXCEPT ![c] = [releaser[c] EXCEPT !.pc = "remove", !.at = t, !.version = row[t].version]]
        BY <1>19, <3>3 DEF LoadRepositoryWorkspace
      <4> QED
        BY <1>0, <3>2, <4>1 DEF Typed
    <3>4. CASE row[t].state # "READY"
      <4>1. releaser' = [releaser EXCEPT ![c] = [releaser[c] EXCEPT !.todo = @ \ {t}]]
        BY <1>19, <3>4 DEF LoadRepositoryWorkspace
      <4> QED
        BY <1>0, <3>2, <4>1 DEF Typed
    <3> QED
      BY <3>3, <3>4
  <2> QED
    BY <1>0, <1>19, <2>1 DEF LoadRepositoryWorkspace, Typed, attemptVars
<1>20. ASSUME NEW c \in Claims, RemoveWorktree(c) \/ ReleaseRepositoryWorkspace(c) PROVE Typed'
  <2>1. tree' \in [Worktrees -> TreeRecords] /\ row' \in [Worktrees -> RowRecords]
    <3>1. UNCHANGED row \/ \E T : row' = Become("RELEASED", T)
      BY <1>20 DEF RemoveWorktree, ReleaseRepositoryWorkspace
    <3>2. row' \in [Worktrees -> RowRecords]
      BY <1>0, <3>1, BecomeTyped DEF Typed, RowStates
    <3>3. Gone \in TreeRecords
      BY DEF Gone, TreeRecords
    <3>4. tree' \in [Worktrees -> TreeRecords]
      BY <1>0, <1>20, <3>3 DEF RemoveWorktree, ReleaseRepositoryWorkspace, Typed
    <3> QED
      BY <3>2, <3>4
  <2>2. releaser' \in [Claims -> ReleaserRecords]
    BY <1>0, <1>20 DEF RemoveWorktree, ReleaseRepositoryWorkspace, ReleaserRecords, Typed
  <2> QED
    BY <1>0, <1>20, <2>1, <2>2 DEF RemoveWorktree, ReleaseRepositoryWorkspace, Typed, attemptVars
<1>21. CASE UNCHANGED vars
  BY <1>0, <1>21 DEF vars, Typed, attemptVars, releaseVars
<1> QED
  BY <1>1, <1>2, <1>3, <1>4, <1>5, <1>6, <1>7, <1>8, <1>9, <1>10, <1>11, <1>12, <1>13, <1>14, <1>15,
     <1>16, <1>17, <1>18, <1>19, <1>20, <1>21 DEF Next, AttemptStep, ReleaserStep

-----------------------------------------------------------------------------
(* Executors, their grants and their pins. *)

(* It is enough to look at the attempt a step is about. *)
LEMMA GrantsOfOthers ==
  ASSUME GrantsFollowPins, NEW a \in Attempts,
         \A b \in Attempts : b # a => attempt'[b] = attempt[b] /\ executor'[b] = executor[b],
         \A t \in Worktrees : lease'[t].live => lease'[t].holder \in Attempts,
         attempt'[a].state \in {"ABSENT", "QUEUED"} => executor'[a] = Idle,
         DOMAIN executor'[a].grant \in {{}, DOMAIN attempt'[a].pin},
         executor'[a].pc = "working" => DOMAIN executor'[a].grant = DOMAIN attempt'[a].pin
  PROVE  GrantsFollowPins'
BY DEF GrantsFollowPins, Granted, Pinned, Working

(* An executor that has begun has an attempt that has begun. *)
LEMMA BegunIsBegun ==
  ASSUME GrantsFollowPins, NEW a \in Attempts, executor[a].pc # "off" \/ executor[a].held
  PROVE  attempt[a].state \notin {"ABSENT", "QUEUED"}
BY DEF GrantsFollowPins, Idle

LEMMA GrantsStep == IInv /\ [Next]_vars => GrantsFollowPins'
<1> SUFFICES ASSUME IInv, [Next]_vars PROVE GrantsFollowPins'
  OBVIOUS
<1>0. Typed /\ GrantsFollowPins /\ \A t \in Worktrees : lease[t].live => lease[t].holder \in Attempts
  BY DEF IInv, GrantsFollowPins
<1>a. \A b \in Attempts : /\ attempt[b].state \in {"ABSENT", "QUEUED"} => executor[b] = Idle
                          /\ DOMAIN executor[b].grant \in {{}, DOMAIN attempt[b].pin}
                          /\ executor[b].pc = "working" => DOMAIN executor[b].grant = DOMAIN attempt[b].pin
  BY <1>0 DEF GrantsFollowPins, Granted, Pinned, Working
<1>b. Idle.pc = "off" /\ DOMAIN Idle.grant = {}
  BY IdleTyped DEF Idle
<1>1. ASSUME UNCHANGED <<lease, attempt, executor>> PROVE GrantsFollowPins'
  BY <1>0, <1>1 DEF GrantsFollowPins, Granted, Pinned, Working
<1>2. ASSUME NEW a \in Attempts, StartRun(a) \/ \E b \in Attempts : Retry(a, b) PROVE GrantsFollowPins'
  <2>1. executor' = executor /\ lease' = lease /\ executor[a] = Idle
    BY <1>a, <1>2 DEF StartRun, Retry
  <2>2. \A b \in Attempts : b # a => attempt'[b] = attempt[b]
    BY <1>0, <1>2 DEF StartRun, Retry, Typed
  <2> QED
    BY <1>0, <1>b, <2>1, <2>2, GrantsOfOthers
<1>3. ASSUME NEW a \in Attempts, Admit(a) PROVE GrantsFollowPins'
  <2> DEFINE e == [Idle EXCEPT !.pc = "resolved", !.held = TRUE, !.seen = [t \in Pinned(a) |-> row[t].version]]
  <2>1. e.grant = Idle.grant /\ e.pc = "resolved"
    BY <1>0, ResolvedTyped
  <2> HIDE DEF e
  <2>2. lease' = lease /\ executor'[a] \in {Idle, e} /\ \A b \in Attempts : b # a => executor'[b] = executor[b]
    BY <1>0, <1>3 DEF Admit, Typed, e
  <2>3. attempt'[a].state = "RUNNING" /\ \A b \in Attempts : b # a => attempt'[b] = attempt[b]
    BY <1>0, <1>3, AttemptMoves DEF Admit, AttemptStates
  <2> QED
    BY <1>0, <1>b, <2>1, <2>2, <2>3, GrantsOfOthers
<1>4. ASSUME NEW a \in Attempts, AcquireWriteLeases(a) PROVE GrantsFollowPins'
  <2>0. executor[a].pc = "resolved" /\ attempt[a].state \notin {"ABSENT", "QUEUED"}
    BY <1>0, <1>4, BegunIsBegun DEF AcquireWriteLeases
  <2>1. CASE Grant(a, Pinned(a)) /\ UNCHANGED attempt
    <3>1. Pinned(a) \subseteq Worktrees
      BY <1>0, PinsAre DEF Typed, Pinned, AttemptRecords
    <3>2. /\ \A t \in Worktrees : t \notin Pinned(a) => lease'[t] = lease[t]
          /\ \A t \in Pinned(a) : lease'[t].live /\ lease'[t].holder = a
          /\ \A b \in Attempts : b # a => executor'[b] = executor[b]
          /\ DOMAIN executor'[a].grant = Pinned(a)
      BY <1>0, <2>1, <3>1, GrantTyped
    <3>3. \A t \in Worktrees : lease'[t].live => lease'[t].holder \in Attempts
      BY <1>0, <3>2
    <3> QED
      BY <1>0, <2>0, <2>1, <3>2, <3>3, GrantsOfOthers DEF Pinned
  <2>2. CASE /\ executor' = [executor EXCEPT ![a] = Idle]
             /\ attempt' = IF executor[a].held THEN [attempt EXCEPT ![a].state = "FAILED"] ELSE attempt
             /\ UNCHANGED lease
    <3>1. executor'[a] = Idle /\ \A b \in Attempts : b # a => executor'[b] = executor[b]
      BY <1>0, <2>2 DEF Typed
    <3>2. \A b \in Attempts : b # a => attempt'[b] = attempt[b]
      BY <1>0, <2>2 DEF Typed
    <3> QED
      BY <1>0, <1>b, <2>2, <3>1, <3>2, GrantsOfOthers
  <2> QED
    BY <1>4, <2>1, <2>2 DEF AcquireWriteLeases
<1>5. ASSUME NEW a \in Attempts, FinalizeExecutionAttempt(a) \/ CancelExecution(a) PROVE GrantsFollowPins'
  <2>0. executor[a].pc = "working" /\ attempt[a].state \notin {"ABSENT", "QUEUED"}
    BY <1>0, <1>5, BegunIsBegun DEF FinalizeExecutionAttempt, CancelExecution, Working
  <2>1. /\ lease' = lease
        /\ \/ UNCHANGED attempt
           \/ \E s \in {"SUCCEEDED", "FAILED", "INDETERMINATE"} : attempt' = [attempt EXCEPT ![a].state = s]
    BY <1>5 DEF FinalizeExecutionAttempt, CancelExecution
  <2>2. /\ attempt'[a].state \notin {"ABSENT", "QUEUED"} /\ attempt'[a].pin = attempt[a].pin
        /\ \A b \in Attempts : b # a => attempt'[b] = attempt[b]
    BY <1>0, <2>0, <2>1, AttemptMoves DEF AttemptStates
  <2>3. /\ executor'[a] \in {Idle, [executor[a] EXCEPT !.pc = "releasing", !.held = FALSE]}
        /\ \A b \in Attempts : b # a => executor'[b] = executor[b]
    BY <1>0, <1>5 DEF FinalizeExecutionAttempt, CancelExecution, Typed
  <2>4. executor[a] \in ExecutorRecords
    BY <1>0 DEF Typed
  <2>5. DOMAIN executor'[a].grant \in {{}, DOMAIN attempt'[a].pin} /\ executor'[a].pc # "working"
    BY <1>a, <1>b, <2>2, <2>3, <2>4, ExecutorMoves
  <2> QED
    BY <1>0, <2>1, <2>2, <2>3, <2>5, GrantsOfOthers
<1>6. ASSUME NEW a \in Attempts, ReleaseWriteLeases(a) PROVE GrantsFollowPins'
  <2>1. executor'[a] = Idle /\ (\A b \in Attempts : b # a => executor'[b] = executor[b]) /\ attempt' = attempt
    BY <1>0, <1>6 DEF ReleaseWriteLeases, Typed
  <2>2. \A t \in Worktrees : lease'[t].live => lease'[t].holder \in Attempts
    <3>1. \A t \in Worktrees : lease'[t] \in {lease[t], [lease[t] EXCEPT !.live = FALSE]}
      BY <1>6 DEF ReleaseWriteLeases
    <3>2. \A t \in Worktrees : ~[lease[t] EXCEPT !.live = FALSE].live
      BY <1>0 DEF Typed, LeaseRecords
    <3> QED
      BY <1>0, <3>1, <3>2
  <2> QED
    BY <1>0, <1>b, <2>1, <2>2, GrantsOfOthers
<1>7. ASSUME NEW a \in Attempts, LoseJobLease(a) \/ ExecutorDies(a) PROVE GrantsFollowPins'
  <2>0. attempt[a].state \notin {"ABSENT", "QUEUED"}
    BY <1>0, <1>7, BegunIsBegun DEF LoseJobLease, ExecutorDies
  <2>1. /\ executor'[a] \in {Idle, [executor[a] EXCEPT !.held = FALSE]}
        /\ (\A b \in Attempts : b # a => executor'[b] = executor[b]) /\ attempt' = attempt /\ lease' = lease
    BY <1>0, <1>7 DEF LoseJobLease, ExecutorDies, Typed
  <2>2. executor[a] \in ExecutorRecords
    BY <1>0 DEF Typed
  <2>3. /\ DOMAIN executor'[a].grant \in {{}, DOMAIN attempt[a].pin}
        /\ executor'[a].pc = "working" => DOMAIN executor'[a].grant = DOMAIN attempt[a].pin
    <3>1. CASE executor'[a] = Idle
      BY <1>b, <3>1
    <3>2. CASE executor'[a] = [executor[a] EXCEPT !.held = FALSE]
      <4>1. executor'[a].grant = executor[a].grant /\ executor'[a].pc = executor[a].pc
        BY <2>2, <3>2, ExecutorMoves
      <4> QED
        BY <1>a, <4>1
    <3> QED
      BY <2>1, <3>1, <3>2
  <2> QED
    BY <1>0, <2>0, <2>1, <2>3, GrantsOfOthers
<1>8. ASSUME NEW a \in Attempts, TerminateInterruptedAttempt(a) PROVE GrantsFollowPins'
  <2>1. /\ lease' = lease /\ executor' = executor
        /\ \E s \in {"LOST", "INDETERMINATE"} : attempt' = [attempt EXCEPT ![a].state = s]
    BY <1>8 DEF TerminateInterruptedAttempt
  <2>2. /\ attempt'[a].state \notin {"ABSENT", "QUEUED"} /\ attempt'[a].pin = attempt[a].pin
        /\ \A b \in Attempts : b # a => attempt'[b] = attempt[b]
    BY <1>0, <2>1, AttemptMoves DEF AttemptStates
  <2> QED
    BY <1>0, <1>a, <2>1, <2>2, GrantsOfOthers
<1>9. ASSUME NEW t \in Worktrees, LeaseExpires(t) PROVE GrantsFollowPins'
  <2>1. attempt' = attempt /\ executor' = executor
    BY <1>9 DEF LeaseExpires, attemptVars
  <2>2. \A x \in Worktrees : lease'[x].live => lease'[x].holder \in Attempts
    BY <1>0, <1>9 DEF LeaseExpires, Typed, LeaseRecords
  <2> QED
    BY <1>a, <2>1, <2>2 DEF GrantsFollowPins, Granted, Pinned, Working
<1>10. ASSUME NEW a \in Attempts, NEW t \in Worktrees, Edit(a, t) PROVE GrantsFollowPins'
  BY <1>1, <1>10 DEF Edit, attemptVars
<1>11. ASSUME NEW a \in Attempts, CancelRun(a) \/ QuarantineInterrupted(a) PROVE GrantsFollowPins'
  BY <1>1, <1>11 DEF CancelRun, QuarantineInterrupted
<1>12. ASSUME NEW c \in Claims, ReleaserStep(c) PROVE GrantsFollowPins'
  BY <1>1, <1>12 DEF ReleaserStep, ClaimRelease, BeginRelease, RemoveWorktree, ReleaseRepositoryWorkspace,
                     FinishRelease, CompleteRelease, ReleaserStops, LoadRepositoryWorkspace, attemptVars
<1>13. CASE (\E t \in Worktrees : AdvanceRevision(t)) \/ (\E r \in Repos : ReconcileWorkspace(r))
  BY <1>1, <1>13 DEF AdvanceRevision, ReconcileWorkspace, attemptVars
<1>14. CASE RequestWorkspaceSetRelease \/ LoseRelease \/ UNCHANGED vars
  BY <1>1, <1>14 DEF RequestWorkspaceSetRelease, LoseRelease, vars, attemptVars
<1> QED
  BY <1>2, <1>3, <1>4, <1>5, <1>6, <1>7, <1>8, <1>9, <1>10, <1>11, <1>12, <1>13, <1>14 DEF Next, AttemptStep

-----------------------------------------------------------------------------
(* Who owns a worktree. *)

(* No attempt gets to work, and what is held stays as it is. *)
LEMMA OwnersStay ==
  ASSUME RunningWriterOwnsItsWorktrees,
         \A a \in Attempts : executor'[a].pc = "working" /\ attempt'[a].state = "RUNNING" =>
           /\ executor[a].pc = "working" /\ attempt[a].state = "RUNNING"
           /\ attempt'[a].pin = attempt[a].pin /\ executor'[a].grant = executor[a].grant
           /\ \A t \in DOMAIN attempt[a].pin : HoldsLease(a, t) => lease'[t] = lease[t]
  PROVE  RunningWriterOwnsItsWorktrees'
BY DEF RunningWriterOwnsItsWorktrees, Working, Pinned, HoldsLease

LEMMA OwnersStep == IInv /\ [Next]_vars => RunningWriterOwnsItsWorktrees'
<1> SUFFICES ASSUME IInv, [Next]_vars PROVE RunningWriterOwnsItsWorktrees'
  OBVIOUS
<1>0. Typed /\ GrantsFollowPins /\ RunningWriterOwnsItsWorktrees
  BY DEF IInv
<1>1. ASSUME lease' = lease, attempt' = attempt,
             \A a \in Attempts : executor'[a].pc = "working" =>
               executor[a].pc = "working" /\ executor'[a].grant = executor[a].grant
      PROVE  RunningWriterOwnsItsWorktrees'
  BY <1>0, <1>1, OwnersStay
<1>2. ASSUME NEW a \in Attempts, StartRun(a) \/ \E b \in Attempts : Retry(a, b) PROVE RunningWriterOwnsItsWorktrees'
  <2>1. executor' = executor /\ lease' = lease /\ executor[a].pc # "working"
    BY <1>0, <1>2 DEF StartRun, Retry, GrantsFollowPins, Idle
  <2>2. \A b \in Attempts : b # a => attempt'[b] = attempt[b]
    BY <1>0, <1>2 DEF StartRun, Retry, Typed
  <2> QED
    BY <1>0, <2>1, <2>2, OwnersStay
<1>3. ASSUME NEW a \in Attempts, Admit(a) PROVE RunningWriterOwnsItsWorktrees'
  <2> DEFINE e == [Idle EXCEPT !.pc = "resolved", !.held = TRUE, !.seen = [t \in Pinned(a) |-> row[t].version]]
  <2>1. e.pc = "resolved" /\ Idle.pc = "off"
    BY <1>0, ResolvedTyped DEF Idle
  <2> HIDE DEF e
  <2>2. lease' = lease /\ executor'[a] \in {Idle, e} /\ \A b \in Attempts : b # a => executor'[b] = executor[b]
    BY <1>0, <1>3 DEF Admit, Typed, e
  <2>3. \A b \in Attempts : b # a => attempt'[b] = attempt[b]
    BY <1>0, <1>3, AttemptMoves DEF Admit, AttemptStates
  <2> QED
    BY <1>0, <2>1, <2>2, <2>3, OwnersStay
<1>4. ASSUME NEW a \in Attempts, AcquireWriteLeases(a) PROVE RunningWriterOwnsItsWorktrees'
  <2>1. CASE Grant(a, Pinned(a)) /\ UNCHANGED attempt /\ Obtainable(a) = Pinned(a)
    <3>1. Pinned(a) \subseteq Worktrees
      BY <1>0, PinsAre DEF Typed, Pinned, AttemptRecords
    <3>2. /\ \A t \in Worktrees : t \notin Pinned(a) => lease'[t] = lease[t]
          /\ \A t \in Pinned(a) : /\ lease'[t].live /\ lease'[t].holder = a
                                  /\ executor'[a].grant[t] = lease'[t].fence
          /\ \A b \in Attempts : b # a => executor'[b] = executor[b]
      BY <1>0, <2>1, <3>1, GrantTyped
    <3>3. ASSUME NEW b \in Attempts, Working(b), attempt[b].state = "RUNNING", b # a, NEW t \in Pinned(b)
          PROVE  lease'[t] = lease[t] /\ HoldsLease(b, t)
      <4>1. HoldsLease(b, t) /\ t \in Worktrees
        BY <1>0, <3>3, PinsAre DEF RunningWriterOwnsItsWorktrees, Typed, Pinned, AttemptRecords
      <4>2. t \notin Obtainable(a)
        BY <3>3, <4>1 DEF Obtainable, Free, HoldsLease
      <4> QED
        BY <2>1, <3>2, <4>1, <4>2
    <3>4. attempt' = attempt
      BY <2>1
    <3> SUFFICES ASSUME NEW b \in Attempts, executor'[b].pc = "working", attempt[b].state = "RUNNING",
                        NEW t \in Pinned(b)
                 PROVE  lease'[t].live /\ lease'[t].holder = b /\ lease'[t].fence = executor'[b].grant[t]
      BY <3>4 DEF RunningWriterOwnsItsWorktrees, Working, Pinned, HoldsLease
    <3>5. CASE b = a
      BY <3>2, <3>5
    <3>6. CASE b # a
      <4>1. executor'[b] = executor[b]
        BY <3>2, <3>6
      <4>2. Working(b)
        BY <4>1 DEF Working
      <4>3. lease'[t] = lease[t] /\ HoldsLease(b, t)
        BY <3>3, <3>6, <4>2
      <4> QED
        BY <4>1, <4>3 DEF HoldsLease
    <3> QED
      BY <3>5, <3>6
  <2>2. CASE /\ executor' = [executor EXCEPT ![a] = Idle]
             /\ attempt' = IF executor[a].held THEN [attempt EXCEPT ![a].state = "FAILED"] ELSE attempt
             /\ UNCHANGED lease
    <3>1. executor'[a] = Idle /\ \A b \in Attempts : b # a => executor'[b] = executor[b]
      BY <1>0, <2>2 DEF Typed
    <3>2. \A b \in Attempts : b # a => attempt'[b] = attempt[b]
      BY <1>0, <2>2 DEF Typed
    <3> QED
      BY <1>0, <2>2, <3>1, <3>2, OwnersStay DEF Idle
  <2> QED
    BY <1>4, <2>1, <2>2 DEF AcquireWriteLeases
<1>5. ASSUME NEW a \in Attempts, FinalizeExecutionAttempt(a) \/ CancelExecution(a)
      PROVE  RunningWriterOwnsItsWorktrees'
  <2>1. /\ lease' = lease
        /\ \/ UNCHANGED attempt
           \/ \E s \in {"SUCCEEDED", "FAILED", "INDETERMINATE"} : attempt' = [attempt EXCEPT ![a].state = s]
    BY <1>5 DEF FinalizeExecutionAttempt, CancelExecution
  <2>2. \A b \in Attempts : b # a => attempt'[b] = attempt[b]
    BY <1>0, <2>1, AttemptMoves DEF AttemptStates
  <2>3. /\ executor'[a] \in {Idle, [executor[a] EXCEPT !.pc = "releasing", !.held = FALSE]}
        /\ \A b \in Attempts : b # a => executor'[b] = executor[b]
    BY <1>0, <1>5 DEF FinalizeExecutionAttempt, CancelExecution, Typed
  <2>4. executor[a] \in ExecutorRecords
    BY <1>0 DEF Typed
  <2>5. executor'[a].pc # "working"
    <3>1. CASE executor'[a] = Idle
      BY <3>1 DEF Idle
    <3>2. CASE executor'[a] = [executor[a] EXCEPT !.pc = "releasing", !.held = FALSE]
      BY <2>4, <3>2, ExecutorMoves
    <3> QED
      BY <2>3, <3>1, <3>2
  <2> QED
    BY <1>0, <2>1, <2>2, <2>3, <2>5, OwnersStay
<1>6. ASSUME NEW a \in Attempts, ReleaseWriteLeases(a) PROVE RunningWriterOwnsItsWorktrees'
  <2>1. /\ executor'[a] = Idle /\ (\A b \in Attempts : b # a => executor'[b] = executor[b])
        /\ attempt' = attempt /\ Idle.pc = "off"
    BY <1>0, <1>6 DEF ReleaseWriteLeases, Typed, Idle
  <2>2. ASSUME NEW t \in Worktrees, lease[t].holder # a PROVE lease'[t] = lease[t]
    BY <1>6, <2>2 DEF ReleaseWriteLeases, HoldsLease
  <2>3. \A b \in Attempts : Pinned(b) \subseteq Worktrees
    BY <1>0, PinsAre DEF Typed, Pinned, AttemptRecords
  <2>4. ASSUME NEW b \in Attempts, b # a, NEW t \in DOMAIN attempt[b].pin, HoldsLease(b, t)
        PROVE  lease'[t] = lease[t]
    BY <2>2, <2>3, <2>4 DEF HoldsLease, Pinned
  <2> QED
    BY <1>0, <2>1, <2>4, OwnersStay
<1>7. ASSUME NEW a \in Attempts, LoseJobLease(a) \/ ExecutorDies(a) PROVE RunningWriterOwnsItsWorktrees'
  <2>1. /\ executor'[a] \in {Idle, [executor[a] EXCEPT !.held = FALSE]}
        /\ (\A b \in Attempts : b # a => executor'[b] = executor[b]) /\ attempt' = attempt /\ lease' = lease
    BY <1>0, <1>7 DEF LoseJobLease, ExecutorDies, Typed
  <2>2. executor[a] \in ExecutorRecords
    BY <1>0 DEF Typed
  <2>3. executor'[a].pc = "working" => executor[a].pc = "working" /\ executor'[a].grant = executor[a].grant
    <3>1. CASE executor'[a] = Idle
      BY <3>1 DEF Idle
    <3>2. CASE executor'[a] = [executor[a] EXCEPT !.held = FALSE]
      BY <2>2, <3>2, ExecutorMoves
    <3> QED
      BY <2>1, <3>1, <3>2
  <2> QED
    BY <1>1, <2>1, <2>3
<1>8. ASSUME NEW a \in Attempts, TerminateInterruptedAttempt(a) PROVE RunningWriterOwnsItsWorktrees'
  <2>1. /\ lease' = lease /\ executor' = executor
        /\ \E s \in {"LOST", "INDETERMINATE"} : attempt' = [attempt EXCEPT ![a].state = s]
    BY <1>8 DEF TerminateInterruptedAttempt
  <2>2. attempt'[a].state # "RUNNING" /\ \A b \in Attempts : b # a => attempt'[b] = attempt[b]
    BY <1>0, <2>1, AttemptMoves DEF AttemptStates
  <2> QED
    BY <1>0, <2>1, <2>2, OwnersStay
<1>9. ASSUME NEW t \in Worktrees, LeaseExpires(t) PROVE RunningWriterOwnsItsWorktrees'
  <2>1. attempt' = attempt /\ executor' = executor
    BY <1>9 DEF LeaseExpires, attemptVars
  <2>2. ASSUME NEW a \in Attempts, executor[a].pc = "working",
               NEW x \in DOMAIN attempt[a].pin, HoldsLease(a, x)
        PROVE  lease'[x] = lease[x]
    BY <1>0, <1>9, <2>2 DEF LeaseExpires, HoldsLease, Working, Typed
  <2> QED
    BY <1>0, <2>1, <2>2, OwnersStay
<1>10. ASSUME NEW a \in Attempts, NEW t \in Worktrees, Edit(a, t) PROVE RunningWriterOwnsItsWorktrees'
  BY <1>1, <1>10 DEF Edit, attemptVars
<1>11. ASSUME NEW a \in Attempts, CancelRun(a) \/ QuarantineInterrupted(a) PROVE RunningWriterOwnsItsWorktrees'
  BY <1>1, <1>11 DEF CancelRun, QuarantineInterrupted
<1>12. ASSUME NEW c \in Claims, ReleaserStep(c) PROVE RunningWriterOwnsItsWorktrees'
  BY <1>1, <1>12 DEF ReleaserStep, ClaimRelease, BeginRelease, RemoveWorktree, ReleaseRepositoryWorkspace,
                     FinishRelease, CompleteRelease, ReleaserStops, LoadRepositoryWorkspace, attemptVars
<1>13. CASE (\E t \in Worktrees : AdvanceRevision(t)) \/ (\E r \in Repos : ReconcileWorkspace(r))
  BY <1>1, <1>13 DEF AdvanceRevision, ReconcileWorkspace, attemptVars
<1>14. CASE RequestWorkspaceSetRelease \/ LoseRelease \/ UNCHANGED vars
  BY <1>1, <1>14 DEF RequestWorkspaceSetRelease, LoseRelease, vars, attemptVars
<1> QED
  BY <1>2, <1>3, <1>4, <1>5, <1>6, <1>7, <1>8, <1>9, <1>10, <1>11, <1>12, <1>13, <1>14 DEF Next, AttemptStep

-----------------------------------------------------------------------------
(* Rows, worktrees and pins. *)

(* A row keeps its state, or is READY no longer. *)
Settles(t) ==
  \/ row'[t].state = row[t].state
  \/ row[t].state = "READY" /\ row'[t].state \in {"QUARANTINED", "RELEASED"}

LEMMA SettlingKeepsExisting == (\A t \in Worktrees : Settles(t)) => Existing' = Existing
BY DEF Settles, Existing

LEMMA GenerationsKept ==
  ASSUME GenerationsInOrder,
         \A t \in Worktrees :
           /\ Settles(t)
           /\ row'[t].state = "RELEASED" => tree'[t] = Gone
           /\ row[t].state = "ABSENT" => tree'[t] = tree[t],
         \A a \in Attempts : DOMAIN attempt'[a].pin \subseteq Existing
  PROVE  GenerationsInOrder'
<1>1. \A t \in Worktrees : (row'[t].state = "ABSENT" <=> row[t].state = "ABSENT")
                           /\ (row'[t].state = "READY" => row[t].state = "READY")
  BY DEF Settles
<1>2. \A r \in Repos, g \in 1..MaxGeneration : <<r, g>> \in Worktrees
  BY DEF Worktrees
<1>3. ASSUME NEW r \in Repos PROVE \E n \in 0..MaxGeneration : UpTo(r, n)'
  <2>1. PICK n \in 0..MaxGeneration : UpTo(r, n)
    BY DEF GenerationsInOrder
  <2>2. UpTo(r, n)'
    BY <1>1, <1>2, <2>1 DEF UpTo
  <2> QED
    BY <2>2
<1>4. \A r \in Repos, g \in 1..MaxGeneration, h \in 1..MaxGeneration :
        row'[<<r, g>>].state = "READY" /\ g < h => row'[<<r, h>>].state = "ABSENT"
  BY <1>1, <1>2 DEF GenerationsInOrder
<1>5. \A t \in Worktrees : row'[t].state = "ABSENT" => tree'[t] = Clean
  BY <1>1 DEF GenerationsInOrder
<1>6. \A a \in Attempts : Pinned(a)' \subseteq Existing'
  BY SettlingKeepsExisting DEF Pinned
<1> QED
  BY <1>3, <1>4, <1>5, <1>6 DEF GenerationsInOrder

(* What a handler of the release has before it exists. *)
LEMMA AtExists ==
  ASSUME ReleaseCoversTheSet, NEW c \in Claims, releaser[c].pc \in {"remove", "row"}
  PROVE  /\ releaser[c].at \in releaser[c].todo /\ releaser[c].at \in release.entries
         /\ releaser[c].at \in Existing
BY DEF ReleaseCoversTheSet, AtEntries

(* The steps after which the worktrees that there are are those of before, and  *)
(* how a quarantine, a release or a write changes one.                          *)
LEMMA WorktreesMove ==
  ASSUME IInv, [Next]_vars, ~ \E r \in Repos : ReconcileWorkspace(r) /\ row[Newest(r)].state = "QUARANTINED"
  PROVE  \A t \in Worktrees :
           /\ Settles(t)
           /\ \/ tree'[t] = tree[t]
              \/ row[t].state # "ABSENT" /\ tree'[t] = Gone /\ \E c \in Claims : RemoveWorktree(c)
              \/ row[t].state # "ABSENT" /\ tree[t] # Gone /\ tree'[t] # Gone
           /\ row'[t].state = "RELEASED" => row[t].state = "RELEASED" \/ tree[t] = Gone
<1>0. Typed /\ GenerationsInOrder /\ ReleaseCoversTheSet
  BY DEF IInv
<1>a. Clean.files = "clean" /\ Gone.files = "gone"
  BY DEF Clean, Gone
<1> SUFFICES ASSUME NEW x \in Worktrees
             PROVE  /\ Settles(x)
                    /\ \/ tree'[x] = tree[x]
                       \/ row[x].state # "ABSENT" /\ tree'[x] = Gone /\ \E c \in Claims : RemoveWorktree(c)
                       \/ row[x].state # "ABSENT" /\ tree[x] # Gone /\ tree'[x] # Gone
                    /\ row'[x].state = "RELEASED" => row[x].state = "RELEASED" \/ tree[x] = Gone
  OBVIOUS
<1>1. ASSUME UNCHANGED <<row, tree>>
      PROVE  /\ Settles(x) /\ tree'[x] = tree[x]
             /\ row'[x].state = "RELEASED" => row[x].state = "RELEASED" \/ tree[x] = Gone
  BY <1>1 DEF Settles
(* A quarantine hits READY rows only. *)
<1>2. ASSUME NEW T, row' = Become("QUARANTINED", T), \A t \in T : t \in Worktrees => row[t].state = "READY"
      PROVE  /\ Settles(x)
             /\ row'[x].state = "RELEASED" => row[x].state = "RELEASED" \/ tree[x] = Gone
  BY <1>0, <1>2, BecomeTyped DEF Settles, RowStates
<1>3. ASSUME NEW a \in Attempts, NEW t \in Worktrees, Edit(a, t)
      PROVE  /\ Settles(x) /\ (tree'[x] = tree[x] \/ (row[x].state # "ABSENT" /\ tree[x] # Gone /\ tree'[x] # Gone))
             /\ row'[x].state = "RELEASED" => row[x].state = "RELEASED" \/ tree[x] = Gone
  <2>1. tree[t] # Gone /\ row[t].state # "ABSENT" /\ row' = row
    BY <1>0, <1>3 DEF Edit, GenerationsInOrder, Existing
  <2>2. tree'[t] # Gone /\ (x # t => tree'[x] = tree[x])
    <3>1. tree[t] \in TreeRecords
      BY <1>0 DEF Typed
    <3>2. [tree[t] EXCEPT !.files = "dirty"].files = "dirty" /\ [files |-> "clean", mover |-> a].files = "clean"
      BY <3>1 DEF TreeRecords
    <3>3. tree'[t] \in {[tree[t] EXCEPT !.files = "dirty"], [files |-> "clean", mover |-> a]}
          /\ (x # t => tree'[x] = tree[x])
      BY <1>0, <1>3 DEF Edit, Typed
    <3> QED
      BY <1>a, <3>2, <3>3
  <2> QED
    BY <2>1, <2>2 DEF Settles
<1>4. ASSUME NEW a \in Attempts, CancelExecution(a)
      PROVE  /\ Settles(x) /\ tree'[x] = tree[x]
             /\ row'[x].state = "RELEASED" => row[x].state = "RELEASED" \/ tree[x] = Gone
  <2> DEFINE moved == {t \in Pinned(a) : HeadMoved(a, t)}
  <2>1. tree' = tree /\ (UNCHANGED row \/ (row' = Become("QUARANTINED", moved)
                                           /\ \A t \in moved : IsReadyAt(t, executor[a].seen[t])))
    BY <1>4 DEF CancelExecution
  <2> HIDE DEF moved
  <2> QED
    BY <1>1, <1>2, <2>1 DEF IsReadyAt
<1>5. ASSUME NEW a \in Attempts, TerminateInterruptedAttempt(a)
      PROVE  /\ Settles(x) /\ tree'[x] = tree[x]
             /\ row'[x].state = "RELEASED" => row[x].state = "RELEASED" \/ tree[x] = Gone
  <2>1. tree' = tree /\ (UNCHANGED row \/ \E t \in Held(a) : /\ row[t].rev # 0 => row[t].state = "READY"
                                                             /\ row' = Become("QUARANTINED", IF row[t].rev = 0 THEN {} ELSE {t}))
    BY <1>5 DEF TerminateInterruptedAttempt
  <2>2. ASSUME NEW t \in Held(a), row[t].rev # 0 => row[t].state = "READY",
               row' = Become("QUARANTINED", IF row[t].rev = 0 THEN {} ELSE {t})
        PROVE  /\ Settles(x)
               /\ row'[x].state = "RELEASED" => row[x].state = "RELEASED" \/ tree[x] = Gone
    <3> DEFINE T == IF row[t].rev = 0 THEN {} ELSE {t}
    <3>1. row' = Become("QUARANTINED", T) /\ \A y \in T : row[y].state = "READY"
      BY <2>2
    <3> HIDE DEF T
    <3> QED
      BY <1>2, <3>1
  <2> QED
    BY <1>1, <2>1, <2>2
<1>6. ASSUME NEW a \in Attempts, QuarantineInterrupted(a)
      PROVE  /\ Settles(x) /\ tree'[x] = tree[x]
             /\ row'[x].state = "RELEASED" => row[x].state = "RELEASED" \/ tree[x] = Gone
  <2> DEFINE t == recovery[a].at
  <2>1. PICK dies \in BOOLEAN :
          row' = Become("QUARANTINED",
                        IF dies \/ row[t].rev = 0 \/ ~IsReadyAt(t, recovery[a].version) THEN {} ELSE {t})
    BY <1>6 DEF QuarantineInterrupted
  <2> DEFINE T == IF dies \/ row[t].rev = 0 \/ ~IsReadyAt(t, recovery[a].version) THEN {} ELSE {t}
  <2>2. \A y \in T : row[y].state = "READY"
    BY DEF IsReadyAt
  <2>3. row' = Become("QUARANTINED", T) /\ tree' = tree
    BY <1>6, <2>1 DEF QuarantineInterrupted
  <2> HIDE DEF T
  <2> QED
    BY <1>2, <2>2, <2>3
<1>7. ASSUME NEW r \in Repos, ReconcileWorkspace(r)
      PROVE  /\ Settles(x) /\ tree'[x] = tree[x]
             /\ row'[x].state = "RELEASED" => row[x].state = "RELEASED" \/ tree[x] = Gone
  <2>1. row' = Become("QUARANTINED", {Newest(r)}) /\ row[Newest(r)].state = "READY" /\ tree' = tree
    BY <1>7 DEF ReconcileWorkspace
  <2> QED
    BY <1>2, <2>1
<1>8. ASSUME NEW t \in Worktrees, AdvanceRevision(t)
      PROVE  /\ Settles(x) /\ (tree'[x] = tree[x] \/ (row[x].state # "ABSENT" /\ tree[x] # Gone /\ tree'[x] # Gone))
             /\ row'[x].state = "RELEASED" => row[x].state = "RELEASED" \/ tree[x] = Gone
  <2>1. row[t].state = "READY" /\ tree[t] # Gone /\ Clean # Gone
    BY <1>a, <1>8 DEF AdvanceRevision
  <2>2. row'[t].state = "READY" /\ (x # t => row'[x] = row[x])
    <3>1. row[t] \in RowRecords
      BY <1>0 DEF Typed
    <3>2. row'[t] = [row[t] EXCEPT !.rev = row[t].rev + 1, !.version = row[t].version + 1]
          /\ (x # t => row'[x] = row[x])
      BY <1>0, <1>8 DEF AdvanceRevision, Typed
    <3> QED
      BY <2>1, <3>1, <3>2 DEF RowRecords
  <2>3. tree'[t] = Clean /\ (x # t => tree'[x] = tree[x])
    BY <1>0, <1>8 DEF AdvanceRevision, Typed
  <2> QED
    BY <2>1, <2>2, <2>3 DEF Settles
<1>9. ASSUME NEW c \in Claims, RemoveWorktree(c)
      PROVE  /\ Settles(x) /\ (tree'[x] = tree[x] \/ (row[x].state # "ABSENT" /\ tree'[x] = Gone))
             /\ row'[x].state = "RELEASED" => row[x].state = "RELEASED" \/ tree[x] = Gone
  <2>1. releaser[c].at \in Existing /\ row' = row /\ tree' = [tree EXCEPT ![releaser[c].at] = Gone]
    BY <1>0, <1>9, AtExists DEF RemoveWorktree
  <2> QED
    BY <1>0, <2>1 DEF Settles, Existing, Typed
<1>10. ASSUME NEW c \in Claims, ReleaseRepositoryWorkspace(c)
      PROVE  /\ Settles(x) /\ tree'[x] = tree[x]
             /\ row'[x].state = "RELEASED" => row[x].state = "RELEASED" \/ tree[x] = Gone
  <2>1. /\ row' = Become("RELEASED", {releaser[c].at}) /\ tree' = tree
        /\ row[releaser[c].at].state = "READY" /\ tree[releaser[c].at] = Gone
    BY <1>0, <1>10 DEF ReleaseRepositoryWorkspace, IsReadyAt, ReleaseCoversTheSet, AtEntries
  <2> QED
    BY <1>0, <2>1, BecomeTyped DEF Settles, RowStates
<1>11. ASSUME NEW c \in Claims, ReleaserStep(c), ~RemoveWorktree(c), ~ReleaseRepositoryWorkspace(c)
       PROVE  UNCHANGED <<row, tree>>
  BY <1>11 DEF ReleaserStep, ClaimRelease, BeginRelease, FinishRelease, CompleteRelease, ReleaserStops,
               LoadRepositoryWorkspace
<1>12. ASSUME NEW a \in Attempts, AttemptStep(a), ~CancelExecution(a), ~TerminateInterruptedAttempt(a),
              ~QuarantineInterrupted(a), \A t \in Worktrees : ~Edit(a, t)
       PROVE  UNCHANGED <<row, tree>>
  BY <1>12 DEF AttemptStep, StartRun, Retry, Admit, AcquireWriteLeases, FinalizeExecutionAttempt,
               ReleaseWriteLeases, CancelRun, LoseJobLease, ExecutorDies
<1>13. ASSUME (\E t \in Worktrees : LeaseExpires(t)) \/ RequestWorkspaceSetRelease \/ LoseRelease \/ UNCHANGED vars
       PROVE  UNCHANGED <<row, tree>>
  BY <1>13 DEF LeaseExpires, RequestWorkspaceSetRelease, LoseRelease, vars
<1>14. ASSUME NEW a \in Attempts, AttemptStep(a)
       PROVE  /\ Settles(x)
              /\ \/ tree'[x] = tree[x]
                 \/ row[x].state # "ABSENT" /\ tree[x] # Gone /\ tree'[x] # Gone
              /\ row'[x].state = "RELEASED" => row[x].state = "RELEASED" \/ tree[x] = Gone
  BY <1>1, <1>3, <1>4, <1>5, <1>6, <1>12, <1>14
<1>15. ASSUME NEW c \in Claims, ReleaserStep(c)
       PROVE  /\ Settles(x) /\ (\/ tree'[x] = tree[x]
                                \/ row[x].state # "ABSENT" /\ tree'[x] = Gone /\ \E d \in Claims : RemoveWorktree(d))
              /\ row'[x].state = "RELEASED" => row[x].state = "RELEASED" \/ tree[x] = Gone
  BY <1>1, <1>9, <1>10, <1>11, <1>15
<1> QED
  BY <1>1, <1>7, <1>8, <1>13, <1>14, <1>15 DEF Next

(* A reconciliation makes one more worktree, in place of a quarantined one. *)
LEMMA RecreationMoves ==
  ASSUME IInv, NEW r \in Repos, ReconcileWorkspace(r), row[Newest(r)].state = "QUARANTINED"
  PROVE  \E n \in 1..MaxGeneration :
           /\ n + 1 \in 1..MaxGeneration /\ UpTo(r, n) /\ <<r, n>> \in Worktrees /\ <<r, n + 1>> \in Worktrees
           /\ row[<<r, n>>].state = "QUARANTINED" /\ row[<<r, n + 1>>].state = "ABSENT"
           /\ row'[<<r, n + 1>>].state = "READY"
           /\ \A t \in Worktrees : t # <<r, n + 1>> => row'[t] = row[t]
           /\ tree' = tree /\ UNCHANGED <<set, lease, attempt, executor, release, releaser>>
<1>0. Typed /\ GenerationsInOrder
  BY DEF IInv
<1>1. PICK n \in 1..MaxGeneration : UpTo(r, n) /\ Newest(r) = <<r, n>> /\ <<r, n>> \in Worktrees
  BY <1>0, NewestIsLast DEF ReconcileWorkspace
<1>2. Newest(r)[2] = n
  BY <1>1
<1>3. <<r, n + 1>> \in Worktrees /\ row' = [row EXCEPT ![<<r, n + 1>>] = Row("READY")]
  BY <1>2 DEF ReconcileWorkspace
<1>4. n + 1 \in 1..MaxGeneration
  BY <1>3 DEF Worktrees
<1>5. row[<<r, n + 1>>].state = "ABSENT"
  BY <1>1, <1>4 DEF UpTo
<1>6. row'[<<r, n + 1>>].state = "READY" /\ \A t \in Worktrees : t # <<r, n + 1>> => row'[t] = row[t]
  BY <1>0, <1>3 DEF Typed, Row
<1>7. tree' = tree /\ UNCHANGED <<set, lease, attempt, executor, release, releaser>>
  BY DEF ReconcileWorkspace, attemptVars, releaseVars
<1> QED
  BY <1>1, <1>3, <1>4, <1>5, <1>6, <1>7

(* Attempts are pinned to what exists. *)
LEMMA PinsExist ==
  ASSUME IInv, [Next]_vars
  PROVE  \A a \in Attempts : DOMAIN attempt'[a].pin \subseteq Existing
<1>0. Typed /\ GenerationsInOrder /\ \A a \in Attempts : DOMAIN attempt[a].pin \subseteq Existing
  BY DEF IInv, GenerationsInOrder, Pinned
<1>1. ASSUME UNCHANGED attempt PROVE \A a \in Attempts : DOMAIN attempt'[a].pin \subseteq Existing
  BY <1>0, <1>1
<1>2. ASSUME NEW a \in Attempts, NEW s \in AttemptStates, attempt' = [attempt EXCEPT ![a].state = s]
      PROVE  \A b \in Attempts : DOMAIN attempt'[b].pin \subseteq Existing
  BY <1>0, <1>2, AttemptMoves
<1>3. ASSUME NEW a \in Attempts, StartRun(a) PROVE \A b \in Attempts : DOMAIN attempt'[b].pin \subseteq Existing
  <2>1. PICK W \in SUBSET Family \ {{}} :
          LET starts == {Start(r) : r \in W}
              pin == [t \in {s.at : s \in starts} |-> (CHOOSE s \in starts : s.at = t).rev]
          IN  attempt' = [attempt EXCEPT ![a] = [state |-> "QUEUED", run |-> a, pin |-> pin]]
    BY <1>3 DEF StartRun
  <2> DEFINE starts == {Start(r) : r \in W}
             pin == [t \in {s.at : s \in starts} |-> (CHOOSE s \in starts : s.at = t).rev]
  <2>2. DOMAIN pin \subseteq Existing
    BY <1>0, StartRunPins
  <2> HIDE DEF pin
  <2>3. attempt' = [attempt EXCEPT ![a] = [state |-> "QUEUED", run |-> a, pin |-> pin]]
    BY <2>1 DEF pin
  <2>4. attempt'[a].pin = pin /\ \A b \in Attempts : b # a => attempt'[b] = attempt[b]
    BY <1>0, <2>3 DEF Typed
  <2> QED
    BY <1>0, <2>2, <2>4
<1>4. ASSUME NEW a \in Attempts, NEW b \in Attempts, Retry(a, b)
      PROVE  \A x \in Attempts : DOMAIN attempt'[x].pin \subseteq Existing
  <2>1. attempt[b] \in AttemptRecords
    BY <1>0 DEF Typed
  <2>2. attempt'[a] = [attempt[b] EXCEPT !.state = "QUEUED"] /\ \A x \in Attempts : x # a => attempt'[x] = attempt[x]
    BY <1>0, <1>4 DEF Retry, Typed
  <2>3. attempt'[a].pin = attempt[b].pin
    BY <2>1, <2>2 DEF AttemptRecords
  <2> QED
    BY <1>0, <2>2, <2>3
<1>5. ASSUME NEW a \in Attempts, AttemptStep(a), ~StartRun(a), \A b \in Attempts : ~Retry(a, b)
      PROVE  UNCHANGED attempt \/ \E s \in AttemptStates : attempt' = [attempt EXCEPT ![a].state = s]
  <2>1. ASSUME Admit(a) \/ FinalizeExecutionAttempt(a) \/ CancelExecution(a) \/ TerminateInterruptedAttempt(a)
        PROVE  UNCHANGED attempt \/ \E s \in AttemptStates : attempt' = [attempt EXCEPT ![a].state = s]
    BY <2>1 DEF Admit, FinalizeExecutionAttempt, CancelExecution, TerminateInterruptedAttempt, AttemptStates
  <2>2. ASSUME AcquireWriteLeases(a)
        PROVE  UNCHANGED attempt \/ \E s \in AttemptStates : attempt' = [attempt EXCEPT ![a].state = s]
    BY <2>2 DEF AcquireWriteLeases, AttemptStates
  <2>3. ASSUME \/ ReleaseWriteLeases(a) \/ CancelRun(a) \/ LoseJobLease(a) \/ ExecutorDies(a)
               \/ QuarantineInterrupted(a) \/ \E t \in Worktrees : Edit(a, t)
        PROVE  UNCHANGED attempt
    BY <2>3 DEF ReleaseWriteLeases, CancelRun, LoseJobLease, ExecutorDies, QuarantineInterrupted, Edit, attemptVars
  <2> QED
    BY <1>5, <2>1, <2>2, <2>3 DEF AttemptStep
<1>6. ASSUME NEW a \in Attempts, AttemptStep(a) PROVE \A b \in Attempts : DOMAIN attempt'[b].pin \subseteq Existing
  BY <1>1, <1>2, <1>3, <1>4, <1>5, <1>6
<1>7. ASSUME NEW c \in Claims, ReleaserStep(c) PROVE UNCHANGED attempt
  BY <1>7 DEF ReleaserStep, ClaimRelease, BeginRelease, RemoveWorktree, ReleaseRepositoryWorkspace,
              FinishRelease, CompleteRelease, ReleaserStops, LoadRepositoryWorkspace, attemptVars
<1>8. ASSUME \/ \E t \in Worktrees : LeaseExpires(t) \/ AdvanceRevision(t)
             \/ \E r \in Repos : ReconcileWorkspace(r)
             \/ RequestWorkspaceSetRelease \/ LoseRelease \/ UNCHANGED vars
      PROVE  UNCHANGED attempt
  BY <1>8 DEF LeaseExpires, AdvanceRevision, ReconcileWorkspace, RequestWorkspaceSetRelease, LoseRelease,
              vars, attemptVars
<1> QED
  BY <1>1, <1>6, <1>7, <1>8 DEF Next

LEMMA GenerationsStep == IInv /\ [Next]_vars => GenerationsInOrder'
<1> SUFFICES ASSUME IInv, [Next]_vars PROVE GenerationsInOrder'
  OBVIOUS
<1>0. Typed /\ GenerationsInOrder
  BY DEF IInv
<1>1. CASE ~ \E r \in Repos : ReconcileWorkspace(r) /\ row[Newest(r)].state = "QUARANTINED"
  <2>1. \A t \in Worktrees :
          /\ Settles(t)
          /\ row'[t].state = "RELEASED" => tree'[t] = Gone
          /\ row[t].state = "ABSENT" => tree'[t] = tree[t]
    BY <1>0, <1>1, WorktreesMove DEF GenerationsInOrder
  <2> QED
    BY <1>0, <2>1, PinsExist, GenerationsKept
<1>2. ASSUME NEW r \in Repos, ReconcileWorkspace(r), row[Newest(r)].state = "QUARANTINED" PROVE GenerationsInOrder'
  <2>1. PICK n \in 1..MaxGeneration :
           /\ n + 1 \in 1..MaxGeneration /\ UpTo(r, n) /\ <<r, n>> \in Worktrees /\ <<r, n + 1>> \in Worktrees
           /\ row[<<r, n>>].state = "QUARANTINED" /\ row[<<r, n + 1>>].state = "ABSENT"
           /\ row'[<<r, n + 1>>].state = "READY"
           /\ \A t \in Worktrees : t # <<r, n + 1>> => row'[t] = row[t]
           /\ tree' = tree /\ UNCHANGED <<set, lease, attempt, executor, release, releaser>>
    BY <1>2, RecreationMoves
  <2>2. MaxGeneration \in Nat /\ n \in Nat
    BY SetAssumption
  <2>3. \A q \in Repos, g \in 1..MaxGeneration : <<q, g>> \in Worktrees
    BY DEF Worktrees
  <2>4. \A q \in Repos, g \in 1..MaxGeneration : ~(q = r /\ g = n + 1) => row'[<<q, g>>] = row[<<q, g>>]
    BY <2>1, <2>3
  <2>5. UpTo(r, n + 1)'
    BY <2>1, <2>2, <2>4 DEF UpTo
  <2>6. ASSUME NEW q \in Repos PROVE \E m \in 0..MaxGeneration : UpTo(q, m)'
    <3>1. CASE q = r
      <4>1. n + 1 \in 0..MaxGeneration
        BY <2>1, <2>2
      <4> QED
        BY <2>5, <3>1, <4>1
    <3>2. CASE q # r
      <4>1. PICK m \in 0..MaxGeneration : UpTo(q, m)
        BY <1>0 DEF GenerationsInOrder
      <4>2. UpTo(q, m)'
        BY <2>4, <3>2, <4>1 DEF UpTo
      <4> QED
        BY <4>2
    <3> QED
      BY <3>1, <3>2
  <2>7. ASSUME NEW q \in Repos, NEW g \in 1..MaxGeneration, NEW h \in 1..MaxGeneration,
               row'[<<q, g>>].state = "READY", g < h
        PROVE  row'[<<q, h>>].state = "ABSENT"
    <3>1. CASE q # r
      BY <1>0, <2>4, <2>7, <3>1 DEF GenerationsInOrder
    <3>2. CASE q = r
      <4>1. ~(h <= n + 1)
        <5>1. CASE g = n + 1
          BY <2>2, <2>7, <5>1
        <5>2. CASE g # n + 1
          <6>1. row[<<r, g>>].state = "READY"
            BY <2>4, <2>7, <3>2, <5>2
          <6>2. g <= n
            BY <2>1, <6>1 DEF UpTo
          <6>3. g # n
            BY <2>1, <6>1
          <6>4. row[<<r, n>>].state = "ABSENT"
            BY <1>0, <2>2, <6>1, <6>2, <6>3 DEF GenerationsInOrder
          <6> QED
            BY <2>1, <6>4
        <5> QED
          BY <5>1, <5>2
      <4> QED
        BY <2>5, <3>2, <4>1 DEF UpTo
    <3> QED
      BY <3>1, <3>2
  <2>8. \A t \in Worktrees : /\ row'[t].state = "ABSENT" => tree'[t] = Clean
                             /\ row'[t].state = "RELEASED" => tree'[t] = Gone
    BY <1>0, <2>1 DEF GenerationsInOrder
  <2>9. \A a \in Attempts : Pinned(a)' \subseteq Existing'
    <3>1. Existing \subseteq Existing'
      BY <2>1 DEF Existing
    <3> QED
      BY <3>1, PinsExist DEF Pinned
  <2> QED
    BY <2>6, <2>7, <2>8, <2>9 DEF GenerationsInOrder
<1> QED
  BY <1>1, <1>2

-----------------------------------------------------------------------------
(* What a release covers, and what it leaves behind. *)

(* Rows that settle, and worktrees that are neither removed nor brought back,   *)
(* change nothing for a release that stands still.                              *)
LEMMA ReleaseStandsStill ==
  ASSUME ReleaseCoversTheSet,
         UNCHANGED <<set, release, releaser>>,
         \A t \in Worktrees : Settles(t) /\ (tree'[t] = Gone <=> tree[t] = Gone)
  PROVE  ReleaseCoversTheSet'
<1>1. Existing' = Existing /\ Existing \subseteq Worktrees
  BY SettlingKeepsExisting DEF Existing
<1>2. \A t \in Worktrees : /\ row[t].state = "QUARANTINED" => row'[t].state = "QUARANTINED"
                           /\ row[t].state = "RELEASED" => row'[t].state = "RELEASED"
                           /\ row'[t].state = "READY" => row[t].state = "READY"
  BY DEF Settles
<1>3. ASSUME NEW c \in Claims, AtEntries(c)'
      PROVE  /\ set'.state # "READY"
             /\ releaser'[c].todo \subseteq release'.entries
             /\ \A t \in release'.entries \ releaser'[c].todo : row'[t].state = "RELEASED"
             /\ releaser'[c].pc # "entries" => releaser'[c].at \in releaser'[c].todo
             /\ releaser'[c].pc = "row" => tree'[releaser'[c].at] = Gone
  <2>1. AtEntries(c)
    BY <1>3 DEF AtEntries
  <2> QED
    BY <1>1, <1>2, <2>1 DEF ReleaseCoversTheSet
<1> QED
  BY <1>1, <1>2, <1>3 DEF ReleaseCoversTheSet

(* Rows and worktrees that stay, and handlers that stay: the request is new, or *)
(* its claim.                                                                   *)
LEMMA EntriesAgree ==
  ASSUME ReleaseCoversTheSet, release.key > 0, \A t \in Existing : row[t].state # "QUARANTINED"
  PROVE  release.entries = Existing
BY DEF ReleaseCoversTheSet

LEMMA ReleaseStep == IInv /\ [Next]_vars => ReleaseCoversTheSet'
<1> SUFFICES ASSUME IInv, [Next]_vars PROVE ReleaseCoversTheSet'
  OBVIOUS
<1>0. Typed /\ GenerationsInOrder /\ ReleaseCoversTheSet
  BY DEF IInv
<1>a. /\ release.entries \subseteq Existing /\ Existing \subseteq Worktrees
      /\ release.key > 0 =>
           \/ Existing \subseteq release.entries
           \/ \E t \in release.entries : row[t].state = "QUARANTINED"
      /\ release.key = 0 =>
       ~release.active /\ release.holder = 0 /\ \A c \in Claims : releaser[c].pc = "off"
      /\ set.state = "RELEASED" => \A t \in Existing : row[t].state = "RELEASED"
      /\ \A t \in Worktrees : row[t].state = "READY" /\ tree[t] = Gone => set.state = "RELEASING"
      /\ release.key \in Nat
  BY <1>0 DEF ReleaseCoversTheSet, Existing, Typed, ReleaseRecords
<1>b. \A c \in Claims : AtEntries(c) =>
       /\ set.state # "READY"
       /\ releaser[c].todo \subseteq release.entries
       /\ \A t \in release.entries \ releaser[c].todo : row[t].state = "RELEASED"
       /\ releaser[c].pc # "entries" => releaser[c].at \in releaser[c].todo
       /\ releaser[c].pc = "row" => tree[releaser[c].at] = Gone
  BY <1>0 DEF ReleaseCoversTheSet
(* A step that changes neither rows nor worktrees, seen handler by handler.     *)
<1>c. ASSUME UNCHANGED <<row, tree>>, release'.entries = release.entries, release'.key = release.key,
             release.key = 0 => ~release'.active /\ release'.holder = 0,
             NEW c \in Claims, \A d \in Claims : d # c => releaser'[d] = releaser[d],
             releaser'[c].pc # "off" => release.key > 0,
             set'.state = set.state \/ (set.state = "READY" /\ set'.state = "RELEASING"),
             AtEntries(c)' =>
               /\ set'.state # "READY"
               /\ releaser'[c].todo \subseteq release.entries
               /\ \A t \in release.entries \ releaser'[c].todo : row[t].state = "RELEASED"
               /\ releaser'[c].pc # "entries" => releaser'[c].at \in releaser'[c].todo
               /\ releaser'[c].pc = "row" => tree[releaser'[c].at] = Gone
      PROVE  ReleaseCoversTheSet'
  <2>1. Existing' = Existing
    BY <1>c DEF Existing
  <2>2. ASSUME NEW d \in Claims, AtEntries(d)'
        PROVE  /\ set'.state # "READY"
               /\ releaser'[d].todo \subseteq release'.entries
               /\ \A t \in release'.entries \ releaser'[d].todo : row'[t].state = "RELEASED"
               /\ releaser'[d].pc # "entries" => releaser'[d].at \in releaser'[d].todo
               /\ releaser'[d].pc = "row" => tree'[releaser'[d].at] = Gone
    <3>1. CASE d = c
      BY <1>c, <2>2, <3>1
    <3>2. CASE d # c
      <4>1. releaser'[d] = releaser[d] /\ AtEntries(d)
        BY <1>c, <2>2, <3>2 DEF AtEntries
      <4> QED
        BY <1>b, <1>c, <4>1
    <3> QED
      BY <3>1, <3>2
  <2>3. release'.key = 0 =>
         ~release'.active /\ release'.holder = 0 /\ \A d \in Claims : releaser'[d].pc = "off"
    BY <1>a, <1>c
  <2> QED
    BY <1>a, <1>c, <2>1, <2>2, <2>3 DEF ReleaseCoversTheSet
<1>1. ASSUME UNCHANGED <<set, release, releaser>>, \A c \in Claims : ~RemoveWorktree(c),
             ~ \E r \in Repos : ReconcileWorkspace(r) /\ row[Newest(r)].state = "QUARANTINED"
      PROVE  ReleaseCoversTheSet'
  <2>1. \A t \in Worktrees : Settles(t) /\ (tree'[t] = Gone <=> tree[t] = Gone)
    BY <1>1, WorktreesMove
  <2> QED
    BY <1>0, <1>1, <2>1, ReleaseStandsStill
<1>2. ASSUME NEW r \in Repos, ReconcileWorkspace(r), row[Newest(r)].state = "QUARANTINED" PROVE ReleaseCoversTheSet'
  <2>1. PICK n \in 1..MaxGeneration :
           /\ n + 1 \in 1..MaxGeneration /\ UpTo(r, n) /\ <<r, n>> \in Worktrees /\ <<r, n + 1>> \in Worktrees
           /\ row[<<r, n>>].state = "QUARANTINED" /\ row[<<r, n + 1>>].state = "ABSENT"
           /\ row'[<<r, n + 1>>].state = "READY"
           /\ \A t \in Worktrees : t # <<r, n + 1>> => row'[t] = row[t]
           /\ tree' = tree /\ UNCHANGED <<set, lease, attempt, executor, release, releaser>>
    BY <1>2, RecreationMoves
  <2> DEFINE old == <<r, n>>
             new == <<r, n + 1>>
  <2>2. /\ old \in Existing /\ row[old].state = "QUARANTINED" /\ new \notin Existing /\ new \in Worktrees
        /\ row'[new].state = "READY" /\ \A t \in Worktrees : t # new => row'[t] = row[t]
    BY <2>1 DEF Existing
  <2> HIDE DEF old, new
  <2>3. \A t \in Existing : row'[t] = row[t] /\ t \in Existing'
    BY <2>2 DEF Existing
  <2>4. release.key > 0 => \E t \in release.entries : row'[t].state = "QUARANTINED"
    <3>1. CASE Existing \subseteq release.entries
      BY <2>2, <2>3, <3>1
    <3>2. CASE \E t \in release.entries : row[t].state = "QUARANTINED"
      BY <1>a, <2>3, <3>2
    <3> QED
      BY <1>a, <3>1, <3>2
  <2>5. set.state # "RELEASED"
    BY <1>a, <2>2
  <2>6. ASSUME NEW t \in Worktrees, row'[t].state = "READY", tree'[t] = Gone PROVE set'.state = "RELEASING"
    <3>1. tree[new] = Clean /\ Clean # Gone
      BY <1>0, <2>2 DEF GenerationsInOrder, Existing, Clean, Gone
    <3> QED
      BY <1>a, <2>1, <2>2, <2>6, <3>1
  <2>7. ASSUME NEW c \in Claims, AtEntries(c)'
        PROVE  /\ set'.state # "READY"
               /\ releaser'[c].todo \subseteq release'.entries
               /\ \A t \in release'.entries \ releaser'[c].todo : row'[t].state = "RELEASED"
               /\ releaser'[c].pc # "entries" => releaser'[c].at \in releaser'[c].todo
               /\ releaser'[c].pc = "row" => tree'[releaser'[c].at] = Gone
    <3>1. AtEntries(c)
      BY <2>1, <2>7 DEF AtEntries
    <3> QED
      BY <1>a, <1>b, <2>1, <2>3, <3>1
  <2> QED
    BY <1>a, <2>1, <2>3, <2>4, <2>5, <2>6, <2>7 DEF ReleaseCoversTheSet
<1>3. ASSUME NEW c \in Claims, RemoveWorktree(c) PROVE ReleaseCoversTheSet'
  <2> DEFINE at == releaser[c].at
  <2>1. at \in Existing /\ at \in releaser[c].todo /\ AtEntries(c)
    BY <1>0, <1>3, AtExists DEF RemoveWorktree, AtEntries
  <2>2. UNCHANGED <<set, row, release>>
    BY <1>3 DEF RemoveWorktree
  <2>3. tree'[at] = Gone /\ \A t \in Worktrees : t # at => tree'[t] = tree[t]
    BY <1>0, <1>3, <2>1 DEF RemoveWorktree, Typed, Existing
  <2>4. /\ releaser'[c].pc = "row" /\ releaser'[c].at = at /\ releaser'[c].todo = releaser[c].todo
        /\ \A d \in Claims : d # c => releaser'[d] = releaser[d]
    BY <1>0, <1>3 DEF RemoveWorktree, Typed, ReleaserRecords
  <2>5. Existing' = Existing
    BY <2>2 DEF Existing
  <2> HIDE DEF at
  <2>6. ASSUME NEW t \in Worktrees, row'[t].state = "READY", tree'[t] = Gone PROVE set'.state = "RELEASING"
    <3>1. CASE t = at
      <4>1. set.state # "READY" /\ set.state # "RELEASED"
        BY <1>a, <1>b, <2>1, <2>2, <2>6, <3>1
      <4>2. set.state \in {"READY", "RELEASING", "RELEASED"}
        BY <1>0 DEF Typed, SetRecords
      <4> QED
        BY <2>2, <4>1, <4>2
    <3>2. CASE t # at
      BY <1>a, <2>2, <2>3, <2>6, <3>2
    <3> QED
      BY <3>1, <3>2
  <2>7. ASSUME NEW d \in Claims, AtEntries(d)'
        PROVE  /\ set'.state # "READY"
               /\ releaser'[d].todo \subseteq release'.entries
               /\ \A t \in release'.entries \ releaser'[d].todo : row'[t].state = "RELEASED"
               /\ releaser'[d].pc # "entries" => releaser'[d].at \in releaser'[d].todo
               /\ releaser'[d].pc = "row" => tree'[releaser'[d].at] = Gone
    <3>1. CASE d = c
      BY <1>b, <2>1, <2>2, <2>3, <2>4, <3>1
    <3>2. CASE d # c
      <4>1. releaser'[d] = releaser[d] /\ AtEntries(d)
        BY <2>4, <2>7, <3>2 DEF AtEntries
      <4>2. releaser[d].pc = "row" => releaser[d].at \in Worktrees
        BY <1>a, <1>b, <4>1
      <4> QED
        BY <1>b, <2>2, <2>3, <4>1, <4>2
    <3> QED
      BY <3>1, <3>2
  <2>8. release.key > 0
    BY <1>a, <2>1 DEF AtEntries
  <2> QED
    BY <1>a, <2>2, <2>5, <2>6, <2>7, <2>8 DEF ReleaseCoversTheSet
<1>4. ASSUME NEW c \in Claims, ReleaseRepositoryWorkspace(c) PROVE ReleaseCoversTheSet'
  <2> DEFINE at == releaser[c].at
  <2>1. at \in Existing /\ at \in releaser[c].todo /\ AtEntries(c) /\ row[at].state = "READY"
    BY <1>0, <1>4, AtExists DEF ReleaseRepositoryWorkspace, AtEntries, IsReadyAt
  <2>2. UNCHANGED <<set, tree, release>>
    BY <1>4 DEF ReleaseRepositoryWorkspace
  <2>3. row'[at].state = "RELEASED" /\ \A t \in Worktrees : t # at => row'[t] = row[t]
    BY <1>0, <1>4, <1>a, <2>1, BecomeTyped DEF ReleaseRepositoryWorkspace, RowStates
  <2>4. /\ releaser'[c].pc = "entries" /\ releaser'[c].todo = releaser[c].todo \ {at}
        /\ \A d \in Claims : d # c => releaser'[d] = releaser[d]
    BY <1>0, <1>4 DEF ReleaseRepositoryWorkspace, Typed, ReleaserRecords
  <2> HIDE DEF at
  <2>5. Existing' = Existing
    BY <1>a, <2>1, <2>3 DEF Existing
  <2>6. \A t \in Worktrees : /\ row[t].state # "READY" => row'[t].state = row[t].state
                             /\ row'[t].state = "READY" => row[t].state = "READY"
    BY <2>1, <2>3
  <2>7. ASSUME NEW d \in Claims, AtEntries(d)'
        PROVE  /\ set'.state # "READY"
               /\ releaser'[d].todo \subseteq release'.entries
               /\ \A t \in release'.entries \ releaser'[d].todo : row'[t].state = "RELEASED"
               /\ releaser'[d].pc # "entries" => releaser'[d].at \in releaser'[d].todo
               /\ releaser'[d].pc = "row" => tree'[releaser'[d].at] = Gone
    <3>1. CASE d = c
      BY <1>a, <1>b, <2>1, <2>2, <2>3, <2>4, <2>6, <3>1
    <3>2. CASE d # c
      <4>1. releaser'[d] = releaser[d] /\ AtEntries(d)
        BY <2>4, <2>7, <3>2 DEF AtEntries
      <4> QED
        BY <1>a, <1>b, <2>2, <2>6, <4>1
    <3> QED
      BY <3>1, <3>2
  <2>8. release.key > 0
    BY <1>a, <2>1 DEF AtEntries
  <2> QED
    BY <1>a, <2>2, <2>5, <2>6, <2>7, <2>8 DEF ReleaseCoversTheSet
<1>5. ASSUME NEW c \in Claims, ClaimRelease(c) \/ CompleteRelease(c) \/ ReleaserStops(c) PROVE ReleaseCoversTheSet'
  <2>1. UNCHANGED <<set, row, tree>>
    BY <1>5 DEF ClaimRelease, CompleteRelease, ReleaserStops
  <2>2. /\ releaser'[c].pc \in {"begin", "off"} /\ (releaser'[c].pc = "begin" => release.active)
        /\ \A d \in Claims : d # c => releaser'[d] = releaser[d]
    BY <1>0, <1>5 DEF ClaimRelease, CompleteRelease, ReleaserStops, Typed, Off
  <2>3. release'.entries = release.entries /\ release'.key = release.key /\ (release'.active => release.active)
        /\ (release'.holder # 0 => release.holder # 0 \/ release.active)
    BY <1>0, <1>5 DEF ClaimRelease, CompleteRelease, ReleaserStops, Typed, ReleaseRecords
  <2>4. ~AtEntries(c)'
    BY <2>2 DEF AtEntries
  <2> QED
    BY <1>a, <1>c, <2>1, <2>2, <2>3, <2>4
<1>6. ASSUME NEW c \in Claims, BeginRelease(c) PROVE ReleaseCoversTheSet'
  <2>0. release.key > 0 /\ UNCHANGED <<row, tree, release>>
    BY <1>6, <1>a DEF BeginRelease
  <2>1. \/ set.state = "RELEASED" /\ releaser'[c].pc = "finished" /\ set' = set
        \/ /\ releaser'[c].pc = "entries" /\ releaser'[c].todo = release.entries /\ set'.state # "READY"
           /\ set'.state = set.state \/ (set.state = "READY" /\ set'.state = "RELEASING")
    <3>1. CASE set.state = "RELEASED"
      BY <1>0, <1>6, <3>1 DEF BeginRelease, Typed, Off
    <3>2. CASE set.state # "RELEASED"
      <4>1. releaser'[c] = [Off EXCEPT !.pc = "entries", !.todo = release.entries]
        BY <1>0, <1>6, <3>2 DEF BeginRelease, Typed
      <4>2. releaser'[c].pc = "entries" /\ releaser'[c].todo = release.entries
        BY <4>1 DEF Off
      <4>3. set' = IF set.state = "READY" THEN [state |-> "RELEASING", version |-> set.version + 1] ELSE set
        BY <1>6, <3>2 DEF BeginRelease
      <4> QED
        BY <4>2, <4>3
    <3> QED
      BY <3>1, <3>2
  <2>2. \A d \in Claims : d # c => releaser'[d] = releaser[d]
    BY <1>0, <1>6 DEF BeginRelease, Typed
  <2> QED
    BY <1>a, <1>c, <2>0, <2>1, <2>2 DEF AtEntries
<1>7. ASSUME NEW c \in Claims, NEW t \in Worktrees, LoadRepositoryWorkspace(c, t) PROVE ReleaseCoversTheSet'
  <2>0. release.key > 0 /\ UNCHANGED <<set, row, tree, release>> /\ AtEntries(c) /\ t \in releaser[c].todo
    BY <1>7, <1>a DEF LoadRepositoryWorkspace, AtEntries
  <2>1. \A d \in Claims : d # c => releaser'[d] = releaser[d]
    BY <1>0, <1>7 DEF LoadRepositoryWorkspace, Typed
  <2>2. releaser[c] \in ReleaserRecords
    BY <1>0 DEF Typed
  <2>3. CASE row[t].state = "READY"
    <3>1. releaser'[c] = [releaser[c] EXCEPT !.pc = "remove", !.at = t, !.version = row[t].version]
      BY <1>0, <1>7, <2>3 DEF LoadRepositoryWorkspace, Typed
    <3>2. releaser'[c].pc = "remove" /\ releaser'[c].at = t /\ releaser'[c].todo = releaser[c].todo
      BY <2>2, <3>1 DEF ReleaserRecords
    <3> QED
      BY <1>a, <1>b, <1>c, <2>0, <2>1, <3>2
  <2>4. CASE row[t].state = "RELEASED"
    <3>1. releaser'[c] = [releaser[c] EXCEPT !.todo = releaser[c].todo \ {t}]
      BY <1>0, <1>7, <2>4 DEF LoadRepositoryWorkspace, Typed
    <3>2. releaser'[c].pc = "entries" /\ releaser'[c].todo = releaser[c].todo \ {t}
      BY <1>7, <2>2, <3>1 DEF ReleaserRecords, LoadRepositoryWorkspace
    <3> QED
      BY <1>a, <1>b, <1>c, <2>0, <2>1, <2>4, <3>2
  <2> QED
    BY <1>7, <2>3, <2>4 DEF LoadRepositoryWorkspace
<1>8. ASSUME NEW c \in Claims, FinishRelease(c) PROVE ReleaseCoversTheSet'
  <2>1. /\ AtEntries(c) /\ releaser[c].todo = {} /\ set'.state = "RELEASED" /\ UNCHANGED <<row, tree, release>>
        /\ releaser'[c].pc = "finished" /\ \A d \in Claims : d # c => releaser'[d] = releaser[d]
    BY <1>0, <1>8 DEF FinishRelease, AtEntries, Typed, ReleaserRecords
  <2>2. \A t \in release.entries : row[t].state = "RELEASED"
    BY <1>b, <2>1
  <2>3. release.key > 0
    BY <1>a, <2>1 DEF AtEntries
  <2>4. \A t \in Existing : row[t].state = "RELEASED"
    BY <1>a, <2>2, <2>3
  <2>5. Existing' = Existing
    BY <2>1 DEF Existing
  <2>6. \A t \in Worktrees : row[t].state # "READY"
    BY <2>4 DEF Existing
  <2>7. ASSUME NEW d \in Claims, AtEntries(d)' PROVE d # c /\ releaser'[d] = releaser[d] /\ AtEntries(d)
    BY <2>1, <2>7 DEF AtEntries
  <2> QED
    BY <1>a, <1>b, <2>1, <2>3, <2>4, <2>5, <2>6, <2>7 DEF ReleaseCoversTheSet
<1>9. CASE RequestWorkspaceSetRelease
  <2>1. /\ release'.entries = Existing /\ release'.key = set.version /\ set.version > 0
        /\ UNCHANGED <<set, row, tree, releaser>> /\ \A t \in Existing : row[t].state # "QUARANTINED"
    BY <1>0, <1>9 DEF RequestWorkspaceSetRelease, Typed, attemptVars
  <2>2. Existing' = Existing /\ release'.key # 0
    BY <1>0, <2>1 DEF Existing, Typed, SetRecords
  <2>3. ASSUME NEW c \in Claims, AtEntries(c)' PROVE AtEntries(c) /\ release'.entries = release.entries
    BY <1>0, <1>a, <2>1, <2>3, EntriesAgree DEF AtEntries
  <2> QED
    BY <1>a, <1>b, <2>1, <2>2, <2>3 DEF ReleaseCoversTheSet
<1>10. CASE LoseRelease
  <2>1. /\ release'.entries = release.entries /\ release'.key = release.key
        /\ UNCHANGED <<set, row, tree, releaser>>
    BY <1>0, <1>10 DEF LoseRelease, Typed, ReleaseRecords
  <2>2. release.key # 0
    BY <1>a, <1>10 DEF LoseRelease
  <2>3. Existing' = Existing
    BY <2>1 DEF Existing
  <2>4. \A c \in Claims : AtEntries(c)' <=> AtEntries(c)
    BY <2>1 DEF AtEntries
  <2> QED
    BY <1>a, <1>b, <2>1, <2>2, <2>3, <2>4 DEF ReleaseCoversTheSet
<1>11. ASSUME NEW a \in Attempts, AttemptStep(a) PROVE UNCHANGED <<set, release, releaser>>
  BY <1>11 DEF AttemptStep, StartRun, Retry, Admit, AcquireWriteLeases, FinalizeExecutionAttempt,
               ReleaseWriteLeases, CancelRun, CancelExecution, LoseJobLease, ExecutorDies,
               TerminateInterruptedAttempt, QuarantineInterrupted, Edit, releaseVars
<1>12. ASSUME \/ \E t \in Worktrees : LeaseExpires(t) \/ AdvanceRevision(t)
              \/ \E r \in Repos : ReconcileWorkspace(r)
              \/ UNCHANGED vars
       PROVE  UNCHANGED <<set, release, releaser>>
  BY <1>12 DEF LeaseExpires, AdvanceRevision, ReconcileWorkspace, vars, releaseVars
<1>13. ASSUME NEW c \in Claims, ReleaserStep(c) PROVE ReleaseCoversTheSet'
  BY <1>3, <1>4, <1>5, <1>6, <1>7, <1>8, <1>13 DEF ReleaserStep
<1> QED
  BY <1>1, <1>2, <1>3, <1>9, <1>10, <1>11, <1>12, <1>13 DEF Next

-----------------------------------------------------------------------------
(* Who is at work when a release is requested. *)

(* Who is at work with a RUNNING attempt was so before, or has just got its     *)
(* leases.                                                                      *)
LEMMA WorkersMove ==
  ASSUME IInv, [Next]_vars
  PROVE  \A a \in Attempts : executor'[a].pc = "working" /\ attempt'[a].state = "RUNNING" =>
           \/ /\ executor[a].pc = "working" /\ attempt[a].state = "RUNNING"
              /\ executor'[a].late = executor[a].late /\ attempt'[a].pin = attempt[a].pin
           \/ (executor'[a].late <=> release.key > 0) /\ release' = release
<1>0. Typed /\ GrantsFollowPins
  BY DEF IInv
<1> SUFFICES ASSUME NEW x \in Attempts, executor'[x].pc = "working", attempt'[x].state = "RUNNING"
             PROVE  \/ /\ executor[x].pc = "working" /\ attempt[x].state = "RUNNING"
                       /\ executor'[x].late = executor[x].late /\ attempt'[x].pin = attempt[x].pin
                    \/ (executor'[x].late <=> release.key > 0) /\ release' = release
  OBVIOUS
<1> DEFINE Same == /\ executor[x].pc = "working" /\ attempt[x].state = "RUNNING"
                   /\ executor'[x].late = executor[x].late /\ attempt'[x].pin = attempt[x].pin
<1>1. ASSUME UNCHANGED <<attempt, executor>> PROVE Same
  BY <1>1
<1>2. ASSUME NEW a \in Attempts, StartRun(a) \/ \E b \in Attempts : Retry(a, b) PROVE Same
  <2>1. executor' = executor /\ executor[a].pc # "working"
    BY <1>0, <1>2 DEF StartRun, Retry, GrantsFollowPins, Idle
  <2>2. \A b \in Attempts : b # a => attempt'[b] = attempt[b]
    BY <1>0, <1>2 DEF StartRun, Retry, Typed
  <2> QED
    BY <2>1, <2>2
<1>3. ASSUME NEW a \in Attempts, Admit(a) PROVE Same
  <2> DEFINE e == [Idle EXCEPT !.pc = "resolved", !.held = TRUE, !.seen = [t \in Pinned(a) |-> row[t].version]]
  <2>1. e.pc = "resolved" /\ Idle.pc = "off"
    BY <1>0, ResolvedTyped DEF Idle
  <2> HIDE DEF e
  <2>2. executor'[a] \in {Idle, e} /\ \A b \in Attempts : b # a => executor'[b] = executor[b]
    BY <1>0, <1>3 DEF Admit, Typed, e
  <2>3. \A b \in Attempts : b # a => attempt'[b] = attempt[b]
    BY <1>0, <1>3, AttemptMoves DEF Admit, AttemptStates
  <2> QED
    BY <2>1, <2>2, <2>3
<1>4. ASSUME NEW a \in Attempts, AcquireWriteLeases(a)
      PROVE  Same \/ ((executor'[x].late <=> release.key > 0) /\ release' = release)
  <2>1. CASE Grant(a, Pinned(a)) /\ UNCHANGED attempt
    <3>1. Pinned(a) \subseteq Worktrees
      BY <1>0, PinsAre DEF Typed, Pinned, AttemptRecords
    <3>2. (executor'[a].late <=> release.key > 0) /\ \A b \in Attempts : b # a => executor'[b] = executor[b]
      BY <1>0, <2>1, <3>1, GrantTyped
    <3> QED
      BY <1>4, <2>1, <3>2 DEF AcquireWriteLeases, releaseVars
  <2>2. CASE /\ executor' = [executor EXCEPT ![a] = Idle]
             /\ attempt' = IF executor[a].held THEN [attempt EXCEPT ![a].state = "FAILED"] ELSE attempt
    <3>1. executor'[a].pc = "off" /\ \A b \in Attempts : b # a => executor'[b] = executor[b]
      BY <1>0, <2>2 DEF Typed, Idle
    <3>2. \A b \in Attempts : b # a => attempt'[b] = attempt[b]
      BY <1>0, <2>2 DEF Typed
    <3> QED
      BY <3>1, <3>2
  <2> QED
    BY <1>4, <2>1, <2>2 DEF AcquireWriteLeases
<1>5. ASSUME NEW a \in Attempts, FinalizeExecutionAttempt(a) \/ CancelExecution(a) PROVE Same
  <2>1. \/ UNCHANGED attempt
        \/ \E s \in {"SUCCEEDED", "FAILED", "INDETERMINATE"} : attempt' = [attempt EXCEPT ![a].state = s]
    BY <1>5 DEF FinalizeExecutionAttempt, CancelExecution
  <2>2. \A b \in Attempts : b # a => attempt'[b] = attempt[b]
    BY <1>0, <2>1, AttemptMoves DEF AttemptStates
  <2>3. /\ executor'[a] \in {Idle, [executor[a] EXCEPT !.pc = "releasing", !.held = FALSE]}
        /\ \A b \in Attempts : b # a => executor'[b] = executor[b]
    BY <1>0, <1>5 DEF FinalizeExecutionAttempt, CancelExecution, Typed
  <2>4. executor'[a].pc # "working"
    <3>1. executor[a] \in ExecutorRecords
      BY <1>0 DEF Typed
    <3>2. CASE executor'[a] = Idle
      BY <3>2 DEF Idle
    <3>3. CASE executor'[a] = [executor[a] EXCEPT !.pc = "releasing", !.held = FALSE]
      BY <3>1, <3>3, ExecutorMoves
    <3> QED
      BY <2>3, <3>2, <3>3
  <2> QED
    BY <2>2, <2>3, <2>4
<1>6. ASSUME NEW a \in Attempts, ReleaseWriteLeases(a) \/ LoseJobLease(a) \/ ExecutorDies(a) PROVE Same
  <2>1. /\ executor'[a] \in {Idle, [executor[a] EXCEPT !.held = FALSE]} /\ attempt' = attempt
        /\ \A b \in Attempts : b # a => executor'[b] = executor[b]
    BY <1>0, <1>6 DEF ReleaseWriteLeases, LoseJobLease, ExecutorDies, Typed
  <2>2. executor[a] \in ExecutorRecords
    BY <1>0 DEF Typed
  <2>3. executor'[a].pc = "working" => executor[a].pc = "working" /\ executor'[a].late = executor[a].late
    <3>1. CASE executor'[a] = Idle
      BY <3>1 DEF Idle
    <3>2. CASE executor'[a] = [executor[a] EXCEPT !.held = FALSE]
      BY <2>2, <3>2, ExecutorMoves
    <3> QED
      BY <2>1, <3>1, <3>2
  <2> QED
    BY <2>1, <2>3
<1>7. ASSUME NEW a \in Attempts, TerminateInterruptedAttempt(a) PROVE Same
  <2>1. executor' = executor /\ \E s \in {"LOST", "INDETERMINATE"} : attempt' = [attempt EXCEPT ![a].state = s]
    BY <1>7 DEF TerminateInterruptedAttempt
  <2>2. attempt'[a].state # "RUNNING" /\ \A b \in Attempts : b # a => attempt'[b] = attempt[b]
    BY <1>0, <2>1, AttemptMoves DEF AttemptStates
  <2> QED
    BY <2>1, <2>2
<1>8. ASSUME NEW a \in Attempts, CancelRun(a) \/ QuarantineInterrupted(a) \/ \E t \in Worktrees : Edit(a, t)
      PROVE  UNCHANGED <<attempt, executor>>
  BY <1>8 DEF CancelRun, QuarantineInterrupted, Edit, attemptVars
<1>9. ASSUME NEW c \in Claims, ReleaserStep(c) PROVE UNCHANGED <<attempt, executor>>
  BY <1>9 DEF ReleaserStep, ClaimRelease, BeginRelease, RemoveWorktree, ReleaseRepositoryWorkspace,
              FinishRelease, CompleteRelease, ReleaserStops, LoadRepositoryWorkspace, attemptVars
<1>10. ASSUME \/ \E t \in Worktrees : LeaseExpires(t) \/ AdvanceRevision(t)
              \/ \E r \in Repos : ReconcileWorkspace(r)
              \/ RequestWorkspaceSetRelease \/ LoseRelease \/ UNCHANGED vars
       PROVE  UNCHANGED <<attempt, executor>>
  BY <1>10 DEF LeaseExpires, AdvanceRevision, ReconcileWorkspace, RequestWorkspaceSetRelease, LoseRelease,
               vars, attemptVars
<1> HIDE DEF Same
<1>11. ASSUME NEW a \in Attempts, AttemptStep(a)
       PROVE  Same \/ ((executor'[x].late <=> release.key > 0) /\ release' = release)
  BY <1>1, <1>2, <1>3, <1>4, <1>5, <1>6, <1>7, <1>8, <1>11 DEF AttemptStep
<1> QED
  BY <1>1, <1>9, <1>10, <1>11 DEF Next, Same

LEMMA EarlierStep == IInv /\ [Next]_vars => EarlierWritersAreDone'
<1> SUFFICES ASSUME IInv, [Next]_vars, release'.key > 0,
                    NEW a \in Attempts, executor'[a].pc = "working", attempt'[a].state = "RUNNING"
             PROVE  executor'[a].late \/ DOMAIN attempt'[a].pin = {}
  BY DEF EarlierWritersAreDone, Working, Pinned
<1>0. Typed /\ RunningWriterOwnsItsWorktrees /\ GenerationsInOrder /\ EarlierWritersAreDone
  BY DEF IInv
<1>1. \/ /\ executor[a].pc = "working" /\ attempt[a].state = "RUNNING"
         /\ executor'[a].late = executor[a].late /\ attempt'[a].pin = attempt[a].pin
      \/ (executor'[a].late <=> release.key > 0) /\ release' = release
  BY WorkersMove
<1>2. CASE RequestWorkspaceSetRelease
  <2>1. /\ UNCHANGED <<attempt, executor>> /\ \A t \in Existing : ~lease[t].live
    BY <1>2 DEF RequestWorkspaceSetRelease, attemptVars
  <2>2. \A t \in Pinned(a) : lease[t].live /\ t \in Existing
    BY <1>0, <2>1 DEF RunningWriterOwnsItsWorktrees, GenerationsInOrder, HoldsLease, Working
  <2> QED
    BY <2>1, <2>2 DEF Pinned
<1>3. CASE ~RequestWorkspaceSetRelease
  <2>1. release'.key = release.key
    <3>1. ASSUME NEW b \in Attempts, AttemptStep(b) PROVE UNCHANGED release
      BY <3>1 DEF AttemptStep, StartRun, Retry, Admit, AcquireWriteLeases, FinalizeExecutionAttempt,
                  ReleaseWriteLeases, CancelRun, CancelExecution, LoseJobLease, ExecutorDies,
                  TerminateInterruptedAttempt, QuarantineInterrupted, Edit, releaseVars
    <3>2. ASSUME NEW c \in Claims, ReleaserStep(c) PROVE release'.key = release.key
      BY <1>0, <3>2 DEF ReleaserStep, ClaimRelease, BeginRelease, RemoveWorktree, ReleaseRepositoryWorkspace,
                        FinishRelease, CompleteRelease, ReleaserStops, LoadRepositoryWorkspace, Typed, ReleaseRecords
    <3>3. CASE LoseRelease
      BY <1>0, <3>3 DEF LoseRelease, Typed, ReleaseRecords
    <3>4. ASSUME \/ \E t \in Worktrees : LeaseExpires(t) \/ AdvanceRevision(t)
                 \/ \E r \in Repos : ReconcileWorkspace(r)
                 \/ UNCHANGED vars
          PROVE  UNCHANGED release
      BY <3>4 DEF LeaseExpires, AdvanceRevision, ReconcileWorkspace, vars, releaseVars
    <3> QED
      BY <1>3, <3>1, <3>2, <3>3, <3>4 DEF Next
  <2>2. CASE /\ executor[a].pc = "working" /\ attempt[a].state = "RUNNING"
             /\ executor'[a].late = executor[a].late /\ attempt'[a].pin = attempt[a].pin
    BY <1>0, <2>1, <2>2 DEF EarlierWritersAreDone, Working, Pinned
  <2>3. CASE (executor'[a].late <=> release.key > 0) /\ release' = release
    BY <2>3
  <2> QED
    BY <1>1, <2>2, <2>3
<1> QED
  BY <1>2, <1>3

-----------------------------------------------------------------------------
LEMMA Invariance == Spec => []IInv
<1>1. IInv /\ [Next]_vars => IInv'
  BY TypedStep, GrantsStep, OwnersStep, GenerationsStep, ReleaseStep, EarlierStep DEF IInv
<1> QED
  BY Initially, <1>1, PTL DEF Spec

(* Rows, worktrees, leases, attempts, their executors and the release's         *)
(* handlers keep their types.                                                   *)
THEOREM TypeCorrect == Spec => []TypeOK
<1>1. IInv => TypeOK
  <2> SUFFICES ASSUME IInv PROVE TypeOK
    OBVIOUS
  <2>1. Typed /\ GrantsFollowPins
    BY DEF IInv
  <2>2. set \in [state: {"READY", "RELEASING", "RELEASED"}, version: Nat]
    BY <2>1 DEF Typed, SetRecords
  <2>3. row \in [Worktrees -> [state: {"ABSENT", "READY", "QUARANTINED", "RELEASED"}, version: Nat, rev: Nat]]
    BY <2>1 DEF Typed, RowRecords, RowStates
  <2>4. tree \in [Worktrees -> [files: {"clean", "dirty", "gone"}, mover: Attempts \union {None}]]
    BY <2>1 DEF Typed, TreeRecords
  <2>5. /\ lease \in [Worktrees -> [fence: Nat, holder: Attempts \union {None}, live: BOOLEAN]]
        /\ \A t \in Worktrees : lease[t].live => lease[t].holder \in Attempts
    BY <2>1 DEF Typed, LeaseRecords, GrantsFollowPins
  <2>6. ASSUME NEW a \in Attempts
        PROVE  /\ attempt[a].state \in {"ABSENT", "QUEUED", "RUNNING", "SUCCEEDED", "FAILED", "INDETERMINATE", "LOST"}
               /\ Pinned(a) \subseteq Worktrees /\ Granted(a) \in {{}, Pinned(a)}
               /\ Working(a) => Granted(a) = Pinned(a)
    <3>1. attempt[a] \in AttemptRecords
      BY <2>1 DEF Typed
    <3> QED
      BY <2>1, <3>1, PinsAre DEF AttemptRecords, Pinned, GrantsFollowPins
  <2>7. cancelling \subseteq Attempts
    BY <2>1 DEF Typed
  <2>8. release.entries \subseteq Worktrees /\ release.claims \in 0..ReleaseClaims /\ release.holder \in 0..ReleaseClaims
    BY <2>1 DEF Typed, ReleaseRecords
  <2>9. \A c \in Claims : releaser[c].todo \subseteq Worktrees
    BY <2>1 DEF Typed, ReleaserRecords
  <2> QED
    BY <2>2, <2>3, <2>4, <2>5, <2>6, <2>7, <2>8, <2>9 DEF TypeOK
<1> QED
  BY Invariance, <1>1, PTL

(* An attempt at work keeps every lease it was granted: AcquireWriteLeases      *)
(* takes nothing over from a RUNNING attempt, and ReleaseWriteLeases of one     *)
(* that was ended frees nothing that is not its own any more.                   *)
THEOREM WritersOwn == Spec => []RunningWriterOwnsItsWorktrees
<1>1. IInv => RunningWriterOwnsItsWorktrees
  BY DEF IInv
<1> QED
  BY Invariance, <1>1, PTL

(* Two RUNNING attempts at work never share a worktree. *)
THEOREM NoSharedWorktree ==
  Spec => [](\A a, b \in Attempts :
               (a # b /\ Working(a) /\ Working(b) /\ attempt[a].state = "RUNNING" /\ attempt[b].state = "RUNNING") =>
                 Pinned(a) \cap Pinned(b) = {})
<1>1. RunningWriterOwnsItsWorktrees =>
        \A a, b \in Attempts :
          (a # b /\ Working(a) /\ Working(b) /\ attempt[a].state = "RUNNING" /\ attempt[b].state = "RUNNING") =>
            Pinned(a) \cap Pinned(b) = {}
  BY DEF RunningWriterOwnsItsWorktrees, HoldsLease
<1> QED
  BY WritersOwn, <1>1, PTL

(* A repository has one READY worktree at most, its newest, whatever is         *)
(* quarantined, recreated and released, and a READY row whose worktree is gone  *)
(* belongs to a release that has begun.                                         *)
THEOREM ReadyIsNewest == Spec => []OneReadyWorktree
<1>1. IInv => OneReadyWorktree
  <2> SUFFICES ASSUME IInv, NEW t \in Existing
               PROVE  /\ row[t].state = "READY" => t = Newest(t[1])
                      /\ (row[t].state = "READY" /\ tree[t] = Gone) => set.state = "RELEASING"
    BY DEF OneReadyWorktree
  <2>1. Typed /\ GenerationsInOrder /\ ReleaseCoversTheSet
    BY DEF IInv
  <2>2. t \in Worktrees /\ t[2] \in 1..MaxGeneration /\ t = <<t[1], t[2]>> /\ t[1] \in Family /\ t[1] \in Repos
    BY DEF Existing, Family, Worktrees
  <2>3. PICK n \in 1..MaxGeneration : UpTo(t[1], n) /\ Newest(t[1]) = <<t[1], n>>
    BY <2>1, <2>2, NewestIsLast
  <2>4. MaxGeneration \in Nat /\ t[2] <= n
    BY <2>2, <2>3, SetAssumption DEF UpTo, Existing
  <2>5. ASSUME row[t].state = "READY" PROVE t = Newest(t[1])
    <3>1. ~(t[2] < n)
      <4> SUFFICES ASSUME t[2] < n PROVE FALSE
        OBVIOUS
      <4>1. row[<<t[1], n>>].state = "ABSENT"
        BY <2>1, <2>2, <2>5 DEF GenerationsInOrder
      <4>2. row[<<t[1], n>>].state # "ABSENT"
        BY <2>3, <2>4 DEF UpTo
      <4> QED
        BY <4>1, <4>2
    <3>2. t[2] = n
      BY <2>2, <2>4, <3>1
    <3> QED
      BY <2>2, <2>3, <3>2
  <2>6. (row[t].state = "READY" /\ tree[t] = Gone) => set.state = "RELEASING"
    BY <2>1, <2>2 DEF ReleaseCoversTheSet
  <2> QED
    BY <2>5, <2>6
<1> QED
  BY Invariance, <1>1, PTL

(* When a set is RELEASED, nothing of it is left: a release that has not seen   *)
(* every worktree cannot finish, since what it did not see came in place of one *)
(* that is quarantined, and which it does name.                                 *)
THEOREM ReleasedIsEmpty == Spec => []ReleasedSetIsEmpty
<1>1. IInv => ReleasedSetIsEmpty
  BY DEF IInv, ReleasedSetIsEmpty, ReleaseCoversTheSet, GenerationsInOrder, Existing
<1> QED
  BY Invariance, <1>1, PTL

(* No worktree is removed under an attempt that was granted its leases before   *)
(* the release was requested.                                                   *)
THEOREM EarlierWritersSpared == Spec => ReleaseSparesEarlierWriters
<1>1. IInv /\ [Next]_vars =>
        [\A t \in Worktrees : (tree'[t] = Gone /\ tree[t] # Gone) =>
           \A a \in Attempts : (Working(a) /\ attempt[a].state = "RUNNING" /\ t \in Pinned(a)) => executor[a].late]_vars
  <2> SUFFICES ASSUME IInv, [Next]_vars, NEW t \in Worktrees, tree'[t] = Gone, tree[t] # Gone,
                      NEW a \in Attempts, Working(a), attempt[a].state = "RUNNING", t \in Pinned(a)
               PROVE  executor[a].late
    OBVIOUS
  <2>1. ReleaseCoversTheSet /\ EarlierWritersAreDone /\ Typed
    BY DEF IInv
  <2>2. ASSUME NEW r \in Repos, ReconcileWorkspace(r) PROVE tree' = tree
    BY <2>2 DEF ReconcileWorkspace
  <2>3. \E c \in Claims : RemoveWorktree(c)
    BY <2>2, WorktreesMove
  <2>4. release.key # 0 /\ release.key \in Nat
    BY <2>1, <2>3 DEF ReleaseCoversTheSet, RemoveWorktree, Typed, ReleaseRecords
  <2> QED
    BY <2>1, <2>4 DEF EarlierWritersAreDone
<1> QED
  BY Invariance, <1>1, PTL DEF Spec, ReleaseSparesEarlierWriters

=============================================================================
