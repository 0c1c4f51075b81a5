------------------------- MODULE LocalCommit_proofs --------------------------
(***************************************************************************)
(* Theorems about LocalCommit, for any operations, claims and bounds: its  *)
(* type invariant, that the recorded revision never moves back, and that   *)
(* operations tell the log.                                                *)
(***************************************************************************)
EXTENDS LocalCommit, FiniteSetTheorems, TLAPS

------------------------------------------------------------------------------
(* What has its type over a history has it over a longer one. *)
LEMMA LongerHistory ==
  ASSUME NEW m \in Nat, NEW n \in Nat, m <= n
  PROVE  /\ Rows(m) \subseteq Rows(n)
         /\ OpRecords(m) \subseteq OpRecords(n)
         /\ Deliveries(m) \subseteq Deliveries(n)
         /\ Adopters(m) \subseteq Adopters(n)
<1>1. 0..m \subseteq 0..n
  OBVIOUS
<1> QED
  BY <1>1 DEF Rows, OpRecords, Deliveries, Adopters

(* A delivery that has ended is well typed. *)
LEMMA OffType ==
  ASSUME NEW n \in Nat
  PROVE  Off \in Deliveries(n)
BY DEF Off, Deliveries, Reasons

(* The history of a well-typed state has a length. *)
LEMMA HEADType == TypeOK => HEAD \in Nat
BY DEF TypeOK, Logs, HEAD

(* Releasing leaves a well-typed lease. *)
LEMMA ReleasedType ==
  ASSUME TypeOK, NEW e
  PROVE  Released(e) \in Leases
BY DEF TypeOK, Released, Leases

(* An executor is an operation and one of its deliveries. *)
LEMMA ExecutorParts ==
  ASSUME NEW e \in Executors
  PROVE  e[1] \in Ops /\ e[2] \in 1..MaxClaims /\ e = <<e[1], e[2]>>
BY DEF Executors

------------------------------------------------------------------------------
(* The snapshots of the row that deliveries and adoptions carry are not newer   *)
(* than the row, and as long as the row is unchanged what they are about to     *)
(* record is not behind it.                                                     *)
SnapshotsHold ==
  /\ row.version > 0
  /\ \A e \in Executors :
       /\ ex[e].rowVersion <= row.version
       /\ ex[e].pc = "finalize" /\ ex[e].rowVersion = row.version => row.rev <= ex[e].result
  /\ adopter.version <= row.version
  /\ adopter.version = row.version => row.rev <= adopter.head

Inv == TypeOK /\ SnapshotsHold

LEMMA Initially == Init => Inv
<1> SUFFICES ASSUME Init PROVE Inv
  OBVIOUS
<1>0. HEAD = 0 /\ HEAD \in Nat
  BY DEF Init, HEAD
<1>1. log \in Logs /\ dirty \in BOOLEAN
  BY DEF Init, Logs
<1>2. left \in 0..MaxEvents
  BY CommitAssumption DEF Init
<1>3. row \in Rows(HEAD) /\ adopter \in Adopters(HEAD)
  BY <1>0 DEF Init, Rows, Adopters, NoAdopter
<1>4. op \in [Ops -> OpRecords(HEAD)]
  BY <1>0 DEF Init, OpRecords, NoOp, Reasons
<1>5. job \in [Ops -> JobRecords]
  BY CommitAssumption DEF Init, JobRecords
<1>6. lease \in Leases
  BY DEF Init, Leases
<1>7. ex \in [Executors -> Deliveries(HEAD)]
  BY <1>0, OffType DEF Init
<1>8. SettledIsDone
  BY DEF Init, SettledIsDone, NoOp
<1>9. SnapshotsHold
  BY DEF Init, SnapshotsHold, Off, NoAdopter
<1> QED
  BY <1>1, <1>2, <1>3, <1>4, <1>5, <1>6, <1>7, <1>8, <1>9 DEF Inv, TypeOK

------------------------------------------------------------------------------
(* A delivery that goes on to d, with the row and the adoption as they are. *)
Fit(d) ==
  /\ d \in Deliveries(HEAD)
  /\ d.rowVersion <= row.version
  /\ d.pc = "finalize" /\ d.rowVersion = row.version => row.rev <= d.result

LEMMA Moved ==
  ASSUME Inv, NEW e \in Executors, NEW d, Fit(d), ex' = [ex EXCEPT ![e] = d],
         UNCHANGED <<row, adopter>>
  PROVE  ex' \in [Executors -> Deliveries(HEAD)] /\ SnapshotsHold'
<1>1. ex' \in [Executors -> Deliveries(HEAD)]
  BY DEF Inv, TypeOK, Fit
<1>2. ASSUME NEW f \in Executors
      PROVE  /\ ex'[f].rowVersion <= row.version
             /\ ex'[f].pc = "finalize" /\ ex'[f].rowVersion = row.version => row.rev <= ex'[f].result
  <2>1. CASE f = e
    <3>1. ex'[f] = d
      BY <2>1 DEF Inv, TypeOK
    <3> QED
      BY <3>1 DEF Fit
  <2>2. CASE f # e
    <3>1. ex'[f] = ex[f]
      BY <2>2 DEF Inv, TypeOK
    <3> QED
      BY <3>1 DEF Inv, SnapshotsHold
  <2> QED
    BY <2>1, <2>2
<1> QED
  BY <1>1, <1>2 DEF Inv, SnapshotsHold

(* A delivery that ends fits. *)
LEMMA OffFits == Inv => Fit(Off)
<1> SUFFICES ASSUME Inv PROVE Fit(Off)
  OBVIOUS
<1>1. Off \in Deliveries(HEAD)
  BY OffType, HEADType DEF Inv
<1>2. Off.rowVersion = 0 /\ Off.pc = "off"
  BY DEF Off
<1>3. row.version \in Nat
  BY DEF Inv, TypeOK, Rows
<1> QED
  BY <1>1, <1>2, <1>3 DEF Fit

(* So does one that keeps its version of the row and does not come to record.   *)
LEMMA KeepsFit ==
  ASSUME Inv, NEW e \in Executors, NEW d \in Deliveries(HEAD),
         d.rowVersion = ex[e].rowVersion, d.pc # "finalize"
  PROVE  Fit(d)
BY DEF Inv, SnapshotsHold, Fit

(* When the row is replaced by the next version, no snapshot is of it. *)
LEMMA RowMoved ==
  ASSUME Inv, row'.version = row.version + 1,
         \A x \in Executors : ex'[x].rowVersion = ex[x].rowVersion,
         adopter' = adopter \/ adopter' = NoAdopter
  PROVE  SnapshotsHold'
<1>1. row.version \in Nat /\ row.version > 0 /\ adopter.version \in Nat
  BY DEF Inv, TypeOK, Rows, Adopters, SnapshotsHold
<1>2. \A x \in Executors : ex'[x].rowVersion <= row.version /\ ex'[x].rowVersion \in Nat
  BY DEF Inv, TypeOK, Deliveries, SnapshotsHold
<1>3. adopter'.version \in Nat /\ adopter'.version <= row.version
  BY <1>1 DEF Inv, SnapshotsHold, NoAdopter
<1> QED
  BY <1>1, <1>2, <1>3 DEF SnapshotsHold

(* A commit makes the history longer. *)
LEMMA CommitType ==
  ASSUME Inv, NEW who \in Ops \union {Outside}, NEW late \in BOOLEAN, Commit(who, late)
  PROVE  log' \in Logs /\ dirty' \in BOOLEAN /\ HEAD' \in Nat /\ HEAD <= HEAD'
<1> DEFINE buries == HEAD > 0 /\ log[HEAD].of \in Ops \ {who} /\ op[log[HEAD].of].state = "REQUESTED"
           c == [of |-> who, late |-> late, buries |-> buries]
<1>1. buries \in BOOLEAN
  OBVIOUS
<1>2. log' = Append(log, c) /\ dirty' = FALSE
  BY DEF Commit
<1> HIDE DEF buries
<1>3. c \in [of : Ops \union {Outside}, late : BOOLEAN, buries : BOOLEAN]
  BY <1>1
<1> HIDE DEF c
<1>4. log \in Logs
  BY DEF Inv, TypeOK
<1>5. log' \in Logs /\ Len(log') = Len(log) + 1 /\ Len(log) \in Nat
  BY <1>2, <1>3, <1>4 DEF Logs
<1>6. dirty' \in BOOLEAN
  BY <1>2
<1>7. HEAD' = Len(log') /\ HEAD = Len(log)
  BY DEF HEAD
<1> QED
  BY <1>5, <1>6, <1>7

------------------------------------------------------------------------------
(* One lemma per action: it keeps the invariant. *)

(* Nothing is committed by it. *)
LEMMA SameHistory ==
  ASSUME Inv, UNCHANGED repo
  PROVE  HEAD' = HEAD /\ HEAD \in Nat /\ log' \in Logs /\ dirty' \in BOOLEAN
BY HEADType DEF Inv, TypeOK, repo, HEAD

LEMMA RequestKeepsInv ==
  ASSUME Inv, NEW o \in Ops, RequestReleaseSetLocalCommit(o)
  PROVE  Inv'
<1> USE DEF RequestReleaseSetLocalCommit
<1>1. HEAD' = HEAD /\ HEAD \in Nat /\ log' \in Logs /\ dirty' \in BOOLEAN
  BY SameHistory
<1>2. left' \in 0..MaxEvents
  BY CommitAssumption DEF Inv, TypeOK, Event
<1>3. op' \in [Ops -> OpRecords(HEAD)]
  BY DEF Inv, TypeOK, OpRecords
<1>4. job' \in [Ops -> JobRecords]
  BY DEF Inv, TypeOK, JobRecords
<1>5. SettledIsDone'
  BY DEF Inv, TypeOK, SettledIsDone, OpRecords, JobRecords
<1>6. SnapshotsHold'
  BY DEF Inv, SnapshotsHold
<1> QED
  BY <1>1, <1>2, <1>3, <1>4, <1>5, <1>6 DEF Inv, TypeOK

LEMMA ClaimKeepsInv ==
  ASSUME Inv, NEW e \in Executors, Claim(e)
  PROVE  Inv'
<1> DEFINE d == [Off EXCEPT !.pc = "acquire", !.version = op[e[1]].version, !.parent = op[e[1]].parent]
<1>1. HEAD' = HEAD /\ HEAD \in Nat /\ log' \in Logs /\ dirty' \in BOOLEAN
  BY SameHistory DEF Claim
<1>2. e[1] \in Ops /\ e[2] \in 1..MaxClaims
  BY ExecutorParts
<1>3. job' \in [Ops -> JobRecords]
  BY <1>2, CommitAssumption DEF Claim, Inv, TypeOK, JobRecords
<1>4. op[e[1]] \in OpRecords(HEAD)
  BY <1>2 DEF Inv, TypeOK
<1>5. d \in Deliveries(HEAD) /\ d.rowVersion = 0 /\ d.pc = "acquire"
  BY <1>1, <1>4, OffType DEF OpRecords, Deliveries, Off
<1>6. ex' = [ex EXCEPT ![e] = d] /\ UNCHANGED <<row, adopter>>
  BY DEF Claim
<1> HIDE DEF d
<1>7. Fit(d)
  BY <1>5 DEF Inv, TypeOK, Rows, Fit
<1>8. ex' \in [Executors -> Deliveries(HEAD)] /\ SnapshotsHold'
  BY <1>6, <1>7, Moved
<1>9. SettledIsDone'
  BY <1>2 DEF Claim, Inv, TypeOK, SettledIsDone, JobRecords
<1> QED
  BY <1>1, <1>3, <1>8, <1>9 DEF Claim, Inv, TypeOK

LEMMA AcquireKeepsInv ==
  ASSUME Inv, NEW e \in Executors, AcquireLocalCommitWriteLease(e)
  PROVE  Inv'
<1>1. HEAD' = HEAD /\ HEAD \in Nat /\ log' \in Logs /\ dirty' \in BOOLEAN
  BY SameHistory DEF AcquireLocalCommitWriteLease
<1> DEFINE d == [ex[e] EXCEPT !.pc = "load", !.fence = lease.fence + 1]
<1>2. ex[e] \in Deliveries(HEAD) /\ lease.fence + 1 \in Nat
  BY DEF Inv, TypeOK, Leases
<1>3. d \in Deliveries(HEAD) /\ d.rowVersion = ex[e].rowVersion /\ d.pc = "load"
  BY <1>2 DEF Deliveries
<1>4. \/ /\ ex' = [ex EXCEPT ![e] = d]
         /\ lease' = [fence |-> lease.fence + 1, holder |-> e, live |-> TRUE]
      \/ /\ ex' = [ex EXCEPT ![e] = Off]
         /\ UNCHANGED lease
  BY DEF AcquireLocalCommitWriteLease, GiveUp
<1>5. UNCHANGED <<op, job, row, adopter, left>>
  BY DEF AcquireLocalCommitWriteLease
<1> HIDE DEF d
<1>6. lease' \in Leases
  <2>1. [fence |-> lease.fence + 1, holder |-> e, live |-> TRUE] \in Leases
    BY <1>2 DEF Leases
  <2> QED
    BY <2>1, <1>4 DEF Inv, TypeOK
<1>7. ex' \in [Executors -> Deliveries(HEAD)] /\ SnapshotsHold'
  BY <1>3, <1>4, <1>5, KeepsFit, OffFits, Moved
<1> QED
  BY <1>1, <1>5, <1>6, <1>7 DEF Inv, TypeOK, SettledIsDone

LEMMA LoadKeepsInv ==
  ASSUME Inv, NEW e \in Executors, LoadRepositoryWorkspace(e)
  PROVE  Inv'
<1>1. HEAD' = HEAD /\ HEAD \in Nat /\ log' \in Logs /\ dirty' \in BOOLEAN
  BY SameHistory DEF LoadRepositoryWorkspace
<1> DEFINE d == [ex[e] EXCEPT !.pc = "find", !.rowVersion = row.version, !.rev = row.rev]
           f == [ex[e] EXCEPT !.pc = "fail", !.reason = "WORKSPACE_QUARANTINED"]
<1>2. ex[e] \in Deliveries(HEAD) /\ row.version \in Nat /\ row.rev \in 0..HEAD
  BY DEF Inv, TypeOK, Rows
<1>3. d \in Deliveries(HEAD) /\ d.rowVersion = row.version /\ d.pc = "find"
  BY <1>2 DEF Deliveries
<1>4. f \in Deliveries(HEAD) /\ f.rowVersion = ex[e].rowVersion /\ f.pc = "fail"
  BY <1>2 DEF Deliveries, Reasons
<1>5. /\ ex' = [ex EXCEPT ![e] = d] \/ ex' = [ex EXCEPT ![e] = f]
      /\ lease' \in {lease, Released(e)}
      /\ UNCHANGED <<op, job, row, adopter, left>>
  BY DEF LoadRepositoryWorkspace
<1> HIDE DEF d, f
<1>6. Fit(d)
  BY <1>2, <1>3 DEF Fit
<1>7. Fit(f)
  BY <1>4, KeepsFit
<1>8. ex' \in [Executors -> Deliveries(HEAD)] /\ SnapshotsHold'
  BY <1>5, <1>6, <1>7, Moved
<1>9. lease' \in Leases
  BY <1>5, ReleasedType DEF Inv, TypeOK
<1> QED
  BY <1>1, <1>5, <1>8, <1>9 DEF Inv, TypeOK, SettledIsDone

LEMMA FindKeepsInv ==
  ASSUME Inv, NEW e \in Executors, FindLocalCommitByMarker(e)
  PROVE  Inv'
<1>1. HEAD' = HEAD /\ HEAD \in Nat /\ log' \in Logs /\ dirty' \in BOOLEAN
  BY SameHistory DEF FindLocalCommitByMarker
<1> DEFINE drift == [ex[e] EXCEPT !.pc = "quarantine"]
           found == [ex[e] EXCEPT !.pc = "finalize", !.parent = HEAD - 1, !.result = HEAD]
           failed == [ex[e] EXCEPT !.pc = "fail", !.reason = "HEAD_DRIFT"]
           pinned == [ex[e] EXCEPT !.pc = "pin", !.parent = HEAD]
<1>2. ex[e] \in Deliveries(HEAD) /\ row.rev <= HEAD /\ HEAD \in 0..HEAD
  BY <1>1 DEF Inv, TypeOK, Rows
<1>3. drift \in Deliveries(HEAD) /\ drift.rowVersion = ex[e].rowVersion /\ drift.pc = "quarantine"
  BY <1>2 DEF Deliveries
<1>4. failed \in Deliveries(HEAD) /\ failed.rowVersion = ex[e].rowVersion /\ failed.pc = "fail"
  BY <1>2 DEF Deliveries, Reasons
<1>5. pinned \in Deliveries(HEAD) /\ pinned.rowVersion = ex[e].rowVersion /\ pinned.pc = "pin"
  BY <1>2 DEF Deliveries
<1>12. HEAD > 0 => HEAD - 1 \in 0..HEAD
  BY <1>1
<1>6. HEAD > 0 => /\ found \in Deliveries(HEAD) /\ found.rowVersion = ex[e].rowVersion
                  /\ found.result = HEAD
  BY <1>2, <1>12 DEF Deliveries
<1>7. /\ \/ \E d \in {drift, failed, pinned} : ex' = [ex EXCEPT ![e] = d]
         \/ HEAD > 0 /\ ex' = [ex EXCEPT ![e] = found]
      /\ lease' \in {lease, Released(e)}
      /\ UNCHANGED <<op, job, row, adopter, left>>
  BY DEF FindLocalCommitByMarker
<1> HIDE DEF drift, found, failed, pinned
<1>8. Fit(drift) /\ Fit(failed) /\ Fit(pinned)
  BY <1>3, <1>4, <1>5, KeepsFit
<1>9. HEAD > 0 => Fit(found)
  BY <1>2, <1>6 DEF Inv, SnapshotsHold, Fit
<1>10. ex' \in [Executors -> Deliveries(HEAD)] /\ SnapshotsHold'
  BY <1>7, <1>8, <1>9, Moved
<1>11. lease' \in Leases
  BY <1>7, ReleasedType DEF Inv, TypeOK
<1> QED
  BY <1>1, <1>7, <1>10, <1>11 DEF Inv, TypeOK, SettledIsDone

LEMMA PinKeepsInv ==
  ASSUME Inv, NEW e \in Executors, PinReleaseSetLocalCommitParent(e)
  PROVE  Inv'
<1>1. HEAD' = HEAD /\ HEAD \in Nat /\ log' \in Logs /\ dirty' \in BOOLEAN
  BY SameHistory DEF PinReleaseSetLocalCommitParent
<1> DEFINE o == e[1]
           d == [ex[e] EXCEPT !.pc = "create", !.version = ex[e].version + 1]
           r == [op[o] EXCEPT !.parent = ex[e].parent, !.version = op[o].version + 1]
<1>2. ex[e] \in Deliveries(HEAD) /\ o \in Ops /\ op[o] \in OpRecords(HEAD)
  BY ExecutorParts DEF Inv, TypeOK
<1>10. /\ ex[e].version + 1 \in Nat /\ op[o].version + 1 \in Nat
       /\ ex[e].parent \in (0..HEAD) \union {None}
  BY <1>2 DEF OpRecords, Deliveries
<1>3. d \in Deliveries(HEAD) /\ d.rowVersion = ex[e].rowVersion /\ d.pc = "create"
  BY <1>2, <1>10 DEF Deliveries
<1>4. r \in OpRecords(HEAD) /\ r.state = op[o].state
  BY <1>2, <1>10 DEF OpRecords
<1>5. /\ \/ ex' = [ex EXCEPT ![e] = d] /\ op' = [op EXCEPT ![o] = r] /\ UNCHANGED lease
         \/ ex' = [ex EXCEPT ![e] = Off] /\ UNCHANGED op /\ lease' = Released(e)
      /\ UNCHANGED <<job, row, adopter, left>>
  BY DEF PinReleaseSetLocalCommitParent, GiveUp
<1> HIDE DEF d, r, o
<1>6. op' \in [Ops -> OpRecords(HEAD)]
  BY <1>4, <1>5 DEF Inv, TypeOK
<1>7. SettledIsDone'
  BY <1>2, <1>4, <1>5 DEF Inv, TypeOK, SettledIsDone
<1>8. ex' \in [Executors -> Deliveries(HEAD)] /\ SnapshotsHold'
  BY <1>3, <1>5, KeepsFit, OffFits, Moved
<1>9. lease' \in Leases
  BY <1>5, ReleasedType DEF Inv, TypeOK
<1> QED
  BY <1>1, <1>5, <1>6, <1>7, <1>8, <1>9 DEF Inv, TypeOK

LEMMA CreateKeepsInv ==
  ASSUME Inv, NEW e \in Executors, CreateLocalCommit(e)
  PROVE  Inv'
<1> DEFINE d == [ex[e] EXCEPT !.pc = "resolve"]
           f == [ex[e] EXCEPT !.pc = "fail", !.reason = "NO_CHANGES"]
<1>1. ex[e] \in Deliveries(HEAD) /\ e[1] \in Ops /\ HEAD \in Nat
  BY ExecutorParts, HEADType DEF Inv, TypeOK
<1>2. d \in Deliveries(HEAD) /\ d.rowVersion = ex[e].rowVersion /\ d.pc = "resolve"
  BY <1>1 DEF Deliveries
<1>3. f \in Deliveries(HEAD) /\ f.rowVersion = ex[e].rowVersion /\ f.pc = "fail"
  BY <1>1 DEF Deliveries, Reasons
<1>4. /\ ex' = [ex EXCEPT ![e] = d] \/ ex' = [ex EXCEPT ![e] = f]
      /\ UNCHANGED <<row, op, job, lease, adopter, left>>
      /\ UNCHANGED repo \/ \E late \in BOOLEAN : Commit(e[1], late)
  BY DEF CreateLocalCommit, HoldsJob, OwnsLease
<1> HIDE DEF d, f
<1>5. ex' \in [Executors -> Deliveries(HEAD)] /\ SnapshotsHold'
  BY <1>2, <1>3, <1>4, KeepsFit, Moved
<1>6. log' \in Logs /\ dirty' \in BOOLEAN /\ HEAD' \in Nat /\ HEAD <= HEAD'
  BY <1>1, <1>4, SameHistory, CommitType
<1>7. /\ row' \in Rows(HEAD') /\ op' \in [Ops -> OpRecords(HEAD')]
      /\ ex' \in [Executors -> Deliveries(HEAD')] /\ adopter' \in Adopters(HEAD')
  BY <1>1, <1>4, <1>5, <1>6, LongerHistory DEF Inv, TypeOK
<1> QED
  BY <1>4, <1>5, <1>6, <1>7 DEF Inv, TypeOK, SettledIsDone

LEMMA ResolveKeepsInv ==
  ASSUME Inv, NEW e \in Executors, ResolveHead(e)
  PROVE  Inv'
<1>1. HEAD' = HEAD /\ HEAD \in Nat /\ log' \in Logs /\ dirty' \in BOOLEAN
  BY SameHistory DEF ResolveHead
<1> DEFINE d == [ex[e] EXCEPT !.pc = "finalize", !.result = HEAD]
<1>2. ex[e] \in Deliveries(HEAD) /\ row.rev <= HEAD /\ HEAD \in 0..HEAD
  BY <1>1 DEF Inv, TypeOK, Rows
<1>3. d \in Deliveries(HEAD) /\ d.rowVersion = ex[e].rowVersion /\ d.result = HEAD
  BY <1>2 DEF Deliveries
<1>4. ex' = [ex EXCEPT ![e] = d] /\ UNCHANGED <<row, op, job, lease, adopter, left>>
  BY DEF ResolveHead
<1> HIDE DEF d
<1>5. Fit(d)
  BY <1>2, <1>3 DEF Inv, SnapshotsHold, Fit
<1>6. ex' \in [Executors -> Deliveries(HEAD)] /\ SnapshotsHold'
  BY <1>4, <1>5, Moved
<1> QED
  BY <1>1, <1>4, <1>6 DEF Inv, TypeOK, SettledIsDone

LEMMA FinalizeKeepsInv ==
  ASSUME Inv, NEW e \in Executors, Finalize(e)
  PROVE  Inv'
<1>1. HEAD' = HEAD /\ HEAD \in Nat /\ log' \in Logs /\ dirty' \in BOOLEAN
  BY SameHistory DEF Finalize
<1> DEFINE o == e[1]
<1>2. UNCHANGED <<lease, adopter, left>>
  BY DEF Finalize
<1>3. ex[e] \in Deliveries(HEAD) /\ o \in Ops /\ op[o] \in OpRecords(HEAD) /\ row \in Rows(HEAD)
  BY ExecutorParts DEF Inv, TypeOK
<1>4. CASE Finalizable(e)
  <2> DEFINE r == [op[o] EXCEPT !.state = "COMMITTED", !.parent = ex[e].parent,
                                !.result = ex[e].result, !.version = op[o].version + 1]
             w == [row EXCEPT !.rev = ex[e].result, !.version = row.version + 1]
             d == [ex[e] EXCEPT !.pc = "release"]
  <2>1. /\ op[o].version + 1 \in Nat /\ row.version + 1 \in Nat
        /\ ex[e].parent \in (0..HEAD) \union {None} /\ ex[e].result \in 0..HEAD
    BY <1>3 DEF OpRecords, Deliveries, Rows
  <2>2. r \in OpRecords(HEAD) /\ r.state = "COMMITTED"
    BY <1>3, <2>1 DEF OpRecords
  <2>3. w \in Rows(HEAD) /\ w.version = row.version + 1
    BY <1>3, <2>1 DEF Rows
  <2>4. d \in Deliveries(HEAD) /\ d.rowVersion = ex[e].rowVersion
    BY <1>3 DEF Deliveries
  <2>5. /\ op' = [op EXCEPT ![o] = r] /\ row' = w /\ ex' = [ex EXCEPT ![e] = d]
        /\ job' = [job EXCEPT ![o].state = "DONE"]
    BY <1>4 DEF Finalize
  <2> HIDE DEF r, w, d, o
  <2>6. op' \in [Ops -> OpRecords(HEAD)]
    BY <2>2, <2>5 DEF Inv, TypeOK
  <2>7. ex' \in [Executors -> Deliveries(HEAD)]
    BY <2>4, <2>5 DEF Inv, TypeOK
  <2>8. job' \in [Ops -> JobRecords]
    BY <1>3, <2>5 DEF Inv, TypeOK, JobRecords
  <2>9. SettledIsDone'
    BY <1>3, <2>2, <2>5 DEF Inv, TypeOK, SettledIsDone, JobRecords
  <2>10. \A x \in Executors : ex'[x].rowVersion = ex[x].rowVersion
    BY <2>4, <2>5 DEF Inv, TypeOK
  <2>11. SnapshotsHold'
    BY <1>2, <2>3, <2>5, <2>7, <2>10, RowMoved
  <2> QED
    BY <1>1, <1>2, <2>3, <2>5, <2>6, <2>7, <2>8, <2>9, <2>11 DEF Inv, TypeOK
<1>5. CASE ~Finalizable(e)
  <2>1. ex' = [ex EXCEPT ![e] = Off] /\ UNCHANGED <<op, row, job>>
    BY <1>5 DEF Finalize, GiveUp
  <2>2. ex' \in [Executors -> Deliveries(HEAD)] /\ SnapshotsHold'
    BY <1>2, <2>1, OffFits, Moved
  <2> QED
    BY <1>1, <1>2, <2>1, <2>2 DEF Inv, TypeOK, SettledIsDone
<1> QED
  BY <1>4, <1>5

LEMMA QuarantineByDeliveryKeepsInv ==
  ASSUME Inv, NEW e \in Executors, QuarantineRepositoryWorkspace(e)
  PROVE  Inv'
<1>1. HEAD' = HEAD /\ HEAD \in Nat /\ log' \in Logs /\ dirty' \in BOOLEAN
  BY SameHistory DEF QuarantineRepositoryWorkspace
<1> DEFINE d == [ex[e] EXCEPT !.pc = "fail", !.reason = "MARKER_DRIFT"]
           w == [row EXCEPT !.state = "QUARANTINED", !.version = row.version + 1]
<1>2. ex[e] \in Deliveries(HEAD) /\ row \in Rows(HEAD) /\ row.version + 1 \in Nat
  BY DEF Inv, TypeOK, Rows
<1>3. d \in Deliveries(HEAD) /\ d.rowVersion = ex[e].rowVersion /\ d.pc = "fail"
  BY <1>2 DEF Deliveries, Reasons
<1>4. w \in Rows(HEAD) /\ w.version = row.version + 1
  BY <1>2 DEF Rows
<1>5. /\ \/ ex' = [ex EXCEPT ![e] = d] /\ row' = w
         \/ (ex' = [ex EXCEPT ![e] = d] \/ ex' = [ex EXCEPT ![e] = Off]) /\ UNCHANGED row
      /\ UNCHANGED <<op, job, lease, adopter, left>>
  BY DEF QuarantineRepositoryWorkspace, GiveUp
<1> HIDE DEF d, w
<1>6. CASE row' = w /\ ex' = [ex EXCEPT ![e] = d]
  <2>1. ex' \in [Executors -> Deliveries(HEAD)]
    BY <1>3, <1>6 DEF Inv, TypeOK
  <2>2. \A x \in Executors : ex'[x].rowVersion = ex[x].rowVersion
    BY <1>3, <1>6 DEF Inv, TypeOK
  <2>3. SnapshotsHold'
    BY <1>4, <1>5, <1>6, <2>1, <2>2, RowMoved
  <2> QED
    BY <1>1, <1>4, <1>5, <1>6, <2>1, <2>3 DEF Inv, TypeOK, SettledIsDone
<1>7. CASE (ex' = [ex EXCEPT ![e] = d] \/ ex' = [ex EXCEPT ![e] = Off]) /\ UNCHANGED row
  <2>1. ex' \in [Executors -> Deliveries(HEAD)] /\ SnapshotsHold'
    BY <1>3, <1>5, <1>7, KeepsFit, OffFits, Moved
  <2> QED
    BY <1>1, <1>5, <1>7, <2>1 DEF Inv, TypeOK, SettledIsDone
<1> QED
  BY <1>5, <1>6, <1>7

LEMMA FailKeepsInv ==
  ASSUME Inv, NEW e \in Executors, FailTerminal(e)
  PROVE  Inv'
<1>1. HEAD' = HEAD /\ HEAD \in Nat /\ log' \in Logs /\ dirty' \in BOOLEAN
  BY SameHistory DEF FailTerminal
<1> DEFINE o == e[1]
           d == [ex[e] EXCEPT !.pc = "release"]
           r == [op[o] EXCEPT !.state = "FAILED", !.reason = ex[e].reason, !.version = op[o].version + 1]
<1>2. ex[e] \in Deliveries(HEAD) /\ o \in Ops /\ op[o] \in OpRecords(HEAD)
  BY ExecutorParts DEF Inv, TypeOK
<1>3. d \in Deliveries(HEAD) /\ d.rowVersion = ex[e].rowVersion /\ d.pc = "release"
  BY <1>2 DEF Deliveries
<1>4. op[o].version + 1 \in Nat /\ ex[e].reason \in Reasons
  BY <1>2 DEF OpRecords, Deliveries
<1>5. r \in OpRecords(HEAD) /\ r.state = "FAILED"
  BY <1>2, <1>4 DEF OpRecords
<1>6. /\ \/ op' = [op EXCEPT ![o] = r] /\ job' = [job EXCEPT ![o].state = "DONE"]
         \/ UNCHANGED <<op, job>>
      /\ ex' = [ex EXCEPT ![e] = d] \/ ex' = [ex EXCEPT ![e] = Off]
      /\ UNCHANGED <<row, lease, adopter, left>>
  BY DEF FailTerminal
<1> HIDE DEF d, r, o
<1>7. op' \in [Ops -> OpRecords(HEAD)]
  BY <1>5, <1>6 DEF Inv, TypeOK
<1>8. job' \in [Ops -> JobRecords]
  BY <1>2, <1>6 DEF Inv, TypeOK, JobRecords
<1>9. SettledIsDone'
  BY <1>2, <1>5, <1>6 DEF Inv, TypeOK, SettledIsDone, JobRecords
<1>10. ex' \in [Executors -> Deliveries(HEAD)] /\ SnapshotsHold'
  BY <1>3, <1>6, KeepsFit, OffFits, Moved
<1> QED
  BY <1>1, <1>6, <1>7, <1>8, <1>9, <1>10 DEF Inv, TypeOK

LEMMA ReleaseKeepsInv ==
  ASSUME Inv, NEW e \in Executors, ReleaseLocalCommitWriteLease(e)
  PROVE  Inv'
<1>1. HEAD' = HEAD /\ HEAD \in Nat /\ log' \in Logs /\ dirty' \in BOOLEAN
  BY SameHistory DEF ReleaseLocalCommitWriteLease
<1>2. /\ lease' = Released(e) /\ ex' = [ex EXCEPT ![e] = Off]
      /\ UNCHANGED <<row, op, job, adopter, left>>
  BY DEF ReleaseLocalCommitWriteLease, GiveUp
<1>3. lease' \in Leases
  BY <1>2, ReleasedType DEF Inv
<1>4. ex' \in [Executors -> Deliveries(HEAD)] /\ SnapshotsHold'
  BY <1>2, OffFits, Moved
<1> QED
  BY <1>1, <1>2, <1>3, <1>4 DEF Inv, TypeOK, SettledIsDone

LEMMA JobExpiresKeepsInv ==
  ASSUME Inv, NEW o \in Ops, JobExpires(o)
  PROVE  Inv'
<1>1. HEAD' = HEAD /\ HEAD \in Nat /\ log' \in Logs /\ dirty' \in BOOLEAN
  BY SameHistory DEF JobExpires
<1> DEFINE s == IF job[o].claims < MaxClaims THEN "AVAILABLE" ELSE "DEAD"
<1>2. s \in {"AVAILABLE", "DEAD"}
  OBVIOUS
<1>3. /\ job[o].state = "LEASED" /\ job' = [job EXCEPT ![o].state = s]
      /\ UNCHANGED <<row, op, lease, ex, adopter>>
  BY DEF JobExpires
<1>4. left' \in 0..MaxEvents
  BY CommitAssumption DEF JobExpires, Inv, TypeOK, Event
<1> HIDE DEF s
<1>5. job' \in [Ops -> JobRecords]
  BY <1>2, <1>3 DEF Inv, TypeOK, JobRecords
<1>6. SettledIsDone'
  BY <1>2, <1>3 DEF Inv, TypeOK, SettledIsDone, JobRecords
<1> QED
  BY <1>1, <1>3, <1>4, <1>5, <1>6 DEF Inv, TypeOK, SnapshotsHold

LEMMA LeaseExpiresKeepsInv == Inv /\ LeaseExpires => Inv'
<1> SUFFICES ASSUME Inv, LeaseExpires PROVE Inv'
  OBVIOUS
<1>1. HEAD' = HEAD /\ HEAD \in Nat /\ log' \in Logs /\ dirty' \in BOOLEAN
  BY SameHistory DEF LeaseExpires
<1>2. lease' \in Leases
  BY DEF LeaseExpires, Inv, TypeOK, Leases
<1>3. left' \in 0..MaxEvents
  BY CommitAssumption DEF LeaseExpires, Inv, TypeOK, Event
<1>4. UNCHANGED <<row, op, job, ex, adopter>>
  BY DEF LeaseExpires
<1> QED
  BY <1>1, <1>2, <1>3, <1>4 DEF Inv, TypeOK, SettledIsDone, SnapshotsHold

LEMMA EditKeepsInv == Inv /\ Edit => Inv'
<1> SUFFICES ASSUME Inv, Edit PROVE Inv'
  OBVIOUS
<1>1. HEAD' = HEAD
  BY DEF Edit, HEAD
<1>2. dirty' \in BOOLEAN
  BY DEF Edit
<1>3. UNCHANGED <<log, row, op, job, lease, ex, adopter, left>>
  BY DEF Edit
<1> QED
  BY <1>1, <1>2, <1>3 DEF Inv, TypeOK, SettledIsDone, SnapshotsHold

LEMMA CommitOutsideKeepsInv == Inv /\ CommitOutside => Inv'
<1> SUFFICES ASSUME Inv, CommitOutside PROVE Inv'
  OBVIOUS
<1>1. log' \in Logs /\ dirty' \in BOOLEAN /\ HEAD' \in Nat /\ HEAD <= HEAD'
  BY CommitType DEF CommitOutside
<1>2. UNCHANGED <<row, op, job, lease, ex, adopter>>
  BY DEF CommitOutside
<1>3. left' \in 0..MaxEvents
  BY CommitAssumption DEF CommitOutside, Inv, TypeOK, Event
<1>4. /\ row' \in Rows(HEAD') /\ op' \in [Ops -> OpRecords(HEAD')]
      /\ ex' \in [Executors -> Deliveries(HEAD')] /\ adopter' \in Adopters(HEAD')
  BY <1>1, <1>2, HEADType, LongerHistory DEF Inv, TypeOK
<1> QED
  BY <1>1, <1>2, <1>3, <1>4 DEF Inv, TypeOK, SettledIsDone, SnapshotsHold

LEMMA AuditHeadKeepsInv == Inv /\ AuditHead => Inv'
<1> SUFFICES ASSUME Inv, AuditHead PROVE Inv'
  OBVIOUS
<1>1. HEAD' = HEAD /\ HEAD \in Nat /\ log' \in Logs /\ dirty' \in BOOLEAN
  BY SameHistory DEF AuditHead
<1>2. adopter' = [version |-> row.version, head |-> HEAD] /\ UNCHANGED <<row, op, job, lease, ex>>
  BY DEF AuditHead
<1>3. row.version \in Nat /\ row.rev <= HEAD /\ HEAD \in 0..HEAD
  BY <1>1 DEF Inv, TypeOK, Rows
<1>4. left' \in 0..MaxEvents
  BY CommitAssumption DEF AuditHead, Inv, TypeOK, Event
<1>5. adopter' \in Adopters(HEAD)
  BY <1>2, <1>3 DEF Adopters
<1>6. SnapshotsHold'
  BY <1>2, <1>3 DEF Inv, SnapshotsHold
<1> QED
  BY <1>1, <1>2, <1>4, <1>5, <1>6 DEF Inv, TypeOK, SettledIsDone

LEMMA AdoptKeepsInv == Inv /\ AdoptWorkspaceHead => Inv'
<1> SUFFICES ASSUME Inv, AdoptWorkspaceHead PROVE Inv'
  OBVIOUS
<1>1. HEAD' = HEAD /\ HEAD \in Nat /\ log' \in Logs /\ dirty' \in BOOLEAN
  BY SameHistory DEF AdoptWorkspaceHead
<1> DEFINE w == [row EXCEPT !.rev = adopter.head, !.version = row.version + 1]
<1>2. row \in Rows(HEAD) /\ row.version + 1 \in Nat /\ adopter.head \in 0..HEAD
  BY DEF Inv, TypeOK, Rows, Adopters
<1>3. w \in Rows(HEAD) /\ w.version = row.version + 1
  BY <1>2 DEF Rows
<1>4. /\ row' = w \/ row' = row
      /\ adopter' = NoAdopter /\ UNCHANGED <<op, job, lease, ex, left>>
  BY DEF AdoptWorkspaceHead
<1> HIDE DEF w
<1>5. adopter' \in Adopters(HEAD)
  BY <1>1, <1>4 DEF NoAdopter, Adopters
<1>6. SnapshotsHold'
  <2>1. CASE row' = w
    BY <1>3, <1>4, <2>1, RowMoved
  <2>2. CASE row' = row
    <3>1. adopter'.version = 0
      BY <1>4 DEF NoAdopter
    <3>2. row.version \in Nat
      BY <1>2 DEF Rows
    <3> QED
      BY <1>4, <2>2, <3>1, <3>2 DEF Inv, SnapshotsHold
  <2> QED
    BY <1>4, <2>1, <2>2
<1> QED
  BY <1>1, <1>2, <1>3, <1>4, <1>5, <1>6 DEF Inv, TypeOK, SettledIsDone

LEMMA QuarantineKeepsInv == Inv /\ Quarantine => Inv'
<1> SUFFICES ASSUME Inv, Quarantine PROVE Inv'
  OBVIOUS
<1>1. HEAD' = HEAD /\ HEAD \in Nat /\ log' \in Logs /\ dirty' \in BOOLEAN
  BY SameHistory DEF Quarantine
<1> DEFINE w == [row EXCEPT !.state = "QUARANTINED", !.version = row.version + 1]
<1>2. row \in Rows(HEAD) /\ row.version + 1 \in Nat
  BY DEF Inv, TypeOK, Rows
<1>3. w \in Rows(HEAD) /\ w.version = row.version + 1
  BY <1>2 DEF Rows
<1>4. row' = w /\ UNCHANGED <<op, job, lease, ex, adopter>>
  BY DEF Quarantine
<1>5. left' \in 0..MaxEvents
  BY CommitAssumption DEF Quarantine, Inv, TypeOK, Event
<1> HIDE DEF w
<1>6. SnapshotsHold'
  BY <1>3, <1>4, RowMoved
<1> QED
  BY <1>1, <1>3, <1>4, <1>5, <1>6 DEF Inv, TypeOK, SettledIsDone

------------------------------------------------------------------------------
(* No step breaks the invariant. *)
LEMMA InvIsInductive == Inv /\ [Next]_vars => Inv'
<1> SUFFICES ASSUME Inv, [Next]_vars PROVE Inv'
  OBVIOUS
<1>1. ASSUME NEW o \in Ops, RequestReleaseSetLocalCommit(o) \/ JobExpires(o) PROVE Inv'
  BY <1>1, RequestKeepsInv, JobExpiresKeepsInv
<1>2. ASSUME NEW e \in Executors, Step(e) PROVE Inv'
  BY <1>2, ClaimKeepsInv, AcquireKeepsInv, LoadKeepsInv, FindKeepsInv, PinKeepsInv, CreateKeepsInv,
     ResolveKeepsInv, FinalizeKeepsInv, QuarantineByDeliveryKeepsInv, FailKeepsInv, ReleaseKeepsInv
  DEF Step
<1>3. CASE LeaseExpires \/ Edit \/ CommitOutside \/ AuditHead \/ AdoptWorkspaceHead \/ Quarantine
  BY <1>3, LeaseExpiresKeepsInv, EditKeepsInv, CommitOutsideKeepsInv, AuditHeadKeepsInv,
     AdoptKeepsInv, QuarantineKeepsInv
<1>4. CASE UNCHANGED vars
  <2>1. HEAD' = HEAD
    BY <1>4 DEF vars, HEAD
  <2> QED
    BY <1>4, <2>1 DEF vars, Inv, TypeOK, SettledIsDone, SnapshotsHold
<1> QED
  BY <1>1, <1>2, <1>3, <1>4 DEF Next

(* In every behaviour the snapshots hold, and with them the types. *)
LEMMA Invariance == Spec => []Inv
<1> QED
  BY Initially, InvIsInductive, PTL DEF Spec

(* The state always has its type: what operations, deliveries, adoptions and    *)
(* the row name are commits of the worktree, and an operation is settled when   *)
(* its job is DONE (TypeOK; handler.go and releaseset_commit.go).               *)
THEOREM TypeCorrect == Spec => []TypeOK
<1>1. Inv => TypeOK
  BY DEF Inv
<1> QED
  BY <1>1, Invariance, PTL

(* No step moves the recorded revision back: only a finalizing delivery and an  *)
(* adoption set it, and each is fenced by the version of the row it has read.   *)
LEMMA StepAdvances == Inv /\ [Next]_vars => row'.rev >= row.rev
<1> SUFFICES ASSUME Inv, [Next]_vars PROVE row'.rev >= row.rev
  OBVIOUS
<1>1. row \in Rows(HEAD) /\ row.rev \in Int
  BY HEADType DEF Inv, TypeOK, Rows
<1>2. ASSUME row'.rev = row.rev PROVE row'.rev >= row.rev
  BY <1>1, <1>2
<1>3. ASSUME NEW o \in Ops, RequestReleaseSetLocalCommit(o) \/ JobExpires(o) PROVE row'.rev = row.rev
  BY <1>3 DEF RequestReleaseSetLocalCommit, JobExpires
<1>4. ASSUME NEW e \in Executors, Finalize(e) PROVE row'.rev >= row.rev
  <2>1. CASE Finalizable(e)
    <3>1. row' = [row EXCEPT !.rev = ex[e].result, !.version = row.version + 1]
      BY <1>4, <2>1 DEF Finalize
    <3>2. row'.rev = ex[e].result
      BY <1>1, <3>1 DEF Rows
    <3>3. ex[e].pc = "finalize" /\ ex[e].rowVersion = row.version
      BY <1>4, <2>1 DEF Finalize, Finalizable, ReadyAt
    <3>4. row.rev <= ex[e].result /\ ex[e].result \in Int
      BY <3>3, HEADType DEF Inv, SnapshotsHold, TypeOK, Deliveries
    <3> QED
      BY <1>1, <3>2, <3>4
  <2>2. CASE ~Finalizable(e)
    <3>1. row' = row
      BY <1>4, <2>2 DEF Finalize
    <3> QED
      BY <1>2, <3>1
  <2> QED
    BY <2>1, <2>2
<1>5. ASSUME NEW e \in Executors, QuarantineRepositoryWorkspace(e) PROVE row'.rev = row.rev
  <2>1. row' = row \/ row' = [row EXCEPT !.state = "QUARANTINED", !.version = row.version + 1]
    BY <1>5 DEF QuarantineRepositoryWorkspace
  <2> QED
    BY <1>1, <2>1 DEF Rows
<1>6. CASE Quarantine
  <2>1. row' = [row EXCEPT !.state = "QUARANTINED", !.version = row.version + 1]
    BY <1>6 DEF Quarantine
  <2> QED
    BY <1>1, <1>2, <2>1 DEF Rows
<1>7. ASSUME NEW e \in Executors, Step(e), ~Finalize(e), ~QuarantineRepositoryWorkspace(e)
      PROVE  row' = row
  BY <1>7 DEF Step, Claim, AcquireLocalCommitWriteLease, LoadRepositoryWorkspace,
     FindLocalCommitByMarker, PinReleaseSetLocalCommitParent, CreateLocalCommit, ResolveHead,
     FailTerminal, ReleaseLocalCommitWriteLease
<1>8. CASE AdoptWorkspaceHead
  <2>1. CASE ReadyAt(adopter.version)
    <3>1. row' = [row EXCEPT !.rev = adopter.head, !.version = row.version + 1]
      BY <1>8, <2>1 DEF AdoptWorkspaceHead
    <3>2. row'.rev = adopter.head
      BY <1>1, <3>1 DEF Rows
    <3>3. row.rev <= adopter.head /\ adopter.head \in Int
      BY <2>1, HEADType DEF ReadyAt, Inv, SnapshotsHold, TypeOK, Adopters
    <3> QED
      BY <1>1, <3>2, <3>3
  <2>2. CASE ~ReadyAt(adopter.version)
    <3>1. row' = row
      BY <1>8, <2>2 DEF AdoptWorkspaceHead
    <3> QED
      BY <1>2, <3>1
  <2> QED
    BY <2>1, <2>2
<1>9. CASE LeaseExpires \/ Edit \/ CommitOutside \/ AuditHead
  <2>1. row' = row
    BY <1>9 DEF LeaseExpires, Edit, CommitOutside, AuditHead
  <2> QED
    BY <1>2, <2>1
<1>10. CASE UNCHANGED vars
  BY <1>2, <1>10 DEF vars
<1> QED
  BY <1>2, <1>3, <1>4, <1>5, <1>6, <1>7, <1>8, <1>9, <1>10 DEF Next

(* The recorded revision only moves forward (RevisionOnlyAdvances), however     *)
(* many deliveries and adoptions have read the row: the version compared by     *)
(* AdvanceRepositoryWorkspaceRevision is what keeps it so, and the write        *)
(* leases are not needed for it.                                                *)
THEOREM RevisionAdvances == Spec => RevisionOnlyAdvances
<1> QED
  BY Invariance, StepAdvances, PTL DEF Spec, RevisionOnlyAdvances

------------------------------------------------------------------------------
(***************************************************************************)
(* Operations tell the log: what deliveries and operations can rely on.    *)
(***************************************************************************)

(* Nothing was committed for o but by a delivery that held both leases, and     *)
(* none of it left HEAD before it was recorded.                                 *)
Known(o) == ~Buried(o) /\ \A i \in CommitsOf(o) : ~log[i].late

(* Between two places in the history, and after the first, o has a commit;      *)
(* no other operation has.                                                      *)
HasCommit(o, from, to) == \E i \in CommitsOf(o) : from < i /\ i <= to
NobodyElse(o, from, to) == \A i \in (from + 1)..to : log[i].of \in {o, Outside} \/ log[i].late

(* The delivery has looked for its marker and found none, and made no commit.   *)
FoundNone(e) ==
  \/ ex[e].pc \in {"pin", "create"}
  \/ ex[e].pc = "fail" /\ ex[e].reason \in {"HEAD_DRIFT", "NO_CHANGES"}

(* The delivery has a parent for its commit. *)
HasParent(e) == ex[e].pc \in {"pin", "create", "resolve", "finalize"}

(* What a delivery can rely on, whatever happened since it looked: that there   *)
(* is no commit of its operation as long as it has the job, that nobody else    *)
(* committed after its parent as long as it has the write lease, and that what  *)
(* it is about to record is there.                                              *)
DeliveryKnows(e) ==
  /\ e[2] > job[e[1]].claims => ex[e].pc = "off"
  /\ HasParent(e) => ex[e].parent \in Int
  /\ FoundNone(e) /\ HoldsJob(e) /\ Known(e[1]) => CommitsOf(e[1]) = {}
  /\ HasParent(e) /\ OwnsLease(e) => NobodyElse(e[1], ex[e].parent, HEAD)
  /\ ex[e].pc = "resolve" => HasCommit(e[1], ex[e].parent, HEAD)
  /\ ex[e].pc = "finalize" => HasCommit(e[1], ex[e].parent, ex[e].result)

(* What an operation's row says of the history: while it is open, its commit,   *)
(* if there is one, is at HEAD, where the next delivery looks for it.           *)
OperationKnows(o) ==
  /\ op[o].state = "ABSENT" => /\ job[o].state = "NONE" /\ job[o].claims = 0
                               /\ CommitsOf(o) = {}
  /\ op[o].reason # "none" => op[o].state = "FAILED"
  /\ op[o].state = "REQUESTED" /\ Known(o) /\ CommitsOf(o) # {} => HEAD \in CommitsOf(o)
  /\ Known(o) => \A i, j \in CommitsOf(o) : i = j
  /\ Known(o) /\ op[o].reason \in {"HEAD_DRIFT", "NO_CHANGES"} => CommitsOf(o) = {}
  /\ op[o].state = "COMMITTED" => /\ op[o].parent \in Int
                                  /\ HasCommit(o, op[o].parent, op[o].result)
                                  /\ NobodyElse(o, op[o].parent, op[o].result)

LogIsKnown ==
  /\ \A e \in Executors : DeliveryKnows(e)
  /\ \A o \in Ops : OperationKnows(o)

IInv == Inv /\ LogIsKnown

------------------------------------------------------------------------------
(* A state in which nothing was committed since says the same of the log. *)
LEMMA SameLog ==
  ASSUME UNCHANGED log
  PROVE  /\ HEAD' = HEAD
         /\ \A o : Known(o)' = Known(o) /\ CommitsOf(o)' = CommitsOf(o)
BY DEF HEAD, Known, CommitsOf, Buried

(* A delivery that does not move knows what it knew, unless it gains a lease,   *)
(* when nothing is committed.                                                   *)
LEMMA DeliveryStays ==
  ASSUME IInv, UNCHANGED log, NEW f \in Executors, ex'[f] = ex[f],
         HoldsJob(f)' => HoldsJob(f), OwnsLease(f)' => OwnsLease(f),
         job'[f[1]].claims >= job[f[1]].claims,
         job[f[1]].claims \in Int, job'[f[1]].claims \in Int
  PROVE  DeliveryKnows(f)'
<1>0. DeliveryKnows(f) /\ f[2] \in Int
  BY ExecutorParts DEF IInv, LogIsKnown
<1>1. (f[2] > job[f[1]].claims => ex[f].pc = "off")'
  BY <1>0 DEF DeliveryKnows
<1>2. (HasParent(f) => ex[f].parent \in Int)'
  BY <1>0 DEF DeliveryKnows, HasParent
<1>3. (FoundNone(f) /\ HoldsJob(f) /\ Known(f[1]) => CommitsOf(f[1]) = {})'
  <2>1. FoundNone(f)' => FoundNone(f)
    BY DEF FoundNone
  <2> QED BY <1>0, <2>1, SameLog DEF DeliveryKnows
<1>4. (HasParent(f) /\ OwnsLease(f) => NobodyElse(f[1], ex[f].parent, HEAD))'
  BY <1>0 DEF DeliveryKnows, HasParent, NobodyElse, HEAD
<1>5. (ex[f].pc = "resolve" => HasCommit(f[1], ex[f].parent, HEAD))'
  BY <1>0 DEF DeliveryKnows, HasCommit, HEAD, CommitsOf
<1>6. (ex[f].pc = "finalize" => HasCommit(f[1], ex[f].parent, ex[f].result))'
  BY <1>0 DEF DeliveryKnows, HasCommit, CommitsOf
<1> QED
  BY <1>1, <1>2, <1>3, <1>4, <1>5, <1>6 DEF DeliveryKnows

(* So does an operation whose row stays. *)
LEMMA OperationStays ==
  ASSUME IInv, UNCHANGED log, NEW o \in Ops, op'[o] = op[o],
         op[o].state = "ABSENT" => job'[o] = job[o]
  PROVE  OperationKnows(o)'
<1>0. OperationKnows(o)
  BY DEF IInv, LogIsKnown
<1>1. (op[o].state = "ABSENT" => job[o].state = "NONE" /\ job[o].claims = 0 /\ CommitsOf(o) = {})'
  BY <1>0, SameLog DEF OperationKnows
<1>2. (op[o].state = "COMMITTED" => /\ op[o].parent \in Int
                                    /\ HasCommit(o, op[o].parent, op[o].result)
                                    /\ NobodyElse(o, op[o].parent, op[o].result))'
  BY <1>0 DEF OperationKnows, HasCommit, NobodyElse, CommitsOf
<1>3. Known(o)' = Known(o) /\ CommitsOf(o)' = CommitsOf(o) /\ HEAD' = HEAD
  BY SameLog
<1> QED
  BY <1>0, <1>1, <1>2, <1>3 DEF OperationKnows

(* What the other handlers' steps do to a delivery: none of them gives it a     *)
(* lease, and claims are never taken back.                                      *)
LEMMA OthersStay ==
  ASSUME IInv, UNCHANGED log, NEW e \in Executors, TypeOK',
         \A f \in Executors : f # e => ex'[f] = ex[f],
         \A o \in Ops : \/ job'[o] = job[o]
                        \/ job'[o].state # "LEASED" /\ job'[o].claims = job[o].claims
                        \/ o = e[1] /\ job'[o].claims = e[2] /\ job[o].claims = e[2] - 1,
         \/ lease' = lease
         \/ lease'.live = FALSE
         \/ lease'.holder = e,
         NEW f \in Executors, f # e
  PROVE  DeliveryKnows(f)'
<1>1. f[1] \in Ops /\ f[2] \in Int /\ e[2] \in Int /\ (f[1] = e[1] => f[2] # e[2])
  BY ExecutorParts
<1>2. job[f[1]].claims \in Int /\ job'[f[1]].claims \in Int
  BY <1>1 DEF IInv, Inv, TypeOK, JobRecords
<1>3. job'[f[1]].claims >= job[f[1]].claims
  BY <1>1, <1>2
<1>4. HoldsJob(f)' => HoldsJob(f)
  BY <1>1, <1>2 DEF HoldsJob
<1>5. OwnsLease(f)' => OwnsLease(f)
  BY DEF OwnsLease
<1> QED
  BY <1>2, <1>3, <1>4, <1>5, DeliveryStays

(* A delivery that is past its commit, or has not yet looked, relies on nothing.*)
LEMMA ReliesOnNothing ==
  ASSUME NEW e \in Executors,
         ex'[e].pc \notin {"pin", "create", "resolve", "finalize"},
         ex'[e].pc = "fail" => ex'[e].reason \notin {"HEAD_DRIFT", "NO_CHANGES"},
         ex'[e].pc # "off" => ~(e[2] > job'[e[1]].claims)
  PROVE  DeliveryKnows(e)'
BY DEF DeliveryKnows, HasParent, FoundNone

(* A delivery that is at work was claimed. *)
LEMMA AtWorkIsClaimed ==
  ASSUME IInv, NEW e \in Executors, ex[e].pc # "off"
  PROVE  ~(e[2] > job[e[1]].claims)
BY DEF IInv, LogIsKnown, DeliveryKnows

(* A job that is leased is that of an open operation. *)
LEMMA LeasedIsOpen ==
  ASSUME IInv, NEW o \in Ops, job[o].state \in {"AVAILABLE", "LEASED", "DEAD"}
  PROVE  op[o].state = "REQUESTED"
BY DEF IInv, LogIsKnown, OperationKnows, Inv, TypeOK, OpRecords, SettledIsDone

------------------------------------------------------------------------------
(* One lemma per kind of step. *)

(* Only the delivery e and perhaps the write lease change. *)
LEMMA OnlyDelivery ==
  ASSUME IInv, TypeOK', NEW e \in Executors, UNCHANGED <<log, op, job>>,
         \A f \in Executors : f # e => ex'[f] = ex[f],
         \/ lease' = lease
         \/ lease'.live = FALSE
         \/ lease'.holder = e,
         DeliveryKnows(e)'
  PROVE  LogIsKnown'
<1>1. ASSUME NEW f \in Executors PROVE DeliveryKnows(f)'
  BY OthersStay
<1>2. ASSUME NEW o \in Ops PROVE OperationKnows(o)'
  BY OperationStays
<1> QED
  BY <1>1, <1>2 DEF LogIsKnown

(* What releasing a lease can do. *)
LEMMA ReleasedFades ==
  ASSUME TypeOK, NEW e
  PROVE  Released(e) = lease \/ Released(e).live = FALSE
BY DEF Released, TypeOK, Leases

(* A delivery that gives up is over. *)
LEMMA GivenUp ==
  ASSUME TypeOK, NEW e \in Executors, GiveUp(e)
  PROVE  ex'[e].pc = "off" /\ \A f \in Executors : f # e => ex'[f] = ex[f]
BY DEF GiveUp, Off, TypeOK

LEMMA RequestTells ==
  ASSUME IInv, TypeOK', NEW o \in Ops, RequestReleaseSetLocalCommit(o)
  PROVE  LogIsKnown'
<1> USE DEF RequestReleaseSetLocalCommit
<1>1. UNCHANGED log /\ UNCHANGED <<ex, lease>>
  BY DEF repo
<1>2. /\ op \in [Ops -> OpRecords(HEAD)] /\ job \in [Ops -> JobRecords]
  BY DEF IInv, Inv, TypeOK
<1>3. /\ op'[o].state = "REQUESTED" /\ op'[o].reason = op[o].reason
      /\ \A x \in Ops : x # o => op'[x] = op[x] /\ job'[x] = job[x]
      /\ job'[o].state = "AVAILABLE" /\ job'[o].claims = job[o].claims
  BY <1>2 DEF OpRecords, JobRecords
<1>4. OperationKnows(o) /\ op[o].state = "ABSENT"
  BY DEF IInv, LogIsKnown
<1>5. CommitsOf(o)' = {}
  BY <1>1, <1>4, SameLog DEF OperationKnows
<1>6. op'[o].reason = "none"
  BY <1>3, <1>4 DEF OperationKnows
<1>7. OperationKnows(o)'
  BY <1>3, <1>5, <1>6 DEF OperationKnows
<1>8. ASSUME NEW x \in Ops PROVE OperationKnows(x)'
  BY <1>1, <1>3, <1>7, OperationStays
<1>9. ASSUME NEW f \in Executors PROVE DeliveryKnows(f)'
  <2>1. f[1] \in Ops
    BY ExecutorParts
  <2>2. job'[f[1]].claims = job[f[1]].claims /\ job[f[1]].claims \in Int
    BY <1>2, <1>3, <2>1 DEF JobRecords
  <2>3. HoldsJob(f)' => HoldsJob(f)
    BY <1>3, <2>1 DEF HoldsJob
  <2>4. OwnsLease(f)' => OwnsLease(f)
    BY <1>1 DEF OwnsLease
  <2> QED BY <1>1, <2>2, <2>3, <2>4, DeliveryStays
<1> QED
  BY <1>8, <1>9 DEF LogIsKnown

LEMMA JobExpiresTells ==
  ASSUME IInv, TypeOK', NEW o \in Ops, JobExpires(o)
  PROVE  LogIsKnown'
<1>1. UNCHANGED log /\ UNCHANGED <<ex, lease, op>>
  BY DEF JobExpires, repo
<1>2. job \in [Ops -> JobRecords]
  BY DEF IInv, Inv, TypeOK
<1>3. /\ \A x \in Ops : x # o => job'[x] = job[x]
      /\ job[o].state = "LEASED"
      /\ job'[o].state # "LEASED" /\ job'[o].claims = job[o].claims
  BY <1>2 DEF JobRecords, JobExpires
<1>4. ASSUME NEW x \in Ops PROVE OperationKnows(x)'
  BY <1>1, <1>3, OperationStays, LeasedIsOpen
<1>5. ASSUME NEW f \in Executors PROVE DeliveryKnows(f)'
  <2>1. f[1] \in Ops
    BY ExecutorParts
  <2>2. job'[f[1]].claims = job[f[1]].claims /\ job[f[1]].claims \in Int
    BY <1>2, <1>3, <2>1 DEF JobRecords
  <2>3. HoldsJob(f)' => HoldsJob(f)
    BY <1>3, <2>1 DEF HoldsJob
  <2>4. OwnsLease(f)' => OwnsLease(f)
    BY <1>1 DEF OwnsLease
  <2> QED BY <1>1, <2>2, <2>3, <2>4, DeliveryStays
<1> QED
  BY <1>4, <1>5 DEF LogIsKnown

LEMMA ClaimTells ==
  ASSUME IInv, TypeOK', NEW e \in Executors, Claim(e)
  PROVE  LogIsKnown'
<1> USE DEF Claim
<1>0. e[1] \in Ops /\ e[2] \in Int
  BY ExecutorParts
<1>1. UNCHANGED log /\ UNCHANGED <<op, lease>>
  BY DEF repo
<1>2. ex'[e].pc = "acquire" /\ \A f \in Executors : f # e => ex'[f] = ex[f]
  BY DEF IInv, Inv, TypeOK, Off
<1>3. /\ job'[e[1]].claims = e[2] /\ job[e[1]].claims = e[2] - 1
      /\ \A o \in Ops : o # e[1] => job'[o] = job[o]
      /\ op[e[1]].state = "REQUESTED"
  BY <1>0 DEF IInv, Inv, TypeOK, JobRecords
<1>4. DeliveryKnows(e)'
  BY <1>0, <1>2, <1>3, ReliesOnNothing
<1>5. ASSUME NEW f \in Executors PROVE DeliveryKnows(f)'
  <2>1. \A o \in Ops : \/ job'[o] = job[o]
                       \/ job'[o].state # "LEASED" /\ job'[o].claims = job[o].claims
                       \/ o = e[1] /\ job'[o].claims = e[2] /\ job[o].claims = e[2] - 1
    BY <1>3
  <2> QED BY <1>1, <1>2, <1>4, <2>1, OthersStay
<1>6. ASSUME NEW o \in Ops PROVE OperationKnows(o)'
  BY <1>1, <1>3, OperationStays
<1> QED
  BY <1>5, <1>6 DEF LogIsKnown

LEMMA AcquireTells ==
  ASSUME IInv, TypeOK', NEW e \in Executors, AcquireLocalCommitWriteLease(e)
  PROVE  LogIsKnown'
<1> USE DEF AcquireLocalCommitWriteLease
<1>1. UNCHANGED <<log, op, job>>
  BY DEF repo
<1>2. /\ ex'[e].pc \in {"load", "off"} /\ \A f \in Executors : f # e => ex'[f] = ex[f]
      /\ ex[e].pc = "acquire"
  <2>1. ex \in [Executors -> Deliveries(HEAD)] /\ TypeOK
    BY DEF IInv, Inv, TypeOK
  <2>2. CASE GiveUp(e)
    BY <2>1, <2>2, GivenUp
  <2>3. CASE ex' = [ex EXCEPT ![e] = [@ EXCEPT !.pc = "load", !.fence = lease.fence + 1]]
    BY <2>1, <2>3 DEF Deliveries
  <2> QED BY <2>2, <2>3
<1>3. lease' = lease \/ lease'.holder = e
  OBVIOUS
<1>4. DeliveryKnows(e)'
  BY <1>1, <1>2, ReliesOnNothing, AtWorkIsClaimed
<1> QED
  BY <1>1, <1>2, <1>3, <1>4, OnlyDelivery

LEMMA LoadTells ==
  ASSUME IInv, TypeOK', NEW e \in Executors, LoadRepositoryWorkspace(e)
  PROVE  LogIsKnown'
<1> USE DEF LoadRepositoryWorkspace
<1>1. UNCHANGED <<log, op, job>>
  BY DEF repo
<1>2. /\ \/ ex'[e].pc = "find"
         \/ ex'[e].pc = "fail" /\ ex'[e].reason = "WORKSPACE_QUARANTINED"
      /\ \A f \in Executors : f # e => ex'[f] = ex[f]
      /\ ex[e].pc = "load"
  BY DEF IInv, Inv, TypeOK, Deliveries
<1>3. lease' = lease \/ lease'.live = FALSE
  BY ReleasedFades DEF IInv, Inv
<1>4. DeliveryKnows(e)'
  BY <1>1, <1>2, ReliesOnNothing, AtWorkIsClaimed
<1> QED
  BY <1>1, <1>2, <1>3, <1>4, OnlyDelivery

LEMMA QuarantineByDeliveryTells ==
  ASSUME IInv, TypeOK', NEW e \in Executors, QuarantineRepositoryWorkspace(e)
  PROVE  LogIsKnown'
<1> USE DEF QuarantineRepositoryWorkspace
<1>1. UNCHANGED <<log, op, job, lease>>
  BY DEF repo
<1>2. /\ \/ ex'[e].pc = "off"
         \/ ex'[e].pc = "fail" /\ ex'[e].reason = "MARKER_DRIFT"
      /\ \A f \in Executors : f # e => ex'[f] = ex[f]
      /\ ex[e].pc = "quarantine"
  <2>1. ex \in [Executors -> Deliveries(HEAD)] /\ TypeOK
    BY DEF IInv, Inv, TypeOK
  <2>2. CASE GiveUp(e)
    BY <2>1, <2>2, GivenUp
  <2>3. CASE ex' = [ex EXCEPT ![e] = [@ EXCEPT !.pc = "fail", !.reason = "MARKER_DRIFT"]]
    BY <2>1, <2>3 DEF Deliveries
  <2> QED BY <2>2, <2>3
<1>3. DeliveryKnows(e)'
  BY <1>1, <1>2, ReliesOnNothing, AtWorkIsClaimed
<1> QED
  BY <1>1, <1>2, <1>3, OnlyDelivery

LEMMA ReleaseTells ==
  ASSUME IInv, TypeOK', NEW e \in Executors, ReleaseLocalCommitWriteLease(e)
  PROVE  LogIsKnown'
<1> USE DEF ReleaseLocalCommitWriteLease
<1>1. UNCHANGED <<log, op, job>>
  BY DEF repo
<1>2. ex'[e].pc = "off" /\ \A f \in Executors : f # e => ex'[f] = ex[f]
  BY GivenUp DEF IInv, Inv
<1>3. lease' = lease \/ lease'.live = FALSE
  BY ReleasedFades DEF IInv, Inv
<1>4. DeliveryKnows(e)'
  BY <1>2, ReliesOnNothing
<1> QED
  BY <1>1, <1>2, <1>3, <1>4, OnlyDelivery

(* No commit of an open operation that HEAD does not carry the marker of. *)
LEMMA NoMarkerNoCommit ==
  ASSUME IInv, NEW e \in Executors, HoldsJob(e), Known(e[1]),
         ~(HEAD > 0 /\ log[HEAD].of = e[1])
  PROVE  CommitsOf(e[1]) = {}
<1>1. e[1] \in Ops
  BY ExecutorParts
<1>2. op[e[1]].state = "REQUESTED"
  BY <1>1, LeasedIsOpen DEF HoldsJob
<1>3. HEAD \in CommitsOf(e[1]) => HEAD > 0 /\ log[HEAD].of = e[1]
  BY DEF IInv, Inv, TypeOK, Logs, CommitsOf
<1> QED
  BY <1>1, <1>2, <1>3 DEF IInv, LogIsKnown, OperationKnows

LEMMA FindTells ==
  ASSUME IInv, TypeOK', NEW e \in Executors, FindLocalCommitByMarker(e)
  PROVE  LogIsKnown'
<1> DEFINE found == HEAD > 0 /\ log[HEAD].of = e[1]
<1>1. UNCHANGED <<log, op, job>> /\ ex[e].pc = "find"
  BY DEF FindLocalCommitByMarker, repo
<1>2. ex \in [Executors -> Deliveries(HEAD)] /\ TypeOK /\ HEAD \in Nat /\ log \in Logs
  BY HEADType DEF IInv, Inv, TypeOK
<1>3. \A f \in Executors : f # e => ex'[f] = ex[f]
  BY <1>2 DEF FindLocalCommitByMarker
<1>4. \/ ex'[e].pc = "quarantine"
      \/ found /\ ex'[e].pc = "finalize" /\ ex'[e].parent = HEAD - 1 /\ ex'[e].result = HEAD
      \/ ~found /\ ex'[e].pc = "fail"
      \/ ~found /\ ex'[e].pc = "pin" /\ ex'[e].parent = HEAD
  <2>1. \/ ex' = [ex EXCEPT ![e] = [@ EXCEPT !.pc = "quarantine"]]
        \/ /\ found
           /\ ex' = [ex EXCEPT ![e] = [@ EXCEPT !.pc = "finalize", !.parent = HEAD - 1, !.result = HEAD]]
        \/ ~found /\ ex' = [ex EXCEPT ![e] = [@ EXCEPT !.pc = "fail", !.reason = "HEAD_DRIFT"]]
        \/ ~found /\ ex' = [ex EXCEPT ![e] = [@ EXCEPT !.pc = "pin", !.parent = HEAD]]
    BY DEF FindLocalCommitByMarker
  <2>2. CASE ex' = [ex EXCEPT ![e] = [@ EXCEPT !.pc = "quarantine"]]
    BY <1>2, <2>2 DEF Deliveries
  <2>3. CASE found /\ ex' = [ex EXCEPT ![e] = [@ EXCEPT !.pc = "finalize", !.parent = HEAD - 1, !.result = HEAD]]
    BY <1>2, <2>3 DEF Deliveries
  <2>4. CASE ~found /\ ex' = [ex EXCEPT ![e] = [@ EXCEPT !.pc = "fail", !.reason = "HEAD_DRIFT"]]
    BY <1>2, <2>4 DEF Deliveries
  <2>5. CASE ~found /\ ex' = [ex EXCEPT ![e] = [@ EXCEPT !.pc = "pin", !.parent = HEAD]]
    BY <1>2, <2>5 DEF Deliveries
  <2> QED BY <2>1, <2>2, <2>3, <2>4, <2>5
<1>5. lease' = lease \/ lease'.live = FALSE
  BY <1>2, ReleasedFades DEF FindLocalCommitByMarker
<1>6. ~(e[2] > job[e[1]].claims)
  BY <1>1, AtWorkIsClaimed
<1>7. DeliveryKnows(e)'
  <2>1. CASE ex'[e].pc = "quarantine"
    BY <1>1, <1>6, <2>1, ReliesOnNothing
  <2>2. CASE found /\ ex'[e].pc = "finalize" /\ ex'[e].parent = HEAD - 1 /\ ex'[e].result = HEAD
    <3>1. HEAD' = HEAD /\ HEAD \in CommitsOf(e[1])' /\ log'[HEAD].of = e[1]
      BY <1>1, <1>2, <2>2 DEF CommitsOf, HEAD, Logs
    <3>2. HasCommit(e[1], ex[e].parent, ex[e].result)'
      BY <1>2, <2>2, <3>1 DEF HasCommit
    <3>3. NobodyElse(e[1], ex[e].parent, HEAD)'
      BY <1>2, <2>2, <3>1 DEF NobodyElse
    <3>4. ex'[e].parent \in Int
      BY <1>2, <2>2
    <3> QED BY <1>1, <1>6, <2>2, <3>2, <3>3, <3>4 DEF DeliveryKnows, FoundNone
  <2>3. CASE ~found /\ (ex'[e].pc = "fail" \/ (ex'[e].pc = "pin" /\ ex'[e].parent = HEAD))
    <3>1. (HoldsJob(e) /\ Known(e[1]) => CommitsOf(e[1]) = {})'
      <4>1. HoldsJob(e)' = HoldsJob(e) /\ Known(e[1])' = Known(e[1]) /\ CommitsOf(e[1])' = CommitsOf(e[1])
        BY <1>1, SameLog DEF HoldsJob
      <4> QED BY <2>3, <4>1, NoMarkerNoCommit
    <3>2. HasParent(e)' => ex'[e].parent = HEAD /\ HEAD' = HEAD
      BY <1>1, <2>3 DEF HasParent, HEAD
    <3>3. (HasParent(e) => NobodyElse(e[1], ex[e].parent, HEAD))'
      BY <1>2, <3>2 DEF NobodyElse
    <3> QED BY <1>1, <1>2, <1>6, <2>3, <3>1, <3>2, <3>3 DEF DeliveryKnows
  <2> QED BY <1>4, <2>1, <2>2, <2>3
<1> QED
  BY <1>1, <1>3, <1>5, <1>7, OnlyDelivery

LEMMA ResolveTells ==
  ASSUME IInv, TypeOK', NEW e \in Executors, ResolveHead(e)
  PROVE  LogIsKnown'
<1>1. UNCHANGED <<log, op, job, lease>> /\ ex[e].pc = "resolve"
  BY DEF ResolveHead, repo
<1>2. /\ \A f \in Executors : f # e => ex'[f] = ex[f]
      /\ ex'[e].pc = "finalize" /\ ex'[e].result = HEAD /\ ex'[e].parent = ex[e].parent
      /\ ex'[e].fence = ex[e].fence
  BY DEF ResolveHead, IInv, Inv, TypeOK, Deliveries
<1>3. DeliveryKnows(e) /\ HasParent(e)
  BY <1>1 DEF IInv, LogIsKnown, HasParent
<1>4. HasCommit(e[1], ex[e].parent, ex[e].result)'
  BY <1>1, <1>2, <1>3 DEF DeliveryKnows, HasCommit, CommitsOf, HEAD
<1>5. (OwnsLease(e) => NobodyElse(e[1], ex[e].parent, HEAD))'
  BY <1>1, <1>2, <1>3 DEF DeliveryKnows, NobodyElse, OwnsLease, HEAD
<1>6. DeliveryKnows(e)'
  BY <1>1, <1>2, <1>3, <1>4, <1>5 DEF DeliveryKnows, FoundNone
<1> QED
  BY <1>1, <1>2, <1>6, OnlyDelivery

LEMMA PinTells ==
  ASSUME IInv, TypeOK', NEW e \in Executors, PinReleaseSetLocalCommitParent(e)
  PROVE  LogIsKnown'
<1> DEFINE o == e[1]
<1>0. o \in Ops
  BY ExecutorParts
<1>1. UNCHANGED <<log, job>> /\ ex[e].pc = "pin"
  BY DEF PinReleaseSetLocalCommitParent, repo
<1>2. ex \in [Executors -> Deliveries(HEAD)] /\ op \in [Ops -> OpRecords(HEAD)] /\ TypeOK
  BY DEF IInv, Inv, TypeOK
<1>3. \/ /\ ex' = [ex EXCEPT ![e] = [@ EXCEPT !.pc = "create", !.version = ex[e].version + 1]]
         /\ op[o].state = "REQUESTED" /\ lease' = lease
         /\ op' = [op EXCEPT ![o] = [@ EXCEPT !.parent = ex[e].parent, !.version = op[o].version + 1]]
      \/ GiveUp(e) /\ lease' = Released(e) /\ op' = op
  BY DEF PinReleaseSetLocalCommitParent
<1>4. lease' = lease \/ lease'.live = FALSE
  BY <1>2, <1>3, ReleasedFades
<1>5. \A f \in Executors : f # e => ex'[f] = ex[f]
  BY <1>2, <1>3, GivenUp
<1>6. \/ ex'[e].pc = "create" /\ ex'[e].parent = ex[e].parent /\ ex'[e].fence = ex[e].fence /\ lease' = lease
      \/ ex'[e].pc = "off"
  <2>1. CASE GiveUp(e)
    BY <1>2, <2>1, GivenUp
  <2>2. CASE ex' = [ex EXCEPT ![e] = [@ EXCEPT !.pc = "create", !.version = ex[e].version + 1]] /\ lease' = lease
    BY <1>2, <2>2 DEF Deliveries
  <2> QED BY <1>3, <2>1, <2>2
<1>7. DeliveryKnows(e)'
  <2>1. CASE ex'[e].pc = "off"
    BY <2>1, ReliesOnNothing
  <2>2. CASE ex'[e].pc = "create" /\ ex'[e].parent = ex[e].parent /\ ex'[e].fence = ex[e].fence /\ lease' = lease
    <3>1. DeliveryKnows(e) /\ HasParent(e) /\ FoundNone(e)
      BY <1>1 DEF IInv, LogIsKnown, HasParent, FoundNone
    <3>2. (HoldsJob(e) /\ Known(e[1]) => CommitsOf(e[1]) = {})'
      BY <1>1, <3>1, SameLog DEF DeliveryKnows, HoldsJob
    <3>3. (OwnsLease(e) => NobodyElse(e[1], ex[e].parent, HEAD))'
      BY <1>1, <2>2, <3>1 DEF DeliveryKnows, NobodyElse, OwnsLease, HEAD
    <3> QED BY <1>1, <2>2, <3>1, <3>2, <3>3, AtWorkIsClaimed DEF DeliveryKnows
  <2> QED BY <1>6, <2>1, <2>2
<1>8. ASSUME NEW f \in Executors PROVE DeliveryKnows(f)'
  BY <1>1, <1>4, <1>5, <1>7, OthersStay
<1>9. ASSUME NEW x \in Ops PROVE OperationKnows(x)'
  <2>1. CASE op'[x] = op[x]
    BY <1>1, <2>1, OperationStays
  <2>2. CASE op'[x] # op[x]
    <3>1. x = o /\ op[o].state = "REQUESTED" /\ op'[o].state = "REQUESTED" /\ op'[o].reason = op[o].reason
      <4>1. /\ op' = [op EXCEPT ![o] = [@ EXCEPT !.parent = ex[e].parent, !.version = op[o].version + 1]]
            /\ op[o].state = "REQUESTED"
        BY <1>3, <2>2
      <4>2. x = o
        BY <1>2, <2>2, <4>1
      <4>3. op'[o] = [op[o] EXCEPT !.parent = ex[e].parent, !.version = op[o].version + 1]
        BY <1>0, <1>2, <4>1
      <4> QED BY <1>0, <1>2, <4>1, <4>2, <4>3 DEF OpRecords
    <3>2. OperationKnows(o)
      BY <1>0 DEF IInv, LogIsKnown
    <3>3. Known(o)' = Known(o) /\ CommitsOf(o)' = CommitsOf(o) /\ HEAD' = HEAD
      BY <1>1, SameLog
    <3> QED BY <3>1, <3>2, <3>3 DEF OperationKnows
  <2> QED BY <2>1, <2>2
<1> QED
  BY <1>8, <1>9 DEF LogIsKnown

LEMMA FinalizeTells ==
  ASSUME IInv, TypeOK', NEW e \in Executors, Finalize(e)
  PROVE  LogIsKnown'
<1> DEFINE o == e[1]
<1>0. o \in Ops
  BY ExecutorParts
<1>1. UNCHANGED <<log, lease>> /\ ex[e].pc = "finalize"
  BY DEF Finalize, repo
<1>2. /\ ex \in [Executors -> Deliveries(HEAD)] /\ op \in [Ops -> OpRecords(HEAD)]
      /\ job \in [Ops -> JobRecords] /\ TypeOK
  BY DEF IInv, Inv, TypeOK
<1>3. CASE ~Finalizable(e)
  <2>1. UNCHANGED <<op, job>> /\ GiveUp(e)
    BY <1>3 DEF Finalize
  <2>2. ex'[e].pc = "off" /\ \A f \in Executors : f # e => ex'[f] = ex[f]
    BY <1>2, <2>1, GivenUp
  <2>3. DeliveryKnows(e)'
    BY <2>2, ReliesOnNothing
  <2> QED BY <1>1, <2>1, <2>2, <2>3, OnlyDelivery
<1>4. CASE Finalizable(e)
  <2>1. /\ op' = [op EXCEPT ![o] = [@ EXCEPT !.state = "COMMITTED", !.parent = ex[e].parent,
                                             !.result = ex[e].result, !.version = op[o].version + 1]]
        /\ job' = [job EXCEPT ![o].state = "DONE"]
        /\ ex' = [ex EXCEPT ![e].pc = "release"]
    BY <1>4 DEF Finalize
  <2>2. ex'[e].pc = "release" /\ \A f \in Executors : f # e => ex'[f] = ex[f]
    BY <1>2, <2>1 DEF Deliveries
  <2>3. /\ job'[o].state = "DONE" /\ job'[o].claims = job[o].claims
        /\ \A x \in Ops : x # o => job'[x] = job[x] /\ op'[x] = op[x]
    BY <1>0, <1>2, <2>1 DEF JobRecords
  <2>4. DeliveryKnows(e)'
    BY <1>1, <2>2, <2>3, ReliesOnNothing, AtWorkIsClaimed
  <2>5. ASSUME NEW f \in Executors PROVE DeliveryKnows(f)'
    BY <1>1, <2>2, <2>3, <2>4, OthersStay
  <2>6. OperationKnows(o)'
    <3>1. /\ op'[o].state = "COMMITTED" /\ op'[o].parent = ex[e].parent
          /\ op'[o].result = ex[e].result /\ op'[o].reason = op[o].reason
          /\ op[o].state = "REQUESTED"
      BY <1>0, <1>2, <1>4, <2>1 DEF OpRecords, Finalizable
    <3>2. OperationKnows(o) /\ DeliveryKnows(e) /\ HasParent(e)
      BY <1>0, <1>1 DEF IInv, LogIsKnown, HasParent
    <3>3. Known(o)' = Known(o) /\ CommitsOf(o)' = CommitsOf(o) /\ HEAD' = HEAD
      BY <1>1, SameLog
    <3>4. HasCommit(o, op[o].parent, op[o].result)'
      BY <1>1, <3>1, <3>2 DEF DeliveryKnows, HasCommit, CommitsOf
    <3>5. NobodyElse(o, op[o].parent, op[o].result)'
      <4>1. NobodyElse(o, ex[e].parent, HEAD) /\ ex[e].parent \in Int
        BY <1>4, <3>2 DEF DeliveryKnows, Finalizable
      <4>2. ex[e].result <= HEAD /\ ex[e].result \in Int /\ HEAD \in Int
        BY <1>2, HEADType DEF Deliveries
      <4>3. (ex[e].parent + 1)..ex[e].result \subseteq (ex[e].parent + 1)..HEAD
        BY <4>1, <4>2
      <4> QED BY <1>1, <3>1, <4>1, <4>3 DEF NobodyElse
    <3>6. op'[o].parent \in Int
      BY <3>1, <3>2 DEF DeliveryKnows
    <3> QED BY <3>1, <3>2, <3>3, <3>4, <3>5, <3>6 DEF OperationKnows
  <2>7. ASSUME NEW x \in Ops PROVE OperationKnows(x)'
    BY <1>1, <2>3, <2>6, OperationStays
  <2> QED BY <2>5, <2>7 DEF LogIsKnown
<1> QED
  BY <1>3, <1>4

LEMMA FailTells ==
  ASSUME IInv, TypeOK', NEW e \in Executors, FailTerminal(e)
  PROVE  LogIsKnown'
<1> DEFINE o == e[1]
           possible == HoldsJob(e) /\ op[o].state = "REQUESTED" /\ op[o].version = ex[e].version
<1>0. o \in Ops
  BY ExecutorParts
<1>1. UNCHANGED <<log, lease>> /\ ex[e].pc = "fail"
  BY DEF FailTerminal, repo
<1>2. /\ ex \in [Executors -> Deliveries(HEAD)] /\ op \in [Ops -> OpRecords(HEAD)]
      /\ job \in [Ops -> JobRecords] /\ TypeOK
  BY DEF IInv, Inv, TypeOK
<1>3. \/ /\ possible
         /\ op' = [op EXCEPT ![o] = [@ EXCEPT !.state = "FAILED", !.reason = ex[e].reason,
                                              !.version = op[o].version + 1]]
         /\ job' = [job EXCEPT ![o].state = "DONE"]
      \/ UNCHANGED <<op, job>>
  BY DEF FailTerminal
<1>4. ex'[e].pc \in {"release", "off"} /\ \A f \in Executors : f # e => ex'[f] = ex[f]
  <2>1. ex' = [ex EXCEPT ![e] = [@ EXCEPT !.pc = "release"]] \/ ex' = [ex EXCEPT ![e] = Off]
    BY DEF FailTerminal
  <2> QED BY <1>2, <2>1 DEF Deliveries, Off
<1>5. /\ job'[o] = job[o] \/ (job'[o].state = "DONE" /\ job'[o].claims = job[o].claims)
      /\ \A x \in Ops : x # o => job'[x] = job[x] /\ op'[x] = op[x]
  BY <1>0, <1>2, <1>3 DEF JobRecords
<1>6. DeliveryKnows(e)'
  BY <1>1, <1>4, <1>5, ReliesOnNothing, AtWorkIsClaimed
<1>7. ASSUME NEW f \in Executors PROVE DeliveryKnows(f)'
  BY <1>1, <1>4, <1>5, <1>6, OthersStay
<1>8. OperationKnows(o)'
  <2>1. CASE UNCHANGED <<op, job>>
    BY <1>0, <1>1, <2>1, OperationStays
  <2>2. CASE possible /\ op' = [op EXCEPT ![o] = [@ EXCEPT !.state = "FAILED", !.reason = ex[e].reason,
                                                           !.version = op[o].version + 1]]
    <3>1. op'[o].state = "FAILED" /\ op'[o].reason = ex[e].reason
      BY <1>0, <1>2, <2>2 DEF OpRecords
    <3>2. OperationKnows(o) /\ DeliveryKnows(e)
      BY <1>0 DEF IInv, LogIsKnown
    <3>3. Known(o)' = Known(o) /\ CommitsOf(o)' = CommitsOf(o) /\ HEAD' = HEAD
      BY <1>1, SameLog
    <3>4. Known(o) /\ ex[e].reason \in {"HEAD_DRIFT", "NO_CHANGES"} => CommitsOf(o) = {}
      BY <1>1, <2>2, <3>2 DEF DeliveryKnows, FoundNone
    <3> QED BY <3>1, <3>2, <3>3, <3>4 DEF OperationKnows
  <2> QED BY <1>3, <2>1, <2>2
<1>9. ASSUME NEW x \in Ops PROVE OperationKnows(x)'
  BY <1>1, <1>5, <1>8, OperationStays
<1> QED
  BY <1>7, <1>9 DEF LogIsKnown

------------------------------------------------------------------------------
(* A commit is added at HEAD; the rest of the history stays. *)
LEMMA CommitAdds ==
  ASSUME IInv, NEW who \in Ops \union {Outside}, NEW late \in BOOLEAN, Commit(who, late)
  PROVE  /\ HEAD \in Nat /\ HEAD' = HEAD + 1
         /\ DOMAIN log = 1..HEAD /\ DOMAIN log' = 1..(HEAD + 1)
         /\ \A i \in 1..HEAD : log'[i] = log[i]
         /\ log'[HEAD + 1].of = who /\ log'[HEAD + 1].late = late
         /\ \A o \in Ops : HEAD > 0 /\ log[HEAD].of = o /\ o # who /\ op[o].state = "REQUESTED"
                             => log'[HEAD + 1].buries
<1> DEFINE buries == HEAD > 0 /\ log[HEAD].of \in Ops \ {who} /\ op[log[HEAD].of].state = "REQUESTED"
           c == [of |-> who, late |-> late, buries |-> buries]
<1>1. log \in Seq([of : Ops \union {Outside}, late : BOOLEAN, buries : BOOLEAN])
  BY DEF IInv, Inv, TypeOK, Logs
<1>2. log' = Append(log, c)
  BY DEF Commit
<1>3. c.of = who /\ c.late = late /\ c.buries = buries
  OBVIOUS
<1>4. c \in [of : Ops \union {Outside}, late : BOOLEAN, buries : BOOLEAN]
  OBVIOUS
<1> HIDE DEF c
<1>5. /\ Len(log) \in Nat /\ Len(log') = Len(log) + 1
      /\ DOMAIN log = 1..Len(log) /\ DOMAIN log' = 1..(Len(log) + 1)
      /\ \A i \in 1..Len(log) : log'[i] = log[i]
      /\ log'[Len(log) + 1] = c
  BY <1>1, <1>2, <1>4
<1> QED
  BY <1>3, <1>5 DEF HEAD

(* What is known of an operation after a commit was known before; a commit of   *)
(* its own was not late, and one of another did not bury it.                    *)
LEMMA KnownBefore ==
  ASSUME IInv, NEW who \in Ops \union {Outside}, NEW late \in BOOLEAN, Commit(who, late),
         NEW o \in Ops
  PROVE  /\ CommitsOf(o)' = IF o = who THEN CommitsOf(o) \union {HEAD + 1} ELSE CommitsOf(o)
         /\ Known(o)' => Known(o)
         /\ Known(o)' /\ o = who => ~late
         /\ Known(o)' /\ o # who /\ HEAD \in CommitsOf(o) => op[o].state # "REQUESTED"
<1>0. /\ HEAD \in Nat /\ HEAD' = HEAD + 1
      /\ DOMAIN log = 1..HEAD /\ DOMAIN log' = 1..(HEAD + 1)
      /\ \A i \in 1..HEAD : log'[i] = log[i]
      /\ log'[HEAD + 1].of = who /\ log'[HEAD + 1].late = late
  BY CommitAdds
<1>1. CommitsOf(o)' = IF o = who THEN CommitsOf(o) \union {HEAD + 1} ELSE CommitsOf(o)
  BY <1>0 DEF CommitsOf
<1>2. \A i \in CommitsOf(o) : i \in CommitsOf(o)' /\ log'[i].late = log[i].late
  BY <1>0, <1>1 DEF CommitsOf
<1>3. Buried(o) => Buried(o)'
  <2> SUFFICES ASSUME Buried(o) PROVE Buried(o)'
    OBVIOUS
  <2>1. PICK i \in 1..(HEAD - 1) : log[i].of = o /\ log[i + 1].buries
    BY DEF Buried, HEAD
  <2>2. i \in 1..((HEAD + 1) - 1) /\ log'[i].of = o /\ log'[i + 1].buries
    <3>1. i \in 1..HEAD /\ i + 1 \in 1..HEAD
      BY <1>0
    <3> QED BY <1>0, <2>1, <3>1
  <2>3. Len(log') = HEAD + 1
    BY <1>0 DEF HEAD
  <2> QED BY <2>2, <2>3 DEF Buried
<1>4. Known(o)' => Known(o)
  BY <1>2, <1>3 DEF Known
<1>5. ASSUME Known(o)', o = who PROVE ~late
  <2>1. HEAD + 1 \in CommitsOf(o)'
    BY <1>1, <1>5
  <2>2. ~log'[HEAD + 1].late
    BY <1>5, <2>1 DEF Known
  <2> QED BY <1>0, <2>2
<1>6. ASSUME Known(o)', o # who, HEAD \in CommitsOf(o) PROVE op[o].state # "REQUESTED"
  <2> SUFFICES ASSUME op[o].state = "REQUESTED" PROVE FALSE
    OBVIOUS
  <2>1. HEAD > 0 /\ log[HEAD].of = o
    BY <1>0, <1>6 DEF CommitsOf
  <2>2. log'[HEAD + 1].buries /\ log'[HEAD].of = o
    BY <1>0, <1>6, <2>1, CommitAdds
  <2>3. Len(log') = HEAD + 1
    BY <1>0 DEF HEAD
  <2>4. Buried(o)'
    <3>1. HEAD \in 1..(Len(log') - 1)
      BY <1>0, <2>1, <2>3
    <3> QED BY <2>2, <3>1 DEF Buried
  <2> QED BY <1>6, <2>4 DEF Known
<1> QED
  BY <1>1, <1>4, <1>5, <1>6

(* A commit of somebody else takes nothing away from what a delivery knows:     *)
(* unless it is late, whoever makes it holds the leases, and then f does not.   *)
LEMMA CommitOfAnother ==
  ASSUME IInv, NEW who \in Ops \union {Outside}, NEW late \in BOOLEAN, Commit(who, late),
         UNCHANGED <<op, job, lease>>, NEW f \in Executors, ex'[f] = ex[f],
         who \in Ops /\ ~late =>
           \E e \in Executors : e # f /\ e[1] = who /\ HoldsJob(e) /\ OwnsLease(e)
  PROVE  DeliveryKnows(f)'
<1> DEFINE o == f[1]
<1>0. o \in Ops /\ DeliveryKnows(f) /\ f[2] \in Int
  BY ExecutorParts DEF IInv, LogIsKnown
<1>1. /\ HEAD \in Nat /\ HEAD' = HEAD + 1
      /\ \A i \in 1..HEAD : log'[i] = log[i]
      /\ log'[HEAD + 1].of = who /\ log'[HEAD + 1].late = late
      /\ DOMAIN log = 1..HEAD
  BY CommitAdds
<1>2. CommitsOf(o) \subseteq CommitsOf(o)'
  BY <1>0, KnownBefore
<1>3. \A a, b : HasCommit(o, a, b) => HasCommit(o, a, b)'
  BY <1>2 DEF HasCommit
<1>4. HoldsJob(f)' = HoldsJob(f) /\ OwnsLease(f)' = OwnsLease(f)
  BY DEF HoldsJob, OwnsLease
<1>5. (FoundNone(f) /\ HoldsJob(f) /\ Known(o) => CommitsOf(o) = {})'
  <2> SUFFICES ASSUME FoundNone(f)', HoldsJob(f)', Known(o)' PROVE CommitsOf(o)' = {}
    OBVIOUS
  <2>1. FoundNone(f) /\ HoldsJob(f)
    BY <1>4 DEF FoundNone
  <2>2. o # who
    <3> SUFFICES ASSUME o = who PROVE FALSE
      OBVIOUS
    <3>1. PICK e \in Executors : e # f /\ e[1] = o /\ HoldsJob(e)
      BY <1>0, KnownBefore
    <3> QED BY <2>1, <3>1, ExecutorParts DEF HoldsJob
  <2>3. CommitsOf(o)' = CommitsOf(o) /\ Known(o)
    BY <1>0, <2>2, KnownBefore
  <2> QED BY <1>0, <2>1, <2>3 DEF DeliveryKnows
<1>6. (HasParent(f) /\ OwnsLease(f) => NobodyElse(o, ex[f].parent, HEAD))'
  <2> SUFFICES ASSUME HasParent(f)', OwnsLease(f)'
               PROVE  NobodyElse(o, ex[f].parent, HEAD)'
    OBVIOUS
  <2>1. HasParent(f) /\ OwnsLease(f)
    BY <1>4 DEF HasParent
  <2>2. NobodyElse(o, ex[f].parent, HEAD) /\ ex[f].parent \in Int /\ ex[f].parent >= 0
    BY <1>0, <2>1, CommitAssumption DEF DeliveryKnows, IInv, Inv, TypeOK, Deliveries
  <2>3. who \in {o, Outside} \/ late
    BY <2>1, <1>0 DEF OwnsLease
  <2>4. ASSUME NEW i \in (ex[f].parent + 1)..(HEAD + 1)
        PROVE  log'[i].of \in {o, Outside} \/ log'[i].late
    <3>1. CASE i = HEAD + 1
      BY <1>1, <2>3, <3>1
    <3>2. CASE i # HEAD + 1
      <4>1. i \in (ex[f].parent + 1)..HEAD /\ i \in 1..HEAD
        BY <1>1, <2>2, <3>2
      <4> QED BY <1>1, <2>2, <4>1 DEF NobodyElse
    <3> QED BY <3>1, <3>2
  <2> QED BY <1>1, <2>4 DEF NobodyElse
<1>7. (ex[f].pc = "resolve" => HasCommit(o, ex[f].parent, HEAD))'
  <2> SUFFICES ASSUME ex[f].pc = "resolve" PROVE HasCommit(o, ex[f].parent, HEAD)'
    OBVIOUS
  <2>1. PICK i \in CommitsOf(o) : ex[f].parent < i /\ i <= HEAD
    BY <1>0 DEF DeliveryKnows, HasCommit
  <2>2. i <= HEAD + 1
    BY <1>1, <2>1 DEF CommitsOf
  <2> QED BY <1>1, <1>2, <2>1, <2>2 DEF HasCommit
<1>8. (ex[f].pc = "finalize" => HasCommit(o, ex[f].parent, ex[f].result))'
  BY <1>0, <1>2 DEF DeliveryKnows, HasCommit
<1> QED
  BY <1>0, <1>5, <1>6, <1>7, <1>8 DEF DeliveryKnows, HasParent

(* Nor does it from an operation whose commit it is not; of one whose it is,    *)
(* the delivery that makes it knows that there was none.                        *)
LEMMA CommitTells ==
  ASSUME IInv, NEW who \in Ops \union {Outside}, NEW late \in BOOLEAN, Commit(who, late),
         UNCHANGED <<op, job, lease>>, NEW o \in Ops,
         o = who => /\ op[o].state # "ABSENT"
                    /\ ~late => op[o].state = "REQUESTED" /\ (Known(o) => CommitsOf(o) = {})
  PROVE  OperationKnows(o)'
<1>0. OperationKnows(o) /\ op[o] \in OpRecords(HEAD)
  BY DEF IInv, LogIsKnown, Inv, TypeOK
<1>1. /\ HEAD \in Nat /\ HEAD' = HEAD + 1
      /\ \A i \in 1..HEAD : log'[i] = log[i]
  BY CommitAdds
<1>2. /\ CommitsOf(o)' = IF o = who THEN CommitsOf(o) \union {HEAD + 1} ELSE CommitsOf(o)
      /\ Known(o)' => Known(o)
      /\ Known(o)' /\ o = who => ~late
      /\ Known(o)' /\ o # who /\ HEAD \in CommitsOf(o) => op[o].state # "REQUESTED"
  BY KnownBefore
<1>3. (op[o].state = "ABSENT" => job[o].state = "NONE" /\ job[o].claims = 0 /\ CommitsOf(o) = {})'
  BY <1>0, <1>2 DEF OperationKnows
<1>4. (op[o].reason # "none" => op[o].state = "FAILED")'
  BY <1>0 DEF OperationKnows
<1>5. (op[o].state = "REQUESTED" /\ Known(o) /\ CommitsOf(o) # {} => HEAD \in CommitsOf(o))'
  BY <1>0, <1>1, <1>2 DEF OperationKnows
<1>6. (Known(o) => \A i, j \in CommitsOf(o) : i = j)'
  BY <1>0, <1>2 DEF OperationKnows
<1>7. (Known(o) /\ op[o].reason \in {"HEAD_DRIFT", "NO_CHANGES"} => CommitsOf(o) = {})'
  BY <1>0, <1>2 DEF OperationKnows
<1>8. (op[o].state = "COMMITTED" => /\ op[o].parent \in Int
                                    /\ HasCommit(o, op[o].parent, op[o].result)
                                    /\ NobodyElse(o, op[o].parent, op[o].result))'
  <2> SUFFICES ASSUME op[o].state = "COMMITTED"
               PROVE  /\ op'[o].parent \in Int
                      /\ HasCommit(o, op[o].parent, op[o].result)'
                      /\ NobodyElse(o, op[o].parent, op[o].result)'
    OBVIOUS
  <2>1. /\ op[o].parent \in Int
        /\ HasCommit(o, op[o].parent, op[o].result) /\ NobodyElse(o, op[o].parent, op[o].result)
    BY <1>0 DEF OperationKnows
  <2>2. HasCommit(o, op[o].parent, op[o].result)'
    BY <1>2, <2>1 DEF HasCommit
  <2>3. NobodyElse(o, op[o].parent, op[o].result)'
    <3>1. /\ op[o].parent \in 0..HEAD /\ op[o].result \in 0..HEAD
      BY <1>0, <1>1, <2>1, CommitAssumption DEF OpRecords
    <3>2. ASSUME NEW i \in (op[o].parent + 1)..op[o].result
          PROVE  log'[i].of \in {o, Outside} \/ log'[i].late
      BY <1>1, <2>1, <3>1 DEF NobodyElse
    <3> QED BY <3>2 DEF NobodyElse
  <2> QED BY <2>1, <2>2, <2>3
<1> QED
  BY <1>3, <1>4, <1>5, <1>6, <1>7, <1>8 DEF OperationKnows

LEMMA CreateTells ==
  ASSUME IInv, TypeOK', NEW e \in Executors, CreateLocalCommit(e)
  PROVE  LogIsKnown'
<1> DEFINE o == e[1]
<1>0. o \in Ops /\ e[2] \in Int
  BY ExecutorParts
<1>1. UNCHANGED <<op, job, lease>> /\ ex[e].pc = "create"
  BY DEF CreateLocalCommit
<1>2. /\ ex \in [Executors -> Deliveries(HEAD)] /\ job \in [Ops -> JobRecords] /\ TypeOK
  BY DEF IInv, Inv, TypeOK
<1>3. DeliveryKnows(e) /\ HasParent(e) /\ FoundNone(e) /\ ~(e[2] > job[o].claims)
  BY <1>1, AtWorkIsClaimed DEF IInv, LogIsKnown, HasParent, FoundNone
<1>4. CASE UNCHANGED log /\ ex' = [ex EXCEPT ![e] = [@ EXCEPT !.pc = "fail", !.reason = "NO_CHANGES"]]
  <2>1. ex'[e].pc = "fail" /\ \A f \in Executors : f # e => ex'[f] = ex[f]
    BY <1>2, <1>4 DEF Deliveries
  <2>2. (HoldsJob(e) /\ Known(o) => CommitsOf(o) = {})'
    BY <1>1, <1>3, <1>4, SameLog DEF DeliveryKnows, HoldsJob
  <2>3. DeliveryKnows(e)'
    BY <1>1, <1>3, <2>1, <2>2 DEF DeliveryKnows, HasParent
  <2> QED BY <1>1, <1>4, <2>1, <2>3, OnlyDelivery
<1>5. CASE /\ \E late \in BOOLEAN : Commit(o, late) /\ (~late => HoldsJob(e) /\ OwnsLease(e))
           /\ ex' = [ex EXCEPT ![e].pc = "resolve"]
  <2>1. PICK late \in BOOLEAN : Commit(o, late) /\ (~late => HoldsJob(e) /\ OwnsLease(e))
    BY <1>5
  <2>2. /\ ex'[e].pc = "resolve" /\ ex'[e].parent = ex[e].parent
        /\ \A f \in Executors : f # e => ex'[f] = ex[f]
    BY <1>2, <1>5 DEF Deliveries
  <2>3. /\ HEAD \in Nat /\ HEAD' = HEAD + 1
        /\ \A i \in 1..HEAD : log'[i] = log[i]
        /\ log'[HEAD + 1].of = o
    BY <1>0, <2>1, CommitAdds
  <2>4. ex[e].parent \in 0..HEAD
    BY <1>2, <1>3, CommitAssumption DEF DeliveryKnows, Deliveries
  <2>5. HasCommit(o, ex[e].parent, HEAD)'
    <3>1. HEAD + 1 \in CommitsOf(o)'
      BY <1>0, <2>1, KnownBefore
    <3>2. ex[e].parent < HEAD + 1
      BY <2>3, <2>4
    <3> QED BY <2>2, <2>3, <3>1, <3>2 DEF HasCommit
  <2>6. (OwnsLease(e) => NobodyElse(o, ex[e].parent, HEAD))'
    <3> SUFFICES ASSUME OwnsLease(e)' PROVE NobodyElse(o, ex[e].parent, HEAD)'
      OBVIOUS
    <3>1. OwnsLease(e)
      BY <1>1, <1>2, <1>5 DEF OwnsLease, Deliveries
    <3>2. NobodyElse(o, ex[e].parent, HEAD)
      BY <1>3, <3>1 DEF DeliveryKnows
    <3>3. ASSUME NEW i \in (ex[e].parent + 1)..(HEAD + 1)
          PROVE  log'[i].of \in {o, Outside} \/ log'[i].late
      <4>1. CASE i = HEAD + 1
        BY <2>3, <4>1
      <4>2. CASE i # HEAD + 1
        <5>1. i \in (ex[e].parent + 1)..HEAD /\ i \in 1..HEAD
          BY <2>3, <2>4, <4>2
        <5> QED BY <2>3, <3>2, <5>1 DEF NobodyElse
      <4> QED BY <4>1, <4>2
    <3> QED BY <2>2, <2>3, <3>3 DEF NobodyElse
  <2>7. DeliveryKnows(e)'
    BY <1>1, <1>3, <2>2, <2>4, <2>5, <2>6 DEF DeliveryKnows, FoundNone
  <2>8. ASSUME NEW f \in Executors PROVE DeliveryKnows(f)'
    <3>1. CASE f = e
      BY <2>7, <3>1
    <3>2. CASE f # e
      BY <1>0, <1>1, <2>1, <2>2, <3>2, CommitOfAnother
    <3> QED BY <3>1, <3>2
  <2>9. ASSUME NEW x \in Ops PROVE OperationKnows(x)'
    <3>1. op[o].state # "ABSENT"
      BY <1>0, <1>2, <1>3, CommitAssumption, ExecutorParts DEF IInv, LogIsKnown, OperationKnows
    <3>2. ~late => op[o].state = "REQUESTED" /\ (Known(o) => CommitsOf(o) = {})
      BY <1>0, <1>3, <2>1, LeasedIsOpen DEF HoldsJob, DeliveryKnows
    <3> QED BY <1>0, <1>1, <2>1, <3>1, <3>2, CommitTells
  <2> QED BY <2>8, <2>9 DEF LogIsKnown
<1> QED
  <2>1. \/ /\ Commit(o, ~(HoldsJob(e) /\ OwnsLease(e)))
           /\ ex' = [ex EXCEPT ![e].pc = "resolve"]
        \/ /\ UNCHANGED log
           /\ ex' = [ex EXCEPT ![e] = [@ EXCEPT !.pc = "fail", !.reason = "NO_CHANGES"]]
    BY DEF CreateLocalCommit, repo
  <2>2. (~(HoldsJob(e) /\ OwnsLease(e))) \in BOOLEAN
    BY DEF HoldsJob, OwnsLease
  <2> QED BY <1>4, <1>5, <2>1, <2>2

LEMMA CommitOutsideTells == IInv /\ CommitOutside => LogIsKnown'
<1> SUFFICES ASSUME IInv, CommitOutside PROVE LogIsKnown'
  OBVIOUS
<1>1. Commit(Outside, FALSE) /\ UNCHANGED <<op, job, lease, ex>>
  BY DEF CommitOutside
<1>2. Outside \notin Ops /\ Outside \in Ops \union {Outside} /\ FALSE \in BOOLEAN
  BY CommitAssumption
<1>3. ASSUME NEW f \in Executors PROVE DeliveryKnows(f)'
  BY <1>1, <1>2, CommitOfAnother
<1>4. ASSUME NEW o \in Ops PROVE OperationKnows(o)'
  BY <1>1, <1>2, CommitTells
<1> QED
  BY <1>3, <1>4 DEF LogIsKnown

(* Steps that touch neither the history, the operations nor the deliveries, and *)
(* at most end the write lease.                                                 *)
LEMMA NothingTold ==
  IInv /\ UNCHANGED <<log, op, job, ex>> /\ (lease' = lease \/ lease'.live = FALSE) => LogIsKnown'
<1> SUFFICES ASSUME IInv, UNCHANGED <<log, op, job, ex>>, lease' = lease \/ lease'.live = FALSE
             PROVE  LogIsKnown'
  OBVIOUS
<1>1. ASSUME NEW f \in Executors PROVE DeliveryKnows(f)'
  <2>1. f[1] \in Ops
    BY ExecutorParts
  <2>2. job'[f[1]].claims = job[f[1]].claims /\ job[f[1]].claims \in Int
    BY <2>1 DEF IInv, Inv, TypeOK, JobRecords
  <2>3. HoldsJob(f)' => HoldsJob(f)
    BY DEF HoldsJob
  <2>4. OwnsLease(f)' => OwnsLease(f)
    BY DEF OwnsLease
  <2> QED BY <2>2, <2>3, <2>4, DeliveryStays
<1>2. ASSUME NEW o \in Ops PROVE OperationKnows(o)'
  BY OperationStays
<1> QED
  BY <1>1, <1>2 DEF LogIsKnown

LEMMA ToldInitially == Init => LogIsKnown
<1> SUFFICES ASSUME Init PROVE LogIsKnown
  OBVIOUS
<1>1. log = <<>> /\ \A o : CommitsOf(o) = {}
  BY DEF Init, CommitsOf
<1>2. ASSUME NEW e \in Executors PROVE DeliveryKnows(e)
  BY DEF Init, DeliveryKnows, Off, HasParent, FoundNone
<1>3. ASSUME NEW o \in Ops PROVE OperationKnows(o)
  <2>1. op[o] = NoOp /\ job[o] = [state |-> "NONE", claims |-> 0]
    BY DEF Init
  <2> QED BY <1>1, <2>1 DEF OperationKnows, NoOp
<1> QED
  BY <1>2, <1>3 DEF LogIsKnown

(* No step takes away what is known of the log. *)
LEMMA IInvIsInductive == IInv /\ [Next]_vars => IInv'
<1> SUFFICES ASSUME IInv, [Next]_vars PROVE IInv'
  OBVIOUS
<1>0. Inv' /\ TypeOK'
  BY InvIsInductive DEF IInv, Inv
<1> SUFFICES LogIsKnown'
  BY <1>0 DEF IInv
<1>1. ASSUME NEW o \in Ops, RequestReleaseSetLocalCommit(o) \/ JobExpires(o) PROVE LogIsKnown'
  BY <1>0, <1>1, RequestTells, JobExpiresTells
<1>2. ASSUME NEW e \in Executors, Step(e) PROVE LogIsKnown'
  BY <1>0, <1>2, ClaimTells, AcquireTells, LoadTells, FindTells, PinTells, CreateTells,
     ResolveTells, FinalizeTells, QuarantineByDeliveryTells, FailTells, ReleaseTells
  DEF Step
<1>3. CASE CommitOutside
  BY <1>0, <1>3, CommitOutsideTells
<1>4. CASE LeaseExpires \/ Edit \/ AuditHead \/ AdoptWorkspaceHead \/ Quarantine
  <2>1. UNCHANGED <<log, op, job, ex>>
    BY <1>4 DEF LeaseExpires, Edit, AuditHead, AdoptWorkspaceHead, Quarantine, repo
  <2>2. lease' = lease \/ lease'.live = FALSE
    BY <1>4 DEF LeaseExpires, Edit, AuditHead, AdoptWorkspaceHead, Quarantine, IInv, Inv, TypeOK, Leases
  <2> QED BY <2>1, <2>2, NothingTold
<1>5. CASE UNCHANGED vars
  BY <1>5, NothingTold DEF vars
<1> QED
  BY <1>1, <1>2, <1>3, <1>4, <1>5 DEF Next

LEMMA LogIsKnownAlways == Spec => []IInv
<1>1. Init => IInv
  BY Initially, ToldInitially DEF IInv
<1> QED
  BY <1>1, IInvIsInductive, PTL DEF Spec

(* What an operation says of itself is what is in the worktree, and a replayed  *)
(* delivery makes no second commit (OperationsTellTheLog; execute.go).  The     *)
(* pinned parent is the HEAD at which no marker was found; from there on the    *)
(* write lease keeps other operations out, and a delivery that comes later      *)
(* finds the marker at HEAD, unless the commit is buried.                       *)
THEOREM LogIsTold == Spec => []OperationsTellTheLog
<1>1. ASSUME IInv PROVE OperationsTellTheLog
  <2> SUFFICES ASSUME NEW o \in Ops, Known(o)
               PROVE  /\ Cardinality(CommitsOf(o)) <= 1
                      /\ op[o].reason \in {"HEAD_DRIFT", "NO_CHANGES"} => CommitsOf(o) = {}
                      /\ op[o].state = "COMMITTED" =>
                           /\ HasCommit(o, op[o].parent, op[o].result)
                           /\ NobodyElse(o, op[o].parent, op[o].result)
    BY DEF OperationsTellTheLog, Known, HasCommit, NobodyElse
  <2>1. OperationKnows(o)
    BY <1>1 DEF IInv, LogIsKnown
  <2>2. Cardinality(CommitsOf(o)) <= 1
    <3>1. CASE CommitsOf(o) = {}
      BY <3>1, FS_EmptySet
    <3>2. CASE CommitsOf(o) # {}
      <4>1. PICK i \in CommitsOf(o) : CommitsOf(o) = {i}
        BY <2>1, <3>2 DEF OperationKnows
      <4>2. Cardinality({i}) = 1
        BY FS_Singleton
      <4> QED BY <4>1, <4>2
    <3> QED BY <3>1, <3>2
  <2> QED BY <2>1, <2>2 DEF OperationKnows
<1> QED
  BY <1>1, LogIsKnownAlways, PTL

=============================================================================
