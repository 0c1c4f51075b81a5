----------------------------- MODULE FencedLease -----------------------------
(***************************************************************************)
(* What a fenced lease promises, with no clock, no owner and no storage.   *)
(* Each key (a durable job, a workspace) is held by at most one grant at a *)
(* time; grants are numbered by a fence that only grows; work done under a *)
(* grant is committed only while that grant is in force; and a closed key  *)
(* is never granted, nor worked on, again.                                 *)
(*                                                                         *)
(* JobQueue implements this specification: see JobQueue!LeaseSpec.         *)
(***************************************************************************)
EXTENDS Naturals

CONSTANT Keys

VARIABLES
  fence,      \* fence[k]: the number of the last grant of k, 0 before the first
  open,       \* the keys whose last grant is in force
  closed,     \* the keys that are settled for good
  committed   \* committed[k]: the grant the last commit on k was made under

vars == <<fence, open, closed, committed>>

Init ==
  /\ fence = [k \in Keys |-> 0]
  /\ open = {}
  /\ closed = {}
  /\ committed = [k \in Keys |-> 0]

(* A free key gets a new grant, with a higher fence. *)
Grant(k) ==
  /\ k \notin open \union closed
  /\ fence' = [fence EXCEPT ![k] = @ + 1]
  /\ open' = open \union {k}
  /\ UNCHANGED <<closed, committed>>

(* The holder of the grant in force commits, and may close the key with it. *)
Commit(k) ==
  /\ k \in open
  /\ committed' = [committed EXCEPT ![k] = fence[k]]
  /\ \/ UNCHANGED <<open, closed>>
     \/ /\ open' = open \ {k}
        /\ closed' = closed \union {k}
  /\ UNCHANGED fence

(* Grants lapse, several at once when time passes for all of them. *)
Lapse ==
  /\ open' \in SUBSET open
  /\ open' # open
  /\ UNCHANGED <<fence, closed, committed>>

(* Keys are settled without work; none of them is held. *)
Close ==
  /\ closed' \in SUBSET Keys
  /\ closed \subseteq closed'
  /\ closed' \intersect open = {}
  /\ closed' # closed
  /\ UNCHANGED <<fence, open, committed>>

(* The holder settles its key with no effect of its own. *)
Settle(k) ==
  /\ k \in open
  /\ open' = open \ {k}
  /\ closed' = closed \union {k}
  /\ UNCHANGED <<fence, committed>>

Next ==
  \/ \E k \in Keys : Grant(k) \/ Commit(k) \/ Settle(k)
  \/ Lapse
  \/ Close

Spec == Init /\ [][Next]_vars
==============================================================================
