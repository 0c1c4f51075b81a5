--------------------------- MODULE WorkflowGraphMC --------------------------
(***************************************************************************)
(* Families of documents for WorkflowGraph.                                *)
(***************************************************************************)
EXTENDS WorkflowGraph

Goto(k) == [ok |-> k]
Either(k, a) == IF a = "none" THEN Goto(k) ELSE [ok |-> k, alt |-> a]

(* S -> A, and any wiring of A, B and E. *)
Loops ==
  {[type |-> [S |-> "START", A |-> ta, B |-> tb, E |-> "END"],
    edge |-> [S |-> Goto("A"), A |-> Either(ao, aa), B |-> Either(bo, ba), E |-> <<>>],
    budget |-> [S |-> 0, A |-> na, B |-> nb, E |-> 0],
    mode |-> "ALL"] :
     ta \in {"TASK", "WAIT", "APPROVAL"}, tb \in {"TASK", "ROUTER"},
     ao \in {"A", "B", "E"}, aa \in {"none", "A", "B", "E"},
     bo \in {"A", "B", "E"}, ba \in {"none", "A", "E"},
     na \in {0, 1}, nb \in {0, 1}}

(* Every cycle goes through a node with a budget.  The validator asks it of one *)
(* cycle of a component only, and a run of the others need not end.             *)
Budgeted(d) ==
  LET cut == [d EXCEPT !.edge = [k \in DOMAIN d.edge |-> IF d.budget[k] > 0 THEN <<>> ELSE d.edge[k]]]
  IN \A k \in DOMAIN d.edge : Cycle(cut, k) = {}

BudgetedLoops == {d \in Loops : Budgeted(d)}

(* S enters the gate C or the fork F; F's branches are A, which may lead to D,  *)
(* and B or nothing; the join J leads to E or back to the gate, which re-enters *)
(* the fork once.                                                               *)
Forks ==
  {[type |-> [k \in {"S", "F", "A", "J", "E"} \union gate \union branch \union more |->
       CASE k = "S" -> "START" [] k = "F" -> "FORK" [] k = "J" -> "JOIN" [] k = "E" -> "END"
         [] k = "A" -> ta [] k = "B" -> tb [] OTHER -> "TASK"],
    edge |-> [k \in {"S", "F", "A", "J", "E"} \union gate \union branch \union more |->
       CASE k = "S" -> Goto(IF gate = {} THEN "F" ELSE "C")
         [] k = "C" -> Either("F", "E")
         [] k = "F" -> Either("A", IF branch = {} THEN "J" ELSE "B")
         [] k = "A" -> IF more = {} THEN Goto("J") ELSE Either("J", "D")
         [] k = "J" -> Goto(IF gate = {} THEN "E" ELSE "C")
         [] k = "E" -> <<>>
         [] OTHER -> Goto("J")],
    budget |-> [k \in {"S", "F", "A", "J", "E"} \union gate \union branch \union more |->
       IF k = "C" THEN 1 ELSE 0],
    mode |-> m] :
     ta \in {"TASK", "WAIT"}, tb \in {"TASK", "PAUSE", "ROUTER"}, m \in {"ALL", "ANY"},
     gate \in {{}, {"C"}}, branch \in {{}, {"B"}}, more \in {{}, {"D"}}}
Documents == BudgetedLoops \union Forks

(* What NextStepCommits needs of them; RetryInBranch below is not tidy.         *)
ASSUME DocumentsAreTidy == \A d \in Documents : Accepted(d) => Tidy(d)

(* A loop inside a branch: A is retried once, and its escalation leads to J. *)
RetryInBranch ==
  {[type |-> [S |-> "START", F |-> "FORK", A |-> "TASK", B |-> "TASK", J |-> "JOIN", E |-> "END"],
    edge |-> [S |-> Goto("F"), F |-> Either("A", "J"), A |-> Either("B", "J"),
              B |-> Either("J", "A"), J |-> Goto("E"), E |-> <<>>],
    budget |-> [S |-> 0, F |-> 0, A |-> 1, B |-> 0, J |-> 0, E |-> 0],
    mode |-> "ALL"]}
=============================================================================
