------------------------ MODULE WorkflowGraph_proofs ------------------------
(***************************************************************************)
(* Theorems about WorkflowGraph, for any documents that publishing accepts *)
(* (of any size, each node with the outcomes WorkflowGraph gives it): the  *)
(* type invariant, that a run that is over is quiet, that every path is in *)
(* one place at a time, that a join speaks for its own fork, that          *)
(* escalation leaves a cycle for good, and that an answer stands.          *)
(*                                                                         *)
(* First what the walks of the validator compute, then what a world must   *)
(* be like (Sound), then that each operator of a transaction keeps it so,  *)
(* in the order in which they are built on one another, then the actions.  *)
(***************************************************************************)
EXTENDS WorkflowGraph, FiniteSetTheorems, WellFoundedInduction, TLAPS

(* A set of naturals that is not empty has a least element.                     *)
LEMMA Least ==
  ASSUME NEW S \in SUBSET Nat, S # {}
  PROVE  \E n \in S : \A m \in S : n <= m
<1>. DEFINE Below == {0..m : m \in S}
<1>1. Below \subseteq FiniteSubsetsOf(Nat) /\ Below # {}
  <2>1. ASSUME NEW m \in S PROVE 0..m \in FiniteSubsetsOf(Nat)
    <3>1. IsFiniteSet(0..m)
      BY FS_Interval
    <3>. QED
      BY <3>1 DEF FiniteSubsetsOf
  <2>. QED
    BY <2>1
<1>2. PICK B \in Below : \A C \in Below : ~(<<C, B>> \in StrictSubsetOrdering(Nat))
  <2>. HIDE DEF Below
  <2>. QED
    BY <1>1, FS_StrictSubsetOrderingWellFounded, WFMin
<1>3. PICK m \in S : B = 0..m
  OBVIOUS
<1>4. ASSUME NEW k \in S, ~(m <= k) PROVE FALSE
  <2>1. 0..k \in Below /\ 0..k \subseteq B /\ B \subseteq Nat
    BY <1>3, <1>4
  <2>2. 0..k # B
    <3>1. m \in B /\ m \notin 0..k
      BY <1>3, <1>4
    <3>. QED
      BY <3>1
  <2>3. <<0..k, B>> \in StrictSubsetOrdering(Nat)
    BY <2>1, <2>2 DEF StrictSubsetOrdering
  <2>. QED
    BY <2>1, <2>3, <1>2
<1>. QED
  BY <1>4

(* Repeating a function gives a sequence.                                       *)
Repeats(f, S, F, K) == f \in [Nat -> S] /\ f[0] = K /\ \A n \in Nat : f[n + 1] = F[f[n]]

(* What a function on the naturals is defined by, step after step, exists.      *)
LEMMA Iterates ==
  ASSUME NEW S, NEW F \in [S -> S], NEW K \in S
  PROVE  \E f : Repeats(f, S, F, K)
<1>. DEFINE Begun(n) == {g \in [0..n -> S] : g[0] = K /\ \A i \in 0..(n - 1) : g[i + 1] = F[g[i]]}
            Missing == {n \in Nat : Begun(n) = {}}
            Differ == {i \in Nat : \E n, m \in Nat : \E g \in Begun(n), h \in Begun(m) :
                                      i <= n /\ i <= m /\ g[i] # h[i]}
<1>1. \A n \in Nat : Begun(n) # {}
  <2>. SUFFICES ASSUME Missing # {} PROVE FALSE
    OBVIOUS
  <2>1. PICK m \in Missing : \A n \in Missing : m <= n
    <3>1. Missing \in SUBSET Nat
      OBVIOUS
    <3>. HIDE DEF Missing
    <3>. QED
      BY <3>1, Least
  <2>2. CASE m = 0
    <3>1. [i \in 0..0 |-> K] \in Begun(0)
      OBVIOUS
    <3>. QED
      BY <3>1, <2>2
  <2>3. CASE m # 0
    <3>1. m - 1 \in Nat /\ m - 1 \notin Missing
      BY <2>1, <2>3
    <3>2. PICK g \in Begun(m - 1) : TRUE
      BY <3>1
    <3>. DEFINE h == [i \in 0..m |-> IF i = m THEN F[g[m - 1]] ELSE g[i]]
    <3>3. h \in [0..m -> S] /\ h[0] = K
      BY <3>1, <3>2, <2>3
    <3>4. \A i \in 0..(m - 1) : h[i + 1] = F[h[i]]
      BY <3>1, <3>2
    <3>5. h \in Begun(m)
      <4>. HIDE DEF h
      <4>. QED
        BY <3>3, <3>4
    <3>. QED
      BY <3>5
  <2>. QED
    BY <2>2, <2>3
<1>0. ASSUME NEW i \in Nat, i \notin Differ, NEW n \in Nat, NEW m \in Nat,
             NEW g \in Begun(n), NEW h \in Begun(m), i <= n, i <= m
      PROVE  g[i] = h[i]
  <2>. HIDE DEF Begun
  <2>. QED
    BY <1>0
<1>2. Differ = {}
  <2>. SUFFICES ASSUME Differ # {} PROVE FALSE
    OBVIOUS
  <2>1. PICK i \in Differ : \A j \in Differ : i <= j
    <3>1. Differ \in SUBSET Nat
      OBVIOUS
    <3>. HIDE DEF Differ
    <3>. QED
      BY <3>1, Least
  <2>2. PICK n \in Nat, m \in Nat : \E g \in Begun(n), h \in Begun(m) : i <= n /\ i <= m /\ g[i] # h[i]
    OBVIOUS
  <2>3. PICK g \in Begun(n), h \in Begun(m) : i <= n /\ i <= m /\ g[i] # h[i]
    BY <2>2
  <2>4. i # 0
    BY <2>3
  <2>5. i \in Nat /\ i - 1 \in Nat
    BY <2>4
  <2>6. g[i - 1] = h[i - 1]
    <3>1. i - 1 \notin Differ
      <4>1. ~(i <= i - 1)
        BY <2>5
      <4>. HIDE DEF Differ
      <4>. QED
        BY <4>1, <2>1
    <3>2. i - 1 <= n /\ i - 1 <= m
      BY <2>3, <2>5
    <3>. HIDE DEF Begun, Differ
    <3>. QED
      BY <3>1, <3>2, <2>3, <2>5, <1>0
  <2>7. g[i] = F[g[i - 1]] /\ h[i] = F[h[i - 1]]
    <3>1. i - 1 \in 0..(n - 1) /\ i - 1 \in 0..(m - 1) /\ (i - 1) + 1 = i
      BY <2>3, <2>5
    <3>. QED
      BY <3>1
  <2>. QED
    BY <2>3, <2>6, <2>7
<1>. DEFINE G(n) == CHOOSE g \in Begun(n) : TRUE
            f == [n \in Nat |-> G(n)[n]]
<1>3. \A n \in Nat : G(n) \in Begun(n)
  BY <1>1
<1>4. f \in [Nat -> S]
  <2>. SUFFICES ASSUME NEW n \in Nat PROVE G(n)[n] \in S
    OBVIOUS
  <2>1. n \in 0..n /\ G(n) \in [0..n -> S]
    <3>. HIDE DEF G
    <3>. QED
      BY <1>3
  <2>. HIDE DEF G
  <2>. QED
    BY <2>1
<1>5. f[0] = K
  BY <1>3
<1>6. ASSUME NEW n \in Nat PROVE f[n + 1] = F[f[n]]
  <2>. HIDE DEF G
  <2>1. n + 1 \in Nat /\ n \in 0..(n + 1 - 1) /\ G(n + 1) \in Begun(n + 1) /\ G(n) \in Begun(n)
    BY <1>3
  <2>2. G(n + 1)[n + 1] = F[G(n + 1)[n]]
    BY <2>1
  <2>3. G(n + 1)[n] = G(n)[n]
    <3>1. n \notin Differ
      <4>. HIDE DEF Differ
      <4>. QED
        BY <1>2
    <3>2. n <= n /\ n <= n + 1
      OBVIOUS
    <3>3. \A g \in Begun(n + 1), h \in Begun(n) : g[n] = h[n]
      <4>. HIDE DEF Begun, Differ
      <4>. QED
        BY <3>1, <3>2, <1>0
    <3>. QED
      BY <3>3, <2>1
  <2>. QED
    BY <2>1, <2>2, <2>3
<1>. QED
  <2>. HIDE DEF f
  <2>. QED
    BY <1>4, <1>5, <1>6 DEF Repeats

(* The steps of Closure.                                                        *)
LEMMA FurtherNodes ==
  ASSUME NEW d, IsDocument(d), NEW Stops, NEW M \in SUBSET DOMAIN d.type
  PROVE  Further(d, M, Stops) \in SUBSET DOMAIN d.type /\ M \subseteq Further(d, M, Stops)
BY DEF IsDocument, Further

(* Closure is the last of as many steps as the document has nodes.              *)
LEMMA Steps ==
  ASSUME NEW d, IsDocument(d), NEW Stops, NEW K \in SUBSET DOMAIN d.type
  PROVE  \E s \in [Nat -> SUBSET DOMAIN d.type] :
           /\ s[0] = K
           /\ \A n \in Nat : s[n + 1] = Further(d, s[n], Stops)
           /\ Closure(d, K, Stops) = s[Cardinality(DOMAIN d.type)]
<1>. DEFINE N == DOMAIN d.type
            F == [M \in SUBSET N |-> Further(d, M, Stops)]
            step[n \in Nat] == IF n = 0 THEN K ELSE Further(d, step[n - 1], Stops)
<1>1. F \in [SUBSET N -> SUBSET N]
  BY FurtherNodes
<1>2. PICK f \in [Nat -> SUBSET N] : f[0] = K /\ \A n \in Nat : f[n + 1] = F[f[n]]
  <2>. DEFINE S == SUBSET N
  <2>1. K \in S /\ F \in [S -> S]
    BY <1>1
  <2>. HIDE DEF F, S
  <2>2. \E f : Repeats(f, S, F, K)
    BY <2>1, Iterates
  <2>. QED
    BY <2>2 DEF S, Repeats
<1>3. f = [n \in Nat |-> IF n = 0 THEN K ELSE Further(d, f[n - 1], Stops)]
  <2>. SUFFICES ASSUME NEW n \in Nat, n # 0 PROVE f[n] = Further(d, f[n - 1], Stops)
    BY <1>2
  <2>1. n - 1 \in Nat /\ (n - 1) + 1 = n
    OBVIOUS
  <2>. QED
    BY <2>1, <1>2
<1>4. step = [n \in Nat |-> IF n = 0 THEN K ELSE Further(d, step[n - 1], Stops)]
  <2>. HIDE DEF N, F
  <2>. QED
    BY <1>3, Zenon
<1>5. Closure(d, K, Stops) = step[Cardinality(N)]
  BY DEF Closure
<1>. HIDE DEF step
<1>6. \A n \in Nat : step[n] = f[n]
  <2>. DEFINE Bad == {n \in Nat : step[n] # f[n]}
  <2>. SUFFICES ASSUME Bad # {} PROVE FALSE
    OBVIOUS
  <2>1. PICK n \in Bad : \A m \in Bad : n <= m
    <3>1. Bad \in SUBSET Nat
      OBVIOUS
    <3>. HIDE DEF Bad
    <3>. QED
      BY <3>1, Least
  <2>2. step[0] = K
    BY <1>4
  <2>3. n # 0 /\ n - 1 \in Nat
    BY <2>2, <1>2
  <2>4. n - 1 \notin Bad
    BY <2>1, <2>3
  <2>5. step[n] = Further(d, step[n - 1], Stops) /\ f[n] = Further(d, f[n - 1], Stops)
    <3>. HIDE DEF N, F
    <3>. QED
      BY <2>3, <1>3, <1>4
  <2>. QED
    BY <2>3, <2>4, <2>5
<1>7. Cardinality(N) \in Nat
  BY FS_CardinalityType DEF IsDocument
<1>8. Closure(d, K, Stops) = f[Cardinality(N)]
  BY <1>5, <1>6, <1>7
<1>9. \A n \in Nat : f[n + 1] = Further(d, f[n], Stops)
  BY <1>2
<1>. QED
  BY <1>2, <1>8, <1>9

(* A set of nodes that no edge leaves, but from a node of a type in Stops.      *)
Closed(d, M, Stops) == \A k \in M : d.type[k] \in Stops \/ Range(d.edge[k]) \subseteq M

(* Closure gives the least closed set: as many steps as there are nodes are     *)
(* enough.                                                                      *)
LEMMA ClosureIsLeast ==
  ASSUME NEW d, IsDocument(d), NEW Stops, NEW K \in SUBSET DOMAIN d.type,
         NEW M, K \subseteq M, Closed(d, M, Stops)
  PROVE  Closure(d, K, Stops) \subseteq M
<1>. DEFINE N == DOMAIN d.type
<1>1. PICK s \in [Nat -> SUBSET N] :
        /\ s[0] = K
        /\ \A n \in Nat : s[n + 1] = Further(d, s[n], Stops)
        /\ Closure(d, K, Stops) = s[Cardinality(N)]
  BY Steps
<1>. DEFINE Bad == {n \in Nat : ~(s[n] \subseteq M)}
<1>2. Bad = {}
  <2>. SUFFICES ASSUME Bad # {} PROVE FALSE
    OBVIOUS
  <2>1. PICK n \in Bad : \A m \in Bad : n <= m
    <3>1. Bad \in SUBSET Nat
      OBVIOUS
    <3>. HIDE DEF Bad
    <3>. QED
      BY <3>1, Least
  <2>2. n # 0 /\ n - 1 \in Nat /\ (n - 1) + 1 = n
    BY <1>1
  <2>3. s[n - 1] \subseteq M
    BY <2>1, <2>2
  <2>4. s[n] = Further(d, s[n - 1], Stops)
    BY <1>1, <2>2
  <2>5. s[n] \subseteq M
    BY <2>3, <2>4 DEF Further, Closed
  <2>. QED
    BY <2>5
<1>3. Cardinality(N) \in Nat
  BY FS_CardinalityType DEF IsDocument
<1>. QED
  BY <1>1, <1>2, <1>3

(* That many steps are enough: each but the last adds a node or changes         *)
(* nothing.                                                                     *)
LEMMA ClosureIsClosed ==
  ASSUME NEW d, IsDocument(d), NEW Stops, NEW K \in SUBSET DOMAIN d.type
  PROVE  /\ Closure(d, K, Stops) \in SUBSET DOMAIN d.type
         /\ K \subseteq Closure(d, K, Stops)
         /\ Closed(d, Closure(d, K, Stops), Stops)
<1>. DEFINE N == DOMAIN d.type
            c == Cardinality(N)
<1>1. PICK s \in [Nat -> SUBSET N] :
        /\ s[0] = K
        /\ \A n \in Nat : s[n + 1] = Further(d, s[n], Stops)
        /\ Closure(d, K, Stops) = s[c]
  BY Steps
<1>2. IsFiniteSet(N) /\ c \in Nat
  BY FS_CardinalityType DEF IsDocument
<1>3. \A n \in Nat : s[n] \subseteq s[n + 1]
  BY <1>1, FurtherNodes
<1>. HIDE DEF c
<1>4. K \subseteq s[c]
  <2>. DEFINE Bad == {n \in Nat : ~(K \subseteq s[n])}
  <2>. SUFFICES ASSUME Bad # {} PROVE FALSE
    BY <1>2
  <2>1. PICK n \in Bad : \A m \in Bad : n <= m
    <3>1. Bad \in SUBSET Nat
      OBVIOUS
    <3>. HIDE DEF Bad
    <3>. QED
      BY <3>1, Least
  <2>2. n # 0 /\ n - 1 \in Nat /\ (n - 1) + 1 = n
    BY <1>1
  <2>3. K \subseteq s[n - 1]
    BY <2>1, <2>2
  <2>. QED
    BY <2>2, <2>3, <1>3
(* As long as a step adds nodes, n steps have at least n nodes.                 *)
<1>5. ASSUME \A i \in 0..c : s[i + 1] # s[i] PROVE FALSE
  <2>. DEFINE Bad == {n \in Nat : n <= c + 1 /\ ~(n <= Cardinality(s[n]))}
  <2>1. \A n \in Nat : IsFiniteSet(s[n]) /\ Cardinality(s[n]) \in Nat /\ Cardinality(s[n]) <= c
    BY <1>1, <1>2, FS_Subset, FS_CardinalityType DEF c
  <2>2. Bad = {}
    <3>. SUFFICES ASSUME Bad # {} PROVE FALSE
      OBVIOUS
    <3>1. PICK n \in Bad : \A m \in Bad : n <= m
      <4>1. Bad \in SUBSET Nat
        OBVIOUS
      <4>. HIDE DEF Bad
      <4>. QED
        BY <4>1, Least
    <3>2. n # 0 /\ n - 1 \in Nat /\ (n - 1) + 1 = n
      BY <2>1
    <3>3. n - 1 <= Cardinality(s[n - 1])
      BY <3>1, <3>2, <1>2
    <3>4. n - 1 \in 0..c
      BY <3>2, <1>2
    <3>5. s[n - 1] \subseteq s[n] /\ s[n - 1] # s[n]
      BY <1>3, <1>5, <3>2, <3>4
    <3>6. /\ Cardinality(s[n - 1]) <= Cardinality(s[n])
          /\ Cardinality(s[n]) = Cardinality(s[n - 1]) => s[n] = s[n - 1]
      <4>1. s[n - 1] \in SUBSET s[n] /\ IsFiniteSet(s[n])
        BY <3>5, <2>1
      <4>. QED
        BY <4>1, FS_Subset
    <3>7. n <= Cardinality(s[n])
      BY <3>2, <3>3, <3>5, <3>6, <2>1
    <3>. QED
      BY <3>7
  <2>3. c + 1 \in Nat /\ c + 1 \notin Bad
    BY <1>2, <2>2
  <2>4. c + 1 <= Cardinality(s[c + 1])
    BY <2>3
  <2>. QED
    BY <2>1, <2>3, <2>4, <1>2
<1>6. PICK i \in 0..c : s[i + 1] = s[i]
  BY <1>5
<1>7. s[c] = s[i]
  <2>. DEFINE Bad == {n \in Nat : i <= n /\ s[n] # s[i]}
  <2>. SUFFICES ASSUME Bad # {} PROVE FALSE
    BY <1>2, <1>6
  <2>1. PICK n \in Bad : \A m \in Bad : n <= m
    <3>1. Bad \in SUBSET Nat
      OBVIOUS
    <3>. HIDE DEF Bad
    <3>. QED
      BY <3>1, Least
  <2>2. n # i /\ i \in Nat /\ n - 1 \in Nat /\ i <= n - 1 /\ (n - 1) + 1 = n
    BY <1>2
  <2>3. s[n - 1] = s[i]
    BY <2>1, <2>2
  <2>4. s[n] = Further(d, s[i], Stops) /\ s[i + 1] = Further(d, s[i], Stops)
    BY <1>1, <2>2, <2>3
  <2>. QED
    BY <1>6, <2>4
<1>8. Closed(d, s[i], Stops)
  <2>1. s[i] = Further(d, s[i], Stops)
    BY <1>1, <1>2, <1>6
  <2>. QED
    BY <2>1 DEF Further, Closed
<1>. QED
  BY <1>1, <1>2, <1>4, <1>7, <1>8

-----------------------------------------------------------------------------
(* Facts about the graph of a document. *)

(* m can be reached from k by one edge or more.                                 *)
Reaches(d, k, m) == m \in Closure(d, Range(d.edge[k]), {})

(* A node's edges lead to nodes of the document.                                *)
LEMMA Edges ==
  ASSUME NEW d, IsDocument(d), NEW k \in DOMAIN d.type
  PROVE  /\ Range(d.edge[k]) \in SUBSET DOMAIN d.type
         /\ \A o \in DOMAIN d.edge[k] : d.edge[k][o] \in Range(d.edge[k])
BY DEF IsDocument, Range

(* An edge reaches its target.                                                  *)
LEMMA EdgeReaches ==
  ASSUME NEW d, IsDocument(d), NEW k \in DOMAIN d.type, NEW o \in DOMAIN d.edge[k]
  PROVE  d.edge[k][o] \in DOMAIN d.type /\ Reaches(d, k, d.edge[k][o])
BY Edges, ClosureIsClosed DEF Reaches

(* What can be reached from there can be reached from here.                     *)
LEMMA ReachesOn ==
  ASSUME NEW d, IsDocument(d), NEW k \in DOMAIN d.type, NEW m \in DOMAIN d.type,
         NEW n \in DOMAIN d.type, Reaches(d, k, m), Reaches(d, m, n)
  PROVE  Reaches(d, k, n)
<1>. DEFINE C == Closure(d, Range(d.edge[k]), {})
<1>1. Closed(d, C, {}) /\ m \in C
  BY Edges, ClosureIsClosed DEF Reaches
<1>2. Range(d.edge[m]) \subseteq C
  BY <1>1 DEF Closed
<1>3. Closure(d, Range(d.edge[m]), {}) \subseteq C
  <2>. HIDE DEF C
  <2>. QED
    BY <1>1, <1>2, Edges, ClosureIsLeast
<1>. QED
  BY <1>3 DEF Reaches

(* What an exhausted node is left to cannot lead back into the node's cycle.    *)
LEMMA ExitLeaves ==
  ASSUME NEW d, IsDocument(d), Accepted(d), NEW k \in DOMAIN d.type, d.budget[k] > 0,
         NEW m \in DOMAIN d.type, m = d.edge[k]["alt"] \/ Reaches(d, d.edge[k]["alt"], m)
  PROVE  m \notin Cycle(d, k)
<1>. DEFINE e == d.edge[k]["alt"]
<1>1. "alt" \in DOMAIN d.edge[k]
  BY DEF Accepted
<1>2. e \in DOMAIN d.type /\ Reaches(d, k, e)
  BY <1>1, EdgeReaches
<1>. SUFFICES ASSUME m \in Cycle(d, k) PROVE FALSE
  OBVIOUS
<1>3. Reaches(d, m, k)
  BY DEF Cycle, Reaches
<1>4. Reaches(d, e, k)
  <2>. HIDE DEF e
  <2>. QED
    BY <1>2, <1>3, ReachesOn DEF e
<1>5. e \in Cycle(d, k)
  BY <1>2, <1>4 DEF Cycle, Reaches
<1>6. EscalationLeaves(d, k)
  BY <1>5 DEF Accepted, BoundedCycles
<1>. QED
  BY <1>5, <1>6 DEF EscalationLeaves

Stops == {"JOIN", "FORK", "END"}

(* A branch's region: it starts at the branch's first node, edges lead on in it *)
(* until a join, and there is no fork and no END in it.                         *)
LEMMA Regions ==
  ASSUME NEW d, IsDocument(d), Accepted(d), NEW f \in NodesOfType(d, "FORK"),
         NEW o \in Outcomes
  PROVE  /\ d.edge[f][o] \in BranchRegion(d, d.edge[f][o])
         /\ BranchRegion(d, d.edge[f][o]) \in SUBSET DOMAIN d.type
         /\ \A k \in BranchRegion(d, d.edge[f][o]) :
              /\ d.type[k] \notin {"FORK", "END"}
              /\ d.type[k] # "JOIN" =>
                   \A p \in DOMAIN d.edge[k] : d.edge[k][p] \in BranchRegion(d, d.edge[f][o])
<1>. DEFINE b == d.edge[f][o]
<1>1. f \in DOMAIN d.type /\ d.type[f] = "FORK"
  BY DEF NodesOfType
<1>2. DOMAIN d.edge[f] = Outcomes
  BY <1>1 DEF Accepted, OutcomesDeclared
<1>3. b \in Range(d.edge[f]) /\ {b} \in SUBSET DOMAIN d.type
  BY <1>1, <1>2, Edges
<1>. HIDE DEF b
<1>4. /\ BranchRegion(d, b) \in SUBSET DOMAIN d.type
      /\ b \in BranchRegion(d, b)
      /\ Closed(d, BranchRegion(d, b), Stops)
  BY <1>3, ClosureIsClosed DEF BranchRegion, Stops
<1>5. ASSUME NEW k \in BranchRegion(d, b) PROVE d.type[k] \notin {"FORK", "END"}
  BY <1>3, <1>4 DEF Accepted, ForkJoinTopology
<1>6. ASSUME NEW k \in BranchRegion(d, b), d.type[k] # "JOIN", NEW p \in DOMAIN d.edge[k]
      PROVE  d.edge[k][p] \in BranchRegion(d, b)
  BY <1>4, <1>5, <1>6, Edges DEF Closed, Stops
<1>. QED
  BY <1>4, <1>5, <1>6 DEF b

(* The join of a fork is the only one its branches come to.                     *)
JoinAt(d, f) == <<CHOOSE j \in FirstJoins(d, f[1]) : TRUE, f[2] + 1>>

(* ForkJoinTopology leaves one join that a fork's branches can come to.         *)
LEMMA JoinsOfForks ==
  ASSUME NEW d, IsDocument(d), Accepted(d), NEW f, f[1] \in NodesOfType(d, "FORK")
  PROVE  LET j == JoinAt(d, f)[1] IN
         /\ j \in DOMAIN d.type /\ d.type[j] = "JOIN" /\ Reaches(d, f[1], j)
         /\ \A o \in Outcomes : \A k \in BranchRegion(d, d.edge[f[1]][o]) : d.type[k] = "JOIN" => k = j
<1>. DEFINE j == JoinAt(d, f)[1]
            J == FirstJoins(d, f[1])
<1>1. PICK i : J = {i}
  <2>1. Cardinality(J) = 1
    BY DEF Accepted, ForkJoinTopology
  <2>2. IsFiniteSet(J)
    <3>1. J \in SUBSET DOMAIN d.type /\ IsFiniteSet(DOMAIN d.type)
      BY DEF FirstJoins, NodesOfType, IsDocument
    <3>. HIDE DEF J
    <3>. QED
      BY <3>1, FS_Subset
  <2>. HIDE DEF J
  <2>. QED
    BY <2>1, <2>2, FS_Singleton
<1>2. j = i /\ j \in J
  BY <1>1 DEF JoinAt
<1>3. PICK b \in Range(d.edge[f[1]]) : j \in BranchRegion(d, b)
  BY <1>2 DEF FirstJoins
<1>4. j \in DOMAIN d.type /\ d.type[j] = "JOIN"
  BY <1>2 DEF FirstJoins, NodesOfType
<1>5. f[1] \in DOMAIN d.type /\ d.type[f[1]] = "FORK"
  BY DEF NodesOfType
<1>6. DOMAIN d.edge[f[1]] = Outcomes
  BY <1>5 DEF Accepted, OutcomesDeclared
<1>. HIDE DEF j
<1>7. Reaches(d, f[1], j)
  <2>. DEFINE C == Closure(d, Range(d.edge[f[1]]), {})
  <2>1. {b} \in SUBSET DOMAIN d.type /\ {b} \subseteq C /\ Closed(d, C, {})
    BY <1>3, <1>5, Edges, ClosureIsClosed
  <2>2. Closed(d, C, Stops)
    BY <2>1 DEF Closed
  <2>3. BranchRegion(d, b) \subseteq C
    <3>. HIDE DEF C
    <3>. QED
      BY <2>1, <2>2, ClosureIsLeast DEF BranchRegion, Stops
  <2>. QED
    BY <1>3, <2>3 DEF Reaches
<1>8. ASSUME NEW o \in Outcomes, NEW k \in BranchRegion(d, d.edge[f[1]][o]), d.type[k] = "JOIN"
      PROVE  k = j
  <2>1. d.edge[f[1]][o] \in Range(d.edge[f[1]])
    BY <1>5, <1>6, Edges
  <2>2. k \in DOMAIN d.type
    BY <1>5, Regions DEF NodesOfType
  <2>3. k \in J
    BY <1>8, <2>1, <2>2 DEF FirstJoins, NodesOfType
  <2>. QED
    BY <1>1, <1>2, <2>3
<1>. QED
  BY <1>4, <1>7, <1>8 DEF j

(* An END has no way on.                                                        *)
LEMMA NothingAfterEnd ==
  ASSUME NEW d, IsDocument(d), Accepted(d), NEW e \in DOMAIN d.type, d.type[e] = "END"
  PROVE  \A m : ~Reaches(d, e, m)
<1>1. DOMAIN d.edge[e] = {}
  BY DEF Accepted, OutcomesDeclared
<1>2. Range(d.edge[e]) = {}
  BY <1>1 DEF Range
<1>3. {} \in SUBSET DOMAIN d.type /\ Closed(d, {}, {})
  BY DEF Closed
<1>. QED
  BY <1>2, <1>3, ClosureIsLeast DEF Reaches

-----------------------------------------------------------------------------
(* What holds of a world that belongs to document d. *)

Counts == Nat \ {0}
TokenStates == {"ACTIVE", "SUCCEEDED", "FAILED", "CANCELLED"}
States == {"PENDING", "RUNNING", "WAITING", "SUCCEEDED", "FAILED", "CANCELLED", "SKIPPED"}
Answers == {"NONE", "OPEN", "CONSUMED", "DECIDED", "TIMED_OUT", "ELAPSED", "ESCALATED", "CANCELLED"}
Columns(ts) ==
  [state: States, iteration: Nat, token: {NoToken} \union ts, outcome: Outcomes \union {"none"},
   reg: Answers, timer: {"NONE", "SET", "DONE", "DEAD"}, fork: Nat]
IsWorld(w) == w = [rows |-> w.rows, tokens |-> w.tokens, ok |-> w.ok] /\ w.ok \in BOOLEAN

WellFormed(d, w) ==
  /\ IsWorld(w)
  /\ IsFiniteSet(DOMAIN w.rows)
  /\ DOMAIN w.rows \subseteq (DOMAIN d.type) \X Counts
  /\ DOMAIN w.tokens \subseteq Counts \X Outcomes
  /\ w.tokens \in [DOMAIN w.tokens -> TokenStates]
  /\ w.rows \in [DOMAIN w.rows -> Columns(DOMAIN w.tokens)]

(* A registration is open while its node run waits, and an answer ends that     *)
(* node run.                                                                    *)
OpenWhileWaiting(d, w) ==
  \A id \in DOMAIN w.rows :
    /\ Open(w.rows[id]) <=> w.rows[id].state = "WAITING" /\ d.type[id[1]] \in Registering
    /\ w.rows[id].reg \notin {"NONE", "OPEN"} => ~Live(w.rows[id])
    /\ w.rows[id].state = "SKIPPED" => d.budget[id[1]] > 0

(* A path goes on to nodes that can be reached, from the exit of a node whose   *)
(* budget was used up, and only its last node run is live.                      *)
LeadsTo(d, r, k, m) ==
  Reaches(d, k, m) /\ (r.state = "SKIPPED" => m = d.edge[k]["alt"] \/ Reaches(d, d.edge[k]["alt"], m))
OneAfterAnother(d, w) ==
  \A x, y \in DOMAIN w.rows : w.rows[x].token = w.rows[y].token =>
    /\ x[2] = y[2] => x = y
    /\ x[2] < y[2] => ~Live(w.rows[x]) /\ LeadsTo(d, w.rows[x], x[1], y[1])

(* Forks, and ENDs, are on the outer path only.                                 *)
OuterOnly(d, w) ==
  \A id \in DOMAIN w.rows : d.type[id[1]] \in {"FORK", "END"} =>
    /\ w.rows[id].token = NoToken
    /\ w.rows[id].state = "SUCCEEDED" \/ (w.rows[id].state = "SKIPPED" /\ d.type[id[1]] = "FORK")

(* Each token has its fork's node run f, and so has a join's node run.          *)
IsFork(d, w, f) == f \in DOMAIN w.rows /\ d.type[f[1]] = "FORK" /\ w.rows[f].state = "SUCCEEDED"
HasFork(d, w) ==
  /\ \A t \in DOMAIN w.tokens : \E f \in DOMAIN w.rows : IsFork(d, w, f) /\ f[2] = t[1]
  /\ \A id \in DOMAIN w.rows : w.rows[id].fork # 0 =>
       /\ w.rows[id].token = NoToken
       /\ \E f \in DOMAIN w.rows : IsFork(d, w, f) /\ f[2] = w.rows[id].fork /\ id = JoinAt(d, f)
       /\ \E t \in DOMAIN w.tokens : t[1] = w.rows[id].fork

(* What belongs to a branch lies within it, and is live only while it is ACTIVE. *)
Within(d, w, t, k) ==
  \A f \in DOMAIN w.rows : IsFork(d, w, f) /\ f[2] = t[1] => k \in BranchRegion(d, d.edge[f[1]][t[2]])
BranchesLieWithin(d, w) ==
  \A id \in DOMAIN w.rows : w.rows[id].token # NoToken =>
    /\ Live(w.rows[id]) => w.tokens[w.rows[id].token] = "ACTIVE"
    /\ Within(d, w, w.rows[id].token, id[1])

(* While a branch of f is under way the outer path waits at f's join.           *)
JoinAwaits(d, w, f) ==
  \A y \in DOMAIN w.rows : w.rows[y].token = NoToken /\ y[2] > f[2] =>
    y = JoinAt(d, f) /\ w.rows[y].fork = f[2] /\ w.rows[y].state # "SUCCEEDED"
UnderWay(d, w, f) ==
  IsFork(d, w, f) /\ \E t \in DOMAIN w.tokens : t[1] = f[2] /\ w.tokens[t] = "ACTIVE"
OuterPathAwaits(d, w) == \A f \in DOMAIN w.rows : UnderWay(d, w, f) => JoinAwaits(d, w, f)

TokensOf(n, ts) == {ts[t] : t \in {x \in DOMAIN ts : x[1] = n}}
Speaks(d, s, mine) ==
  /\ s = "SUCCEEDED" => IF d.mode = "ALL" THEN mine \subseteq {"SUCCEEDED"}
                                          ELSE "SUCCEEDED" \in mine /\ "ACTIVE" \notin mine
  /\ s = "FAILED" => IF d.mode = "ALL" THEN mine \intersect {"FAILED", "CANCELLED"} # {}
                                       ELSE mine \subseteq {"FAILED", "CANCELLED"}
JoinsSpeak(d, w) ==
  \A id \in DOMAIN w.rows : w.rows[id].fork # 0 =>
    Speaks(d, w.rows[id].state, TokensOf(w.rows[id].fork, w.tokens))

Sound(d, w) ==
  /\ WellFormed(d, w) /\ OpenWhileWaiting(d, w) /\ OneAfterAnother(d, w) /\ OuterOnly(d, w)
  /\ HasFork(d, w) /\ BranchesLieWithin(d, w) /\ OuterPathAwaits(d, w) /\ JoinsSpeak(d, w)

-----------------------------------------------------------------------------
(* A node run is added. *)

Put(w, id, r) ==
  [rows |-> [x \in {id} \union DOMAIN w.rows |-> IF x = id THEN r ELSE w.rows[x]],
   tokens |-> w.tokens, ok |-> w.ok]

(* Create adds a node run or fails the transaction.                             *)
LEMMA Created ==
  ASSUME NEW w, IsWorld(w), NEW id, NEW r
  PROVE  /\ IsWorld(Create(w, id, r))
         /\ Create(w, id, r).ok => w.ok /\ id \notin DOMAIN w.rows /\ Create(w, id, r) = Put(w, id, r)
BY DEF IsWorld, Create, Put

(* What a new node run may be: the next step of its path, and of an outer path  *)
(* only when no branch is under way, but for the join they wait at.             *)
FitsRow(d, w, id, r) ==
  /\ id \in (DOMAIN d.type) \X Counts /\ id \notin DOMAIN w.rows
  /\ r \in Columns(DOMAIN w.tokens)
  /\ Open(r) <=> r.state = "WAITING" /\ d.type[id[1]] \in Registering
  /\ r.reg \in {"NONE", "OPEN"}
  /\ r.state = "SKIPPED" => d.budget[id[1]] > 0
FitsPath(d, w, id, r) ==
  /\ \A y \in DOMAIN w.rows : w.rows[y].token = r.token =>
       y[2] < id[2] /\ ~Live(w.rows[y]) /\ LeadsTo(d, w.rows[y], y[1], id[1])
  /\ d.type[id[1]] \in {"FORK", "END"} =>
       /\ r.token = NoToken
       /\ r.state = "SUCCEEDED" \/ (r.state = "SKIPPED" /\ d.type[id[1]] = "FORK")
  /\ r.token # NoToken => w.tokens[r.token] = "ACTIVE" /\ Within(d, w, r.token, id[1])
FitsJoin(d, w, id, r) ==
  /\ r.fork # 0 =>
       /\ r.token = NoToken /\ r.state = "WAITING"
       /\ \E f \in DOMAIN w.rows : IsFork(d, w, f) /\ f[2] = r.fork /\ id = JoinAt(d, f)
       /\ \E t \in DOMAIN w.tokens : t[1] = r.fork
  /\ r.token = NoToken =>
       \A f \in DOMAIN w.rows : UnderWay(d, w, f) => id = JoinAt(d, f) /\ r.fork = f[2]
CanAppend(d, w, id, r) == FitsRow(d, w, id, r) /\ FitsPath(d, w, id, r) /\ FitsJoin(d, w, id, r)

(* What Put does to the other node runs: nothing.                               *)
LEMMA PutRow ==
  ASSUME NEW w, NEW id, id \notin DOMAIN w.rows, NEW r
  PROVE  LET v == Put(w, id, r) IN
         /\ DOMAIN v.rows = {id} \union DOMAIN w.rows /\ v.rows[id] = r
         /\ \A x \in DOMAIN w.rows : x \in DOMAIN v.rows /\ x # id /\ v.rows[x] = w.rows[x]
         /\ v.tokens = w.tokens /\ v.ok = w.ok
BY DEF Put

(* A node run that fits keeps the world sound.                                  *)
LEMMA Appends ==
  ASSUME NEW d, IsDocument(d), NEW w, Sound(d, w), NEW id, NEW r, CanAppend(d, w, id, r)
  PROVE  Sound(d, Put(w, id, r))
<1>. DEFINE v == Put(w, id, r)
<1>1. /\ DOMAIN v.rows = {id} \union DOMAIN w.rows /\ v.rows[id] = r
      /\ \A x \in DOMAIN w.rows : x \in DOMAIN v.rows /\ x # id /\ v.rows[x] = w.rows[x]
      /\ v.tokens = w.tokens /\ v.ok = w.ok
      /\ id \notin DOMAIN w.rows
  BY PutRow DEF CanAppend, FitsRow
<1>2. WellFormed(d, v)
  <2>1. IsFiniteSet(DOMAIN v.rows)
    BY <1>1, FS_AddElement DEF Sound, WellFormed
  <2>2. v = [rows |-> v.rows, tokens |-> v.tokens, ok |-> v.ok]
    BY DEF Put
  <2>3. v.rows \in [DOMAIN v.rows -> Columns(DOMAIN v.tokens)]
    <3>1. \A x \in DOMAIN v.rows : v.rows[x] \in Columns(DOMAIN v.tokens)
      BY <1>1 DEF Sound, WellFormed, CanAppend, FitsRow
    <3>2. v.rows = [x \in DOMAIN v.rows |-> v.rows[x]]
      BY DEF Put
    <3>. HIDE DEF v
    <3>. QED
      BY <3>1, <3>2
  <2>. HIDE DEF v
  <2>. QED
    BY <1>1, <2>1, <2>2, <2>3 DEF Sound, WellFormed, CanAppend, FitsRow, IsWorld
<1>. HIDE DEF v
<1>3. OpenWhileWaiting(d, v)
  BY <1>1 DEF Sound, OpenWhileWaiting, CanAppend, FitsRow, Open
<1>4. OneAfterAnother(d, v)
  <2>. SUFFICES ASSUME NEW x \in DOMAIN v.rows, NEW y \in DOMAIN v.rows, v.rows[x].token = v.rows[y].token
                PROVE  /\ x[2] = y[2] => x = y
                       /\ x[2] < y[2] => ~Live(v.rows[x]) /\ LeadsTo(d, v.rows[x], x[1], y[1])
    BY DEF OneAfterAnother
  <2>0. x[2] \in Nat /\ y[2] \in Nat
    BY <1>2 DEF WellFormed, Counts
  <2>1. CASE x # id /\ y # id
    BY <1>1, <2>1 DEF Sound, OneAfterAnother
  <2>2. CASE x # id /\ y = id
    BY <1>1, <2>0, <2>2 DEF CanAppend, FitsPath
  <2>3. CASE x = id /\ y # id
    BY <1>1, <2>0, <2>3 DEF CanAppend, FitsPath
  <2>4. CASE x = id /\ y = id
    BY <2>0, <2>4
  <2>. QED
    BY <2>1, <2>2, <2>3, <2>4
<1>5. OuterOnly(d, v)
  BY <1>1 DEF Sound, OuterOnly, CanAppend, FitsPath
<1>6. ASSUME NEW f, IsFork(d, v, f)
      PROVE  /\ f # id => IsFork(d, w, f)
             /\ f = id => \A t \in DOMAIN w.tokens : t[1] # f[2]
  <2>1. CASE f # id
    BY <1>1, <1>6, <2>1 DEF IsFork
  <2>2. CASE f = id
    <3>. SUFFICES ASSUME NEW t \in DOMAIN w.tokens, t[1] = f[2] PROVE FALSE
      BY <2>2
    <3>1. PICK g \in DOMAIN w.rows : IsFork(d, w, g) /\ g[2] = t[1]
      BY DEF Sound, HasFork
    <3>2. w.rows[g].token = NoToken /\ r.token = NoToken
      BY <1>1, <1>6, <2>2, <3>1 DEF Sound, OuterOnly, IsFork, CanAppend, FitsPath
    <3>3. g[2] < f[2] /\ g[2] \in Nat
      BY <2>2, <3>1, <3>2 DEF CanAppend, FitsPath, Sound, WellFormed, Counts
    <3>. QED
      BY <3>1, <3>3
  <2>. QED
    BY <2>1, <2>2
<1>7. ASSUME NEW f \in DOMAIN w.rows, IsFork(d, w, f) PROVE f \in DOMAIN v.rows /\ IsFork(d, v, f)
  BY <1>1, <1>7 DEF IsFork
<1>8. HasFork(d, v)
  <2>1. \A t \in DOMAIN v.tokens : \E f \in DOMAIN v.rows : IsFork(d, v, f) /\ f[2] = t[1]
    BY <1>1, <1>7 DEF Sound, HasFork
  <2>2. ASSUME NEW x \in DOMAIN v.rows, v.rows[x].fork # 0
        PROVE  /\ v.rows[x].token = NoToken
               /\ \E f \in DOMAIN v.rows : IsFork(d, v, f) /\ f[2] = v.rows[x].fork /\ x = JoinAt(d, f)
               /\ \E t \in DOMAIN v.tokens : t[1] = v.rows[x].fork
    <3>1. CASE x = id
      BY <1>1, <1>7, <2>2, <3>1 DEF CanAppend, FitsJoin
    <3>2. CASE x # id
      BY <1>1, <1>7, <2>2, <3>2 DEF Sound, HasFork
    <3>. QED
      BY <3>1, <3>2
  <2>. QED
    BY <2>1, <2>2 DEF HasFork
<1>9. BranchesLieWithin(d, v)
  <2>. SUFFICES ASSUME NEW x \in DOMAIN v.rows, v.rows[x].token # NoToken
                PROVE  /\ Live(v.rows[x]) => v.tokens[v.rows[x].token] = "ACTIVE"
                       /\ Within(d, v, v.rows[x].token, x[1])
    BY DEF BranchesLieWithin
  <2>1. v.rows[x].token \in DOMAIN w.tokens
    BY <1>1, <1>2 DEF WellFormed, Columns
  <2>2. Live(v.rows[x]) => v.tokens[v.rows[x].token] = "ACTIVE"
    BY <1>1 DEF Sound, BranchesLieWithin, CanAppend, FitsPath
  <2>3. Within(d, w, v.rows[x].token, x[1])
    BY <1>1 DEF Sound, BranchesLieWithin, CanAppend, FitsPath
  <2>4. Within(d, v, v.rows[x].token, x[1])
    <3>. SUFFICES ASSUME NEW f \in DOMAIN v.rows, IsFork(d, v, f), f[2] = v.rows[x].token[1]
                  PROVE  x[1] \in BranchRegion(d, d.edge[f[1]][v.rows[x].token[2]])
      BY DEF Within
    <3>1. IsFork(d, w, f) /\ f \in DOMAIN w.rows
      BY <1>6, <2>1 DEF IsFork
    <3>. QED
      BY <2>3, <3>1 DEF Within
  <2>. QED
    BY <2>2, <2>4
<1>10. OuterPathAwaits(d, v)
  <2>. SUFFICES ASSUME NEW f \in DOMAIN v.rows, UnderWay(d, v, f),
                       NEW y \in DOMAIN v.rows, v.rows[y].token = NoToken, y[2] > f[2]
                PROVE  y = JoinAt(d, f) /\ v.rows[y].fork = f[2] /\ v.rows[y].state # "SUCCEEDED"
    BY DEF OuterPathAwaits, JoinAwaits
  <2>1. UnderWay(d, w, f) /\ f \in DOMAIN w.rows
    BY <1>1, <1>6 DEF UnderWay, IsFork
  <2>2. f[2] # 0
    BY <2>1 DEF Sound, WellFormed, Counts
  <2>3. CASE y = id
    BY <1>1, <2>1, <2>2, <2>3 DEF CanAppend, FitsJoin
  <2>4. CASE y # id
    BY <1>1, <2>1, <2>4 DEF Sound, OuterPathAwaits, JoinAwaits
  <2>. QED
    BY <2>3, <2>4
<1>11. JoinsSpeak(d, v)
  <2>. SUFFICES ASSUME NEW x \in DOMAIN v.rows, v.rows[x].fork # 0
                PROVE  Speaks(d, v.rows[x].state, TokensOf(v.rows[x].fork, v.tokens))
    BY DEF JoinsSpeak
  <2>1. CASE x = id
    BY <1>1, <2>1 DEF CanAppend, FitsJoin, Speaks
  <2>2. CASE x # id
    BY <1>1, <2>2 DEF Sound, JoinsSpeak
  <2>. QED
    BY <2>1, <2>2
<1>. QED
  BY <1>2, <1>3, <1>4, <1>5, <1>8, <1>9, <1>10, <1>11 DEF Sound, v

-----------------------------------------------------------------------------
(* The iteration of a new node run is a number. *)

(* Finitely many numbers have a bound.                                          *)
LEMMA Bounded ==
  ASSUME NEW S, IsFiniteSet(S), NEW f \in [S -> Nat]
  PROVE  \E n \in Nat : \A x \in S : f[x] <= n
<1>. DEFINE P(R) == \E n \in Nat : \A x \in R : f[x] <= n
            Bad == {R \in FiniteSubsetsOf(S) : ~P(R)}
<1>. SUFFICES ASSUME Bad # {} PROVE FALSE
  <2>1. S \in FiniteSubsetsOf(S)
    BY DEF FiniteSubsetsOf
  <2>. QED
    BY <2>1
<1>1. PICK R \in Bad : \A Q \in Bad : ~(<<Q, R>> \in StrictSubsetOrdering(S))
  <2>1. Bad \subseteq FiniteSubsetsOf(S)
    OBVIOUS
  <2>. HIDE DEF Bad
  <2>. QED
    BY <2>1, FS_StrictSubsetOrderingWellFounded, WFMin
<1>2. R # {} /\ R \subseteq S /\ IsFiniteSet(R)
  BY DEF FiniteSubsetsOf
<1>3. PICK x \in R : TRUE
  BY <1>2
<1>. DEFINE Q == R \ {x}
<1>4. Q \in FiniteSubsetsOf(S) /\ <<Q, R>> \in StrictSubsetOrdering(S)
  <2>1. IsFiniteSet(Q)
    BY <1>2, FS_RemoveElement
  <2>. QED
    BY <1>2, <1>3, <2>1 DEF FiniteSubsetsOf, StrictSubsetOrdering
<1>5. P(Q)
  BY <1>1, <1>4
<1>6. PICK n \in Nat : \A y \in Q : f[y] <= n
  BY <1>5
<1>7. P(R)
  <2>1. f[x] \in Nat /\ \A y \in R : f[y] \in Nat
    BY <1>2, <1>3
  <2>2. n + f[x] \in Nat /\ \A y \in R : f[y] <= n + f[x]
    BY <1>6, <2>1
  <2>. QED
    BY <2>2
<1>. QED
  BY <1>7

(* ... so there is a largest iteration to count on from.                        *)
LEMMA IterationIsNat ==
  ASSUME NEW d, NEW w, WellFormed(d, w), NEW k
  PROVE  /\ Iteration(w, k) \in Nat
         /\ \A id \in DOMAIN w.rows : id[1] = k => w.rows[id].iteration < Iteration(w, k)
         /\ (\A id \in DOMAIN w.rows : id[1] # k) => Iteration(w, k) = 0
<1>. DEFINE R == {x \in DOMAIN w.rows : x[1] = k}
            taken == {w.rows[id].iteration : id \in R}
<1>1. CASE taken = {}
  BY <1>1 DEF Iteration
<1>2. CASE taken # {}
  <2>1. IsFiniteSet(R) /\ \A id \in R : w.rows[id].iteration \in Nat
    <3>1. R \in SUBSET DOMAIN w.rows /\ IsFiniteSet(DOMAIN w.rows)
      BY DEF WellFormed
    <3>2. \A id \in R : w.rows[id].iteration \in Nat
      BY DEF WellFormed, Columns
    <3>. HIDE DEF R
    <3>. QED
      BY <3>1, <3>2, FS_Subset
  <2>. DEFINE f == [id \in R |-> w.rows[id].iteration]
  <2>2. PICK n \in Nat : \A id \in R : f[id] <= n
    <3>1. f \in [R -> Nat]
      BY <2>1
    <3>. HIDE DEF f, R
    <3>. QED
      BY <2>1, <3>1, Bounded
  <2>3. taken \subseteq Nat /\ \A i \in taken : i <= n
    BY <2>1, <2>2
  <2>. HIDE DEF taken, f, R
  <2>. DEFINE Short == {m \in Nat : \E i \in taken : m = n - i}
  <2>4. Short # {} /\ Short \in SUBSET Nat
    <3>1. PICK i \in taken : TRUE
      BY <1>2
    <3>2. n - i \in Nat
      BY <2>3, <3>1
    <3>. QED
      BY <3>2
  <2>5. PICK m \in Short : \A j \in Short : m <= j
    <3>. HIDE DEF Short
    <3>. QED
      BY <2>4, Least
  <2>6. PICK top \in taken : m = n - top
    OBVIOUS
  <2>7. \A i \in taken : top >= i
    <3>. SUFFICES ASSUME NEW i \in taken PROVE top >= i
      OBVIOUS
    <3>1. n - i \in Short
      BY <2>3
    <3>. QED
      BY <2>3, <2>5, <2>6, <3>1
  <2>8. Max(taken) \in taken /\ \A i \in taken : Max(taken) >= i
    <3>1. \E x \in taken : \A y \in taken : x >= y
      BY <2>7
    <3>. QED
      BY <3>1 DEF Max
  <2>9. Iteration(w, k) = Max(taken) + 1
    BY <1>2 DEF Iteration, taken, R
  <2>10. Max(taken) \in Nat
    BY <2>3, <2>8
  <2>11. ASSUME NEW id \in DOMAIN w.rows, id[1] = k PROVE w.rows[id].iteration <= Max(taken)
    <3>1. w.rows[id].iteration \in taken
      BY <2>11 DEF taken, R
    <3>. QED
      BY <2>3, <2>8, <2>10, <3>1
  <2>12. \E id \in DOMAIN w.rows : id[1] = k
    BY <1>2 DEF taken, R
  <2>13. ASSUME NEW id \in DOMAIN w.rows, id[1] = k PROVE w.rows[id].iteration < Max(taken) + 1
    <3>1. w.rows[id].iteration \in taken
      BY <2>13 DEF taken, R
    <3>2. w.rows[id].iteration <= Max(taken)
      BY <2>8, <3>1
    <3>3. w.rows[id].iteration \in Nat
      BY <2>3, <3>1
    <3>. HIDE DEF taken
    <3>. QED
      BY <2>10, <3>2, <3>3
  <2>. QED
    BY <2>9, <2>10, <2>12, <2>13
<1>. QED
  BY <1>1, <1>2

-----------------------------------------------------------------------------
(* What a transaction does not touch. *)

(* A node run that is not live stays as it is.                                  *)
Keeps(w, v) ==
  \A id \in DOMAIN w.rows :
    id \in DOMAIN v.rows /\ (~Live(w.rows[id]) => v.rows[id] = w.rows[id])

(* Every ACTIVE token, but for those of X, has a live node run.                 *)
Moves(w, X) ==
  \A t \in DOMAIN w.tokens : w.tokens[t] = "ACTIVE" /\ t \notin X =>
    \E id \in DOMAIN w.rows : w.rows[id].token = t /\ Live(w.rows[id])

(* Keeps is transitive.                                                         *)
LEMMA KeepsOn ==
  ASSUME NEW u, NEW v, NEW w, Keeps(u, v), Keeps(v, w)
  PROVE  Keeps(u, w)
<1>. SUFFICES ASSUME NEW id \in DOMAIN u.rows
              PROVE  id \in DOMAIN w.rows /\ (~Live(u.rows[id]) => w.rows[id] = u.rows[id])
  BY DEF Keeps
<1>1. id \in DOMAIN v.rows /\ (~Live(u.rows[id]) => v.rows[id] = u.rows[id])
  BY DEF Keeps
<1>2. id \in DOMAIN w.rows /\ (~Live(v.rows[id]) => w.rows[id] = v.rows[id])
  BY <1>1 DEF Keeps
<1>. QED
  BY <1>1, <1>2

(* A new node run keeps the others, and a live one carries its token.           *)
LEMMA PutGoesOn ==
  ASSUME NEW w, NEW id, id \notin DOMAIN w.rows, NEW r
  PROVE  /\ Keeps(w, Put(w, id, r))
         /\ \A X : Moves(w, X) => Moves(Put(w, id, r), X)
         /\ \A X : Moves(w, X \union {r.token}) /\ Live(r) => Moves(Put(w, id, r), X)
<1>. DEFINE v == Put(w, id, r)
<1>1. /\ DOMAIN v.rows = {id} \union DOMAIN w.rows /\ v.rows[id] = r
      /\ \A x \in DOMAIN w.rows : x \in DOMAIN v.rows /\ x # id /\ v.rows[x] = w.rows[x]
      /\ v.tokens = w.tokens
  BY PutRow
<1>. HIDE DEF v
<1>2. Keeps(w, v)
  BY <1>1 DEF Keeps
<1>3. ASSUME NEW X, Moves(w, X) PROVE Moves(v, X)
  BY <1>1, <1>3 DEF Moves
<1>4. ASSUME NEW X, Moves(w, X \union {r.token}), Live(r) PROVE Moves(v, X)
  <2>. SUFFICES ASSUME NEW t \in DOMAIN v.tokens, v.tokens[t] = "ACTIVE", t \notin X
                PROVE  \E x \in DOMAIN v.rows : v.rows[x].token = t /\ Live(v.rows[x])
    BY DEF Moves
  <2>1. CASE t = r.token
    BY <1>1, <1>4, <2>1
  <2>2. CASE t # r.token
    <3>1. PICK x \in DOMAIN w.rows : w.rows[x].token = t /\ Live(w.rows[x])
      BY <1>1, <1>4, <2>2 DEF Moves
    <3>. QED
      BY <1>1, <3>1
  <2>. QED
    BY <2>1, <2>2
<1>. QED
  BY <1>2, <1>3, <1>4 DEF v

-----------------------------------------------------------------------------
(* A node is entered. *)

MayEnter(d, w, k, s, t) ==
  /\ k \in DOMAIN d.type /\ s \in Counts /\ t \in {NoToken} \union DOMAIN w.tokens
  /\ \A y \in DOMAIN w.rows : w.rows[y].token = t =>
       y[2] < s /\ ~Live(w.rows[y]) /\ LeadsTo(d, w.rows[y], y[1], k)
  /\ t # NoToken =>
       w.tokens[t] = "ACTIVE" /\ Within(d, w, t, k) /\ d.type[k] \notin {"FORK", "END"}
  /\ t = NoToken => \A f \in DOMAIN w.rows : ~UnderWay(d, w, f)

FirstRow(w, k, t) ==
  Row(FirstState(k), Iteration(w, k), t, IF doc.type[k] \in Registering THEN "OPEN" ELSE "NONE")

(* The columns a node run begins with.                                          *)
LEMMA FirstRows ==
  ASSUME IsDocument(doc), NEW w, WellFormed(doc, w), NEW k \in DOMAIN doc.type,
         NEW t \in {NoToken} \union DOMAIN w.tokens
  PROVE  LET r == FirstRow(w, k, t) IN
         /\ r \in Columns(DOMAIN w.tokens) /\ r.token = t /\ r.fork = 0
         /\ r.reg \in {"NONE", "OPEN"} /\ r.state # "SKIPPED"
         /\ Open(r) <=> r.state = "WAITING" /\ doc.type[k] \in Registering
         /\ doc.type[k] \in {"FORK", "END"} => r.state = "SUCCEEDED"
         /\ doc.type[k] \notin {"FORK", "END"} => Live(r)
<1>1. doc.type[k] \in Types
  BY DEF IsDocument
<1>2. Iteration(w, k) \in Nat
  BY IterationIsNat
<1>3. FirstState(k) \in {"RUNNING", "WAITING", "SUCCEEDED", "PENDING"}
  BY DEF FirstState
<1>. QED
  BY <1>1, <1>2, <1>3 DEF FirstRow, Row, Columns, States, Answers, Open, Live, FirstState, Types, Registering

(* A node that may be entered is activated and the world stays sound.           *)
LEMMA Activated ==
  ASSUME IsDocument(doc), NEW w, Sound(doc, w), NEW k, NEW s, NEW t, MayEnter(doc, w, k, s, t),
         Activate(w, k, s, t).ok
  PROVE  LET v == Activate(w, k, s, t) IN
         /\ w.ok /\ <<k, s>> \notin DOMAIN w.rows /\ v = Put(w, <<k, s>>, FirstRow(w, k, t))
         /\ Sound(doc, v) /\ Keeps(w, v)
         /\ \A X : Moves(w, X) => Moves(v, X)
         /\ t # NoToken => \A X : Moves(w, X \union {t}) => Moves(v, X)
<1>. DEFINE v == Activate(w, k, s, t)
            id == <<k, s>>
            r == FirstRow(w, k, t)
<1>1. v = Create(w, id, r)
  BY DEF Activate, FirstRow
<1>2. IsWorld(w) /\ WellFormed(doc, w)
  BY DEF Sound, WellFormed
<1>3. w.ok /\ id \notin DOMAIN w.rows /\ v = Put(w, id, r)
  <2>. HIDE DEF id, r
  <2>. QED
    BY <1>1, <1>2, Created
<1>4. /\ r \in Columns(DOMAIN w.tokens) /\ r.token = t /\ r.fork = 0
      /\ r.reg \in {"NONE", "OPEN"} /\ r.state # "SKIPPED"
      /\ Open(r) <=> r.state = "WAITING" /\ doc.type[k] \in Registering
      /\ doc.type[k] \in {"FORK", "END"} => r.state = "SUCCEEDED"
      /\ doc.type[k] \notin {"FORK", "END"} => Live(r)
  BY <1>2, FirstRows DEF MayEnter
<1>. HIDE DEF r
<1>5. FitsRow(doc, w, id, r)
  BY <1>3, <1>4 DEF MayEnter, FitsRow
<1>6. FitsPath(doc, w, id, r)
  BY <1>4 DEF MayEnter, FitsPath
<1>7. FitsJoin(doc, w, id, r)
  BY <1>4 DEF MayEnter, FitsJoin
<1>. HIDE DEF id
<1>8. Sound(doc, Put(w, id, r))
  BY <1>5, <1>6, <1>7, Appends DEF CanAppend
<1>9. /\ Keeps(w, v)
      /\ \A X : Moves(w, X) => Moves(v, X)
      /\ \A X : Moves(w, X \union {t}) /\ Live(r) => Moves(v, X)
  BY <1>3, <1>4, PutGoesOn
<1>10. t # NoToken => Live(r)
  BY <1>4 DEF MayEnter
<1>. QED
  BY <1>3, <1>8, <1>9, <1>10 DEF r, id

(* A path leads on from where it led to.                                        *)
LEMMA LeadsOn ==
  ASSUME NEW d, IsDocument(d), Accepted(d), NEW r, NEW k \in DOMAIN d.type,
         r.state = "SKIPPED" => d.budget[k] > 0,
         NEW m \in DOMAIN d.type, NEW n \in DOMAIN d.type, LeadsTo(d, r, k, m), Reaches(d, m, n)
  PROVE  LeadsTo(d, r, k, n)
<1>1. Reaches(d, k, n)
  BY ReachesOn DEF LeadsTo
<1>2. CASE r.state = "SKIPPED"
  <2>1. d.edge[k]["alt"] \in DOMAIN d.type
    BY <1>2, EdgeReaches DEF Accepted
  <2>2. Reaches(d, d.edge[k]["alt"], n)
    BY <1>2, <2>1, ReachesOn DEF LeadsTo
  <2>. QED
    BY <1>1, <2>2 DEF LeadsTo
<1>. QED
  BY <1>1, <1>2 DEF LeadsTo

-----------------------------------------------------------------------------
(* A fork's join. *)

(* Nothing follows f on the outer path but f's join.                            *)
AtJoin(d, w, f) ==
  /\ IsFork(d, w, f)
  /\ \E t \in DOMAIN w.tokens : t[1] = f[2]
  /\ \A y \in DOMAIN w.rows : w.rows[y].token = NoToken /\ y[2] > f[2] =>
       y = JoinAt(d, f) /\ w.rows[y].fork = f[2]

(* A fork whose join is all that follows is the only one under way.             *)
LEMMA OneForkUnderWay ==
  ASSUME NEW d, IsDocument(d), Accepted(d), NEW w, Sound(d, w), NEW f, AtJoin(d, w, f),
         NEW g \in DOMAIN w.rows, UnderWay(d, w, g)
  PROVE  g = f
<1>1. f \in DOMAIN w.rows /\ d.type[f[1]] = "FORK" /\ d.type[g[1]] = "FORK"
  BY DEF AtJoin, UnderWay, IsFork
<1>2. w.rows[f].token = NoToken /\ w.rows[g].token = NoToken
  BY <1>1 DEF Sound, OuterOnly
<1>3. f[2] \in Nat /\ g[2] \in Nat /\ f[1] \in NodesOfType(d, "FORK") /\ g[1] \in NodesOfType(d, "FORK")
  BY <1>1 DEF Sound, WellFormed, Counts, NodesOfType
<1>4. d.type[JoinAt(d, f)[1]] = "JOIN" /\ d.type[JoinAt(d, g)[1]] = "JOIN"
  BY <1>3, JoinsOfForks
<1>5. ~(g[2] > f[2])
  BY <1>1, <1>2, <1>4 DEF AtJoin
<1>6. ~(f[2] > g[2])
  BY <1>1, <1>2, <1>4 DEF Sound, OuterPathAwaits, JoinAwaits
<1>. QED
  BY <1>1, <1>2, <1>3, <1>5, <1>6 DEF Sound, OneAfterAnother

(* The join's node run is found, or made, and is the next one on the outer      *)
(* path.                                                                        *)
LEMMA JoinsMeet ==
  ASSUME IsDocument(doc), Accepted(doc), NEW w, Sound(doc, w), NEW f, AtJoin(doc, w, f),
         WithJoinRow(w, f).ok
  PROVE  LET v == WithJoinRow(w, f)
             j == JoinAt(doc, f) IN
         /\ w.ok /\ Sound(doc, v) /\ Keeps(w, v) /\ \A X : Moves(w, X) => Moves(v, X)
         /\ v.tokens = w.tokens /\ j \in DOMAIN v.rows /\ v.rows[j].fork = f[2]
         /\ AtJoin(doc, v, f)
         /\ \A x \in DOMAIN v.rows : x # j => x \in DOMAIN w.rows /\ v.rows[x] = w.rows[x]
<1>. DEFINE v == WithJoinRow(w, f)
            j == JoinAt(doc, f)
            r == [Row("WAITING", Iteration(w, JoinOf(f)), NoToken, "NONE") EXCEPT !.fork = f[2]]
<1>0. JoinRow(f) = j
  BY DEF JoinRow, JoinOf, JoinAt
<1>1. /\ f \in DOMAIN w.rows /\ doc.type[f[1]] = "FORK" /\ f[1] \in NodesOfType(doc, "FORK")
      /\ f[2] \in Counts /\ w.rows[f].token = NoToken /\ ~Live(w.rows[f]) /\ w.rows[f].state # "SKIPPED"
  BY DEF AtJoin, IsFork, Sound, WellFormed, NodesOfType, OuterOnly, Live
<1>2. j[1] \in DOMAIN doc.type /\ doc.type[j[1]] = "JOIN" /\ Reaches(doc, f[1], j[1]) /\ j[2] = f[2] + 1
  BY <1>1, JoinsOfForks DEF JoinAt
<1>3. CASE HasJoinRow(w, f)
  <2>1. v = w
    BY <1>3 DEF WithJoinRow
  <2>2. Keeps(w, w)
    BY DEF Keeps
  <2>3. j \in DOMAIN w.rows /\ w.rows[j].fork = f[2]
    BY <1>0, <1>3 DEF HasJoinRow
  <2>4. w.ok
    BY <2>1
  <2>. QED
    BY <2>1, <2>2, <2>3, <2>4
<1>4. CASE ~HasJoinRow(w, f)
  <2>1. v = Create(w, j, r)
    BY <1>0, <1>4 DEF WithJoinRow
  <2>2. w.ok /\ j \notin DOMAIN w.rows /\ v = Put(w, j, r)
    <3>1. IsWorld(w)
      BY DEF Sound, WellFormed
    <3>. HIDE DEF j, r
    <3>. QED
      BY <2>1, <3>1, Created
  <2>3. r \in Columns(DOMAIN w.tokens) /\ r.token = NoToken /\ r.fork = f[2] /\ r.state = "WAITING" /\ r.reg = "NONE"
    <3>1. Iteration(w, JoinOf(f)) \in Nat
      BY IterationIsNat DEF Sound
    <3>. QED
      BY <1>1, <3>1 DEF Row, Columns, States, Answers, Counts
  <2>. HIDE DEF r
  <2>4. ASSUME NEW y \in DOMAIN w.rows, w.rows[y].token = NoToken
        PROVE  y[2] < j[2] /\ ~Live(w.rows[y]) /\ LeadsTo(doc, w.rows[y], y[1], j[1])
    <3>1. y[2] \in Nat /\ y[1] \in DOMAIN doc.type /\ f[1] \in DOMAIN doc.type
      BY <1>1 DEF Sound, WellFormed, Counts
    <3>2. ~(y[2] > f[2])
      BY <2>2, <2>4 DEF AtJoin
    <3>3. CASE y[2] = f[2]
      <4>1. y = f
        BY <1>1, <2>4, <3>3 DEF Sound, OneAfterAnother
      <4>. QED
        BY <1>1, <1>2, <3>1, <4>1 DEF LeadsTo, Counts
    <3>4. CASE y[2] < f[2]
      <4>1. ~Live(w.rows[y]) /\ LeadsTo(doc, w.rows[y], y[1], f[1])
        BY <1>1, <2>4, <3>4 DEF Sound, OneAfterAnother
      <4>2. w.rows[y].state = "SKIPPED" => doc.budget[y[1]] > 0
        BY DEF Sound, OpenWhileWaiting
      <4>3. LeadsTo(doc, w.rows[y], y[1], j[1])
        <5>. HIDE DEF j
        <5>. QED
          BY <1>2, <3>1, <4>1, <4>2, LeadsOn
      <4>. QED
        BY <1>1, <1>2, <3>1, <3>4, <4>1, <4>3 DEF Counts
    <3>. QED
      BY <1>1, <3>1, <3>2, <3>3, <3>4 DEF Counts
  <2>5. FitsRow(doc, w, j, r)
    <3>1. j \in (DOMAIN doc.type) \X Counts
      <4>1. f[2] + 1 \in Counts
        BY <1>1 DEF Counts
      <4>2. j = <<j[1], f[2] + 1>>
        BY DEF JoinAt
      <4>. HIDE DEF j
      <4>. QED
        BY <1>2, <4>1, <4>2
    <3>. HIDE DEF j
    <3>. QED
      BY <1>2, <2>2, <2>3, <3>1 DEF FitsRow, Open, Registering
  <2>. HIDE DEF j
  <2>6. FitsPath(doc, w, j, r)
    BY <1>2, <2>3, <2>4 DEF FitsPath
  <2>7. FitsJoin(doc, w, j, r)
    <3>1. \A g \in DOMAIN w.rows : UnderWay(doc, w, g) => j = JoinAt(doc, g) /\ r.fork = g[2]
      BY <2>3, OneForkUnderWay DEF j
    <3>2. \E g \in DOMAIN w.rows : IsFork(doc, w, g) /\ g[2] = r.fork /\ j = JoinAt(doc, g)
      BY <1>1, <2>3 DEF AtJoin, j
    <3>3. \E t \in DOMAIN w.tokens : t[1] = r.fork
      BY <2>3 DEF AtJoin
    <3>. QED
      BY <2>3, <3>1, <3>2, <3>3 DEF FitsJoin
  <2>8. Sound(doc, v)
    BY <2>2, <2>5, <2>6, <2>7, Appends DEF CanAppend
  <2>9. Keeps(w, v) /\ \A X : Moves(w, X) => Moves(v, X)
    BY <2>2, PutGoesOn
  <2>10. /\ v.tokens = w.tokens /\ DOMAIN v.rows = {j} \union DOMAIN w.rows /\ v.rows[j] = r
         /\ \A x \in DOMAIN w.rows : x # j /\ v.rows[x] = w.rows[x]
    BY <2>2, PutRow
  <2>. HIDE DEF v
  <2>11. AtJoin(doc, v, f)
    BY <2>2, <2>3, <2>10 DEF AtJoin, IsFork, j
  <2>. QED
    BY <2>2, <2>3, <2>8, <2>9, <2>10, <2>11 DEF v, j
<1>. QED
  BY <1>3, <1>4

-----------------------------------------------------------------------------
(* A fork is entered: its tokens are issued, then each branch begins. *)

(* Forks have different sequences.                                              *)
LEMMA SameFork ==
  ASSUME NEW d, NEW w, Sound(d, w), NEW f, IsFork(d, w, f), NEW g, IsFork(d, w, g), g[2] = f[2]
  PROVE  g = f
BY DEF IsFork, Sound, OuterOnly, OneAfterAnother

JustForked(d, w, f) ==
  /\ IsFork(d, w, f)
  /\ \A t \in DOMAIN w.tokens : t[1] # f[2]
  /\ \A y \in DOMAIN w.rows : w.rows[y].token = NoToken => ~(y[2] > f[2])
  /\ \A g \in DOMAIN w.rows : ~UnderWay(d, w, g)

Unused(w, t) == \A y \in DOMAIN w.rows : w.rows[y].token # t
TokensFor(f) == {<<f[2], o>> : o \in Outcomes}
FirstToken(f, o) == IF doc.type[doc.edge[f[1]][o]] = "JOIN" THEN "SUCCEEDED" ELSE "ACTIVE"
Issued(w, f) ==
  [w EXCEPT !.tokens = [t \in TokensFor(f) \union DOMAIN @ |->
                          IF t \in TokensFor(f) THEN FirstToken(f, t[2]) ELSE @[t]]]
Branch(v, f, o, s) ==
  IF doc.type[doc.edge[f[1]][o]] = "JOIN" THEN WithJoinRow(v, f)
                                          ELSE Activate(v, doc.edge[f[1]][o], s, <<f[2], o>>)

(* Dispatch issues the tokens and begins the branches, the alternative one      *)
(* first.                                                                       *)
LEMMA DispatchIs ==
  ASSUME NEW w, NEW f
  PROVE  \E s : s \in {1, 2} /\ Dispatch(w, f) = Branch(Branch(Issued(w, f), f, "alt", f[2] + 1), f, "ok", f[2] + s)
BY DEF Dispatch, Branch, Issued, TokensFor, FirstToken

(* The new tokens belong to the fork just entered, and nobody has them yet.     *)
LEMMA TokensAreIssued ==
  ASSUME NEW w, Sound(doc, w), NEW f, JustForked(doc, w, f)
  PROVE  LET v == Issued(w, f) IN
         /\ Sound(doc, v) /\ AtJoin(doc, v, f) /\ Keeps(w, v) /\ v.ok = w.ok
         /\ \A X : Moves(w, X) => Moves(v, X \union TokensFor(f))
         /\ \A o \in Outcomes : /\ <<f[2], o>> \in DOMAIN v.tokens
                                /\ v.tokens[<<f[2], o>>] = FirstToken(f, o)
                                /\ Unused(v, <<f[2], o>>)
<1>. DEFINE v == Issued(w, f)
<1>1. IsWorld(w) /\ f \in DOMAIN w.rows /\ f[2] \in Counts
  BY DEF Sound, WellFormed, JustForked, IsFork
<1>2. /\ v.rows = w.rows /\ v.ok = w.ok /\ IsWorld(v)
      /\ v.tokens = [t \in TokensFor(f) \union DOMAIN w.tokens |->
                       IF t \in TokensFor(f) THEN FirstToken(f, t[2]) ELSE w.tokens[t]]
  BY <1>1 DEF Issued, IsWorld
<1>. HIDE DEF v
<1>3. DOMAIN v.tokens = TokensFor(f) \union DOMAIN w.tokens
  BY <1>2
<1>4. ASSUME NEW t \in DOMAIN w.tokens
      PROVE  t \in DOMAIN v.tokens /\ t \notin TokensFor(f) /\ v.tokens[t] = w.tokens[t]
  BY <1>2 DEF JustForked, TokensFor
<1>5. ASSUME NEW t \in TokensFor(f)
      PROVE  t \in DOMAIN v.tokens /\ t[1] = f[2] /\ t[2] \in Outcomes /\ t = <<f[2], t[2]>>
             /\ v.tokens[t] = FirstToken(f, t[2]) /\ v.tokens[t] \in {"ACTIVE", "SUCCEEDED"}
             /\ t \in Counts \X Outcomes
  <2>1. PICK o \in Outcomes : t = <<f[2], o>>
    BY DEF TokensFor
  <2>2. v.tokens[t] = FirstToken(f, t[2])
    BY <1>2
  <2>3. FirstToken(f, t[2]) \in {"ACTIVE", "SUCCEEDED"}
    BY DEF FirstToken
  <2>. QED
    BY <1>1, <1>3, <2>1, <2>2, <2>3
<1>6. ASSUME NEW y \in DOMAIN w.rows
      PROVE  w.rows[y].token \notin TokensFor(f) /\ w.rows[y].token \in {NoToken} \union DOMAIN w.tokens
  <2>1. w.rows[y].token \in {NoToken} \union DOMAIN w.tokens
    BY DEF Sound, WellFormed, Columns
  <2>2. NoToken \notin TokensFor(f)
    BY <1>1 DEF NoToken, TokensFor, Counts
  <2>. QED
    BY <1>4, <2>1, <2>2
<1>7. \A g : IsFork(doc, v, g) <=> IsFork(doc, w, g)
  BY <1>2 DEF IsFork
<1>8. WellFormed(doc, v)
  <2>1. v.tokens \in [DOMAIN v.tokens -> TokenStates]
    <3>1. \A t \in DOMAIN v.tokens : v.tokens[t] \in TokenStates
      BY <1>3, <1>4, <1>5 DEF Sound, WellFormed, TokenStates
    <3>2. v.tokens = [t \in DOMAIN v.tokens |-> v.tokens[t]]
      BY <1>2
    <3>. QED
      BY <3>1, <3>2
  <2>2. DOMAIN v.tokens \subseteq Counts \X Outcomes
    BY <1>3, <1>5 DEF Sound, WellFormed
  <2>3. v.rows \in [DOMAIN v.rows -> Columns(DOMAIN v.tokens)]
    <3>1. Columns(DOMAIN w.tokens) \subseteq Columns(DOMAIN v.tokens)
      BY <1>3 DEF Columns
    <3>. QED
      BY <1>2, <3>1 DEF Sound, WellFormed
  <2>. QED
    BY <1>2, <2>1, <2>2, <2>3 DEF Sound, WellFormed
<1>9. OpenWhileWaiting(doc, v) /\ OneAfterAnother(doc, v) /\ OuterOnly(doc, v)
  BY <1>2 DEF Sound, OpenWhileWaiting, OneAfterAnother, OuterOnly
<1>10. HasFork(doc, v)
  <2>1. \A t \in DOMAIN v.tokens : \E g \in DOMAIN v.rows : IsFork(doc, v, g) /\ g[2] = t[1]
    BY <1>1, <1>2, <1>3, <1>5, <1>7 DEF Sound, HasFork, JustForked
  <2>2. \A id \in DOMAIN v.rows : v.rows[id].fork # 0 =>
          /\ v.rows[id].token = NoToken
          /\ \E g \in DOMAIN v.rows : IsFork(doc, v, g) /\ g[2] = v.rows[id].fork /\ id = JoinAt(doc, g)
          /\ \E t \in DOMAIN v.tokens : t[1] = v.rows[id].fork
    BY <1>2, <1>4, <1>7 DEF Sound, HasFork
  <2>. QED
    BY <2>1, <2>2 DEF HasFork
<1>11. BranchesLieWithin(doc, v)
  BY <1>2, <1>4, <1>6, <1>7 DEF Sound, BranchesLieWithin, Within
<1>12. OuterPathAwaits(doc, v)
  <2>. SUFFICES ASSUME NEW g \in DOMAIN v.rows, UnderWay(doc, v, g) PROVE JoinAwaits(doc, v, g)
    BY DEF OuterPathAwaits
  <2>1. PICK t \in DOMAIN v.tokens : t[1] = g[2] /\ v.tokens[t] = "ACTIVE"
    BY DEF UnderWay
  <2>2. t \in TokensFor(f)
    BY <1>2, <1>3, <1>4, <1>7, <2>1 DEF JustForked, UnderWay
  <2>3. g = f
    BY <1>5, <1>7, <2>1, <2>2, SameFork DEF JustForked, UnderWay
  <2>. QED
    BY <1>2, <2>3 DEF JustForked, JoinAwaits
<1>13. JoinsSpeak(doc, v)
  <2>. SUFFICES ASSUME NEW id \in DOMAIN v.rows, v.rows[id].fork # 0
                PROVE  Speaks(doc, v.rows[id].state, TokensOf(v.rows[id].fork, v.tokens))
    BY DEF JoinsSpeak
  <2>1. v.rows[id].fork # f[2]
    BY <1>2 DEF Sound, HasFork, JustForked
  <2>2. TokensOf(v.rows[id].fork, v.tokens) = TokensOf(v.rows[id].fork, w.tokens)
    <3>1. {x \in DOMAIN v.tokens : x[1] = v.rows[id].fork} = {x \in DOMAIN w.tokens : x[1] = v.rows[id].fork}
      BY <1>3, <1>5, <2>1
    <3>. QED
      BY <1>4, <3>1 DEF TokensOf
  <2>. QED
    BY <1>2, <2>2 DEF Sound, JoinsSpeak
<1>14. Sound(doc, v)
  BY <1>8, <1>9, <1>10, <1>11, <1>12, <1>13 DEF Sound
<1>15. AtJoin(doc, v, f)
  <2>1. <<f[2], "ok">> \in TokensFor(f)
    BY DEF TokensFor, Outcomes
  <2>2. \E t \in DOMAIN v.tokens : t[1] = f[2]
    BY <1>3, <2>1
  <2>. QED
    BY <1>2, <1>7, <2>2 DEF JustForked, AtJoin
<1>16. Keeps(w, v)
  BY <1>2 DEF Keeps
<1>17. ASSUME NEW X, Moves(w, X) PROVE Moves(v, X \union TokensFor(f))
  BY <1>2, <1>3, <1>4, <1>17 DEF Moves
<1>18. ASSUME NEW o \in Outcomes
       PROVE  /\ <<f[2], o>> \in DOMAIN v.tokens
              /\ v.tokens[<<f[2], o>>] = FirstToken(f, o)
              /\ Unused(v, <<f[2], o>>)
  <2>1. <<f[2], o>> \in TokensFor(f)
    BY DEF TokensFor
  <2>. QED
    BY <1>2, <1>5, <1>6, <2>1 DEF Unused
<1>. QED
  BY <1>2, <1>14, <1>15, <1>16, <1>17, <1>18 DEF v

(* A branch begins at its first node, or at the join when it is empty.          *)
LEMMA BranchBegins ==
  ASSUME IsDocument(doc), Accepted(doc), NEW v, Sound(doc, v), NEW f, AtJoin(doc, v, f),
         NEW o \in Outcomes, <<f[2], o>> \in DOMAIN v.tokens,
         v.tokens[<<f[2], o>>] = FirstToken(f, o),
         Unused(v, <<f[2], o>>),
         NEW s \in Counts, Branch(v, f, o, s).ok
  PROVE  LET b == Branch(v, f, o, s) IN
         /\ v.ok /\ Sound(doc, b) /\ AtJoin(doc, b, f) /\ Keeps(v, b) /\ b.tokens = v.tokens
         /\ \A X : Moves(v, X \union {<<f[2], o>>}) => Moves(b, X)
         /\ \A p \in Outcomes : p # o /\ Unused(v, <<f[2], p>>) => Unused(b, <<f[2], p>>)
<1>. DEFINE b == Branch(v, f, o, s)
            k == doc.edge[f[1]][o]
            t == <<f[2], o>>
<1>1. /\ f \in DOMAIN v.rows /\ f[1] \in NodesOfType(doc, "FORK") /\ f[1] \in DOMAIN doc.type
      /\ doc.type[f[1]] = "FORK" /\ f[2] \in Counts
  BY DEF AtJoin, IsFork, Sound, WellFormed, NodesOfType
<1>2. t # NoToken /\ \A p \in Outcomes : NoToken # <<f[2], p>>
  BY <1>1 DEF NoToken, Counts
<1>3. CASE doc.type[k] = "JOIN"
  <2>1. b = WithJoinRow(v, f)
    BY <1>3 DEF Branch
  <2>. HIDE DEF b
  <2>2. /\ v.ok /\ Sound(doc, b) /\ Keeps(v, b) /\ \A X : Moves(v, X) => Moves(b, X)
        /\ b.tokens = v.tokens /\ AtJoin(doc, b, f)
        /\ JoinAt(doc, f) \in DOMAIN b.rows /\ b.rows[JoinAt(doc, f)].fork = f[2]
        /\ \A x \in DOMAIN b.rows : x # JoinAt(doc, f) => x \in DOMAIN v.rows /\ b.rows[x] = v.rows[x]
    BY <2>1, JoinsMeet DEF b
  <2>3. ASSUME NEW X, Moves(v, X \union {t}) PROVE Moves(b, X)
    <3>1. v.tokens[t] # "ACTIVE"
      BY <1>3 DEF FirstToken
    <3>2. Moves(v, X)
      BY <2>3, <3>1 DEF Moves
    <3>. QED
      BY <2>2, <3>2
  <2>4. b.rows[JoinAt(doc, f)].token = NoToken
    BY <1>1, <2>2 DEF Sound, HasFork, Counts
  <2>. QED
    BY <1>2, <2>2, <2>3, <2>4 DEF b, t, Unused
<1>4. CASE doc.type[k] # "JOIN"
  <2>1. b = Activate(v, k, s, t)
    BY <1>4 DEF Branch
  <2>2. /\ k \in BranchRegion(doc, k) /\ k \in DOMAIN doc.type /\ doc.type[k] \notin {"FORK", "END"}
    BY <1>1, Regions
  <2>3. Within(doc, v, t, k)
    <3>. SUFFICES ASSUME NEW g \in DOMAIN v.rows, IsFork(doc, v, g), g[2] = t[1]
                  PROVE  k \in BranchRegion(doc, doc.edge[g[1]][t[2]])
      BY DEF Within
    <3>1. g = f
      BY SameFork DEF AtJoin
    <3>. QED
      BY <2>2, <3>1
  <2>4. v.tokens[t] = "ACTIVE"
    BY <1>4 DEF FirstToken
  <2>. HIDE DEF b, k, t
  <2>5. MayEnter(doc, v, k, s, t)
    BY <1>2, <2>2, <2>3, <2>4 DEF MayEnter, t, Unused
  <2>6. /\ v.ok /\ <<k, s>> \notin DOMAIN v.rows /\ b = Put(v, <<k, s>>, FirstRow(v, k, t))
        /\ Sound(doc, b) /\ Keeps(v, b) /\ \A X : Moves(v, X \union {t}) => Moves(b, X)
    BY <1>2, <2>1, <2>5, Activated DEF b
  <2>7. FirstRow(v, k, t).token = t
    BY DEF FirstRow, Row
  <2>8. /\ b.tokens = v.tokens /\ DOMAIN b.rows = {<<k, s>>} \union DOMAIN v.rows
        /\ b.rows[<<k, s>>].token = t
        /\ \A x \in DOMAIN v.rows : x # <<k, s>> /\ b.rows[x] = v.rows[x]
    BY <2>6, <2>7, PutRow
  <2>9. AtJoin(doc, b, f)
    BY <1>2, <2>8 DEF AtJoin, IsFork
  <2>10. ASSUME NEW p \in Outcomes, p # o, Unused(v, <<f[2], p>>)
         PROVE  Unused(b, <<f[2], p>>)
    BY <2>8, <2>10 DEF t, Unused
  <2>. QED
    BY <2>6, <2>8, <2>9, <2>10 DEF b, t
<1>. QED
  BY <1>3, <1>4

(* A fork is entered, and afterwards the outer path waits at its join.          *)
LEMMA Dispatched ==
  ASSUME IsDocument(doc), Accepted(doc), NEW w, Sound(doc, w), NEW f, JustForked(doc, w, f),
         Dispatch(w, f).ok
  PROVE  LET v == Dispatch(w, f) IN
         w.ok /\ Sound(doc, v) /\ Keeps(w, v) /\ \A X : Moves(w, X) => Moves(v, X)
<1>. DEFINE u == Issued(w, f)
            a == Branch(u, f, "alt", f[2] + 1)
            at == <<f[2], "alt">>
            ot == <<f[2], "ok">>
<1>1. PICK s : s \in {1, 2} /\ Dispatch(w, f) = Branch(a, f, "ok", f[2] + s)
  BY DispatchIs
<1>. DEFINE v == Branch(a, f, "ok", f[2] + s)
<1>2. f[2] + 1 \in Counts /\ f[2] + s \in Counts
  BY <1>1 DEF JustForked, IsFork, Sound, WellFormed, Counts
<1>3. /\ Sound(doc, u) /\ AtJoin(doc, u, f) /\ Keeps(w, u) /\ u.ok = w.ok
      /\ \A X : Moves(w, X) => Moves(u, X \union TokensFor(f))
      /\ \A o \in Outcomes : /\ <<f[2], o>> \in DOMAIN u.tokens
                             /\ u.tokens[<<f[2], o>>] = FirstToken(f, o)
                             /\ Unused(u, <<f[2], o>>)
  BY TokensAreIssued
<1>. HIDE DEF u, v
<1>4. "ok" \in Outcomes /\ "alt" \in Outcomes /\ TokensFor(f) = {at} \union {ot}
  BY DEF Outcomes, TokensFor
<1>5. a.ok
  <2>1. IsWorld(a)
    <3>1. IsWorld(u)
      BY <1>3 DEF Sound, WellFormed
    <3>. QED
      BY <3>1, Created DEF Branch, WithJoinRow, Activate
  <2>. HIDE DEF a
  <2>2. v.ok
    BY <1>1 DEF v
  <2>. QED
    BY <2>1, <2>2, Created DEF v, Branch, WithJoinRow, Activate
<1>6. /\ u.ok /\ Sound(doc, a) /\ AtJoin(doc, a, f) /\ Keeps(u, a) /\ a.tokens = u.tokens
      /\ \A X : Moves(u, X \union {at}) => Moves(a, X)
      /\ Unused(a, ot)
  <2>1. /\ "alt" \in Outcomes /\ at \in DOMAIN u.tokens /\ u.tokens[at] = FirstToken(f, "alt")
        /\ Unused(u, at) /\ Unused(u, ot)
    BY <1>3, <1>4
  <2>2. /\ u.ok /\ Sound(doc, a) /\ AtJoin(doc, a, f) /\ Keeps(u, a) /\ a.tokens = u.tokens
        /\ \A X : Moves(u, X \union {at}) => Moves(a, X)
        /\ \A p \in Outcomes : p # "alt" /\ Unused(u, <<f[2], p>>) => Unused(a, <<f[2], p>>)
    BY <1>2, <1>3, <1>5, <2>1, BranchBegins
  <2>. QED
    BY <1>4, <2>1, <2>2
<1>. HIDE DEF a
<1>7. /\ Sound(doc, v) /\ Keeps(a, v)
      /\ \A X : Moves(a, X \union {ot}) => Moves(v, X)
  <2>1. /\ "ok" \in Outcomes /\ ot \in DOMAIN a.tokens /\ a.tokens[ot] = FirstToken(f, "ok")
        /\ Unused(a, ot)
    BY <1>3, <1>4, <1>6
  <2>2. v = Branch(a, f, "ok", f[2] + s) /\ v.ok
    BY <1>1 DEF v
  <2>. QED
    BY <1>2, <1>6, <2>1, <2>2, BranchBegins
<1>8. Keeps(w, v)
  BY <1>3, <1>6, <1>7, KeepsOn
<1>9. ASSUME NEW X, Moves(w, X) PROVE Moves(v, X)
  <2>1. Moves(u, X \union TokensFor(f))
    BY <1>3, <1>9
  <2>2. X \union TokensFor(f) = (X \union {ot}) \union {at}
    BY <1>4
  <2>3. Moves(a, X \union {ot})
    BY <1>6, <2>1, <2>2
  <2>. QED
    BY <1>7, <2>3
<1>. QED
  BY <1>1, <1>3, <1>6, <1>7, <1>8, <1>9 DEF v

(* A transaction that failed goes on failing.                                   *)
LEMMA EnterOk ==
  ASSUME NEW w, IsWorld(w), NEW k, NEW s, NEW t, Enter(w, k, s, t).ok
  PROVE  w.ok
<1>. DEFINE v == Activate(w, k, s, t)
<1>1. v.ok
  BY DEF Enter
<1>. QED
  BY <1>1, Created DEF Activate

(* NoToken is nobody's token.                                                   *)
LEMMA NoTokenMoves ==
  ASSUME NEW d, NEW w, WellFormed(d, w), NEW X, Moves(w, X \union {NoToken})
  PROVE  Moves(w, X)
BY DEF WellFormed, Counts, NoToken, Moves

(* A fork that has just been entered has issued nothing yet.                    *)
LEMMA ForkIsNew ==
  ASSUME NEW w, Sound(doc, w), NEW k, NEW s, NEW t, MayEnter(doc, w, k, s, t), doc.type[k] = "FORK",
         <<k, s>> \notin DOMAIN w.rows, NEW u, u = Put(w, <<k, s>>, FirstRow(w, k, t))
  PROVE  JustForked(doc, u, <<k, s>>)
<1>. DEFINE f == <<k, s>>
<1>1. t = NoToken /\ s \in Counts /\ FirstRow(w, k, t).state = "SUCCEEDED"
  BY DEF MayEnter, FirstRow, Row, FirstState, Registering
<1>2. /\ u.tokens = w.tokens /\ DOMAIN u.rows = {f} \union DOMAIN w.rows
      /\ u.rows[f] = FirstRow(w, k, t)
      /\ \A x \in DOMAIN w.rows : x # f /\ u.rows[x] = w.rows[x]
  BY PutRow
<1>3. ASSUME NEW x \in DOMAIN w.tokens PROVE x[1] # s
  <2>1. PICK g \in DOMAIN w.rows : IsFork(doc, w, g) /\ g[2] = x[1]
    BY DEF Sound, HasFork
  <2>2. w.rows[g].token = NoToken /\ g[2] \in Nat
    BY <2>1 DEF Sound, OuterOnly, IsFork, WellFormed, Counts
  <2>. QED
    BY <1>1, <2>1, <2>2 DEF MayEnter, Counts
<1>4. IsFork(doc, u, f)
  BY <1>1, <1>2 DEF IsFork
<1>5. \A y \in DOMAIN u.rows : u.rows[y].token = NoToken => ~(y[2] > s)
  <2>1. \A y \in DOMAIN w.rows : y[2] \in Nat
    BY DEF Sound, WellFormed, Counts
  <2>. QED
    BY <1>1, <1>2, <2>1 DEF MayEnter, Counts
<1>6. ASSUME NEW g \in DOMAIN u.rows, UnderWay(doc, u, g) PROVE FALSE
  <2>1. g # f
    BY <1>2, <1>3, <1>6 DEF UnderWay
  <2>2. UnderWay(doc, w, g) /\ g \in DOMAIN w.rows
    BY <1>2, <1>6, <2>1 DEF UnderWay, IsFork
  <2>. QED
    BY <1>1, <2>2 DEF MayEnter
<1>. QED
  BY <1>2, <1>3, <1>4, <1>5, <1>6 DEF JustForked

(* A node is entered, with the branches of a FORK behind it.                    *)
LEMMA Entered ==
  ASSUME IsDocument(doc), Accepted(doc), NEW w, Sound(doc, w), NEW k, NEW s, NEW t,
         MayEnter(doc, w, k, s, t), Enter(w, k, s, t).ok
  PROVE  LET v == Enter(w, k, s, t) IN
         w.ok /\ Sound(doc, v) /\ Keeps(w, v) /\ \A X : Moves(w, X \union {t}) => Moves(v, X)
<1>. DEFINE u == Activate(w, k, s, t)
            v == Enter(w, k, s, t)
            f == <<k, s>>
<1>1. u.ok
  BY DEF Enter
<1>2. /\ w.ok /\ f \notin DOMAIN w.rows /\ u = Put(w, f, FirstRow(w, k, t))
      /\ Sound(doc, u) /\ Keeps(w, u)
      /\ \A X : Moves(w, X) => Moves(u, X)
      /\ t # NoToken => \A X : Moves(w, X \union {t}) => Moves(u, X)
  BY <1>1, Activated
<1>. HIDE DEF u
<1>3. \A X : Moves(w, X \union {t}) => Moves(u, X)
  BY <1>2, NoTokenMoves DEF Sound
<1>4. CASE doc.type[k] # "FORK"
  <2>1. v = u
    BY <1>4 DEF Enter, u
  <2>. QED
    BY <1>2, <1>3, <2>1
<1>5. CASE doc.type[k] = "FORK"
  <2>1. v = Dispatch(u, f)
    BY <1>1, <1>5 DEF Enter, u
  <2>8. JustForked(doc, u, f)
    BY <1>2, <1>5, ForkIsNew
  <2>. HIDE DEF f
  <2>9. Sound(doc, v) /\ Keeps(u, v) /\ \A X : Moves(u, X) => Moves(v, X)
    <3>1. v.ok
      OBVIOUS
    <3>. HIDE DEF v
    <3>. QED
      BY <1>2, <2>1, <2>8, <3>1, Dispatched
  <2>. HIDE DEF v
  <2>10. Keeps(w, v)
    BY <1>2, <2>9, KeepsOn
  <2>. QED
    BY <1>2, <1>3, <2>9, <2>10 DEF v
<1>. QED
  BY <1>4, <1>5

-----------------------------------------------------------------------------
(* A path is routed on. *)

(* A branch stays within its region until it is at the join.                    *)
LEMMA WithinIs ==
  ASSUME NEW d, IsDocument(d), Accepted(d), NEW w, Sound(d, w), NEW t \in DOMAIN w.tokens,
         NEW k, Within(d, w, t, k)
  PROVE  /\ k \in DOMAIN d.type /\ d.type[k] \notin {"FORK", "END"}
         /\ d.type[k] # "JOIN" => \A p \in DOMAIN d.edge[k] : Within(d, w, t, d.edge[k][p])
<1>1. PICK f \in DOMAIN w.rows : IsFork(d, w, f) /\ f[2] = t[1]
  BY DEF Sound, HasFork
<1>2. t[2] \in Outcomes /\ f[1] \in NodesOfType(d, "FORK")
  BY <1>1 DEF Sound, WellFormed, IsFork, NodesOfType
<1>3. k \in BranchRegion(d, d.edge[f[1]][t[2]])
  BY <1>1 DEF Within
<1>4. /\ k \in DOMAIN d.type /\ d.type[k] \notin {"FORK", "END"}
      /\ d.type[k] # "JOIN" =>
           \A p \in DOMAIN d.edge[k] : d.edge[k][p] \in BranchRegion(d, d.edge[f[1]][t[2]])
  BY <1>2, <1>3, Regions
<1>5. ASSUME d.type[k] # "JOIN", NEW p \in DOMAIN d.edge[k] PROVE Within(d, w, t, d.edge[k][p])
  <2>. SUFFICES ASSUME NEW g \in DOMAIN w.rows, IsFork(d, w, g), g[2] = t[1]
                PROVE  d.edge[k][p] \in BranchRegion(d, d.edge[g[1]][t[2]])
    BY DEF Within
  <2>1. g = f
    BY <1>1, SameFork
  <2>. QED
    BY <1>4, <1>5, <2>1
<1>. QED
  BY <1>4, <1>5

(* The path whose last node run is id goes on from it.                          *)
CanRoute(d, w, id, o) ==
  /\ id \in DOMAIN w.rows /\ ~Live(w.rows[id]) /\ w.rows[id].state # "SKIPPED"
  /\ o \in DOMAIN d.edge[id[1]]
  /\ \A y \in DOMAIN w.rows : w.rows[y].token = w.rows[id].token => ~(y[2] > id[2])
  /\ w.rows[id].token # NoToken =>
       /\ w.tokens[w.rows[id].token] = "ACTIVE"
       /\ d.type[id[1]] # "JOIN" /\ d.type[d.edge[id[1]][o]] # "JOIN"
  /\ w.rows[id].token = NoToken => \A f \in DOMAIN w.rows : ~UnderWay(d, w, f)

(* From the end of a path its target may be entered.                            *)
LEMMA MayRoute ==
  ASSUME NEW d, IsDocument(d), Accepted(d), NEW w, Sound(d, w), NEW id, NEW o, CanRoute(d, w, id, o)
  PROVE  MayEnter(d, w, d.edge[id[1]][o], id[2] + 1, w.rows[id].token)
<1>. DEFINE k == d.edge[id[1]][o]
            t == w.rows[id].token
<1>1. id \in DOMAIN w.rows /\ id[1] \in DOMAIN d.type /\ id[2] \in Counts
  BY DEF CanRoute, Sound, WellFormed
<1>2. k \in DOMAIN d.type /\ Reaches(d, id[1], k)
  BY <1>1, EdgeReaches DEF CanRoute
<1>3. t \in {NoToken} \union DOMAIN w.tokens
  BY <1>1 DEF Sound, WellFormed, Columns
<1>. HIDE DEF k
<1>4. ASSUME NEW y \in DOMAIN w.rows, w.rows[y].token = t
      PROVE  y[2] < id[2] + 1 /\ ~Live(w.rows[y]) /\ LeadsTo(d, w.rows[y], y[1], k)
  <2>1. y[1] \in DOMAIN d.type /\ y[2] \in Nat /\ id[2] \in Nat /\ ~(y[2] > id[2])
    BY <1>1, <1>4 DEF Sound, WellFormed, Counts, CanRoute
  <2>2. CASE y[2] = id[2]
    <3>1. y = id
      BY <1>1, <1>4, <2>2 DEF Sound, OneAfterAnother
    <3>. QED
      BY <1>2, <2>1, <3>1 DEF CanRoute, LeadsTo
  <2>3. CASE y[2] < id[2]
    <3>1. ~Live(w.rows[y]) /\ LeadsTo(d, w.rows[y], y[1], id[1])
      BY <1>1, <1>4, <2>3 DEF Sound, OneAfterAnother
    <3>2. w.rows[y].state = "SKIPPED" => d.budget[y[1]] > 0
      BY DEF Sound, OpenWhileWaiting
    <3>3. LeadsTo(d, w.rows[y], y[1], k)
      BY <1>1, <1>2, <2>1, <3>1, <3>2, LeadsOn
    <3>. QED
      BY <2>1, <2>3, <3>1, <3>3
  <2>. QED
    BY <2>1, <2>2, <2>3
<1>5. ASSUME t # NoToken
      PROVE  w.tokens[t] = "ACTIVE" /\ Within(d, w, t, k) /\ d.type[k] \notin {"FORK", "END"}
  <2>1. t \in DOMAIN w.tokens /\ Within(d, w, t, id[1])
    BY <1>1, <1>3, <1>5 DEF Sound, BranchesLieWithin
  <2>2. Within(d, w, t, k)
    BY <1>5, <2>1, WithinIs DEF CanRoute, k
  <2>. QED
    BY <1>5, <2>1, <2>2, WithinIs DEF CanRoute
<1>6. id[2] + 1 \in Counts
  BY <1>1 DEF Counts
<1>. QED
  BY <1>2, <1>3, <1>4, <1>5, <1>6 DEF MayEnter, CanRoute, k

(* A node whose budget is used up is recorded, and may be left by its exit.     *)
LEMMA Skipped ==
  ASSUME IsDocument(doc), Accepted(doc), NEW w, Sound(doc, w), NEW k, NEW s, NEW t,
         MayEnter(doc, w, k, s, t), doc.budget[k] > 0, doc.type[k] # "JOIN",
         <<k, s>> \notin DOMAIN w.rows,
         NEW i \in Nat, NEW r, r = [Row("SKIPPED", i, t, "NONE") EXCEPT !.outcome = "alt"]
  PROVE  LET v == Put(w, <<k, s>>, r) IN
         /\ Sound(doc, v) /\ Keeps(w, v) /\ \A X : Moves(w, X) => Moves(v, X)
         /\ MayEnter(doc, v, Exit(k), s + 1, t)
<1>. DEFINE id == <<k, s>>
            v == Put(w, id, r)
<1>1. /\ k \in DOMAIN doc.type /\ s \in Counts /\ s + 1 \in Counts
      /\ t \in {NoToken} \union DOMAIN w.tokens
  BY DEF MayEnter, Counts
<1>2. "alt" \in DOMAIN doc.edge[k] /\ doc.type[k] # "END"
  BY <1>1 DEF Accepted, OutcomesDeclared
<1>3. /\ r.state = "SKIPPED" /\ r.token = t /\ r.fork = 0 /\ r.reg = "NONE"
      /\ r \in Columns(DOMAIN w.tokens) /\ ~Live(r) /\ ~Open(r)
  BY <1>1 DEF Row, Columns, States, Answers, Live, Open, Outcomes
<1>4. FitsRow(doc, w, id, r)
  BY <1>1, <1>3 DEF FitsRow
<1>5. FitsPath(doc, w, id, r)
  BY <1>2, <1>3 DEF FitsPath, MayEnter
<1>6. FitsJoin(doc, w, id, r)
  BY <1>3 DEF FitsJoin, MayEnter
<1>. HIDE DEF id
<1>7. Sound(doc, v)
  BY <1>4, <1>5, <1>6, Appends DEF CanAppend
<1>8. /\ v.tokens = w.tokens /\ DOMAIN v.rows = {id} \union DOMAIN w.rows /\ v.rows[id] = r
      /\ \A x \in DOMAIN w.rows : x # id /\ v.rows[x] = w.rows[x]
  BY PutRow DEF id
<1>9. Keeps(w, v) /\ \A X : Moves(w, X) => Moves(v, X)
  BY PutGoesOn DEF id
<1>. HIDE DEF v
<1>. DEFINE e == doc.edge[k]["alt"]
<1>10. e \in DOMAIN doc.type /\ Reaches(doc, k, e)
  BY <1>1, <1>2, EdgeReaches
<1>. HIDE DEF e
<1>11. ASSUME NEW y \in DOMAIN v.rows, v.rows[y].token = t
       PROVE  y[2] < s + 1 /\ ~Live(v.rows[y]) /\ LeadsTo(doc, v.rows[y], y[1], e)
  <2>1. CASE y = id
    BY <1>1, <1>3, <1>8, <1>10, <2>1 DEF id, LeadsTo, Counts, e
  <2>2. CASE y # id
    <3>1. y \in DOMAIN w.rows /\ w.rows[y] = v.rows[y] /\ y[1] \in DOMAIN doc.type /\ y[2] \in Nat
      BY <1>8, <2>2 DEF Sound, WellFormed, Counts
    <3>2. y[2] < s /\ ~Live(v.rows[y]) /\ LeadsTo(doc, v.rows[y], y[1], k)
      BY <1>11, <3>1 DEF MayEnter
    <3>3. v.rows[y].state = "SKIPPED" => doc.budget[y[1]] > 0
      BY <3>1 DEF Sound, OpenWhileWaiting
    <3>4. LeadsTo(doc, v.rows[y], y[1], e)
      BY <1>1, <1>10, <3>1, <3>2, <3>3, LeadsOn
    <3>. QED
      BY <1>1, <3>1, <3>2, <3>4 DEF Counts
  <2>. QED
    BY <2>1, <2>2
<1>12. ASSUME t # NoToken
       PROVE  v.tokens[t] = "ACTIVE" /\ Within(doc, v, t, e) /\ doc.type[e] \notin {"FORK", "END"}
  <2>1. t \in DOMAIN v.tokens /\ v.tokens[t] = "ACTIVE"
    BY <1>1, <1>8, <1>12 DEF MayEnter
  <2>2. Within(doc, v, t, k)
    <3>1. v.rows[id].token # NoToken /\ id \in DOMAIN v.rows /\ v.rows[id].token = t
      BY <1>3, <1>8, <1>12
    <3>. QED
      BY <1>7, <3>1 DEF Sound, BranchesLieWithin, id
  <2>3. Within(doc, v, t, e)
    BY <1>2, <1>7, <2>1, <2>2, WithinIs DEF e
  <2>. QED
    BY <1>7, <2>1, <2>3, WithinIs
<1>13. ASSUME t = NoToken, NEW f \in DOMAIN v.rows, UnderWay(doc, v, f) PROVE FALSE
  <2>1. f # id
    BY <1>3, <1>8, <1>13 DEF UnderWay, IsFork
  <2>2. f \in DOMAIN w.rows /\ UnderWay(doc, w, f)
    BY <1>8, <1>13, <2>1 DEF UnderWay, IsFork
  <2>. QED
    BY <1>13, <2>2 DEF MayEnter
<1>14. MayEnter(doc, v, Exit(k), s + 1, t)
  BY <1>1, <1>8, <1>10, <1>11, <1>12, <1>13 DEF MayEnter, Exit, e
<1>. QED
  BY <1>7, <1>9, <1>14 DEF v, id

(* Route takes a path one node further, or past an exhausted node by its        *)
(* exit.                                                                        *)
LEMMA Routed ==
  ASSUME IsDocument(doc), Accepted(doc), NEW w, Sound(doc, w), NEW id, NEW o,
         CanRoute(doc, w, id, o), Route(w, id, o).ok
  PROVE  LET v == Route(w, id, o) IN
         /\ w.ok /\ Sound(doc, v) /\ Keeps(w, v)
         /\ \A X : Moves(w, X \union {w.rows[id].token}) => Moves(v, X)
<1>. DEFINE k == doc.edge[id[1]][o]
            s == id[2] + 1
            t == w.rows[id].token
            r == [Row("SKIPPED", Iteration(w, k), t, "NONE") EXCEPT !.outcome = "alt"]
            u == Create(w, <<k, s>>, r)
            v == Route(w, id, o)
<1>1. MayEnter(doc, w, k, s, t)
  BY MayRoute
<1>2. IsWorld(w) /\ Iteration(w, k) \in Nat
  BY IterationIsNat DEF Sound, WellFormed
<1>3. CASE ~Exhausted(w, k)
  <2>1. v = Enter(w, k, s, t) /\ Enter(w, k, s, t).ok
    BY <1>3 DEF Route
  <2>. HIDE DEF v, k, s, t
  <2>2. w.ok /\ Sound(doc, v) /\ Keeps(w, v) /\ \A X : Moves(w, X \union {t}) => Moves(v, X)
    BY <1>1, <2>1, Entered
  <2>. QED
    BY <2>2 DEF v, t
<1>4. CASE Exhausted(w, k)
  <2>1. v = Enter(u, Exit(k), s + 1, t) /\ v.ok
    BY <1>4 DEF Route
  <2>2. doc.budget[k] > 0 /\ doc.type[k] # "JOIN"
    <3>1. doc.budget[k] > 0 /\ k \in DOMAIN doc.type
      BY <1>1, <1>4 DEF Exhausted, MayEnter
    <3>2. "alt" \in DOMAIN doc.edge[k] /\ OutcomesDeclared(doc, k)
      BY <3>1 DEF Accepted
    <3>. QED
      BY <3>1, <3>2 DEF OutcomesDeclared
  <2>3. r = [Row("SKIPPED", Iteration(w, k), t, "NONE") EXCEPT !.outcome = "alt"]
    OBVIOUS
  <2>. HIDE DEF v, k, s, t, r
  <2>4. u.ok
    <3>1. IsWorld(u)
      BY <1>2, Created
    <3>. HIDE DEF u
    <3>. QED
      BY <2>1, <3>1, EnterOk
  <2>5. w.ok /\ <<k, s>> \notin DOMAIN w.rows /\ u = Put(w, <<k, s>>, r)
    BY <1>2, <2>4, Created
  <2>. HIDE DEF u
  <2>6. /\ Sound(doc, u) /\ Keeps(w, u) /\ \A X : Moves(w, X) => Moves(u, X)
        /\ MayEnter(doc, u, Exit(k), s + 1, t)
    BY <1>1, <1>2, <2>2, <2>3, <2>5, Skipped
  <2>7. Sound(doc, v) /\ Keeps(u, v) /\ \A X : Moves(u, X \union {t}) => Moves(v, X)
    BY <2>1, <2>6, Entered
  <2>8. Keeps(w, v)
    BY <2>6, <2>7, KeepsOn
  <2>. QED
    BY <2>5, <2>6, <2>7, <2>8 DEF v, t
<1>. QED
  BY <1>3, <1>4

-----------------------------------------------------------------------------
(* Node runs and tokens change their states. *)

(* No token is revived.                                                         *)
TokensFollow(ts, us) ==
  /\ DOMAIN us = DOMAIN ts /\ us \in [DOMAIN us -> TokenStates]
  /\ \A t \in DOMAIN ts : us[t] = ts[t] \/ (ts[t] = "ACTIVE" /\ us[t] # "ACTIVE")

(* A verdict on the tokens stands when more of them settle.                     *)
LEMMA SpeaksOn ==
  ASSUME NEW d, NEW s, NEW n, NEW ts, NEW us, TokensFollow(ts, us), Speaks(d, s, TokensOf(n, ts))
  PROVE  Speaks(d, s, TokensOf(n, us))
<1>. DEFINE mine == TokensOf(n, ts)
            now == TokensOf(n, us)
<1>1. ASSUME NEW t \in DOMAIN ts, t[1] = n PROVE ts[t] \in mine /\ us[t] \in now
  BY <1>1 DEF TokensOf, TokensFollow
<1>2. ASSUME NEW x \in now PROVE \E t \in DOMAIN ts : t[1] = n /\ x = us[t]
  BY DEF TokensOf, TokensFollow
<1>3. ASSUME NEW x \in mine PROVE \E t \in DOMAIN ts : t[1] = n /\ x = ts[t]
  BY DEF TokensOf, TokensFollow
<1>. HIDE DEF mine, now
<1>4. "ACTIVE" \notin mine => now = mine
  <2>. SUFFICES ASSUME "ACTIVE" \notin mine PROVE now = mine
    OBVIOUS
  <2>1. ASSUME NEW t \in DOMAIN ts, t[1] = n PROVE us[t] = ts[t]
    BY <1>1, <2>1 DEF TokensFollow
  <2>. QED
    BY <1>1, <1>2, <1>3, <2>1
<1>5. mine \intersect {"FAILED", "CANCELLED"} # {} => now \intersect {"FAILED", "CANCELLED"} # {}
  <2>. SUFFICES ASSUME NEW x \in mine, x \in {"FAILED", "CANCELLED"}
                PROVE  x \in now
    OBVIOUS
  <2>1. PICK t \in DOMAIN ts : t[1] = n /\ x = ts[t]
    BY <1>3
  <2>2. us[t] = ts[t]
    BY <2>1 DEF TokensFollow
  <2>. QED
    BY <1>1, <2>1, <2>2
<1>6. Speaks(d, s, mine)
  BY DEF mine
<1>7. Speaks(d, s, now)
  BY <1>4, <1>5, <1>6 DEF Speaks
<1>. QED
  BY <1>7 DEF now

(* What a node run r may become.                                                *)
RowFollows(d, k, r, q, us) ==
  /\ q \in Columns(DOMAIN us)
  /\ q.token = r.token /\ q.fork = r.fork /\ q.iteration = r.iteration
  /\ q.state = "SKIPPED" <=> r.state = "SKIPPED"
  /\ d.type[k] \in {"FORK", "END"} => q.state = r.state
  /\ Open(q) <=> q.state = "WAITING" /\ d.type[k] \in Registering
  /\ q.reg \notin {"NONE", "OPEN"} => ~Live(q)
  /\ Live(q) => Live(r) /\ (q.token # NoToken => us[q.token] = "ACTIVE")
  /\ q.fork # 0 => Speaks(d, q.state, TokensOf(q.fork, us))
Follows(d, w, v) ==
  /\ IsWorld(v) /\ TokensFollow(w.tokens, v.tokens)
  /\ v.rows = [id \in DOMAIN w.rows |-> v.rows[id]]
  /\ \A id \in DOMAIN w.rows : RowFollows(d, id[1], w.rows[id], v.rows[id], v.tokens)

(* A world whose node runs only become what they may become stays sound.        *)
LEMMA FollowsOn ==
  ASSUME NEW d, NEW w, Sound(d, w), NEW v, Follows(d, w, v)
  PROVE  /\ Sound(d, v)
         /\ DOMAIN v.rows = DOMAIN w.rows /\ DOMAIN v.tokens = DOMAIN w.tokens
         /\ \A f : IsFork(d, v, f) => IsFork(d, w, f)
         /\ \A f : UnderWay(d, v, f) => UnderWay(d, w, f)
         /\ \A f : AtJoin(d, w, f) => AtJoin(d, v, f)
<1>1. /\ DOMAIN v.rows = DOMAIN w.rows /\ DOMAIN v.tokens = DOMAIN w.tokens
      /\ \A id \in DOMAIN w.rows : RowFollows(d, id[1], w.rows[id], v.rows[id], v.tokens)
  BY DEF Follows, TokensFollow
<1>2. \A id \in DOMAIN w.rows : v.rows[id].token = w.rows[id].token /\ v.rows[id].fork = w.rows[id].fork
  BY <1>1 DEF RowFollows
<1>3. \A t \in DOMAIN w.tokens : v.tokens[t] = "ACTIVE" => w.tokens[t] = "ACTIVE"
  BY DEF Follows, TokensFollow
<1>4. \A f : IsFork(d, v, f) <=> IsFork(d, w, f)
  BY <1>1 DEF IsFork, RowFollows
<1>5. \A f : UnderWay(d, v, f) => UnderWay(d, w, f)
  BY <1>1, <1>3, <1>4 DEF UnderWay
<1>6. WellFormed(d, v)
  <2>1. v.rows \in [DOMAIN v.rows -> Columns(DOMAIN v.tokens)]
    <3>1. \A id \in DOMAIN w.rows : v.rows[id] \in Columns(DOMAIN v.tokens)
      BY <1>1 DEF RowFollows
    <3>2. v.rows = [id \in DOMAIN w.rows |-> v.rows[id]]
      BY DEF Follows
    <3>. QED
      BY <1>1, <3>1, <3>2
  <2>. QED
    BY <1>1, <2>1 DEF Sound, WellFormed, Follows, TokensFollow
<1>7. OpenWhileWaiting(d, v)
  BY <1>1 DEF Sound, OpenWhileWaiting, RowFollows
<1>8. OneAfterAnother(d, v)
  <2>. SUFFICES ASSUME NEW x \in DOMAIN v.rows, NEW y \in DOMAIN v.rows, v.rows[x].token = v.rows[y].token
                PROVE  /\ x[2] = y[2] => x = y
                       /\ x[2] < y[2] => ~Live(v.rows[x]) /\ LeadsTo(d, v.rows[x], x[1], y[1])
    BY DEF OneAfterAnother
  <2>1. /\ x[2] = y[2] => x = y
        /\ x[2] < y[2] => ~Live(w.rows[x]) /\ LeadsTo(d, w.rows[x], x[1], y[1])
    BY <1>1, <1>2 DEF Sound, OneAfterAnother
  <2>2. (Live(v.rows[x]) => Live(w.rows[x])) /\ (v.rows[x].state = "SKIPPED" <=> w.rows[x].state = "SKIPPED")
    BY <1>1 DEF RowFollows
  <2>. QED
    BY <2>1, <2>2 DEF LeadsTo
<1>9. OuterOnly(d, v)
  BY <1>1 DEF Sound, OuterOnly, RowFollows
<1>10. HasFork(d, v)
  BY <1>1, <1>2, <1>4 DEF Sound, HasFork
<1>11. BranchesLieWithin(d, v)
  BY <1>1, <1>2, <1>4 DEF Sound, BranchesLieWithin, Within, RowFollows
<1>12. JoinsSpeak(d, v)
  BY <1>1 DEF JoinsSpeak, RowFollows
<1>13. OuterPathAwaits(d, v)
  <2>. SUFFICES ASSUME NEW f \in DOMAIN v.rows, UnderWay(d, v, f),
                       NEW y \in DOMAIN v.rows, v.rows[y].token = NoToken, y[2] > f[2]
                PROVE  y = JoinAt(d, f) /\ v.rows[y].fork = f[2] /\ v.rows[y].state # "SUCCEEDED"
    BY DEF OuterPathAwaits, JoinAwaits
  <2>1. y = JoinAt(d, f) /\ v.rows[y].fork = f[2]
    BY <1>1, <1>2, <1>5 DEF Sound, OuterPathAwaits, JoinAwaits
  <2>2. PICK t \in DOMAIN v.tokens : t[1] = f[2] /\ v.tokens[t] = "ACTIVE"
    BY DEF UnderWay
  <2>3. "ACTIVE" \in TokensOf(f[2], v.tokens)
    BY <2>2 DEF TokensOf
  <2>4. f[2] # 0
    BY <1>6 DEF WellFormed, Counts
  <2>. QED
    BY <1>12, <2>1, <2>3, <2>4 DEF JoinsSpeak, Speaks
<1>14. \A f : AtJoin(d, w, f) => AtJoin(d, v, f)
  BY <1>1, <1>2, <1>4 DEF AtJoin
<1>. QED
  BY <1>1, <1>4, <1>5, <1>6, <1>7, <1>8, <1>9, <1>10, <1>11, <1>12, <1>13, <1>14 DEF Sound

(* Of the node runs of a path the last alone may be live.                       *)
LEMMA OneLive ==
  ASSUME NEW d, NEW w, Sound(d, w), NEW x \in DOMAIN w.rows, NEW y \in DOMAIN w.rows,
         w.rows[x].token = w.rows[y].token, Live(w.rows[x])
  PROVE  ~(y[2] > x[2]) /\ (Live(w.rows[y]) => x = y)
<1>1. x[2] \in Nat /\ y[2] \in Nat
  BY DEF Sound, WellFormed, Counts
<1>. QED
  BY <1>1 DEF Sound, OneAfterAnother

(* A node run may stay as it is while tokens settle.                            *)
LEMMA RowStays ==
  ASSUME NEW d, NEW w, Sound(d, w), NEW us, TokensFollow(w.tokens, us), NEW x \in DOMAIN w.rows,
         Live(w.rows[x]) /\ w.rows[x].token # NoToken => us[w.rows[x].token] = "ACTIVE"
  PROVE  RowFollows(d, x[1], w.rows[x], w.rows[x], us)
<1>. DEFINE r == w.rows[x]
<1>1. r \in Columns(DOMAIN us)
  BY DEF Sound, WellFormed, TokensFollow
<1>2. /\ Open(r) <=> r.state = "WAITING" /\ d.type[x[1]] \in Registering
      /\ r.reg \notin {"NONE", "OPEN"} => ~Live(r)
  BY DEF Sound, OpenWhileWaiting
<1>3. r.fork # 0 => Speaks(d, r.state, TokensOf(r.fork, us))
  BY SpeaksOn DEF Sound, JoinsSpeak
<1>. QED
  BY <1>1, <1>2, <1>3 DEF RowFollows

(* One node run changes, and with it perhaps its token.                         *)
RowSet(w, id, q, us) == [rows |-> [w.rows EXCEPT ![id] = q], tokens |-> us, ok |-> w.ok]

(* One node run changes, and at most its own token settles.                     *)
LEMMA Changes ==
  ASSUME NEW d, NEW w, Sound(d, w), NEW id \in DOMAIN w.rows, NEW q, NEW us,
         TokensFollow(w.tokens, us), RowFollows(d, id[1], w.rows[id], q, us),
         \A t \in DOMAIN us : us[t] # w.tokens[t] => t = q.token /\ Live(w.rows[id])
  PROVE  LET v == RowSet(w, id, q, us) IN
         /\ Follows(d, w, v)
         /\ v.ok = w.ok /\ v.tokens = us /\ v.rows[id] = q /\ DOMAIN v.rows = DOMAIN w.rows
         /\ \A x \in DOMAIN w.rows : x # id => v.rows[x] = w.rows[x]
         /\ Live(w.rows[id]) => Keeps(w, v)
         /\ \A X : Moves(w, X) => Moves(v, X \union {q.token})
<1>. DEFINE v == RowSet(w, id, q, us)
<1>1. /\ v.ok = w.ok /\ v.tokens = us /\ v.rows[id] = q /\ DOMAIN v.rows = DOMAIN w.rows
      /\ \A x \in DOMAIN w.rows : x # id => v.rows[x] = w.rows[x]
      /\ v.rows = [x \in DOMAIN w.rows |-> v.rows[x]]
  BY DEF RowSet
<1>2. IsWorld(v)
  BY DEF RowSet, IsWorld, Sound, WellFormed
<1>. HIDE DEF v
<1>3. ASSUME NEW x \in DOMAIN w.rows PROVE RowFollows(d, x[1], w.rows[x], v.rows[x], us)
  <2>1. CASE x = id
    BY <1>1, <2>1
  <2>2. CASE x # id
    <3>1. Live(w.rows[x]) /\ w.rows[x].token # NoToken => us[w.rows[x].token] = "ACTIVE"
      <4>. SUFFICES ASSUME Live(w.rows[x]), w.rows[x].token # NoToken PROVE us[w.rows[x].token] = "ACTIVE"
        OBVIOUS
      <4>1. w.rows[x].token \in DOMAIN us /\ w.tokens[w.rows[x].token] = "ACTIVE"
        BY DEF Sound, WellFormed, Columns, BranchesLieWithin, TokensFollow
      <4>2. q.token = w.rows[id].token
        BY DEF RowFollows
      <4>3. us[w.rows[x].token] = w.tokens[w.rows[x].token]
        BY <2>2, <4>1, <4>2, OneLive
      <4>. QED
        BY <4>1, <4>3
    <3>2. RowFollows(d, x[1], w.rows[x], w.rows[x], us)
      BY <3>1, RowStays
    <3>. QED
      BY <1>1, <2>2, <3>2
  <2>. QED
    BY <2>1, <2>2
<1>4. Follows(d, w, v)
  BY <1>1, <1>2, <1>3 DEF Follows
<1>5. Live(w.rows[id]) => Keeps(w, v)
  BY <1>1 DEF Keeps
<1>6. ASSUME NEW X, Moves(w, X) PROVE Moves(v, X \union {q.token})
  <2>. SUFFICES ASSUME NEW t \in DOMAIN v.tokens, v.tokens[t] = "ACTIVE", t \notin X, t # q.token
                PROVE  \E x \in DOMAIN v.rows : v.rows[x].token = t /\ Live(v.rows[x])
    BY DEF Moves
  <2>1. t \in DOMAIN w.tokens /\ w.tokens[t] = "ACTIVE"
    BY <1>1 DEF TokensFollow
  <2>2. PICK x \in DOMAIN w.rows : w.rows[x].token = t /\ Live(w.rows[x])
    BY <1>6, <2>1 DEF Moves
  <2>3. x # id
    BY <2>2 DEF RowFollows
  <2>. QED
    BY <1>1, <2>2, <2>3
<1>. QED
  BY <1>1, <1>4, <1>5, <1>6 DEF v

(* Complete changes two columns of one node run.                                *)
LEMMA CompleteIs ==
  ASSUME NEW w, IsWorld(w), NEW id \in DOMAIN w.rows, NEW o, NEW N, w.rows \in [DOMAIN w.rows -> Columns(N)]
  PROVE  Complete(w, id, o) =
           RowSet(w, id, [w.rows[id] EXCEPT !.state = "SUCCEEDED", !.outcome = o], w.tokens)
<1>. DEFINE a == [w.rows[id] EXCEPT !.state = "SUCCEEDED"]
            q == [w.rows[id] EXCEPT !.state = "SUCCEEDED", !.outcome = o]
            u == [w EXCEPT !.rows[id].state = "SUCCEEDED"]
            v == Complete(w, id, o)
<1>1. v = [u EXCEPT !.rows[id].outcome = o]
  BY DEF Complete
<1>2. q = [a EXCEPT !.outcome = o]
  OBVIOUS
<1>3. u.rows = [w.rows EXCEPT ![id] = a] /\ u.tokens = w.tokens /\ u.ok = w.ok
      /\ u = [rows |-> u.rows, tokens |-> u.tokens, ok |-> u.ok]
  BY DEF IsWorld
<1>. HIDE DEF u, a, q
<1>4. v.rows = [u.rows EXCEPT ![id] = [u.rows[id] EXCEPT !.outcome = o]] /\ v.tokens = u.tokens /\ v.ok = u.ok
      /\ v = [rows |-> v.rows, tokens |-> v.tokens, ok |-> v.ok]
  BY <1>1, <1>3
<1>. HIDE DEF v
<1>5. u.rows[id] = a /\ DOMAIN u.rows = DOMAIN w.rows
  BY <1>3
<1>6. v.rows = [w.rows EXCEPT ![id] = q]
  BY <1>2, <1>3, <1>4, <1>5
<1>. QED
  BY <1>3, <1>4, <1>6 DEF RowSet, v, q

-----------------------------------------------------------------------------
(* The join is looked at. *)

(* A verdict says what the tokens of the fork say.                              *)
LEMMA VerdictSpeaks ==
  ASSUME IsDocument(doc), NEW f, NEW ts, ts \in [DOMAIN ts -> TokenStates], Verdict(f, ts) # "WAITING"
  PROVE  /\ Verdict(f, ts) \in {"FAILED", "SUCCEEDED"}
         /\ Speaks(doc, Verdict(f, ts), TokensOf(f[2], ts))
<1>1. BranchesOf(f, ts) = TokensOf(f[2], ts)
  BY DEF BranchesOf, TokensOf
<1>2. TokensOf(f[2], ts) \subseteq TokenStates
  BY DEF TokensOf
<1>3. doc.mode \in {"ALL", "ANY"}
  BY DEF IsDocument
<1>. QED
  BY <1>1, <1>2, <1>3 DEF Verdict, Speaks, TokenStates

DecidedRow(r, s) ==
  IF s = "FAILED" THEN [r EXCEPT !.state = "FAILED"]
                  ELSE [r EXCEPT !.state = "SUCCEEDED", !.outcome = "ok"]
FailJoin(u, j) == [u EXCEPT !.rows[j].state = "FAILED"]
Decided(u, j, s) == RowSet(u, j, DecidedRow(u.rows[j], s), u.tokens)

(* A join that waits has its verdict, and goes on when that is a success.       *)
LEMMA JoinDecides ==
  ASSUME IsDocument(doc), Accepted(doc), NEW u, Sound(doc, u), NEW f, AtJoin(doc, u, f),
         NEW j, j = JoinAt(doc, f), j \in DOMAIN u.rows, u.rows[j].fork = f[2],
         u.rows[j].state = "WAITING", NEW s, s = Verdict(f, u.tokens), s # "WAITING"
  PROVE  LET x == Decided(u, j, s) IN
         /\ s \in {"FAILED", "SUCCEEDED"}
         /\ x.ok = u.ok /\ Sound(doc, x) /\ Keeps(u, x) /\ \A X : Moves(u, X) => Moves(x, X)
         /\ DOMAIN x.rows = DOMAIN u.rows /\ x.rows[j].token = NoToken
         /\ \A y \in DOMAIN u.rows : x.rows[y].token = u.rows[y].token
         /\ \A y \in DOMAIN u.rows : x.rows[y].iteration = u.rows[y].iteration
         /\ s = "FAILED" => x = FailJoin(u, j)
         /\ s = "SUCCEEDED" => x = Complete(u, j, "ok") /\ CanRoute(doc, x, j, "ok")
<1>. DEFINE q == DecidedRow(u.rows[j], s)
            x == Decided(u, j, s)
<1>1. f[1] \in NodesOfType(doc, "FORK") /\ f[2] \in Counts
  BY DEF AtJoin, IsFork, Sound, WellFormed, NodesOfType
<1>2. j[1] \in DOMAIN doc.type /\ doc.type[j[1]] = "JOIN" /\ j[2] = f[2] + 1
  BY <1>1, JoinsOfForks DEF JoinAt
<1>3. s \in {"FAILED", "SUCCEEDED"} /\ Speaks(doc, s, TokensOf(f[2], u.tokens))
  <2>1. u.tokens \in [DOMAIN u.tokens -> TokenStates]
    BY DEF Sound, WellFormed
  <2>. QED
    BY <2>1, VerdictSpeaks
<1>4. TokensFollow(u.tokens, u.tokens)
  BY DEF Sound, WellFormed, TokensFollow
<1>5. /\ q.state = s /\ q.token = NoToken /\ u.rows[j].token = NoToken /\ q.fork = f[2]
      /\ q.iteration = u.rows[j].iteration
      /\ q.reg = u.rows[j].reg /\ q \in Columns(DOMAIN u.tokens) /\ ~Live(q)
  <2>1. u.rows[j] \in Columns(DOMAIN u.tokens)
    BY DEF Sound, WellFormed
  <2>2. u.rows[j].token = NoToken
    BY <1>1 DEF Sound, HasFork, Counts
  <2>. QED
    BY <1>3, <2>1, <2>2 DEF DecidedRow, Columns, States, Outcomes, Live
<1>6. ~Open(u.rows[j]) /\ ~Open(q)
  BY <1>2, <1>5 DEF Sound, OpenWhileWaiting, Registering, Open
<1>7. x = RowSet(u, j, q, u.tokens)
  BY DEF Decided
<1>. HIDE DEF q, x
<1>8. RowFollows(doc, j[1], u.rows[j], q, u.tokens)
  BY <1>2, <1>3, <1>5, <1>6 DEF RowFollows
<1>9. /\ Follows(doc, u, x) /\ x.ok = u.ok /\ x.tokens = u.tokens /\ x.rows[j] = q
      /\ DOMAIN x.rows = DOMAIN u.rows /\ \A y \in DOMAIN u.rows : y # j => x.rows[y] = u.rows[y]
      /\ Keeps(u, x) /\ \A X : Moves(u, X) => Moves(x, X \union {NoToken})
  <2>1. Live(u.rows[j])
    BY DEF Live
  <2>. QED
    BY <1>4, <1>5, <1>7, <1>8, <2>1, Changes
<1>10. Sound(doc, x) /\ AtJoin(doc, x, f)
  BY <1>9, FollowsOn
<1>11. \A X : Moves(u, X) => Moves(x, X)
  BY <1>9, <1>10, NoTokenMoves DEF Sound
<1>12. s = "FAILED" => x = FailJoin(u, j)
  <2>1. u = [rows |-> u.rows, tokens |-> u.tokens, ok |-> u.ok]
    BY DEF Sound, WellFormed, IsWorld
  <2>. QED
    BY <1>7, <2>1 DEF RowSet, q, DecidedRow, FailJoin
<1>13. s = "SUCCEEDED" => x = Complete(u, j, "ok")
  <2>1. IsWorld(u) /\ u.rows \in [DOMAIN u.rows -> Columns(DOMAIN u.tokens)]
    BY DEF Sound, WellFormed
  <2>. QED
    BY <1>7, <2>1, CompleteIs DEF q, DecidedRow
<1>14. ASSUME s = "SUCCEEDED" PROVE CanRoute(doc, x, j, "ok")
  <2>1. "ok" \in DOMAIN doc.edge[j[1]]
    <3>1. OutcomesDeclared(doc, j[1])
      BY <1>2 DEF Accepted
    <3>. QED
      BY <1>2, <3>1 DEF OutcomesDeclared
  <2>2. j \in DOMAIN x.rows /\ x.rows[j].token = NoToken /\ ~Live(x.rows[j]) /\ x.rows[j].state # "SKIPPED"
    BY <1>3, <1>5, <1>9
  <2>3. ASSUME NEW y \in DOMAIN x.rows, x.rows[y].token = NoToken PROVE ~(y[2] > j[2])
    <3>1. y[2] \in Nat /\ f[2] \in Nat /\ (y[2] > f[2] => y = j)
      BY <1>1, <1>10, <2>3 DEF Sound, WellFormed, Counts, AtJoin
    <3>. QED
      BY <1>2, <3>1
  <2>4. ASSUME NEW g \in DOMAIN x.rows, UnderWay(doc, x, g) PROVE FALSE
    <3>1. g = f
      BY <1>10, <2>4, OneForkUnderWay
    <3>2. "ACTIVE" \in TokensOf(f[2], u.tokens)
      BY <1>9, <2>4, <3>1 DEF UnderWay, TokensOf
    <3>. QED
      BY <1>3, <1>14, <3>2 DEF Speaks
  <2>. QED
    BY <2>1, <2>2, <2>3, <2>4 DEF CanRoute
<1>15. \A y \in DOMAIN u.rows : x.rows[y].token = u.rows[y].token /\ x.rows[y].iteration = u.rows[y].iteration
  BY <1>5, <1>9
<1>. QED
  BY <1>3, <1>5, <1>9, <1>10, <1>11, <1>12, <1>13, <1>14, <1>15 DEF x

(* evaluateJoinTx is Decided, and Route.                                        *)
LEMMA EvaluateJoinIs ==
  ASSUME NEW w, NEW f, WithJoinRow(w, f).ok
  PROVE  LET u == WithJoinRow(w, f)
             j == JoinAt(doc, f)
             s == Verdict(f, u.tokens) IN
         EvaluateJoin(w, f) =
           IF u.rows[j].state # "WAITING" \/ s = "WAITING" THEN u
           ELSE IF s = "FAILED" THEN FailJoin(u, j)
           ELSE IF Cancelled THEN Complete(u, j, "ok") ELSE Route(Complete(u, j, "ok"), j, "ok")
<1>. DEFINE u == WithJoinRow(w, f)
            s == Verdict(f, u.tokens)
<1>1. JoinRow(f) = JoinAt(doc, f)
  BY DEF JoinRow, JoinOf, JoinAt
<1>2. EvaluateJoin(w, f) =
        IF ~u.ok \/ u.rows[JoinRow(f)].state # "WAITING" \/ s = "WAITING" THEN u
        ELSE IF s = "FAILED" THEN [u EXCEPT !.rows[JoinRow(f)].state = "FAILED"]
        ELSE IF Cancelled THEN Complete(u, JoinRow(f), "ok")
             ELSE Route(Complete(u, JoinRow(f), "ok"), JoinRow(f), "ok")
  <2>. HIDE DEF u, s
  <2>. QED
    BY DEF EvaluateJoin, u, s
<1>. QED
  BY <1>1, <1>2 DEF FailJoin

(* evaluateJoinTx with the routing that follows.                                *)
LEMMA JoinEvaluated ==
  ASSUME IsDocument(doc), Accepted(doc), NEW w, Sound(doc, w), NEW f, AtJoin(doc, w, f),
         EvaluateJoin(w, f).ok
  PROVE  LET v == EvaluateJoin(w, f) IN
         w.ok /\ Sound(doc, v) /\ Keeps(w, v) /\ \A X : Moves(w, X) => Moves(v, X)
<1>. DEFINE u == WithJoinRow(w, f)
            j == JoinAt(doc, f)
            s == Verdict(f, u.tokens)
            x == Decided(u, j, s)
            v == EvaluateJoin(w, f)
<1>1. u.ok
  BY DEF EvaluateJoin
<1>2. /\ w.ok /\ Sound(doc, u) /\ Keeps(w, u) /\ \A X : Moves(w, X) => Moves(u, X)
      /\ j \in DOMAIN u.rows /\ u.rows[j].fork = f[2] /\ AtJoin(doc, u, f)
  BY <1>1, JoinsMeet
<1>3. v = IF u.rows[j].state # "WAITING" \/ s = "WAITING" THEN u
          ELSE IF s = "FAILED" THEN FailJoin(u, j)
          ELSE IF Cancelled THEN Complete(u, j, "ok") ELSE Route(Complete(u, j, "ok"), j, "ok")
  BY <1>1, EvaluateJoinIs
<1>4. v.ok
  OBVIOUS
<1>. HIDE DEF u, j, s, v
<1>5. CASE u.rows[j].state # "WAITING" \/ s = "WAITING"
  <2>1. v = u
    BY <1>3, <1>5
  <2>. QED
    BY <1>2, <2>1 DEF v
<1>6. CASE u.rows[j].state = "WAITING" /\ s # "WAITING"
  <2>. HIDE DEF x
  <2>1. /\ s \in {"FAILED", "SUCCEEDED"}
        /\ Sound(doc, x) /\ Keeps(u, x) /\ \A X : Moves(u, X) => Moves(x, X)
        /\ x.rows[j].token = NoToken
        /\ s = "FAILED" => x = FailJoin(u, j)
        /\ s = "SUCCEEDED" => x = Complete(u, j, "ok") /\ CanRoute(doc, x, j, "ok")
    <3>1. j = JoinAt(doc, f) /\ s = Verdict(f, u.tokens)
      BY DEF j, s
    <3>. QED
      BY <1>2, <1>6, <3>1, JoinDecides DEF x
  <2>2. Keeps(w, x) /\ \A X : Moves(w, X) => Moves(x, X)
    BY <1>2, <2>1, KeepsOn
  <2>3. CASE v = x
    BY <1>2, <2>1, <2>2, <2>3 DEF v
  <2>4. CASE v # x
    <3>1. v = Route(x, j, "ok") /\ CanRoute(doc, x, j, "ok")
      BY <1>3, <1>6, <2>1, <2>4
    <3>2. Route(x, j, "ok").ok
      BY <1>4, <3>1
    <3>3. Sound(doc, v) /\ Keeps(x, v) /\ \A X : Moves(x, X \union {NoToken}) => Moves(v, X)
      BY <2>1, <3>1, <3>2, Routed
    <3>4. Keeps(w, v)
      BY <2>2, <3>3, KeepsOn
    <3>5. ASSUME NEW X, Moves(w, X) PROVE Moves(v, X)
      <4>1. Moves(x, X)
        BY <2>2, <3>5
      <4>2. Moves(x, X \union {NoToken})
        BY <4>1 DEF Moves
      <4>. QED
        BY <3>3, <4>2
    <3>. QED
      BY <1>2, <3>3, <3>4, <3>5 DEF v
  <2>. QED
    BY <2>3, <2>4
<1>. QED
  BY <1>5, <1>6

-----------------------------------------------------------------------------
(* A node run ends. *)

(* The world a transaction begins with.                                         *)
LEMMA WorldIs ==
  World.rows = rows /\ World.tokens = tokens /\ World.ok = TRUE /\ IsWorld(World)
BY DEF World, IsWorld

(* A token's fork is found by its sequence.                                     *)
LEMMA ForkOfIs ==
  ASSUME Sound(doc, World), NEW t, NEW f, IsFork(doc, World, f), f[2] = t[1]
  PROVE  ForkOf(t) = f
<1>1. f \in DOMAIN rows /\ f[2] = t[1] /\ Type(f) = "FORK"
  BY WorldIs DEF IsFork, Type
<1>2. ForkOf(t) \in DOMAIN rows /\ ForkOf(t)[2] = t[1] /\ Type(ForkOf(t)) = "FORK"
  BY <1>1 DEF ForkOf
<1>3. rows[f].token = NoToken /\ rows[ForkOf(t)].token = NoToken
  BY <1>1, <1>2, WorldIs DEF Sound, OuterOnly, Type
<1>. QED
  BY <1>1, <1>2, <1>3, WorldIs DEF Sound, OneAfterAnother

(* Every token has its fork.                                                    *)
LEMMA ForkOfToken ==
  ASSUME Sound(doc, World), NEW t \in DOMAIN tokens
  PROVE  IsFork(doc, World, ForkOf(t)) /\ ForkOf(t)[2] = t[1]
<1>1. PICK f \in DOMAIN rows : IsFork(doc, World, f) /\ f[2] = t[1]
  BY WorldIs DEF Sound, HasFork
<1>. QED
  BY <1>1, ForkOfIs

(* While a token is ACTIVE the outer path waits at the join.                    *)
LEMMA AwaitedJoin ==
  ASSUME NEW d, NEW w, Sound(d, w), NEW f, IsFork(d, w, f), NEW t \in DOMAIN w.tokens,
         t[1] = f[2], w.tokens[t] = "ACTIVE"
  PROVE  AtJoin(d, w, f)
<1>1. f \in DOMAIN w.rows /\ UnderWay(d, w, f)
  BY DEF IsFork, UnderWay
<1>2. JoinAwaits(d, w, f)
  BY <1>1 DEF Sound, OuterPathAwaits
<1>. QED
  BY <1>2 DEF AtJoin, JoinAwaits

(* Node runs that somebody works on or answers.                                 *)
Working(id) == id \in DOMAIN rows /\ Live(rows[id]) /\ Type(id) \notin {"FORK", "JOIN", "END"}
Ending(id, q) ==
  /\ q \in Columns(DOMAIN tokens)
  /\ q.token = rows[id].token /\ q.fork = rows[id].fork /\ q.iteration = rows[id].iteration
  /\ q.state \in {"SUCCEEDED", "FAILED", "CANCELLED"} /\ ~Open(q)

OnlyToken(t, us) == TokensFollow(tokens, us) /\ \A p \in DOMAIN us : us[p] # tokens[p] => p = t

(* A node run ends, and its token may settle with it.                           *)
LEMMA RowEnds ==
  ASSUME IsDocument(doc), Accepted(doc), Sound(doc, World), NEW id, Working(id), NEW q, Ending(id, q),
         NEW us, OnlyToken(q.token, us)
  PROVE  LET v == RowSet(World, id, q, us) IN
         /\ Sound(doc, v) /\ Keeps(World, v) /\ \A X : Moves(World, X) => Moves(v, X \union {q.token})
         /\ \A f : AtJoin(doc, World, f) => AtJoin(doc, v, f)
         /\ \A f : UnderWay(doc, v, f) => UnderWay(doc, World, f)
         /\ v.ok = TRUE /\ v.tokens = us /\ v.rows[id] = q /\ DOMAIN v.rows = DOMAIN rows
         /\ \A x \in DOMAIN rows : x # id => v.rows[x] = rows[x]
<1>. DEFINE v == RowSet(World, id, q, us)
<1>1. id \in DOMAIN World.rows /\ Live(World.rows[id]) /\ World.rows[id] = rows[id]
  BY WorldIs DEF Working
<1>2. rows[id].fork = 0
  <2>. SUFFICES ASSUME rows[id].fork # 0 PROVE FALSE
    OBVIOUS
  <2>1. PICK f \in DOMAIN rows : IsFork(doc, World, f) /\ id = JoinAt(doc, f)
    BY <1>1, WorldIs DEF Sound, HasFork
  <2>2. f[1] \in NodesOfType(doc, "FORK")
    BY <2>1, WorldIs DEF Sound, WellFormed, IsFork, NodesOfType
  <2>3. doc.type[JoinAt(doc, f)[1]] = "JOIN"
    BY <2>2, JoinsOfForks
  <2>. QED
    BY <2>1, <2>3 DEF Working, Type
<1>3. rows[id].state # "SKIPPED"
  BY <1>1 DEF Live
<1>4. ~Live(q) /\ q.state # "WAITING" /\ q.state # "SKIPPED"
  BY DEF Ending, Live
<1>5. DOMAIN us = DOMAIN tokens
  BY DEF OnlyToken, TokensFollow
<1>6. RowFollows(doc, id[1], World.rows[id], q, us)
  BY <1>1, <1>2, <1>3, <1>4, <1>5 DEF RowFollows, Ending, Working, Type
<1>7. /\ Follows(doc, World, v)
      /\ v.ok = World.ok /\ v.tokens = us /\ v.rows[id] = q /\ DOMAIN v.rows = DOMAIN World.rows
      /\ \A x \in DOMAIN World.rows : x # id => v.rows[x] = World.rows[x]
      /\ Keeps(World, v) /\ \A X : Moves(World, X) => Moves(v, X \union {q.token})
  <2>1. TokensFollow(World.tokens, us) /\ \A t \in DOMAIN us : us[t] # World.tokens[t] => t = q.token
    BY WorldIs DEF OnlyToken
  <2>. HIDE DEF v
  <2>. QED
    BY <1>1, <1>6, <2>1, Changes DEF v
<1>. HIDE DEF v
<1>8. /\ Sound(doc, v) /\ \A f : AtJoin(doc, World, f) => AtJoin(doc, v, f)
      /\ \A f : UnderWay(doc, v, f) => UnderWay(doc, World, f)
  BY <1>7, FollowsOn
<1>. QED
  BY <1>7, <1>8, WorldIs DEF v

(* ... and with it its branch, if it belongs to one.                            *)
LEMMA Settled ==
  ASSUME IsDocument(doc), Accepted(doc), Sound(doc, World), NEW id, Working(id), NEW q, Ending(id, q),
         NEW s \in {"SUCCEEDED", "FAILED", "CANCELLED"},
         Settle(RowSet(World, id, q, tokens), q.token, s).ok
  PROVE  LET v == Settle(RowSet(World, id, q, tokens), q.token, s) IN
         Sound(doc, v) /\ Keeps(World, v) /\ \A X : Moves(World, X) => Moves(v, X)
<1>. DEFINE u == RowSet(World, id, q, tokens)
            t == q.token
            v == Settle(u, t, s)
<1>1. tokens \in [DOMAIN tokens -> TokenStates] /\ rows \in [DOMAIN rows -> Columns(DOMAIN tokens)]
  BY WorldIs DEF Sound, WellFormed
<1>2. CASE t = NoToken
  <2>1. v = u
    BY <1>2 DEF Settle
  <2>2. OnlyToken(t, tokens)
    BY <1>1 DEF TokensFollow, OnlyToken
  <2>. HIDE DEF u, v
  <2>3. Sound(doc, u) /\ Keeps(World, u) /\ \A X : Moves(World, X) => Moves(u, X \union {NoToken})
    BY <1>2, <2>2, RowEnds DEF u
  <2>4. \A X : Moves(World, X) => Moves(u, X)
    BY <2>3, NoTokenMoves DEF Sound
  <2>. QED
    BY <2>1, <2>3, <2>4 DEF v, u, t
<1>3. CASE t # NoToken
  <2>. DEFINE us == [tokens EXCEPT ![t] = s]
              x == RowSet(World, id, q, us)
              f == ForkOf(t)
  <2>1. t = rows[id].token /\ t \in DOMAIN tokens /\ tokens[t] = "ACTIVE"
    BY <1>1, <1>3, WorldIs DEF Ending, Columns, Working, Sound, BranchesLieWithin
  <2>2. v = EvaluateJoin(x, f)
    <3>1. [u EXCEPT !.tokens[t] = s] = x
      BY DEF RowSet
    <3>2. v = EvaluateJoin([u EXCEPT !.tokens[t] = s], f)
      BY <1>3 DEF Settle
    <3>. QED
      BY <3>1, <3>2
  <2>3. /\ TokensFollow(tokens, us) /\ \A p \in DOMAIN us : us[p] # tokens[p] => p = t
        /\ us[t] # "ACTIVE"
    <3>1. s \in TokenStates /\ s # "ACTIVE"
      BY DEF TokenStates
    <3>2. DOMAIN us = DOMAIN tokens /\ us[t] = s /\ \A p \in DOMAIN tokens : p # t => us[p] = tokens[p]
      BY <2>1
    <3>3. us \in [DOMAIN us -> TokenStates]
      BY <1>1, <2>1, <3>1
    <3>. HIDE DEF us
    <3>. QED
      BY <2>1, <3>1, <3>2, <3>3 DEF TokensFollow
  <2>. HIDE DEF us, u, v
  <2>4. /\ Sound(doc, x) /\ Keeps(World, x) /\ \A X : Moves(World, X) => Moves(x, X \union {t})
        /\ \A g : AtJoin(doc, World, g) => AtJoin(doc, x, g)
        /\ x.tokens = us
    <3>1. OnlyToken(q.token, us)
      BY <2>3 DEF OnlyToken
    <3>. HIDE DEF t, x, f
    <3>2. Sound(doc, x) /\ Keeps(World, x)
      BY <3>1, RowEnds DEF x
    <3>5. x.tokens = us
      BY DEF x, RowSet
    <3>3. ASSUME NEW X, Moves(World, X) PROVE Moves(x, X \union {t})
      BY <3>1, <3>3, RowEnds DEF x, t
    <3>4. ASSUME NEW g, AtJoin(doc, World, g) PROVE AtJoin(doc, x, g)
      BY <3>1, <3>4, RowEnds DEF x
    <3>. QED
      BY <3>2, <3>3, <3>4, <3>5
  <2>. HIDE DEF x
  <2>5. AtJoin(doc, x, f)
    <3>1. IsFork(doc, World, f) /\ f[2] = t[1]
      BY <2>1, ForkOfToken
    <3>2. t \in DOMAIN World.tokens /\ World.tokens[t] = "ACTIVE"
      BY <2>1, WorldIs
    <3>. HIDE DEF f
    <3>3. AtJoin(doc, World, f)
      BY <3>1, <3>2, AwaitedJoin
    <3>. QED
      BY <2>4, <3>3
  <2>6. \A X : Moves(World, X) => Moves(x, X)
    <3>1. ASSUME NEW X, Moves(x, X \union {t}) PROVE Moves(x, X)
      BY <2>3, <2>4, <3>1 DEF Moves
    <3>. QED
      BY <2>4, <3>1
  <2>. HIDE DEF f
  <2>7. Sound(doc, v) /\ Keeps(x, v) /\ \A X : Moves(x, X) => Moves(v, X)
    <3>1. EvaluateJoin(x, f).ok
      BY <2>2 DEF v, u
    <3>. QED
      BY <2>2, <2>4, <2>5, <3>1, JoinEvaluated
  <2>8. Keeps(World, v)
    BY <2>4, <2>7, KeepsOn
  <2>. QED
    BY <2>6, <2>7, <2>8 DEF v, u, t
<1>. QED
  BY <1>2, <1>3

(* From a node run that ends its path may go on, but to a branch's join.        *)
LEMMA GoesOn ==
  ASSUME IsDocument(doc), Accepted(doc), Sound(doc, World), NEW id, Working(id),
         NEW p, Ending(id, p), p.state = "SUCCEEDED", NEW o \in DOMAIN doc.edge[id[1]],
         p.token # NoToken => doc.type[doc.edge[id[1]][o]] # "JOIN"
  PROVE  CanRoute(doc, RowSet(World, id, p, tokens), id, o)
<1>. DEFINE u == RowSet(World, id, p, tokens)
            t == p.token
<1>1. id \in DOMAIN rows /\ Live(rows[id]) /\ id[1] \in DOMAIN doc.type /\ t = rows[id].token
      /\ doc.type[id[1]] \notin {"FORK", "JOIN", "END"}
  BY WorldIs DEF Working, Ending, Sound, WellFormed, Type
<1>2. /\ u.rows[id] = p /\ DOMAIN u.rows = DOMAIN rows /\ u.tokens = tokens
      /\ \A x \in DOMAIN rows : x # id => u.rows[x] = rows[x]
  BY <1>1, WorldIs DEF RowSet
<1>3. \A f : UnderWay(doc, u, f) => UnderWay(doc, World, f)
  <2>1. OnlyToken(t, tokens)
    BY WorldIs DEF Sound, WellFormed, TokensFollow, OnlyToken
  <2>. HIDE DEF u, t
  <2>. QED
    BY <2>1, RowEnds DEF u, t
<1>. HIDE DEF u
<1>4. id \in DOMAIN u.rows /\ ~Live(u.rows[id]) /\ u.rows[id].state # "SKIPPED"
  BY <1>1, <1>2 DEF Live
<1>5. ASSUME NEW y \in DOMAIN u.rows, u.rows[y].token = t PROVE ~(y[2] > id[2])
  <2>1. y \in DOMAIN rows /\ rows[y].token = rows[id].token
    BY <1>1, <1>2, <1>5
  <2>. QED
    BY <1>1, <2>1, OneLive, WorldIs
<1>6. t # NoToken => tokens[t] = "ACTIVE"
  BY <1>1, WorldIs DEF Sound, BranchesLieWithin
<1>7. ASSUME t = NoToken, NEW f \in DOMAIN u.rows, UnderWay(doc, u, f) PROVE FALSE
  <2>1. f \in DOMAIN rows /\ UnderWay(doc, World, f) /\ IsFork(doc, World, f)
    BY <1>2, <1>3, <1>7 DEF UnderWay
  <2>2. rows[id].token = NoToken /\ rows[f].token = NoToken
    BY <1>1, <1>7, <2>1, WorldIs DEF Sound, OuterOnly, IsFork
  <2>3. f[2] \in Nat /\ id[2] \in Nat /\ f[1] \in NodesOfType(doc, "FORK") /\ doc.type[f[1]] = "FORK"
    BY <1>1, <2>1, WorldIs DEF Sound, WellFormed, Counts, IsFork, NodesOfType
  <2>4. ~(f[2] > id[2]) /\ f # id
    BY <1>1, <2>1, <2>2, <2>3, OneLive, WorldIs
  <2>5. id[2] # f[2]
    BY <1>1, <2>1, <2>2, <2>4, WorldIs DEF Sound, OneAfterAnother
  <2>6. id = JoinAt(doc, f)
    BY <1>1, <2>1, <2>2, <2>3, <2>4, <2>5, WorldIs DEF Sound, OuterPathAwaits, JoinAwaits
  <2>7. doc.type[JoinAt(doc, f)[1]] = "JOIN"
    BY <2>3, JoinsOfForks
  <2>. QED
    BY <1>1, <2>6, <2>7
<1>. QED
  BY <1>1, <1>2, <1>4, <1>5, <1>6, <1>7 DEF CanRoute, u

(* advanceRunTx on a node run whose answer, if it waited for one, is q's.       *)
Answered(id, q) ==
  /\ q \in Columns(DOMAIN tokens) /\ ~Open(q)
  /\ q.token = rows[id].token /\ q.fork = rows[id].fork /\ q.iteration = rows[id].iteration

(* Completing a node run with its answer.                                       *)
LEMMA AnsweredRow ==
  ASSUME Sound(doc, World), NEW id \in DOMAIN rows, NEW q, Answered(id, q), NEW o
  PROVE  Complete(RowSet(World, id, q, tokens), id, o) =
           RowSet(World, id, [q EXCEPT !.state = "SUCCEEDED", !.outcome = o], tokens)
<1>. DEFINE w == RowSet(World, id, q, tokens)
            p == [q EXCEPT !.state = "SUCCEEDED", !.outcome = o]
<1>1. rows \in [DOMAIN rows -> Columns(DOMAIN tokens)]
  BY WorldIs DEF Sound, WellFormed
<1>2. /\ w.rows = [rows EXCEPT ![id] = q] /\ w.tokens = tokens /\ w.ok = TRUE /\ w.rows[id] = q
      /\ IsWorld(w) /\ DOMAIN w.rows = DOMAIN rows
      /\ w.rows \in [DOMAIN w.rows -> Columns(DOMAIN tokens)]
  BY <1>1, WorldIs DEF RowSet, IsWorld, Answered
<1>3. Complete(w, id, o) = RowSet(w, id, p, tokens)
  <2>. HIDE DEF w
  <2>1. Complete(w, id, o) =
          RowSet(w, id, [w.rows[id] EXCEPT !.state = "SUCCEEDED", !.outcome = o], w.tokens)
    BY <1>2, CompleteIs
  <2>. QED
    BY <1>2, <2>1
<1>4. RowSet(w, id, p, tokens) = RowSet(World, id, p, tokens)
  BY WorldIs DEF RowSet
<1>. QED
  BY <1>2, <1>3, <1>4

(* No accepted document has a used up budget without an exit.                   *)
LEMMA NoDefect ==
  ASSUME IsDocument(doc), Accepted(doc), NEW w, NEW k \in DOMAIN doc.type
  PROVE  ~RoutingDefect(w, k)
<1>. SUFFICES ASSUME doc.budget[k] > 0, doc.edge[k]["alt"] \in Cycle(doc, k) PROVE FALSE
  BY DEF RoutingDefect, Exhausted
<1>1. doc.edge[k]["alt"] \in DOMAIN doc.type
  BY EdgeReaches DEF Accepted
<1>. QED
  BY <1>1, ExitLeaves

(* advanceRunTx keeps the world sound, whichever way it goes on.                *)
LEMMA Advanced ==
  ASSUME IsDocument(doc), Accepted(doc), Sound(doc, World), NEW id, Working(id), NEW q, Answered(id, q),
         NEW o \in DOMAIN doc.edge[id[1]], Advance(RowSet(World, id, q, tokens), id, o).ok
  PROVE  LET v == Advance(RowSet(World, id, q, tokens), id, o) IN
         /\ Sound(doc, v) /\ Keeps(World, v)
         /\ ~Cancelled => \A X : Moves(World, X) => Moves(v, X)
<1>. DEFINE w == RowSet(World, id, q, tokens)
            p == [q EXCEPT !.state = "SUCCEEDED", !.outcome = o]
            u == RowSet(World, id, p, tokens)
            k == doc.edge[id[1]][o]
            v == Advance(w, id, o)
            t == q.token
<1>1. tokens \in [DOMAIN tokens -> TokenStates] /\ rows \in [DOMAIN rows -> Columns(DOMAIN tokens)]
  BY WorldIs DEF Sound, WellFormed
<1>2. id \in DOMAIN rows /\ Live(rows[id]) /\ id[1] \in DOMAIN doc.type
      /\ doc.type[id[1]] \notin {"FORK", "JOIN", "END"}
  BY WorldIs DEF Working, Sound, WellFormed, Type
<1>3. Complete(w, id, o) = u
  BY <1>2, AnsweredRow
<1>4. w.rows[id] = q /\ w.ok = TRUE /\ IsWorld(w)
  BY <1>2, WorldIs DEF RowSet, IsWorld
<1>5. o \in Outcomes
  BY <1>2 DEF IsDocument
<1>6. Ending(id, p) /\ p.token = t /\ p.state = "SUCCEEDED"
  BY <1>5 DEF Ending, Answered, Columns, Open, States
<1>. HIDE DEF w, p
<1>7. v = IF t # NoToken /\ doc.type[k] = "JOIN" THEN Settle(u, t, "SUCCEEDED")
          ELSE IF Cancelled THEN u
          ELSE IF RoutingDefect(w, k) THEN [w EXCEPT !.ok = FALSE]
          ELSE Route(u, id, o)
  BY <1>3, <1>4 DEF Advance
<1>8. OnlyToken(t, tokens)
  BY <1>1 DEF TokensFollow, OnlyToken
<1>9. /\ Sound(doc, u) /\ Keeps(World, u) /\ \A X : Moves(World, X) => Moves(u, X \union {t})
      /\ \A f : UnderWay(doc, u, f) => UnderWay(doc, World, f)
  <2>. HIDE DEF u, t
  <2>. QED
    BY <1>6, <1>8, RowEnds DEF u
<1>10. /\ u.rows[id] = p /\ DOMAIN u.rows = DOMAIN rows /\ u.tokens = tokens
       /\ \A x \in DOMAIN rows : x # id => u.rows[x] = rows[x]
  BY <1>2, WorldIs DEF RowSet
<1>11. CASE t # NoToken /\ doc.type[k] = "JOIN"
  <2>1. v = Settle(RowSet(World, id, p, tokens), p.token, "SUCCEEDED")
    BY <1>6, <1>7, <1>11
  <2>. HIDE DEF v
  <2>2. Settle(RowSet(World, id, p, tokens), p.token, "SUCCEEDED").ok
    BY <2>1 DEF v, w
  <2>3. Sound(doc, v) /\ Keeps(World, v) /\ \A X : Moves(World, X) => Moves(v, X)
    BY <1>6, <2>1, <2>2, Settled
  <2>. QED
    BY <2>3 DEF v, w
<1>12. CASE ~(t # NoToken /\ doc.type[k] = "JOIN") /\ Cancelled
  <2>1. v = u
    BY <1>7, <1>12
  <2>. QED
    BY <1>9, <1>12, <2>1 DEF w
<1>13. CASE ~(t # NoToken /\ doc.type[k] = "JOIN") /\ ~Cancelled
  <2>1. ~RoutingDefect(w, k)
    <3>1. k \in DOMAIN doc.type
      BY <1>2, EdgeReaches
    <3>. HIDE DEF k
    <3>. QED
      BY <3>1, NoDefect
  <2>2. v = Route(u, id, o)
    BY <1>7, <1>13, <2>1
  <2>. HIDE DEF v, u, k
  <2>3. CanRoute(doc, u, id, o)
    <3>1. p.token # NoToken => doc.type[doc.edge[id[1]][o]] # "JOIN"
      BY <1>6, <1>13 DEF k
    <3>. QED
      BY <1>6, <3>1, GoesOn DEF u
  <2>4. Route(u, id, o).ok
    BY <2>2 DEF v, w
  <2>5. u.rows[id].token = t
    BY <1>6, <1>10
  <2>6. Sound(doc, v) /\ Keeps(u, v) /\ \A X : Moves(u, X \union {t}) => Moves(v, X)
    BY <1>9, <2>2, <2>3, <2>4, <2>5, Routed
  <2>7. Keeps(World, v)
    BY <1>9, <2>6, KeepsOn
  <2>8. \A X : Moves(World, X) => Moves(v, X)
    BY <1>9, <2>6
  <2>. QED
    BY <2>6, <2>7, <2>8 DEF v, w
<1>. QED
  BY <1>11, <1>12, <1>13

-----------------------------------------------------------------------------
(* The sweep of a cancelled run. *)

SweptFrom(w, joinFirst) ==
  \/ Swept(joinFirst) = w
  \/ \E f : AtJoin(doc, w, f) /\ Swept(joinFirst) = EvaluateJoin(w, f)

(* What the sweep takes many node runs and tokens to, before it looks at one    *)
(* fork's join, is what they may become.                                        *)
LEMMA SweepFollows ==
  ASSUME IsDocument(doc), Accepted(doc), Sound(doc, World), NEW joinFirst \in BOOLEAN
  PROVE  \E w : /\ Follows(doc, World, w) /\ Keeps(World, w) /\ w.ok = TRUE
               /\ SweptFrom(w, joinFirst)
<1>. DEFINE cut == {id \in DOMAIN rows : Sweepable(id)}
            gone == {rows[id].token : id \in cut} \ {NoToken}
            cancelled(ts) == [t \in DOMAIN tokens |-> IF t \in ts THEN "CANCELLED" ELSE tokens[t]]
            before(id) == {x \in cut : x[2] < id[2] \/ (x[2] = id[2] /\ ~joinFirst)}
            atJoin(id) == cancelled({rows[x].token : x \in before(id)})
            verdict(id) == Verdict(ForkOf(<<rows[id].fork, "ok">>), atJoin(id))
            final(id) ==
              IF rows[id].fork = 0 \/ verdict(id) = "WAITING"
              THEN [rows[id] EXCEPT !.state = "CANCELLED", !.reg = IF @ = "OPEN" THEN "CANCELLED" ELSE @]
              ELSE [rows[id] EXCEPT !.state = verdict(id),
                                    !.outcome = IF verdict(id) = "SUCCEEDED" THEN "ok" ELSE @]
            w == [rows |-> [id \in DOMAIN rows |-> IF id \in cut THEN final(id) ELSE rows[id]],
                  tokens |-> cancelled(gone), ok |-> TRUE]
            forks == {ForkOf(t) : t \in gone}
            us == cancelled(gone)
<1>1. Swept(joinFirst) = IF forks = {} THEN w ELSE EvaluateJoin(w, CHOOSE f \in forks : TRUE)
  BY DEF Swept
<1>2. /\ w.tokens = us /\ w.ok = TRUE /\ IsWorld(w) /\ DOMAIN w.rows = DOMAIN rows
      /\ w.rows = [id \in DOMAIN rows |-> w.rows[id]]
      /\ \A id \in DOMAIN rows : w.rows[id] = IF id \in cut THEN final(id) ELSE rows[id]
  <2>. HIDE DEF final, us
  <2>. QED
    BY DEF IsWorld, us
<1>3. tokens \in [DOMAIN tokens -> TokenStates] /\ rows \in [DOMAIN rows -> Columns(DOMAIN tokens)]
      /\ NoToken \notin DOMAIN tokens
  BY WorldIs DEF Sound, WellFormed, NoToken, Counts
<1>4. ASSUME NEW id \in cut
      PROVE  /\ id \in DOMAIN rows /\ Live(rows[id])
             /\ rows[id].token # NoToken =>
                  rows[id].token \in DOMAIN tokens /\ tokens[rows[id].token] = "ACTIVE"
  <2>1. id \in DOMAIN rows /\ Live(rows[id])
    BY DEF Sweepable, Live
  <2>. QED
    BY <1>3, <2>1, WorldIs DEF Sound, BranchesLieWithin, Columns
<1>5. ASSUME NEW t \in gone PROVE t \in DOMAIN tokens /\ tokens[t] = "ACTIVE"
  BY <1>4
<1>. HIDE DEF w
<1>6. TokensFollow(tokens, us)
  <2>1. \A t \in DOMAIN tokens : us[t] = tokens[t] \/ (tokens[t] = "ACTIVE" /\ us[t] # "ACTIVE")
    BY <1>5
  <2>2. us \in [DOMAIN us -> TokenStates]
    BY <1>3 DEF TokenStates
  <2>. QED
    BY <2>1, <2>2 DEF TokensFollow
<1>7. ASSUME NEW id \in cut PROVE RowFollows(doc, id[1], rows[id], final(id), us)
  <2>1. /\ id \in DOMAIN rows /\ rows[id] \in Columns(DOMAIN tokens) /\ Live(rows[id])
        /\ rows[id].state # "SKIPPED" /\ doc.type[id[1]] \notin {"FORK", "END"}
    BY <1>3, <1>4, WorldIs DEF Live, Sound, OuterOnly
  <2>2. DOMAIN us = DOMAIN tokens
    OBVIOUS
  <2>3. CASE rows[id].fork = 0 \/ verdict(id) = "WAITING"
    <3>1. final(id) = [rows[id] EXCEPT !.state = "CANCELLED", !.reg = IF @ = "OPEN" THEN "CANCELLED" ELSE @]
      BY <2>3
    <3>. HIDE DEF final, us, cut, verdict
    <3>2. /\ final(id) \in Columns(DOMAIN us) /\ final(id).token = rows[id].token
          /\ final(id).fork = rows[id].fork /\ final(id).iteration = rows[id].iteration
          /\ final(id).state = "CANCELLED" /\ final(id).reg # "OPEN"
      BY <2>1, <2>2, <3>1 DEF Columns, States, Answers
    <3>. QED
      BY <2>1, <3>2 DEF RowFollows, Live, Open, Speaks
  <2>4. CASE rows[id].fork # 0 /\ verdict(id) # "WAITING"
    <3>. DEFINE as == atJoin(id)
    <3>1. final(id) = [rows[id] EXCEPT !.state = verdict(id),
                                       !.outcome = IF verdict(id) = "SUCCEEDED" THEN "ok" ELSE @]
      BY <2>4
    <3>2. PICK f \in DOMAIN rows : /\ IsFork(doc, World, f) /\ f[2] = rows[id].fork /\ id = JoinAt(doc, f)
                                   /\ rows[id].token = NoToken
      BY <2>1, <2>4, WorldIs DEF Sound, HasFork
    <3>3. ForkOf(<<rows[id].fork, "ok">>) = f
      BY <3>2, ForkOfIs
    <3>4. doc.type[id[1]] = "JOIN"
      <4>1. f[1] \in NodesOfType(doc, "FORK")
        BY <3>2, WorldIs DEF Sound, WellFormed, IsFork, NodesOfType
      <4>. QED
        BY <3>2, <4>1, JoinsOfForks
    <3>5. as \in [DOMAIN as -> TokenStates] /\ TokensFollow(as, us)
      <4>1. as \in [DOMAIN as -> TokenStates] /\ DOMAIN as = DOMAIN tokens
        BY <1>3 DEF TokenStates
      <4>2. ASSUME NEW t \in DOMAIN tokens
            PROVE  us[t] = as[t] \/ (as[t] = "ACTIVE" /\ us[t] # "ACTIVE")
        <5>. DEFINE B == {rows[x].token : x \in before(id)}
        <5>1. B \subseteq gone \union {NoToken}
          OBVIOUS
        <5>2. as[t] = IF t \in B THEN "CANCELLED" ELSE tokens[t]
          OBVIOUS
        <5>3. us[t] = IF t \in gone THEN "CANCELLED" ELSE tokens[t]
          OBVIOUS
        <5>. HIDE DEF B, gone, as, us
        <5>. QED
          BY <1>3, <1>5, <5>1, <5>2, <5>3
      <4>3. us \in [DOMAIN us -> TokenStates] /\ DOMAIN us = DOMAIN as
        BY <1>6 DEF TokensFollow
      <4>. HIDE DEF as, us
      <4>. QED
        BY <4>1, <4>2, <4>3 DEF TokensFollow
    <3>. DEFINE n == verdict(id)
    <3>6. n = Verdict(f, as)
      BY <3>3
    <3>. HIDE DEF as, us, n
    <3>7. n \in {"FAILED", "SUCCEEDED"} /\ Speaks(doc, n, TokensOf(rows[id].fork, us))
      <4>1. n \in {"FAILED", "SUCCEEDED"} /\ Speaks(doc, n, TokensOf(f[2], as))
        BY <2>4, <3>5, <3>6, VerdictSpeaks DEF n
      <4>. QED
        BY <3>2, <3>5, <4>1, SpeaksOn
    <3>8. ~Open(rows[id]) /\ rows[id].reg \in Answers
      BY <2>1, <3>4, WorldIs DEF Sound, OpenWhileWaiting, Registering, Columns
    <3>. DEFINE q == final(id)
    <3>9. q = [rows[id] EXCEPT !.state = n, !.outcome = IF n = "SUCCEEDED" THEN "ok" ELSE @]
      BY <3>1 DEF n
    <3>. HIDE DEF q
    <3>10. /\ q \in Columns(DOMAIN us) /\ q.token = NoToken /\ q.token = rows[id].token
           /\ q.fork = rows[id].fork /\ q.iteration = rows[id].iteration
           /\ q.state = n /\ q.reg = rows[id].reg
      <4>1. n \in States /\ rows[id].token = NoToken
        BY <3>2, <3>7 DEF States
      <4>2. (IF n = "SUCCEEDED" THEN "ok" ELSE rows[id].outcome) \in Outcomes \union {"none"}
        BY <2>1 DEF Columns, Outcomes
      <4>. QED
        BY <2>1, <2>2, <3>9, <4>1, <4>2 DEF Columns
    <3>11. RowFollows(doc, id[1], rows[id], q, us)
      BY <2>1, <3>7, <3>8, <3>10 DEF RowFollows, Live, Open
    <3>. QED
      BY <3>11 DEF q
  <2>. QED
    BY <2>3, <2>4
<1>8. ASSUME NEW id \in DOMAIN rows, id \notin cut PROVE RowFollows(doc, id[1], rows[id], rows[id], us)
  <2>. SUFFICES ASSUME Live(rows[id]), rows[id].token # NoToken PROVE us[rows[id].token] = "ACTIVE"
    <3>. HIDE DEF us, cut
    <3>. QED
      BY <1>6, WorldIs, RowStays
  <2>1. rows[id].token \in DOMAIN tokens /\ tokens[rows[id].token] = "ACTIVE"
    BY <1>3, WorldIs DEF Sound, BranchesLieWithin, Columns
  <2>2. rows[id].token \notin gone
    <3>. SUFFICES ASSUME NEW x \in cut, rows[x].token = rows[id].token PROVE FALSE
      OBVIOUS
    <3>1. x = id
      BY <1>4, WorldIs, OneLive
    <3>. QED
      BY <1>8, <3>1
  <2>. QED
    BY <2>1, <2>2
<1>. HIDE DEF us, final, cut
<1>9. Follows(doc, World, w)
  BY <1>2, <1>6, <1>7, <1>8, WorldIs DEF Follows
<1>10. Keeps(World, w)
  BY <1>2, <1>4, WorldIs DEF Keeps
<1>11. \A f : AtJoin(doc, World, f) => AtJoin(doc, w, f)
  BY <1>9, FollowsOn
<1>12. CASE forks = {}
  BY <1>1, <1>2, <1>9, <1>10, <1>12 DEF SweptFrom
<1>13. CASE forks # {}
  <2>. DEFINE f == CHOOSE f \in forks : TRUE
  <2>1. f \in forks
    BY <1>13
  <2>2. PICK t \in gone : f = ForkOf(t)
    BY <2>1
  <2>. HIDE DEF f
  <2>3. AtJoin(doc, World, f)
    <3>1. t \in DOMAIN tokens /\ tokens[t] = "ACTIVE"
      BY <1>5
    <3>2. IsFork(doc, World, f) /\ f[2] = t[1]
      BY <2>2, <3>1, ForkOfToken
    <3>. QED
      BY <3>1, <3>2, AwaitedJoin, WorldIs
  <2>4. Swept(joinFirst) = EvaluateJoin(w, f)
    BY <1>1, <1>13 DEF f
  <2>. QED
    BY <1>2, <1>9, <1>10, <1>11, <2>3, <2>4 DEF SweptFrom
<1>. QED
  BY <1>12, <1>13

(* The sweep leaves a sound world.                                              *)
LEMMA SweptIsSound ==
  ASSUME IsDocument(doc), Accepted(doc), Sound(doc, World), NEW joinFirst \in BOOLEAN, Swept(joinFirst).ok
  PROVE  Sound(doc, Swept(joinFirst)) /\ Keeps(World, Swept(joinFirst))
<1>1. PICK w : /\ Follows(doc, World, w) /\ Keeps(World, w)
               /\ SweptFrom(w, joinFirst)
  BY SweepFollows
<1>2. Sound(doc, w)
  BY <1>1, FollowsOn
<1>3. CASE Swept(joinFirst) = w
  BY <1>1, <1>2, <1>3
<1>4. CASE Swept(joinFirst) # w
  <2>1. PICK f : AtJoin(doc, w, f) /\ Swept(joinFirst) = EvaluateJoin(w, f)
    BY <1>1, <1>4 DEF SweptFrom
  <2>2. EvaluateJoin(w, f).ok
    BY <2>1
  <2>3. Sound(doc, EvaluateJoin(w, f)) /\ Keeps(w, EvaluateJoin(w, f))
    BY <1>2, <2>1, <2>2, JoinEvaluated
  <2>. QED
    BY <1>1, <2>1, <2>3, KeepsOn
<1>. QED
  BY <1>3, <1>4

-----------------------------------------------------------------------------
(* The run is reconciled with its node runs. *)

(* Reconciliation overlooks no live node run.                                   *)
LEMMA LiveIsLatest ==
  ASSUME Sound(doc, World), NEW w, Sound(doc, w), NEW id \in DOMAIN w.rows, Live(w.rows[id])
  PROVE  id \in Latest(w)
<1>1. \A x \in DOMAIN w.rows : w.rows[x].token = w.rows[id].token => ~(x[2] > id[2])
  BY OneLive
<1>2. \A x \in DOMAIN w.rows : x[2] \in Nat
  BY DEF Sound, WellFormed, Counts
<1>. QED
  BY <1>1, <1>2 DEF Latest

(* ... and no END; there is at most one.                                        *)
LEMMA EndIsLatest ==
  ASSUME IsDocument(doc), Accepted(doc), NEW w, Sound(doc, w), NEW e \in DOMAIN w.rows, Type(e) = "END"
  PROVE  /\ e \in Latest(w) /\ w.rows[e].state = "SUCCEEDED"
         /\ \A x \in DOMAIN w.rows : Type(x) = "END" => x = e
<1>1. w.rows[e].state = "SUCCEEDED" /\ w.rows[e].token = NoToken
  BY DEF Sound, OuterOnly, Type
<1>2. ASSUME NEW z \in DOMAIN w.rows, Type(z) = "END", NEW x \in DOMAIN w.rows,
             w.rows[x].token = w.rows[z].token
      PROVE  x[2] <= z[2]
  <2>1. x[2] \in Nat /\ z[2] \in Nat /\ z[1] \in DOMAIN doc.type
    BY DEF Sound, WellFormed, Counts
  <2>2. ~Reaches(doc, z[1], x[1])
    BY <1>2, <2>1, NothingAfterEnd DEF Type
  <2>3. ~(z[2] < x[2])
    BY <1>2, <2>2 DEF Sound, OneAfterAnother, LeadsTo
  <2>. QED
    BY <2>1, <2>3
<1>3. e \in Latest(w)
  BY <1>2 DEF Latest
<1>4. ASSUME NEW x \in DOMAIN w.rows, Type(x) = "END" PROVE x = e
  <2>1. w.rows[x].token = NoToken
    BY <1>4 DEF Sound, OuterOnly, Type
  <2>2. x[2] <= e[2] /\ e[2] <= x[2] /\ x[2] \in Nat /\ e[2] \in Nat
    BY <1>1, <1>2, <1>4, <2>1 DEF Sound, WellFormed, Counts
  <2>3. x[2] = e[2]
    BY <2>2
  <2>. QED
    BY <1>1, <2>1, <2>3 DEF Sound, OneAfterAnother
<1>. QED
  BY <1>1, <1>3, <1>4

Over == {"VERIFYING", "FAILED", "CANCELLED"}
RunFits(d, w, r, i) ==
  /\ r \in {"RUNNING", "CANCELLING"} \union Over /\ i \in {"NONE", "REQUESTED", "COMPLETED"}
  /\ r \in {"CANCELLING", "CANCELLED"} <=> i # "NONE"
  /\ i = "NONE" => Moves(w, {})
  /\ r \in Over => \A id \in DOMAIN w.rows : ~Live(w.rows[id])
  /\ r = "VERIFYING" => \E id \in DOMAIN w.rows : d.type[id[1]] = "END"
  /\ r = "FAILED" => \A id \in DOMAIN w.rows : d.type[id[1]] # "END"

GraphInv ==
  /\ IsDocument(doc) /\ Accepted(doc)
  /\ Sound(doc, World)
  /\ RunFits(doc, World, run, intent)

(* What reconcileRunTerminalityTx makes of the run fits its node runs.          *)
LEMMA Reconciles ==
  ASSUME GraphInv, run \in {"RUNNING", "CANCELLING"}, NEW w, Sound(doc, w),
         NEW i \in {"NONE", "REQUESTED", "COMPLETED"}, Cancelled <=> i # "NONE",
         ~Cancelled => Moves(w, {})
  PROVE  RunFits(doc, w, Reconciled(w), i)
<1>. DEFINE live == \E id \in Latest(w) : Live(w.rows[id])
            ended == \E id \in Latest(w) : Type(id) = "END" /\ w.rows[id].state = "SUCCEEDED"
<1>1. Reconciled(w) = IF live THEN run ELSE IF run = "CANCELLING" THEN "CANCELLED"
                      ELSE IF ended THEN "VERIFYING" ELSE "FAILED"
  BY DEF Reconciled
<1>2. ~live => \A id \in DOMAIN w.rows : ~Live(w.rows[id])
  BY LiveIsLatest DEF GraphInv
<1>3. ended => \E id \in DOMAIN w.rows : doc.type[id[1]] = "END"
  BY DEF Latest, Type
<1>4. ~ended => \A id \in DOMAIN w.rows : doc.type[id[1]] # "END"
  BY EndIsLatest DEF GraphInv, Type
<1>. HIDE DEF live, ended
<1>. QED
  BY <1>1, <1>2, <1>3, <1>4 DEF RunFits, Over, Cancelled

Stand ==
  \A id \in DOMAIN rows : rows[id].reg \notin {"NONE", "OPEN"} =>
    rows'[id] = [rows[id] EXCEPT !.timer = rows'[id].timer]

(* A transaction that leaves a sound world keeps the invariant, and no answer   *)
(* is touched.                                                                  *)
LEMMA Commits ==
  ASSUME GraphInv, run \in {"RUNNING", "CANCELLING"}, NEW v, Commit(v),
         Sound(doc, v), Keeps(World, v), ~Cancelled => \A X : Moves(World, X) => Moves(v, X),
         doc' = doc, intent' \in {"NONE", "REQUESTED", "COMPLETED"}, intent' = "NONE" <=> intent = "NONE"
  PROVE  GraphInv' /\ Stand
<1>1. rows' = v.rows /\ tokens' = v.tokens /\ run' = Reconciled(v) /\ v.ok
  BY DEF Commit
<1>2. v = [rows |-> v.rows, tokens |-> v.tokens, ok |-> TRUE]
  BY <1>1 DEF Sound, WellFormed, IsWorld
<1>3. World' = v
  BY <1>1, <1>2 DEF World
<1>4. Cancelled <=> intent # "NONE"
  BY DEF GraphInv, RunFits, Cancelled
<1>5. ~Cancelled => Moves(v, {})
  BY <1>4 DEF GraphInv, RunFits
<1>6. RunFits(doc, v, run', intent')
  BY <1>1, <1>4, <1>5, Reconciles
<1>7. GraphInv'
  <2>1. PICK x : x = World'
    OBVIOUS
  <2>2. PICK y : y = doc'
    OBVIOUS
  <2>. QED
    BY <1>3, <1>6, <2>1, <2>2 DEF GraphInv
<1>8. Stand
  <2>. SUFFICES ASSUME NEW id \in DOMAIN rows, rows[id].reg \notin {"NONE", "OPEN"}
                PROVE  rows'[id] = [rows[id] EXCEPT !.timer = rows'[id].timer]
    BY DEF Stand
  <2>1. ~Live(rows[id]) /\ rows[id] \in Columns(DOMAIN tokens)
    BY WorldIs DEF GraphInv, Sound, OpenWhileWaiting, WellFormed
  <2>2. rows'[id] = rows[id]
    BY <1>1, <2>1, WorldIs DEF Keeps
  <2>. QED
    BY <2>1, <2>2 DEF Columns
<1>. QED
  BY <1>7, <1>8

-----------------------------------------------------------------------------
(* The actions. *)

(* Somebody works only for a run that is not over.                              *)
LEMMA RunIsOn ==
  ASSUME GraphInv, NEW id \in DOMAIN rows, Live(rows[id])
  PROVE  run \in {"RUNNING", "CANCELLING"}
BY WorldIs DEF GraphInv, RunFits, Over

(* A node run may be set to what it is.                                         *)
LEMMA RowSetHere ==
  ASSUME Sound(doc, World), NEW id \in DOMAIN rows
  PROVE  RowSet(World, id, rows[id], tokens) = World
<1>1. rows = [x \in DOMAIN rows |-> rows[x]]
  BY WorldIs DEF Sound, WellFormed
<1>2. [rows EXCEPT ![id] = rows[id]] = rows
  BY <1>1
<1>. QED
  BY <1>2 DEF RowSet, World

(* Every node but END has its first outcome.                                    *)
LEMMA FirstOutcome ==
  ASSUME IsDocument(doc), Accepted(doc), NEW id, id[1] \in DOMAIN doc.type, Type(id) # "END"
  PROVE  "ok" \in DOMAIN doc.edge[id[1]]
<1>1. OutcomesDeclared(doc, id[1])
  BY DEF Accepted
<1>2. doc.type[id[1]] \in Types
  BY DEF IsDocument
<1>. QED
  BY <1>1, <1>2 DEF OutcomesDeclared, Outcomes, Types, Type

(* advanceRunTx for a node run that does not wait.                              *)
LEMMA MovesOn ==
  ASSUME GraphInv, NEW id \in DOMAIN rows, rows[id].state = "RUNNING", Type(id) \in {"START", "ROUTER", "TASK"},
         NEW o \in DOMAIN doc.edge[id[1]], Commit(Advance(World, id, o)), UNCHANGED <<doc, intent>>
  PROVE  GraphInv' /\ Stand
<1>. DEFINE v == Advance(World, id, o)
<1>1. Working(id) /\ Live(rows[id])
  BY DEF Working, Live
<1>2. Answered(id, rows[id])
  BY WorldIs DEF GraphInv, Sound, WellFormed, OpenWhileWaiting, Answered
<1>3. RowSet(World, id, rows[id], tokens) = World
  BY RowSetHere DEF GraphInv
<1>4. v.ok
  BY DEF Commit
<1>. HIDE DEF v
<1>5. Advance(RowSet(World, id, rows[id], tokens), id, o) = v
  BY <1>3 DEF v
<1>6. Sound(doc, v) /\ Keeps(World, v) /\ (~Cancelled => \A X : Moves(World, X) => Moves(v, X))
  BY <1>1, <1>2, <1>4, <1>5, Advanced DEF GraphInv
<1>7. run \in {"RUNNING", "CANCELLING"} /\ intent \in {"NONE", "REQUESTED", "COMPLETED"}
  BY <1>1, RunIsOn DEF GraphInv, RunFits
<1>8. Commit(v)
  BY DEF v
<1>. QED
  BY <1>6, <1>7, <1>8, Commits

(* ADVANCE_RUN of a START or a ROUTER.                                          *)
LEMMA Begins ==
  ASSUME GraphInv, NEW id \in DOMAIN rows, AdvanceRun(id)
  PROVE  GraphInv' /\ Stand
<1>1. rows[id].state = "RUNNING" /\ Type(id) \in {"START", "ROUTER"}
      /\ Commit(Advance(World, id, "ok")) /\ UNCHANGED <<doc, intent>>
  BY DEF AdvanceRun, Structural
<1>2. id[1] \in DOMAIN doc.type
  BY WorldIs DEF GraphInv, Sound, WellFormed
<1>3. "ok" \in DOMAIN doc.edge[id[1]]
  BY <1>1, <1>2, FirstOutcome DEF GraphInv
<1>. QED
  BY <1>1, <1>3, MovesOn

(* An execution that chose an outcome.                                          *)
LEMMA TaskFinishes ==
  ASSUME GraphInv, NEW id \in DOMAIN rows, NEW o, FinishTask(id, o)
  PROVE  GraphInv' /\ Stand
<1>1. rows[id].state = "RUNNING" /\ Type(id) = "TASK" /\ o \in DOMAIN doc.edge[id[1]]
      /\ Commit(Advance(World, id, o)) /\ UNCHANGED <<doc, intent>>
  BY DEF FinishTask, RunningTask, Selectable
<1>. QED
  BY <1>1, MovesOn

EndedRow(id, s) == [rows[id] EXCEPT !.state = s]

(* The row of a task whose last attempt failed or was cancelled.                *)
LEMMA EndedIs ==
  ASSUME Sound(doc, World), NEW id \in DOMAIN rows, RunningTask(id), NEW s \in {"FAILED", "CANCELLED"}
  PROVE  LET q == EndedRow(id, s) IN
         /\ Working(id) /\ Ending(id, q)
         /\ Ended(id, s) = Settle(RowSet(World, id, q, tokens), q.token, s)
<1>. DEFINE q == EndedRow(id, s)
            u == [World EXCEPT !.rows[id].state = s]
<1>1. Working(id)
  BY DEF Working, Live, RunningTask
<1>2. rows[id] \in Columns(DOMAIN tokens) /\ ~Open(rows[id])
  BY WorldIs DEF Sound, WellFormed, OpenWhileWaiting, RunningTask
<1>3. Ending(id, q) /\ q.token = rows[id].token
  BY <1>2 DEF EndedRow, Ending, Columns, Open, States
<1>4. u = RowSet(World, id, q, tokens)
  <2>1. u = [World EXCEPT !.rows = [World.rows EXCEPT ![id] = [World.rows[id] EXCEPT !.state = s]]]
    OBVIOUS
  <2>2. World.rows = rows
    BY WorldIs
  <2>. HIDE DEF u
  <2>. QED
    BY <2>1, <2>2 DEF World, RowSet, EndedRow
<1>. HIDE DEF q, u
<1>5. Ended(id, s) = Settle(RowSet(World, id, q, tokens), q.token, s)
  BY <1>3, <1>4 DEF Ended, u
<1>. QED
  BY <1>1, <1>3, <1>5 DEF q

(* The last attempt ended without an outcome.                                   *)
LEMMA TaskEnds ==
  ASSUME GraphInv, NEW id \in DOMAIN rows, RunningTask(id), NEW s \in {"FAILED", "CANCELLED"},
         Commit(Ended(id, s)), UNCHANGED <<doc, intent>>
  PROVE  GraphInv' /\ Stand
<1>. DEFINE q == EndedRow(id, s)
            v == Ended(id, s)
<1>1. Working(id) /\ Ending(id, q) /\ v = Settle(RowSet(World, id, q, tokens), q.token, s)
  BY EndedIs DEF GraphInv
<1>2. v.ok
  BY DEF Commit
<1>. HIDE DEF q, v
<1>3. Sound(doc, v) /\ Keeps(World, v) /\ \A X : Moves(World, X) => Moves(v, X)
  BY <1>1, <1>2, Settled DEF GraphInv
<1>4. run \in {"RUNNING", "CANCELLING"} /\ intent \in {"NONE", "REQUESTED", "COMPLETED"}
  BY <1>1, RunIsOn DEF GraphInv, RunFits, Working
<1>5. Commit(v)
  BY DEF v
<1>. QED
  BY <1>3, <1>4, <1>5, Commits

(* A wait or an approval is answered.                                           *)
ClosedRow(id, g, tm) == [rows[id] EXCEPT !.reg = g, !.timer = tm]
ClosedIn(id, g, tm) == [World EXCEPT !.rows[id].reg = g, !.rows[id].timer = tm]

(* Closing a registration changes two columns of one node run.                  *)
LEMMA ClosedIs ==
  ASSUME Sound(doc, World), NEW id \in DOMAIN rows, NEW g, NEW tm
  PROVE  ClosedIn(id, g, tm) = RowSet(World, id, ClosedRow(id, g, tm), tokens)
<1>. DEFINE a == [rows[id] EXCEPT !.reg = g]
            q == [rows[id] EXCEPT !.reg = g, !.timer = tm]
            u == [World EXCEPT !.rows[id].reg = g]
            v == [World EXCEPT !.rows[id].reg = g, !.rows[id].timer = tm]
<1>1. v = [u EXCEPT !.rows[id].timer = tm]
  OBVIOUS
<1>2. q = [a EXCEPT !.timer = tm]
  OBVIOUS
<1>3. u.rows = [rows EXCEPT ![id] = a] /\ u.tokens = tokens /\ u.ok = TRUE
      /\ u = [rows |-> u.rows, tokens |-> u.tokens, ok |-> u.ok]
  <2>1. u = [World EXCEPT !.rows = [World.rows EXCEPT ![id] = [World.rows[id] EXCEPT !.reg = g]]]
    OBVIOUS
  <2>. HIDE DEF u
  <2>. QED
    BY <2>1, WorldIs DEF World
<1>. HIDE DEF u, a, q
<1>4. v = [u EXCEPT !.rows = [u.rows EXCEPT ![id] = [u.rows[id] EXCEPT !.timer = tm]]]
  BY <1>1
<1>. HIDE DEF v
<1>5. v.rows = [u.rows EXCEPT ![id] = [u.rows[id] EXCEPT !.timer = tm]] /\ v.tokens = u.tokens /\ v.ok = u.ok
      /\ v = [rows |-> v.rows, tokens |-> v.tokens, ok |-> v.ok]
  BY <1>3, <1>4
<1>6. u.rows[id] = a /\ DOMAIN u.rows = DOMAIN rows
  BY <1>3
<1>7. v.rows = [rows EXCEPT ![id] = q]
  BY <1>2, <1>3, <1>5, <1>6
<1>. QED
  BY <1>3, <1>5, <1>7, WorldIs DEF RowSet, ClosedIn, ClosedRow, v, q

(* An answer goes on from a node run that waits.                                *)
LEMMA Replies ==
  ASSUME GraphInv, NEW id \in DOMAIN rows, Open(rows[id]), NEW g \in Answers \ {"NONE", "OPEN"},
         NEW o \in DOMAIN doc.edge[id[1]], NEW tm \in {"NONE", "SET", "DONE", "DEAD"},
         Answer(id, g, o, tm), UNCHANGED <<doc, intent>>
  PROVE  GraphInv' /\ Stand
<1>. DEFINE q == ClosedRow(id, g, tm)
            u == ClosedIn(id, g, tm)
            v == Advance(u, id, o)
<1>1. rows[id].state = "WAITING" /\ Type(id) \in Registering /\ rows[id] \in Columns(DOMAIN tokens)
  BY WorldIs DEF GraphInv, Sound, WellFormed, OpenWhileWaiting, Type
<1>2. Working(id) /\ Live(rows[id])
  BY <1>1 DEF Working, Live, Registering
<1>3. Answered(id, q)
  BY <1>1 DEF Answered, Columns, Open, ClosedRow
<1>4. u = RowSet(World, id, q, tokens)
  BY ClosedIs DEF GraphInv
<1>. HIDE DEF u, q
<1>5. v.ok /\ Commit(v)
  BY DEF Answer, Commit, ClosedIn, u
<1>6. v = Advance(RowSet(World, id, q, tokens), id, o)
  BY <1>4
<1>. HIDE DEF v
<1>7. Sound(doc, v) /\ Keeps(World, v) /\ (~Cancelled => \A X : Moves(World, X) => Moves(v, X))
  BY <1>2, <1>3, <1>5, <1>6, Advanced DEF GraphInv
<1>8. run \in {"RUNNING", "CANCELLING"} /\ intent \in {"NONE", "REQUESTED", "COMPLETED"}
  BY <1>2, RunIsOn DEF GraphInv, RunFits
<1>. QED
  BY <1>5, <1>7, <1>8, Commits

(* Who waits for an answer can go on by the first outcome at least.             *)
LEMMA OpenRow ==
  ASSUME GraphInv, NEW id \in DOMAIN rows, Open(rows[id])
  PROVE  /\ Type(id) \in Registering /\ "ok" \in DOMAIN doc.edge[id[1]]
         /\ rows[id].timer \in {"NONE", "SET", "DONE", "DEAD"}
<1>1. Type(id) \in Registering /\ rows[id] \in Columns(DOMAIN tokens) /\ id[1] \in DOMAIN doc.type
  BY WorldIs DEF GraphInv, Sound, WellFormed, OpenWhileWaiting, Type
<1>2. Type(id) # "END"
  BY <1>1 DEF Registering
<1>. QED
  BY <1>1, <1>2, FirstOutcome DEF GraphInv, Columns

(* A signal.                                                                    *)
LEMMA Signalled ==
  ASSUME GraphInv, NEW id \in DOMAIN rows, SignalWait(id)
  PROVE  GraphInv' /\ Stand
<1>1. Open(rows[id]) /\ Answer(id, "CONSUMED", "ok", rows[id].timer) /\ UNCHANGED <<doc, intent>>
  BY DEF SignalWait
<1>. QED
  BY <1>1, OpenRow, Replies DEF Answers

(* A decision.                                                                  *)
LEMMA Resolved ==
  ASSUME GraphInv, NEW id \in DOMAIN rows, NEW o, ResolveApproval(id, o)
  PROVE  GraphInv' /\ Stand
<1>1. Open(rows[id]) /\ o \in DOMAIN doc.edge[id[1]] /\ Answer(id, "DECIDED", o, rows[id].timer)
      /\ UNCHANGED <<doc, intent>>
  BY DEF ResolveApproval
<1>. QED
  BY <1>1, OpenRow, Replies DEF Answers

(* A timer in time: its state and its outcome are those of the node.            *)
LEMMA TimedOut ==
  ASSUME GraphInv, NEW id \in DOMAIN rows, TimerFires(id)
  PROVE  GraphInv' /\ Stand
<1>1. PICK tm \in {"SET", "DONE"} : Answer(id, Expired(id), TimerOutcome(id), tm)
  BY DEF TimerFires
<1>2. Open(rows[id]) /\ UNCHANGED <<doc, intent>>
  BY DEF TimerFires, TimerDue
<1>3. Type(id) \in Registering /\ "ok" \in DOMAIN doc.edge[id[1]]
  BY <1>2, OpenRow
<1>4. Expired(id) \in Answers \ {"NONE", "OPEN"}
  BY <1>3 DEF Expired, Answers, Registering
<1>5. TimerOutcome(id) \in DOMAIN doc.edge[id[1]]
  BY <1>3 DEF TimerOutcome
<1>. QED
  BY <1>1, <1>2, <1>4, <1>5, Replies

(* A column changes, and nobody begins or ends anything.                        *)
LEMMA ColumnChanges ==
  ASSUME GraphInv, NEW id \in DOMAIN rows, NEW q, RowFollows(doc, id[1], rows[id], q, tokens),
         Live(q) <=> Live(rows[id]),
         rows[id].reg \notin {"NONE", "OPEN"} => q = [rows[id] EXCEPT !.timer = q.timer],
         rows' = [rows EXCEPT ![id] = q], UNCHANGED <<doc, run, intent, tokens>>
  PROVE  GraphInv' /\ Stand
<1>. DEFINE v == RowSet(World, id, q, tokens)
<1>1. v.ok = TRUE /\ v.tokens = tokens /\ v.rows = [rows EXCEPT ![id] = q]
      /\ v = [rows |-> v.rows, tokens |-> v.tokens, ok |-> v.ok]
  BY WorldIs DEF RowSet
<1>2. World' = v
  BY <1>1 DEF World
<1>3. TokensFollow(World.tokens, tokens)
  BY WorldIs DEF GraphInv, Sound, WellFormed, TokensFollow
<1>. HIDE DEF v
<1>4. Sound(doc, v)
  <2>1. Follows(doc, World, v)
    BY <1>3, WorldIs, Changes DEF GraphInv, v
  <2>. QED
    BY <2>1, FollowsOn DEF GraphInv
<1>5. /\ DOMAIN v.rows = DOMAIN rows
      /\ \A x \in DOMAIN rows : v.rows[x].token = rows[x].token /\ (Live(v.rows[x]) <=> Live(rows[x]))
  BY <1>1 DEF RowFollows
<1>6. \A X : Moves(World, X) => Moves(v, X)
  BY <1>1, <1>5, WorldIs DEF Moves
<1>7. RunFits(doc, v, run, intent)
  BY <1>5, <1>6, WorldIs DEF GraphInv, RunFits
<1>8. GraphInv'
  <2>1. PICK x : x = World'
    OBVIOUS
  <2>. QED
    BY <1>2, <1>4, <1>7, <2>1 DEF GraphInv
<1>9. Stand
  <2>. SUFFICES ASSUME NEW x \in DOMAIN rows, rows[x].reg \notin {"NONE", "OPEN"}
                PROVE  rows'[x] = [rows[x] EXCEPT !.timer = rows'[x].timer]
    BY DEF Stand
  <2>1. rows[x] \in Columns(DOMAIN tokens)
    BY WorldIs DEF GraphInv, Sound, WellFormed
  <2>2. x # id => rows'[x] = rows[x]
    OBVIOUS
  <2>3. x = id => rows'[x] = q
    OBVIOUS
  <2>4. CASE x = id
    BY <2>3, <2>4
  <2>5. CASE x # id
    BY <2>1, <2>2, <2>5 DEF Columns
  <2>. QED
    BY <2>4, <2>5
<1>. QED
  BY <1>8, <1>9

(* What the invariant says of one node run.                                     *)
LEMMA RowIs ==
  ASSUME GraphInv, NEW id \in DOMAIN rows
  PROVE  /\ rows[id] \in Columns(DOMAIN tokens)
         /\ Open(rows[id]) <=> rows[id].state = "WAITING" /\ doc.type[id[1]] \in Registering
         /\ rows[id].reg \notin {"NONE", "OPEN"} => ~Live(rows[id])
         /\ Live(rows[id]) /\ rows[id].token # NoToken => tokens[rows[id].token] = "ACTIVE"
         /\ rows[id].fork # 0 => Speaks(doc, rows[id].state, TokensOf(rows[id].fork, tokens))
BY WorldIs DEF GraphInv, Sound, WellFormed, OpenWhileWaiting, BranchesLieWithin, JoinsSpeak

(* An execution begins.                                                         *)
LEMMA TaskStarts ==
  ASSUME GraphInv, NEW id \in DOMAIN rows, StartTask(id)
  PROVE  GraphInv' /\ Stand
<1>. DEFINE q == [rows[id] EXCEPT !.state = "RUNNING"]
<1>1. rows[id].state = "PENDING" /\ Type(id) = "TASK" /\ rows' = [rows EXCEPT ![id] = q]
      /\ UNCHANGED <<doc, run, intent, tokens>>
  BY DEF StartTask
<1>2. /\ q \in Columns(DOMAIN tokens) /\ q.token = rows[id].token /\ q.fork = rows[id].fork
      /\ q.iteration = rows[id].iteration
      /\ q.state = "RUNNING" /\ q.reg = rows[id].reg /\ Live(q) /\ Live(rows[id])
  BY <1>1, RowIs DEF Columns, States, Live
<1>. HIDE DEF q
<1>3. RowFollows(doc, id[1], rows[id], q, tokens)
  BY <1>1, <1>2, RowIs DEF RowFollows, Open, Type, Registering, Speaks
<1>4. rows[id].reg \in {"NONE", "OPEN"}
  BY <1>2, RowIs
<1>. QED
  BY <1>1, <1>2, <1>3, <1>4, ColumnChanges

(* A timer job that comes late, or dies, touches its own column only.           *)
LEMMA TimerEnds ==
  ASSUME GraphInv, NEW id \in DOMAIN rows, NEW tm \in {"DONE", "DEAD"},
         rows' = [rows EXCEPT ![id].timer = tm], UNCHANGED <<doc, run, intent, tokens>>
  PROVE  GraphInv' /\ Stand
<1>. DEFINE q == [rows[id] EXCEPT !.timer = tm]
<1>1. /\ q \in Columns(DOMAIN tokens) /\ q.token = rows[id].token /\ q.fork = rows[id].fork
      /\ q.iteration = rows[id].iteration
      /\ q.state = rows[id].state /\ q.reg = rows[id].reg /\ q = [rows[id] EXCEPT !.timer = q.timer]
  BY RowIs DEF Columns
<1>2. rows' = [rows EXCEPT ![id] = q]
  OBVIOUS
<1>. HIDE DEF q
<1>3. RowFollows(doc, id[1], rows[id], q, tokens) /\ (Live(q) <=> Live(rows[id]))
  BY <1>1, RowIs DEF RowFollows, Open, Live
<1>. QED
  BY <1>1, <1>2, <1>3, ColumnChanges

(* The run is cancelled, and the sweep follows.                                 *)
LEMMA RunCancelled ==
  ASSUME GraphInv, CancelRun
  PROVE  GraphInv' /\ Stand
<1>1. run' = "CANCELLING" /\ intent' = "REQUESTED" /\ doc' = doc /\ rows' = rows /\ tokens' = tokens
  BY DEF CancelRun
<1>2. World' = World
  BY <1>1 DEF World
<1>3. RunFits(doc, World, "CANCELLING", "REQUESTED")
  BY DEF RunFits, Over
<1>4. GraphInv'
  <2>1. PICK x : x = World'
    OBVIOUS
  <2>. QED
    BY <1>1, <1>2, <1>3, <2>1 DEF GraphInv
<1>5. Stand
  BY <1>1, RowIs DEF Stand, Columns
<1>. QED
  BY <1>4, <1>5

(* The sweep and the end of the intent.                                         *)
LEMMA SweepEnds ==
  ASSUME GraphInv, CoordinatorSweep
  PROVE  GraphInv' /\ Stand
<1>1. PICK joinFirst \in BOOLEAN : Commit(Swept(joinFirst))
  BY DEF CoordinatorSweep
<1>. DEFINE v == Swept(joinFirst)
<1>2. run = "CANCELLING" /\ intent = "REQUESTED" /\ intent' = "COMPLETED" /\ doc' = doc
  BY DEF CoordinatorSweep
<1>3. v.ok
  BY <1>1 DEF Commit
<1>4. Sound(doc, v) /\ Keeps(World, v)
  BY <1>3, SweptIsSound DEF GraphInv
<1>5. Cancelled
  BY <1>2 DEF Cancelled
<1>. HIDE DEF v
<1>6. Commit(v)
  BY <1>1 DEF v
<1>. QED
  BY <1>2, <1>4, <1>5, <1>6, Commits

(* Every step keeps the invariant and every answer.                             *)
LEMMA EveryStep ==
  ASSUME GraphInv, [Next]_vars
  PROVE  GraphInv' /\ Stand
<1>1. CASE UNCHANGED vars
  <2>1. UNCHANGED <<doc, run, intent, rows, tokens>>
    BY <1>1 DEF vars
  <2>2. World' = World
    BY <2>1 DEF World
  <2>3. GraphInv'
    <3>1. PICK x : x = World'
      OBVIOUS
    <3>. QED
      BY <2>1, <2>2, <3>1 DEF GraphInv
  <2>4. Stand
    BY <2>1, RowIs DEF Stand, Columns
  <2>. QED
    BY <2>3, <2>4
<1>2. CASE Next
  <2>1. ASSUME NEW id \in DOMAIN rows, AdvanceRun(id) PROVE GraphInv' /\ Stand
    BY <2>1, Begins
  <2>2. ASSUME NEW id \in DOMAIN rows, StartTask(id) PROVE GraphInv' /\ Stand
    BY <2>2, TaskStarts
  <2>3. ASSUME NEW id \in DOMAIN rows, FailTask(id) PROVE GraphInv' /\ Stand
    <3>1. RunningTask(id) /\ Commit(Ended(id, "FAILED")) /\ UNCHANGED <<doc, intent>>
      BY <2>3 DEF FailTask
    <3>. QED
      BY <3>1, TaskEnds
  <2>4. ASSUME NEW id \in DOMAIN rows, CancelTask(id) PROVE GraphInv' /\ Stand
    <3>1. RunningTask(id) /\ Commit(Ended(id, "CANCELLED")) /\ UNCHANGED <<doc, intent>>
      BY <2>4 DEF CancelTask
    <3>. QED
      BY <3>1, TaskEnds
  <2>5. ASSUME NEW id \in DOMAIN rows, SignalWait(id) PROVE GraphInv' /\ Stand
    BY <2>5, Signalled
  <2>6. ASSUME NEW id \in DOMAIN rows, TimerFires(id) PROVE GraphInv' /\ Stand
    BY <2>6, TimedOut
  <2>7. ASSUME NEW id \in DOMAIN rows, TimerFiresLate(id) PROVE GraphInv' /\ Stand
    BY <2>7, TimerEnds DEF TimerFiresLate
  <2>8. ASSUME NEW id \in DOMAIN rows, TimerDies(id) PROVE GraphInv' /\ Stand
    BY <2>8, TimerEnds DEF TimerDies
  <2>9. ASSUME NEW id \in DOMAIN rows, NEW o, FinishTask(id, o) PROVE GraphInv' /\ Stand
    BY <2>9, TaskFinishes
  <2>10. ASSUME NEW id \in DOMAIN rows, NEW o, ResolveApproval(id, o) PROVE GraphInv' /\ Stand
    BY <2>10, Resolved
  <2>. QED
    BY <1>2, <2>1, <2>2, <2>3, <2>4, <2>5, <2>6, <2>7, <2>8, <2>9, <2>10, RunCancelled, SweepEnds DEF Next
<1>. QED
  BY <1>1, <1>2

-----------------------------------------------------------------------------
(* The run begins with its START node. *)

(* The only node run is that of START, and there is no token.                   *)
LEMMA Begun ==
  Init => GraphInv
<1>. SUFFICES ASSUME Init PROVE GraphInv
  OBVIOUS
<1>1. IsDocument(doc) /\ Accepted(doc)
  BY GraphAssumption DEF Init
<1>2. PICK k : NodesOfType(doc, "START") = {k}
  <2>1. Cardinality(NodesOfType(doc, "START")) = 1
    BY <1>1 DEF Accepted
  <2>2. IsFiniteSet(NodesOfType(doc, "START"))
    <3>1. IsFiniteSet(DOMAIN doc.type) /\ NodesOfType(doc, "START") \subseteq DOMAIN doc.type
      BY <1>1 DEF IsDocument, NodesOfType
    <3>. QED
      BY <3>1, FS_Subset
  <2>. QED
    BY <2>1, <2>2, FS_Singleton
<1>3. k \in DOMAIN doc.type /\ doc.type[k] = "START"
  BY <1>2 DEF NodesOfType
<1>. DEFINE s == <<k, 1>>
            r == Row("RUNNING", 0, NoToken, "NONE")
<1>4. rows = [id \in {s} |-> r] /\ tokens = <<>> /\ run = "RUNNING" /\ intent = "NONE"
  <2>1. rows = [id \in NodesOfType(doc, "START") \X {1} |-> r]
    BY DEF Init
  <2>2. NodesOfType(doc, "START") \X {1} = {s}
    BY <1>2
  <2>. HIDE DEF s, r
  <2>. QED
    BY <2>1, <2>2 DEF Init
<1>5. r = [state |-> "RUNNING", iteration |-> 0, token |-> NoToken, outcome |-> "none",
           reg |-> "NONE", timer |-> "NONE", fork |-> 0]
  BY DEF Row
<1>6. DOMAIN tokens = {} /\ tokens \in [DOMAIN tokens -> TokenStates]
  BY <1>4
<1>7. /\ IsWorld(World) /\ IsFiniteSet(DOMAIN rows) /\ DOMAIN rows = {s} /\ rows[s] = r
      /\ s \in (DOMAIN doc.type) \X Counts /\ doc.type[s[1]] = "START"
  <2>1. DOMAIN rows = {s} /\ rows[s] = r
    BY <1>4
  <2>2. IsFiniteSet({s})
    BY FS_Singleton
  <2>3. s \in (DOMAIN doc.type) \X Counts /\ doc.type[s[1]] = "START"
    BY <1>3 DEF Counts
  <2>. QED
    BY <2>1, <2>2, <2>3, WorldIs
<1>8. rows \in [DOMAIN rows -> Columns(DOMAIN tokens)]
  <2>1. r \in Columns(DOMAIN tokens)
    BY <1>5 DEF Columns, States, Answers
  <2>. HIDE DEF r, s
  <2>. QED
    BY <1>4, <2>1
<1>. HIDE DEF s, r
<1>9. WellFormed(doc, World)
  BY <1>6, <1>7, <1>8, WorldIs DEF WellFormed
<1>10. OpenWhileWaiting(doc, World) /\ OneAfterAnother(doc, World) /\ OuterOnly(doc, World)
  <2>1. s[2] \in Nat
    BY <1>7 DEF Counts
  <2>. QED
    BY <1>5, <1>7, <2>1, WorldIs DEF OpenWhileWaiting, OneAfterAnother, OuterOnly, Open, Registering
<1>11. HasFork(doc, World) /\ BranchesLieWithin(doc, World) /\ OuterPathAwaits(doc, World)
       /\ JoinsSpeak(doc, World)
  BY <1>5, <1>6, <1>7, WorldIs DEF HasFork, BranchesLieWithin, OuterPathAwaits, UnderWay, JoinsSpeak
<1>12. RunFits(doc, World, run, intent)
  BY <1>4, <1>6, WorldIs DEF RunFits, Over, Moves
<1>. QED
  BY <1>1, <1>9, <1>10, <1>11, <1>12 DEF GraphInv, Sound

(* The inductive invariant: in every run of an accepted document node runs,     *)
(* tokens and the run's own state fit each other and the document.              *)
THEOREM GraphIsSound ==
  Spec => []GraphInv
<1>1. GraphInv /\ [Next]_vars => GraphInv'
  BY EveryStep
<1>. QED
  BY Begun, <1>1, PTL DEF Spec

-----------------------------------------------------------------------------
(* What follows from the invariant. *)

(* The columns of a run of any accepted document hold what they may hold, and a *)
(* node run has an open registration or request exactly while it waits for an   *)
(* answer.                                                                      *)
THEOREM TypeIsKept == Spec => []TypeOK
<1>1. ASSUME GraphInv PROVE TypeOK
  <2>1. run \in {"RUNNING", "VERIFYING", "FAILED", "CANCELLING", "CANCELLED"}
        /\ intent \in {"NONE", "REQUESTED", "COMPLETED"}
    BY <1>1 DEF GraphInv, RunFits, Over
  <2>2. \A t \in DOMAIN tokens : t[2] \in Outcomes /\ tokens[t] \in TokenStates
    BY <1>1, WorldIs DEF GraphInv, Sound, WellFormed
  <2>3. \A id \in DOMAIN rows : id[1] \in DOMAIN doc.type
    BY <1>1, WorldIs DEF GraphInv, Sound, WellFormed
  <2>4. \A id \in DOMAIN rows : rows[id] \in RowType
    BY <1>1, RowIs DEF Columns, RowType, States, Answers
  <2>5. \A id \in DOMAIN rows : Open(rows[id]) <=> rows[id].state = "WAITING" /\ Type(id) \in Registering
    BY <1>1, RowIs DEF Type
  <2>. QED
    BY <2>1, <2>2, <2>3, <2>4, <2>5 DEF TypeOK, TokenStates
<1>. QED
  BY <1>1, GraphIsSound, PTL

(* reconcileRunTerminalityTx looks at the latest node run of each node and      *)
(* branch only and overlooks nothing: in a run that is over nothing can move,   *)
(* every branch of one that was not cancelled is settled, END is reached once   *)
(* at most, and a run is verified only when it was reached.                     *)
THEOREM OverIsQuiet == Spec => []OverMeansQuiet
<1>1. ASSUME GraphInv PROVE OverMeansQuiet
  <2>. USE <1>1
  <2>1. run \in Over => \A id \in DOMAIN rows : ~Live(rows[id])
    BY WorldIs DEF GraphInv, RunFits
  <2>2. ASSUME run \in Over, intent = "NONE", NEW t \in DOMAIN tokens PROVE tokens[t] # "ACTIVE"
    <3>1. Moves(World, {})
      BY <2>2 DEF GraphInv, RunFits
    <3>. QED
      BY <2>1, <2>2, <3>1, WorldIs DEF Moves
  <2>3. ASSUME NEW e \in Ends PROVE Ends = {e}
    <3>1. \A x \in DOMAIN rows : Type(x) = "END" => x = e
      BY EndIsLatest, WorldIs DEF GraphInv, Ends
    <3>. QED
      BY <3>1 DEF Ends
  <2>4. Cardinality(Ends) <= 1
    <3>1. CASE Ends = {}
      BY <3>1, FS_EmptySet
    <3>2. CASE Ends # {}
      <4>1. PICK e : Ends = {e}
        BY <2>3, <3>2
      <4>. QED
        BY <4>1, FS_Singleton
    <3>. QED
      BY <3>1, <3>2
  <2>5. run = "VERIFYING" => Ends # {}
    BY WorldIs DEF GraphInv, RunFits, Ends, Type
  <2>6. run = "FAILED" => Ends = {}
    BY WorldIs DEF GraphInv, RunFits, Ends, Type
  <2>. QED
    BY <2>1, <2>2, <2>4, <2>5, <2>6 DEF OverMeansQuiet, Over
<1>. QED
  BY <1>1, GraphIsSound, PTL

(* A token, or the outer path, has one live node run at most.                   *)
LEMMA OneCarrier ==
  ASSUME GraphInv, NEW t
  PROVE  IF Carried(t) = {} THEN Cardinality(Carried(t)) = 0 ELSE Cardinality(Carried(t)) = 1
<1>1. ASSUME NEW x \in Carried(t) PROVE Carried(t) = {x}
  BY OneLive, WorldIs DEF GraphInv, Carried
<1>2. CASE Carried(t) = {}
  BY <1>2, FS_EmptySet
<1>3. CASE Carried(t) # {}
  <2>1. PICK x : Carried(t) = {x}
    BY <1>1, <1>3
  <2>. QED
    BY <1>3, <2>1, FS_Singleton
<1>. QED
  BY <1>2, <1>3

(* The outer path and each branch are in one place at a time, the outer path    *)
(* waits at the join while a branch is under way, and what belongs to a branch  *)
(* lies where the validator's walk put it.                                      *)
THEOREM PathsAreOne == Spec => []OnePlaceAtATime
<1>1. ASSUME GraphInv PROVE OnePlaceAtATime
  <2>. USE <1>1
  <2>1. Cardinality(Carried(NoToken)) <= 1
    BY OneCarrier
  <2>2. ASSUME ~Cancelled, NEW t \in DOMAIN tokens
        PROVE  Cardinality(Carried(t)) = IF tokens[t] = "ACTIVE" THEN 1 ELSE 0
    <3>1. CASE tokens[t] = "ACTIVE"
      <4>1. Moves(World, {})
        BY <2>2 DEF GraphInv, RunFits, Cancelled
      <4>2. Carried(t) # {}
        BY <2>2, <3>1, <4>1, WorldIs DEF Moves, Carried
      <4>. QED
        BY <3>1, <4>2, OneCarrier
    <3>2. CASE tokens[t] # "ACTIVE"
      <4>1. t \in Counts \X Outcomes
        BY <2>2, WorldIs DEF GraphInv, Sound, WellFormed
      <4>2. t # NoToken
        BY <4>1 DEF Counts, NoToken
      <4>3. Carried(t) = {}
        BY <3>2, <4>2, RowIs DEF Carried
      <4>. QED
        BY <3>2, <4>3, OneCarrier
    <3>. QED
      BY <3>1, <3>2
  <2>3. ASSUME NEW t \in DOMAIN tokens, tokens[t] = "ACTIVE", NEW id \in Carried(NoToken)
        PROVE  rows[id].fork # 0
    <3>. DEFINE f == ForkOf(t)
    <3>1. IsFork(doc, World, f) /\ f[2] = t[1]
      BY <2>3, ForkOfToken DEF GraphInv
    <3>2. id \in DOMAIN rows /\ rows[id].token = NoToken /\ Live(rows[id])
      BY <2>3 DEF Carried
    <3>. HIDE DEF f
    <3>3. /\ f \in DOMAIN rows /\ rows[f].token = NoToken /\ rows[f].state = "SUCCEEDED"
          /\ f[2] \in Counts /\ id[2] \in Counts
      BY <3>1, <3>2, WorldIs DEF GraphInv, Sound, WellFormed, OuterOnly, IsFork
    <3>4. JoinAwaits(doc, World, f)
      BY <2>3, <3>1, <3>3, WorldIs DEF GraphInv, Sound, OuterPathAwaits, UnderWay
    <3>5. ~(f[2] > id[2])
      BY <3>2, <3>3, OneLive, WorldIs DEF GraphInv
    <3>6. f[2] # id[2]
      BY <3>2, <3>3, WorldIs DEF GraphInv, Sound, OneAfterAnother, Live
    <3>7. id[2] > f[2]
      BY <3>3, <3>5, <3>6 DEF Counts
    <3>. QED
      BY <3>2, <3>3, <3>4, <3>7, WorldIs DEF JoinAwaits, Counts
  <2>4. ASSUME NEW id \in DOMAIN rows, rows[id].token # NoToken
        PROVE  /\ id[1] \in BranchRegion(doc, doc.edge[ForkOf(rows[id].token)[1]][rows[id].token[2]])
               /\ Type(id) \notin {"FORK", "END"}
    <3>. DEFINE t == rows[id].token
    <3>1. t \in DOMAIN tokens /\ Within(doc, World, t, id[1])
      BY <2>4, RowIs, WorldIs DEF Columns, GraphInv, Sound, BranchesLieWithin
    <3>. HIDE DEF t
    <3>2. IsFork(doc, World, ForkOf(t)) /\ ForkOf(t)[2] = t[1]
      BY <3>1, ForkOfToken DEF GraphInv
    <3>3. id[1] \in BranchRegion(doc, doc.edge[ForkOf(t)[1]][t[2]])
      BY <3>1, <3>2 DEF Within, IsFork
    <3>4. Type(id) \notin {"FORK", "END"}
      BY <2>4, WorldIs DEF GraphInv, Sound, OuterOnly, Type
    <3>. QED
      BY <3>3, <3>4 DEF t
  <2>. QED
    BY <2>1, <2>2, <2>3, <2>4 DEF OnePlaceAtATime
<1>. QED
  BY <1>1, GraphIsSound, PTL

(* evaluateJoinTx decides by the branches of the join's own fork, and what it   *)
(* decided stands, however often the fork is entered.                           *)
THEOREM JoinsDecideByTheirFork == Spec => []JoinSpeaksForItsFork
<1>1. ASSUME GraphInv PROVE JoinSpeaksForItsFork
  <2>. USE <1>1
  <2>. SUFFICES ASSUME NEW id \in DOMAIN rows, rows[id].fork # 0
                PROVE  LET mine == TokensOf(rows[id].fork, tokens) IN
                       /\ rows[id].state = "SUCCEEDED" =>
                            IF doc.mode = "ALL" THEN mine = {"SUCCEEDED"}
                                                ELSE "SUCCEEDED" \in mine /\ "ACTIVE" \notin mine
                       /\ rows[id].state = "FAILED" =>
                            IF doc.mode = "ALL" THEN mine \intersect {"FAILED", "CANCELLED"} # {}
                                                ELSE mine \subseteq {"FAILED", "CANCELLED"}
    BY DEF JoinSpeaksForItsFork, TokensOf
  <2>1. Speaks(doc, rows[id].state, TokensOf(rows[id].fork, tokens))
    BY RowIs
  <2>2. TokensOf(rows[id].fork, tokens) # {}
    <3>1. PICK t \in DOMAIN tokens : t[1] = rows[id].fork
      BY WorldIs DEF GraphInv, Sound, HasFork
    <3>. QED
      BY <3>1 DEF TokensOf
  <2>. QED
    BY <2>1, <2>2 DEF Speaks
<1>. QED
  BY <1>1, GraphIsSound, PTL

(* An exhausted node's exit leads out of its cycle.                             *)
LEMMA ExitsAreFinal ==
  ASSUME GraphInv
  PROVE  EscalationLeavesForGood
<1>. SUFFICES ASSUME NEW id \in DOMAIN rows, rows[id].state = "SKIPPED",
                     NEW x \in DOMAIN rows, rows[x].token = rows[id].token, x[2] > id[2]
              PROVE  x[1] \notin Cycle(doc, id[1])
  BY DEF EscalationLeavesForGood
<1>1. id[1] \in DOMAIN doc.type /\ x[1] \in DOMAIN doc.type /\ id[2] \in Nat /\ x[2] \in Nat
  BY WorldIs DEF GraphInv, Sound, WellFormed, Counts
<1>2. doc.budget[id[1]] > 0
  BY WorldIs DEF GraphInv, Sound, OpenWhileWaiting
<1>3. LeadsTo(doc, rows[id], id[1], x[1])
  BY <1>1, WorldIs DEF GraphInv, Sound, OneAfterAnother
<1>. QED
  BY <1>1, <1>2, <1>3, ExitLeaves DEF GraphInv, LeadsTo

(* The path that leaves a node because its budget is used up never comes back   *)
(* to the node's cycle: the validator's rule on escalation edges makes the      *)
(* runtime's choice an exit.                                                    *)
THEOREM EscalationIsFinal == Spec => []EscalationLeavesForGood
<1>1. ASSUME GraphInv PROVE EscalationLeavesForGood
  BY <1>1, ExitsAreFinal
<1>. QED
  BY <1>1, GraphIsSound, PTL

(* What answered a wait or an approval first stands: a late timer, signal or    *)
(* decision, and the sweep of a cancelled run, change nothing of its node run.  *)
THEOREM FirstAnswerStands == Spec => AnswerStands
<1>1. ASSUME GraphInv, [Next]_vars
      PROVE  [\A id \in DOMAIN rows : (rows[id].reg \notin {"NONE", "OPEN"}) =>
                rows'[id] = [rows[id] EXCEPT !.timer = rows'[id].timer]]_vars
  BY <1>1, EveryStep DEF Stand
<1>. QED
  BY <1>1, GraphIsSound, PTL DEF Spec, AnswerStands

=============================================================================
