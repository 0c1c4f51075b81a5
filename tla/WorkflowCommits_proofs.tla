------------------------ MODULE WorkflowCommits_proofs -----------------------
(***************************************************************************)
(* In a run of a tidy document every transaction can commit: no INSERT     *)
(* meets a row with the same node key and activation sequence, and no      *)
(* exhausted budget is without an exit.  And its cycles end: no node is    *)
(* entered more often than its budget allows.                              *)
(*                                                                         *)
(* What WorkflowGraph_proofs knows of a world (Sound) says who may go      *)
(* where next.  Placed says in addition where each node run lies, so that  *)
(* the place a path goes to is free, and Numbered that iterations count    *)
(* node runs, within the budgets.  Each operator of a transaction then     *)
(* succeeds, in the order in which they are built on one another, and      *)
(* keeps node runs placed and numbered.                                    *)
(***************************************************************************)
EXTENDS WorkflowGraph_proofs

(* A node run of the outer path is at an outer node, and one of a branch at a   *)
(* node of that branch, as many steps after its fork as the node is away.       *)
Places(d, w, id, t) ==
  IF t = NoToken
  THEN id[1] \in OuterNodes(d)
  ELSE \E f \in DOMAIN w.rows :
         /\ IsFork(d, w, f) /\ f[2] = t[1]
         /\ id[1] \in BranchNodes(d, f[1], t[2])
         /\ \A dist \in Distances(d, f[1], t[2]) : id[2] = f[2] + dist[id[1]]
Placed(d, w) == \A id \in DOMAIN w.rows : Places(d, w, id, w.rows[id].token)

(* A fork's node run stays one, so a place stays one.                           *)
LEMMA PlacesStayWithForks ==
  ASSUME NEW d, NEW w, NEW v, \A f \in DOMAIN w.rows : IsFork(d, w, f) => IsFork(d, v, f),
         NEW id, NEW t, Places(d, w, id, t)
  PROVE  Places(d, v, id, t)
<1>1. CASE t = NoToken
  BY <1>1 DEF Places
<1>2. CASE t # NoToken
  <2>1. PICK f \in DOMAIN w.rows :
          /\ IsFork(d, w, f) /\ f[2] = t[1]
          /\ id[1] \in BranchNodes(d, f[1], t[2])
          /\ \A dist \in Distances(d, f[1], t[2]) : id[2] = f[2] + dist[id[1]]
    BY <1>2 DEF Places
  <2>2. f \in DOMAIN v.rows /\ IsFork(d, v, f)
    BY <2>1 DEF IsFork
  <2>. QED
    BY <1>2, <2>1, <2>2 DEF Places
<1>. QED
  BY <1>1, <1>2

LEMMA PlacesStay ==
  ASSUME NEW d, NEW w, NEW v, Keeps(w, v), NEW id, NEW t, Places(d, w, id, t)
  PROVE  Places(d, v, id, t)
<1>1. \A f \in DOMAIN w.rows : IsFork(d, w, f) => IsFork(d, v, f)
  BY DEF Keeps, IsFork, Live
<1>. QED
  BY <1>1, PlacesStayWithForks

(* Node runs that keep their tokens stay placed.                                *)
LEMMA PlacedStays ==
  ASSUME NEW d, NEW w, Placed(d, w), NEW v, Keeps(w, v),
         \A id \in DOMAIN v.rows : id \in DOMAIN w.rows /\ v.rows[id].token = w.rows[id].token
  PROVE  Placed(d, v)
BY PlacesStay DEF Placed

(* A new node run has to be placed.                                             *)
LEMMA PlacedPut ==
  ASSUME NEW d, NEW w, Placed(d, w), NEW id, id \notin DOMAIN w.rows, NEW r, Places(d, w, id, r.token)
  PROVE  Placed(d, Put(w, id, r))
<1>. DEFINE v == Put(w, id, r)
<1>1. /\ DOMAIN v.rows = {id} \union DOMAIN w.rows /\ v.rows[id] = r
      /\ \A x \in DOMAIN w.rows : v.rows[x] = w.rows[x]
      /\ Keeps(w, v)
  BY PutRow, PutGoesOn
<1>. HIDE DEF v
<1>2. ASSUME NEW x \in DOMAIN v.rows PROVE Places(d, v, x, v.rows[x].token)
  <2>1. Places(d, w, x, v.rows[x].token)
    BY <1>1 DEF Placed
  <2>. QED
    BY <1>1, <2>1, PlacesStay
<1>. QED
  BY <1>2 DEF Placed, v

(* From a place an edge leads to the next one, unless it leads from a fork into *)
(* a branch or from a branch to a join.                                         *)
LEMMA PlacesOn ==
  ASSUME NEW d, IsDocument(d), Accepted(d), NEW w, Sound(d, w), NEW k \in DOMAIN d.type, NEW s \in Nat,
         NEW t \in {NoToken} \union DOMAIN w.tokens, Places(d, w, <<k, s>>, t), NEW o \in DOMAIN d.edge[k],
         t = NoToken => d.type[k] # "FORK",
         t # NoToken => d.type[d.edge[k][o]] # "JOIN"
  PROVE  Places(d, w, <<d.edge[k][o], s + 1>>, t)
<1>. DEFINE m == d.edge[k][o]
<1>1. m \in Range(d.edge[k]) /\ m \in DOMAIN d.type
  BY Edges
<1>. HIDE DEF m
<1>2. CASE t = NoToken
  <2>1. NodesOfType(d, "START") \union NodesOfType(d, "JOIN") \in SUBSET DOMAIN d.type
    BY DEF NodesOfType
  <2>2. Closed(d, OuterNodes(d), {"FORK"})
    BY <2>1, ClosureIsClosed DEF OuterNodes
  <2>3. k \in OuterNodes(d)
    BY <1>2 DEF Places
  <2>4. m \in OuterNodes(d)
    BY <1>1, <1>2, <2>2, <2>3 DEF Closed
  <2>. QED
    BY <1>2, <2>4 DEF Places, m
<1>3. CASE t # NoToken
  <2>1. PICK f \in DOMAIN w.rows :
          /\ IsFork(d, w, f) /\ f[2] = t[1]
          /\ k \in BranchNodes(d, f[1], t[2])
          /\ \A dist \in Distances(d, f[1], t[2]) : s = f[2] + dist[k]
    BY <1>3 DEF Places
  <2>2. t[2] \in Outcomes /\ f[1] \in NodesOfType(d, "FORK") /\ f[2] \in Nat
    BY <1>3, <2>1 DEF Sound, WellFormed, IsFork, NodesOfType, Counts
  <2>3. k \in BranchRegion(d, d.edge[f[1]][t[2]]) /\ d.type[k] # "JOIN"
    BY <2>1 DEF BranchNodes, NodesOfType
  <2>4. m \in BranchNodes(d, f[1], t[2])
    <3>1. m \in BranchRegion(d, d.edge[f[1]][t[2]])
      BY <2>2, <2>3, Regions DEF m
    <3>. QED
      BY <1>3, <3>1 DEF BranchNodes, NodesOfType, m
  <2>5. ASSUME NEW dist \in Distances(d, f[1], t[2]) PROVE s + 1 = f[2] + dist[m]
    <3>1. dist[m] = dist[k] + 1 /\ dist[k] \in Int
      BY <1>1, <2>1, <2>4 DEF Distances
    <3>2. s = f[2] + dist[k]
      BY <2>1
    <3>. QED
      BY <2>2, <3>1, <3>2
  <2>. QED
    BY <1>3, <2>1, <2>4, <2>5 DEF Places, m
<1>. QED
  BY <1>2, <1>3

(* The place of a branch is in the branch of a fork's node run.                 *)
LEMMA PlaceOfBranch ==
  ASSUME NEW d, NEW w, Sound(d, w), NEW k, NEW s, NEW p \in DOMAIN w.tokens, p # NoToken,
         Places(d, w, <<k, s>>, p)
  PROVE  \E f \in DOMAIN w.rows :
           /\ IsFork(d, w, f) /\ p = <<f[2], p[2]>> /\ p[2] \in Outcomes
           /\ f[1] \in NodesOfType(d, "FORK") /\ f[2] \in Nat /\ w.rows[f].token = NoToken
           /\ f[1] \in DOMAIN d.type
           /\ k \in BranchNodes(d, f[1], p[2])
           /\ \A dist \in Distances(d, f[1], p[2]) : s = f[2] + dist[k]
<1>1. PICK f \in DOMAIN w.rows :
        /\ IsFork(d, w, f) /\ f[2] = p[1]
        /\ k \in BranchNodes(d, f[1], p[2])
        /\ \A dist \in Distances(d, f[1], p[2]) : s = f[2] + dist[k]
  BY DEF Places
<1>2. p \in Counts \X Outcomes
  BY DEF Sound, WellFormed
<1>3. f[1] \in NodesOfType(d, "FORK") /\ f[2] \in Nat /\ w.rows[f].token = NoToken /\ f[1] \in DOMAIN d.type
  BY <1>1 DEF Sound, WellFormed, OuterOnly, IsFork, NodesOfType, Counts
<1>. QED
  BY <1>1, <1>2, <1>3

(* Only two rounds of one branch are at the same node: the fork's cycle is      *)
(* gone round in between.                                                       *)
TwoRounds(d, w, k, s, r, f, g, o) ==
  /\ f[1] \in NodesOfType(d, "FORK") /\ o \in Outcomes /\ k \in BranchNodes(d, f[1], o)
  /\ Reaches(d, f[1], f[1]) /\ f[2] \in Nat /\ g[2] \in Nat /\ f[2] # g[2]
  /\ \A dist \in Distances(d, f[1], o) : s = f[2] + dist[k] /\ r = g[2] + dist[k]

LEMMA PathsMeet ==
  ASSUME NEW d, Tidy(d), NEW w, Sound(d, w), NEW k, NEW s, NEW r,
         NEW t \in {NoToken} \union DOMAIN w.tokens, NEW u \in {NoToken} \union DOMAIN w.tokens,
         t # u, Places(d, w, <<k, s>>, t), Places(d, w, <<k, r>>, u)
  PROVE  \E f, g \in DOMAIN w.rows, o \in Outcomes : TwoRounds(d, w, k, s, r, f, g, o)
<1>1. ASSUME NEW p \in DOMAIN w.tokens, p # NoToken, NEW n, NEW m,
             Places(d, w, <<k, n>>, p), Places(d, w, <<k, m>>, NoToken)
      PROVE  FALSE
  <2>1. PICK f \in DOMAIN w.rows :
          f[1] \in NodesOfType(d, "FORK") /\ p[2] \in Outcomes /\ k \in BranchNodes(d, f[1], p[2])
    BY <1>1, PlaceOfBranch
  <2>2. k \in OuterNodes(d)
    BY <1>1 DEF Places
  <2>. QED
    BY <2>1, <2>2 DEF Tidy
<1>2. CASE t = NoToken \/ u = NoToken
  BY <1>1, <1>2
<1>3. CASE t # NoToken /\ u # NoToken
  <2>0. t \in DOMAIN w.tokens /\ u \in DOMAIN w.tokens
    BY <1>3
  <2>1. PICK f \in DOMAIN w.rows :
          /\ IsFork(d, w, f) /\ t = <<f[2], t[2]>> /\ t[2] \in Outcomes
          /\ f[1] \in NodesOfType(d, "FORK") /\ f[2] \in Nat /\ w.rows[f].token = NoToken
          /\ f[1] \in DOMAIN d.type
          /\ k \in BranchNodes(d, f[1], t[2])
          /\ \A dist \in Distances(d, f[1], t[2]) : s = f[2] + dist[k]
    BY <1>3, <2>0, PlaceOfBranch
  <2>2. PICK g \in DOMAIN w.rows :
          /\ IsFork(d, w, g) /\ u = <<g[2], u[2]>> /\ u[2] \in Outcomes
          /\ g[1] \in NodesOfType(d, "FORK") /\ g[2] \in Nat /\ w.rows[g].token = NoToken
          /\ g[1] \in DOMAIN d.type
          /\ k \in BranchNodes(d, g[1], u[2])
          /\ \A dist \in Distances(d, g[1], u[2]) : r = g[2] + dist[k]
    BY <1>3, <2>0, PlaceOfBranch
  <2>3. f[1] = g[1] /\ t[2] = u[2]
    BY <2>1, <2>2 DEF Tidy
  <2>4. f[2] # g[2]
    BY <2>1, <2>2, <2>3
  <2>5. Reaches(d, f[1], f[1])
    <3>1. f[2] < g[2] \/ g[2] < f[2]
      BY <2>1, <2>2, <2>4
    <3>. QED
      BY <2>1, <2>2, <2>3, <3>1 DEF Sound, OneAfterAnother, LeadsTo
  <2>6. TwoRounds(d, w, k, s, r, f, g, t[2])
    BY <2>1, <2>2, <2>3, <2>4, <2>5 DEF TwoRounds
  <2>. QED
    BY <2>1, <2>2, <2>6
<1>. QED
  BY <1>2, <1>3

(* The place a path goes to next is free: two branches share no node, and two   *)
(* rounds of one branch are at a node at different distances.                   *)
LEMMA PlaceIsFree ==
  ASSUME NEW d, IsDocument(d), Accepted(d), Tidy(d), NEW w, Sound(d, w), Placed(d, w),
         NEW k, NEW s, NEW t, MayEnter(d, w, k, s, t), Places(d, w, <<k, s>>, t)
  PROVE  <<k, s>> \notin DOMAIN w.rows
<1>. DEFINE id == <<k, s>>
            u == w.rows[id].token
<1>. SUFFICES ASSUME id \in DOMAIN w.rows PROVE FALSE
  OBVIOUS
<1>1. s \in Nat /\ t \in {NoToken} \union DOMAIN w.tokens /\ u \in {NoToken} \union DOMAIN w.tokens
  BY DEF MayEnter, Counts, Sound, WellFormed, Columns
<1>2. u # t
  BY <1>1 DEF MayEnter
<1>3. Places(d, w, id, u)
  BY DEF Placed
<1>. HIDE DEF u
<1>4. PICK f, g \in DOMAIN w.rows, o \in Outcomes : TwoRounds(d, w, k, s, s, f, g, o)
  BY <1>1, <1>2, <1>3, PathsMeet
<1>5. Cycle(d, f[1]) # {}
  BY <1>4 DEF Cycle, Reaches, TwoRounds, NodesOfType
<1>6. PICK dist \in Distances(d, f[1], o) : TRUE
  BY <1>4, <1>5 DEF Tidy, TwoRounds
<1>7. dist[k] \in Int
  BY <1>4, <1>6 DEF Distances, TwoRounds
<1>. QED
  BY <1>4, <1>6, <1>7 DEF TwoRounds

-----------------------------------------------------------------------------
(* Where a node with a budget can be. *)

(* From everywhere in a branch the join can be reached.                         *)
LEMMA BranchesReachTheJoin ==
  ASSUME NEW d, IsDocument(d), Accepted(d), NEW f, f[1] \in NodesOfType(d, "FORK"), NEW o \in Outcomes,
         NEW k \in BranchRegion(d, d.edge[f[1]][o]), d.type[k] # "JOIN"
  PROVE  Reaches(d, k, JoinAt(d, f)[1])
<1>. DEFINE R == BranchRegion(d, d.edge[f[1]][o])
            C == Closure(d, Range(d.edge[k]), {})
            N == ({k} \union C) \intersect R
            j == JoinAt(d, f)[1]
<1>. SUFFICES ASSUME j \notin C PROVE FALSE
  BY DEF Reaches
<1>1. /\ R \in SUBSET DOMAIN d.type
      /\ \A x \in R : /\ d.type[x] \notin {"FORK", "END"}
                      /\ d.type[x] # "JOIN" => \A p \in DOMAIN d.edge[x] : d.edge[x][p] \in R
  BY Regions
<1>2. \A x \in R : d.type[x] = "JOIN" => x = j
  BY JoinsOfForks
<1>3. k \in DOMAIN d.type /\ k \in R
  BY <1>1
<1>4. Range(d.edge[k]) \subseteq C /\ Closed(d, C, {})
  BY <1>3, Edges, ClosureIsClosed
<1>. HIDE DEF R, C, j
<1>5. Closed(d, N, {})
  <2>. SUFFICES ASSUME NEW x \in N PROVE Range(d.edge[x]) \subseteq N
    BY DEF Closed
  <2>1. d.type[x] # "JOIN"
    BY <1>2
  <2>2. Range(d.edge[x]) \subseteq R
    BY <1>1, <2>1 DEF Range
  <2>3. Range(d.edge[x]) \subseteq C
    BY <1>4 DEF Closed
  <2>. QED
    BY <2>2, <2>3
<1>6. {k} \in SUBSET DOMAIN d.type /\ {k} \subseteq N
  BY <1>3
<1>7. N \intersect NodesOfType(d, "END") = {}
  BY <1>1 DEF NodesOfType
<1>. HIDE DEF N
<1>8. Closure(d, {k}, {}) \subseteq N
  BY <1>5, <1>6, ClosureIsLeast
<1>. QED
  BY <1>3, <1>7, <1>8 DEF Accepted

(* A fork that can be entered again is reached from its join.                   *)
LEMMA LoopsPassTheJoin ==
  ASSUME NEW d, IsDocument(d), Accepted(d), NEW f, f[1] \in NodesOfType(d, "FORK"), Reaches(d, f[1], f[1])
  PROVE  Reaches(d, JoinAt(d, f)[1], f[1])
<1>. DEFINE R(o) == BranchRegion(d, d.edge[f[1]][o])
            j == JoinAt(d, f)[1]
            C == Closure(d, Range(d.edge[j]), {})
            M == R("ok") \union R("alt") \union {j} \union C
<1>1. f[1] \in DOMAIN d.type /\ d.type[f[1]] = "FORK" /\ DOMAIN d.edge[f[1]] = Outcomes
  BY DEF NodesOfType, Accepted, OutcomesDeclared
<1>2. j \in DOMAIN d.type /\ d.type[j] = "JOIN"
  BY JoinsOfForks
<1>3. \A o \in Outcomes : \A x \in R(o) : d.type[x] = "JOIN" => x = j
  BY JoinsOfForks
<1>4. \A o \in Outcomes :
        /\ d.edge[f[1]][o] \in R(o)
        /\ \A x \in R(o) : /\ d.type[x] \notin {"FORK", "END"}
                           /\ d.type[x] # "JOIN" => \A p \in DOMAIN d.edge[x] : d.edge[x][p] \in R(o)
  BY Regions
<1>5. Range(d.edge[j]) \subseteq C /\ Closed(d, C, {})
  BY <1>2, Edges, ClosureIsClosed
<1>. HIDE DEF R, C, j
<1>6. Closed(d, M, {})
  <2>. SUFFICES ASSUME NEW x \in M PROVE Range(d.edge[x]) \subseteq M
    BY DEF Closed
  <2>1. CASE x = j
    BY <1>5, <2>1
  <2>2. CASE x \in C
    BY <1>5, <2>2 DEF Closed
  <2>3. ASSUME NEW o \in Outcomes, x \in R(o), x # j PROVE Range(d.edge[x]) \subseteq R(o)
    BY <1>3, <1>4, <2>3 DEF Range
  <2>. QED
    BY <2>1, <2>2, <2>3 DEF Outcomes
<1>7. Range(d.edge[f[1]]) \subseteq M
  BY <1>1, <1>4 DEF Range, Outcomes
<1>8. f[1] \notin R("ok") \union R("alt") \union {j}
  BY <1>1, <1>2, <1>4 DEF Outcomes
<1>9. f[1] \in M
  <2>. HIDE DEF M
  <2>1. Closure(d, Range(d.edge[f[1]]), {}) \subseteq M
    BY <1>1, <1>6, <1>7, Edges, ClosureIsLeast
  <2>. QED
    BY <2>1 DEF Reaches
<1>. QED
  BY <1>8, <1>9 DEF Reaches, C, j

(* A branch's nodes are reached from the fork.                                  *)
LEMMA ForksReachTheirBranches ==
  ASSUME NEW d, IsDocument(d), Accepted(d), NEW f \in NodesOfType(d, "FORK"), NEW o \in Outcomes,
         NEW k \in BranchRegion(d, d.edge[f][o])
  PROVE  Reaches(d, f, k)
<1>. DEFINE C == Closure(d, Range(d.edge[f]), {})
            b == d.edge[f][o]
<1>1. f \in DOMAIN d.type /\ DOMAIN d.edge[f] = Outcomes
  BY DEF NodesOfType, Accepted, OutcomesDeclared
<1>2. b \in Range(d.edge[f]) /\ Range(d.edge[f]) \in SUBSET DOMAIN d.type
  BY <1>1, Edges
<1>3. {b} \in SUBSET DOMAIN d.type /\ {b} \subseteq C /\ Closed(d, C, {})
  BY <1>2, ClosureIsClosed
<1>4. Closed(d, C, Stops)
  BY <1>3 DEF Closed
<1>5. BranchRegion(d, b) \subseteq C
  <2>. HIDE DEF b, C
  <2>. QED
    BY <1>3, <1>4, ClosureIsLeast DEF BranchRegion, Stops
<1>. QED
  BY <1>5 DEF Reaches

(* A fork with a budget in one of its branches is never entered again: the      *)
(* node's exit, which stays in the branch, would lead round to the node.        *)
LEMMA BudgetedBranch ==
  ASSUME NEW d, IsDocument(d), Accepted(d), Tidy(d), NEW f, f[1] \in NodesOfType(d, "FORK"),
         NEW o \in Outcomes, NEW k \in BranchNodes(d, f[1], o), d.budget[k] > 0
  PROVE  ~Reaches(d, f[1], f[1])
<1>. DEFINE e == d.edge[k]["alt"]
            j == JoinAt(d, f)[1]
            n == f[1]
<1>. SUFFICES ASSUME Reaches(d, n, n) PROVE FALSE
  OBVIOUS
<1>1. n \in DOMAIN d.type /\ j \in DOMAIN d.type
  BY JoinsOfForks DEF NodesOfType
<1>2. k \in BranchRegion(d, d.edge[n][o]) /\ k \in DOMAIN d.type /\ d.type[k] # "JOIN"
  BY Regions DEF BranchNodes, NodesOfType
<1>3. "alt" \in DOMAIN d.edge[k] /\ d.type[e] # "JOIN"
  BY <1>2 DEF Accepted, Tidy
<1>4. e \in BranchRegion(d, d.edge[n][o]) /\ e \in DOMAIN d.type /\ Reaches(d, k, e)
  BY <1>2, <1>3, Regions, EdgeReaches
<1>5. Reaches(d, e, j) /\ Reaches(d, j, n) /\ Reaches(d, n, k)
  <2>1. Reaches(d, e, j)
    BY <1>3, <1>4, BranchesReachTheJoin
  <2>2. Reaches(d, j, n)
    BY LoopsPassTheJoin
  <2>3. Reaches(d, n, k)
    BY <1>2, ForksReachTheirBranches
  <2>. QED
    BY <2>1, <2>2, <2>3
<1>. HIDE DEF j, n, e
<1>6. Reaches(d, e, k)
  <2>1. Reaches(d, e, n)
    BY <1>1, <1>4, <1>5, ReachesOn
  <2>. QED
    BY <1>1, <1>2, <1>4, <1>5, <2>1, ReachesOn
<1>7. e \in Cycle(d, k)
  BY <1>4, <1>6 DEF Cycle, Reaches
<1>8. e \notin Cycle(d, k)
  BY <1>2, <1>4, ExitLeaves DEF e
<1>. QED
  BY <1>7, <1>8

(* So all node runs of a node with a budget are of one path.                    *)
LEMMA OnePathOnly ==
  ASSUME NEW d, IsDocument(d), Accepted(d), Tidy(d), NEW w, Sound(d, w), Placed(d, w),
         NEW k, d.budget[k] > 0, NEW s, NEW t \in {NoToken} \union DOMAIN w.tokens, Places(d, w, <<k, s>>, t),
         NEW x \in DOMAIN w.rows, x[1] = k
  PROVE  w.rows[x].token = t
<1>. DEFINE u == w.rows[x].token
<1>. SUFFICES ASSUME u # t PROVE FALSE
  OBVIOUS
<1>1. u \in {NoToken} \union DOMAIN w.tokens /\ x = <<k, x[2]>>
  BY DEF Sound, WellFormed, Columns
<1>2. Places(d, w, <<k, x[2]>>, u)
  BY <1>1 DEF Placed
<1>. HIDE DEF u
<1>3. PICK f, g \in DOMAIN w.rows, o \in Outcomes : TwoRounds(d, w, k, s, x[2], f, g, o)
  BY <1>1, <1>2, PathsMeet
<1>. QED
  BY <1>3, BudgetedBranch DEF TwoRounds

-----------------------------------------------------------------------------
(* Iterations. *)

(* The node runs of a node have different iterations, and the budget of the     *)
(* node is not overdrawn by any that was not skipped.                           *)
Numbered(d, w) ==
  /\ \A x, y \in DOMAIN w.rows : x[1] = y[1] /\ w.rows[x].iteration = w.rows[y].iteration => x = y
  /\ \A x \in DOMAIN w.rows : d.budget[x[1]] > 0 /\ w.rows[x].state # "SKIPPED" =>
       w.rows[x].iteration <= d.budget[x[1]]

(* A new node run counts on from the others.                                    *)
LEMMA NumberedPut ==
  ASSUME NEW d, NEW w, WellFormed(d, w), Numbered(d, w), NEW id, id \notin DOMAIN w.rows, NEW r,
         r.iteration = Iteration(w, id[1]),
         d.budget[id[1]] > 0 /\ r.state # "SKIPPED" => r.iteration <= d.budget[id[1]]
  PROVE  Numbered(d, Put(w, id, r))
<1>. DEFINE v == Put(w, id, r)
<1>1. /\ DOMAIN v.rows = {id} \union DOMAIN w.rows /\ v.rows[id] = r
      /\ \A x \in DOMAIN w.rows : v.rows[x] = w.rows[x]
  BY PutRow
<1>. HIDE DEF v
<1>2. /\ Iteration(w, id[1]) \in Nat
      /\ \A x \in DOMAIN w.rows : x[1] = id[1] => w.rows[x].iteration < Iteration(w, id[1])
  BY IterationIsNat
<1>3. \A x \in DOMAIN w.rows : w.rows[x].iteration \in Nat
  BY DEF WellFormed, Columns
<1>4. \A x \in DOMAIN w.rows : x[1] = id[1] => w.rows[x].iteration # r.iteration
  BY <1>2, <1>3
<1>5. ASSUME NEW x \in DOMAIN v.rows, NEW y \in DOMAIN v.rows, x[1] = y[1],
             v.rows[x].iteration = v.rows[y].iteration
      PROVE  x = y
  BY <1>1, <1>4, <1>5 DEF Numbered
<1>6. ASSUME NEW x \in DOMAIN v.rows, d.budget[x[1]] > 0, v.rows[x].state # "SKIPPED"
      PROVE  v.rows[x].iteration <= d.budget[x[1]]
  BY <1>1, <1>6 DEF Numbered
<1>. QED
  BY <1>5, <1>6 DEF Numbered, v

(* Node runs that keep their iterations stay numbered.                          *)
LEMMA NumberedStays ==
  ASSUME NEW d, NEW w, Numbered(d, w), NEW v, Keeps(w, v), DOMAIN v.rows = DOMAIN w.rows,
         \A id \in DOMAIN w.rows : v.rows[id].iteration = w.rows[id].iteration
  PROVE  Numbered(d, v)
<1>1. \A x \in DOMAIN w.rows : v.rows[x].state # "SKIPPED" => w.rows[x].state # "SKIPPED"
  BY DEF Keeps, Live
<1>. QED
  BY <1>1 DEF Numbered

(* A node that no node run was at yet has its budget.                           *)
LEMMA FirstVisit ==
  ASSUME IsDocument(doc), NEW w, WellFormed(doc, w), NEW k \in DOMAIN doc.type,
         doc.budget[k] > 0 => \A x \in DOMAIN w.rows : x[1] # k
  PROVE  ~Exhausted(w, k)
<1>1. doc.budget[k] \in Nat
  BY DEF IsDocument
<1>2. doc.budget[k] > 0 => Iteration(w, k) = 0
  BY IterationIsNat
<1>. QED
  BY <1>1, <1>2 DEF Exhausted

-----------------------------------------------------------------------------
(* The operators of a transaction succeed. *)

TidyDocument == IsDocument(doc) /\ Accepted(doc) /\ Tidy(doc)

(* A world that a transaction can go on from.                                   *)
InOrder(d, w) == Placed(d, w) /\ Numbered(d, w)
Fine(w) == w.ok /\ Sound(doc, w) /\ InOrder(doc, w)

(* Create succeeds where the place is free.                                     *)
LEMMA CreateSucceeds ==
  ASSUME NEW w, IsWorld(w), w.ok, NEW id, id \notin DOMAIN w.rows, NEW r
  PROVE  Create(w, id, r) = Put(w, id, r) /\ Create(w, id, r).ok
BY DEF IsWorld, Create, Put

(* A node that may be entered at a place of its path is activated.              *)
LEMMA ActivateSucceeds ==
  ASSUME TidyDocument, NEW w, Fine(w), NEW k, NEW s, NEW t, MayEnter(doc, w, k, s, t),
         Places(doc, w, <<k, s>>, t), ~Exhausted(w, k)
  PROVE  Fine(Activate(w, k, s, t))
<1>. DEFINE id == <<k, s>>
            r == FirstRow(w, k, t)
            v == Activate(w, k, s, t)
<1>1. v = Create(w, id, r)
  BY DEF Activate, FirstRow
<1>2. id \notin DOMAIN w.rows
  BY PlaceIsFree DEF TidyDocument, Fine, InOrder
<1>3. r.token = t /\ r.iteration = Iteration(w, k)
  BY DEF FirstRow, Row
<1>. HIDE DEF r
<1>4. v = Put(w, id, r) /\ v.ok
  <2>1. IsWorld(w) /\ w.ok
    BY DEF Fine, Sound, WellFormed
  <2>. HIDE DEF id, v
  <2>. QED
    BY <1>1, <1>2, <2>1, CreateSucceeds
<1>5. Placed(doc, v)
  <2>. HIDE DEF v
  <2>. QED
    BY <1>2, <1>3, <1>4, PlacedPut DEF Fine, InOrder
<1>6. Sound(doc, v)
  BY <1>4, Activated DEF TidyDocument, Fine
<1>7. Numbered(doc, v)
  <2>1. WellFormed(doc, w) /\ Iteration(w, k) \in Nat /\ k \in DOMAIN doc.type
    BY IterationIsNat DEF Fine, Sound, MayEnter
  <2>2. doc.budget[k] > 0 => r.iteration <= doc.budget[k]
    BY <1>3, <2>1 DEF Exhausted, TidyDocument, IsDocument
  <2>3. id[1] = k
    OBVIOUS
  <2>. HIDE DEF v, id
  <2>. QED
    BY <1>2, <1>3, <1>4, <2>1, <2>2, <2>3, NumberedPut DEF Fine, InOrder
<1>. QED
  BY <1>4, <1>5, <1>6, <1>7 DEF Fine, InOrder

(* A fork's join is of the outer path, and no branch is there.                  *)
LEMMA JoinRowSucceeds ==
  ASSUME TidyDocument, NEW w, Fine(w), NEW f, AtJoin(doc, w, f)
  PROVE  Fine(WithJoinRow(w, f))
<1>. DEFINE v == WithJoinRow(w, f)
            j == JoinAt(doc, f)
            r == [Row("WAITING", Iteration(w, JoinOf(f)), NoToken, "NONE") EXCEPT !.fork = f[2]]
<1>0. JoinRow(f) = j
  BY DEF JoinRow, JoinOf, JoinAt
<1>1. CASE HasJoinRow(w, f)
  BY <1>1 DEF WithJoinRow
<1>2. CASE ~HasJoinRow(w, f)
  <2>1. f[1] \in NodesOfType(doc, "FORK") /\ f[2] \in Nat /\ IsWorld(w)
    BY DEF AtJoin, IsFork, Fine, Sound, WellFormed, NodesOfType, Counts
  <2>2. j[1] \in DOMAIN doc.type /\ doc.type[j[1]] = "JOIN" /\ j[2] > f[2]
    BY <2>1, JoinsOfForks DEF TidyDocument, JoinAt
  <2>3. j \notin DOMAIN w.rows
    <3>. SUFFICES ASSUME j \in DOMAIN w.rows PROVE FALSE
      OBVIOUS
    <3>. HIDE DEF j
    <3>1. CASE w.rows[j].token = NoToken
      BY <1>0, <1>2, <2>2, <3>1 DEF AtJoin, HasJoinRow
    <3>2. CASE w.rows[j].token # NoToken
      <4>1. Places(doc, w, j, w.rows[j].token)
        BY DEF Fine, InOrder, Placed
      <4>2. \E g, o : j[1] \in BranchNodes(doc, g, o)
        BY <3>2, <4>1 DEF Places
      <4>. QED
        BY <2>2, <4>2 DEF BranchNodes, NodesOfType
    <3>. QED
      BY <3>1, <3>2
  <2>4. v = Create(w, j, r)
    BY <1>0, <1>2 DEF WithJoinRow
  <2>5. r.token = NoToken /\ r.iteration = Iteration(w, j[1])
    BY <1>0 DEF Row, JoinRow
  <2>6. Places(doc, w, j, NoToken)
    <3>. DEFINE K == NodesOfType(doc, "START") \union NodesOfType(doc, "JOIN")
    <3>1. K \in SUBSET DOMAIN doc.type /\ j[1] \in K
      BY <2>2 DEF NodesOfType
    <3>2. K \subseteq OuterNodes(doc)
      <4>. DEFINE N == K
      <4>1. OuterNodes(doc) = Closure(doc, N, {"FORK"})
        BY DEF OuterNodes
      <4>. HIDE DEF N
      <4>2. N \in SUBSET DOMAIN doc.type
        BY <3>1 DEF N
      <4>3. N \subseteq Closure(doc, N, {"FORK"})
        BY <4>2, ClosureIsClosed DEF TidyDocument
      <4>. QED
        BY <4>1, <4>3 DEF N
    <3>. QED
      BY <3>1, <3>2 DEF Places
  <2>. HIDE DEF r, v, j
  <2>7. v = Put(w, j, r) /\ v.ok
    BY <2>1, <2>3, <2>4, CreateSucceeds DEF Fine
  <2>8. Placed(doc, v)
    BY <2>3, <2>5, <2>6, <2>7, PlacedPut DEF Fine, InOrder
  <2>9. Sound(doc, v)
    BY <2>7, JoinsMeet DEF TidyDocument, Fine, v
  <2>10. Numbered(doc, v)
    <3>1. ~(doc.budget[j[1]] > 0)
      <4>1. OutcomesDeclared(doc, j[1]) /\ (doc.budget[j[1]] > 0 => "alt" \in DOMAIN doc.edge[j[1]])
        BY <2>2 DEF TidyDocument, Accepted
      <4>2. DOMAIN doc.edge[j[1]] = {"ok"}
        BY <2>2, <4>1 DEF OutcomesDeclared
      <4>. QED
        BY <4>1, <4>2
    <3>. QED
      BY <2>3, <2>5, <2>7, <3>1, NumberedPut DEF Fine, InOrder, Sound
  <2>. QED
    BY <2>7, <2>8, <2>9, <2>10 DEF Fine, InOrder, v
<1>. QED
  BY <1>1, <1>2

(* A branch of a fork just entered begins where its nodes are numbered from.    *)
LEMMA BranchSucceeds ==
  ASSUME TidyDocument, NEW v, Fine(v), NEW f, AtJoin(doc, v, f),
         NEW o \in Outcomes, <<f[2], o>> \in DOMAIN v.tokens,
         v.tokens[<<f[2], o>>] = FirstToken(f, o),
         Unused(v, <<f[2], o>>),
         NEW s \in Counts,
         doc.type[doc.edge[f[1]][o]] # "JOIN" => s = f[2] + FirstStep(doc, f[1], o)
  PROVE  Fine(Branch(v, f, o, s))
<1>. DEFINE b == Branch(v, f, o, s)
            k == doc.edge[f[1]][o]
            t == <<f[2], o>>
<1>1. /\ f \in DOMAIN v.rows /\ f[1] \in NodesOfType(doc, "FORK") /\ f[2] \in Counts
  BY DEF AtJoin, IsFork, Fine, Sound, WellFormed, NodesOfType
<1>2. t # NoToken
  BY <1>1 DEF NoToken, Counts
<1>3. CASE doc.type[k] = "JOIN"
  BY <1>3, JoinRowSucceeds DEF Branch
<1>4. CASE doc.type[k] # "JOIN"
  <2>1. b = Activate(v, k, s, t)
    BY <1>4 DEF Branch
  <2>2. k \in BranchRegion(doc, k) /\ k \in DOMAIN doc.type /\ doc.type[k] \notin {"FORK", "END"}
    BY <1>1, Regions DEF TidyDocument
  <2>3. Within(doc, v, t, k)
    <3>. SUFFICES ASSUME NEW g \in DOMAIN v.rows, IsFork(doc, v, g), g[2] = t[1]
                  PROVE  k \in BranchRegion(doc, doc.edge[g[1]][t[2]])
      BY DEF Within
    <3>1. g = f
      BY SameFork DEF AtJoin, Fine
    <3>. QED
      BY <2>2, <3>1
  <2>4. v.tokens[t] = "ACTIVE"
    BY <1>4 DEF FirstToken
  <2>5. k \in BranchNodes(doc, f[1], o)
    BY <1>4, <2>2 DEF BranchNodes, NodesOfType
  <2>6. \A dist \in Distances(doc, f[1], o) : s = f[2] + dist[k]
    BY <1>4, <2>5 DEF Distances
  <2>7. Places(doc, v, <<k, s>>, t)
    BY <1>1, <1>2, <2>5, <2>6 DEF Places, AtJoin
  <2>. HIDE DEF b, k, t
  <2>8. MayEnter(doc, v, k, s, t)
    BY <1>2, <2>2, <2>3, <2>4 DEF MayEnter, t, Unused
  <2>9. ~Exhausted(v, k)
    <3>1. ASSUME doc.budget[k] > 0, NEW x \in DOMAIN v.rows, x[1] = k PROVE FALSE
      <4>1. v.rows[x].token = t
        BY <2>7, <2>8, <3>1, OnePathOnly DEF TidyDocument, Fine, InOrder, MayEnter
      <4>. QED
        BY <4>1 DEF Unused, t
    <3>. QED
      BY <2>2, <3>1, FirstVisit DEF TidyDocument, Fine, Sound
  <2>. QED
    BY <2>1, <2>7, <2>8, <2>9, ActivateSucceeds DEF b
<1>. QED
  BY <1>3, <1>4

(* Both branches of a fork begin, the alternative one first.                    *)
LEMMA DispatchSucceeds ==
  ASSUME TidyDocument, NEW w, Fine(w), NEW f, JustForked(doc, w, f)
  PROVE  Fine(Dispatch(w, f))
<1>. DEFINE u == Issued(w, f)
            a == Branch(u, f, "alt", f[2] + 1)
            s == f[2] + FirstStep(doc, f[1], "ok")
            v == Branch(a, f, "ok", s)
            at == <<f[2], "alt">>
            ot == <<f[2], "ok">>
<1>1. Dispatch(w, f) = v
  BY DEF Dispatch, Branch, Issued, TokensFor, FirstToken, FirstStep
<1>2. f[2] + 1 \in Counts /\ s \in Counts /\ f[2] + 1 = f[2] + FirstStep(doc, f[1], "alt")
  BY DEF JustForked, IsFork, Fine, Sound, WellFormed, Counts, FirstStep
<1>3. /\ Sound(doc, u) /\ AtJoin(doc, u, f) /\ Keeps(w, u) /\ u.ok = w.ok
      /\ \A o \in Outcomes : /\ <<f[2], o>> \in DOMAIN u.tokens
                             /\ u.tokens[<<f[2], o>>] = FirstToken(f, o)
                             /\ Unused(u, <<f[2], o>>)
  BY TokensAreIssued DEF Fine
<1>4. "ok" \in Outcomes /\ "alt" \in Outcomes
  BY DEF Outcomes
<1>5. u.rows = w.rows
  BY DEF Issued, Fine, Sound, WellFormed, IsWorld
<1>. HIDE DEF u, s
<1>6. Fine(u)
  <2>1. Placed(doc, u)
    BY <1>3, <1>5, PlacedStays DEF Fine, InOrder
  <2>2. Numbered(doc, u)
    BY <1>3, <1>5, NumberedStays DEF Fine, InOrder
  <2>. QED
    BY <1>3, <2>1, <2>2 DEF Fine, InOrder
<1>7. /\ at \in DOMAIN u.tokens /\ u.tokens[at] = FirstToken(f, "alt") /\ Unused(u, at)
      /\ ot \in DOMAIN u.tokens /\ u.tokens[ot] = FirstToken(f, "ok") /\ Unused(u, ot)
  BY <1>3, <1>4
<1>8. Fine(a)
  BY <1>2, <1>3, <1>4, <1>6, <1>7, BranchSucceeds
<1>9. AtJoin(doc, a, f) /\ a.tokens = u.tokens /\ Unused(a, ot)
  <2>1. a.ok
    BY <1>8 DEF Fine
  <2>2. /\ AtJoin(doc, a, f) /\ a.tokens = u.tokens
        /\ \A p \in Outcomes : p # "alt" /\ Unused(u, <<f[2], p>>) => Unused(a, <<f[2], p>>)
    BY <1>2, <1>3, <1>4, <1>7, <2>1, BranchBegins DEF TidyDocument
  <2>. QED
    BY <1>4, <1>7, <2>2
<1>. HIDE DEF a
<1>10. Fine(v)
  BY <1>2, <1>4, <1>7, <1>8, <1>9, BranchSucceeds DEF s
<1>. QED
  BY <1>1, <1>10

(* A node is entered, with the branches of a FORK behind it.                    *)
LEMMA EnterSucceeds ==
  ASSUME TidyDocument, NEW w, Fine(w), NEW k, NEW s, NEW t, MayEnter(doc, w, k, s, t),
         Places(doc, w, <<k, s>>, t), ~Exhausted(w, k)
  PROVE  Fine(Enter(w, k, s, t))
<1>. DEFINE u == Activate(w, k, s, t)
            f == <<k, s>>
<1>1. Fine(u)
  BY ActivateSucceeds
<1>2. u.ok /\ f \notin DOMAIN w.rows /\ u = Put(w, f, FirstRow(w, k, t))
  BY <1>1, Activated DEF TidyDocument, Fine
<1>3. CASE doc.type[k] # "FORK"
  BY <1>1, <1>3 DEF Enter
<1>4. CASE doc.type[k] = "FORK"
  <2>1. Enter(w, k, s, t) = Dispatch(u, f)
    BY <1>2, <1>4 DEF Enter
  <2>. HIDE DEF u
  <2>2. JustForked(doc, u, f)
    BY <1>2, <1>4, ForkIsNew DEF Fine
  <2>. HIDE DEF f
  <2>3. Fine(Dispatch(u, f))
    BY <1>1, <2>2, DispatchSucceeds
  <2>. QED
    BY <2>1, <2>3
<1>. QED
  BY <1>3, <1>4

(* A path goes on, past an exhausted node by the node's exit.                   *)
LEMMA RouteSucceeds ==
  ASSUME TidyDocument, NEW w, Fine(w), NEW id, NEW o, CanRoute(doc, w, id, o), doc.type[id[1]] # "FORK"
  PROVE  Fine(Route(w, id, o))
<1>. DEFINE n == id[1]
            k == doc.edge[n][o]
            s == id[2] + 1
            t == w.rows[id].token
            r == [Row("SKIPPED", Iteration(w, k), t, "NONE") EXCEPT !.outcome = "alt"]
            u == Create(w, <<k, s>>, r)
            v == Route(w, id, o)
<1>1. MayEnter(doc, w, k, s, t)
  BY MayRoute DEF TidyDocument, Fine
<1>2. IsWorld(w) /\ Iteration(w, k) \in Nat
  BY IterationIsNat DEF Fine, Sound, WellFormed
<1>3. /\ id \in DOMAIN w.rows /\ id = <<n, id[2]>> /\ n \in DOMAIN doc.type /\ id[2] \in Nat /\ s \in Nat
      /\ o \in DOMAIN doc.edge[n] /\ t \in {NoToken} \union DOMAIN w.tokens
      /\ k \in DOMAIN doc.type
      /\ t # NoToken => doc.type[k] # "JOIN"
  BY <1>1 DEF CanRoute, Fine, Sound, WellFormed, Columns, Counts, MayEnter
<1>4. Places(doc, w, <<n, id[2]>>, t)
  <2>1. Places(doc, w, id, t)
    BY <1>3 DEF Fine, InOrder, Placed
  <2>. QED
    BY <2>1 DEF Places
<1>. HIDE DEF n, t
<1>5. Places(doc, w, <<k, s>>, t)
  BY <1>3, <1>4, PlacesOn DEF TidyDocument, Fine, n
<1>6. CASE ~Exhausted(w, k)
  <2>1. v = Enter(w, k, s, t)
    BY <1>6 DEF Route, n, t
  <2>. HIDE DEF v, k, s
  <2>. QED
    BY <1>1, <1>5, <1>6, <2>1, EnterSucceeds DEF v, k
<1>7. CASE Exhausted(w, k)
  <2>1. v = Enter(u, Exit(k), s + 1, t)
    BY <1>7 DEF Route, n, t
  <2>2. /\ doc.budget[k] > 0 /\ doc.type[k] \notin {"JOIN", "FORK"} /\ "alt" \in DOMAIN doc.edge[k]
        /\ doc.type[doc.edge[k]["alt"]] # "JOIN"
    <3>1. doc.budget[k] > 0
      BY <1>7 DEF Exhausted
    <3>2. "alt" \in DOMAIN doc.edge[k] /\ OutcomesDeclared(doc, k)
      BY <1>3, <3>1 DEF TidyDocument, Accepted
    <3>3. doc.type[k] # "FORK" /\ doc.type[doc.edge[k]["alt"]] # "JOIN"
      BY <1>3, <3>1 DEF TidyDocument, Tidy, NodesOfType
    <3>. QED
      BY <3>1, <3>2, <3>3 DEF OutcomesDeclared
  <2>3. /\ r = [Row("SKIPPED", Iteration(w, k), t, "NONE") EXCEPT !.outcome = "alt"]
        /\ r.token = t /\ r.iteration = Iteration(w, k) /\ r.state = "SKIPPED"
    BY DEF Row
  <2>4. <<k, s>> \notin DOMAIN w.rows
    <3>. HIDE DEF k, s
    <3>. QED
      BY <1>1, <1>5, PlaceIsFree DEF TidyDocument, Fine, InOrder
  <2>. HIDE DEF v, k, s, r
  <2>5. u = Put(w, <<k, s>>, r) /\ u.ok
    BY <1>2, <2>4, CreateSucceeds DEF Fine
  <2>. HIDE DEF u
  <2>6. /\ Sound(doc, u) /\ Keeps(w, u) /\ MayEnter(doc, u, Exit(k), s + 1, t)
    BY <1>1, <1>2, <2>2, <2>3, <2>4, <2>5, Skipped DEF TidyDocument, Fine
  <2>7. Placed(doc, u)
    BY <1>5, <2>3, <2>4, <2>5, PlacedPut DEF Fine, InOrder
  <2>8. Places(doc, u, <<Exit(k), s + 1>>, t)
    <3>1. Places(doc, u, <<k, s>>, t)
      BY <1>5, <2>6, PlacesStay
    <3>2. t \in {NoToken} \union DOMAIN u.tokens
      BY <2>6 DEF MayEnter
    <3>3. Places(doc, u, <<doc.edge[k]["alt"], s + 1>>, t)
      BY <1>3, <2>2, <2>6, <3>1, <3>2, PlacesOn DEF TidyDocument, s
    <3>. QED
      BY <3>3 DEF Exit
  <2>9. Fine(u)
    <3>1. Numbered(doc, u)
      BY <2>3, <2>4, <2>5, NumberedPut DEF Fine, InOrder, Sound
    <3>. QED
      BY <2>5, <2>6, <2>7, <3>1 DEF Fine, InOrder
  <2>10. ~Exhausted(u, Exit(k))
    <3>. DEFINE m == Exit(k)
    <3>1. m = doc.edge[k]["alt"] /\ m \in DOMAIN doc.type /\ Reaches(doc, k, m)
      BY <1>3, <2>2, EdgeReaches DEF TidyDocument, Exit
    <3>2. ~Reaches(doc, m, k)
      <4>. SUFFICES ASSUME Reaches(doc, m, k) PROVE FALSE
        OBVIOUS
      <4>1. m \in Cycle(doc, k)
        BY <3>1 DEF Cycle, Reaches
      <4>. QED
        BY <1>3, <2>2, <3>1, <4>1, ExitLeaves DEF TidyDocument
    <3>3. ASSUME doc.budget[m] > 0, NEW x \in DOMAIN u.rows, x[1] = m PROVE FALSE
      <4>1. u.rows[x].token = t
        BY <2>6, <2>8, <2>9, <3>3, OnePathOnly DEF TidyDocument, Fine, InOrder, MayEnter
      <4>2. CASE x = <<k, s>>
        BY <3>1, <3>2, <3>3, <4>2
      <4>3. CASE x # <<k, s>>
        <5>1. x \in DOMAIN w.rows /\ w.rows[x].token = t
          BY <2>4, <2>5, <4>1, <4>3, PutRow
        <5>2. Reaches(doc, m, k)
          BY <1>1, <3>3, <5>1 DEF MayEnter, LeadsTo
        <5>. QED
          BY <3>2, <5>2
      <4>. QED
        BY <4>2, <4>3
    <3>. HIDE DEF m
    <3>4. ~Exhausted(u, m)
      BY <2>9, <3>1, <3>3, FirstVisit DEF TidyDocument, Fine, Sound
    <3>. QED
      BY <3>4 DEF m
  <2>11. Fine(Enter(u, Exit(k), s + 1, t))
    BY <2>6, <2>8, <2>9, <2>10, EnterSucceeds
  <2>. QED
    BY <2>1, <2>11 DEF v
<1>. QED
  BY <1>6, <1>7

(* A node run that changes stays where it is.                                   *)
LEMMA FineChange ==
  ASSUME NEW w, Fine(w), NEW v, v.ok, Sound(doc, v), Keeps(w, v), DOMAIN v.rows = DOMAIN w.rows,
         \A x \in DOMAIN w.rows : v.rows[x].token = w.rows[x].token /\ v.rows[x].iteration = w.rows[x].iteration
  PROVE  Fine(v)
<1>1. Placed(doc, v)
  BY PlacedStays DEF Fine, InOrder
<1>2. Numbered(doc, v)
  BY NumberedStays DEF Fine, InOrder
<1>. QED
  BY <1>1, <1>2 DEF Fine, InOrder

(* The join is looked at, and when it succeeds its path goes on.                *)
LEMMA JoinSucceeds ==
  ASSUME TidyDocument, NEW w, Fine(w), NEW f, AtJoin(doc, w, f)
  PROVE  Fine(EvaluateJoin(w, f))
<1>. DEFINE u == WithJoinRow(w, f)
            j == JoinAt(doc, f)
            s == Verdict(f, u.tokens)
            x == Decided(u, j, s)
            v == EvaluateJoin(w, f)
<1>1. Fine(u) /\ u.ok /\ Sound(doc, u)
  BY JoinRowSucceeds DEF Fine
<1>2. j \in DOMAIN u.rows /\ u.rows[j].fork = f[2] /\ AtJoin(doc, u, f)
  BY <1>1, JoinsMeet DEF TidyDocument, Fine
<1>3. v = IF u.rows[j].state # "WAITING" \/ s = "WAITING" THEN u
          ELSE IF s = "FAILED" THEN FailJoin(u, j)
          ELSE IF Cancelled THEN Complete(u, j, "ok") ELSE Route(Complete(u, j, "ok"), j, "ok")
  BY <1>1, EvaluateJoinIs
<1>4. doc.type[j[1]] # "FORK"
  <2>1. f[1] \in NodesOfType(doc, "FORK")
    BY DEF AtJoin, IsFork, Fine, Sound, WellFormed, NodesOfType
  <2>. QED
    BY <2>1, JoinsOfForks DEF TidyDocument
<1>. HIDE DEF u, j, s, v
<1>5. CASE u.rows[j].state # "WAITING" \/ s = "WAITING"
  BY <1>1, <1>3, <1>5 DEF v
<1>6. CASE u.rows[j].state = "WAITING" /\ s # "WAITING"
  <2>. HIDE DEF x
  <2>1. /\ s \in {"FAILED", "SUCCEEDED"}
        /\ x.ok = u.ok /\ Sound(doc, x) /\ Keeps(u, x) /\ DOMAIN x.rows = DOMAIN u.rows
        /\ \A y \in DOMAIN u.rows :
             x.rows[y].token = u.rows[y].token /\ x.rows[y].iteration = u.rows[y].iteration
        /\ s = "FAILED" => x = FailJoin(u, j)
        /\ s = "SUCCEEDED" => x = Complete(u, j, "ok") /\ CanRoute(doc, x, j, "ok")
    <3>1. j = JoinAt(doc, f) /\ s = Verdict(f, u.tokens) /\ IsDocument(doc) /\ Accepted(doc)
      BY DEF j, s, TidyDocument
    <3>2. Sound(doc, x) /\ Keeps(u, x) /\ DOMAIN x.rows = DOMAIN u.rows
      BY <1>1, <1>2, <1>6, <3>1, JoinDecides DEF x
    <3>3. x.ok = u.ok
      BY DEF x, Decided, RowSet
    <3>4. \A y \in DOMAIN u.rows :
            x.rows[y].token = u.rows[y].token /\ x.rows[y].iteration = u.rows[y].iteration
      BY <1>1, <1>2, <1>6, <3>1, JoinDecides DEF x
    <3>5. /\ s \in {"FAILED", "SUCCEEDED"}
          /\ s = "FAILED" => x = FailJoin(u, j)
          /\ s = "SUCCEEDED" => x = Complete(u, j, "ok") /\ CanRoute(doc, x, j, "ok")
      BY <1>1, <1>2, <1>6, <3>1, JoinDecides DEF x
    <3>. QED
      BY <3>2, <3>3, <3>4, <3>5
  <2>2. Fine(x)
    BY <1>1, <2>1, FineChange
  <2>3. CASE v = x
    BY <2>2, <2>3 DEF v
  <2>4. CASE v # x
    <3>1. v = Route(x, j, "ok") /\ CanRoute(doc, x, j, "ok")
      BY <1>3, <1>6, <2>1, <2>4
    <3>2. Fine(Route(x, j, "ok"))
      BY <1>4, <2>2, <3>1, RouteSucceeds
    <3>. QED
      BY <3>1, <3>2 DEF v
  <2>. QED
    BY <2>3, <2>4
<1>. QED
  BY <1>5, <1>6

(* A node run ends, and its token may settle with it.                           *)
LEMMA EndSucceeds ==
  ASSUME TidyDocument, Fine(World), NEW id, Working(id), NEW q, Ending(id, q),
         NEW us, OnlyToken(q.token, us)
  PROVE  Fine(RowSet(World, id, q, us))
<1>. DEFINE x == RowSet(World, id, q, us)
<1>1. IsDocument(doc) /\ Accepted(doc) /\ Sound(doc, World) /\ World.ok /\ id \in DOMAIN rows
  BY DEF TidyDocument, Fine, Working
<1>2. /\ x.rows[id] = q /\ DOMAIN x.rows = DOMAIN rows
      /\ \A y \in DOMAIN rows : y # id => x.rows[y] = rows[y]
  BY <1>1, WorldIs DEF RowSet
<1>. HIDE DEF x
<1>3. Sound(doc, x) /\ Keeps(World, x) /\ x.ok = TRUE
  BY <1>1, RowEnds DEF x
<1>4. \A y \in DOMAIN World.rows :
        x.rows[y].token = World.rows[y].token /\ x.rows[y].iteration = World.rows[y].iteration
  BY <1>2, WorldIs DEF Ending
<1>. QED
  BY <1>2, <1>3, <1>4, WorldIs, FineChange DEF x

(* ... and its branch with it, if it belongs to one.                            *)
LEMMA SettleSucceeds ==
  ASSUME TidyDocument, Fine(World), NEW id, Working(id), NEW q, Ending(id, q),
         NEW s \in {"SUCCEEDED", "FAILED", "CANCELLED"}
  PROVE  Fine(Settle(RowSet(World, id, q, tokens), q.token, s))
<1>. DEFINE u == RowSet(World, id, q, tokens)
            t == q.token
            v == Settle(u, t, s)
<1>0. IsDocument(doc) /\ Accepted(doc) /\ Sound(doc, World) /\ World.ok
  BY DEF TidyDocument, Fine
<1>1. tokens \in [DOMAIN tokens -> TokenStates] /\ rows \in [DOMAIN rows -> Columns(DOMAIN tokens)]
  BY <1>0, WorldIs DEF Sound, WellFormed
<1>2. \A us : OnlyToken(t, us) => Fine(RowSet(World, id, q, us))
  BY EndSucceeds
<1>3. CASE t = NoToken
  <2>1. v = u
    BY <1>3 DEF Settle
  <2>2. OnlyToken(t, tokens)
    BY <1>1 DEF TokensFollow, OnlyToken
  <2>. QED
    BY <1>2, <2>1, <2>2
<1>4. CASE t # NoToken
  <2>. DEFINE us == [tokens EXCEPT ![t] = s]
              x == RowSet(World, id, q, us)
              f == ForkOf(t)
  <2>1. t = rows[id].token /\ t \in DOMAIN tokens /\ tokens[t] = "ACTIVE"
    BY <1>0, <1>1, <1>4, WorldIs DEF Ending, Columns, Working, Sound, BranchesLieWithin
  <2>2. v = EvaluateJoin(x, f)
    <3>1. [u EXCEPT !.tokens[t] = s] = x
      BY DEF RowSet
    <3>2. v = EvaluateJoin([u EXCEPT !.tokens[t] = s], f)
      BY <1>4 DEF Settle
    <3>. QED
      BY <3>1, <3>2
  <2>3. OnlyToken(t, us)
    <3>1. s \in TokenStates /\ s # "ACTIVE"
      BY DEF TokenStates
    <3>2. DOMAIN us = DOMAIN tokens /\ us[t] = s /\ \A p \in DOMAIN tokens : p # t => us[p] = tokens[p]
      BY <2>1
    <3>3. us \in [DOMAIN us -> TokenStates]
      BY <1>1, <2>1, <3>1
    <3>. HIDE DEF us
    <3>. QED
      BY <2>1, <3>1, <3>2, <3>3 DEF OnlyToken, TokensFollow
  <2>. HIDE DEF us, u, v
  <2>4. Fine(x)
    BY <1>2, <2>3
  <2>5. AtJoin(doc, x, f)
    <3>1. IsFork(doc, World, f) /\ f[2] = t[1]
      BY <1>0, <2>1, ForkOfToken
    <3>2. t \in DOMAIN World.tokens /\ World.tokens[t] = "ACTIVE"
      BY <2>1, WorldIs
    <3>. HIDE DEF f
    <3>3. AtJoin(doc, World, f)
      BY <1>0, <3>1, <3>2, AwaitedJoin
    <3>. HIDE DEF t, x
    <3>. QED
      BY <1>0, <2>3, <3>3, RowEnds DEF x, t
  <2>. HIDE DEF f, x
  <2>. QED
    BY <2>2, <2>4, <2>5, JoinSucceeds DEF v, u, t
<1>. QED
  BY <1>3, <1>4

-----------------------------------------------------------------------------
(* Transactions succeed. *)

(* advanceRunTx on a node run whose answer, if it waited for one, is q's.  No   *)
(* budget that is used up is without an exit.                                   *)
LEMMA AdvanceSucceeds ==
  ASSUME TidyDocument, Fine(World), NEW id, Working(id), NEW q, Answered(id, q),
         NEW o \in DOMAIN doc.edge[id[1]]
  PROVE  Fine(Advance(RowSet(World, id, q, tokens), id, o))
<1>. DEFINE w == RowSet(World, id, q, tokens)
            p == [q EXCEPT !.state = "SUCCEEDED", !.outcome = o]
            u == RowSet(World, id, p, tokens)
            k == doc.edge[id[1]][o]
            v == Advance(w, id, o)
            t == q.token
<1>0. IsDocument(doc) /\ Accepted(doc) /\ Sound(doc, World)
  BY DEF TidyDocument, Fine
<1>1. tokens \in [DOMAIN tokens -> TokenStates] /\ rows \in [DOMAIN rows -> Columns(DOMAIN tokens)]
  BY <1>0, WorldIs DEF Sound, WellFormed
<1>2. id \in DOMAIN rows /\ id[1] \in DOMAIN doc.type /\ doc.type[id[1]] \notin {"FORK", "JOIN", "END"}
  BY <1>0, WorldIs DEF Working, Sound, WellFormed, Type
<1>3. Complete(w, id, o) = u
  BY <1>0, <1>2, AnsweredRow
<1>4. w.rows[id] = q
  BY <1>2, WorldIs DEF RowSet
<1>5. o \in Outcomes /\ k \in DOMAIN doc.type
  BY <1>0, <1>2, EdgeReaches DEF IsDocument
<1>6. Ending(id, p) /\ p.token = t /\ p.state = "SUCCEEDED"
  BY <1>5 DEF Ending, Answered, Columns, Open, States
<1>. HIDE DEF w, p
<1>7. v = IF t # NoToken /\ doc.type[k] = "JOIN" THEN Settle(u, t, "SUCCEEDED")
          ELSE IF Cancelled THEN u
          ELSE IF RoutingDefect(w, k) THEN [w EXCEPT !.ok = FALSE]
          ELSE Route(u, id, o)
  BY <1>3, <1>4 DEF Advance
<1>8. ~RoutingDefect(w, k)
  <2>. HIDE DEF k
  <2>. QED
    BY <1>0, <1>5, NoDefect
<1>9. CASE t # NoToken /\ doc.type[k] = "JOIN"
  <2>1. v = Settle(RowSet(World, id, p, tokens), p.token, "SUCCEEDED")
    BY <1>6, <1>7, <1>9
  <2>. HIDE DEF v
  <2>. QED
    BY <1>6, <2>1, SettleSucceeds DEF v, w
<1>10. Fine(u)
  <2>1. OnlyToken(p.token, tokens)
    BY <1>1 DEF TokensFollow, OnlyToken
  <2>. HIDE DEF u
  <2>. QED
    BY <1>6, <2>1, EndSucceeds DEF u
<1>11. CASE ~(t # NoToken /\ doc.type[k] = "JOIN") /\ Cancelled
  BY <1>7, <1>10, <1>11 DEF w
<1>12. CASE ~(t # NoToken /\ doc.type[k] = "JOIN") /\ ~Cancelled
  <2>1. v = Route(u, id, o)
    BY <1>7, <1>8, <1>12
  <2>2. CanRoute(doc, u, id, o)
    <3>1. p.token # NoToken => doc.type[doc.edge[id[1]][o]] # "JOIN"
      BY <1>6, <1>12 DEF k
    <3>. QED
      BY <1>0, <1>6, <3>1, GoesOn DEF u
  <2>. HIDE DEF v, u
  <2>3. Fine(Route(u, id, o))
    BY <1>2, <1>10, <2>2, RouteSucceeds
  <2>. QED
    BY <2>1, <2>3 DEF v, w
<1>. QED
  BY <1>9, <1>11, <1>12

(* A task's last attempt fails or is cancelled.                                 *)
LEMMA EndedSucceeds ==
  ASSUME TidyDocument, Fine(World), NEW id \in DOMAIN rows, RunningTask(id), NEW s \in {"FAILED", "CANCELLED"}
  PROVE  Fine(Ended(id, s))
<1>. DEFINE q == EndedRow(id, s)
<1>1. Working(id) /\ Ending(id, q) /\ Ended(id, s) = Settle(RowSet(World, id, q, tokens), q.token, s)
  BY EndedIs DEF Fine
<1>. HIDE DEF q
<1>. QED
  BY <1>1, SettleSucceeds

(* A cancelled run can be swept.                                                *)
LEMMA SweepSucceeds ==
  ASSUME TidyDocument, Fine(World), NEW joinFirst \in BOOLEAN
  PROVE  Fine(Swept(joinFirst))
<1>1. IsDocument(doc) /\ Accepted(doc) /\ Sound(doc, World)
  BY DEF TidyDocument, Fine
<1>2. PICK w : /\ Follows(doc, World, w) /\ Keeps(World, w) /\ w.ok = TRUE
               /\ SweptFrom(w, joinFirst)
  BY <1>1, SweepFollows
<1>3. Sound(doc, w) /\ DOMAIN w.rows = DOMAIN World.rows
  BY <1>1, <1>2, FollowsOn
<1>4. \A x \in DOMAIN World.rows :
        w.rows[x].token = World.rows[x].token /\ w.rows[x].iteration = World.rows[x].iteration
  BY <1>2 DEF Follows, RowFollows
<1>5. Fine(w)
  BY <1>2, <1>3, <1>4, FineChange
<1>. QED
  BY <1>2, <1>5, JoinSucceeds DEF SweptFrom

-----------------------------------------------------------------------------
(* The runs of a tidy document. *)

(* Changing a registration's state changes one column of one node run.          *)
LEMMA RegIs ==
  ASSUME Sound(doc, World), NEW id \in DOMAIN rows, NEW g
  PROVE  [World EXCEPT !.rows[id].reg = g] = RowSet(World, id, [rows[id] EXCEPT !.reg = g], tokens)
<1>. DEFINE q == [rows[id] EXCEPT !.reg = g]
            u == [World EXCEPT !.rows[id].reg = g]
<1>1. u = [World EXCEPT !.rows = [World.rows EXCEPT ![id] = [World.rows[id] EXCEPT !.reg = g]]]
  OBVIOUS
<1>2. u.rows = [rows EXCEPT ![id] = q] /\ u.tokens = tokens /\ u.ok = TRUE
      /\ u = [rows |-> u.rows, tokens |-> u.tokens, ok |-> u.ok]
  <2>. HIDE DEF u
  <2>. QED
    BY <1>1, WorldIs DEF World
<1>. HIDE DEF q
<1>. QED
  BY <1>2, WorldIs DEF RowSet, u

(* advanceRunTx succeeds whether the node run waited for an answer or not.      *)
LEMMA MoveSucceeds ==
  ASSUME TidyDocument, Fine(World), NEW id, Working(id), ~Open(rows[id]), NEW o \in DOMAIN doc.edge[id[1]]
  PROVE  Fine(Advance(World, id, o))
<1>1. id \in DOMAIN rows
  BY DEF Working
<1>2. Answered(id, rows[id])
  BY <1>1, WorldIs DEF Fine, Sound, WellFormed, Answered
<1>3. RowSet(World, id, rows[id], tokens) = World
  BY <1>1, RowSetHere DEF Fine
<1>4. Fine(Advance(RowSet(World, id, rows[id], tokens), id, o))
  BY <1>2, AdvanceSucceeds
<1>. QED
  BY <1>3, <1>4

LEMMA ReplySucceeds ==
  ASSUME TidyDocument, Fine(World), NEW id, Working(id), NEW o \in DOMAIN doc.edge[id[1]],
         NEW g \in Answers \ {"OPEN"}, NEW tm \in {"NONE", "SET", "DONE", "DEAD"}
  PROVE  Fine(Advance(ClosedIn(id, g, tm), id, o))
<1>. DEFINE q == ClosedRow(id, g, tm)
            u == ClosedIn(id, g, tm)
<1>1. id \in DOMAIN rows /\ rows[id] \in Columns(DOMAIN tokens)
  BY WorldIs DEF Fine, Sound, WellFormed, Working
<1>2. Answered(id, q)
  BY <1>1 DEF Answered, Columns, Open, ClosedRow
<1>3. u = RowSet(World, id, q, tokens)
  BY <1>1, ClosedIs DEF Fine
<1>. HIDE DEF u, q
<1>. QED
  BY <1>2, <1>3, AdvanceSucceeds DEF u

(* A live node run that is no join's can work.                                  *)
LEMMA LiveWorks ==
  ASSUME Sound(doc, World), NEW id \in DOMAIN rows, Live(rows[id]), Type(id) # "JOIN"
  PROVE  Working(id)
BY WorldIs DEF Sound, OuterOnly, Working, Live, Type

(* The inductive invariant with places, and what the next transaction does.     *)
OrderInv == GraphInv /\ (Tidy(doc) => InOrder(doc, World))

LEMMA OrderIsFine ==
  ASSUME OrderInv, Tidy(doc)
  PROVE  TidyDocument /\ Fine(World)
BY WorldIs DEF OrderInv, GraphInv, TidyDocument, Fine

LEMMA OrderMeansCommits ==
  ASSUME OrderInv, Tidy(doc)
  PROVE  NextStepCommits
<1>1. TidyDocument /\ Fine(World) /\ Sound(doc, World)
  BY OrderIsFine DEF Fine
<1>2. ASSUME NEW id \in DOMAIN rows, Live(rows[id]), Type(id) # "JOIN", NEW o \in DOMAIN doc.edge[id[1]]
      PROVE  Advance([World EXCEPT !.rows[id].reg = IF @ = "OPEN" THEN "CONSUMED" ELSE @], id, o).ok
  <2>. DEFINE g == IF rows[id].reg = "OPEN" THEN "CONSUMED" ELSE rows[id].reg
              q == [rows[id] EXCEPT !.reg = g]
              u == [World EXCEPT !.rows[id].reg = g]
  <2>1. [World EXCEPT !.rows[id].reg = IF @ = "OPEN" THEN "CONSUMED" ELSE @] = u
    BY WorldIs
  <2>2. Working(id) /\ rows[id] \in Columns(DOMAIN tokens)
    BY <1>1, <1>2, LiveWorks, WorldIs DEF Sound, WellFormed
  <2>3. g \in Answers \ {"OPEN"}
    BY <2>2 DEF Columns, Answers
  <2>. HIDE DEF g
  <2>4. Answered(id, q)
    BY <2>2, <2>3 DEF Answered, Columns, Open
  <2>5. u = RowSet(World, id, q, tokens)
    BY <1>1, RegIs
  <2>. HIDE DEF q, u
  <2>6. Fine(Advance(u, id, o))
    BY <1>1, <1>2, <2>2, <2>4, <2>5, AdvanceSucceeds
  <2>. QED
    BY <2>1, <2>6 DEF Fine
<1>3. ASSUME NEW id \in DOMAIN rows, RunningTask(id), NEW s \in {"FAILED", "CANCELLED"}
      PROVE  Ended(id, s).ok
  BY <1>1, <1>3, EndedSucceeds DEF Fine
<1>4. ASSUME NEW joinFirst \in BOOLEAN PROVE Swept(joinFirst).ok
  BY <1>1, <1>4, SweepSucceeds DEF Fine
<1>. QED
  BY <1>2, <1>3, <1>4 DEF NextStepCommits

(* Places are of node runs only: a transaction that commits leaves them.        *)
LEMMA CommitKeepsOrder ==
  ASSUME NEW v, Fine(v), Commit(v), doc' = doc
  PROVE  InOrder(doc, World)'
<1>1. rows' = v.rows
  BY DEF Commit
<1>2. PICK x : x = World'
  OBVIOUS
<1>3. x.rows = v.rows
  BY <1>1, <1>2 DEF World
<1>4. Placed(doc, x)
  BY <1>3 DEF Fine, InOrder, Placed, Places, IsFork
<1>5. Numbered(doc, x)
  BY <1>3 DEF Fine, InOrder, Numbered
<1>6. InOrder(doc, x)
  BY <1>4, <1>5 DEF InOrder
<1>. QED
  BY <1>2, <1>6

(* A change that begins no node run and ends none leaves them as well.          *)
LEMMA ChangeKeepsOrder ==
  ASSUME InOrder(doc, World), NEW id \in DOMAIN rows,
         NEW q, q.token = rows[id].token, q.iteration = rows[id].iteration,
         rows[id].state = "SKIPPED" => q.state = "SKIPPED",
         q.state = rows[id].state \/ Type(id) # "FORK",
         rows' = [rows EXCEPT ![id] = q], doc' = doc
  PROVE  InOrder(doc, World)'
<1>1. PICK x : x = World'
  OBVIOUS
<1>2. x.rows = [rows EXCEPT ![id] = q]
  BY <1>1 DEF World
<1>3. /\ DOMAIN x.rows = DOMAIN rows
      /\ \A y \in DOMAIN rows :
           /\ x.rows[y].token = rows[y].token /\ x.rows[y].iteration = rows[y].iteration
           /\ rows[y].state = "SKIPPED" => x.rows[y].state = "SKIPPED"
      /\ \A y \in DOMAIN rows : Type(y) = "FORK" => x.rows[y].state = rows[y].state
  BY <1>2
<1>4. \A f \in DOMAIN World.rows : IsFork(doc, World, f) => IsFork(doc, x, f)
  BY <1>3, WorldIs DEF IsFork, Type
<1>5. Placed(doc, x)
  <2>. SUFFICES ASSUME NEW y \in DOMAIN x.rows PROVE Places(doc, x, y, x.rows[y].token)
    BY DEF Placed
  <2>1. Places(doc, World, y, x.rows[y].token)
    BY <1>3, WorldIs DEF InOrder, Placed
  <2>. QED
    BY <1>4, <2>1, PlacesStayWithForks
<1>6. Numbered(doc, x)
  <2>1. \A y, z \in DOMAIN rows : y[1] = z[1] /\ rows[y].iteration = rows[z].iteration => y = z
    BY WorldIs DEF InOrder, Numbered
  <2>2. \A y \in DOMAIN rows : doc.budget[y[1]] > 0 /\ rows[y].state # "SKIPPED" =>
          rows[y].iteration <= doc.budget[y[1]]
    BY WorldIs DEF InOrder, Numbered
  <2>3. \A y, z \in DOMAIN x.rows : y[1] = z[1] /\ x.rows[y].iteration = x.rows[z].iteration => y = z
    BY <1>3, <2>1
  <2>4. \A y \in DOMAIN x.rows : doc.budget[y[1]] > 0 /\ x.rows[y].state # "SKIPPED" =>
          x.rows[y].iteration <= doc.budget[y[1]]
    <3>. SUFFICES ASSUME NEW y \in DOMAIN x.rows, doc.budget[y[1]] > 0, x.rows[y].state # "SKIPPED"
                  PROVE  x.rows[y].iteration <= doc.budget[y[1]]
      OBVIOUS
    <3>1. y \in DOMAIN rows /\ rows[y].iteration = x.rows[y].iteration
      BY <1>3
    <3>2. rows[y].state # "SKIPPED"
      BY <1>3, <3>1
    <3>. QED
      BY <2>2, <3>1, <3>2
  <2>. QED
    BY <2>3, <2>4 DEF Numbered
<1>7. InOrder(doc, x)
  BY <1>5, <1>6 DEF InOrder
<1>. QED
  BY <1>1, <1>7

(* Every step of a run of a tidy document leaves node runs placed.              *)
LEMMA StepKeepsOrder ==
  ASSUME OrderInv, Tidy(doc), [Next]_vars
  PROVE  InOrder(doc, World)'
<1>1. TidyDocument /\ Fine(World) /\ Sound(doc, World) /\ InOrder(doc, World) /\ GraphInv
  BY OrderIsFine DEF Fine, OrderInv
<1>2. CASE UNCHANGED vars
  <2>1. UNCHANGED <<doc, run, intent, rows, tokens>>
    BY <1>2 DEF vars
  <2>2. World' = World
    BY <2>1 DEF World
  <2>3. PICK x : x = World'
    OBVIOUS
  <2>. QED
    BY <1>1, <2>1, <2>2, <2>3
<1>3. ASSUME NEW id \in DOMAIN rows, NEW o, rows[id].state = "RUNNING", Type(id) \in {"START", "ROUTER", "TASK"},
             o \in DOMAIN doc.edge[id[1]], Commit(Advance(World, id, o)), doc' = doc
      PROVE  InOrder(doc, World)'
  <2>1. Working(id)
    BY <1>3 DEF Working, Live
  <2>2. ~Open(rows[id])
    BY <1>1, <1>3, WorldIs DEF Sound, OpenWhileWaiting
  <2>3. Fine(Advance(World, id, o))
    BY <1>1, <1>3, <2>1, <2>2, MoveSucceeds
  <2>. QED
    BY <1>3, <2>3, CommitKeepsOrder
<1>4. ASSUME NEW id \in DOMAIN rows, RunningTask(id), NEW s \in {"FAILED", "CANCELLED"},
             Commit(Ended(id, s)), doc' = doc
      PROVE  InOrder(doc, World)'
  BY <1>1, <1>4, EndedSucceeds, CommitKeepsOrder
<1>5. ASSUME NEW id \in DOMAIN rows, Open(rows[id]), NEW g \in Answers \ {"NONE", "OPEN"},
             NEW o, o \in DOMAIN doc.edge[id[1]], NEW tm \in {"NONE", "SET", "DONE", "DEAD"},
             Answer(id, g, o, tm), doc' = doc
      PROVE  InOrder(doc, World)'
  <2>1. Live(rows[id]) /\ Type(id) # "JOIN"
    BY <1>1, <1>5, RowIs DEF Live, Type, Registering
  <2>2. Working(id)
    BY <1>1, <2>1, LiveWorks
  <2>3. Fine(Advance(ClosedIn(id, g, tm), id, o))
    BY <1>1, <1>5, <2>2, ReplySucceeds
  <2>4. Commit(Advance(ClosedIn(id, g, tm), id, o))
    BY <1>5 DEF Answer, ClosedIn
  <2>. QED
    BY <1>5, <2>3, <2>4, CommitKeepsOrder
<1>6. ASSUME NEW id \in DOMAIN rows, AdvanceRun(id) PROVE InOrder(doc, World)'
  <2>1. rows[id].state = "RUNNING" /\ Type(id) \in {"START", "ROUTER"}
        /\ Commit(Advance(World, id, "ok")) /\ doc' = doc
    BY <1>6 DEF AdvanceRun, Structural
  <2>2. id[1] \in DOMAIN doc.type
    BY <1>1, WorldIs DEF Sound, WellFormed
  <2>3. "ok" \in DOMAIN doc.edge[id[1]]
    BY <1>1, <2>1, <2>2, FirstOutcome DEF TidyDocument
  <2>. QED
    BY <1>3, <2>1, <2>3
<1>7. ASSUME NEW id \in DOMAIN rows, NEW o, FinishTask(id, o) PROVE InOrder(doc, World)'
  BY <1>3, <1>7 DEF FinishTask, RunningTask, Selectable
<1>8. ASSUME NEW id \in DOMAIN rows, StartTask(id) PROVE InOrder(doc, World)'
  <2>. DEFINE q == [rows[id] EXCEPT !.state = "RUNNING"]
  <2>1. Type(id) # "FORK" /\ rows' = [rows EXCEPT ![id] = q] /\ doc' = doc
    BY <1>8 DEF StartTask
  <2>2. q.token = rows[id].token /\ q.iteration = rows[id].iteration /\ rows[id].state # "SKIPPED"
    BY <1>8 DEF StartTask
  <2>. HIDE DEF q
  <2>. QED
    BY <1>1, <2>1, <2>2, ChangeKeepsOrder
<1>9. ASSUME NEW id \in DOMAIN rows, NEW tm, rows' = [rows EXCEPT ![id].timer = tm], doc' = doc
      PROVE  InOrder(doc, World)'
  <2>. DEFINE q == [rows[id] EXCEPT !.timer = tm]
  <2>1. rows' = [rows EXCEPT ![id] = q]
    BY <1>9
  <2>2. q.token = rows[id].token /\ q.iteration = rows[id].iteration /\ q.state = rows[id].state
    OBVIOUS
  <2>. HIDE DEF q
  <2>. QED
    BY <1>1, <1>9, <2>1, <2>2, ChangeKeepsOrder
<1>10. ASSUME NEW id \in DOMAIN rows, SignalWait(id) PROVE InOrder(doc, World)'
  <2>1. Open(rows[id]) /\ Answer(id, "CONSUMED", "ok", rows[id].timer) /\ doc' = doc
    BY <1>10 DEF SignalWait
  <2>. QED
    BY <1>1, <1>5, <2>1, OpenRow DEF Answers
<1>11. ASSUME NEW id \in DOMAIN rows, NEW o, ResolveApproval(id, o) PROVE InOrder(doc, World)'
  <2>1. Open(rows[id]) /\ o \in DOMAIN doc.edge[id[1]] /\ Answer(id, "DECIDED", o, rows[id].timer) /\ doc' = doc
    BY <1>11 DEF ResolveApproval
  <2>. QED
    BY <1>1, <1>5, <2>1, OpenRow DEF Answers
<1>12. ASSUME NEW id \in DOMAIN rows, TimerFires(id) PROVE InOrder(doc, World)'
  <2>1. PICK tm \in {"SET", "DONE"} : Answer(id, Expired(id), TimerOutcome(id), tm)
    BY <1>12 DEF TimerFires
  <2>2. Open(rows[id]) /\ doc' = doc
    BY <1>12 DEF TimerFires, TimerDue
  <2>3. Type(id) \in Registering /\ "ok" \in DOMAIN doc.edge[id[1]]
    BY <1>1, <2>2, OpenRow
  <2>4. Expired(id) \in Answers \ {"NONE", "OPEN"}
    BY <2>3 DEF Expired, Answers, Registering
  <2>5. TimerOutcome(id) \in DOMAIN doc.edge[id[1]]
    BY <2>3 DEF TimerOutcome
  <2>. QED
    BY <1>5, <2>1, <2>2, <2>4, <2>5
<1>13. ASSUME CoordinatorSweep PROVE InOrder(doc, World)'
  <2>1. PICK joinFirst \in BOOLEAN : Commit(Swept(joinFirst))
    BY <1>13 DEF CoordinatorSweep
  <2>2. doc' = doc
    BY <1>13 DEF CoordinatorSweep
  <2>. QED
    BY <1>1, <2>1, <2>2, SweepSucceeds, CommitKeepsOrder
<1>14. ASSUME CancelRun PROVE InOrder(doc, World)'
  <2>1. doc' = doc /\ rows' = rows /\ tokens' = tokens
    BY <1>14 DEF CancelRun
  <2>2. World' = World
    BY <2>1 DEF World
  <2>3. PICK x : x = World'
    OBVIOUS
  <2>. QED
    BY <1>1, <2>1, <2>2, <2>3
<1>15. CASE Next
  <2>1. ASSUME NEW id \in DOMAIN rows, FailTask(id) PROVE InOrder(doc, World)'
    BY <1>4, <2>1 DEF FailTask
  <2>2. ASSUME NEW id \in DOMAIN rows, CancelTask(id) PROVE InOrder(doc, World)'
    BY <1>4, <2>2 DEF CancelTask
  <2>3. ASSUME NEW id \in DOMAIN rows, TimerFiresLate(id) PROVE InOrder(doc, World)'
    BY <1>9, <2>3 DEF TimerFiresLate
  <2>4. ASSUME NEW id \in DOMAIN rows, TimerDies(id) PROVE InOrder(doc, World)'
    BY <1>9, <2>4 DEF TimerDies
  <2>. QED
    BY <1>6, <1>7, <1>8, <1>10, <1>11, <1>12, <1>13, <1>14, <1>15, <2>1, <2>2, <2>3, <2>4 DEF Next
<1>. QED
  BY <1>2, <1>15

(* A run begins at START, on the outer path.                                    *)
LEMMA BegunInOrder ==
  ASSUME Init
  PROVE  InOrder(doc, World)
<1>. DEFINE K == NodesOfType(doc, "START") \union NodesOfType(doc, "JOIN")
<1>1. IsDocument(doc)
  BY GraphAssumption DEF Init
<1>2. K \in SUBSET DOMAIN doc.type
  BY DEF NodesOfType
<1>3. OuterNodes(doc) = Closure(doc, K, {"FORK"})
  BY DEF OuterNodes
<1>4. NodesOfType(doc, "START") \subseteq K
  OBVIOUS
<1>. HIDE DEF K
<1>5. NodesOfType(doc, "START") \subseteq OuterNodes(doc)
  BY <1>1, <1>2, <1>3, <1>4, ClosureIsClosed
<1>. DEFINE r == Row("RUNNING", 0, NoToken, "NONE")
<1>6. rows = [id \in NodesOfType(doc, "START") \X {1} |-> r]
  BY DEF Init
<1>7. r.token = NoToken /\ r.iteration = 0
  BY DEF Row
<1>. HIDE DEF r
<1>8. Placed(doc, World)
  BY <1>5, <1>6, <1>7, WorldIs DEF Placed, Places
<1>9. Numbered(doc, World)
  <2>1. PICK k : NodesOfType(doc, "START") = {k}
    <3>1. Cardinality(NodesOfType(doc, "START")) = 1
      BY DEF Init, Accepted
    <3>2. IsFiniteSet(NodesOfType(doc, "START"))
      <4>1. NodesOfType(doc, "START") \in SUBSET DOMAIN doc.type
        BY DEF NodesOfType
      <4>. QED
        BY <1>1, <4>1, FS_Subset DEF IsDocument
    <3>. QED
      BY <3>1, <3>2, FS_Singleton
  <2>2. \A x, y \in DOMAIN rows : x = y
    BY <1>6, <2>1
  <2>3. doc.budget \in [DOMAIN doc.type -> Nat] /\ \A x \in DOMAIN rows : x[1] \in DOMAIN doc.type
    BY <1>1, <1>6 DEF IsDocument, NodesOfType
  <2>4. \A x \in DOMAIN rows : rows[x].iteration <= doc.budget[x[1]]
    BY <1>6, <1>7, <2>3
  <2>. QED
    BY <2>2, <2>4, WorldIs DEF Numbered
<1>. QED
  BY <1>8, <1>9 DEF InOrder

(* In a run of a tidy document node runs stay in order.                         *)
LEMMA OrderIsKept == Spec => []OrderInv
<1>1. Init => OrderInv
  BY Begun, BegunInOrder DEF OrderInv
<1>2. OrderInv /\ [Next]_vars => OrderInv'
  <2>. SUFFICES ASSUME OrderInv, [Next]_vars PROVE OrderInv'
    OBVIOUS
  <2>1. GraphInv'
    BY EveryStep DEF OrderInv
  <2>2. doc' = doc
    BY DEF Next, vars, AdvanceRun, StartTask, FailTask, CancelTask, SignalWait, TimerFires, TimerFiresLate,
           TimerDies, FinishTask, ResolveApproval, CancelRun, CoordinatorSweep
  <2>3. Tidy(doc)' => Tidy(doc)
    BY <2>2
  <2>4. Tidy(doc)' => InOrder(doc, World)'
    BY <2>3, StepKeepsOrder
  <2>. QED
    BY <2>1, <2>4 DEF OrderInv
<1>. QED
  BY <1>1, <1>2, PTL DEF Spec

(* As many iterations as a budget allows are as many node runs.                 *)
LEMMA OrderKeepsBudgets ==
  ASSUME OrderInv, Tidy(doc)
  PROVE  BudgetIsKept
<1>. SUFFICES ASSUME NEW k \in DOMAIN doc.type, doc.budget[k] > 0
              PROVE  Cardinality(Rounds(k)) <= doc.budget[k] + 1
  BY DEF BudgetIsKept
<1>1. doc.budget[k] \in Nat
  BY DEF OrderInv, GraphInv, IsDocument
<1>2. /\ \A x, y \in DOMAIN rows : x[1] = y[1] /\ rows[x].iteration = rows[y].iteration => x = y
      /\ \A x \in DOMAIN rows : doc.budget[x[1]] > 0 /\ rows[x].state # "SKIPPED" =>
           rows[x].iteration <= doc.budget[x[1]]
      /\ \A x \in DOMAIN rows : rows[x].iteration \in Nat
  BY WorldIs DEF OrderInv, InOrder, Numbered, GraphInv, Sound, WellFormed, Columns
<1>. DEFINE R == Rounds(k)
            I == 0..doc.budget[k]
            f == [x \in R |-> rows[x].iteration]
<1>3. f \in Injection(R, I)
  <2>1. \A x \in R : x \in DOMAIN rows /\ x[1] = k /\ rows[x].iteration \in I
    BY <1>1, <1>2 DEF Rounds
  <2>. HIDE DEF R, I
  <2>2. f \in [R -> I]
    BY <2>1
  <2>3. \A x, y \in R : f[x] = f[y] => x = y
    BY <1>2, <2>1
  <2>. HIDE DEF f
  <2>. QED
    BY <2>2, <2>3 DEF Injection, IsInjective
<1>4. IsFiniteSet(I) /\ Cardinality(I) = doc.budget[k] + 1
  BY <1>1, FS_Interval
<1>5. Cardinality(R) <= Cardinality(I)
  <2>. HIDE DEF R, I, f
  <2>. QED
    BY <1>3, <1>4, FS_Injection
<1>. QED
  BY <1>4, <1>5

(* Whatever comes next in a run of a tidy document, its transaction can commit: *)
(* routing never inserts a node run that is there, a used up budget always has  *)
(* an exit, and neither the end of an execution nor the sweep of a cancelled    *)
(* run fails.                                                                   *)
THEOREM EveryTransactionCommits == Spec => [](Tidy(doc) => NextStepCommits)
<1>1. OrderInv => (Tidy(doc) => NextStepCommits)
  BY OrderMeansCommits
<1>. QED
  BY <1>1, OrderIsKept, PTL

(* In a run of a tidy document cycles end: no node is entered more often than   *)
(* its budget allows, not as the first of a branch and not as another node's    *)
(* exit either, where the runtime does not look at the budget, and the exit of  *)
(* an exhausted node does not lead back.                                        *)
THEOREM CyclesEnd == Spec => [](Tidy(doc) => CyclesAreBounded)
<1>1. OrderInv => (Tidy(doc) => CyclesAreBounded)
  BY OrderKeepsBudgets, ExitsAreFinal DEF CyclesAreBounded, OrderInv
<1>. QED
  BY <1>1, OrderIsKept, PTL

=============================================================================
