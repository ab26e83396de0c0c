----------------------------- MODULE RbTreeProofs -----------------------------
(***************************************************************************)
(* Proofs about RbTree, for any number of nodes, any data and intervals.   *)
(*                                                                         *)
(* The laws of a tree are about its links and a function sub that gives    *)
(* each node the set of nodes from it downward: a forest, in order, of     *)
(* which one tree hangs from the root and every other node is alone.  sub  *)
(* is quantified, HasLaws(t, here) says that there is one.  Induction over *)
(* the tree is over sets: Downward, that a set has every node whose        *)
(* children it has, and UpwardInduction.  Recursion gives the recursive    *)
(* functions of the model their values.                                    *)
(*                                                                         *)
(* An operation keeps the laws in two parts.  Its links give a new sub     *)
(* (RotateShape, AttachKeeps, LiftShape, SubstituteShape); its sizes and   *)
(* maxima are those of the new sub except at the nodes above the change,   *)
(* which the walk upward puts right (Stale, RepairUpward).  What a search, *)
(* a list or the loop of in_order yields then follows from the laws.       *)
(***************************************************************************)
EXTENDS RbTree, SequenceTheorems, FiniteSetTheorems, FunctionTheorems, WellFoundedInduction, TLAPS

-----------------------------------------------------------------------------
(* Numbers, recursion.                                                     *)

\* A set that has 0, and with each number the next, has every number.
LEMMA EveryNumber ==
  ASSUME NEW S, 0 \in S, \A n \in Nat : n \in S => n + 1 \in S
  PROVE  Nat \subseteq S
<1> DEFINE R == OpToRel(<, Nat)
<1>1. \A x, y \in Nat : x < y => <<x, y>> \in R
  BY DEF OpToRel
<1>2. IsWellFoundedOn(R, Nat)
  BY NatLessThanWellFounded
<1> HIDE DEF R
<1>3. SUFFICES ASSUME Nat \ S # {} PROVE FALSE
  OBVIOUS
<1>4. PICK x \in Nat \ S : \A y \in Nat \ S : <<y, x>> \notin R
  BY <1>2, <1>3, WFMin, Nat \ S \subseteq Nat
<1>5. x # 0 /\ x - 1 \in Nat /\ x - 1 < x /\ (x - 1) + 1 = x
  OBVIOUS
<1>6. x - 1 \in S
  BY <1>1, <1>4, <1>5
<1> QED
  BY <1>5, <1>6

\* What G makes of a function asks, for x, only for values at arguments that
\* rank below x: then G has a fixed point.
Ranked(G, S, T, rank) ==
  \A f, g \in [S -> T] : \A x \in S :
    (\A y \in S : rank[y] < rank[x] => f[y] = g[y]) => G[f][x] = G[g][x]

HasFixpoint(G, S, T) == \E f \in [S -> T] : f = G[f]

LEMMA Recursion ==
  ASSUME NEW S, NEW T, NEW G \in [[S -> T] -> [S -> T]], T # {},
         NEW N \in Nat, NEW rank \in [S -> 0..N], Ranked(G, S, T, rank)
  PROVE  HasFixpoint(G, S, T)
<1> DEFINE Right(n) == \E f \in [S -> T] : \A x \in S : rank[x] < n => f[x] = G[f][x]
           A == {n \in Nat : Right(n)}
<1>1. 0 \in A
  <2>1. PICK c \in T : TRUE
    OBVIOUS
  <2>2. PICK f \in [S -> T] : TRUE
    BY <2>1, [x \in S |-> c] \in [S -> T]
  <2>3. \A x \in S : ~(rank[x] < 0)
    OBVIOUS
  <2> QED
    BY <2>2, <2>3
<1>2. ASSUME NEW n \in Nat, n \in A PROVE n + 1 \in A
  <2>1. PICK f \in [S -> T] : \A x \in S : rank[x] < n => f[x] = G[f][x]
    BY <1>2
  <2>2. PICK g \in [S -> T] : \A x \in S : g[x] = G[f][x]
    OBVIOUS
  <2>3. ASSUME NEW x \in S, rank[x] < n + 1 PROVE g[x] = G[g][x]
    <3>1. ASSUME NEW y \in S, rank[y] < rank[x] PROVE f[y] = g[y]
      <4>1. rank[y] < n
        BY <2>3, <3>1, rank[x] \in 0..N, rank[y] \in 0..N
      <4> QED
        BY <4>1, <2>1, <2>2
    <3> QED
      BY <3>1, <2>2 DEF Ranked
  <2> QED
    BY <2>2, <2>3
<1>3. N + 1 \in A
  <2> HIDE DEF A
  <2> QED
    BY <1>1, <1>2, EveryNumber
<1>4. PICK f \in [S -> T] : \A x \in S : rank[x] < N + 1 => f[x] = G[f][x]
  BY <1>3
<1>5. \A x \in S : f[x] = G[f][x]
  <2>1. \A x \in S : rank[x] < N + 1
    OBVIOUS
  <2> QED
    BY <1>4, <2>1
<1> QED
  BY <1>5 DEF HasFixpoint

-----------------------------------------------------------------------------
(* The shape of a tree.                                                    *)

Trees ==
  [root : Cells, child : [Sides -> [Cells -> Cells \cup {Null}]], parent : [Cells -> Cells \cup {Null}],
   color : [Cells -> {"RED", "BLACK"}], size : [Cells -> Int], max_high : [Cells -> Nat],
   fault : BOOLEAN]

LinksOK(t) ==
  /\ t \in Trees
  /\ \A n \in Nodes : t.parent[n] \in Cells /\ \A s \in Sides : t.child[s][n] \in Cells

\* sub[n] are the nodes from n downward.  The subtrees below a node are apart,
\* and who is a child has the parent: a node that is not allocated is a tree
\* of its own.
Forest(t, sub) ==
  /\ sub \in [Cells -> SUBSET Nodes] /\ sub[NIL] = {}
  /\ \A n \in Nodes :
       /\ sub[n] = {n} \cup sub[t.child["left"][n]] \cup sub[t.child["right"][n]]
       /\ \A s \in Sides : n \notin sub[t.child[s][n]]
       /\ sub[t.child["left"][n]] \cap sub[t.child["right"][n]] = {}
       /\ \A s \in Sides : t.child[s][n] # NIL => t.parent[t.child[s][n]] = n
       /\ t.parent[n] # NIL => \E s \in Sides : t.child[s][t.parent[n]] = n

LEMMA NodesAreFinite ==
  /\ IsFiniteSet(Nodes) /\ Cardinality(Nodes) \in Nat
  /\ \A s \in SUBSET Nodes : IsFiniteSet(s) /\ Cardinality(s) \in 0..Cardinality(Nodes)
  /\ NIL \notin Nodes /\ Null \notin Nodes /\ Null # NIL
<1>1. IsFiniteSet(Nodes) /\ NIL \notin Nodes /\ Null \notin Nodes /\ Null # NIL
  BY TreeAssumption
<1>2. \A s \in SUBSET Nodes : IsFiniteSet(s) /\ Cardinality(s) <= Cardinality(Nodes)
  BY <1>1, FS_Subset
<1>3. \A s : IsFiniteSet(s) => Cardinality(s) \in Nat
  BY FS_CardinalityType
<1>4. ASSUME NEW s \in SUBSET Nodes PROVE Cardinality(s) \in 0..Cardinality(Nodes)
  BY <1>1, <1>2, <1>3
<1> QED
  BY <1>1, <1>2, <1>3, <1>4

LEMMA InForest ==
  ASSUME NEW t, NEW sub, LinksOK(t), Forest(t, sub), NEW n \in Nodes
  PROVE  /\ n \in sub[n] /\ sub[n] \in SUBSET Nodes
         /\ t.parent[n] \in Cells
         /\ \A s \in Sides : /\ t.child[s][n] \in Cells /\ sub[t.child[s][n]] \in SUBSET Nodes
                             /\ n \notin sub[t.child[s][n]] /\ sub[t.child[s][n]] \subseteq sub[n]
                             /\ t.child[s][n] # NIL => t.parent[t.child[s][n]] = n
         /\ t.parent[n] # NIL => \E s \in Sides : t.child[s][t.parent[n]] = n
         /\ \A m \in sub[n] : m = n \/ \E s \in Sides : m \in sub[t.child[s][n]]
BY DEF LinksOK, Forest, Cells, Sides

LEMMA ChildSmaller ==
  ASSUME NEW t, NEW sub, LinksOK(t), Forest(t, sub), NEW n \in Nodes, NEW s \in Sides
  PROVE  Cardinality(sub[t.child[s][n]]) < Cardinality(sub[n])
<1>1. n \in sub[n] /\ n \notin sub[t.child[s][n]] /\ sub[t.child[s][n]] \subseteq sub[n] /\ sub[n] \in SUBSET Nodes
  BY InForest
<1>2. IsFiniteSet(sub[n]) /\ sub[t.child[s][n]] \in SUBSET Nodes
  BY <1>1, NodesAreFinite
<1>3. Cardinality(sub[t.child[s][n]]) <= Cardinality(sub[n] \ {n})
      /\ Cardinality(sub[n] \ {n}) = Cardinality(sub[n]) - 1 /\ Cardinality(sub[n]) \in Nat
      /\ Cardinality(sub[t.child[s][n]]) \in Nat
  <2>1. sub[t.child[s][n]] \in SUBSET (sub[n] \ {n}) /\ IsFiniteSet(sub[n] \ {n})
    BY <1>1, <1>2, FS_RemoveElement
  <2> QED
    BY <2>1, <1>1, <1>2, FS_Subset, FS_RemoveElement, FS_CardinalityType
<1> QED
  BY <1>3

\* A set that has each node whose children it has, has all nodes.
LEMMA Downward ==
  ASSUME NEW t, NEW sub, LinksOK(t), Forest(t, sub), NEW A, NIL \in A,
         \A n \in Nodes : (\A s \in Sides : t.child[s][n] \in A) => n \in A
  PROVE  Cells \subseteq A
<1> DEFINE B == {k \in Nat : \A n \in Nodes : Cardinality(sub[n]) <= k => n \in A}
<1>1. \A n \in Nodes : Cardinality(sub[n]) \in Nat /\ Cardinality(sub[n]) # 0
  <2>1. ASSUME NEW n \in Nodes PROVE Cardinality(sub[n]) \in Nat /\ Cardinality(sub[n]) # 0
    <3>1. n \in sub[n] /\ IsFiniteSet(sub[n])
      BY InForest, NodesAreFinite
    <3> QED
      BY <3>1, FS_EmptySet, FS_CardinalityType
  <2> QED
    BY <2>1
<1>2. 0 \in B
  BY <1>1
<1>3. ASSUME NEW k \in Nat, k \in B PROVE k + 1 \in B
  <2>1. ASSUME NEW n \in Nodes, Cardinality(sub[n]) <= k + 1 PROVE n \in A
    <3>1. ASSUME NEW s \in Sides PROVE t.child[s][n] \in A
      <4>1. CASE t.child[s][n] = NIL
        BY <4>1
      <4>2. CASE t.child[s][n] # NIL
        <5>1. t.child[s][n] \in Nodes
          BY <4>2, InForest DEF Cells
        <5>2. Cardinality(sub[t.child[s][n]]) <= k
          BY <5>1, <2>1, <1>1, ChildSmaller
        <5> QED
          BY <5>1, <5>2, <1>3
      <4> QED
        BY <4>1, <4>2
    <3> QED
      BY <3>1
  <2> QED
    BY <2>1
<1>4. Nat \subseteq B
  <2> HIDE DEF B
  <2> QED
    BY <1>2, <1>3, EveryNumber
<1> QED
  BY <1>1, <1>4 DEF Cells

\* A set that has each node whose parent it has, has all nodes.
LEMMA UpwardInduction ==
  ASSUME NEW t, NEW sub, LinksOK(t), Forest(t, sub), NEW A,
         \A n \in Nodes : (t.parent[n] # NIL => t.parent[n] \in A) => n \in A
  PROVE  Nodes \subseteq A
<1> DEFINE N == Cardinality(Nodes)
           B == {k \in Nat : \A n \in Nodes : N - Cardinality(sub[n]) <= k => n \in A}
<1>1. N \in Nat /\ \A n \in Nodes : Cardinality(sub[n]) \in 0..N
  BY InForest, NodesAreFinite
<1>2. ASSUME NEW n \in Nodes, t.parent[n] # NIL
      PROVE  t.parent[n] \in Nodes /\ Cardinality(sub[n]) < Cardinality(sub[t.parent[n]])
  <2>1. t.parent[n] \in Nodes /\ \E s \in Sides : t.child[s][t.parent[n]] = n
    BY <1>2, InForest DEF Cells
  <2> QED
    BY <2>1, ChildSmaller
<1> HIDE DEF N
<1>3. 0 \in B
  <2>1. ASSUME NEW n \in Nodes, N - Cardinality(sub[n]) <= 0 PROVE t.parent[n] = NIL
    BY <2>1, <1>1, <1>2
  <2> QED
    BY <2>1
<1>4. ASSUME NEW k \in Nat, k \in B PROVE k + 1 \in B
  <2>1. ASSUME NEW n \in Nodes, N - Cardinality(sub[n]) <= k + 1 PROVE n \in A
    <3>1. ASSUME t.parent[n] # NIL PROVE t.parent[n] \in A
      <4>1. N - Cardinality(sub[t.parent[n]]) <= k
        BY <3>1, <2>1, <1>1, <1>2
      <4> QED
        BY <4>1, <3>1, <1>2, <1>4
    <3> QED
      BY <3>1
  <2> QED
    BY <2>1
<1>5. Nat \subseteq B
  <2> HIDE DEF B
  <2> QED
    BY <1>3, <1>4, EveryNumber
<1>6. \A n \in Nodes : N - Cardinality(sub[n]) \in Nat
  BY <1>1
<1> QED
  BY <1>5, <1>6

\* Recursion over the children, and over the parents.
ByChildren(G, S, T, t) ==
  \A f, g \in [S -> T] : \A n \in S :
    (n # NIL => \A s \in Sides : t.child[s][n] \in S => f[t.child[s][n]] = g[t.child[s][n]])
      => G[f][n] = G[g][n]

ByParent(G, T, t) ==
  \A f, g \in [Cells -> T] : \A n \in Cells :
    (n # NIL => f[t.parent[n]] = g[t.parent[n]]) => G[f][n] = G[g][n]

LEMMA DownRecursion ==
  ASSUME NEW t, NEW sub, LinksOK(t), Forest(t, sub), NEW S \in SUBSET Cells, NEW T, T # {},
         NEW G \in [[S -> T] -> [S -> T]], ByChildren(G, S, T, t)
  PROVE  HasFixpoint(G, S, T)
<1> DEFINE rank == [n \in S |-> Cardinality(sub[n])]
<1>1. rank \in [S -> 0..Cardinality(Nodes)]
  <2>1. \A n \in Cells : sub[n] \in SUBSET Nodes
    BY DEF Forest
  <2> QED
    BY <2>1, NodesAreFinite
<1>2. \A n \in S : rank[n] = Cardinality(sub[n])
  OBVIOUS
<1>3. ASSUME NEW f \in [S -> T], NEW g \in [S -> T], NEW n \in S,
             \A m \in S : rank[m] < rank[n] => f[m] = g[m]
      PROVE  G[f][n] = G[g][n]
  <2>1. ASSUME n # NIL, NEW s \in Sides, t.child[s][n] \in S
        PROVE  f[t.child[s][n]] = g[t.child[s][n]]
    <3>1. n \in Nodes
      BY <2>1 DEF Cells
    <3> QED
      BY <3>1, <2>1, <1>2, <1>3, ChildSmaller
  <2> QED
    BY <2>1 DEF ByChildren
<1> HIDE DEF rank
<1>4. Ranked(G, S, T, rank)
  BY <1>3 DEF Ranked
<1>5. PICK N \in Nat : rank \in [S -> 0..N]
  BY <1>1, NodesAreFinite
<1> QED
  BY <1>4, <1>5, Recursion

LEMMA UpRecursion ==
  ASSUME NEW t, NEW sub, LinksOK(t), Forest(t, sub), NEW T, T # {},
         NEW G \in [[Cells -> T] -> [Cells -> T]], ByParent(G, T, t)
  PROVE  HasFixpoint(G, Cells, T)
<1> DEFINE N == Cardinality(Nodes)
           rank == [n \in Cells |-> IF n = NIL THEN 0 ELSE N + 1 - Cardinality(sub[n])]
<1>1. N \in Nat /\ \A n \in Nodes : Cardinality(sub[n]) \in 0..N
  BY InForest, NodesAreFinite
<1>2. ASSUME NEW n \in Nodes, t.parent[n] # NIL
      PROVE  t.parent[n] \in Nodes /\ Cardinality(sub[n]) < Cardinality(sub[t.parent[n]])
  <2>1. t.parent[n] \in Nodes /\ \E s \in Sides : t.child[s][t.parent[n]] = n
    BY <1>2, InForest DEF Cells
  <2> QED
    BY <2>1, ChildSmaller
<1> HIDE DEF N
<1>3. rank \in [Cells -> 0..N + 1] /\ rank[NIL] = 0
      /\ \A n \in Nodes : rank[n] = N + 1 - Cardinality(sub[n])
  BY <1>1, NodesAreFinite DEF Cells
<1>4. \A n \in Nodes : t.parent[n] \in Cells /\ rank[t.parent[n]] < rank[n]
  <2>1. ASSUME NEW n \in Nodes PROVE t.parent[n] \in Cells /\ rank[t.parent[n]] < rank[n]
    <3>1. CASE t.parent[n] = NIL
      BY <3>1, <1>1, <1>3 DEF Cells
    <3>2. CASE t.parent[n] # NIL
      BY <3>2, <1>1, <1>2, <1>3 DEF Cells
    <3> QED
      BY <3>1, <3>2
  <2> QED
    BY <2>1
<1> HIDE DEF rank
<1>5. ASSUME NEW f \in [Cells -> T], NEW g \in [Cells -> T], NEW n \in Cells,
             \A m \in Cells : rank[m] < rank[n] => f[m] = g[m]
      PROVE  G[f][n] = G[g][n]
  BY <1>4, <1>5 DEF Cells, ByParent
<1>6. Ranked(G, Cells, T, rank)
  BY <1>5 DEF Ranked
<1>7. PICK k \in Nat : rank \in [Cells -> 0..k]
  BY <1>1, <1>3
<1> QED
  BY <1>6, <1>7, Recursion

-----------------------------------------------------------------------------
(* What the recursive functions of the model compute: each one exists, and *)
(* its value at a node is the step taken with its values below or above.   *)

SearchStep(t, d, f, n) ==
  IF n = NIL \/ Data[n] = d THEN n
  ELSE IF d < Data[n] THEN f[t.child["left"][n]] ELSE f[t.child["right"][n]]

LEMMA SearchDef ==
  ASSUME NEW t, NEW d
  PROVE  search_node(t, d) = (CHOOSE f : f = [n \in Cells |-> SearchStep(t, d, f, n)])[t.root]
BY DEF search_node, SearchStep

LEMMA SearchIs ==
  ASSUME NEW t, NEW sub, LinksOK(t), Forest(t, sub), NEW d
  PROVE  \E f \in [Cells -> Cells] : /\ \A n \in Cells : f[n] = SearchStep(t, d, f, n)
                                     /\ search_node(t, d) = f[t.root]
<1> DEFINE P(f) == f = [n \in Cells |-> SearchStep(t, d, f, n)]
           G == [f \in [Cells -> Cells] |-> [n \in Cells |-> SearchStep(t, d, f, n)]]
           f == CHOOSE g : P(g)
<1>1. \A n \in Nodes : \A s \in Sides : t.child[s][n] \in Cells
  BY InForest
<1>2. \A g \in [Cells -> Cells] : \A n \in Cells : SearchStep(t, d, g, n) \in Cells
  BY <1>1 DEF SearchStep, Cells, Sides
<1>3. G \in [[Cells -> Cells] -> [Cells -> Cells]]
  BY <1>2
<1>4. ByChildren(G, Cells, Cells, t)
  BY <1>1 DEF ByChildren, SearchStep, Cells, Sides
<1>5. HasFixpoint(G, Cells, Cells)
  <2> HIDE DEF G
  <2> QED
    BY <1>3, <1>4, DownRecursion, Cells # {} DEF Cells
<1>6. PICK h \in [Cells -> Cells] : P(h)
  BY <1>5 DEF HasFixpoint
<1>7. P(f)
  BY <1>6
<1>8. search_node(t, d) = f[t.root]
  BY SearchDef
<1>9. /\ \A n \in Cells : f[n] = SearchStep(t, d, f, n)
      /\ \A n \in Cells : h[n] = SearchStep(t, d, h, n)
  BY <1>6, <1>7
<1> HIDE DEF f
<1>10. Cells \subseteq {n \in Cells : f[n] = h[n]}
  <2>1. NIL \in {n \in Cells : f[n] = h[n]}
    BY <1>9 DEF SearchStep, Cells
  <2>2. ASSUME NEW n \in Nodes, \A s \in Sides : t.child[s][n] \in {m \in Cells : f[m] = h[m]}
        PROVE  n \in {m \in Cells : f[m] = h[m]}
    BY <2>2, <1>9 DEF SearchStep, Cells, Sides
  <2> QED
    BY <2>1, <2>2, Downward
<1> QED
  BY <1>8, <1>9, <1>10 DEF LinksOK, Trees

MinStep(t, f, n) == IF t.child["left"][n] = NIL THEN n ELSE f[t.child["left"][n]]

LEMMA MinDef ==
  ASSUME NEW t, NEW n
  PROVE  min_node(t, n) = (CHOOSE f : f = [m \in Nodes |-> MinStep(t, f, m)])[n]
BY DEF min_node, MinStep

LEMMA MinIs ==
  ASSUME NEW t, NEW sub, LinksOK(t), Forest(t, sub), NEW n \in Nodes
  PROVE  \E f \in [Nodes -> Nodes] : /\ \A m \in Nodes : f[m] = MinStep(t, f, m)
                                     /\ min_node(t, n) = f[n]
<1> DEFINE P(f) == f = [m \in Nodes |-> MinStep(t, f, m)]
           G == [f \in [Nodes -> Nodes] |-> [m \in Nodes |-> MinStep(t, f, m)]]
           f == CHOOSE g : P(g)
<1>1. \A m \in Nodes : \A s \in Sides : t.child[s][m] \in Cells
  BY InForest
<1>2. \A g \in [Nodes -> Nodes] : \A m \in Nodes : MinStep(t, g, m) \in Nodes
  BY <1>1 DEF MinStep, Cells, Sides
<1>3. G \in [[Nodes -> Nodes] -> [Nodes -> Nodes]]
  BY <1>2
<1>4. ByChildren(G, Nodes, Nodes, t)
  BY <1>1, NodesAreFinite DEF ByChildren, MinStep, Cells, Sides
<1>5. HasFixpoint(G, Nodes, Nodes)
  <2>1. Nodes \in SUBSET Cells /\ Nodes # {}
    BY DEF Cells
  <2> HIDE DEF G
  <2> QED
    BY <2>1, <1>3, <1>4, DownRecursion
<1>6. PICK h \in [Nodes -> Nodes] : P(h)
  BY <1>5 DEF HasFixpoint
<1>7. P(f)
  BY <1>6
<1>8. min_node(t, n) = f[n]
  BY MinDef
<1>9. /\ \A m \in Nodes : f[m] = MinStep(t, f, m)
      /\ \A m \in Nodes : h[m] = MinStep(t, h, m)
  BY <1>6, <1>7
<1> HIDE DEF f
<1>10. Cells \subseteq {NIL} \cup {m \in Nodes : f[m] = h[m]}
  <2>1. ASSUME NEW m \in Nodes, \A s \in Sides : t.child[s][m] \in {NIL} \cup {k \in Nodes : f[k] = h[k]}
        PROVE  m \in {NIL} \cup {k \in Nodes : f[k] = h[k]}
    BY <2>1, <1>9 DEF MinStep, Cells, Sides
  <2> QED
    BY <2>1, Downward
<1>11. f[n] = h[n]
  BY <1>10, NodesAreFinite DEF Cells
<1> QED
  BY <1>8, <1>9, <1>11

SideFor(d, n) == IF d < Data[n] THEN "left" ELSE "right"
DescentStep(t, d, f, n) ==
  IF t.child[SideFor(d, n)][n] = NIL THEN n ELSE f[t.child[SideFor(d, n)][n]]

LEMMA DescentDef ==
  ASSUME NEW t, NEW d, t.root # NIL
  PROVE  Descent(t, d) = (CHOOSE f : f = [m \in Nodes |-> DescentStep(t, d, f, m)])[t.root]
BY DEF Descent, DescentStep, SideFor

LEMMA DescentIs ==
  ASSUME NEW t, NEW sub, LinksOK(t), Forest(t, sub), NEW d, t.root # NIL
  PROVE  \E f \in [Nodes -> Nodes] : /\ \A m \in Nodes : f[m] = DescentStep(t, d, f, m)
                                     /\ Descent(t, d) = f[t.root]
<1> DEFINE P(f) == f = [m \in Nodes |-> DescentStep(t, d, f, m)]
           G == [f \in [Nodes -> Nodes] |-> [m \in Nodes |-> DescentStep(t, d, f, m)]]
           f == CHOOSE g : P(g)
<1>0. t.root \in Nodes
  BY DEF LinksOK, Trees, Cells
<1>1. \A m \in Nodes : SideFor(d, m) \in Sides /\ \A s \in Sides : t.child[s][m] \in Cells
  BY InForest DEF SideFor, Sides
<1>2. \A g \in [Nodes -> Nodes] : \A m \in Nodes : DescentStep(t, d, g, m) \in Nodes
  BY <1>1 DEF DescentStep, Cells
<1>3. G \in [[Nodes -> Nodes] -> [Nodes -> Nodes]]
  BY <1>2
<1>4. ByChildren(G, Nodes, Nodes, t)
  BY <1>1, NodesAreFinite DEF ByChildren, DescentStep, Cells
<1>5. HasFixpoint(G, Nodes, Nodes)
  <2>1. Nodes \in SUBSET Cells /\ Nodes # {}
    BY <1>0 DEF Cells
  <2> HIDE DEF G
  <2> QED
    BY <2>1, <1>3, <1>4, DownRecursion
<1>6. PICK h \in [Nodes -> Nodes] : P(h)
  BY <1>5 DEF HasFixpoint
<1>7. P(f)
  BY <1>6
<1>8. Descent(t, d) = f[t.root]
  BY DescentDef
<1>9. /\ \A m \in Nodes : f[m] = DescentStep(t, d, f, m)
      /\ \A m \in Nodes : h[m] = DescentStep(t, d, h, m)
  BY <1>6, <1>7
<1> HIDE DEF f
<1>10. Cells \subseteq {NIL} \cup {m \in Nodes : f[m] = h[m]}
  <2>1. ASSUME NEW m \in Nodes, \A s \in Sides : t.child[s][m] \in {NIL} \cup {k \in Nodes : f[k] = h[k]}
        PROVE  m \in {NIL} \cup {k \in Nodes : f[k] = h[k]}
    BY <2>1, <1>1, <1>9 DEF DescentStep
  <2> QED
    BY <2>1, Downward
<1>11. f[t.root] = h[t.root]
  BY <1>0, <1>10, NodesAreFinite DEF Cells
<1> QED
  BY <1>8, <1>9, <1>11

UpwardStep(t, f, n) == IF n = NIL THEN {} ELSE {n} \cup f[t.parent[n]]

LEMMA UpwardDef ==
  ASSUME NEW t, NEW n
  PROVE  Upward(t, n) = (CHOOSE f : f = [m \in Cells |-> UpwardStep(t, f, m)])[n]
BY DEF Upward, UpwardStep

LEMMA UpwardStepIs ==
  ASSUME NEW t, NEW sub, LinksOK(t), Forest(t, sub), NEW n \in Cells
  PROVE  \E f \in [Cells -> SUBSET Nodes] : /\ \A m \in Cells : f[m] = UpwardStep(t, f, m)
                                            /\ Upward(t, n) = f[n]
<1> DEFINE P(f) == f = [m \in Cells |-> UpwardStep(t, f, m)]
           T == SUBSET Nodes
           G == [f \in [Cells -> T] |-> [m \in Cells |-> UpwardStep(t, f, m)]]
           f == CHOOSE g : P(g)
<1>1. \A m \in Nodes : t.parent[m] \in Cells
  BY InForest
<1>2. \A g \in [Cells -> T] : \A m \in Cells : UpwardStep(t, g, m) \in T
  <2>1. ASSUME NEW g \in [Cells -> T], NEW m \in Nodes PROVE {m} \cup g[t.parent[m]] \in T
    <3>1. g[t.parent[m]] \in T
      BY <1>1
    <3> QED
      BY <3>1
  <2> QED
    BY <2>1 DEF UpwardStep, Cells
<1>3. G \in [[Cells -> T] -> [Cells -> T]]
  BY <1>2
<1>4. ByParent(G, T, t)
  BY <1>1 DEF ByParent, UpwardStep, Cells
<1>5. HasFixpoint(G, Cells, T)
  <2>1. T # {}
    OBVIOUS
  <2> HIDE DEF G, T
  <2> QED
    BY <2>1, <1>3, <1>4, UpRecursion
<1>6. PICK h \in [Cells -> T] : P(h)
  BY <1>5 DEF HasFixpoint
<1>7. P(f)
  BY <1>6
<1>8. Upward(t, n) = f[n]
  BY UpwardDef
<1>9. /\ \A m \in Cells : f[m] = UpwardStep(t, f, m)
      /\ \A m \in Cells : h[m] = UpwardStep(t, h, m)
  BY <1>6, <1>7
<1> HIDE DEF f
<1>10. Nodes \subseteq {m \in Nodes : f[m] = h[m]}
  <2>1. f[NIL] = h[NIL]
    BY <1>9 DEF UpwardStep, Cells
  <2>2. ASSUME NEW m \in Nodes, t.parent[m] # NIL => t.parent[m] \in {k \in Nodes : f[k] = h[k]}
        PROVE  m \in {k \in Nodes : f[k] = h[k]}
    <3>1. f[t.parent[m]] = h[t.parent[m]]
      BY <2>1, <2>2
    <3>2. m \in Cells /\ m # NIL
      BY NodesAreFinite DEF Cells
    <3> QED
      BY <3>1, <3>2, <1>9 DEF UpwardStep
  <2> QED
    BY <2>2, UpwardInduction
<1>11. f[n] = h[n]
  BY <1>9, <1>10 DEF Cells, UpwardStep
<1> QED
  BY <1>8, <1>9, <1>11

RankStep(t, f, n) ==
  [i \in 0..Cardinality(Nodes) + 1 |->
     IF n = NIL THEN Null
     ELSE IF i = t.size[t.child["left"][n]] + 1 THEN n
     ELSE IF i < t.size[t.child["left"][n]] + 1 THEN f[t.child["left"][n]][i]
     ELSE f[t.child["right"][n]][i - (t.size[t.child["left"][n]] + 1)]]

LEMMA RankDef ==
  ASSUME NEW t, NEW k
  PROVE  search_k(t, k) = (CHOOSE f : f = [n \in Cells |-> RankStep(t, f, n)])[t.root][k]
BY DEF search_k, RankStep

LEMMA RankIs ==
  ASSUME NEW t, NEW sub, LinksOK(t), Forest(t, sub), t.size \in [Cells -> Nat]
  PROVE  \E f \in [Cells -> [0..Cardinality(Nodes) + 1 -> Cells \cup {Null}]] :
           /\ \A n \in Cells : f[n] = RankStep(t, f, n)
           /\ \A k : search_k(t, k) = f[t.root][k]
<1> DEFINE I == 0..Cardinality(Nodes) + 1
           T == [I -> Cells \cup {Null}]
           P(f) == f = [n \in Cells |-> RankStep(t, f, n)]
           G == [f \in [Cells -> T] |-> [n \in Cells |-> RankStep(t, f, n)]]
           f == CHOOSE g : P(g)
<1>1. \A n \in Nodes : \A s \in Sides : t.child[s][n] \in Cells
  BY InForest
<1>2. \A g \in [Cells -> T] : \A n \in Cells : RankStep(t, g, n) \in T
  <2>1. ASSUME NEW g \in [Cells -> T], NEW n \in Nodes, NEW i \in I
        PROVE  LET rank == t.size[t.child["left"][n]] + 1
               IN  /\ g[t.child["left"][n]][i] \in Cells \cup {Null}
                   /\ i # rank /\ ~(i < rank) => g[t.child["right"][n]][i - rank] \in Cells \cup {Null}
    <3>1. t.child["left"][n] \in Cells /\ t.child["right"][n] \in Cells
      BY <1>1 DEF Sides
    <3>2. PICK k \in Nat : k = t.size[t.child["left"][n]]
      BY <3>1
    <3>3. i # k + 1 /\ ~(i < k + 1) => i - (k + 1) \in I
      BY NodesAreFinite
    <3> HIDE DEF I
    <3>4. g[t.child["left"][n]] \in T /\ g[t.child["right"][n]] \in T
      BY <3>1
    <3> QED
      BY <3>2, <3>3, <3>4
  <2>2. ASSUME NEW g \in [Cells -> T] PROVE RankStep(t, g, NIL) \in T
    BY DEF RankStep
  <2>3. ASSUME NEW g \in [Cells -> T], NEW n \in Nodes PROVE RankStep(t, g, n) \in T
    <3> HIDE DEF I
    <3>1. n \in Cells
      BY DEF Cells
    <3>2. RankStep(t, g, n) =
            [i \in I |->
               IF n = NIL THEN Null
               ELSE IF i = t.size[t.child["left"][n]] + 1 THEN n
               ELSE IF i < t.size[t.child["left"][n]] + 1 THEN g[t.child["left"][n]][i]
               ELSE g[t.child["right"][n]][i - (t.size[t.child["left"][n]] + 1)]]
      BY DEF RankStep, I
    <3>3. ASSUME NEW i \in I
          PROVE  (IF n = NIL THEN Null
                  ELSE IF i = t.size[t.child["left"][n]] + 1 THEN n
                  ELSE IF i < t.size[t.child["left"][n]] + 1 THEN g[t.child["left"][n]][i]
                  ELSE g[t.child["right"][n]][i - (t.size[t.child["left"][n]] + 1)]) \in Cells \cup {Null}
      BY <3>1, <2>1
    <3> QED
      BY <3>2, <3>3
  <2> QED
    BY <2>2, <2>3 DEF Cells
<1>3. G \in [[Cells -> T] -> [Cells -> T]]
  <2> HIDE DEF T
  <2> QED
    BY <1>2
<1>4. ByChildren(G, Cells, T, t)
  <2> HIDE DEF T
  <2>1. ASSUME NEW g \in [Cells -> T], NEW h \in [Cells -> T], NEW n \in Cells,
               n # NIL => \A s \in Sides : t.child[s][n] \in Cells => g[t.child[s][n]] = h[t.child[s][n]]
        PROVE  RankStep(t, g, n) = RankStep(t, h, n)
    BY <2>1, <1>1 DEF RankStep, Cells, Sides
  <2> QED
    BY <2>1 DEF ByChildren
<1>5. HasFixpoint(G, Cells, T)
  <2>1. T # {}
    <3>1. [i \in I |-> Null] \in T
      OBVIOUS
    <3> QED
      BY <3>1
  <2> HIDE DEF G, T
  <2> QED
    BY <2>1, <1>3, <1>4, DownRecursion
<1> HIDE DEF T
<1>6. PICK h \in [Cells -> T] : P(h)
  BY <1>5 DEF HasFixpoint
<1>7. P(f)
  BY <1>6
<1>8. \A k : search_k(t, k) = f[t.root][k]
  BY RankDef
<1>9. /\ \A n \in Cells : f[n] = RankStep(t, f, n)
      /\ \A n \in Cells : h[n] = RankStep(t, h, n)
  BY <1>6, <1>7
<1> HIDE DEF f
<1>10. Cells \subseteq {n \in Cells : f[n] = h[n]}
  <2>1. NIL \in {n \in Cells : f[n] = h[n]}
    BY <1>9 DEF RankStep, Cells
  <2>2. ASSUME NEW n \in Nodes, \A s \in Sides : t.child[s][n] \in {m \in Cells : f[m] = h[m]}
        PROVE  n \in {m \in Cells : f[m] = h[m]}
    <3>1. n \in Cells /\ f[t.child["left"][n]] = h[t.child["left"][n]]
          /\ f[t.child["right"][n]] = h[t.child["right"][n]]
      BY <2>2 DEF Cells, Sides
    <3>2. RankStep(t, f, n) = RankStep(t, h, n)
      BY <3>1 DEF RankStep
    <3> QED
      BY <3>1, <3>2, <1>9
  <2> QED
    BY <2>1, <2>2, Downward
<1>11. f[t.root] = h[t.root]
  BY <1>10 DEF LinksOK, Trees
<1> QED
  BY <1>8, <1>9, <1>11 DEF T

OverlapStep(t, low, high, f, n) ==
  IF n = NIL \/ is_overlap(low, high, Data[n], High[n]) THEN n
  ELSE IF t.child["left"][n] # NIL /\ t.max_high[t.child["left"][n]] >= low THEN f[t.child["left"][n]]
  ELSE f[t.child["right"][n]]

LEMMA OverlapDef ==
  ASSUME NEW t, NEW low, NEW high
  PROVE  int_search(t, low, high)
           = (CHOOSE f : f = [n \in Cells |-> OverlapStep(t, low, high, f, n)])[t.root]
BY DEF int_search, OverlapStep

LEMMA OverlapIs ==
  ASSUME NEW t, NEW sub, LinksOK(t), Forest(t, sub), NEW low, NEW high
  PROVE  \E f \in [Cells -> Cells] : /\ \A n \in Cells : f[n] = OverlapStep(t, low, high, f, n)
                                     /\ int_search(t, low, high) = f[t.root]
<1> DEFINE P(f) == f = [n \in Cells |-> OverlapStep(t, low, high, f, n)]
           G == [f \in [Cells -> Cells] |-> [n \in Cells |-> OverlapStep(t, low, high, f, n)]]
           f == CHOOSE g : P(g)
<1>1. \A n \in Nodes : \A s \in Sides : t.child[s][n] \in Cells
  BY InForest
<1>2. \A g \in [Cells -> Cells] : \A n \in Cells : OverlapStep(t, low, high, g, n) \in Cells
  BY <1>1 DEF OverlapStep, Cells, Sides
<1>3. G \in [[Cells -> Cells] -> [Cells -> Cells]]
  BY <1>2
<1>4. ByChildren(G, Cells, Cells, t)
  BY <1>1 DEF ByChildren, OverlapStep, Cells, Sides
<1>5. HasFixpoint(G, Cells, Cells)
  <2> HIDE DEF G
  <2> QED
    BY <1>3, <1>4, DownRecursion, Cells # {} DEF Cells
<1>6. PICK h \in [Cells -> Cells] : P(h)
  BY <1>5 DEF HasFixpoint
<1>7. P(f)
  BY <1>6
<1>8. int_search(t, low, high) = f[t.root]
  BY OverlapDef
<1>9. /\ \A n \in Cells : f[n] = OverlapStep(t, low, high, f, n)
      /\ \A n \in Cells : h[n] = OverlapStep(t, low, high, h, n)
  BY <1>6, <1>7
<1> HIDE DEF f
<1>10. Cells \subseteq {n \in Cells : f[n] = h[n]}
  <2>1. NIL \in {n \in Cells : f[n] = h[n]}
    BY <1>9 DEF OverlapStep, Cells
  <2>2. ASSUME NEW n \in Nodes, \A s \in Sides : t.child[s][n] \in {m \in Cells : f[m] = h[m]}
        PROVE  n \in {m \in Cells : f[m] = h[m]}
    <3>1. n \in Cells /\ f[t.child["left"][n]] = h[t.child["left"][n]]
          /\ f[t.child["right"][n]] = h[t.child["right"][n]]
      BY <2>2 DEF Cells, Sides
    <3>2. OverlapStep(t, low, high, f, n) = OverlapStep(t, low, high, h, n)
      BY <3>1 DEF OverlapStep
    <3> QED
      BY <3>1, <3>2, <1>9
  <2> QED
    BY <2>1, <2>2, Downward
<1> QED
  BY <1>8, <1>9, <1>10 DEF LinksOK, Trees

ListStep(t, f, n) ==
  IF n = NIL THEN <<>> ELSE f[t.child["left"][n]] \o <<n>> \o f[t.child["right"][n]]

LEMMA ListDef ==
  ASSUME NEW t
  PROVE  in_order_core(t) = (CHOOSE f : f = [n \in Cells |-> ListStep(t, f, n)])[t.root]
BY DEF in_order_core, ListStep

LEMMA ListIs ==
  ASSUME NEW t, NEW sub, LinksOK(t), Forest(t, sub)
  PROVE  \E f \in [Cells -> Seq(Nodes)] : /\ \A n \in Cells : f[n] = ListStep(t, f, n)
                                          /\ in_order_core(t) = f[t.root]
<1> DEFINE T == Seq(Nodes)
           P(f) == f = [n \in Cells |-> ListStep(t, f, n)]
           G == [f \in [Cells -> T] |-> [n \in Cells |-> ListStep(t, f, n)]]
           f == CHOOSE g : P(g)
<1>1. \A n \in Nodes : \A s \in Sides : t.child[s][n] \in Cells
  BY InForest
<1>2. \A g \in [Cells -> T] : \A n \in Cells : ListStep(t, g, n) \in T
  <2>1. ASSUME NEW g \in [Cells -> T], NEW n \in Nodes PROVE ListStep(t, g, n) \in T
    <3>1. g[t.child["left"][n]] \in T /\ g[t.child["right"][n]] \in T /\ <<n>> \in T
      BY <1>1 DEF Sides
    <3>2. \A a, b, c \in Seq(Nodes) : a \o b \o c \in Seq(Nodes)
      OBVIOUS
    <3>3. n # NIL
      BY NodesAreFinite
    <3> QED
      BY <3>1, <3>2, <3>3 DEF ListStep
  <2>2. ASSUME NEW g \in [Cells -> T] PROVE ListStep(t, g, NIL) \in T
    BY DEF ListStep
  <2> QED
    BY <2>1, <2>2 DEF Cells
<1>3. G \in [[Cells -> T] -> [Cells -> T]]
  <2> HIDE DEF T
  <2> QED
    BY <1>2
<1>4. ByChildren(G, Cells, T, t)
  <2> HIDE DEF T
  <2>1. ASSUME NEW g \in [Cells -> T], NEW h \in [Cells -> T], NEW n \in Cells,
               n # NIL => \A s \in Sides : t.child[s][n] \in Cells => g[t.child[s][n]] = h[t.child[s][n]]
        PROVE  ListStep(t, g, n) = ListStep(t, h, n)
    BY <2>1, <1>1 DEF ListStep, Cells, Sides
  <2> QED
    BY <2>1 DEF ByChildren
<1>5. HasFixpoint(G, Cells, T)
  <2>1. T # {}
    BY <<>> \in T
  <2> HIDE DEF G, T
  <2> QED
    BY <2>1, <1>3, <1>4, DownRecursion
<1> HIDE DEF T
<1>6. PICK h \in [Cells -> T] : P(h)
  BY <1>5 DEF HasFixpoint
<1>7. P(f)
  BY <1>6
<1>8. in_order_core(t) = f[t.root]
  BY ListDef
<1>9. /\ \A n \in Cells : f[n] = ListStep(t, f, n)
      /\ \A n \in Cells : h[n] = ListStep(t, h, n)
  BY <1>6, <1>7
<1> HIDE DEF f
<1>10. Cells \subseteq {n \in Cells : f[n] = h[n]}
  <2>1. NIL \in {n \in Cells : f[n] = h[n]}
    BY <1>9 DEF ListStep, Cells
  <2>2. ASSUME NEW n \in Nodes, \A s \in Sides : t.child[s][n] \in {m \in Cells : f[m] = h[m]}
        PROVE  n \in {m \in Cells : f[m] = h[m]}
    <3>1. n \in Cells /\ f[t.child["left"][n]] = h[t.child["left"][n]]
          /\ f[t.child["right"][n]] = h[t.child["right"][n]]
      BY <2>2 DEF Cells, Sides
    <3>2. ListStep(t, f, n) = ListStep(t, h, n)
      BY <3>1 DEF ListStep
    <3> QED
      BY <3>1, <3>2, <1>9
  <2> QED
    BY <2>1, <2>2, Downward
<1> QED
  BY <1>8, <1>9, <1>10 DEF LinksOK, Trees, T

\* The greatest of the three numbers at a node.
Max3(a, b, c) == Max({a, b, c})

LEMMA Max3Is ==
  ASSUME NEW a \in Nat, NEW b \in Nat, NEW c \in Nat
  PROVE  /\ Max3(a, b, c) \in {a, b, c}
         /\ a <= Max3(a, b, c) /\ b <= Max3(a, b, c) /\ c <= Max3(a, b, c)
<1>1. \E x \in {a, b, c} : \A y \in {a, b, c} : x >= y
  OBVIOUS
<1>2. Max3(a, b, c) \in {a, b, c} /\ \A y \in {a, b, c} : Max3(a, b, c) >= y
  BY <1>1 DEF Max3, Max
<1> QED
  BY <1>2

LEMMA MaxHighIs ==
  ASSUME NEW high, NEW child, NEW n
  PROVE  MaxHigh(high, child, n) = Max3(high[child["left"][n]], high[child["right"][n]], High[n])
BY DEF MaxHigh, Max3

HighStep(t, A, h, n) == IF n \in A THEN MaxHigh(h, t.child, n) ELSE t.max_high[n]

LEMMA RefreshDef ==
  ASSUME NEW t, NEW n
  PROVE  RefreshUpward(t, n) =
           [t EXCEPT !.max_high =
              [m \in Cells |-> (CHOOSE h : h = [k \in Cells |-> HighStep(t, Upward(t, n), h, k)])[m]]]
BY DEF RefreshUpward, HighStep

LEMMA RefreshIs ==
  ASSUME NEW t, NEW sub, LinksOK(t), Forest(t, sub), NEW n, Upward(t, n) \in SUBSET Nodes
  PROVE  \E h \in [Cells -> Nat] :
           /\ \A m \in Upward(t, n) : h[m] = MaxHigh(h, t.child, m)
           /\ \A m \in Cells \ Upward(t, n) : h[m] = t.max_high[m]
           /\ RefreshUpward(t, n) = [t EXCEPT !.max_high = h]
<1> DEFINE A == Upward(t, n)
           P(h) == h = [m \in Cells |-> HighStep(t, A, h, m)]
           G == [h \in [Cells -> Nat] |-> [m \in Cells |-> HighStep(t, A, h, m)]]
           f == CHOOSE g : P(g)
<1>1. \A m \in Nodes : t.child["left"][m] \in Cells /\ t.child["right"][m] \in Cells
  BY InForest DEF Sides
<1>2. A \in SUBSET Nodes
  OBVIOUS
<1>3. RefreshUpward(t, n) = [t EXCEPT !.max_high = [m \in Cells |-> f[m]]]
  BY RefreshDef
<1> HIDE DEF A
<1>4. \A g \in [Cells -> Nat] : \A m \in Cells : HighStep(t, A, g, m) \in Nat
  <2>1. ASSUME NEW g \in [Cells -> Nat], NEW m \in Nodes PROVE MaxHigh(g, t.child, m) \in Nat
    <3>1. g[t.child["left"][m]] \in Nat /\ g[t.child["right"][m]] \in Nat /\ High[m] \in Nat
      BY <1>1, TreeAssumption
    <3> QED
      BY <3>1, Max3Is, MaxHighIs
  <2>2. \A m \in Cells : t.max_high[m] \in Nat
    BY DEF LinksOK, Trees
  <2> QED
    BY <2>1, <2>2, <1>2 DEF HighStep
<1>5. G \in [[Cells -> Nat] -> [Cells -> Nat]]
  BY <1>4
<1>6. ByChildren(G, Cells, Nat, t)
  <2>1. ASSUME NEW g \in [Cells -> Nat], NEW h \in [Cells -> Nat], NEW m \in Cells,
               m # NIL => \A s \in Sides : t.child[s][m] \in Cells => g[t.child[s][m]] = h[t.child[s][m]]
        PROVE  HighStep(t, A, g, m) = HighStep(t, A, h, m)
    <3>1. CASE m \in A
      <4>1. g[t.child["left"][m]] = h[t.child["left"][m]] /\ g[t.child["right"][m]] = h[t.child["right"][m]]
        BY <3>1, <2>1, <1>1, <1>2, NodesAreFinite DEF Sides
      <4> QED
        BY <4>1, <3>1 DEF HighStep, MaxHigh
    <3> QED
      BY <3>1 DEF HighStep
  <2> QED
    BY <2>1 DEF ByChildren
<1>7. HasFixpoint(G, Cells, Nat)
  <2> HIDE DEF G
  <2> QED
    BY <1>5, <1>6, DownRecursion, Nat # {}
<1>8. PICK h \in [Cells -> Nat] : P(h)
  BY <1>7 DEF HasFixpoint
<1>9. P(f)
  BY <1>8
<1>10. /\ \A m \in Cells : f[m] = HighStep(t, A, f, m)
       /\ \A m \in Cells : h[m] = HighStep(t, A, h, m)
  BY <1>8, <1>9
<1> HIDE DEF f
<1>11. Cells \subseteq {m \in Cells : f[m] = h[m]}
  <2>1. NIL \in {m \in Cells : f[m] = h[m]}
    BY <1>2, <1>10, NodesAreFinite DEF HighStep, Cells
  <2>2. ASSUME NEW m \in Nodes, \A s \in Sides : t.child[s][m] \in {k \in Cells : f[k] = h[k]}
        PROVE  m \in {k \in Cells : f[k] = h[k]}
    <3>1. m \in Cells /\ f[t.child["left"][m]] = h[t.child["left"][m]]
          /\ f[t.child["right"][m]] = h[t.child["right"][m]]
      BY <2>2 DEF Cells, Sides
    <3>2. HighStep(t, A, f, m) = HighStep(t, A, h, m)
      BY <3>1 DEF HighStep, MaxHigh
    <3> QED
      BY <3>1, <3>2, <1>10
  <2> QED
    BY <2>1, <2>2, Downward
<1>12. [m \in Cells |-> f[m]] = h
  BY <1>11
<1>13. /\ \A m \in A : h[m] = MaxHigh(h, t.child, m)
       /\ \A m \in Cells \ A : h[m] = t.max_high[m]
  BY <1>2, <1>10 DEF HighStep, Cells
<1> QED
  BY <1>3, <1>12, <1>13 DEF A

-----------------------------------------------------------------------------
(* Above a node are those that have it below them.                         *)

LEMMA BelowBelow ==
  ASSUME NEW t, NEW sub, LinksOK(t), Forest(t, sub), NEW m \in Cells, NEW n \in sub[m]
  PROVE  n \in Nodes /\ sub[n] \subseteq sub[m]
<1> DEFINE A == {k \in Cells : \A j \in sub[k] : j \in Nodes /\ sub[j] \subseteq sub[k]}
<1>1. NIL \in A
  BY DEF Forest, Cells
<1>2. ASSUME NEW k \in Nodes, \A s \in Sides : t.child[s][k] \in A PROVE k \in A
  <2>1. ASSUME NEW j \in sub[k] PROVE j \in Nodes /\ sub[j] \subseteq sub[k]
    <3>1. j = k \/ \E s \in Sides : j \in sub[t.child[s][k]]
      BY InForest
    <3>2. \A s \in Sides : sub[t.child[s][k]] \subseteq sub[k]
      BY InForest
    <3> QED
      BY <3>1, <3>2, <1>2
  <2> QED
    BY <2>1 DEF Cells
<1>3. Cells \subseteq A
  <2> HIDE DEF A
  <2> QED
    BY <1>1, <1>2, Downward
<1> QED
  BY <1>3

LEMMA AboveIs ==
  ASSUME NEW t, NEW sub, LinksOK(t), Forest(t, sub), NEW m \in Cells, NEW n \in Nodes
  PROVE  n \in sub[m] <=> \/ n = m
                          \/ /\ t.parent[n] # NIL
                             /\ t.parent[n] \in sub[m]
<1>1. ASSUME t.parent[n] # NIL, t.parent[n] \in sub[m] PROVE n \in sub[m]
  <2>1. t.parent[n] \in Nodes /\ n \in sub[n] /\ \E s \in Sides : t.child[s][t.parent[n]] = n
    BY <1>1, InForest DEF Cells
  <2>2. sub[n] \subseteq sub[t.parent[n]]
    BY <2>1, InForest
  <2> QED
    BY <2>1, <2>2, <1>1, BelowBelow
<1>2. n \in sub[n]
  BY InForest
<1> DEFINE A == {k \in Cells : n \in sub[k] /\ n # k => t.parent[n] # NIL /\ t.parent[n] \in sub[k]}
<1>3. NIL \in A
  BY DEF Forest, Cells
<1>4. ASSUME NEW k \in Nodes, \A s \in Sides : t.child[s][k] \in A PROVE k \in A
  <2>1. ASSUME n \in sub[k], n # k PROVE t.parent[n] # NIL /\ t.parent[n] \in sub[k]
    <3>1. PICK s \in Sides : n \in sub[t.child[s][k]]
      BY <2>1, InForest
    <3>2. sub[t.child[s][k]] \subseteq sub[k] /\ k \in sub[k] /\ k # NIL
      BY InForest, NodesAreFinite
    <3>3. CASE n = t.child[s][k]
      BY <3>2, <3>3, InForest, NodesAreFinite
    <3> QED
      BY <3>1, <3>2, <3>3, <1>4
  <2> QED
    BY <2>1 DEF Cells
<1>5. Cells \subseteq A
  <2> HIDE DEF A
  <2> QED
    BY <1>3, <1>4, Downward
<1>6. n \in sub[m] /\ n # m => t.parent[n] # NIL /\ t.parent[n] \in sub[m]
  BY <1>5
<1> QED
  BY <1>1, <1>2, <1>6

LEMMA UpwardIs ==
  ASSUME NEW t, NEW sub, LinksOK(t), Forest(t, sub), NEW n \in Cells
  PROVE  Upward(t, n) = {m \in Nodes : n \in sub[m]}
<1>1. PICK f \in [Cells -> SUBSET Nodes] : (\A m \in Cells : f[m] = UpwardStep(t, f, m)) /\ Upward(t, n) = f[n]
  BY UpwardStepIs
<1>2. f[NIL] = {} /\ \A m \in Nodes : sub[m] \in SUBSET Nodes /\ NIL \notin sub[m]
  BY <1>1, NodesAreFinite, InForest DEF UpwardStep, Cells
<1> DEFINE A == {k \in Nodes : f[k] = {m \in Nodes : k \in sub[m]}}
<1>3. ASSUME NEW k \in Nodes, t.parent[k] # NIL => t.parent[k] \in A PROVE k \in A
  <2>1. f[k] = {k} \cup f[t.parent[k]]
    BY <1>1, NodesAreFinite DEF UpwardStep, Cells
  <2>2. ASSUME NEW m \in Nodes
        PROVE  k \in sub[m] <=> (k = m \/ (t.parent[k] # NIL /\ t.parent[k] \in sub[m]))
    BY AboveIs DEF Cells
  <2>3. CASE t.parent[k] = NIL
    BY <2>1, <2>2, <2>3, <1>2
  <2>4. CASE t.parent[k] # NIL
    <3>1. f[t.parent[k]] = {m \in Nodes : t.parent[k] \in sub[m]}
      BY <2>4, <1>3
    <3> QED
      BY <2>1, <2>2, <2>4, <3>1
  <2> QED
    BY <2>3, <2>4
<1>4. Nodes \subseteq A
  <2> HIDE DEF A
  <2> QED
    BY <1>3, UpwardInduction
<1>5. CASE n = NIL
  BY <1>1, <1>2, <1>5
<1> QED
  BY <1>1, <1>4, <1>5 DEF Cells

-----------------------------------------------------------------------------
(* What the assignments of a rotation make of the fields.                  *)

LEMMA OtherSide ==
  ASSUME NEW s \in Sides
  PROVE  /\ Other(s) \in Sides /\ Other(s) # s /\ Other(Other(s)) = s
         /\ \A r \in Sides : r = s \/ r = Other(s)
         /\ "left" \in Sides /\ "right" \in Sides
BY DEF Sides, Other

\* The fields of a tree after one assignment.
LEMMA SetChild ==
  ASSUME NEW t \in Trees, NEW s \in Sides, NEW n \in Cells, NEW v \in Cells
  PROVE  LET u == [t EXCEPT !.child[s][n] = v]
         IN /\ u \in Trees /\ u.root = t.root /\ u.parent = t.parent /\ u.color = t.color
            /\ u.size = t.size /\ u.max_high = t.max_high /\ u.fault = t.fault
            /\ \A r \in Sides, m \in Cells :
                 u.child[r][m] = IF r = s /\ m = n THEN v ELSE t.child[r][m]
BY DEF Trees

LEMMA SetParent ==
  ASSUME NEW t \in Trees, NEW n \in Cells, NEW v \in Cells
  PROVE  LET u == [t EXCEPT !.parent[n] = v]
         IN /\ u \in Trees /\ u.root = t.root /\ u.child = t.child /\ u.color = t.color
            /\ u.size = t.size /\ u.max_high = t.max_high /\ u.fault = t.fault
            /\ \A m \in Cells : u.parent[m] = IF m = n THEN v ELSE t.parent[m]
BY DEF Trees

LEMMA PutBelowIs ==
  ASSUME NEW t \in Trees, NEW u \in Nodes, t.parent[u] \in Cells, NEW v \in Cells
  PROVE  LET w == PutBelow(t, u, v)
             p == t.parent[u]
         IN /\ w \in Trees /\ w.parent = t.parent /\ w.color = t.color
            /\ w.size = t.size /\ w.max_high = t.max_high /\ w.fault = t.fault
            /\ w.root = IF p = NIL THEN v ELSE t.root
            /\ \A r \in Sides, m \in Cells :
                 w.child[r][m] = IF p # NIL /\ m = p /\ r = Side(t, u) THEN v ELSE t.child[r][m]
<1> DEFINE p == t.parent[u]
<1>1. CASE p = NIL
  BY <1>1 DEF PutBelow, Trees
<1>2. CASE p # NIL /\ u = t.child["left"][p]
  <2>1. PICK s \in Sides : s = "left"
    BY DEF Sides
  <2>2. PICK q \in Cells : q = p
    OBVIOUS
  <2>3. PICK w : w = [t EXCEPT !.child[s][q] = v]
    OBVIOUS
  <2>4. PutBelow(t, u, v) = w /\ Side(t, u) = s
    BY <2>1, <2>2, <2>3, <1>2 DEF PutBelow, Side
  <2>5. /\ w \in Trees /\ w.root = t.root /\ w.parent = t.parent /\ w.color = t.color
        /\ w.size = t.size /\ w.max_high = t.max_high /\ w.fault = t.fault
        /\ \A r \in Sides, m \in Cells : w.child[r][m] = IF r = s /\ m = q THEN v ELSE t.child[r][m]
    BY <2>3, SetChild
  <2> QED
    BY <2>2, <2>4, <2>5, <1>2
<1>3. CASE p # NIL /\ u # t.child["left"][p]
  <2>1. PICK s \in Sides : s = "right"
    BY DEF Sides
  <2>2. PICK q \in Cells : q = p
    OBVIOUS
  <2>3. PICK w : w = [t EXCEPT !.child[s][q] = v]
    OBVIOUS
  <2>4. PutBelow(t, u, v) = w /\ Side(t, u) = s
    BY <2>1, <2>2, <2>3, <1>3 DEF PutBelow, Side
  <2>5. /\ w \in Trees /\ w.root = t.root /\ w.parent = t.parent /\ w.color = t.color
        /\ w.size = t.size /\ w.max_high = t.max_high /\ w.fault = t.fault
        /\ \A r \in Sides, m \in Cells : w.child[r][m] = IF r = s /\ m = q THEN v ELSE t.child[r][m]
    BY <2>3, SetChild
  <2> QED
    BY <2>2, <2>4, <2>5, <1>3
<1> QED
  BY <1>1, <1>2, <1>3

\* x goes down on side s.
Rotated(t, u, x, s) ==
  LET y == t.child[Other(s)][x]
      inner == t.child[s][y]
  IN /\ u \in Trees /\ u.color = t.color /\ u.fault = t.fault
     /\ u.root = IF t.parent[x] = NIL THEN y ELSE t.root
     /\ \A r \in Sides, m \in Cells :
          u.child[r][m] = IF m = x /\ r = Other(s) THEN inner
                          ELSE IF m = y /\ r = s THEN x
                          ELSE IF t.parent[x] # NIL /\ m = t.parent[x] /\ r = Side(t, x) THEN y
                          ELSE t.child[r][m]
     /\ \A m \in Cells :
          u.parent[m] = IF inner # NIL /\ m = inner THEN x
                        ELSE IF m = x THEN y
                        ELSE IF m = y THEN t.parent[x] ELSE t.parent[m]
     /\ \A m \in Cells :
          u.size[m] = IF m = x THEN t.size[u.child["left"][x]] + t.size[u.child["right"][x]] + 1
                      ELSE IF m = y THEN t.size[x] ELSE t.size[m]
     /\ \A m \in Cells :
          u.max_high[m] = IF m = x THEN MaxHigh(t.max_high, u.child, x)
                          ELSE IF m = y THEN t.max_high[x] ELSE t.max_high[m]

LEMMA SizeAfterRotateIs ==
  ASSUME NEW t \in Trees, NEW x \in Nodes, NEW y \in Cells,
         t.child["left"][x] \in Cells, t.child["right"][x] \in Cells
  PROVE  LET u == SizeAfterRotate(t, x, y)
         IN /\ u \in Trees /\ u.root = t.root /\ u.child = t.child /\ u.parent = t.parent
            /\ u.color = t.color /\ u.max_high = t.max_high /\ u.fault = t.fault
            /\ \A m \in Cells :
                 u.size[m] = IF m = x THEN t.size[t.child["left"][x]] + t.size[t.child["right"][x]] + 1
                             ELSE IF m = y THEN t.size[x] ELSE t.size[m]
<1>1. t.size[t.child["left"][x]] + t.size[t.child["right"][x]] + 1 \in Int
  <2>1. t.size[t.child["left"][x]] \in Int /\ t.size[t.child["right"][x]] \in Int
    BY DEF Trees
  <2> QED
    BY <2>1
<1> QED
  BY <1>1 DEF Trees, SizeAfterRotate, Cells

LEMMA MaxHighAfterRotateIs ==
  ASSUME NEW t \in Trees, NEW x \in Nodes, NEW y \in Cells,
         t.child["left"][x] \in Cells, t.child["right"][x] \in Cells
  PROVE  LET u == MaxHighAfterRotate(t, x, y)
         IN /\ u \in Trees /\ u.root = t.root /\ u.child = t.child /\ u.parent = t.parent
            /\ u.color = t.color /\ u.size = t.size /\ u.fault = t.fault
            /\ \A m \in Cells :
                 u.max_high[m] = IF m = x THEN MaxHigh(t.max_high, t.child, x)
                                 ELSE IF m = y THEN t.max_high[x] ELSE t.max_high[m]
<1>1. MaxHigh(t.max_high, t.child, x) \in Nat
  <2>1. t.max_high[t.child["left"][x]] \in Nat /\ t.max_high[t.child["right"][x]] \in Nat /\ High[x] \in Nat
    BY TreeAssumption DEF Trees
  <2> QED
    BY <2>1, Max3Is, MaxHighIs
<1> QED
  BY <1>1 DEF Trees, MaxHighAfterRotate, Cells

LEMMA RotateIs ==
  ASSUME NEW t, LinksOK(t), NEW x \in Nodes, NEW s \in Sides, t.child[Other(s)][x] # NIL
  PROVE  Rotated(t, Rotate(t, x, s), x, s)
<1>1. PICK y : y = t.child[Other(s)][x]
  OBVIOUS
<1>2. PICK inner : inner = t.child[s][y]
  OBVIOUS
<1>3. t \in Trees /\ y \in Nodes /\ inner \in Cells /\ t.parent[x] \in Cells /\ x \in Cells /\ y \in Cells
      /\ Other(s) \in Sides
  BY <1>1, <1>2, OtherSide DEF LinksOK, Cells
<1> DEFINE below == PutBelow(t, x, y)
           moved == [below EXCEPT !.parent[y] = t.parent[x]]
           turned1 == [moved EXCEPT !.child[Other(s)][x] = inner]
           turned2 == [turned1 EXCEPT !.child[s][y] = x]
           turned == [turned2 EXCEPT !.parent[x] = y]
           linked == IF inner = NIL THEN turned ELSE [turned EXCEPT !.parent[inner] = x]
<1>4. Rotate(t, x, s) = MaxHighAfterRotate(SizeAfterRotate(linked, x, y), x, y)
  BY <1>1, <1>2, <1>3, NodesAreFinite DEF Rotate
<1>5. /\ below \in Trees /\ below.parent = t.parent /\ below.color = t.color
      /\ below.size = t.size /\ below.max_high = t.max_high /\ below.fault = t.fault
      /\ below.root = IF t.parent[x] = NIL THEN y ELSE t.root
      /\ \A r \in Sides, m \in Cells :
           below.child[r][m] = IF t.parent[x] # NIL /\ m = t.parent[x] /\ r = Side(t, x) THEN y ELSE t.child[r][m]
  BY <1>3, PutBelowIs
<1> HIDE DEF below
<1>6. /\ moved \in Trees /\ moved.root = below.root /\ moved.child = below.child /\ moved.color = below.color
      /\ moved.size = below.size /\ moved.max_high = below.max_high /\ moved.fault = below.fault
      /\ \A m \in Cells : moved.parent[m] = IF m = y THEN t.parent[x] ELSE below.parent[m]
  BY <1>3, <1>5, SetParent
<1> HIDE DEF moved
<1>7. /\ turned1 \in Trees /\ turned1.root = moved.root /\ turned1.parent = moved.parent /\ turned1.color = moved.color
      /\ turned1.size = moved.size /\ turned1.max_high = moved.max_high /\ turned1.fault = moved.fault
      /\ \A r \in Sides, m \in Cells :
           turned1.child[r][m] = IF r = Other(s) /\ m = x THEN inner ELSE moved.child[r][m]
  <2>1. PICK o \in Sides : o = Other(s)
    BY <1>3
  <2>2. PICK w \in Trees : w = moved
    BY <1>6
  <2>3. PICK z : z = [w EXCEPT !.child[o][x] = inner]
    OBVIOUS
  <2>4. turned1 = z
    BY <2>1, <2>2, <2>3
  <2>5. /\ z \in Trees /\ z.root = w.root /\ z.parent = w.parent /\ z.color = w.color
        /\ z.size = w.size /\ z.max_high = w.max_high /\ z.fault = w.fault
        /\ \A r \in Sides, m \in Cells : z.child[r][m] = IF r = o /\ m = x THEN inner ELSE w.child[r][m]
    BY <2>3, <1>3, SetChild
  <2> HIDE DEF turned1
  <2> QED
    BY <2>1, <2>2, <2>4, <2>5
<1> HIDE DEF turned1
<1>8. /\ turned2 \in Trees /\ turned2.root = turned1.root /\ turned2.parent = turned1.parent /\ turned2.color = turned1.color
      /\ turned2.size = turned1.size /\ turned2.max_high = turned1.max_high /\ turned2.fault = turned1.fault
      /\ \A r \in Sides, m \in Cells :
           turned2.child[r][m] = IF r = s /\ m = y THEN x ELSE turned1.child[r][m]
  <2>1. PICK w \in Trees : w = turned1
    BY <1>7
  <2>2. PICK z : z = [w EXCEPT !.child[s][y] = x]
    OBVIOUS
  <2>3. turned2 = z
    BY <2>1, <2>2
  <2>4. /\ z \in Trees /\ z.root = w.root /\ z.parent = w.parent /\ z.color = w.color
        /\ z.size = w.size /\ z.max_high = w.max_high /\ z.fault = w.fault
        /\ \A r \in Sides, m \in Cells : z.child[r][m] = IF r = s /\ m = y THEN x ELSE w.child[r][m]
    BY <2>2, <1>3, SetChild
  <2> HIDE DEF turned2
  <2> QED
    BY <2>1, <2>3, <2>4
<1> HIDE DEF turned2
<1>9. /\ turned \in Trees /\ turned.root = turned2.root /\ turned.child = turned2.child /\ turned.color = turned2.color
      /\ turned.size = turned2.size /\ turned.max_high = turned2.max_high /\ turned.fault = turned2.fault
      /\ \A m \in Cells : turned.parent[m] = IF m = x THEN y ELSE turned2.parent[m]
  BY <1>3, <1>8, SetParent
<1> HIDE DEF turned
<1>10. /\ linked \in Trees /\ linked.root = turned.root /\ linked.child = turned.child /\ linked.color = turned.color
       /\ linked.size = turned.size /\ linked.max_high = turned.max_high /\ linked.fault = turned.fault
       /\ \A m \in Cells : linked.parent[m] = IF inner # NIL /\ m = inner THEN x ELSE turned.parent[m]
  BY <1>3, <1>9, SetParent
<1> HIDE DEF linked
<1>11. Other(s) # s
  BY OtherSide
<1>12. \A r \in Sides, m \in Cells :
          linked.child[r][m] = IF m = x /\ r = Other(s) THEN inner
                          ELSE IF m = y /\ r = s THEN x
                          ELSE IF t.parent[x] # NIL /\ m = t.parent[x] /\ r = Side(t, x) THEN y
                          ELSE t.child[r][m]
  BY <1>5, <1>6, <1>7, <1>8, <1>9, <1>10, <1>11
<1>13. linked.child["left"][x] \in Cells /\ linked.child["right"][x] \in Cells
  BY <1>3, <1>12 DEF LinksOK, Cells, Sides
<1>14. PICK sized : sized = SizeAfterRotate(linked, x, y)
  OBVIOUS
<1>15. /\ sized \in Trees /\ sized.root = linked.root /\ sized.child = linked.child /\ sized.parent = linked.parent
       /\ sized.color = linked.color /\ sized.max_high = linked.max_high /\ sized.fault = linked.fault
       /\ \A m \in Cells :
            sized.size[m] = IF m = x THEN linked.size[linked.child["left"][x]] + linked.size[linked.child["right"][x]] + 1
                            ELSE IF m = y THEN linked.size[x] ELSE linked.size[m]
  <2>1. PICK w \in Trees : w = linked
    BY <1>10
  <2>2. w.child["left"][x] \in Cells /\ w.child["right"][x] \in Cells
    BY <2>1, <1>13
  <2>3. PICK z : z = SizeAfterRotate(w, x, y)
    OBVIOUS
  <2>4. /\ z \in Trees /\ z.root = w.root /\ z.child = w.child /\ z.parent = w.parent
        /\ z.color = w.color /\ z.max_high = w.max_high /\ z.fault = w.fault
        /\ \A m \in Cells :
             z.size[m] = IF m = x THEN w.size[w.child["left"][x]] + w.size[w.child["right"][x]] + 1
                         ELSE IF m = y THEN w.size[x] ELSE w.size[m]
    BY <2>2, <2>3, <1>3, SizeAfterRotateIs
  <2> QED
    BY <2>1, <2>3, <2>4, <1>14
<1>16. PICK u : u = MaxHighAfterRotate(sized, x, y)
  OBVIOUS
<1>17. /\ u \in Trees /\ u.root = sized.root /\ u.child = sized.child /\ u.parent = sized.parent
       /\ u.color = sized.color /\ u.size = sized.size /\ u.fault = sized.fault
       /\ \A m \in Cells :
            u.max_high[m] = IF m = x THEN MaxHigh(sized.max_high, sized.child, x)
                            ELSE IF m = y THEN sized.max_high[x] ELSE sized.max_high[m]
  BY <1>3, <1>13, <1>15, <1>16, MaxHighAfterRotateIs
<1>18. /\ \A m \in Cells :
          u.parent[m] = IF inner # NIL /\ m = inner THEN x
                        ELSE IF m = x THEN y
                        ELSE IF m = y THEN t.parent[x] ELSE t.parent[m]
       /\ \A m \in Cells :
          u.size[m] = IF m = x THEN t.size[u.child["left"][x]] + t.size[u.child["right"][x]] + 1
                      ELSE IF m = y THEN t.size[x] ELSE t.size[m]
       /\ \A m \in Cells :
          u.max_high[m] = IF m = x THEN MaxHigh(t.max_high, u.child, x)
                          ELSE IF m = y THEN t.max_high[x] ELSE t.max_high[m]
  BY <1>5, <1>6, <1>7, <1>8, <1>9, <1>10, <1>15, <1>17
<1>19. u.color = t.color /\ u.fault = t.fault /\ u.root = (IF t.parent[x] = NIL THEN y ELSE t.root)
  BY <1>5, <1>6, <1>7, <1>8, <1>9, <1>10, <1>15, <1>17
<1>20. u.child = linked.child
  BY <1>15, <1>17
<1>21. u = Rotate(t, x, s)
  BY <1>4, <1>14, <1>16
<1>22. Rotated(t, u, x, s)
  BY <1>1, <1>2, <1>12, <1>17, <1>18, <1>19, <1>20 DEF Rotated
<1> QED
  BY <1>21, <1>22

-----------------------------------------------------------------------------
(* The laws of a tree.                                                     *)

\* The nodes of the tree are those from the root downward, the others are alone.
Rooted(t, sub, here) ==
  /\ here \subseteq Nodes /\ sub[t.root] = here
  /\ t.root # NIL => t.parent[t.root] = NIL
  /\ \A n \in Nodes \ here : sub[n] = {n} /\ t.parent[n] = NIL

\* What is on side s of a node is not after it, or not before it.
Le(s, m, n) == IF s = "left" THEN Data[m] <= Data[n] ELSE Data[n] <= Data[m]
Sorted(t, sub) == \A n \in Nodes, s \in Sides : \A m \in sub[t.child[s][n]] : Le(s, m, n)

Sized(t, sub, here) ==
  /\ t.size[NIL] = 0
  /\ \A n \in Nodes : t.size[n] = IF n \in here THEN Cardinality(sub[n]) ELSE 0

Maxed(t, here) ==
  /\ t.max_high[NIL] = 0
  /\ \A n \in here : t.max_high[n] = MaxHigh(t.max_high, t.child, n)

Shape(t, sub, here) ==
  /\ LinksOK(t) /\ Forest(t, sub) /\ Rooted(t, sub, here) /\ Sorted(t, sub)
  /\ t.color[NIL] = "BLACK"

Whole(t, sub, here) == Shape(t, sub, here) /\ Sized(t, sub, here) /\ Maxed(t, here)

\* The subtree of a node is the node and what is on either side of it.
Joins(t, sub, n, s) ==
  /\ sub[n] = {n} \cup sub[t.child[s][n]] \cup sub[t.child[Other(s)][n]]
  /\ n \notin sub[t.child[s][n]] /\ n \notin sub[t.child[Other(s)][n]]
  /\ sub[t.child[s][n]] \cap sub[t.child[Other(s)][n]] = {}

LinksBothWays(t, n) ==
  /\ \A s \in Sides : t.child[s][n] # NIL => t.parent[t.child[s][n]] = n
  /\ t.parent[n] # NIL => \E s \in Sides : t.child[s][t.parent[n]] = n

LEMMA ForestJoins ==
  ASSUME NEW t, NEW sub, Forest(t, sub), NEW n \in Nodes
  PROVE  LinksBothWays(t, n) /\ \A s \in Sides : Joins(t, sub, n, s)
BY DEF Forest, Joins, LinksBothWays, Sides, Other

LEMMA JoinsForest ==
  ASSUME NEW t, NEW sub \in [Cells -> SUBSET Nodes], sub[NIL] = {},
         \A n \in Nodes : LinksBothWays(t, n) /\ \E s \in Sides : Joins(t, sub, n, s)
  PROVE  Forest(t, sub)
<1>1. ASSUME NEW n \in Nodes
      PROVE  /\ sub[n] = {n} \cup sub[t.child["left"][n]] \cup sub[t.child["right"][n]]
             /\ \A s \in Sides : n \notin sub[t.child[s][n]]
             /\ sub[t.child["left"][n]] \cap sub[t.child["right"][n]] = {}
  <2>1. PICK s \in Sides : Joins(t, sub, n, s)
    OBVIOUS
  <2>2. CASE s = "left"
    BY <2>1, <2>2 DEF Joins, Sides, Other
  <2>3. CASE s = "right"
    BY <2>1, <2>3 DEF Joins, Sides, Other
  <2> QED
    BY <2>2, <2>3 DEF Sides
<1> QED
  BY <1>1 DEF Forest, LinksBothWays

LEMMA InTree ==
  ASSUME NEW t, NEW sub, NEW here, LinksOK(t), Forest(t, sub), Rooted(t, sub, here)
  PROVE  /\ here \in SUBSET Nodes /\ t.root \in here \cup {NIL}
         /\ t.root = NIL <=> here = {}
         /\ \A n \in here :
              /\ n \in Nodes /\ sub[n] \subseteq here
              /\ \A s \in Sides : t.child[s][n] \in here \cup {NIL}
              /\ t.parent[n] = NIL <=> n = t.root
              /\ t.parent[n] # NIL => t.parent[n] \in here
         /\ \A n \in Nodes \ here : \A s \in Sides : t.child[s][n] = NIL
<1>1. here \in SUBSET Nodes /\ t.root \in Cells /\ sub[t.root] = here /\ sub[NIL] = {}
  BY DEF Rooted, LinksOK, Trees, Forest
<1>2. t.root \in here \cup {NIL} /\ (t.root = NIL <=> here = {})
  BY <1>1, InForest DEF Cells
<1>3. ASSUME NEW n \in here
      PROVE  /\ n \in Nodes /\ sub[n] \subseteq here
             /\ \A s \in Sides : t.child[s][n] \in here \cup {NIL}
             /\ t.parent[n] = NIL <=> n = t.root
             /\ t.parent[n] # NIL => t.parent[n] \in here
  <2>1. n \in Nodes /\ sub[n] \subseteq here
    BY <1>1, BelowBelow
  <2>2. ASSUME NEW s \in Sides PROVE t.child[s][n] \in here \cup {NIL}
    BY <2>1, InForest DEF Cells
  <2>3. \/ n = t.root
        \/ /\ t.parent[n] # NIL
           /\ t.parent[n] \in here
    BY <1>1, <2>1, AboveIs
  <2>4. n = t.root => t.parent[n] = NIL
    BY <2>1, NodesAreFinite DEF Rooted
  <2> QED
    BY <2>1, <2>2, <2>3, <2>4
<1>4. ASSUME NEW n \in Nodes \ here, NEW s \in Sides PROVE t.child[s][n] = NIL
  <2>1. sub[n] = {n} /\ n \notin sub[t.child[s][n]] /\ sub[t.child[s][n]] \subseteq sub[n] /\ t.child[s][n] \in Cells
    BY InForest DEF Rooted
  <2>2. t.child[s][n] \in Nodes => t.child[s][n] \in sub[t.child[s][n]]
    BY InForest
  <2> QED
    BY <2>1, <2>2 DEF Cells
<1> QED
  BY <1>1, <1>2, <1>3, <1>4

-----------------------------------------------------------------------------
(* A rotation keeps the laws.                                              *)

\* The subtrees after x has gone down on side s below y.
Turned(t, sub, x, y, s) ==
  [n \in Cells |-> IF n = y THEN sub[x]
                   ELSE IF n = x THEN {x} \cup sub[t.child[s][x]] \cup sub[t.child[s][y]]
                   ELSE sub[n]]

\* Where the nodes of a rotation are.
LEMMA RotationPlaces ==
  ASSUME NEW t, NEW sub, LinksOK(t), Forest(t, sub), NEW x \in Nodes, NEW s \in Sides,
         NEW y \in Nodes, y = t.child[Other(s)][x],
         NEW inner, inner = t.child[s][y]
  PROVE  /\ y # x /\ inner \in Cells /\ inner # x /\ inner # y /\ t.parent[y] = x
         /\ inner # NIL => t.parent[inner] = y
         /\ y \in sub[x] /\ x \notin sub[y]
         /\ t.parent[x] \in Cells /\ t.parent[x] # x /\ t.parent[x] # y
         /\ t.parent[x] # NIL =>
              /\ Side(t, x) \in Sides /\ t.child[Side(t, x)][t.parent[x]] = x
              /\ t.child[Other(Side(t, x))][t.parent[x]] # x
         /\ \A n \in Nodes, r \in Sides :
              /\ t.child[r][n] = x => n = t.parent[x]
              /\ t.child[r][n] = y => n = x /\ r = Other(s)
              /\ inner # NIL /\ t.child[r][n] = inner => n = y /\ r = s
<1>1. Joins(t, sub, x, s) /\ Joins(t, sub, y, s) /\ LinksBothWays(t, x) /\ LinksBothWays(t, y)
      /\ Other(s) \in Sides /\ Other(s) # s /\ \A r \in Sides : r = s \/ r = Other(s)
  BY ForestJoins, OtherSide
<1>2. inner \in Cells /\ t.parent[x] \in Cells /\ x # NIL /\ y # NIL
  BY NodesAreFinite DEF LinksOK
<1>3. x \in sub[x] /\ y \in sub[y] /\ sub[inner] \subseteq sub[y] /\ y \notin sub[inner]
  BY InForest
<1>4. y # x /\ t.parent[y] = x /\ y \in sub[x] /\ x \notin sub[y]
  BY <1>1, <1>2, <1>3 DEF Joins, LinksBothWays
<1>5. (inner # NIL => inner \in sub[inner] /\ t.parent[inner] = y) /\ (inner = NIL => inner # x /\ inner # y)
  BY <1>1, <1>2, InForest DEF LinksBothWays, Cells
<1>6. inner # x /\ inner # y
  BY <1>3, <1>4, <1>5
<1>7. \A n \in Nodes, r \in Sides : t.child[r][n] # NIL => t.parent[t.child[r][n]] = n
  BY InForest
<1>8. /\ t.parent[x] # x
      /\ t.parent[x] # y
      /\ t.parent[x] # NIL => /\ Side(t, x) \in Sides /\ t.child[Side(t, x)][t.parent[x]] = x
                              /\ t.child[Other(Side(t, x))][t.parent[x]] # x
  <2>1. CASE t.parent[x] = NIL
    BY <2>1, <1>2
  <2>2. CASE t.parent[x] # NIL
    <3>1. PICK p \in Nodes : p = t.parent[x]
      BY <2>2, <1>2 DEF Cells
    <3>2. PICK r \in Sides : t.child[r][p] = x
      BY <3>1, <2>2, <1>1 DEF LinksBothWays
    <3>3. Joins(t, sub, p, r) /\ p \in sub[p] /\ Other(r) \in Sides
      BY ForestJoins, InForest, OtherSide
    <3>4. t.child[Other(r)][p] # x /\ p \notin sub[x]
      BY <3>2, <3>3, <1>3 DEF Joins
    <3>5. Side(t, x) = r
      BY <3>1, <3>2, <3>4 DEF Side, Sides, Other
    <3>6. p # x /\ p # y
      BY <3>4, <1>3, <1>4
    <3> QED
      BY <3>1, <3>2, <3>4, <3>5, <3>6
  <2> QED
    BY <2>1, <2>2
<1>9. t.child[s][x] # y /\ (inner # NIL => t.child[Other(s)][y] # inner)
  BY <1>1, <1>3, <1>5 DEF Joins
<1>10. ASSUME NEW n \in Nodes, NEW r \in Sides
       PROVE  /\ t.child[r][n] = x => n = t.parent[x]
              /\ t.child[r][n] = y => n = x /\ r = Other(s)
              /\ inner # NIL /\ t.child[r][n] = inner => n = y /\ r = s
  BY <1>1, <1>2, <1>4, <1>5, <1>7, <1>9
<1> QED
  BY <1>2, <1>4, <1>5, <1>6, <1>8, <1>10

LEMMA RotateForest ==
  ASSUME NEW t, NEW sub, LinksOK(t), Forest(t, sub), NEW x \in Nodes, NEW s \in Sides,
         NEW y \in Nodes, y = t.child[Other(s)][x],
         NEW u, Rotated(t, u, x, s)
  PROVE  LinksOK(u) /\ Forest(u, Turned(t, sub, x, y, s))
<1>1. PICK inner : inner = t.child[s][y]
  OBVIOUS
<1>2. PICK p : p = t.parent[x]
  OBVIOUS
<1>3. PICK side : side = Side(t, x)
  OBVIOUS
<1> DEFINE sub2 == Turned(t, sub, x, y, s)
<1>4. /\ y # x /\ inner \in Cells /\ inner # x /\ inner # y /\ t.parent[y] = x
      /\ inner # NIL => t.parent[inner] = y
      /\ y \in sub[x] /\ x \notin sub[y]
      /\ p \in Cells /\ p # x /\ p # y
      /\ p # NIL => side \in Sides /\ t.child[side][p] = x /\ t.child[Other(side)][p] # x
      /\ \A n \in Nodes, r \in Sides :
           /\ t.child[r][n] = x => n = p
           /\ t.child[r][n] = y => n = x /\ r = Other(s)
           /\ inner # NIL /\ t.child[r][n] = inner => n = y /\ r = s
  BY <1>1, <1>2, <1>3, RotationPlaces
<1>5. /\ u \in Trees
      /\ \A r \in Sides, m \in Cells :
          u.child[r][m] = IF m = x /\ r = Other(s) THEN inner
                          ELSE IF m = y /\ r = s THEN x
                          ELSE IF p # NIL /\ m = p /\ r = side THEN y
                          ELSE t.child[r][m]
      /\ \A m \in Cells :
          u.parent[m] = IF inner # NIL /\ m = inner THEN x
                        ELSE IF m = x THEN y
                        ELSE IF m = y THEN p ELSE t.parent[m]
  BY <1>1, <1>2, <1>3 DEF Rotated
<1>6. /\ Other(s) \in Sides /\ Other(s) # s /\ \A r \in Sides : r = s \/ r = Other(s)
      /\ x \in Cells /\ y \in Cells /\ x # NIL /\ y # NIL /\ NIL \in Cells
      /\ \A n \in Nodes : n \in Cells /\ n # NIL
      /\ \A n \in Nodes : t.parent[n] \in Cells /\ \A r \in Sides : t.child[r][n] \in Cells
  BY OtherSide, NodesAreFinite DEF Cells, LinksOK
<1>7. LinksOK(u)
  BY <1>4, <1>5, <1>6 DEF LinksOK
<1>8. \A n \in Nodes : LinksBothWays(t, n)
  BY ForestJoins
<1>9. ASSUME NEW n \in Nodes PROVE LinksBothWays(u, n)
  <2>1. ASSUME NEW r \in Sides, u.child[r][n] # NIL PROVE u.parent[u.child[r][n]] = n
    <3>1. CASE n = x /\ r = Other(s)
      BY <3>1, <2>1, <1>4, <1>5, <1>6
    <3>2. CASE n = y /\ r = s
      BY <3>2, <2>1, <1>4, <1>5, <1>6
    <3>3. CASE p # NIL /\ n = p /\ r = side
      BY <3>3, <2>1, <1>4, <1>5, <1>6
    <3>4. CASE ~(n = x /\ r = Other(s)) /\ ~(n = y /\ r = s) /\ ~(p # NIL /\ n = p /\ r = side)
      <4>1. u.child[r][n] = t.child[r][n] /\ t.parent[t.child[r][n]] = n /\ t.child[r][n] \in Cells
        BY <3>4, <2>1, <1>5, <1>6, <1>8 DEF LinksBothWays
      <4>2. t.child[r][n] # x
        <5>1. SUFFICES ASSUME t.child[r][n] = x PROVE FALSE
          OBVIOUS
        <5>2. n = p /\ p # NIL /\ r # side
          BY <5>1, <3>4, <1>4, <1>6
        <5>3. r = Other(side)
          BY <5>2, <1>4, OtherSide
        <5> QED
          BY <5>1, <5>2, <5>3, <1>4
      <4>3. t.child[r][n] # y /\ (inner # NIL => t.child[r][n] # inner)
        BY <3>4, <1>4
      <4> QED
        BY <4>1, <4>2, <4>3, <2>1, <1>5
    <3> QED
      BY <3>1, <3>2, <3>3, <3>4
  <2>2. ASSUME u.parent[n] # NIL PROVE \E r \in Sides : u.child[r][u.parent[n]] = n
    <3>1. CASE inner # NIL /\ n = inner
      BY <3>1, <1>5, <1>6
    <3>2. CASE n = x
      BY <3>2, <1>4, <1>5, <1>6
    <3>3. CASE n = y
      BY <3>3, <2>2, <1>4, <1>5, <1>6
    <3>4. CASE ~(inner # NIL /\ n = inner) /\ n # x /\ n # y
      <4>1. u.parent[n] = t.parent[n] /\ t.parent[n] \in Nodes
        BY <3>4, <2>2, <1>5, <1>6 DEF Cells
      <4>2. PICK r \in Sides : t.child[r][t.parent[n]] = n
        BY <4>1, <2>2, <1>8 DEF LinksBothWays
      <4>3. u.child[r][t.parent[n]] = n
        BY <3>4, <4>1, <4>2, <1>1, <1>4, <1>5, <1>6
      <4> QED
        BY <4>1, <4>3
    <3> QED
      BY <3>1, <3>2, <3>3, <3>4
  <2> QED
    BY <2>1, <2>2 DEF LinksBothWays
<1>10. \A n \in Nodes : \A r \in Sides : Joins(t, sub, n, r)
  BY ForestJoins
<1>11. /\ sub2 \in [Cells -> SUBSET Nodes] /\ sub2[NIL] = {} /\ sub2[y] = sub[x]
       /\ sub2[x] = {x} \cup sub[t.child[s][x]] \cup sub[inner]
       /\ \A n \in Cells : n # x /\ n # y => sub2[n] = sub[n]
  <2>1. sub \in [Cells -> SUBSET Nodes] /\ sub[NIL] = {} /\ t.child[s][x] \in Cells
    BY <1>6 DEF Forest
  <2>2. sub[x] \in SUBSET Nodes /\ ({x} \cup sub[t.child[s][x]] \cup sub[inner]) \in SUBSET Nodes
    BY <2>1, <1>4, <1>6
  <2>3. sub2 = [n \in Cells |-> IF n = y THEN sub[x]
                   ELSE IF n = x THEN {x} \cup sub[t.child[s][x]] \cup sub[inner]
                   ELSE sub[n]]
    BY <1>1 DEF Turned
  <2> HIDE DEF sub2
  <2> QED
    BY <2>1, <2>2, <2>3, <1>4, <1>6
<1> HIDE DEF sub2
<1>12. \A n \in Nodes, r \in Sides : n # x /\ n # y => sub2[u.child[r][n]] = sub[t.child[r][n]]
  <2>1. ASSUME NEW n \in Nodes, NEW r \in Sides, n # x, n # y PROVE sub2[u.child[r][n]] = sub[t.child[r][n]]
    <3>1. CASE p # NIL /\ n = p /\ r = side
      BY <3>1, <2>1, <1>4, <1>5, <1>6, <1>11
    <3>2. CASE ~(p # NIL /\ n = p /\ r = side)
      <4>1. u.child[r][n] = t.child[r][n] /\ t.child[r][n] \in Cells
        BY <3>2, <2>1, <1>5, <1>6
      <4>2. t.child[r][n] # x
        <5>1. SUFFICES ASSUME t.child[r][n] = x PROVE FALSE
          OBVIOUS
        <5>2. n = p /\ p # NIL /\ r # side
          BY <5>1, <3>2, <1>4, <1>6
        <5>3. r = Other(side)
          BY <5>2, <1>4, OtherSide
        <5> QED
          BY <5>1, <5>2, <5>3, <1>4
      <4>3. t.child[r][n] # y
        BY <2>1, <1>4
      <4> QED
        BY <4>1, <4>2, <4>3, <1>11
    <3> QED
      BY <3>1, <3>2
  <2> QED
    BY <2>1
<1>13. ASSUME NEW n \in Nodes PROVE \E r \in Sides : Joins(u, sub2, n, r)
  <2>1. CASE n # x /\ n # y
    <3>1. Joins(t, sub, n, s) /\ sub2[n] = sub[n] /\ n \in Cells
      BY <2>1, <1>6, <1>10, <1>11
    <3>2. sub2[u.child[s][n]] = sub[t.child[s][n]] /\ sub2[u.child[Other(s)][n]] = sub[t.child[Other(s)][n]]
      BY <2>1, <1>6, <1>12
    <3> QED
      BY <3>1, <3>2 DEF Joins
  <2>2. PICK a : a = t.child[s][x]
    OBVIOUS
  <2>3. PICK o : o = t.child[Other(s)][y]
    OBVIOUS
  <2>4. /\ sub[x] = {x} \cup sub[a] \cup sub[y] /\ x \notin sub[a] /\ x \notin sub[y] /\ sub[a] \cap sub[y] = {}
        /\ sub[y] = {y} \cup sub[inner] \cup sub[o] /\ y \notin sub[inner] /\ y \notin sub[o] /\ sub[inner] \cap sub[o] = {}
    BY <1>1, <1>10, <2>2, <2>3 DEF Joins
  <2>5. a \in Cells /\ o \in Cells /\ a # x /\ a # y /\ o # x /\ o # y
    <3>1. a \in Cells /\ o \in Cells /\ x \in sub[x] /\ y \in sub[y]
      BY <2>2, <2>3, <1>6, InForest
    <3> QED
      BY <3>1, <2>4
  <2>6. /\ sub2[y] = sub[x] /\ sub2[x] = {x} \cup sub[a] \cup sub[inner]
        /\ sub2[a] = sub[a] /\ sub2[o] = sub[o] /\ sub2[inner] = sub[inner]
    BY <2>2, <2>5, <1>4, <1>11
  <2>7. /\ u.child[s][x] = a /\ u.child[Other(s)][x] = inner
        /\ u.child[s][y] = x /\ u.child[Other(s)][y] = o
    BY <2>2, <2>3, <1>4, <1>5, <1>6
  <2>8. CASE n = x
    BY <2>4, <2>6, <2>7, <2>8 DEF Joins
  <2>9. CASE n = y
    <3>1. y \notin sub[a] /\ sub[a] \cap sub[o] = {} /\ x \notin sub[o]
      BY <2>4
    <3>2. y \notin sub2[x] /\ sub2[x] \cap sub2[o] = {} /\ y \notin sub2[o]
      BY <2>4, <2>6, <3>1, <1>4
    <3>3. sub2[y] = {y} \cup sub2[x] \cup sub2[o]
      BY <2>4, <2>6
    <3> QED
      BY <3>2, <3>3, <2>7, <2>9 DEF Joins
  <2> QED
    BY <2>1, <2>8, <2>9
<1>14. Forest(u, sub2)
  BY <1>9, <1>11, <1>13, JoinsForest
<1> QED
  BY <1>7, <1>14 DEF sub2

LEMMA SubtreeSize ==
  ASSUME NEW t, NEW sub, LinksOK(t), Forest(t, sub), NEW n \in Nodes, NEW s \in Sides
  PROVE  Cardinality(sub[n]) =
           Cardinality(sub[t.child[s][n]]) + Cardinality(sub[t.child[Other(s)][n]]) + 1
<1>1. PICK a : a = sub[t.child[s][n]]
  OBVIOUS
<1>2. PICK b : b = sub[t.child[Other(s)][n]]
  OBVIOUS
<1>3. sub[n] = (a \cup b) \cup {n} /\ n \notin a \cup b /\ a \cap b = {}
  BY <1>1, <1>2, ForestJoins DEF Joins
<1>4. sub[n] \in SUBSET Nodes
  BY InForest
<1>5. a \in SUBSET Nodes /\ b \in SUBSET Nodes
  BY <1>3, <1>4
<1>6. IsFiniteSet(a) /\ IsFiniteSet(b) /\ Cardinality(a) \in Nat /\ Cardinality(b) \in Nat
  BY <1>5, NodesAreFinite
<1>7. IsFiniteSet(a \cup b) /\ Cardinality(a \cup b) = Cardinality(a) + Cardinality(b)
  <2>1. IsFiniteSet(a \cup b) /\ Cardinality(a \cup b) = Cardinality(a) + Cardinality(b) - Cardinality(a \cap b)
    BY <1>6, FS_Union
  <2>2. Cardinality(a \cap b) = 0
    BY <1>3, FS_EmptySet
  <2> QED
    BY <2>1, <2>2, <1>6
<1>8. Cardinality((a \cup b) \cup {n}) = Cardinality(a \cup b) + 1
  BY <1>3, <1>7, FS_AddElement
<1> QED
  BY <1>1, <1>2, <1>3, <1>6, <1>7, <1>8

LEMMA MaxHighBySide ==
  ASSUME NEW high \in [Cells -> Nat], NEW child, NEW n \in Nodes, NEW s \in Sides,
         \A r \in Sides : child[r][n] \in Cells
  PROVE  /\ MaxHigh(high, child, n) = Max3(high[child[s][n]], high[child[Other(s)][n]], High[n])
         /\ MaxHigh(high, child, n) \in Nat /\ High[n] \in Nat
<1>1. PICK a \in Nat : a = high[child["left"][n]]
  BY DEF Sides
<1>2. PICK b \in Nat : b = high[child["right"][n]]
  BY DEF Sides
<1>3. PICK c \in Nat : c = High[n]
  BY TreeAssumption
<1>4. MaxHigh(high, child, n) = Max3(a, b, c)
  BY <1>1, <1>2, <1>3, MaxHighIs
<1>5. Max3(a, b, c) = Max3(b, a, c)
  BY {a, b, c} = {b, a, c} DEF Max3
<1>6. Max3(a, b, c) \in Nat
  BY Max3Is
<1> QED
  BY <1>1, <1>2, <1>3, <1>4, <1>5, <1>6 DEF Sides, Other

LEMMA RotateShape ==
  ASSUME NEW t, NEW sub, NEW here, Shape(t, sub, here), NEW x \in here, NEW s \in Sides,
         NEW y \in Nodes, y = t.child[Other(s)][x],
         NEW u, Rotated(t, u, x, s)
  PROVE  Shape(u, Turned(t, sub, x, y, s), here) /\ y \in here
<1> DEFINE sub2 == Turned(t, sub, x, y, s)
<1>1. LinksOK(t) /\ Forest(t, sub) /\ Rooted(t, sub, here) /\ Sorted(t, sub) /\ t.color[NIL] = "BLACK"
  BY DEF Shape
<1>2. PICK inner : inner = t.child[s][y]
  OBVIOUS
<1>3. PICK p : p = t.parent[x]
  OBVIOUS
<1>4. x \in Nodes /\ Other(s) \in Sides /\ Other(s) # s /\ \A r \in Sides : r = s \/ r = Other(s)
  BY <1>1, InTree, OtherSide
<1>5. /\ y # x /\ inner \in Cells /\ inner # x /\ inner # y /\ t.parent[y] = x
      /\ inner # NIL => t.parent[inner] = y
      /\ y \in sub[x] /\ x \notin sub[y] /\ p \in Cells /\ p # x /\ p # y
  BY <1>1, <1>2, <1>3, <1>4, RotationPlaces
<1>6. LinksOK(u) /\ Forest(u, sub2)
  BY <1>1, <1>4, RotateForest
<1>7. y \in here /\ t.root \in here /\ (t.parent[x] = NIL <=> x = t.root) /\ y # NIL /\ x # NIL
  BY <1>1, <1>4, <1>5, InTree, NodesAreFinite
<1>8. sub2[y] = sub[x] /\ \A n \in Cells : n # x /\ n # y => sub2[n] = sub[n]
  BY <1>4, <1>5 DEF Turned, Cells
<1>9. /\ u.color = t.color
      /\ u.root = IF p = NIL THEN y ELSE t.root
      /\ \A m \in Cells : u.parent[m] = IF inner # NIL /\ m = inner THEN x
                                        ELSE IF m = x THEN y
                                        ELSE IF m = y THEN p ELSE t.parent[m]
  BY <1>2, <1>3 DEF Rotated
<1> HIDE DEF sub2
<1>10. Rooted(u, sub2, here)
  <2>1. sub2[u.root] = here /\ u.parent[u.root] = NIL
    <3>1. CASE p = NIL
      <4>1. u.root = y /\ sub[x] = here
        BY <3>1, <1>1, <1>3, <1>7, <1>9 DEF Rooted
      <4>2. u.parent[y] = NIL
        BY <3>1, <1>5, <1>9 DEF Cells
      <4> QED
        BY <4>1, <4>2, <1>8
    <3>2. CASE p # NIL
      <4>1. u.root = t.root /\ t.root # x /\ t.parent[t.root] = NIL /\ t.root \in Nodes
        BY <3>2, <1>1, <1>3, <1>7, <1>9, InTree, NodesAreFinite DEF Rooted
      <4>2. t.root # y
        BY <4>1, <1>5, <1>7
      <4>3. inner # NIL => t.root # inner
        BY <4>1, <1>5, <1>7
      <4> QED
        BY <4>1, <4>2, <4>3, <1>1, <1>8, <1>9 DEF Rooted, Cells
    <3> QED
      BY <3>1, <3>2
  <2>2. ASSUME NEW n \in Nodes \ here PROVE sub2[n] = {n} /\ u.parent[n] = NIL
    <3>1. n # x /\ n # y /\ sub[n] = {n} /\ t.parent[n] = NIL
      BY <1>1, <1>7 DEF Rooted
    <3>2. inner # NIL => n # inner
      BY <3>1, <1>5, <1>7
    <3> QED
      BY <3>1, <3>2, <1>8, <1>9 DEF Cells
  <2> QED
    BY <2>1, <2>2, <1>1 DEF Rooted
<1>11. Sorted(u, sub2)
  <2>1. \A n \in Nodes, r \in Sides : n # x /\ n # y => sub2[u.child[r][n]] = sub[t.child[r][n]]
    <3>1. ASSUME NEW n \in Nodes, NEW r \in Sides, n # x, n # y PROVE sub2[u.child[r][n]] = sub[t.child[r][n]]
      <4>1. PICK side : side = Side(t, x)
        OBVIOUS
      <4>2. /\ t.child[r][n] = x => n = p
            /\ t.child[r][n] # y
            /\ p # NIL => side \in Sides /\ t.child[side][p] = x /\ t.child[Other(side)][p] # x
            /\ t.child[r][n] \in Cells
        BY <4>1, <3>1, <1>1, <1>2, <1>3, <1>4, RotationPlaces DEF LinksOK
      <4>3. u.child[r][n] = IF p # NIL /\ n = p /\ r = side THEN y ELSE t.child[r][n]
        BY <4>1, <3>1, <1>3 DEF Rotated, Cells
      <4>4. CASE p # NIL /\ n = p /\ r = side
        BY <4>2, <4>3, <4>4, <1>8
      <4>5. CASE ~(p # NIL /\ n = p /\ r = side)
        <5>1. t.child[r][n] # x
          <6>1. SUFFICES ASSUME t.child[r][n] = x PROVE FALSE
            OBVIOUS
          <6>2. n = p /\ p # NIL /\ r # side
            BY <6>1, <4>2, <4>5, NodesAreFinite
          <6>3. r = Other(side)
            BY <6>2, <4>2, OtherSide
          <6> QED
            BY <6>1, <6>2, <6>3, <4>2
        <5> QED
          BY <5>1, <4>2, <4>3, <4>5, <1>8
      <4> QED
        BY <4>4, <4>5
    <3> QED
      BY <3>1
  <2>2. PICK a : a = t.child[s][x]
    OBVIOUS
  <2>3. PICK o : o = t.child[Other(s)][y]
    OBVIOUS
  <2>4. /\ sub[x] = {x} \cup sub[a] \cup sub[y] /\ sub[y] = {y} \cup sub[inner] \cup sub[o]
        /\ x \notin sub[a] /\ y \notin sub[o] /\ y \notin sub[inner]
    BY <1>1, <1>2, <1>4, <2>2, <2>3, ForestJoins DEF Joins
  <2>5. a \in Cells /\ o \in Cells /\ a # x /\ a # y /\ o # x /\ o # y
    <3>1. a \in Cells /\ o \in Cells /\ x \in sub[x] /\ y \in sub[y]
      BY <2>2, <2>3, <1>1, <1>4, InForest
    <3>2. t.child[s][x] # y
      BY <1>1, <1>2, <1>4, RotationPlaces
    <3>3. o # x
      BY <2>4, <3>1, <1>5
    <3> QED
      BY <3>1, <3>2, <3>3, <2>2, <2>4
  <2>6. sub2[x] = {x} \cup sub[a] \cup sub[inner]
    BY <2>2, <1>2, <1>4, <1>5 DEF sub2, Turned, Cells
  <2>7. sub2[a] = sub[a] /\ sub2[o] = sub[o] /\ sub2[inner] = sub[inner]
    BY <2>5, <1>5, <1>8
  <2>8. /\ u.child[s][x] = a /\ u.child[Other(s)][x] = inner
        /\ u.child[s][y] = x /\ u.child[Other(s)][y] = o
    <3>1. /\ x \in Cells /\ y \in Cells /\ t.parent[x] # x /\ t.parent[x] # y
      BY <1>3, <1>4, <1>5 DEF Cells
    <3> QED
      BY <3>1, <2>2, <2>3, <1>2, <1>4, <1>5 DEF Rotated
  <2>9. /\ \A m \in sub[a] : Le(s, m, x)
        /\ \A m \in sub[y] : Le(Other(s), m, x)
        /\ \A m \in sub[inner] : Le(s, m, y)
        /\ \A m \in sub[o] : Le(Other(s), m, y)
    BY <2>2, <2>3, <1>1, <1>2, <1>4 DEF Sorted
  <2>10. \A n \in Nodes : Data[n] \in Nat
    BY TreeAssumption
  <2>11. y \in sub[y] /\ sub[a] \in SUBSET Nodes
    BY <2>5, <1>1, InForest DEF Forest
  <2>12. Le(s, x, y)
    BY <2>9, <2>11, <1>4 DEF Le, Sides, Other
  <2>13. \A m \in sub[a] : Le(s, m, y)
    <3>1. ASSUME NEW m \in sub[a] PROVE Le(s, m, y)
      <4>1. Data[m] \in Nat /\ Data[x] \in Nat /\ Data[y] \in Nat /\ Le(s, m, x)
        BY <2>9, <2>10, <2>11, <1>4
      <4> QED
        BY <4>1, <2>12 DEF Le
    <3> QED
      BY <3>1
  <2>14. ASSUME NEW n \in Nodes, NEW r \in Sides, NEW m \in sub2[u.child[r][n]] PROVE Le(r, m, n)
    <3>1. CASE n # x /\ n # y
      BY <3>1, <2>1, <2>14, <1>1 DEF Sorted
    <3>2. CASE n = x /\ r = s
      BY <3>2, <2>7, <2>8, <2>9, <2>14
    <3>3. CASE n = x /\ r = Other(s)
      <4>1. m \in sub[inner]
        BY <3>3, <2>7, <2>8, <2>14
      <4> QED
        BY <4>1, <3>3, <2>4, <2>9
    <3>4. CASE n = y /\ r = s
      <4>1. m \in {x} \cup sub[a] \cup sub[inner]
        BY <3>4, <2>6, <2>8, <2>14
      <4> QED
        BY <4>1, <3>4, <2>9, <2>12, <2>13
    <3>5. CASE n = y /\ r = Other(s)
      BY <3>5, <2>7, <2>8, <2>9, <2>14
    <3> QED
      BY <3>1, <3>2, <3>3, <3>4, <3>5, <1>4
  <2> QED
    BY <2>14 DEF Sorted
<1> QED
  BY <1>1, <1>6, <1>7, <1>9, <1>10, <1>11 DEF Shape, sub2

LEMMA RotateWhole ==
  ASSUME NEW t, NEW sub, NEW here, Whole(t, sub, here), NEW x \in here, NEW s \in Sides,
         NEW y \in Nodes, y = t.child[Other(s)][x],
         NEW u, Rotated(t, u, x, s)
  PROVE  Whole(u, Turned(t, sub, x, y, s), here)
<1> DEFINE sub2 == Turned(t, sub, x, y, s)
<1>1. LinksOK(t) /\ Forest(t, sub) /\ Rooted(t, sub, here) /\ Shape(t, sub, here)
  BY DEF Whole, Shape
<1>2. Shape(u, sub2, here) /\ LinksOK(u) /\ Forest(u, sub2) /\ y \in here
  BY <1>1, RotateShape DEF Shape
<1>3. PICK inner : inner = t.child[s][y]
  OBVIOUS
<1>4. PICK a : a = t.child[s][x]
  OBVIOUS
<1>5. PICK o : o = t.child[Other(s)][y]
  OBVIOUS
<1>6. /\ x \in Nodes /\ x \in Cells /\ y \in Cells /\ Other(s) \in Sides /\ Other(s) # s
      /\ \A r \in Sides : r = s \/ r = Other(s)
      /\ here \in SUBSET Nodes /\ NIL \in Cells /\ x # NIL /\ y # NIL
  BY <1>1, InTree, OtherSide, NodesAreFinite DEF Cells
<1>7. /\ y # x /\ inner \in Cells /\ inner # x /\ inner # y
      /\ t.parent[x] # x /\ t.parent[x] # y /\ y \in sub[x] /\ x \notin sub[y]
  BY <1>1, <1>3, <1>6, RotationPlaces
<1>8. a \in Cells /\ o \in Cells /\ a # x /\ a # y /\ o # x /\ o # y
      /\ a \in here \cup {NIL} /\ inner \in here \cup {NIL} /\ o \in here \cup {NIL}
  <2>1. a \in here \cup {NIL} /\ o \in here \cup {NIL} /\ inner \in here \cup {NIL}
    BY <1>1, <1>2, <1>3, <1>4, <1>5, <1>6, InTree
  <2>2. a # y
    BY <1>1, <1>3, <1>4, <1>6, RotationPlaces
  <2>3. Joins(t, sub, x, s) /\ Joins(t, sub, y, s) /\ x \in sub[x] /\ y \in sub[y]
    BY <1>1, <1>6, ForestJoins, InForest
  <2>4. a # x /\ o # y /\ o # x
    BY <2>3, <1>4, <1>5, <1>7 DEF Joins
  <2> QED
    BY <2>1, <2>2, <2>4, <1>6 DEF Cells
<1>9. /\ u.child[s][x] = a /\ u.child[Other(s)][x] = inner
      /\ u.child[s][y] = x /\ u.child[Other(s)][y] = o
  BY <1>3, <1>4, <1>5, <1>6, <1>7 DEF Rotated
<1>10. \A n \in Nodes, r \in Sides : n # x /\ n # y =>
         \/ u.child[r][n] = t.child[r][n] /\ t.child[r][n] # x /\ t.child[r][n] # y
         \/ u.child[r][n] = y /\ t.child[r][n] = x
  <2>1. ASSUME NEW n \in Nodes, NEW r \in Sides, n # x, n # y
        PROVE \/ u.child[r][n] = t.child[r][n] /\ t.child[r][n] # x /\ t.child[r][n] # y
              \/ u.child[r][n] = y /\ t.child[r][n] = x
    <3>1. PICK side : side = Side(t, x)
      OBVIOUS
    <3>2. PICK p : p = t.parent[x]
      OBVIOUS
    <3>3. /\ t.child[r][n] = x => n = p
          /\ t.child[r][n] # y
          /\ p # NIL => side \in Sides /\ t.child[side][p] = x /\ t.child[Other(side)][p] # x
      BY <2>1, <3>1, <3>2, <1>1, <1>3, <1>6, RotationPlaces
    <3>4. u.child[r][n] = IF p # NIL /\ n = p /\ r = side THEN y ELSE t.child[r][n]
      BY <2>1, <3>1, <3>2 DEF Rotated, Cells
    <3>5. CASE p # NIL /\ n = p /\ r = side
      BY <3>3, <3>4, <3>5
    <3>6. CASE ~(p # NIL /\ n = p /\ r = side)
      <4>1. SUFFICES ASSUME t.child[r][n] = x PROVE FALSE
        BY <3>3, <3>4, <3>6
      <4>2. n = p /\ p # NIL /\ r # side
        BY <4>1, <3>3, <3>6, NodesAreFinite
      <4>3. r = Other(side)
        BY <4>2, <3>3, OtherSide
      <4> QED
        BY <4>1, <4>2, <4>3, <3>3
    <3> QED
      BY <3>5, <3>6
  <2> QED
    BY <2>1
<1>11. Sized(u, sub2, here)
  <2>1. /\ t.size[NIL] = 0
        /\ \A n \in Nodes : t.size[n] = IF n \in here THEN Cardinality(sub[n]) ELSE 0
    BY DEF Whole, Sized
  <2>2. /\ u.size[x] = t.size[u.child["left"][x]] + t.size[u.child["right"][x]] + 1
        /\ u.size[y] = t.size[x]
        /\ \A m \in Cells : m # x /\ m # y => u.size[m] = t.size[m]
    BY <1>6, <1>7 DEF Rotated
  <2>3. sub2[y] = sub[x] /\ \A n \in Cells : n # x /\ n # y => sub2[n] = sub[n]
    BY <1>6, <1>7 DEF Turned
  <2>4. sub2[NIL] = {} /\ sub[NIL] = {}
    BY <1>1, <1>2 DEF Forest
  <2>5. Cardinality(sub2[x]) = Cardinality(sub2[a]) + Cardinality(sub2[inner]) + 1
    BY <1>2, <1>6, <1>9, SubtreeSize
  <2> HIDE DEF sub2
  <2>6. t.size[a] = Cardinality(sub2[a]) /\ t.size[inner] = Cardinality(sub2[inner])
    <3>1. sub2[a] = sub[a] /\ sub2[inner] = sub[inner]
      BY <2>3, <1>7, <1>8
    <3>2. \A n \in here \cup {NIL} : t.size[n] = Cardinality(sub[n])
      BY <2>1, <2>4, <1>6, FS_EmptySet
    <3> QED
      BY <3>1, <3>2, <1>8
  <2>7. t.size[a] \in Int /\ t.size[inner] \in Int
    BY <1>1, <1>7, <1>8 DEF LinksOK, Trees
  <2>8. u.size[x] = t.size[a] + t.size[inner] + 1
    BY <2>2, <2>7, <1>6, <1>9 DEF Sides
  <2>9. u.size[NIL] = 0
    BY <2>1, <2>2, <1>6
  <2>10. ASSUME NEW n \in Nodes PROVE u.size[n] = IF n \in here THEN Cardinality(sub2[n]) ELSE 0
    <3>1. CASE n = x
      BY <3>1, <2>5, <2>6, <2>8
    <3>2. CASE n = y
      BY <3>2, <2>1, <2>2, <2>3, <1>2, <1>6
    <3>3. CASE n # x /\ n # y
      BY <3>3, <2>1, <2>2, <2>3 DEF Cells
    <3> QED
      BY <3>1, <3>2, <3>3
  <2> QED
    BY <2>9, <2>10 DEF Sized
<1>12. Maxed(u, here)
  <2>1. t.max_high[NIL] = 0 /\ \A n \in here : t.max_high[n] = MaxHigh(t.max_high, t.child, n)
    BY DEF Whole, Maxed
  <2>2. /\ u.max_high[x] = MaxHigh(t.max_high, u.child, x)
        /\ u.max_high[y] = t.max_high[x]
        /\ \A m \in Cells : m # x /\ m # y => u.max_high[m] = t.max_high[m]
    BY <1>6, <1>7 DEF Rotated
  <2>3. t.max_high \in [Cells -> Nat] /\ u.max_high \in [Cells -> Nat]
        /\ \A n \in Nodes, r \in Sides : t.child[r][n] \in Cells /\ u.child[r][n] \in Cells
    BY <1>1, <1>2 DEF LinksOK, Trees
  <2>4. /\ MaxHigh(t.max_high, u.child, x) = Max3(t.max_high[a], t.max_high[inner], High[x])
        /\ MaxHigh(u.max_high, u.child, x) = Max3(u.max_high[a], u.max_high[inner], High[x])
        /\ MaxHigh(t.max_high, t.child, x) = Max3(t.max_high[a], t.max_high[y], High[x])
        /\ MaxHigh(t.max_high, t.child, y) = Max3(t.max_high[inner], t.max_high[o], High[y])
        /\ MaxHigh(u.max_high, u.child, y) = Max3(u.max_high[x], u.max_high[o], High[y])
    BY <2>3, <1>3, <1>4, <1>5, <1>6, <1>9, MaxHighBySide
  <2>5. u.max_high[a] = t.max_high[a] /\ u.max_high[inner] = t.max_high[inner] /\ u.max_high[o] = t.max_high[o]
    BY <2>2, <1>7, <1>8
  <2>6. /\ t.max_high[a] \in Nat /\ t.max_high[inner] \in Nat /\ t.max_high[o] \in Nat
        /\ High[x] \in Nat /\ High[y] \in Nat
    BY <2>3, <1>6, <1>7, <1>8, TreeAssumption
  <2>7. \A i, j, k, l, m \in Nat : Max3(i, Max3(j, k, l), m) = Max3(Max3(i, j, m), k, l)
    <3>1. ASSUME NEW i \in Nat, NEW j \in Nat, NEW k \in Nat, NEW l \in Nat, NEW m \in Nat
          PROVE  Max3(i, Max3(j, k, l), m) = Max3(Max3(i, j, m), k, l)
      <4>1. PICK v \in Nat : v = Max3(j, k, l) /\ v \in {j, k, l} /\ j <= v /\ k <= v /\ l <= v
        BY Max3Is
      <4>2. PICK w \in Nat : w = Max3(i, j, m) /\ w \in {i, j, m} /\ i <= w /\ j <= w /\ m <= w
        BY Max3Is
      <4>3. PICK v2 \in Nat : v2 = Max3(i, v, m) /\ v2 \in {i, v, m} /\ i <= v2 /\ v <= v2 /\ m <= v2
        BY Max3Is
      <4>4. PICK w2 \in Nat : w2 = Max3(w, k, l) /\ w2 \in {w, k, l} /\ w <= w2 /\ k <= w2 /\ l <= w2
        BY Max3Is
      <4>5. v2 = w2
        BY <4>1, <4>2, <4>3, <4>4
      <4> QED
        BY <4>1, <4>2, <4>3, <4>4, <4>5
    <3> QED
      BY <3>1
  <2>8. u.max_high[y] = MaxHigh(u.max_high, u.child, y)
    <3>1. t.max_high[x] = Max3(t.max_high[a], Max3(t.max_high[inner], t.max_high[o], High[y]), High[x])
      BY <2>1, <2>4, <1>2
    <3>2. Max3(t.max_high[a], Max3(t.max_high[inner], t.max_high[o], High[y]), High[x])
            = Max3(Max3(t.max_high[a], t.max_high[inner], High[x]), t.max_high[o], High[y])
      <4>1. PICK i \in Nat, j \in Nat, k \in Nat, l \in Nat, m \in Nat :
              /\ i = t.max_high[a] /\ j = t.max_high[inner] /\ k = t.max_high[o]
              /\ l = High[y] /\ m = High[x]
        BY <2>6
      <4>2. Max3(i, Max3(j, k, l), m) = Max3(Max3(i, j, m), k, l)
        BY <2>7
      <4> QED
        BY <4>1, <4>2
    <3> QED
      BY <3>1, <3>2, <2>2, <2>4, <2>5
  <2>9. u.max_high[x] = MaxHigh(u.max_high, u.child, x)
    BY <2>2, <2>4, <2>5
  <2>10. ASSUME NEW n \in here, n # x, n # y PROVE u.max_high[n] = MaxHigh(u.max_high, u.child, n)
    <3>1. \A r \in Sides : u.max_high[u.child[r][n]] = t.max_high[t.child[r][n]]
      BY <2>2, <2>3, <2>10, <1>6, <1>10
    <3>2. MaxHigh(u.max_high, u.child, n) = MaxHigh(t.max_high, t.child, n)
      BY <3>1, MaxHighIs DEF Sides
    <3> QED
      BY <3>2, <2>1, <2>2, <2>10, <1>6 DEF Cells
  <2>11. u.max_high[NIL] = 0
    BY <2>1, <2>2, <1>6
  <2> QED
    BY <2>8, <2>9, <2>10, <2>11 DEF Maxed
<1> QED
  BY <1>2, <1>11, <1>12 DEF Whole, sub2

\* A tree that has the laws with these nodes.
HasLaws(t, here) == \E sub : Whole(t, sub, here)

LEMMA RotateKeeps ==
  ASSUME NEW t, NEW here, HasLaws(t, here), NEW x \in here, NEW s \in Sides
  PROVE  /\ HasLaws(Rotate(t, x, s), here)
         /\ IF t.child[Other(s)][x] = NIL
            THEN Rotate(t, x, s) = [t EXCEPT !.fault = TRUE]
            ELSE Rotated(t, Rotate(t, x, s), x, s) /\ t.child[Other(s)][x] \in here
<1>1. PICK sub : Whole(t, sub, here)
  BY DEF HasLaws
<1>2. LinksOK(t) /\ Forest(t, sub) /\ Rooted(t, sub, here) /\ Shape(t, sub, here)
  BY <1>1 DEF Whole, Shape
<1>3. x \in Nodes /\ Other(s) \in Sides
  BY <1>2, InTree, OtherSide
<1>4. CASE t.child[Other(s)][x] = NIL
  <2>1. PICK u : u = [t EXCEPT !.fault = TRUE]
    OBVIOUS
  <2>2. u = Rotate(t, x, s)
    BY <2>1, <1>4 DEF Rotate
  <2>3. /\ u \in Trees /\ u.root = t.root /\ u.child = t.child /\ u.parent = t.parent /\ u.color = t.color
        /\ u.size = t.size /\ u.max_high = t.max_high
    BY <2>1, <1>2 DEF LinksOK, Trees
  <2>4. LinksOK(u) /\ Forest(u, sub) /\ Rooted(u, sub, here) /\ Sorted(u, sub) /\ u.color[NIL] = "BLACK"
    BY <2>3, <1>2 DEF LinksOK, Forest, Rooted, Sorted, Shape
  <2>5. Sized(u, sub, here) /\ Maxed(u, here)
    BY <2>3, <1>1 DEF Whole, Sized, Maxed
  <2>6. Whole(u, sub, here)
    BY <2>4, <2>5 DEF Whole, Shape
  <2> QED
    BY <2>1, <2>2, <2>6, <1>4 DEF HasLaws
<1>5. CASE t.child[Other(s)][x] # NIL
  <2>1. PICK u : u = Rotate(t, x, s)
    OBVIOUS
  <2>2. Rotated(t, u, x, s)
    BY <2>1, <1>2, <1>3, <1>5, RotateIs
  <2>3. PICK y \in Nodes : y = t.child[Other(s)][x]
    BY <1>2, <1>3, <1>5 DEF LinksOK, Cells
  <2>4. Whole(u, Turned(t, sub, x, y, s), here) /\ y \in here
    BY <2>2, <2>3, <1>1, <1>2, RotateWhole, RotateShape
  <2> QED
    BY <2>1, <2>2, <2>3, <2>4, <1>5 DEF HasLaws
<1> QED
  BY <1>4, <1>5

\* Colours apart, the laws are of the fields they name.
LEMMA SameShape ==
  ASSUME NEW t, NEW u, NEW sub, NEW here, Shape(t, sub, here),
         u \in Trees, u.root = t.root, u.child = t.child,
         \A n \in Nodes : u.parent[n] = t.parent[n], u.color[NIL] = "BLACK"
  PROVE  Shape(u, sub, here)
<1>1. LinksOK(t) /\ Forest(t, sub) /\ Rooted(t, sub, here) /\ Sorted(t, sub)
  BY DEF Shape
<1>2. LinksOK(u)
  BY <1>1 DEF LinksOK
<1>3. ASSUME NEW n \in Nodes PROVE LinksBothWays(u, n) /\ Joins(u, sub, n, "left")
  <2>1. LinksBothWays(t, n) /\ Joins(t, sub, n, "left")
    BY <1>1, ForestJoins, OtherSide DEF Sides
  <2>2. \A s \in Sides : t.child[s][n] \in Cells
    BY <1>1 DEF LinksOK
  <2> QED
    BY <2>1, <2>2 DEF LinksBothWays, Joins, Cells
<1>4. sub \in [Cells -> SUBSET Nodes] /\ sub[NIL] = {}
  BY <1>1 DEF Forest
<1>5. Forest(u, sub)
  BY <1>3, <1>4, JoinsForest DEF Sides
<1>6. Rooted(u, sub, here)
  BY <1>1 DEF Rooted, LinksOK, Trees, Cells
<1>7. Sorted(u, sub)
  BY <1>1 DEF Sorted
<1> QED
  BY <1>2, <1>5, <1>6, <1>7 DEF Shape

LEMMA SameLinks ==
  ASSUME NEW t, NEW u, NEW sub, NEW here, Whole(t, sub, here),
         u \in Trees, u.root = t.root, u.child = t.child, u.size = t.size, u.max_high = t.max_high,
         \A n \in Nodes : u.parent[n] = t.parent[n], u.color[NIL] = "BLACK"
  PROVE  Whole(u, sub, here)
<1>1. Shape(u, sub, here)
  BY SameShape DEF Whole
<1>2. Sized(u, sub, here) /\ Maxed(u, here)
  BY DEF Whole, Sized, Maxed
<1> QED
  BY <1>1, <1>2 DEF Whole

LEMMA RecolorIs ==
  ASSUME NEW t \in Trees, NEW nodes, NEW c \in {"RED", "BLACK"}
  PROVE  LET u == Recolor(t, nodes, c)
         IN /\ u \in Trees /\ u.root = t.root /\ u.child = t.child /\ u.parent = t.parent
            /\ u.size = t.size /\ u.max_high = t.max_high /\ u.fault = t.fault
            /\ \A n \in Cells : u.color[n] = IF n \in nodes THEN c ELSE t.color[n]
BY DEF Recolor, Trees

LEMMA RecolorKeeps ==
  ASSUME NEW t, NEW here, HasLaws(t, here), NEW nodes, NEW c \in {"RED", "BLACK"},
         c = "RED" => NIL \notin nodes
  PROVE  /\ HasLaws(Recolor(t, nodes, c), here)
         /\ Recolor(t, nodes, c).root = t.root /\ Recolor(t, nodes, c).child = t.child
         /\ Recolor(t, nodes, c).parent = t.parent /\ Recolor(t, nodes, c).fault = t.fault
         /\ \A n \in Cells : Recolor(t, nodes, c).color[n] = IF n \in nodes THEN c ELSE t.color[n]
<1>1. PICK sub : Whole(t, sub, here)
  BY DEF HasLaws
<1>2. t \in Trees /\ t.color[NIL] = "BLACK" /\ NIL \in Cells
  BY <1>1 DEF Whole, Shape, LinksOK, Cells
<1>3. PICK u : u = Recolor(t, nodes, c)
  OBVIOUS
<1>4. /\ u \in Trees /\ u.root = t.root /\ u.child = t.child /\ u.parent = t.parent
      /\ u.size = t.size /\ u.max_high = t.max_high /\ u.fault = t.fault
      /\ \A n \in Cells : u.color[n] = IF n \in nodes THEN c ELSE t.color[n]
  BY <1>2, <1>3, RecolorIs
<1>5. Whole(u, sub, here)
  BY <1>1, <1>2, <1>4, SameLinks
<1> QED
  BY <1>3, <1>4, <1>5 DEF HasLaws

-----------------------------------------------------------------------------
(* Sizes and maxima after an insertion or a removal below p: only those    *)
(* from p upward are out of date.                                          *)

Stale(t, sub, here, p, by) ==
  /\ t.size[NIL] = 0 /\ t.max_high[NIL] = 0
  /\ \A n \in Nodes :
       t.size[n] = IF n \in here THEN Cardinality(sub[n]) - (IF p \in sub[n] THEN by ELSE 0) ELSE 0
  /\ \A n \in here : p \notin sub[n] => t.max_high[n] = MaxHigh(t.max_high, t.child, n)

LEMMA RepairUpward ==
  ASSUME NEW t, NEW sub, NEW here, Shape(t, sub, here), NEW by \in Int, NEW p \in here \cup {NIL},
         Stale(t, sub, here, p, by)
  PROVE  LET u == RefreshUpward(CountUpward(t, p, by), p)
         IN /\ Whole(u, sub, here)
            /\ u.root = t.root /\ u.child = t.child /\ u.parent = t.parent /\ u.color = t.color
            /\ u.fault = t.fault
<1>1. LinksOK(t) /\ Forest(t, sub) /\ Rooted(t, sub, here) /\ t \in Trees /\ t.color[NIL] = "BLACK"
  BY DEF Shape, LinksOK
<1>2. PICK A : A = Upward(t, p)
  OBVIOUS
<1>3. here \in SUBSET Nodes /\ p \in Cells /\ NIL \in Cells /\ NIL \notin Nodes
      /\ \A n \in Nodes : sub[n] \in SUBSET Nodes
  BY <1>1, InTree, InForest, NodesAreFinite DEF Cells
<1>4. A = {m \in Nodes : p \in sub[m]}
  BY <1>1, <1>2, <1>3, UpwardIs
<1>5. A \subseteq here
  <2>1. ASSUME NEW m \in A, m \notin here PROVE FALSE
    <3>1. m \in Nodes /\ p \in sub[m] /\ sub[m] = {m}
      BY <2>1, <1>1, <1>4 DEF Rooted
    <3> QED
      BY <3>1, <2>1, <1>3
  <2> QED
    BY <2>1
<1>6. PICK c : c = CountUpward(t, p, by)
  OBVIOUS
<1>7. /\ c \in Trees /\ c.root = t.root /\ c.child = t.child /\ c.parent = t.parent /\ c.color = t.color
      /\ c.max_high = t.max_high /\ c.fault = t.fault
      /\ \A m \in Cells : c.size[m] = IF m \in A THEN t.size[m] + by ELSE t.size[m]
  <2>1. c = [t EXCEPT !.size = [m \in Cells |-> IF m \in A THEN t.size[m] + by ELSE t.size[m]]]
    BY <1>2, <1>6 DEF CountUpward
  <2>2. [m \in Cells |-> IF m \in A THEN t.size[m] + by ELSE t.size[m]] \in [Cells -> Int]
    BY <1>1 DEF Trees
  <2> QED
    BY <2>1, <2>2, <1>1 DEF Trees
<1>8. Shape(c, sub, here) /\ LinksOK(c) /\ Forest(c, sub)
  BY <1>1, <1>7, SameShape DEF Shape
<1>9. Upward(c, p) = A
  BY <1>3, <1>4, <1>8, UpwardIs
<1>10. PICK h \in [Cells -> Nat] :
         /\ \A m \in A : h[m] = MaxHigh(h, c.child, m)
         /\ \A m \in Cells \ A : h[m] = c.max_high[m]
         /\ RefreshUpward(c, p) = [c EXCEPT !.max_high = h]
  <2>1. Upward(c, p) \in SUBSET Nodes
    BY <1>4, <1>9
  <2> QED
    BY <2>1, <1>8, <1>9, RefreshIs
<1>11. PICK u : u = [c EXCEPT !.max_high = h]
  OBVIOUS
<1>12. /\ u \in Trees /\ u.root = t.root /\ u.child = t.child /\ u.parent = t.parent /\ u.color = t.color
       /\ u.size = c.size /\ u.max_high = h /\ u.fault = t.fault
  BY <1>7, <1>10, <1>11 DEF Trees
<1>13. Shape(u, sub, here)
  BY <1>1, <1>12, SameShape
<1>14. Sized(u, sub, here)
  <2>1. u.size[NIL] = 0
    BY <1>3, <1>4, <1>7, <1>12 DEF Stale
  <2>2. ASSUME NEW n \in Nodes PROVE u.size[n] = IF n \in here THEN Cardinality(sub[n]) ELSE 0
    <3>1. Cardinality(sub[n]) \in Nat
      BY <1>3, NodesAreFinite
    <3>2. u.size[n] = IF n \in A THEN t.size[n] + by ELSE t.size[n]
      BY <1>7, <1>12 DEF Cells
    <3>3. t.size[n] = IF n \in here THEN Cardinality(sub[n]) - (IF p \in sub[n] THEN by ELSE 0) ELSE 0
      BY DEF Stale
    <3> QED
      BY <3>1, <3>2, <3>3, <1>4, <1>5
  <2> QED
    BY <2>1, <2>2 DEF Sized
<1>15. Maxed(u, here)
  <2>1. u.max_high[NIL] = 0
    BY <1>3, <1>4, <1>7, <1>10, <1>12 DEF Stale
  <2>2. ASSUME NEW n \in here PROVE u.max_high[n] = MaxHigh(u.max_high, u.child, n)
    <3>1. CASE n \in A
      BY <3>1, <1>7, <1>10, <1>12
    <3>2. CASE n \notin A
      <4>1. n \in Nodes /\ p \notin sub[n] /\ n \in Cells
        BY <3>2, <1>3, <1>4 DEF Cells
      <4>2. ASSUME NEW s \in Sides PROVE h[t.child[s][n]] = t.max_high[t.child[s][n]]
        <5>1. t.child[s][n] \in Cells /\ sub[t.child[s][n]] \subseteq sub[n]
          BY <4>1, <1>1, InForest
        <5>2. t.child[s][n] \notin A
          BY <5>1, <4>1, <1>4
        <5> QED
          BY <5>1, <5>2, <1>7, <1>10
      <4>3. MaxHigh(h, t.child, n) = MaxHigh(t.max_high, t.child, n)
        BY <4>2, MaxHighIs DEF Sides
      <4>4. t.max_high[n] = MaxHigh(t.max_high, t.child, n)
        BY <4>1 DEF Stale
      <4> QED
        BY <4>1, <4>3, <4>4, <3>2, <1>7, <1>10, <1>12
    <3> QED
      BY <3>1, <3>2
  <2> QED
    BY <2>1, <2>2 DEF Maxed
<1>16. u = RefreshUpward(CountUpward(t, p, by), p)
  BY <1>6, <1>10, <1>11
<1>17. Whole(u, sub, here)
  BY <1>13, <1>14, <1>15 DEF Whole
<1> QED
  BY <1>12, <1>16, <1>17

-----------------------------------------------------------------------------
(* insert.                                                                 *)

\* q is where the descent for d from k ends: above it everyone sends d to its side.
Ends(t, sub, d, k, q) ==
  /\ q \in sub[k] /\ t.child[SideFor(d, q)][q] = NIL
  /\ \A m \in sub[k], r \in Sides : q \in sub[t.child[r][m]] => r = SideFor(d, m)

LEMMA DescentEnds ==
  ASSUME NEW t, NEW sub, LinksOK(t), Forest(t, sub), t.root # NIL, NEW d
  PROVE  Ends(t, sub, d, t.root, Descent(t, d))
<1>1. PICK f \in [Nodes -> Nodes] : (\A n \in Nodes : f[n] = DescentStep(t, d, f, n)) /\ Descent(t, d) = f[t.root]
  BY DescentIs
<1> DEFINE A == {k \in Cells : k = NIL \/ Ends(t, sub, d, k, f[k])}
<1>2. NIL \in A
  BY DEF Cells
<1>3. ASSUME NEW n \in Nodes, \A s \in Sides : t.child[s][n] \in A PROVE n \in A
  <2>1. PICK s \in Sides : s = SideFor(d, n)
    BY DEF SideFor, Sides
  <2>2. PICK next \in Cells : next = t.child[s][n]
    BY DEF LinksOK
  <2>3. /\ n \in sub[n] /\ sub[n] \in SUBSET Nodes
        /\ \A r \in Sides : n \notin sub[t.child[r][n]]
        /\ \A m \in sub[n] : m = n \/ \E r \in Sides : m \in sub[t.child[r][n]]
    BY InForest
  <2>4. \A m \in sub[n], r \in Sides : sub[t.child[r][m]] \subseteq sub[m]
    BY <2>3, InForest
  <2>5. \A r \in Sides : \A m \in sub[t.child[r][n]] : sub[m] \subseteq sub[t.child[r][n]]
    <3>1. ASSUME NEW r \in Sides, NEW m \in sub[t.child[r][n]] PROVE sub[m] \subseteq sub[t.child[r][n]]
      <4>1. PICK c \in Cells : c = t.child[r][n]
        BY DEF LinksOK
      <4> QED
        BY <3>1, <4>1, BelowBelow
    <3> QED
      BY <3>1
  <2>6. CASE next = NIL
    <3>1. f[n] = n
      BY <1>1, <2>1, <2>2, <2>6 DEF DescentStep
    <3>2. ASSUME NEW m \in sub[n], NEW r \in Sides, n \in sub[t.child[r][m]] PROVE FALSE
      <4>1. m # n /\ n \in sub[m]
        BY <3>2, <2>3, <2>4
      <4>2. PICK q \in Sides : m \in sub[t.child[q][n]]
        BY <4>1, <2>3
      <4> QED
        BY <4>1, <4>2, <2>3, <2>5
    <3>3. Ends(t, sub, d, n, n)
      BY <3>2, <2>1, <2>2, <2>3, <2>6 DEF Ends
    <3> QED
      BY <3>1, <3>3 DEF Cells
  <2>7. CASE next # NIL
    <3>1. f[n] = f[next] /\ Ends(t, sub, d, next, f[next])
      BY <1>1, <1>3, <2>1, <2>2, <2>7 DEF DescentStep
    <3>2. PICK q : q = f[next]
      OBVIOUS
    <3>3. q \in sub[next] /\ q \in sub[n] /\ t.child[SideFor(d, q)][q] = NIL
      BY <3>1, <3>2, <2>2, InForest DEF Ends
    <3>4. q \notin sub[t.child[Other(s)][n]]
      BY <3>3, <2>2, ForestJoins DEF Joins
    <3>5. ASSUME NEW m \in sub[n], NEW r \in Sides, q \in sub[t.child[r][m]] PROVE r = SideFor(d, m)
      <4>1. CASE m = n
        BY <4>1, <3>4, <3>5, <2>1, OtherSide
      <4>2. CASE m \in sub[next]
        BY <4>2, <3>1, <3>2, <3>5 DEF Ends
      <4>3. CASE m \in sub[t.child[Other(s)][n]]
        BY <4>3, <3>4, <3>5, <2>4, <2>5, OtherSide
      <4> QED
        BY <4>1, <4>2, <4>3, <2>2, ForestJoins DEF Joins
    <3>6. Ends(t, sub, d, n, q)
      BY <3>3, <3>5 DEF Ends
    <3> QED
      BY <3>1, <3>2, <3>6 DEF Cells
  <2> QED
    BY <2>6, <2>7
<1>4. Cells \subseteq A
  <2> HIDE DEF A
  <2> QED
    BY <1>2, <1>3, Downward
<1> QED
  BY <1>1, <1>4 DEF LinksOK, Trees

LEMMA AttachIs ==
  ASSUME NEW t \in Trees, NEW n \in Nodes, NEW p \in Cells, p # n
  PROVE  LET u == Attach(t, n, p)
         IN /\ u \in Trees /\ u.fault = t.fault
            /\ u.root = IF p = NIL THEN n ELSE t.root
            /\ \A r \in Sides, m \in Cells :
                 u.child[r][m] = IF p # NIL /\ m = p /\ r = SideFor(Data[n], p) THEN n
                                 ELSE IF m = n THEN NIL ELSE t.child[r][m]
            /\ \A m \in Cells : /\ u.parent[m] = IF m = n THEN p ELSE t.parent[m]
                                /\ u.color[m] = IF m = n THEN "RED" ELSE t.color[m]
                                /\ u.size[m] = IF m = n THEN 1 ELSE t.size[m]
                                /\ u.max_high[m] = IF m = n THEN High[n] ELSE t.max_high[m]
<1> DEFINE fresh == [t EXCEPT !.child = [r \in Sides |-> [@[r] EXCEPT ![n] = NIL]],
                         !.parent[n] = p, !.color[n] = "RED",
                         !.size[n] = 1, !.max_high[n] = High[n]]
<1>1. n \in Cells /\ NIL \in Cells /\ High[n] \in Nat
  BY TreeAssumption DEF Cells
<1>2. PICK C : C = [r \in Sides |-> [t.child[r] EXCEPT ![n] = NIL]]
  OBVIOUS
<1>20. fresh = [t EXCEPT !.child = C, !.parent[n] = p, !.color[n] = "RED",
                        !.size[n] = 1, !.max_high[n] = High[n]]
  BY <1>2
<1>3. /\ fresh \in Trees /\ fresh.fault = t.fault /\ fresh.root = t.root
      /\ \A r \in Sides, m \in Cells : fresh.child[r][m] = IF m = n THEN NIL ELSE t.child[r][m]
      /\ \A m \in Cells : /\ fresh.parent[m] = IF m = n THEN p ELSE t.parent[m]
                          /\ fresh.color[m] = IF m = n THEN "RED" ELSE t.color[m]
                          /\ fresh.size[m] = IF m = n THEN 1 ELSE t.size[m]
                          /\ fresh.max_high[m] = IF m = n THEN High[n] ELSE t.max_high[m]
  <2> HIDE DEF fresh
  <2>1. C \in [Sides -> [Cells -> Cells \cup {Null}]]
    BY <1>1, <1>2 DEF Trees
  <2>2. \A r \in Sides, m \in Cells : C[r][m] = IF m = n THEN NIL ELSE t.child[r][m]
    BY <1>1, <1>2 DEF Trees
  <2>3. fresh \in Trees
    <3>1. fresh = [root |-> t.root, child |-> C,
               parent |-> [t.parent EXCEPT ![n] = p], color |-> [t.color EXCEPT ![n] = "RED"],
               size |-> [t.size EXCEPT ![n] = 1], max_high |-> [t.max_high EXCEPT ![n] = High[n]],
               fault |-> t.fault]
      BY <1>20 DEF Trees
    <3>2. /\ [t.parent EXCEPT ![n] = p] \in [Cells -> Cells \cup {Null}]
          /\ [t.color EXCEPT ![n] = "RED"] \in [Cells -> {"RED", "BLACK"}]
      BY <1>1 DEF Trees
    <3>3. /\ [t.size EXCEPT ![n] = 1] \in [Cells -> Int]
          /\ [t.max_high EXCEPT ![n] = High[n]] \in [Cells -> Nat]
      BY <1>1 DEF Trees
    <3>4. t.root \in Cells /\ t.fault \in BOOLEAN
      BY DEF Trees
    <3> QED
      BY <2>1, <3>1, <3>2, <3>3, <3>4 DEF Trees
  <2>4. fresh.fault = t.fault /\ fresh.root = t.root /\ fresh.child = C
    BY <1>20 DEF Trees
  <2>5. \A m \in Cells : fresh.parent[m] = IF m = n THEN p ELSE t.parent[m]
    BY <1>1, <1>20 DEF Trees
  <2>6. \A m \in Cells : fresh.color[m] = IF m = n THEN "RED" ELSE t.color[m]
    BY <1>1, <1>20 DEF Trees
  <2>7. \A m \in Cells : fresh.size[m] = IF m = n THEN 1 ELSE t.size[m]
    BY <1>1, <1>20 DEF Trees
  <2>8. \A m \in Cells : fresh.max_high[m] = IF m = n THEN High[n] ELSE t.max_high[m]
    BY <1>1, <1>20 DEF Trees
  <2> QED
    BY <2>2, <2>3, <2>4, <2>5, <2>6, <2>7, <2>8
<1>4. PICK s \in Sides : s = SideFor(Data[n], p)
  BY DEF SideFor, Sides
<1>5. Attach(t, n, p) = IF p = NIL THEN [fresh EXCEPT !.root = n]
                        ELSE [fresh EXCEPT !.child[SideFor(Data[n], p)][p] = n]
  BY DEF Attach, SideFor
<1> HIDE DEF fresh
<1>6. CASE p = NIL
  <2>1. PICK u : u = [fresh EXCEPT !.root = n]
    OBVIOUS
  <2>2. /\ u \in Trees /\ u.root = n /\ u.child = fresh.child /\ u.parent = fresh.parent /\ u.color = fresh.color
        /\ u.size = fresh.size /\ u.max_high = fresh.max_high /\ u.fault = fresh.fault
    BY <2>1, <1>1, <1>3 DEF Trees
  <2>3. u = Attach(t, n, p)
    BY <2>1, <1>5, <1>6
  <2> QED
    BY <2>2, <2>3, <1>3, <1>6
<1>7. CASE p # NIL
  <2>1. PICK u : u = [fresh EXCEPT !.child[s][p] = n]
    OBVIOUS
  <2>2. /\ u \in Trees /\ u.root = fresh.root /\ u.parent = fresh.parent /\ u.color = fresh.color
        /\ u.size = fresh.size /\ u.max_high = fresh.max_high /\ u.fault = fresh.fault
        /\ \A r \in Sides, m \in Cells :
             u.child[r][m] = IF r = s /\ m = p THEN n ELSE fresh.child[r][m]
    BY <2>1, <1>1, <1>3, SetChild
  <2>3. u = Attach(t, n, p)
    BY <2>1, <1>4, <1>5, <1>7
  <2> QED
    BY <2>2, <2>3, <1>3, <1>4, <1>7
<1> QED
  BY <1>6, <1>7

LEMMA Alone ==
  ASSUME NEW t, NEW sub, NEW here, LinksOK(t), Forest(t, sub), Rooted(t, sub, here), NEW n \in Nodes \ here
  PROVE  /\ t.parent[n] = NIL /\ sub[n] = {n}
         /\ \A m \in Cells : m # n => n \notin sub[m]
         /\ \A m \in Nodes, s \in Sides : t.child[s][m] # n /\ t.child[s][n] = NIL
<1>1. t.parent[n] = NIL /\ sub[n] = {n}
  BY DEF Rooted
<1>2. \A m \in Cells : m # n => n \notin sub[m]
  BY <1>1, AboveIs
<1>3. \A m \in Nodes, s \in Sides : t.child[s][m] # n /\ t.child[s][n] = NIL
  BY <1>1, InForest, InTree, NodesAreFinite
<1> QED
  BY <1>1, <1>2, <1>3

LEMMA AttachKeeps ==
  ASSUME NEW t, NEW sub, NEW here, Whole(t, sub, here), NEW n \in Nodes \ here,
         NEW p, p = Descent(t, Data[n]), NEW u, u = Attach(t, n, p),
         NEW sub2, sub2 = [m \in Cells |-> IF p \in sub[m] THEN sub[m] \cup {n} ELSE sub[m]]
  PROVE  /\ Shape(u, sub2, here \cup {n}) /\ Stale(u, sub2, here \cup {n}, p, 1)
         /\ p \in here \cup {NIL} /\ u.fault = t.fault /\ u.root = (IF p = NIL THEN n ELSE t.root)
         /\ u.parent[n] = p /\ (p = NIL <=> t.root = NIL)
         /\ \A m \in Cells : u.color[m] = IF m = n THEN "RED" ELSE t.color[m]
<1>1. LinksOK(t) /\ Forest(t, sub) /\ Rooted(t, sub, here) /\ Sorted(t, sub) /\ t \in Trees /\ t.color[NIL] = "BLACK"
      /\ Sized(t, sub, here) /\ Maxed(t, here)
  BY DEF Whole, Shape, LinksOK
<1>2. PICK d : d = Data[n]
  OBVIOUS
<1>3. PICK s \in Sides : s = SideFor(d, p)
  BY DEF SideFor, Sides
<1>4. /\ n # NIL /\ n \in Cells /\ NIL \in Cells /\ NIL \notin Nodes /\ here \in SUBSET Nodes
      /\ \A m \in Nodes : m \in Cells /\ m # NIL
  BY <1>1, InTree, NodesAreFinite DEF Cells
<1>5. /\ t.parent[n] = NIL /\ sub[n] = {n}
      /\ \A m \in Cells : m # n => n \notin sub[m]
      /\ \A m \in Nodes, r \in Sides : t.child[r][m] # n /\ t.child[r][n] = NIL
  BY <1>1, Alone
<1>6. /\ p \in here \cup {NIL} /\ (p = NIL <=> t.root = NIL)
      /\ p # NIL => Ends(t, sub, d, t.root, p) /\ t.child[s][p] = NIL
  <2>1. CASE t.root = NIL
    BY <2>1 DEF Descent
  <2>2. CASE t.root # NIL
    <3>1. Ends(t, sub, d, t.root, p)
      BY <2>2, <1>1, <1>2, DescentEnds
    <3>2. sub[t.root] = here
      BY <1>1 DEF Rooted
    <3> QED
      BY <3>1, <3>2, <2>2, <1>3, <1>4 DEF Ends
  <2> QED
    BY <2>1, <2>2
<1>7. p # n /\ p \in Cells /\ (p # NIL => p \in Nodes /\ p \in here)
  BY <1>4, <1>6
<1>8. /\ u \in Trees /\ u.fault = t.fault
      /\ u.root = IF p = NIL THEN n ELSE t.root
      /\ \A r \in Sides, m \in Cells :
           u.child[r][m] = IF p # NIL /\ m = p /\ r = s THEN n
                           ELSE IF m = n THEN NIL ELSE t.child[r][m]
      /\ \A m \in Cells : /\ u.parent[m] = IF m = n THEN p ELSE t.parent[m]
                          /\ u.color[m] = IF m = n THEN "RED" ELSE t.color[m]
                          /\ u.size[m] = IF m = n THEN 1 ELSE t.size[m]
                          /\ u.max_high[m] = IF m = n THEN High[n] ELSE t.max_high[m]
  BY <1>1, <1>2, <1>3, <1>7, AttachIs
<1>9. /\ sub2 \in [Cells -> SUBSET Nodes] /\ sub2[NIL] = {} /\ sub2[n] = {n}
      /\ \A m \in Cells : sub2[m] = IF p \in sub[m] THEN sub[m] \cup {n} ELSE sub[m]
  <2>1. sub \in [Cells -> SUBSET Nodes] /\ sub[NIL] = {}
    BY <1>1 DEF Forest
  <2> QED
    BY <2>1, <1>4, <1>5, <1>7
<1>10. LinksOK(u)
  BY <1>1, <1>4, <1>7, <1>8 DEF LinksOK
<1>11. ASSUME NEW m \in Nodes PROVE LinksBothWays(u, m)
  <2>1. LinksBothWays(t, m) /\ \A r \in Sides : t.child[r][m] \in Cells
    BY <1>1, ForestJoins DEF LinksOK
  <2>2. ASSUME NEW r \in Sides, u.child[r][m] # NIL PROVE u.parent[u.child[r][m]] = m
    BY <2>1, <2>2, <1>4, <1>5, <1>7, <1>8 DEF LinksBothWays
  <2>3. ASSUME u.parent[m] # NIL PROVE \E r \in Sides : u.child[r][u.parent[m]] = m
    <3>1. CASE m = n
      BY <3>1, <2>3, <1>4, <1>7, <1>8
    <3>2. CASE m # n
      <4>1. u.parent[m] = t.parent[m] /\ t.parent[m] \in Nodes
        BY <3>2, <2>3, <1>1, <1>4, <1>8 DEF LinksOK, Cells
      <4>2. PICK r \in Sides : t.child[r][t.parent[m]] = m
        BY <4>1, <2>1, <2>3 DEF LinksBothWays
      <4>3. t.parent[m] # n /\ ~(p # NIL /\ t.parent[m] = p /\ r = s)
        BY <4>1, <4>2, <1>4, <1>5, <1>6
      <4>4. u.child[r][t.parent[m]] = m
        BY <4>1, <4>2, <4>3, <1>4, <1>8
      <4> QED
        BY <4>1, <4>4
    <3> QED
      BY <3>1, <3>2
  <2> QED
    BY <2>2, <2>3 DEF LinksBothWays
<1>12. \A m \in Nodes, r \in Sides : ~(p # NIL /\ m = p /\ r = s) =>
         /\ u.child[r][m] = t.child[r][m] /\ t.child[r][m] # n /\ t.child[r][m] \in Cells
         /\ sub2[u.child[r][m]] = IF p \in sub[t.child[r][m]] THEN sub[t.child[r][m]] \cup {n} ELSE sub[t.child[r][m]]
  <2>1. ASSUME NEW m \in Nodes, NEW r \in Sides, ~(p # NIL /\ m = p /\ r = s)
        PROVE /\ u.child[r][m] = t.child[r][m] /\ t.child[r][m] # n /\ t.child[r][m] \in Cells
              /\ sub2[u.child[r][m]] = IF p \in sub[t.child[r][m]] THEN sub[t.child[r][m]] \cup {n} ELSE sub[t.child[r][m]]
    <3>1. PICK c \in Cells : c = t.child[r][m] /\ c # n
      BY <1>1, <1>5 DEF LinksOK
    <3>2. u.child[r][m] = c
      BY <2>1, <3>1, <1>4, <1>5, <1>8
    <3> QED
      BY <3>1, <3>2, <1>9
  <2> QED
    BY <2>1
<1>13. ASSUME NEW m \in Nodes PROVE \E r \in Sides : Joins(u, sub2, m, r)
  <2>1. PICK a : a = t.child[s][m]
    OBVIOUS
  <2>2. PICK b : b = t.child[Other(s)][m]
    OBVIOUS
  <2>3. /\ sub[m] = {m} \cup sub[a] \cup sub[b] /\ m \notin sub[a] /\ m \notin sub[b] /\ sub[a] \cap sub[b] = {}
        /\ Other(s) \in Sides /\ Other(s) # s /\ a \in Cells /\ b \in Cells
    BY <2>1, <2>2, <1>1, ForestJoins, OtherSide DEF Joins, LinksOK
  <2>4. a # n /\ b # n /\ n \notin sub[a] /\ n \notin sub[b] /\ m \in Cells
    BY <2>1, <2>2, <2>3, <1>4, <1>5
  <2>5. CASE m = n
    <3>1. u.child[s][m] = NIL /\ u.child[Other(s)][m] = NIL
      BY <2>3, <2>5, <1>4, <1>7, <1>8
    <3>2. sub2[m] = {m} /\ sub2[NIL] = {}
      BY <2>5, <1>9
    <3>3. Joins(u, sub2, m, s)
      BY <3>1, <3>2, <2>3 DEF Joins
    <3> QED
      BY <3>3
  <2>6. CASE m = p
    <3>1. u.child[s][m] = n /\ u.child[Other(s)][m] = b /\ a = NIL /\ p # NIL
      BY <2>1, <2>2, <2>3, <2>4, <2>6, <1>4, <1>6, <1>7, <1>8
    <3>2. sub2[b] = sub[b] /\ sub2[m] = sub[m] \cup {n} /\ sub[a] = {}
      BY <3>1, <2>3, <2>6, <1>1, <1>4, <1>9 DEF Forest
    <3>3. sub2[m] = {m} \cup sub2[n] \cup sub2[b]
      BY <3>2, <2>3, <1>9
    <3>4. m \notin sub2[n] /\ m \notin sub2[b] /\ sub2[n] \cap sub2[b] = {}
      BY <3>2, <2>3, <2>4, <2>6, <1>7, <1>9
    <3> QED
      BY <3>1, <3>3, <3>4 DEF Joins
  <2>7. CASE m # n /\ m # p
    <3>1. u.child[s][m] = a /\ u.child[Other(s)][m] = b
      BY <2>1, <2>2, <2>3, <2>7, <1>12
    <3>2. /\ sub2[a] = IF p \in sub[a] THEN sub[a] \cup {n} ELSE sub[a]
          /\ sub2[b] = IF p \in sub[b] THEN sub[b] \cup {n} ELSE sub[b]
          /\ sub2[m] = IF p \in sub[m] THEN sub[m] \cup {n} ELSE sub[m]
      BY <2>3, <2>4, <1>9
    <3>3. p \in sub[m] <=> p \in sub[a] \/ p \in sub[b]
      BY <2>3, <2>7
    <3>4. sub2[m] = {m} \cup sub2[a] \cup sub2[b]
      BY <3>2, <3>3, <2>3
    <3>5. m \notin sub2[a] /\ m \notin sub2[b] /\ sub2[a] \cap sub2[b] = {}
      BY <3>2, <2>3, <2>4, <2>7
    <3> QED
      BY <3>1, <3>4, <3>5 DEF Joins
  <2> QED
    BY <2>5, <2>6, <2>7
<1>14. Forest(u, sub2)
  BY <1>9, <1>11, <1>13, JoinsForest
<1>15. Rooted(u, sub2, here \cup {n})
  <2>1. sub2[u.root] = here \cup {n} /\ u.parent[u.root] = NIL
    <3>1. CASE p = NIL
      BY <3>1, <1>1, <1>4, <1>6, <1>8, <1>9, InTree
    <3>2. CASE p # NIL
      <4>1. u.root = t.root /\ sub[t.root] = here /\ t.root \in here /\ t.parent[t.root] = NIL /\ p \in here
        BY <3>2, <1>1, <1>6, <1>7, <1>8, InTree DEF Rooted
      <4> QED
        BY <4>1, <1>4, <1>8, <1>9
    <3> QED
      BY <3>1, <3>2
  <2>2. ASSUME NEW m \in Nodes \ (here \cup {n}) PROVE sub2[m] = {m} /\ u.parent[m] = NIL
    <3>1. sub[m] = {m} /\ t.parent[m] = NIL /\ p # m /\ m # n /\ m \in Cells
      BY <1>1, <1>4, <1>7 DEF Rooted
    <3> QED
      BY <3>1, <1>8, <1>9
  <2> QED
    BY <2>1, <2>2, <1>4 DEF Rooted
<1>16. Sorted(u, sub2)
  <2>1. ASSUME NEW m \in Nodes, NEW r \in Sides, NEW k \in sub2[u.child[r][m]] PROVE Le(r, k, m)
    <3>1. CASE p # NIL /\ m = p /\ r = s
      <4>1. k = n
        BY <3>1, <2>1, <1>4, <1>7, <1>8, <1>9
      <4>2. Data[n] \in Nat /\ Data[p] \in Nat
        BY <3>1, TreeAssumption
      <4> QED
        BY <4>1, <4>2, <3>1, <1>2, <1>3 DEF Le, SideFor
    <3>2. CASE ~(p # NIL /\ m = p /\ r = s)
      <4>1. k \in sub[t.child[r][m]] => Le(r, k, m)
        BY <1>1 DEF Sorted
      <4>2. k \in sub[t.child[r][m]] \/ (k = n /\ p \in sub[t.child[r][m]])
        BY <3>2, <2>1, <1>12
      <4>3. ASSUME k = n, p \in sub[t.child[r][m]] PROVE Le(r, k, m)
        <5>1. p \in sub[m] /\ p # NIL /\ p \in here
          BY <4>3, <1>1, <1>4, <1>7, InForest
        <5>2. m \in here
          BY <5>1, <1>1, <1>4 DEF Rooted
        <5>3. r = SideFor(d, m)
          BY <4>3, <5>1, <5>2, <1>1, <1>6 DEF Ends, Rooted
        <5>4. Data[n] \in Nat /\ Data[m] \in Nat
          BY TreeAssumption
        <5> QED
          BY <4>3, <5>3, <5>4, <1>2 DEF Le, SideFor
      <4> QED
        BY <4>1, <4>2, <4>3
    <3> QED
      BY <3>1, <3>2
  <2> QED
    BY <2>1 DEF Sorted
<1>17. Shape(u, sub2, here \cup {n})
  BY <1>1, <1>4, <1>8, <1>10, <1>14, <1>15, <1>16 DEF Shape
<1>18. \A m \in Cells : p \in sub2[m] <=> p \in sub[m]
  BY <1>7, <1>9
<1>19. Stale(u, sub2, here \cup {n}, p, 1)
  <2>1. u.size[NIL] = 0 /\ u.max_high[NIL] = 0
    BY <1>1, <1>4, <1>8 DEF Sized, Maxed
  <2>2. ASSUME NEW m \in Nodes
        PROVE  u.size[m] = IF m \in here \cup {n} THEN Cardinality(sub2[m]) - (IF p \in sub2[m] THEN 1 ELSE 0) ELSE 0
    <3>1. CASE m = n
      <4>1. Cardinality({n}) = 1
        BY FS_Singleton
      <4> QED
        <5>1. u.size[m] = 1 /\ sub2[m] = {n} /\ p \notin sub2[m]
          BY <3>1, <1>4, <1>7, <1>8, <1>9
        <5>2. Cardinality(sub2[m]) = 1
          BY <4>1, <5>1
        <5> QED
          BY <5>1, <5>2, <3>1
    <3>2. CASE m # n
      <4>1. u.size[m] = t.size[m] /\ t.size[m] = IF m \in here THEN Cardinality(sub[m]) ELSE 0
        BY <3>2, <1>1, <1>4, <1>8 DEF Sized
      <4>2. IsFiniteSet(sub[m]) /\ Cardinality(sub[m]) \in Nat
        BY <1>1, InForest, NodesAreFinite
      <4>3. n \notin sub[m]
        BY <3>2, <1>4, <1>5
      <4>4. Cardinality(sub[m] \cup {n}) = Cardinality(sub[m]) + 1
        BY <4>2, <4>3, FS_AddElement
      <4>5. sub2[m] = IF p \in sub[m] THEN sub[m] \cup {n} ELSE sub[m]
        BY <1>4, <1>9
      <4>8. p \in sub2[m] <=> p \in sub[m]
        BY <1>4, <1>18
      <4>6. CASE p \in sub[m]
        <5>1. Cardinality(sub2[m]) = Cardinality(sub[m]) + 1
          BY <4>4, <4>5, <4>6
        <5> QED
          BY <5>1, <4>1, <4>2, <4>6, <4>8, <3>2
      <4>7. CASE p \notin sub[m]
        BY <4>1, <4>2, <4>5, <4>7, <4>8, <3>2
      <4> QED
        BY <4>6, <4>7
    <3> QED
      BY <3>1, <3>2
  <2>3. ASSUME NEW m \in here \cup {n}, p \notin sub2[m] PROVE u.max_high[m] = MaxHigh(u.max_high, u.child, m)
    <3>1. CASE m = n
      <4>1. u.child["left"][n] = NIL /\ u.child["right"][n] = NIL
        BY <1>4, <1>7, <1>8 DEF Sides
      <4>2. MaxHigh(u.max_high, u.child, n) = Max3(0, 0, High[n]) /\ High[n] \in Nat
        BY <4>1, <2>1, MaxHighIs, TreeAssumption
      <4>3. Max3(0, 0, High[n]) = High[n]
        BY <4>2, Max3Is
      <4> QED
        BY <4>2, <4>3, <3>1, <1>4, <1>8
    <3>2. CASE m # n
      <4>1. m \in Nodes /\ m \in here /\ m \in sub[m] /\ m # p
        BY <3>2, <2>3, <1>1, <1>4, <1>18, InForest
      <4>2. \A r \in Sides : u.max_high[u.child[r][m]] = t.max_high[t.child[r][m]]
        <5>1. ASSUME NEW r \in Sides PROVE u.max_high[u.child[r][m]] = t.max_high[t.child[r][m]]
          <6>1. u.child[r][m] = t.child[r][m] /\ t.child[r][m] # n /\ t.child[r][m] \in Cells
            BY <4>1, <1>12
          <6> QED
            BY <6>1, <1>8
        <5> QED
          BY <5>1
      <4>3. MaxHigh(u.max_high, u.child, m) = MaxHigh(t.max_high, t.child, m)
        BY <4>2, MaxHighIs DEF Sides
      <4> QED
        BY <4>1, <4>3, <3>2, <1>1, <1>4, <1>8 DEF Maxed
    <3> QED
      BY <3>1, <3>2
  <2> QED
    BY <2>1, <2>2, <2>3 DEF Stale
<1> QED
  BY <1>4, <1>6, <1>8, <1>17, <1>19

LEMMA InsertKeeps ==
  ASSUME NEW t, NEW here, HasLaws(t, here), NEW n \in Nodes \ here,
         NEW p, p = Descent(t, Data[n]),
         NEW u, u = RefreshUpward(CountUpward(Attach(t, n, p), p, 1), p)
  PROVE  /\ HasLaws(u, here \cup {n})
         /\ u.root = (IF p = NIL THEN n ELSE t.root) /\ (p = NIL <=> t.root = NIL)
         /\ u.parent[n] = p /\ p \in here \cup {NIL}
         /\ \A m \in Cells : u.color[m] = IF m = n THEN "RED" ELSE t.color[m]
<1>1. PICK sub : Whole(t, sub, here)
  BY DEF HasLaws
<1>2. PICK sub2 : sub2 = [m \in Cells |-> IF p \in sub[m] THEN sub[m] \cup {n} ELSE sub[m]]
  OBVIOUS
<1>3. PICK v : v = Attach(t, n, p)
  OBVIOUS
<1>4. /\ Shape(v, sub2, here \cup {n}) /\ Stale(v, sub2, here \cup {n}, p, 1)
      /\ p \in here \cup {NIL} /\ v.fault = t.fault /\ v.root = (IF p = NIL THEN n ELSE t.root)
      /\ v.parent[n] = p /\ (p = NIL <=> t.root = NIL)
      /\ \A m \in Cells : v.color[m] = IF m = n THEN "RED" ELSE t.color[m]
  BY <1>1, <1>2, <1>3, AttachKeeps
<1>5. /\ Whole(u, sub2, here \cup {n})
      /\ u.root = v.root /\ u.child = v.child /\ u.parent = v.parent /\ u.color = v.color
  BY <1>3, <1>4, RepairUpward
<1> QED
  BY <1>4, <1>5 DEF HasLaws

-----------------------------------------------------------------------------
(* remove.  A node with a child at most is lifted out; one with two is     *)
(* replaced by its successor, that has been lifted out.                    *)

LEMMA TransplantIs ==
  ASSUME NEW t \in Trees, NEW y \in Nodes, t.parent[y] \in Cells, NEW c \in Cells
  PROVE  LET u == transplant(t, y, c)
             p == t.parent[y]
         IN /\ u \in Trees /\ u.color = t.color
            /\ u.size = t.size /\ u.max_high = t.max_high /\ u.fault = t.fault
            /\ u.root = IF p = NIL THEN c ELSE t.root
            /\ \A r \in Sides, m \in Cells :
                 u.child[r][m] = IF p # NIL /\ m = p /\ r = Side(t, y) THEN c ELSE t.child[r][m]
            /\ \A m \in Cells : u.parent[m] = IF m = c THEN p ELSE t.parent[m]
<1>1. PICK w : w = PutBelow(t, y, c)
  OBVIOUS
<1>2. PICK p \in Cells : p = t.parent[y]
  OBVIOUS
<1>3. /\ w \in Trees /\ w.parent = t.parent /\ w.color = t.color
      /\ w.size = t.size /\ w.max_high = t.max_high /\ w.fault = t.fault
      /\ w.root = IF p = NIL THEN c ELSE t.root
      /\ \A r \in Sides, m \in Cells :
           w.child[r][m] = IF p # NIL /\ m = p /\ r = Side(t, y) THEN c ELSE t.child[r][m]
  BY <1>1, <1>2, PutBelowIs
<1>4. PICK u : u = [w EXCEPT !.parent[c] = p]
  OBVIOUS
<1>5. /\ u \in Trees /\ u.root = w.root /\ u.child = w.child /\ u.color = w.color
      /\ u.size = w.size /\ u.max_high = w.max_high /\ u.fault = w.fault
      /\ \A m \in Cells : u.parent[m] = IF m = c THEN p ELSE w.parent[m]
  BY <1>2, <1>3, <1>4, SetParent
<1>6. u = transplant(t, y, c)
  BY <1>1, <1>2, <1>4 DEF transplant
<1> QED
  BY <1>2, <1>3, <1>5, <1>6

LEMMA FreeIs ==
  ASSUME NEW t \in Trees, NEW x \in Nodes
  PROVE  LET u == Free(t, x)
         IN /\ u \in Trees /\ u.root = t.root /\ u.fault = t.fault
            /\ \A r \in Sides, m \in Cells : u.child[r][m] = IF m = x THEN NIL ELSE t.child[r][m]
            /\ \A m \in Cells : /\ u.parent[m] = IF m = x THEN NIL ELSE t.parent[m]
                                /\ u.color[m] = IF m = x THEN "BLACK" ELSE t.color[m]
                                /\ u.size[m] = IF m = x THEN 0 ELSE t.size[m]
                                /\ u.max_high[m] = IF m = x THEN 0 ELSE t.max_high[m]
<1>1. x \in Cells /\ NIL \in Cells
  BY DEF Cells
<1>2. PICK C : C = [s \in Sides |-> [t.child[s] EXCEPT ![x] = NIL]]
  OBVIOUS
<1>3. PICK u : u = Free(t, x)
  OBVIOUS
<1>4. u = [t EXCEPT !.child = C, !.parent[x] = NIL, !.color[x] = "BLACK", !.size[x] = 0, !.max_high[x] = 0]
  BY <1>2, <1>3 DEF Free
<1>5. C \in [Sides -> [Cells -> Cells \cup {Null}]]
  BY <1>1, <1>2 DEF Trees
<1>6. \A r \in Sides, m \in Cells : C[r][m] = IF m = x THEN NIL ELSE t.child[r][m]
  BY <1>1, <1>2 DEF Trees
<1>7. u \in Trees
  <2>1. u = [root |-> t.root, child |-> C,
             parent |-> [t.parent EXCEPT ![x] = NIL], color |-> [t.color EXCEPT ![x] = "BLACK"],
             size |-> [t.size EXCEPT ![x] = 0], max_high |-> [t.max_high EXCEPT ![x] = 0],
             fault |-> t.fault]
    BY <1>4 DEF Trees
  <2>2. /\ [t.parent EXCEPT ![x] = NIL] \in [Cells -> Cells \cup {Null}]
        /\ [t.color EXCEPT ![x] = "BLACK"] \in [Cells -> {"RED", "BLACK"}]
    BY <1>1 DEF Trees
  <2>3. /\ [t.size EXCEPT ![x] = 0] \in [Cells -> Int]
        /\ [t.max_high EXCEPT ![x] = 0] \in [Cells -> Nat]
    BY <1>1 DEF Trees
  <2>4. t.root \in Cells /\ t.fault \in BOOLEAN
    BY DEF Trees
  <2> QED
    BY <1>5, <2>1, <2>2, <2>3, <2>4 DEF Trees
<1>8. u.fault = t.fault /\ u.root = t.root /\ u.child = C
  BY <1>4 DEF Trees
<1>9. \A m \in Cells : u.parent[m] = IF m = x THEN NIL ELSE t.parent[m]
  BY <1>1, <1>4 DEF Trees
<1>10. \A m \in Cells : u.color[m] = IF m = x THEN "BLACK" ELSE t.color[m]
  BY <1>1, <1>4 DEF Trees
<1>11. \A m \in Cells : u.size[m] = IF m = x THEN 0 ELSE t.size[m]
  BY <1>1, <1>4 DEF Trees
<1>12. \A m \in Cells : u.max_high[m] = IF m = x THEN 0 ELSE t.max_high[m]
  BY <1>1, <1>4 DEF Trees
<1> QED
  BY <1>3, <1>6, <1>7, <1>8, <1>9, <1>10, <1>11, <1>12

\* y is out, its child c is in its place.
Lifted(t, l, y, c) ==
  LET p == t.parent[y]
  IN /\ l \in Trees /\ l.fault = t.fault
     /\ l.root = IF p = NIL THEN c ELSE t.root
     /\ \A r \in Sides, m \in Cells :
          l.child[r][m] = IF m = y THEN NIL
                          ELSE IF p # NIL /\ m = p /\ r = Side(t, y) THEN c ELSE t.child[r][m]
     /\ \A m \in Cells :
          /\ l.parent[m] = IF m = y THEN NIL ELSE IF m = c THEN p ELSE t.parent[m]
          /\ l.color[m] = IF m = y THEN "BLACK" ELSE t.color[m]
          /\ l.size[m] = IF m = y THEN 0 ELSE t.size[m]
          /\ l.max_high[m] = IF m = y THEN 0 ELSE t.max_high[m]

LEMMA LiftIs ==
  ASSUME NEW t \in Trees, NEW y \in Nodes, t.parent[y] \in Cells, NEW c \in Cells
  PROVE  Lifted(t, Free(transplant(t, y, c), y), y, c)
<1>1. PICK w : w = transplant(t, y, c)
  OBVIOUS
<1>2. PICK p \in Cells : p = t.parent[y]
  OBVIOUS
<1>3. /\ w \in Trees /\ w.color = t.color
      /\ w.size = t.size /\ w.max_high = t.max_high /\ w.fault = t.fault
      /\ w.root = IF p = NIL THEN c ELSE t.root
      /\ \A r \in Sides, m \in Cells :
           w.child[r][m] = IF p # NIL /\ m = p /\ r = Side(t, y) THEN c ELSE t.child[r][m]
      /\ \A m \in Cells : w.parent[m] = IF m = c THEN p ELSE t.parent[m]
  BY <1>1, <1>2, TransplantIs
<1>4. PICK u : u = Free(w, y)
  OBVIOUS
<1>5. /\ u \in Trees /\ u.root = w.root /\ u.fault = w.fault
      /\ \A r \in Sides, m \in Cells : u.child[r][m] = IF m = y THEN NIL ELSE w.child[r][m]
      /\ \A m \in Cells : /\ u.parent[m] = IF m = y THEN NIL ELSE w.parent[m]
                          /\ u.color[m] = IF m = y THEN "BLACK" ELSE w.color[m]
                          /\ u.size[m] = IF m = y THEN 0 ELSE w.size[m]
                          /\ u.max_high[m] = IF m = y THEN 0 ELSE w.max_high[m]
  BY <1>3, <1>4, FreeIs
<1>6. Lifted(t, u, y, c)
  BY <1>2, <1>3, <1>5 DEF Lifted
<1> QED
  BY <1>1, <1>4, <1>6

\* A node is one child of its parent, and of no other.
LEMMA OwnPlace ==
  ASSUME NEW t, NEW sub, LinksOK(t), Forest(t, sub), NEW y \in Nodes,
         NEW p, p = t.parent[y], NEW side, side = Side(t, y)
  PROVE  /\ p \in Cells /\ p # y /\ p \notin sub[y]
         /\ p # NIL => side \in Sides /\ t.child[side][p] = y
         /\ \A m \in Nodes, r \in Sides : t.child[r][m] = y => p # NIL /\ m = p /\ r = side
<1>1. y # NIL /\ p \in Cells /\ y \in sub[y] /\ sub[y] \in SUBSET Nodes /\ NIL \notin Nodes
  BY InForest, NodesAreFinite DEF LinksOK
<1>2. CASE p = NIL
  <2>1. \A m \in Nodes, r \in Sides : t.child[r][m] # y
    <3>1. ASSUME NEW m \in Nodes, NEW r \in Sides, t.child[r][m] = y PROVE FALSE
      <4>1. t.parent[y] = m
        BY <3>1, <1>1, InForest
      <4> QED
        BY <4>1, <1>1, <1>2
    <3> QED
      BY <3>1
  <2> QED
    BY <1>1, <1>2, <2>1
<1>3. CASE p # NIL
  <2>1. p \in Nodes
    BY <1>1, <1>3 DEF Cells
  <2>2. PICK r \in Sides : t.child[r][p] = y
    BY <1>3, InForest
  <2>3. Joins(t, sub, p, r) /\ Other(r) \in Sides /\ \A q \in Sides : q = r \/ q = Other(r)
    BY <2>1, ForestJoins, OtherSide
  <2>4. t.child[Other(r)][p] # y /\ p \notin sub[y]
    BY <2>2, <2>3, <1>1 DEF Joins
  <2>5. side = r
    BY <2>2, <2>4 DEF Side, Sides, Other
  <2>6. \A m \in Nodes, q \in Sides : t.child[q][m] = y => m = p
    BY <1>1, InForest
  <2> QED
    BY <1>1, <1>3, <2>2, <2>3, <2>4, <2>5, <2>6
<1> QED
  BY <1>2, <1>3

LEMMA LiftShape ==
  ASSUME NEW t, NEW sub, NEW here, Shape(t, sub, here), NEW y \in here, NEW s \in Sides,
         t.child[Other(s)][y] = NIL, NEW c, c = t.child[s][y],
         NEW l, Lifted(t, l, y, c),
         NEW sub1, sub1 = [m \in Cells |-> IF m = y THEN {y} ELSE sub[m] \ {y}]
  PROVE  Shape(l, sub1, here \ {y})
<1>1. LinksOK(t) /\ Forest(t, sub) /\ Rooted(t, sub, here) /\ Sorted(t, sub) /\ t \in Trees /\ t.color[NIL] = "BLACK"
  BY DEF Shape, LinksOK
<1>2. PICK p : p = t.parent[y]
  OBVIOUS
<1>3. PICK side : side = Side(t, y)
  OBVIOUS
<1>4. /\ y \in Nodes /\ y # NIL /\ y \in Cells /\ NIL \in Cells /\ NIL \notin Nodes /\ here \in SUBSET Nodes
      /\ \A m \in Nodes : m \in Cells /\ m # NIL
      /\ Other(s) \in Sides /\ Other(s) # s /\ \A r \in Sides : r = s \/ r = Other(s)
      /\ p \in Cells /\ c \in Cells /\ c \in here \cup {NIL}
      /\ \A m \in Nodes : m \in sub[m] /\ \A r \in Sides : t.child[r][m] \in Cells
  BY <1>1, <1>2, InTree, OtherSide, NodesAreFinite, InForest DEF Cells, LinksOK
<1>5. /\ sub[y] = {y} \cup sub[c] /\ y \notin sub[c] /\ sub[NIL] = {} /\ c # y
      /\ c # NIL => t.parent[c] = y
  <2>1. Joins(t, sub, y, s) /\ LinksBothWays(t, y) /\ sub[NIL] = {}
    BY <1>1, <1>4, ForestJoins DEF Forest
  <2>2. sub[y] = {y} \cup sub[c] /\ y \notin sub[c] /\ (c # NIL => t.parent[c] = y)
    BY <2>1 DEF Joins, LinksBothWays
  <2> QED
    BY <2>1, <2>2, <1>4
<1>6. /\ p # y
      /\ p # NIL => side \in Sides /\ t.child[side][p] = y
      /\ \A m \in Nodes, r \in Sides : t.child[r][m] = y => p # NIL /\ m = p /\ r = side
  BY <1>1, <1>2, <1>3, <1>4, OwnPlace
<1>7. /\ l \in Trees
      /\ l.root = IF p = NIL THEN c ELSE t.root
      /\ \A r \in Sides, m \in Cells :
           l.child[r][m] = IF m = y THEN NIL ELSE IF p # NIL /\ m = p /\ r = side THEN c ELSE t.child[r][m]
      /\ \A m \in Cells :
           /\ l.parent[m] = IF m = y THEN NIL ELSE IF m = c THEN p ELSE t.parent[m]
           /\ l.color[m] = IF m = y THEN "BLACK" ELSE t.color[m]
  BY <1>2, <1>3 DEF Lifted
<1>8. /\ sub1 \in [Cells -> SUBSET Nodes] /\ sub1[NIL] = {} /\ sub1[y] = {y}
      /\ \A m \in Cells : m # y => sub1[m] = sub[m] \ {y}
  <2>1. sub \in [Cells -> SUBSET Nodes]
    BY <1>1 DEF Forest
  <2> QED
    BY <2>1, <1>4, <1>5
<1>9. LinksOK(l)
  BY <1>1, <1>4, <1>7 DEF LinksOK
<1>10. ASSUME NEW m \in Nodes PROVE LinksBothWays(l, m)
  <2>1. LinksBothWays(t, m)
    BY <1>1, ForestJoins
  <2>2. ASSUME NEW r \in Sides, l.child[r][m] # NIL PROVE l.parent[l.child[r][m]] = m
    <3>1. m # y
      BY <2>2, <1>4, <1>7
    <3>2. CASE p # NIL /\ m = p /\ r = side
      BY <2>2, <3>1, <3>2, <1>4, <1>5, <1>7
    <3>3. CASE ~(p # NIL /\ m = p /\ r = side)
      <4>1. PICK k \in Cells : k = t.child[r][m]
        BY <1>4
      <4>2. l.child[r][m] = k
        BY <3>1, <3>3, <4>1, <1>4, <1>7
      <4>3. t.parent[k] = m /\ k # y
        BY <2>1, <2>2, <3>3, <4>1, <4>2, <1>6 DEF LinksBothWays
      <4>4. k # c
        BY <2>2, <3>1, <4>2, <4>3, <1>5
      <4> QED
        BY <4>2, <4>3, <4>4, <1>7
    <3> QED
      BY <3>2, <3>3
  <2>3. ASSUME l.parent[m] # NIL PROVE \E r \in Sides : l.child[r][l.parent[m]] = m
    <3>1. m # y /\ m \in Cells
      BY <2>3, <1>4, <1>7
    <3>2. CASE m = c
      BY <2>3, <3>1, <3>2, <1>4, <1>6, <1>7
    <3>3. CASE m # c
      <4>1. PICK q : q = t.parent[m]
        OBVIOUS
      <4>2. l.parent[m] = q /\ q # NIL
        BY <2>3, <3>1, <3>3, <4>1, <1>7
      <4>3. PICK r \in Sides : t.child[r][q] = m
        BY <2>1, <4>1, <4>2 DEF LinksBothWays
      <4>4. q # y
        BY <3>3, <4>3, <1>4
      <4>5. ~(p # NIL /\ q = p /\ r = side)
        BY <3>1, <4>3, <1>6
      <4>6. q \in Cells
        BY <4>1, <1>1 DEF LinksOK
      <4>7. l.child[r][q] = m
        BY <4>3, <4>4, <4>5, <4>6, <1>7
      <4> QED
        BY <4>2, <4>7
    <3> QED
      BY <3>2, <3>3
  <2> QED
    BY <2>2, <2>3 DEF LinksBothWays
<1>11. ASSUME NEW m \in Nodes, m # y, NEW r \in Sides
       PROVE  sub1[l.child[r][m]] = sub[t.child[r][m]] \ {y}
  <2>1. CASE p # NIL /\ m = p /\ r = side
    <3>1. l.child[r][m] = c /\ t.child[r][m] = y
      BY <2>1, <1>4, <1>6, <1>7
    <3> QED
      BY <3>1, <1>4, <1>5, <1>8
  <2>2. CASE ~(p # NIL /\ m = p /\ r = side)
    <3>1. PICK k \in Cells : k = t.child[r][m]
      BY <1>4
    <3>2. l.child[r][m] = k
      BY <1>11, <2>2, <3>1, <1>4, <1>7
    <3>3. k # y
      BY <2>2, <3>1, <1>6
    <3> QED
      BY <3>1, <3>2, <3>3, <1>8
  <2> QED
    BY <2>1, <2>2
<1>12. ASSUME NEW m \in Nodes PROVE \E r \in Sides : Joins(l, sub1, m, r)
  <2>1. CASE m = y
    <3>1. l.child[s][m] = NIL /\ l.child[Other(s)][m] = NIL
      BY <2>1, <1>4, <1>7
    <3>2. sub1[l.child[s][m]] = {} /\ sub1[l.child[Other(s)][m]] = {} /\ sub1[m] = {m}
      BY <2>1, <3>1, <1>8
    <3> QED
      BY <3>2 DEF Joins
  <2>2. CASE m # y
    <3>1. Joins(t, sub, m, s)
      BY <1>1, ForestJoins
    <3>2. PICK A : A = sub[t.child[s][m]]
      OBVIOUS
    <3>3. PICK B : B = sub[t.child[Other(s)][m]]
      OBVIOUS
    <3>4. sub[m] = {m} \cup A \cup B /\ m \notin A /\ m \notin B /\ A \cap B = {}
      BY <3>1, <3>2, <3>3 DEF Joins
    <3>5. sub1[l.child[s][m]] = A \ {y} /\ sub1[l.child[Other(s)][m]] = B \ {y} /\ sub1[m] = sub[m] \ {y}
      BY <2>2, <3>2, <3>3, <1>4, <1>8, <1>11
    <3>6. sub1[m] = {m} \cup (A \ {y}) \cup (B \ {y}) /\ (A \ {y}) \cap (B \ {y}) = {}
      BY <2>2, <3>4, <3>5
    <3> QED
      BY <3>4, <3>5, <3>6 DEF Joins
  <2> QED
    BY <2>1, <2>2
<1>13. Forest(l, sub1)
  BY <1>8, <1>10, <1>12, JoinsForest
<1>14. Rooted(l, sub1, here \ {y})
  <2>1. sub1[l.root] = here \ {y} /\ (l.root # NIL => l.parent[l.root] = NIL)
    <3>1. (p = NIL <=> y = t.root) /\ sub[t.root] = here /\ t.root \in Nodes /\ t.parent[t.root] = NIL
      <4>1. t.root # NIL /\ t.root \in here /\ (p = NIL <=> y = t.root)
        BY <1>1, <1>2, InTree
      <4> QED
        BY <4>1, <1>1, <1>4 DEF Rooted
    <3>2. CASE p = NIL
      <4>1. l.root = c /\ here = {y} \cup sub[c]
        BY <3>1, <3>2, <1>5, <1>7
      <4>2. sub1[c] = here \ {y}
        BY <4>1, <1>4, <1>5, <1>8
      <4> QED
        BY <3>2, <4>1, <4>2, <1>4, <1>5, <1>7
    <3>3. CASE p # NIL
      <4>1. l.root = t.root /\ t.root # y /\ t.root \in Cells
        BY <3>1, <3>3, <1>4, <1>7
      <4>2. t.root # c
        BY <3>1, <1>4, <1>5
      <4> QED
        BY <3>1, <4>1, <4>2, <1>7, <1>8
    <3> QED
      BY <3>2, <3>3
  <2>2. ASSUME NEW m \in Nodes \ (here \ {y}) PROVE sub1[m] = {m} /\ l.parent[m] = NIL
    <3>1. CASE m = y
      BY <3>1, <1>4, <1>7, <1>8
    <3>2. CASE m # y
      <4>1. sub[m] = {m} /\ t.parent[m] = NIL /\ m # c /\ m \in Cells
        BY <3>2, <1>1, <1>4 DEF Rooted
      <4> QED
        BY <3>2, <4>1, <1>7, <1>8
    <3> QED
      BY <3>1, <3>2
  <2> QED
    BY <2>1, <2>2, <1>4 DEF Rooted
<1>15. Sorted(l, sub1)
  <2>1. ASSUME NEW m \in Nodes, NEW r \in Sides, NEW k \in sub1[l.child[r][m]] PROVE Le(r, k, m)
    <3>1. m # y
      BY <2>1, <1>4, <1>7, <1>8
    <3>2. k \in sub[t.child[r][m]]
      BY <2>1, <3>1, <1>11
    <3> QED
      BY <3>2, <1>1 DEF Sorted
  <2> QED
    BY <2>1 DEF Sorted
<1> QED
  BY <1>4, <1>7, <1>1, <1>9, <1>13, <1>14, <1>15 DEF Shape

\* y, alone in l, takes the place of x.
Substituted(l, u, x, y) ==
  LET p == l.parent[x]
  IN /\ u \in Trees
     /\ u.root = IF p = NIL THEN y ELSE l.root
     /\ \A r \in Sides, m \in Nodes :
          u.child[r][m] = IF m = x THEN NIL
                          ELSE IF m = y THEN l.child[r][x]
                          ELSE IF p # NIL /\ m = p /\ r = Side(l, x) THEN y ELSE l.child[r][m]
     /\ \A m \in Nodes :
          u.parent[m] = IF m = x THEN NIL
                        ELSE IF m = y THEN p
                        ELSE IF l.parent[m] = x THEN y ELSE l.parent[m]

Renamed(S, x, y) == IF x \in S THEN (S \ {x}) \cup {y} ELSE S

LEMMA SubstituteShape ==
  ASSUME NEW l, NEW sub1, NEW here, Shape(l, sub1, here), NEW x \in here, NEW y \in Nodes \ here,
         \A r \in Sides : \A m \in sub1[l.child[r][x]] : Le(r, m, y),
         \A m \in Nodes, r \in Sides : x \in sub1[l.child[r][m]] => Le(r, y, m),
         NEW u, Substituted(l, u, x, y), u.color[NIL] = "BLACK",
         NEW sub2, sub2 = [m \in Cells |-> IF m = x THEN {x}
                                           ELSE Renamed(sub1[IF m = y THEN x ELSE m], x, y)]
  PROVE  Shape(u, sub2, (here \ {x}) \cup {y})
<1>1. LinksOK(l) /\ Forest(l, sub1) /\ Rooted(l, sub1, here) /\ Sorted(l, sub1) /\ l \in Trees
  BY DEF Shape, LinksOK
<1>2. PICK p : p = l.parent[x]
  OBVIOUS
<1>3. PICK side : side = Side(l, x)
  OBVIOUS
<1>4. /\ x \in Nodes /\ y \in Nodes /\ x # y /\ NIL \in Cells /\ NIL \notin Nodes /\ here \in SUBSET Nodes
      /\ \A m \in Nodes : m \in Cells /\ m # NIL
      /\ "left" \in Sides /\ "right" \in Sides /\ Other("left") = "right"
      /\ \A m \in Nodes : m \in sub1[m] /\ l.parent[m] \in Cells /\ \A r \in Sides : l.child[r][m] \in Cells
      /\ sub1 \in [Cells -> SUBSET Nodes] /\ sub1[NIL] = {}
  <2>1. here \in SUBSET Nodes /\ NIL \notin Nodes
    BY <1>1, InTree, NodesAreFinite
  <2>2. \A m \in Nodes : m \in sub1[m]
    BY <1>1, InForest
  <2>3. \A m \in Nodes : l.parent[m] \in Cells /\ \A r \in Sides : l.child[r][m] \in Cells
    BY <1>1 DEF LinksOK
  <2>4. sub1 \in [Cells -> SUBSET Nodes] /\ sub1[NIL] = {}
    BY <1>1 DEF Forest
  <2> QED
    BY <2>1, <2>2, <2>3, <2>4 DEF Cells, Sides, Other
<1>5. /\ p \in Cells /\ p # x
      /\ p # NIL => side \in Sides /\ l.child[side][p] = x
      /\ \A m \in Nodes, r \in Sides : l.child[r][m] = x => p # NIL /\ m = p /\ r = side
  BY <1>1, <1>2, <1>3, <1>4, OwnPlace
<1>6. /\ l.parent[y] = NIL /\ sub1[y] = {y}
      /\ \A m \in Cells : m # y => y \notin sub1[m]
      /\ \A m \in Nodes, r \in Sides : l.child[r][m] # y /\ l.child[r][y] = NIL
      /\ \A m \in Nodes : l.parent[m] # y
  <2>1. /\ l.parent[y] = NIL /\ sub1[y] = {y}
        /\ \A m \in Cells : m # y => y \notin sub1[m]
        /\ \A m \in Nodes, r \in Sides : l.child[r][m] # y /\ l.child[r][y] = NIL
    BY <1>1, Alone
  <2>2. \A m \in Nodes : l.parent[m] # y
    BY <2>1, <1>1, <1>4, InForest
  <2> QED
    BY <2>1, <2>2
<1>7. /\ u \in Trees
      /\ u.root = IF p = NIL THEN y ELSE l.root
      /\ \A r \in Sides, m \in Nodes :
           u.child[r][m] = IF m = x THEN NIL
                           ELSE IF m = y THEN l.child[r][x]
                           ELSE IF p # NIL /\ m = p /\ r = side THEN y ELSE l.child[r][m]
      /\ \A m \in Nodes :
           u.parent[m] = IF m = x THEN NIL
                         ELSE IF m = y THEN p
                         ELSE IF l.parent[m] = x THEN y ELSE l.parent[m]
  BY <1>2, <1>3 DEF Substituted
<1>8. /\ sub2 \in [Cells -> SUBSET Nodes] /\ sub2[NIL] = {} /\ sub2[x] = {x}
      /\ sub2[y] = Renamed(sub1[x], x, y)
      /\ \A m \in Cells : m # x /\ m # y => sub2[m] = Renamed(sub1[m], x, y)
  <2>1. ASSUME NEW S \in SUBSET Nodes PROVE Renamed(S, x, y) \in SUBSET Nodes
    BY <1>4 DEF Renamed
  <2>2. Renamed({}, x, y) = {}
    BY DEF Renamed
  <2> QED
    BY <2>1, <2>2, <1>4
<1>9. LinksOK(u)
  BY <1>4, <1>5, <1>7 DEF LinksOK, Cells
<1>10. ASSUME NEW m \in Nodes PROVE LinksBothWays(u, m)
  <2>1. \A k \in Nodes : LinksBothWays(l, k)
    BY <1>1, ForestJoins
  <2>2. ASSUME NEW r \in Sides, u.child[r][m] # NIL PROVE u.parent[u.child[r][m]] = m
    <3>1. m # x
      BY <2>2, <1>7
    <3>2. CASE m = y
      <4>1. PICK k \in Nodes : k = l.child[r][x]
        BY <2>2, <3>1, <3>2, <1>4, <1>7 DEF Cells
      <4>2. k # x /\ k # y /\ l.parent[k] = x
        BY <4>1, <2>1, <1>4, <1>5, <1>6 DEF LinksBothWays
      <4> QED
        BY <3>1, <3>2, <4>1, <4>2, <1>7
    <3>3. CASE m # y /\ p # NIL /\ m = p /\ r = side
      BY <3>1, <3>3, <1>4, <1>7
    <3>4. CASE m # y /\ ~(p # NIL /\ m = p /\ r = side)
      <4>1. PICK k \in Nodes : k = l.child[r][m] /\ u.child[r][m] = k
        BY <2>2, <3>1, <3>4, <1>4, <1>7 DEF Cells
      <4>2. k # x /\ k # y /\ l.parent[k] = m
        BY <3>4, <4>1, <2>1, <1>4, <1>5, <1>6 DEF LinksBothWays
      <4> QED
        BY <3>1, <4>1, <4>2, <1>7
    <3> QED
      BY <3>2, <3>3, <3>4
  <2>3. ASSUME u.parent[m] # NIL PROVE \E r \in Sides : u.child[r][u.parent[m]] = m
    <3>1. m # x
      BY <2>3, <1>7
    <3>2. CASE m = y
      <4>1. u.parent[m] = p /\ p \in Nodes /\ p # NIL /\ p # x /\ p # y /\ side \in Sides
        <5>1. u.parent[m] = p /\ p # NIL
          BY <2>3, <3>1, <3>2, <1>7
        <5> QED
          BY <5>1, <1>2, <1>4, <1>5, <1>6 DEF Cells
      <4>2. u.child[side][p] = y
        BY <4>1, <1>7
      <4> QED
        BY <3>2, <4>1, <4>2
    <3>3. CASE m # y /\ l.parent[m] = x
      <4>1. PICK r \in Sides : l.child[r][x] = m
        BY <3>3, <2>1, <1>4 DEF LinksBothWays
      <4>2. u.parent[m] = y /\ u.child[r][y] = m
        BY <3>1, <3>3, <4>1, <1>4, <1>7
      <4> QED
        BY <4>2
    <3>4. CASE m # y /\ l.parent[m] # x
      <4>1. PICK q \in Nodes : q = l.parent[m] /\ u.parent[m] = q
        BY <2>3, <3>1, <3>4, <1>4, <1>7 DEF Cells
      <4>2. PICK r \in Sides : l.child[r][q] = m
        BY <4>1, <2>1, <1>4 DEF LinksBothWays
      <4>3. q # x /\ q # y /\ ~(p # NIL /\ q = p /\ r = side)
        BY <3>1, <3>4, <4>1, <4>2, <1>5, <1>6
      <4>4. u.child[r][q] = m
        BY <4>2, <4>3, <1>7
      <4> QED
        BY <4>1, <4>4
    <3> QED
      BY <3>2, <3>3, <3>4
  <2> QED
    BY <2>2, <2>3 DEF LinksBothWays
<1>11. ASSUME NEW m \in Nodes, m # x, NEW r \in Sides
       PROVE  sub2[u.child[r][m]] = Renamed(sub1[l.child[r][IF m = y THEN x ELSE m]], x, y)
  <2>1. CASE m = y
    <3>1. PICK k \in Cells : k = l.child[r][x]
      BY <1>4
    <3>2. k # x /\ k # y
      BY <3>1, <1>4, <1>5, <1>6
    <3>3. u.child[r][m] = k
      BY <2>1, <3>1, <1>4, <1>7
    <3> QED
      BY <2>1, <3>1, <3>2, <3>3, <1>8
  <2>2. CASE m # y /\ p # NIL /\ m = p /\ r = side
    <3>1. u.child[r][m] = y /\ l.child[r][m] = x
      BY <1>11, <2>2, <1>5, <1>7
    <3> QED
      BY <2>2, <3>1, <1>8
  <2>3. CASE m # y /\ ~(p # NIL /\ m = p /\ r = side)
    <3>1. PICK k \in Cells : k = l.child[r][m]
      BY <1>4
    <3>2. u.child[r][m] = k /\ k # x /\ k # y
      BY <1>11, <2>3, <3>1, <1>5, <1>6, <1>7
    <3> QED
      BY <2>3, <3>1, <3>2, <1>8
  <2> QED
    BY <2>1, <2>2, <2>3
<1>12. ASSUME NEW m \in Nodes PROVE \E r \in Sides : Joins(u, sub2, m, r)
  <2>1. CASE m = x
    <3>1. u.child["left"][m] = NIL /\ u.child["right"][m] = NIL
      BY <2>1, <1>4, <1>7
    <3>2. sub2[u.child["left"][m]] = {} /\ sub2[u.child["right"][m]] = {} /\ sub2[m] = {m}
      BY <2>1, <3>1, <1>8
    <3> QED
      BY <3>2, <1>4 DEF Joins
  <2>2. CASE m # x
    <3>1. PICK k \in Nodes : k = IF m = y THEN x ELSE m
      BY <1>4
    <3>2. Joins(l, sub1, k, "left") /\ k # y
      BY <3>1, <1>1, <1>4, ForestJoins
    <3>3. PICK A : A = sub1[l.child["left"][k]]
      OBVIOUS
    <3>4. PICK B : B = sub1[l.child["right"][k]]
      OBVIOUS
    <3>5. sub1[k] = {k} \cup A \cup B /\ k \notin A /\ k \notin B /\ A \cap B = {}
      BY <3>2, <3>3, <3>4, <1>4 DEF Joins
    <3>6. y \notin A /\ y \notin B
      BY <3>2, <3>5, <1>4, <1>6
    <3>7. sub2[u.child["left"][m]] = Renamed(A, x, y) /\ sub2[u.child["right"][m]] = Renamed(B, x, y)
      BY <2>2, <3>1, <3>3, <3>4, <1>4, <1>11
    <3>8. sub2[m] = Renamed(sub1[k], x, y)
      BY <2>2, <3>1, <1>4, <1>8
    <3>9. Renamed(sub1[k], x, y) = {m} \cup Renamed(A, x, y) \cup Renamed(B, x, y)
      <4>1. CASE m = y
        BY <4>1, <3>1, <3>5, <3>6, <2>2 DEF Renamed
      <4>2. CASE m # y
        <5>1. k = m
          BY <4>2, <3>1
        <5>2. CASE x \in A
          BY <5>1, <5>2, <3>5, <2>2 DEF Renamed
        <5>3. CASE x \in B
          BY <5>1, <5>3, <3>5, <2>2 DEF Renamed
        <5>4. CASE x \notin A /\ x \notin B
          BY <5>1, <5>4, <3>5, <2>2 DEF Renamed
        <5> QED
          BY <5>2, <5>3, <5>4
      <4> QED
        BY <4>1, <4>2
    <3>10. m \notin Renamed(A, x, y) /\ m \notin Renamed(B, x, y)
      BY <2>2, <3>1, <3>5, <3>6 DEF Renamed
    <3>11. Renamed(A, x, y) \cap Renamed(B, x, y) = {}
      BY <3>5, <3>6 DEF Renamed
    <3> QED
      BY <3>7, <3>8, <3>9, <3>10, <3>11, <1>4 DEF Joins
  <2> QED
    BY <2>1, <2>2
<1>13. Forest(u, sub2)
  BY <1>8, <1>10, <1>12, JoinsForest
<1>14. Rooted(u, sub2, (here \ {x}) \cup {y})
  <2>1. sub2[u.root] = (here \ {x}) \cup {y} /\ u.parent[u.root] = NIL
    <3>1. l.root \in here /\ (p = NIL <=> x = l.root)
      BY <1>1, <1>2, InTree
    <3>2. sub1[l.root] = here /\ l.root \in Nodes /\ l.parent[l.root] = NIL
      BY <3>1, <1>1, <1>4 DEF Rooted
    <3>3. CASE p = NIL
      BY <3>1, <3>2, <3>3, <1>4, <1>7, <1>8 DEF Renamed
    <3>4. CASE p # NIL
      <4>1. u.root = l.root /\ l.root # x /\ l.root # y /\ l.root \in Cells
        BY <3>1, <3>2, <3>4, <1>4, <1>7
      <4>2. u.parent[l.root] = NIL
        BY <4>1, <3>2, <1>4, <1>7
      <4> QED
        BY <4>1, <4>2, <3>2, <1>8 DEF Renamed
    <3> QED
      BY <3>3, <3>4
  <2>2. ASSUME NEW m \in Nodes \ ((here \ {x}) \cup {y}) PROVE sub2[m] = {m} /\ u.parent[m] = NIL
    <3>1. CASE m = x
      BY <3>1, <1>4, <1>7, <1>8
    <3>2. CASE m # x
      <4>1. sub1[m] = {m} /\ l.parent[m] = NIL /\ m # y /\ m \in Cells
        BY <3>2, <1>1, <1>4 DEF Rooted
      <4> QED
        BY <3>2, <4>1, <1>4, <1>7, <1>8 DEF Renamed
    <3> QED
      BY <3>1, <3>2
  <2> QED
    BY <2>1, <2>2, <1>4 DEF Rooted
<1>15. Sorted(u, sub2)
  <2>1. ASSUME NEW m \in Nodes, NEW r \in Sides, NEW k \in sub2[u.child[r][m]] PROVE Le(r, k, m)
    <3>1. m # x
      BY <2>1, <1>7, <1>8
    <3>2. CASE m = y
      <4>1. k \in Renamed(sub1[l.child[r][x]], x, y) /\ x \notin sub1[l.child[r][x]]
        BY <2>1, <3>1, <3>2, <1>1, <1>4, <1>11, InForest
      <4> QED
        BY <3>2, <4>1 DEF Renamed
    <3>3. CASE m # y
      <4>1. k \in Renamed(sub1[l.child[r][m]], x, y)
        BY <2>1, <3>1, <3>3, <1>11
      <4>2. CASE x \in sub1[l.child[r][m]] /\ k = y
        BY <4>2
      <4>3. CASE k \in sub1[l.child[r][m]]
        BY <4>3, <1>1 DEF Sorted
      <4> QED
        BY <4>1, <4>2, <4>3 DEF Renamed
    <3> QED
      BY <3>2, <3>3
  <2> QED
    BY <2>1 DEF Sorted
<1> QED
  BY <1>9, <1>13, <1>14, <1>15 DEF Shape

\* q is the first of the subtree of k.
Least(t, sub, k, q) ==
  /\ q \in sub[k] /\ t.child["left"][q] = NIL
  /\ \A m \in sub[k] : Data[q] <= Data[m]

LEMMA SuccessorIs ==
  ASSUME NEW t, NEW sub, LinksOK(t), Forest(t, sub), Sorted(t, sub), NEW x \in Nodes, t.child["right"][x] # NIL
  PROVE  Least(t, sub, t.child["right"][x], Successor(t, x))
<1>1. PICK k \in Nodes : k = t.child["right"][x]
  BY DEF LinksOK, Sides, Cells
<1>2. PICK f \in [Nodes -> Nodes] : (\A m \in Nodes : f[m] = MinStep(t, f, m)) /\ min_node(t, k) = f[k]
  BY MinIs
<1> DEFINE A == {n \in Cells : n = NIL \/ Least(t, sub, n, f[n])}
<1>3. NIL \in A
  BY DEF Cells
<1>4. ASSUME NEW n \in Nodes, \A s \in Sides : t.child[s][n] \in A PROVE n \in A
  <2>1. PICK a \in Cells : a = t.child["left"][n]
    BY DEF LinksOK, Sides
  <2>2. PICK b \in Cells : b = t.child["right"][n]
    BY DEF LinksOK, Sides
  <2>3. sub[n] = {n} \cup sub[a] \cup sub[b] /\ sub[NIL] = {} /\ sub[n] \in SUBSET Nodes
    BY <2>1, <2>2, InForest DEF Forest
  <2>4. (\A m \in sub[a] : Data[m] <= Data[n]) /\ (\A m \in sub[b] : Data[n] <= Data[m])
    BY <2>1, <2>2 DEF Sorted, Le, Sides
  <2>5. \A m \in sub[n] : Data[m] \in Nat
    BY <2>3, TreeAssumption
  <2>6. CASE a = NIL
    <3>1. f[n] = n
      BY <1>2, <2>1, <2>6 DEF MinStep
    <3>2. Least(t, sub, n, n)
      BY <2>1, <2>3, <2>4, <2>5, <2>6 DEF Least
    <3> QED
      BY <3>1, <3>2 DEF Cells
  <2>7. CASE a # NIL
    <3>1. PICK q : q = f[a]
      OBVIOUS
    <3>2. f[n] = q /\ Least(t, sub, a, q)
      BY <1>2, <1>4, <2>1, <2>7, <3>1 DEF MinStep, Sides
    <3>3. q \in sub[n] /\ q \in sub[a] /\ t.child["left"][q] = NIL /\ \A m \in sub[a] : Data[q] <= Data[m]
      BY <2>3, <3>2 DEF Least
    <3>4. Data[q] <= Data[n] /\ Data[q] \in Nat /\ Data[n] \in Nat
      BY <2>3, <2>4, <2>5, <3>3
    <3>5. \A m \in sub[n] : Data[q] <= Data[m]
      BY <2>3, <2>4, <2>5, <3>3, <3>4
    <3>6. Least(t, sub, n, q)
      BY <3>3, <3>5 DEF Least
    <3> QED
      BY <3>2, <3>6 DEF Cells
  <2> QED
    BY <2>6, <2>7
<1>5. Cells \subseteq A
  <2> HIDE DEF A
  <2> QED
    BY <1>3, <1>4, Downward
<1> QED
  BY <1>1, <1>2, <1>5, NodesAreFinite DEF Successor, Cells

\* The steps of ReplaceBySuccessor after y has been freed of its place.
Replaced(t, freed, x, y, left) ==
  Free([transplant(freed, x, y) EXCEPT !.child["left"][y] = left, !.parent[left] = y,
                                       !.color[y] = t.color[x], !.size[y] = t.size[x]], x)

CanReplace(t, freed, x, y, left) ==
  /\ t \in Trees /\ freed \in Trees /\ x \in Nodes /\ y \in Nodes /\ x # y /\ left \in Nodes
  /\ freed.parent[x] \in Cells

LEMMA ReplaceIs ==
  ASSUME NEW t, NEW freed, NEW x, NEW y, NEW left, CanReplace(t, freed, x, y, left),
         NEW u, u = Replaced(t, freed, x, y, left)
  PROVE  /\ u \in Trees /\ u.fault = freed.fault
         /\ u.root = IF freed.parent[x] = NIL THEN y ELSE freed.root
         /\ \A r \in Sides, m \in Cells :
              u.child[r][m] = IF m = x THEN NIL
                              ELSE IF m = y /\ r = "left" THEN left
                              ELSE IF freed.parent[x] # NIL /\ m = freed.parent[x] /\ r = Side(freed, x) THEN y
                              ELSE freed.child[r][m]
         /\ \A m \in Cells :
              /\ u.parent[m] = IF m = x THEN NIL ELSE IF m = left THEN y
                               ELSE IF m = y THEN freed.parent[x] ELSE freed.parent[m]
              /\ u.color[m] = IF m = x THEN "BLACK" ELSE IF m = y THEN t.color[x] ELSE freed.color[m]
              /\ u.size[m] = IF m = x THEN 0 ELSE IF m = y THEN t.size[x] ELSE freed.size[m]
              /\ u.max_high[m] = IF m = x THEN 0 ELSE freed.max_high[m]
<1>1. PICK p : p = freed.parent[x]
  OBVIOUS
<1>2. PICK v : v = transplant(freed, x, y)
  OBVIOUS
<1>3. x \in Cells /\ y \in Cells /\ left \in Cells /\ t.color[x] \in {"RED", "BLACK"} /\ t.size[x] \in Int
  BY DEF CanReplace, Cells, Trees
<1>19. freed \in Trees /\ x \in Nodes /\ p \in Cells /\ x # y
  BY <1>1 DEF CanReplace
<1>4. /\ v \in Trees /\ v.color = freed.color
      /\ v.size = freed.size /\ v.max_high = freed.max_high /\ v.fault = freed.fault
      /\ v.root = IF p = NIL THEN y ELSE freed.root
      /\ \A r \in Sides, m \in Cells :
           v.child[r][m] = IF p # NIL /\ m = p /\ r = Side(freed, x) THEN y ELSE freed.child[r][m]
      /\ \A m \in Cells : v.parent[m] = IF m = y THEN p ELSE freed.parent[m]
  BY <1>1, <1>2, <1>3, <1>19, TransplantIs
<1>5. PICK w : w = [v EXCEPT !.child["left"][y] = left]
  OBVIOUS
<1>6. /\ w \in Trees /\ w.root = v.root /\ w.parent = v.parent /\ w.color = v.color
      /\ w.size = v.size /\ w.max_high = v.max_high /\ w.fault = v.fault
      /\ \A r \in Sides, m \in Cells : w.child[r][m] = IF r = "left" /\ m = y THEN left ELSE v.child[r][m]
  <2>1. PICK s : s = "left" /\ s \in Sides
    BY DEF Sides
  <2>2. w = [v EXCEPT !.child[s][y] = left]
    BY <1>5, <2>1
  <2>3. v \in Trees
    BY <1>4
  <2> QED
    BY <1>3, <2>1, <2>2, <2>3, SetChild
<1>7. PICK z : z = [w EXCEPT !.parent[left] = y]
  OBVIOUS
<1>8. /\ z \in Trees /\ z.root = w.root /\ z.child = w.child /\ z.color = w.color
      /\ z.size = w.size /\ z.max_high = w.max_high /\ z.fault = w.fault
      /\ \A m \in Cells : z.parent[m] = IF m = left THEN y ELSE w.parent[m]
  BY <1>3, <1>6, <1>7, SetParent
<1>9. PICK col : col = t.color[x]
  OBVIOUS
<1>10. PICK siz : siz = t.size[x]
  OBVIOUS
<1>11. PICK k : k = [z EXCEPT !.color[y] = col, !.size[y] = siz]
  OBVIOUS
<1>12. /\ k \in Trees /\ k.root = z.root /\ k.child = z.child /\ k.parent = z.parent
       /\ k.max_high = z.max_high /\ k.fault = z.fault
       /\ \A m \in Cells : /\ k.color[m] = IF m = y THEN col ELSE z.color[m]
                           /\ k.size[m] = IF m = y THEN siz ELSE z.size[m]
  BY <1>3, <1>8, <1>9, <1>10, <1>11 DEF Trees
<1>14. u = Free(k, x)
  BY <1>2, <1>5, <1>7, <1>9, <1>10, <1>11 DEF Replaced
<1>15. /\ u \in Trees /\ u.root = k.root /\ u.fault = k.fault
       /\ \A r \in Sides, m \in Cells : u.child[r][m] = IF m = x THEN NIL ELSE k.child[r][m]
       /\ \A m \in Cells : /\ u.parent[m] = IF m = x THEN NIL ELSE k.parent[m]
                           /\ u.color[m] = IF m = x THEN "BLACK" ELSE k.color[m]
                           /\ u.size[m] = IF m = x THEN 0 ELSE k.size[m]
                           /\ u.max_high[m] = IF m = x THEN 0 ELSE k.max_high[m]
  <2>1. k \in Trees
    BY <1>12
  <2> QED
    BY <2>1, <1>14, <1>19, FreeIs
<1>16. /\ u.root = IF p = NIL THEN y ELSE freed.root
       /\ u.fault = freed.fault
  BY <1>4, <1>6, <1>8, <1>12, <1>15, <1>19
<1>17. \A r \in Sides, m \in Cells :
              u.child[r][m] = IF m = x THEN NIL
                              ELSE IF m = y /\ r = "left" THEN left
                              ELSE IF p # NIL /\ m = p /\ r = Side(freed, x) THEN y
                              ELSE freed.child[r][m]
  BY <1>4, <1>6, <1>8, <1>12, <1>15, <1>19
<1>18. \A m \in Cells :
              /\ u.parent[m] = IF m = x THEN NIL ELSE IF m = left THEN y
                               ELSE IF m = y THEN p ELSE freed.parent[m]
              /\ u.color[m] = IF m = x THEN "BLACK" ELSE IF m = y THEN t.color[x] ELSE freed.color[m]
              /\ u.size[m] = IF m = x THEN 0 ELSE IF m = y THEN t.size[x] ELSE freed.size[m]
              /\ u.max_high[m] = IF m = x THEN 0 ELSE freed.max_high[m]
  BY <1>4, <1>6, <1>8, <1>9, <1>10, <1>12, <1>15, <1>19
<1> QED
  BY <1>1, <1>15, <1>16, <1>17, <1>18

\* Where x, its children, its successor y and the child c of that are.
Places(t, x, y, c) ==
  LET left == t.child["left"][x]
      right == t.child["right"][x]
      q == t.parent[y]
      p == t.parent[x]
  IN /\ x \in Nodes /\ y \in Nodes /\ left \in Nodes /\ right \in Nodes /\ c \in Cells
     /\ p \in Cells /\ q \in Nodes
     /\ x # y /\ left # x /\ left # y /\ right # x /\ left # right
     /\ c \notin {x, y, left, right} /\ q # y
     /\ p \notin {x, y, left, right, q}
     /\ t.parent[left] = x /\ t.parent[right] = x /\ (c # NIL => t.parent[c] = y)
     /\ t.child["left"][y] = NIL /\ t.child["right"][y] = c
     /\ (q = x <=> y = right) /\ (q = x => Side(t, y) = "right")
     /\ \A m \in Nodes : t.parent[m] = x => m \in {left, right}

LEMMA PlacesIs ==
  ASSUME NEW t, NEW sub, NEW here, Shape(t, sub, here), NEW x \in here, BothChildren(t, x),
         NEW y, y = Successor(t, x), NEW c, c = t.child["right"][y]
  PROVE  /\ Places(t, x, y, c) /\ y \in sub[t.child["right"][x]]
         /\ \A m \in sub[t.child["right"][x]] : Data[y] <= Data[m]
<1>1. LinksOK(t) /\ Forest(t, sub) /\ Rooted(t, sub, here) /\ Sorted(t, sub)
  BY DEF Shape
<1>2. PICK left : left = t.child["left"][x]
  OBVIOUS
<1>3. PICK right : right = t.child["right"][x]
  OBVIOUS
<1>4. PICK q : q = t.parent[y]
  OBVIOUS
<1>5. PICK p : p = t.parent[x]
  OBVIOUS
<1>6. /\ x \in Nodes /\ NIL \notin Nodes /\ "left" \in Sides /\ "right" \in Sides /\ Other("left") = "right"
      /\ left \in Nodes /\ right \in Nodes
  <2>1. x \in Nodes /\ NIL \notin Nodes /\ "left" \in Sides /\ "right" \in Sides /\ Other("left") = "right"
    BY <1>1, InTree, NodesAreFinite DEF Sides, Other
  <2>2. left \in Cells /\ right \in Cells /\ left # NIL /\ right # NIL
    BY <2>1, <1>1, <1>2, <1>3 DEF BothChildren, LinksOK
  <2> QED
    BY <2>1, <2>2 DEF Cells
<1>7. Least(t, sub, right, y)
  BY <1>1, <1>3, <1>6, SuccessorIs
<1>8. y \in sub[right] /\ t.child["left"][y] = NIL /\ \A m \in sub[right] : Data[y] <= Data[m]
  BY <1>7 DEF Least
<1>9. Joins(t, sub, x, "left") /\ LinksBothWays(t, x)
  BY <1>1, <1>6, ForestJoins
<1>10. /\ sub[x] = {x} \cup sub[left] \cup sub[right] /\ x \notin sub[left] /\ x \notin sub[right]
       /\ sub[left] \cap sub[right] = {} /\ t.parent[left] = x /\ t.parent[right] = x
  BY <1>2, <1>3, <1>6, <1>9, NodesAreFinite DEF Joins, LinksBothWays
<1>11. left \in sub[left] /\ right \in sub[right]
  BY <1>1, <1>6, InForest
<1>12. y \in Nodes /\ sub[y] \subseteq sub[right] /\ right \in Cells
  BY <1>1, <1>6, <1>8, BelowBelow DEF Cells
<1>13. x # y /\ left # x /\ left # y /\ right # x /\ left # right /\ y \in sub[x]
  BY <1>8, <1>10, <1>11
<1>14. c \in Cells /\ sub[c] \subseteq sub[y] /\ y \notin sub[c] /\ (c # NIL => t.parent[c] = y)
  BY <1>1, <1>6, <1>12, InForest
<1>15. c \notin {x, y, left, right}
  <2>1. CASE c = NIL
    BY <2>1, <1>6, <1>12
  <2>2. CASE c # NIL
    <3>1. c \in sub[c] /\ t.parent[c] = y
      BY <2>2, <1>1, <1>14, InForest DEF Cells
    <3> QED
      BY <3>1, <1>10, <1>12, <1>13, <1>14
  <2> QED
    BY <2>1, <2>2
<1>16. q \in Nodes /\ q \in sub[x] /\ q # y
  <2>1. q # NIL /\ q \in sub[x]
    BY <1>1, <1>4, <1>6, <1>12, <1>13, AboveIs DEF Cells
  <2>2. q # y
    BY <1>1, <1>4, <1>12, OwnPlace
  <2>3. sub[x] \in SUBSET Nodes
    BY <1>1, <1>6, InForest
  <2> QED
    BY <2>1, <2>2, <2>3
<1>17. p \in Cells /\ p \notin sub[x]
  BY <1>1, <1>5, <1>6, OwnPlace
<1>18. p \notin {x, y, left, right, q}
  BY <1>8, <1>10, <1>11, <1>16, <1>17
<1>19. ASSUME NEW m \in Nodes, t.parent[m] = x PROVE m \in {left, right}
  <2>1. x # NIL
    BY <1>6
  <2>2. \E r \in Sides : t.child[r][x] = m
    BY <1>1, <1>19, <2>1, InForest
  <2> QED
    BY <2>2, <1>2, <1>3 DEF Sides
<1>20. (q = x <=> y = right) /\ (q = x => Side(t, y) = "right")
  <2>1. q = x => y = right
    BY <1>4, <1>12, <1>13, <1>19
  <2>2. y = right => q = x
    BY <1>4, <1>10
  <2>3. q = x => Side(t, y) = "right"
    BY <1>2, <1>4, <1>13 DEF Side
  <2> QED
    BY <2>1, <2>2, <2>3
<1>21. Places(t, x, y, c)
  BY <1>2, <1>3, <1>4, <1>5, <1>6, <1>8, <1>10, <1>12, <1>13, <1>14, <1>15, <1>16, <1>17, <1>18, <1>19, <1>20 DEF Places
<1> QED
  BY <1>3, <1>8, <1>21

\* y has been freed of its place, and has the right child it will have.
Freed(t, f, x, y, c) ==
  LET right == t.child["right"][x]
      q == t.parent[y]
  IN /\ f \in Trees /\ f.root = t.root /\ f.color = t.color /\ f.size = t.size /\ f.max_high = t.max_high
     /\ f.fault = t.fault
     /\ \A r \in Sides, m \in Cells :
          f.child[r][m] = IF q # x /\ m = y /\ r = "right" THEN right
                          ELSE IF q # x /\ m = q /\ r = Side(t, y) THEN c ELSE t.child[r][m]
     /\ \A m \in Cells :
          f.parent[m] = IF m = c THEN (IF q = x THEN y ELSE q)
                        ELSE IF q # x /\ m = right THEN y ELSE t.parent[m]

LEMMA FreedIs ==
  ASSUME NEW t \in Trees, NEW x, NEW y, NEW c, Places(t, x, y, c)
  PROVE  \E f : /\ Freed(t, f, x, y, c)
                /\ Free(ReplaceBySuccessor(t, x, y), x) = Replaced(t, f, x, y, t.child["left"][x])
<1>1. PICK right : right = t.child["right"][x]
  OBVIOUS
<1>2. PICK q : q = t.parent[y]
  OBVIOUS
<1>3. y \in Cells /\ c \in Cells /\ right \in Cells /\ q \in Cells /\ q # NIL /\ y \in Nodes /\ right # c
      /\ t.child["right"][y] = c /\ t.parent[y] = q
  BY <1>1, <1>2, NodesAreFinite DEF Places, Cells
<1>4. CASE q = x
  <2>1. PICK f : f = [t EXCEPT !.parent[c] = y]
    OBVIOUS
  <2>2. /\ f \in Trees /\ f.root = t.root /\ f.child = t.child /\ f.color = t.color
        /\ f.size = t.size /\ f.max_high = t.max_high /\ f.fault = t.fault
        /\ \A m \in Cells : f.parent[m] = IF m = c THEN y ELSE t.parent[m]
    BY <2>1, <1>3, SetParent
  <2>3. Freed(t, f, x, y, c)
    BY <2>2, <1>2, <1>4 DEF Freed
  <2>4. ReplaceBySuccessor(t, x, y) = [transplant(f, x, y) EXCEPT !.child["left"][y] = t.child["left"][x], !.parent[t.child["left"][x]] = y,
                                       !.color[y] = t.color[x], !.size[y] = t.size[x]]
    BY <2>1, <1>2, <1>3, <1>4 DEF ReplaceBySuccessor
  <2> QED
    BY <2>3, <2>4 DEF Replaced
<1>5. CASE q # x
  <2>1. PICK a : a = transplant(t, y, c)
    OBVIOUS
  <2>2. /\ a \in Trees /\ a.color = t.color
        /\ a.size = t.size /\ a.max_high = t.max_high /\ a.fault = t.fault
        /\ a.root = IF q = NIL THEN c ELSE t.root
        /\ \A r \in Sides, m \in Cells :
             a.child[r][m] = IF q # NIL /\ m = q /\ r = Side(t, y) THEN c ELSE t.child[r][m]
        /\ \A m \in Cells : a.parent[m] = IF m = c THEN q ELSE t.parent[m]
    BY <2>1, <1>3, TransplantIs
  <2>3. PICK g : g = [a EXCEPT !.child["right"][y] = right]
    OBVIOUS
  <2>4. /\ g \in Trees /\ g.root = a.root /\ g.parent = a.parent /\ g.color = a.color
        /\ g.size = a.size /\ g.max_high = a.max_high /\ g.fault = a.fault
        /\ \A r \in Sides, m \in Cells : g.child[r][m] = IF r = "right" /\ m = y THEN right ELSE a.child[r][m]
    <3>1. PICK s : s = "right" /\ s \in Sides
      BY DEF Sides
    <3>2. g = [a EXCEPT !.child[s][y] = right] /\ a \in Trees
      BY <2>2, <2>3, <3>1
    <3> QED
      BY <1>3, <3>1, <3>2, SetChild
  <2>5. PICK f : f = [g EXCEPT !.parent[right] = y]
    OBVIOUS
  <2>6. /\ f \in Trees /\ f.root = g.root /\ f.child = g.child /\ f.color = g.color
        /\ f.size = g.size /\ f.max_high = g.max_high /\ f.fault = g.fault
        /\ \A m \in Cells : f.parent[m] = IF m = right THEN y ELSE g.parent[m]
    BY <2>4, <2>5, <1>3, SetParent
  <2>7. Freed(t, f, x, y, c)
    <3>1. \A r \in Sides, m \in Cells :
          f.child[r][m] = IF m = y /\ r = "right" THEN right
                          ELSE IF m = q /\ r = Side(t, y) THEN c ELSE t.child[r][m]
      BY <2>2, <2>4, <2>6, <1>3
    <3>2. \A m \in Cells :
          f.parent[m] = IF m = c THEN q ELSE IF m = right THEN y ELSE t.parent[m]
      BY <2>2, <2>4, <2>6, <1>3
    <3>3. /\ f \in Trees /\ f.root = t.root /\ f.color = t.color /\ f.size = t.size /\ f.max_high = t.max_high
          /\ f.fault = t.fault
      BY <2>2, <2>4, <2>6, <1>3
    <3> QED
      BY <3>1, <3>2, <3>3, <1>1, <1>2, <1>5 DEF Freed
  <2>8. ReplaceBySuccessor(t, x, y) = [transplant(f, x, y) EXCEPT !.child["left"][y] = t.child["left"][x], !.parent[t.child["left"][x]] = y,
                                       !.color[y] = t.color[x], !.size[y] = t.size[x]]
    BY <2>1, <2>3, <2>5, <1>1, <1>2, <1>3, <1>5 DEF ReplaceBySuccessor
  <2> QED
    BY <2>7, <2>8 DEF Replaced
<1> QED
  BY <1>4, <1>5

\* What the successor y takes over from x, and where its child c is then.
TakenOver(t, u, x, y, c) ==
  /\ u.fault = t.fault
  /\ u.parent[c] = IF t.parent[y] = x THEN y ELSE t.parent[y]
  /\ \A m \in Cells :
       /\ u.color[m] = IF m = x THEN "BLACK" ELSE IF m = y THEN t.color[x] ELSE t.color[m]
       /\ u.size[m] = IF m = x THEN 0 ELSE IF m = y THEN t.size[x] ELSE t.size[m]
       /\ u.max_high[m] = IF m = x THEN 0 ELSE t.max_high[m]

\* Replacing x by its successor is lifting that out and putting it in the place of x.
LEMMA ReplacementIs ==
  ASSUME NEW t, t \in Trees, NEW x, NEW y, NEW c, Places(t, x, y, c),
         NEW l, Lifted(t, l, y, c),
         NEW u, u = Free(ReplaceBySuccessor(t, x, y), x)
  PROVE  Substituted(l, u, x, y) /\ TakenOver(t, u, x, y, c)
<1>1. PICK left : left = t.child["left"][x]
  OBVIOUS
<1>2. PICK right : right = t.child["right"][x]
  OBVIOUS
<1>3. PICK q : q = t.parent[y]
  OBVIOUS
<1>4. PICK p : p = t.parent[x]
  OBVIOUS
<1>5. /\ x \in Nodes /\ y \in Nodes /\ left \in Nodes /\ right \in Nodes /\ c \in Cells
      /\ p \in Cells /\ q \in Nodes
      /\ x # y /\ left # x /\ left # y /\ right # x /\ left # right
      /\ c \notin {x, y, left, right} /\ q # y
      /\ p \notin {x, y, left, right, q}
      /\ t.child["left"][y] = NIL /\ t.child["right"][y] = c
      /\ (q = x <=> y = right) /\ (q = x => Side(t, y) = "right")
  BY <1>1, <1>2, <1>3, <1>4 DEF Places
<1>6. t.parent[left] = x /\ t.parent[right] = x /\ \A m \in Nodes : t.parent[m] = x => m \in {left, right}
  BY <1>1, <1>2 DEF Places
<1>7. /\ NIL \notin Nodes /\ "left" \in Sides /\ "right" \in Sides /\ \A r \in Sides : r = "left" \/ r = "right"
      /\ \A m \in Nodes : m \in Cells
  BY NodesAreFinite DEF Sides, Cells
<1>8. PICK f : Freed(t, f, x, y, c) /\ u = Replaced(t, f, x, y, left)
  BY <1>1, FreedIs
<1>9. /\ f \in Trees /\ f.root = t.root /\ f.color = t.color /\ f.size = t.size /\ f.max_high = t.max_high
      /\ f.fault = t.fault
  BY <1>8 DEF Freed
<1>10. \A r \in Sides, m \in Cells :
         f.child[r][m] = IF q # x /\ m = y /\ r = "right" THEN right
                         ELSE IF q # x /\ m = q /\ r = Side(t, y) THEN c ELSE t.child[r][m]
  BY <1>2, <1>3, <1>8 DEF Freed
<1>11. \A m \in Cells :
         f.parent[m] = IF m = c THEN (IF q = x THEN y ELSE q)
                       ELSE IF q # x /\ m = right THEN y ELSE t.parent[m]
  BY <1>2, <1>3, <1>8 DEF Freed
<1>12. f.parent[x] = p
  BY <1>4, <1>5, <1>7, <1>11
<1>13. CanReplace(t, f, x, y, left)
  BY <1>5, <1>9, <1>12 DEF CanReplace
<1>14. /\ u \in Trees /\ u.fault = f.fault
       /\ u.root = IF p = NIL THEN y ELSE f.root
       /\ \A r \in Sides, m \in Cells :
              u.child[r][m] = IF m = x THEN NIL
                              ELSE IF m = y /\ r = "left" THEN left
                              ELSE IF p # NIL /\ m = p /\ r = Side(f, x) THEN y
                              ELSE f.child[r][m]
       /\ \A m \in Cells :
              /\ u.parent[m] = IF m = x THEN NIL ELSE IF m = left THEN y
                               ELSE IF m = y THEN p ELSE f.parent[m]
              /\ u.color[m] = IF m = x THEN "BLACK" ELSE IF m = y THEN t.color[x] ELSE f.color[m]
              /\ u.size[m] = IF m = x THEN 0 ELSE IF m = y THEN t.size[x] ELSE f.size[m]
              /\ u.max_high[m] = IF m = x THEN 0 ELSE f.max_high[m]
  BY <1>8, <1>12, <1>13, ReplaceIs
<1>15. TakenOver(t, u, x, y, c)
  <2>1. u.parent[c] = IF q = x THEN y ELSE q
    BY <1>5, <1>11, <1>14
  <2> QED
    BY <2>1, <1>3, <1>9, <1>14 DEF TakenOver
<1>16. /\ l.root = t.root
       /\ \A r \in Sides, m \in Cells :
            l.child[r][m] = IF m = y THEN NIL
                            ELSE IF m = q /\ r = Side(t, y) THEN c ELSE t.child[r][m]
       /\ \A m \in Cells : l.parent[m] = IF m = y THEN NIL ELSE IF m = c THEN q ELSE t.parent[m]
  BY <1>3, <1>5, <1>7 DEF Lifted
<1>17. l.parent[x] = p
  BY <1>4, <1>5, <1>7, <1>16
<1>18. Side(f, x) = Side(l, x)
  <2>1. f.child["left"][p] = t.child["left"][p] /\ l.child["left"][p] = t.child["left"][p]
    BY <1>5, <1>7, <1>10, <1>16
  <2> QED
    BY <2>1, <1>12, <1>17 DEF Side
<1>19. u.root = IF p = NIL THEN y ELSE l.root
  BY <1>9, <1>14, <1>16
<1>20. ASSUME NEW r \in Sides, NEW m \in Nodes
       PROVE  u.child[r][m] = IF m = x THEN NIL
                              ELSE IF m = y THEN l.child[r][x]
                              ELSE IF p # NIL /\ m = p /\ r = Side(l, x) THEN y ELSE l.child[r][m]
  <2>1. CASE m = x
    BY <2>1, <1>7, <1>14
  <2>2. CASE m = y /\ r = "left"
    <3>1. l.child["left"][x] = left
      BY <1>1, <1>5, <1>7, <1>16
    <3> QED
      BY <3>1, <2>2, <1>5, <1>7, <1>14
  <2>3. CASE m = y /\ r = "right" /\ q = x
    <3>1. l.child["right"][x] = c /\ f.child["right"][y] = c
      BY <2>3, <1>5, <1>7, <1>10, <1>16
    <3> QED
      BY <3>1, <2>3, <1>5, <1>7, <1>14
  <2>4. CASE m = y /\ r = "right" /\ q # x
    <3>1. l.child["right"][x] = right /\ f.child["right"][y] = right
      BY <2>4, <1>2, <1>5, <1>7, <1>10, <1>16
    <3> QED
      BY <3>1, <2>4, <1>5, <1>7, <1>14
  <2>5. CASE m # x /\ m # y
    <3>1. f.child[r][m] = l.child[r][m]
      BY <2>5, <1>7, <1>10, <1>16
    <3> QED
      BY <3>1, <2>5, <1>7, <1>14, <1>18
  <2> QED
    BY <2>1, <2>2, <2>3, <2>4, <2>5, <1>7
<1>21. ASSUME NEW m \in Nodes
       PROVE  u.parent[m] = IF m = x THEN NIL
                            ELSE IF m = y THEN p
                            ELSE IF l.parent[m] = x THEN y ELSE l.parent[m]
  <2>1. CASE m = x \/ m = y
    BY <2>1, <1>5, <1>7, <1>14
  <2>2. CASE m = left
    BY <2>2, <1>5, <1>6, <1>7, <1>14, <1>16
  <2>3. CASE m = c
    BY <2>3, <1>5, <1>7, <1>11, <1>14, <1>16
  <2>4. CASE m = right /\ m # y
    BY <2>4, <1>5, <1>6, <1>7, <1>11, <1>14, <1>16
  <2>5. CASE m \notin {x, y, left, right, c}
    BY <2>5, <1>6, <1>7, <1>11, <1>14, <1>16
  <2> QED
    BY <2>1, <2>2, <2>3, <2>4, <2>5
<1>22. Substituted(l, u, x, y)
  BY <1>14, <1>17, <1>19, <1>20, <1>21 DEF Substituted
<1> QED
  BY <1>15, <1>22

\* The subtrees when y, below x, has come in the place of x.
Succeeded(sub, x, y) ==
  [m \in Cells |-> IF m = x THEN {x}
                   ELSE IF m = y \/ x \in sub[m] THEN (sub[m] \cup sub[IF m = y THEN x ELSE m]) \ {x}
                   ELSE sub[m] \ {y}]

LEMMA ReplaceShape ==
  ASSUME NEW t, NEW sub, NEW here, Shape(t, sub, here), NEW x \in here, BothChildren(t, x),
         NEW y, y = Successor(t, x), NEW c, c = t.child["right"][y],
         NEW u, u = Free(ReplaceBySuccessor(t, x, y), x)
  PROVE  /\ Shape(u, Succeeded(sub, x, y), here \ {x})
         /\ TakenOver(t, u, x, y, c) /\ Places(t, x, y, c)
         /\ y \in here /\ y \in sub[x] /\ x \notin sub[y]
         /\ u.root = IF t.parent[x] = NIL THEN y ELSE t.root
         /\ \A r \in Sides, m \in Nodes :
              m \notin {x, y, t.parent[x], t.parent[y]} => u.child[r][m] = t.child[r][m]
<1>1. LinksOK(t) /\ Forest(t, sub) /\ Rooted(t, sub, here) /\ Sorted(t, sub) /\ t.color[NIL] = "BLACK" /\ t \in Trees
  BY DEF Shape, LinksOK
<1>2. /\ Places(t, x, y, c) /\ y \in sub[t.child["right"][x]]
      /\ \A m \in sub[t.child["right"][x]] : Data[y] <= Data[m]
  BY PlacesIs
<1>3. PICK left : left = t.child["left"][x]
  OBVIOUS
<1>4. PICK right : right = t.child["right"][x]
  OBVIOUS
<1>5. PICK q : q = t.parent[y]
  OBVIOUS
<1>6. /\ x \in Nodes /\ y \in Nodes /\ left \in Nodes /\ right \in Nodes /\ c \in Cells
      /\ t.parent[x] \in Cells /\ q \in Nodes
      /\ x # y /\ left # x /\ left # y /\ right # x /\ c # y /\ c # x
      /\ t.child["left"][y] = NIL
      /\ (q = x <=> y = right) /\ (q = x => Side(t, y) = "right")
  BY <1>2, <1>3, <1>4, <1>5 DEF Places
<1>7. /\ NIL \notin Nodes /\ "left" \in Sides /\ "right" \in Sides /\ Other("right") = "left"
      /\ \A r \in Sides : r = "left" \/ r = "right"
      /\ \A m \in Nodes : m \in Cells
  BY NodesAreFinite DEF Sides, Cells, Other
<1>8. /\ sub[right] \subseteq sub[x] /\ x \notin sub[right] /\ x \in sub[x]
      /\ y \in sub[y] /\ sub[c] \subseteq sub[y]
  BY <1>1, <1>2, <1>4, <1>6, <1>7, InForest
<1>9. y \in sub[x] /\ sub[y] \subseteq sub[right] /\ x \notin sub[y] /\ x \notin sub[c]
  BY <1>1, <1>2, <1>4, <1>6, <1>7, <1>8, BelowBelow
<1>10. y \in here /\ here \in SUBSET Nodes
  <2>1. sub[x] \subseteq here /\ here \in SUBSET Nodes
    BY <1>1, InTree
  <2> QED
    BY <2>1, <1>9
<1>11. PICK l : Lifted(t, l, y, c)
  BY <1>1, <1>5, <1>6, <1>7, LiftIs
<1>12. PICK sub1 : sub1 = [m \in Cells |-> IF m = y THEN {y} ELSE sub[m] \ {y}]
  OBVIOUS
<1>13. Shape(l, sub1, here \ {y})
  <2>1. PICK s \in Sides : s = "right" /\ Other(s) = "left"
    BY <1>7
  <2>2. t.child[Other(s)][y] = NIL /\ c = t.child[s][y]
    BY <2>1, <1>6
  <2> QED
    BY <2>2, <1>10, <1>11, <1>12, LiftShape
<1>14. Substituted(l, u, x, y) /\ TakenOver(t, u, x, y, c)
  BY <1>1, <1>2, <1>11, ReplacementIs
<1>15. /\ l.root = t.root
       /\ \A r \in Sides, m \in Cells :
            l.child[r][m] = IF m = y THEN NIL
                            ELSE IF m = q /\ r = Side(t, y) THEN c ELSE t.child[r][m]
       /\ l.parent[x] = t.parent[x]
  BY <1>5, <1>6, <1>7, <1>11 DEF Lifted
<1>16. sub1[NIL] = {} /\ sub1[y] = {y} /\ \A m \in Cells : m # y => sub1[m] = sub[m] \ {y}
  <2>1. sub[NIL] = {} /\ NIL \in Cells /\ y # NIL
    BY <1>1, <1>6, <1>7 DEF Forest, Cells
  <2> QED
    BY <2>1, <1>6, <1>7, <1>12
<1>17. Data \in [Nodes -> Nat]
  BY TreeAssumption
<1>18. \A m \in sub[left] : m \in Nodes /\ Data[m] <= Data[y]
  <2>1. sub[left] \in SUBSET Nodes
    BY <1>1, <1>6, InForest
  <2>2. Data[x] <= Data[y]
    BY <1>1, <1>2, <1>4, <1>6, <1>7 DEF Sorted, Le
  <2>3. \A m \in sub[left] : Data[m] <= Data[x]
    BY <1>1, <1>3, <1>6, <1>7 DEF Sorted, Le
  <2> QED
    BY <2>1, <2>2, <2>3, <1>6, <1>17
<1>19. ASSUME NEW r \in Sides, NEW m \in sub1[l.child[r][x]] PROVE Le(r, m, y)
  <2>1. CASE r = "left"
    <3>1. l.child["left"][x] = left
      BY <1>3, <1>6, <1>7, <1>15
    <3>2. m \in sub[left]
      BY <3>1, <2>1, <1>6, <1>7, <1>16, <1>19
    <3> QED
      BY <3>2, <2>1, <1>18 DEF Le
  <2>2. CASE r = "right"
    <3>1. l.child["right"][x] = IF q = x THEN c ELSE right
      BY <1>4, <1>6, <1>7, <1>15
    <3>2. m \in sub[right]
      <4>1. CASE q = x
        BY <4>1, <3>1, <2>2, <1>6, <1>8, <1>9, <1>16, <1>19
      <4>2. CASE q # x
        BY <4>2, <3>1, <2>2, <1>6, <1>7, <1>16, <1>19
      <4> QED
        BY <4>1, <4>2
    <3> QED
      BY <3>2, <2>2, <1>2, <1>4 DEF Le
  <2> QED
    BY <2>1, <2>2, <1>7
<1>20. ASSUME NEW m \in Nodes, NEW r \in Sides, x \in sub1[l.child[r][m]] PROVE Le(r, y, m)
  <2>1. m # y /\ ~(m = q /\ r = Side(t, y))
    BY <1>6, <1>7, <1>9, <1>15, <1>16, <1>20
  <2>2. l.child[r][m] = t.child[r][m]
    BY <2>1, <1>7, <1>15
  <2>3. t.child[r][m] \in Cells
    BY <1>1 DEF LinksOK
  <2>4. x \in sub[t.child[r][m]]
    BY <2>2, <2>3, <1>6, <1>16, <1>20
  <2>5. y \in sub[t.child[r][m]]
    BY <2>3, <2>4, <1>1, <1>9, BelowBelow
  <2> QED
    BY <2>5, <1>1 DEF Sorted
<1>21. u.color[NIL] = "BLACK"
  BY <1>1, <1>6, <1>7, <1>14 DEF TakenOver, Cells
<1>22. PICK sub2 : sub2 = [m \in Cells |-> IF m = x THEN {x}
                                           ELSE Renamed(sub1[IF m = y THEN x ELSE m], x, y)]
  OBVIOUS
<1>23. Shape(u, sub2, ((here \ {y}) \ {x}) \cup {y})
  <2>1. x \in here \ {y} /\ y \in Nodes \ (here \ {y})
    BY <1>6
  <2> QED
    BY <2>1, <1>13, <1>14, <1>19, <1>20, <1>21, <1>22, SubstituteShape
<1>24. sub2 = Succeeded(sub, x, y)
  <2>1. ASSUME NEW m \in Cells PROVE sub2[m] = Succeeded(sub, x, y)[m]
    <3>1. CASE m = x
      BY <3>1, <1>22 DEF Succeeded
    <3>2. CASE m = y
      <4>1. sub2[y] = Renamed(sub[x] \ {y}, x, y)
        BY <3>2, <1>6, <1>7, <1>16, <1>22
      <4>2. sub2[y] = sub[x] \ {x}
        BY <4>1, <1>6, <1>8, <1>9 DEF Renamed
      <4>3. Succeeded(sub, x, y)[y] = (sub[y] \cup sub[x]) \ {x}
        BY <3>2, <1>6 DEF Succeeded
      <4> QED
        BY <4>2, <4>3, <3>2, <1>8, <1>9
    <3>3. CASE m # x /\ m # y
      <4>1. sub2[m] = Renamed(sub[m] \ {y}, x, y)
        BY <3>3, <1>16, <1>22
      <4>2. x \in sub[m] => y \in sub[m]
        BY <1>1, <1>9, BelowBelow
      <4>3. Succeeded(sub, x, y)[m] = IF x \in sub[m] THEN sub[m] \ {x} ELSE sub[m] \ {y}
        BY <3>3 DEF Succeeded
      <4> QED
        BY <4>1, <4>2, <4>3, <1>6 DEF Renamed
    <3> QED
      BY <3>1, <3>2, <3>3
  <2> QED
    BY <2>1, <1>22 DEF Succeeded
<1>25. ((here \ {y}) \ {x}) \cup {y} = here \ {x}
  BY <1>6, <1>10
<1>26. Shape(u, Succeeded(sub, x, y), here \ {x})
  BY <1>23, <1>24, <1>25
<1>27. u.root = IF t.parent[x] = NIL THEN y ELSE t.root
  BY <1>14, <1>15 DEF Substituted
<1>28. \A r \in Sides, m \in Nodes :
              m \notin {x, y, t.parent[x], t.parent[y]} => u.child[r][m] = t.child[r][m]
  BY <1>5, <1>7, <1>14, <1>15 DEF Substituted
<1> QED
  BY <1>2, <1>9, <1>10, <1>14, <1>26, <1>27, <1>28

\* The subtrees that y has left are those of the node that its child is below now.
LEMMA LeftSubtrees ==
  ASSUME NEW t, NEW sub, LinksOK(t), Forest(t, sub), NEW x \in Nodes, NEW y \in Nodes,
         y \in sub[x], x # y, x \notin sub[y],
         NEW q, q = t.parent[y], NEW p, p = IF q = x THEN y ELSE q,
         NEW sub2, sub2 = Succeeded(sub, x, y), NEW m \in Nodes, m # x
  PROVE  /\ p \in sub2[m] <=> y \in sub[m]
         /\ Cardinality(sub2[m]) = Cardinality(sub[IF m = y THEN x ELSE m])
                                   - (IF y \in sub[m] THEN 1 ELSE 0)
<1>1. /\ sub[m] \in SUBSET Nodes /\ sub[x] \in SUBSET Nodes /\ y \in sub[y] /\ x \in sub[x] /\ m \in Cells
      /\ x \in Cells /\ y \in Cells /\ sub[y] \in SUBSET Nodes
  BY InForest DEF Cells
<1>2. q \in Nodes /\ q \in sub[x] /\ q # y
  <2>1. q # NIL /\ q \in sub[x]
    BY <1>1, AboveIs
  <2> QED
    BY <2>1, <1>1, OwnPlace
<1>3. sub[y] \subseteq sub[x] /\ (x \in sub[m] => y \in sub[m])
  BY <1>1, BelowBelow
<1>4. q # NIL
  BY <1>2, NodesAreFinite
<1>5. CASE m = y
  <2>1. sub2[m] = sub[x] \ {x}
    BY <1>5, <1>1, <1>3 DEF Succeeded
  <2>2. Cardinality(sub[x] \ {x}) = Cardinality(sub[x]) - 1
    BY <1>1, NodesAreFinite, FS_RemoveElement
  <2> QED
    BY <2>1, <2>2, <1>1, <1>2, <1>5
<1>6. CASE m # y /\ x \in sub[m]
  <2>1. sub2[m] = sub[m] \ {x}
    BY <1>6, <1>1 DEF Succeeded
  <2>2. Cardinality(sub[m] \ {x}) = Cardinality(sub[m]) - 1
    BY <1>1, <1>6, NodesAreFinite, FS_RemoveElement
  <2>3. y \in sub[m] /\ q \in sub[m]
    BY <1>1, <1>3, <1>4, <1>6, AboveIs
  <2> QED
    BY <2>1, <2>2, <2>3, <1>1, <1>2, <1>6
<1>7. CASE m # y /\ x \notin sub[m]
  <2>1. sub2[m] = sub[m] \ {y}
    BY <1>7, <1>1 DEF Succeeded
  <2>2. y \in sub[m] <=> q \in sub[m]
    BY <1>1, <1>4, <1>7, AboveIs
  <2>3. p \in sub2[m] <=> y \in sub[m]
    BY <2>1, <2>2, <1>2, <1>7
  <2>4. CASE y \in sub[m]
    <3>1. Cardinality(sub[m] \ {y}) = Cardinality(sub[m]) - 1
      BY <2>4, <1>1, NodesAreFinite, FS_RemoveElement
    <3> QED
      BY <3>1, <2>1, <2>3, <2>4, <1>7
  <2>5. CASE y \notin sub[m]
    <3>1. sub[m] \ {y} = sub[m] /\ Cardinality(sub[m]) \in Nat
      BY <2>5, <1>1, NodesAreFinite
    <3>2. sub2[m] = sub[m]
      BY <3>1, <2>1
    <3>3. Cardinality(sub2[m]) = Cardinality(sub[m]) /\ Cardinality(sub2[m]) \in Nat
      BY <3>1, <3>2
    <3>4. Cardinality(sub[IF m = y THEN x ELSE m]) = Cardinality(sub[m])
      BY <1>7
    <3> QED
      BY <3>3, <3>4, <2>3, <2>5
  <2> QED
    BY <2>4, <2>5
<1> QED
  BY <1>5, <1>6, <1>7

LEMMA ReplaceStale ==
  ASSUME NEW t, NEW sub, NEW here, Whole(t, sub, here), NEW x \in here, BothChildren(t, x),
         NEW y, y = Successor(t, x), NEW c, c = t.child["right"][y],
         NEW u, u = Free(ReplaceBySuccessor(t, x, y), x),
         NEW p, p = u.parent[c], NEW sub2, sub2 = Succeeded(sub, x, y)
  PROVE  p \in here \ {x} /\ Stale(u, sub2, here \ {x}, p, -1)
<1>1. /\ LinksOK(t) /\ Forest(t, sub) /\ Rooted(t, sub, here) /\ Shape(t, sub, here)
      /\ Sized(t, sub, here) /\ Maxed(t, here)
  BY DEF Shape, Whole
<1>2. /\ Shape(u, sub2, here \ {x})
      /\ TakenOver(t, u, x, y, c)
      /\ y \in here /\ y \in sub[x] /\ x \notin sub[y]
      /\ \A r \in Sides, m \in Nodes :
              m \notin {x, y, t.parent[x], t.parent[y]} => u.child[r][m] = t.child[r][m]
  BY <1>1, ReplaceShape
<1>3. here \in SUBSET Nodes /\ NIL \notin Nodes /\ NIL \in Cells /\ \A m \in Nodes : m \in Cells
  BY <1>1, InTree, NodesAreFinite DEF Cells
<1>4. x \in Nodes /\ y \in Nodes /\ x # y
  <2>1. y \in sub[y]
    BY <1>1, <1>2, <1>3, InForest
  <2> QED
    BY <2>1, <1>2, <1>3
<1>5. PICK q : q = t.parent[y]
  OBVIOUS
<1>6. p = IF q = x THEN y ELSE q
  BY <1>2, <1>5 DEF TakenOver
<1>7. \A m \in Nodes : m # x =>
         /\ p \in sub2[m] <=> y \in sub[m]
         /\ Cardinality(sub2[m]) = Cardinality(sub[IF m = y THEN x ELSE m])
                                   - (IF y \in sub[m] THEN 1 ELSE 0)
  BY <1>1, <1>2, <1>4, <1>5, <1>6, LeftSubtrees
<1>8. p \in here \ {x}
  <2>1. y \in sub[y]
    BY <1>1, <1>4, InForest
  <2>2. p \in sub2[y]
    BY <2>1, <1>4, <1>7
  <2>3. sub2[y] \subseteq here \ {x}
    <3>1. LinksOK(u) /\ Forest(u, sub2) /\ Rooted(u, sub2, here \ {x}) /\ y \in here \ {x}
      BY <1>2, <1>4 DEF Shape
    <3> QED
      BY <3>1, InTree
  <2> QED
    BY <2>2, <2>3
<1>9. \A m \in Cells :
       /\ u.size[m] = IF m = x THEN 0 ELSE IF m = y THEN t.size[x] ELSE t.size[m]
       /\ u.max_high[m] = IF m = x THEN 0 ELSE t.max_high[m]
  BY <1>2 DEF TakenOver
<1>10. u.size[NIL] = 0 /\ u.max_high[NIL] = 0
  BY <1>1, <1>3, <1>4, <1>9 DEF Sized, Maxed
<1>11. ASSUME NEW n \in Nodes
       PROVE  u.size[n] = IF n \in here \ {x} THEN Cardinality(sub2[n]) - (IF p \in sub2[n] THEN -1 ELSE 0) ELSE 0
  <2>1. CASE n = x
    BY <2>1, <1>3, <1>9
  <2>2. CASE n \notin here
    BY <2>2, <1>1, <1>2, <1>3, <1>9 DEF Sized
  <2>3. CASE n \in here \ {x}
    <3>1. PICK m \in Nodes : m = IF n = y THEN x ELSE n
      BY <1>4
    <3>2. m \in here
      BY <3>1, <2>3
    <3>3. u.size[n] = Cardinality(sub[m])
      BY <3>1, <3>2, <2>3, <1>1, <1>3, <1>9 DEF Sized
    <3>4. Cardinality(sub2[n]) = Cardinality(sub[m]) - (IF p \in sub2[n] THEN 1 ELSE 0)
      BY <3>1, <2>3, <1>7
    <3>5. Cardinality(sub[m]) \in Nat
      BY <1>1, InForest, NodesAreFinite
    <3>6. CASE p \in sub2[n]
      BY <3>3, <3>4, <3>5, <3>6, <2>3
    <3>7. CASE p \notin sub2[n]
      BY <3>3, <3>4, <3>5, <3>7, <2>3
    <3> QED
      BY <3>6, <3>7
  <2> QED
    BY <2>1, <2>2, <2>3
<1>12. ASSUME NEW n \in here \ {x}, p \notin sub2[n]
       PROVE  u.max_high[n] = MaxHigh(u.max_high, u.child, n)
  <2>1. n \in Nodes /\ n # x
    BY <1>3
  <2>2. y \notin sub[n]
    BY <2>1, <1>7, <1>12
  <2>3. x \notin sub[n]
    BY <2>1, <2>2, <1>1, <1>2, <1>3, BelowBelow
  <2>4. n # y
    BY <2>1, <2>2, <1>1, InForest
  <2>5. n # t.parent[x]
    <3>1. x \in sub[n] <=> \/ x = n
                           \/ t.parent[x] # NIL /\ t.parent[x] \in sub[n]
      BY <2>1, <1>1, <1>3, <1>4, AboveIs
    <3>2. n \in sub[n] /\ n # NIL
      BY <2>1, <1>1, <1>3, InForest
    <3> QED
      BY <3>1, <3>2, <2>3
  <2>6. n # q
    <3>1. y \in sub[n] <=> \/ y = n
                           \/ t.parent[y] # NIL /\ t.parent[y] \in sub[n]
      BY <2>1, <1>1, <1>3, <1>4, AboveIs
    <3>2. n \in sub[n] /\ n # NIL
      BY <2>1, <1>1, <1>3, InForest
    <3> QED
      BY <3>1, <3>2, <2>2, <1>5
  <2>7. \A r \in Sides : u.child[r][n] = t.child[r][n]
    BY <2>1, <2>4, <2>5, <2>6, <1>2, <1>5
  <2>8. \A r \in Sides : t.child[r][n] \in Cells /\ t.child[r][n] # x
    <3>1. \A r \in Sides : t.child[r][n] \in Cells /\ sub[t.child[r][n]] \subseteq sub[n]
      BY <2>1, <1>1, InForest
    <3>2. x \in sub[x]
      BY <1>1, <1>4, InForest
    <3> QED
      BY <3>1, <3>2, <2>3
  <2>9. u.max_high[n] = t.max_high[n] /\ \A r \in Sides : u.max_high[u.child[r][n]] = t.max_high[t.child[r][n]]
    BY <2>1, <2>7, <2>8, <1>3, <1>9
  <2>10. t.max_high[n] = MaxHigh(t.max_high, t.child, n)
    BY <1>1 DEF Maxed
  <2> QED
    BY <2>9, <2>10, MaxHighIs DEF Sides
<1> QED
  BY <1>8, <1>10, <1>11, <1>12 DEF Stale

LEMMA LiftStale ==
  ASSUME NEW t, NEW sub, NEW here, Whole(t, sub, here), NEW x \in here,
         NEW s \in Sides, t.child[Other(s)][x] = NIL, NEW c, c = t.child[s][x],
         NEW u, Lifted(t, u, x, c), NEW p, p = t.parent[x],
         NEW sub1, sub1 = [m \in Cells |-> IF m = x THEN {x} ELSE sub[m] \ {x}]
  PROVE  /\ p \in (here \ {x}) \cup {NIL} /\ c \in (here \ {x}) \cup {NIL}
         /\ u.parent[c] = p /\ Stale(u, sub1, here \ {x}, p, -1)
<1>1. /\ LinksOK(t) /\ Forest(t, sub) /\ Rooted(t, sub, here) /\ Shape(t, sub, here)
      /\ Sized(t, sub, here) /\ Maxed(t, here)
  BY DEF Shape, Whole
<1>2. here \in SUBSET Nodes /\ NIL \notin Nodes /\ NIL \in Cells /\ x \in Nodes /\ \A m \in Nodes : m \in Cells
  BY <1>1, InTree, NodesAreFinite DEF Cells
<1>3. p \in (here \ {x}) \cup {NIL} /\ p # x
  <2>1. p # x /\ p \in Cells
    BY <1>1, <1>2, OwnPlace
  <2>2. p # NIL => p \in here
    BY <1>1, InTree
  <2> QED
    BY <2>1, <2>2
<1>4. c \in (here \ {x}) \cup {NIL} /\ c \in Cells
  <2>1. c \in here \cup {NIL}
    BY <1>1, InTree
  <2>2. x \notin sub[c] /\ (c # NIL => c \in sub[c])
    BY <2>1, <1>1, <1>2, InForest
  <2>3. c # x
    BY <2>2, <1>2
  <2> QED
    BY <2>1, <2>3, <1>2
<1>5. /\ \A r \in Sides, m \in Cells :
           u.child[r][m] = IF m = x THEN NIL
                           ELSE IF p # NIL /\ m = p /\ r = Side(t, x) THEN c ELSE t.child[r][m]
      /\ \A m \in Cells : /\ u.parent[m] = IF m = x THEN NIL ELSE IF m = c THEN p ELSE t.parent[m]
                          /\ u.size[m] = IF m = x THEN 0 ELSE t.size[m]
                          /\ u.max_high[m] = IF m = x THEN 0 ELSE t.max_high[m]
  BY DEF Lifted
<1>6. u.parent[c] = p
  BY <1>2, <1>4, <1>5
<1>7. ASSUME NEW m \in Nodes, m # x
      PROVE  /\ sub1[m] = sub[m] \ {x} /\ sub[m] \in SUBSET Nodes
             /\ p \in sub1[m] <=> x \in sub[m]
  <2>1. sub1[m] = sub[m] \ {x} /\ sub[m] \in SUBSET Nodes
    BY <1>1, <1>2, <1>7, InForest
  <2>2. x \in sub[m] <=> \/ x = m
                         \/ t.parent[x] # NIL /\ t.parent[x] \in sub[m]
    BY <1>1, <1>2, AboveIs
  <2> QED
    BY <2>1, <2>2, <1>2, <1>3, <1>7
<1>8. u.size[NIL] = 0 /\ u.max_high[NIL] = 0
  BY <1>1, <1>2, <1>5 DEF Sized, Maxed
<1>9. ASSUME NEW n \in Nodes
      PROVE  u.size[n] = IF n \in here \ {x} THEN Cardinality(sub1[n]) - (IF p \in sub1[n] THEN -1 ELSE 0) ELSE 0
  <2>1. CASE n = x
    BY <2>1, <1>2, <1>5
  <2>2. CASE n \notin here
    BY <2>2, <1>1, <1>2, <1>5 DEF Sized
  <2>3. CASE n \in here \ {x}
    <3>1. u.size[n] = Cardinality(sub[n])
      BY <2>3, <1>1, <1>2, <1>5 DEF Sized
    <3>5. n \in Nodes /\ n # x
      BY <2>3, <1>2
    <3>6. /\ sub1[n] = sub[n] \ {x} /\ sub[n] \in SUBSET Nodes
          /\ p \in sub1[n] <=> x \in sub[n]
      BY <3>5, <1>7
    <3>2. Cardinality(sub[n]) \in Nat /\ IsFiniteSet(sub[n])
      BY <3>6, NodesAreFinite
    <3>3. CASE p \in sub1[n]
      <4>1. x \in sub[n]
        BY <3>3, <3>6
      <4>3. Cardinality(sub[n] \ {x}) = Cardinality(sub[n]) - 1
        BY <3>2, <4>1, FS_RemoveElement
      <4>2. Cardinality(sub1[n]) = Cardinality(sub[n]) - 1
        BY <3>6, <4>3
      <4> QED
        BY <4>2, <3>1, <3>2, <3>3, <2>3
    <3>4. CASE p \notin sub1[n]
      <4>1. x \notin sub[n]
        BY <3>4, <3>6
      <4>2. sub1[n] = sub[n]
        BY <4>1, <3>6
      <4> QED
        BY <4>2, <3>1, <3>2, <3>4, <2>3
    <3> QED
      BY <3>3, <3>4
  <2> QED
    BY <2>1, <2>2, <2>3
<1>10. ASSUME NEW n \in here \ {x}, p \notin sub1[n]
       PROVE  u.max_high[n] = MaxHigh(u.max_high, u.child, n)
  <2>1. n \in Nodes /\ n # x
    BY <1>2
  <2>2. x \notin sub[n]
    <3>1. p \in sub1[n] <=> x \in sub[n]
      BY <2>1, <1>7
    <3> QED
      BY <3>1, <1>10
  <2>3. n # p
    <3>1. n \in sub[n]
      BY <2>1, <1>1, InForest
    <3>2. n \in sub1[n]
      BY <3>1, <2>1, <1>7
    <3> QED
      BY <3>2, <1>10
  <2>4. \A r \in Sides : u.child[r][n] = t.child[r][n]
    BY <2>1, <2>3, <1>2, <1>5
  <2>5. \A r \in Sides : t.child[r][n] \in Cells /\ t.child[r][n] # x
    <3>1. \A r \in Sides : t.child[r][n] \in Cells /\ sub[t.child[r][n]] \subseteq sub[n]
      BY <2>1, <1>1, InForest
    <3>2. x \in sub[x]
      BY <1>1, <1>2, InForest
    <3> QED
      BY <3>1, <3>2, <2>2
  <2>6. u.max_high[n] = t.max_high[n] /\ \A r \in Sides : u.max_high[u.child[r][n]] = t.max_high[t.child[r][n]]
    BY <2>1, <2>4, <2>5, <1>2, <1>5
  <2>7. t.max_high[n] = MaxHigh(t.max_high, t.child, n)
    BY <1>1 DEF Maxed
  <2> QED
    BY <2>6, <2>7, MaxHighIs DEF Sides
<1> QED
  BY <1>3, <1>4, <1>6, <1>8, <1>9, <1>10 DEF Stale

\* What the rest of remove relies on: the node that takes a place, and the root.
AfterUnlink(t, w, here, x, f) ==
  /\ HasLaws(w, here) /\ w.fault = t.fault
  /\ f \in here \cup {NIL} /\ w.parent[f] \in here \cup {NIL}
  /\ t.color[t.root] = "BLACK" =>
       /\ t.color[Leaving(t, x)] = "RED" => w.color[w.root] = "BLACK"
       /\ f = w.root \/ (w.color[w.root] = "BLACK" /\ w.parent[f] # NIL)

LEMMA RemoveLeaf ==
  ASSUME NEW t, NEW here, HasLaws(t, here), NEW x \in here, ~BothChildren(t, x),
         NEW f, f = FixupNode(t, x),
         NEW v, v = Free(Unlink(t, x), x), NEW p, p = v.parent[f],
         NEW w, w = RefreshUpward(CountUpward(v, p, -1), p)
  PROVE  AfterUnlink(t, w, here \ {x}, x, f)
<1>1. PICK sub : Whole(t, sub, here)
  BY DEF HasLaws
<1>2. /\ LinksOK(t) /\ Forest(t, sub) /\ Rooted(t, sub, here) /\ Shape(t, sub, here) /\ t \in Trees
  BY <1>1 DEF Shape, Whole, LinksOK
<1>3. here \in SUBSET Nodes /\ x \in Nodes /\ x \in Cells
      /\ (t.parent[x] = NIL <=> x = t.root)
  BY <1>2, InTree DEF Cells
<1>4. Leaving(t, x) = x
  BY DEF Leaving
<1>5. PICK s \in Sides : t.child[Other(s)][x] = NIL /\ f = t.child[s][x]
  <2>1. Other("left") = "right" /\ Other("right") = "left" /\ "left" \in Sides /\ "right" \in Sides
    BY DEF Other, Sides
  <2>2. CASE t.child["left"][x] = NIL
    BY <2>1, <2>2, <1>4 DEF FixupNode
  <2>3. CASE t.child["left"][x] # NIL
    <3>1. t.child["right"][x] = NIL
      BY <2>3 DEF BothChildren, Sides
    <3> QED
      BY <2>1, <2>3, <3>1, <1>4 DEF FixupNode
  <2> QED
    BY <2>2, <2>3
<1>6. t.parent[x] \in Cells /\ f \in Cells
  BY <1>2, <1>3, <1>5, InForest
<1>7. v = Free(transplant(t, x, f), x)
  BY DEF Unlink
<1>8. Lifted(t, v, x, f)
  BY <1>2, <1>3, <1>6, <1>7, LiftIs
<1>9. PICK sub1 : sub1 = [m \in Cells |-> IF m = x THEN {x} ELSE sub[m] \ {x}]
  OBVIOUS
<1>10. Shape(v, sub1, here \ {x})
  BY <1>2, <1>5, <1>8, <1>9, LiftShape
<1>11. /\ t.parent[x] \in (here \ {x}) \cup {NIL} /\ f \in (here \ {x}) \cup {NIL}
       /\ v.parent[f] = t.parent[x] /\ Stale(v, sub1, here \ {x}, t.parent[x], -1)
  BY <1>1, <1>5, <1>8, <1>9, LiftStale
<1>12. p = t.parent[x] /\ p \in (here \ {x}) \cup {NIL} /\ Stale(v, sub1, here \ {x}, p, -1)
  BY <1>11
<1>13. /\ Whole(w, sub1, here \ {x})
       /\ w.root = v.root /\ w.child = v.child /\ w.parent = v.parent /\ w.color = v.color
       /\ w.fault = v.fault
  BY <1>10, <1>12, RepairUpward
<1>14. /\ v.root = IF p = NIL THEN f ELSE t.root
       /\ v.fault = t.fault
       /\ \A m \in Cells : v.color[m] = IF m = x THEN "BLACK" ELSE t.color[m]
  BY <1>8, <1>12 DEF Lifted
<1>15. t.root \in Cells
  BY <1>2 DEF Trees
<1>16. ASSUME t.color[t.root] = "BLACK"
       PROVE  /\ t.color[x] = "RED" => w.color[w.root] = "BLACK"
              /\ f = w.root \/ (w.color[w.root] = "BLACK" /\ p # NIL)
  <2>1. CASE p = NIL
    BY <2>1, <1>3, <1>12, <1>13, <1>14, <1>16
  <2>2. CASE p # NIL
    BY <2>2, <1>13, <1>14, <1>15, <1>16
  <2> QED
    BY <2>1, <2>2
<1>17. HasLaws(w, here \ {x})
  BY <1>13 DEF HasLaws
<1> QED
  BY <1>4, <1>11, <1>12, <1>13, <1>14, <1>16, <1>17 DEF AfterUnlink

LEMMA RemoveInner ==
  ASSUME NEW t, NEW here, HasLaws(t, here), NEW x \in here, BothChildren(t, x),
         NEW f, f = FixupNode(t, x),
         NEW v, v = Free(Unlink(t, x), x), NEW p, p = v.parent[f],
         NEW w, w = RefreshUpward(CountUpward(v, p, -1), p)
  PROVE  AfterUnlink(t, w, here \ {x}, x, f)
<1>1. PICK sub : Whole(t, sub, here)
  BY DEF HasLaws
<1>2. /\ LinksOK(t) /\ Forest(t, sub) /\ Rooted(t, sub, here) /\ Shape(t, sub, here) /\ t \in Trees
  BY <1>1 DEF Shape, Whole, LinksOK
<1>3. /\ here \in SUBSET Nodes /\ x \in Nodes /\ x \in Cells /\ NIL \notin Nodes
      /\ \A n \in here : /\ t.parent[n] = NIL <=> n = t.root
                         /\ t.child["right"][n] \in here \cup {NIL}
  BY <1>2, InTree, NodesAreFinite DEF Cells, Sides
<1>4. PICK y : y = Successor(t, x)
  OBVIOUS
<1>5. Leaving(t, x) = y
  BY <1>4 DEF Leaving
<1>6. PICK c : c = t.child["right"][y]
  OBVIOUS
<1>7. v = Free(ReplaceBySuccessor(t, x, y), x)
  BY <1>4 DEF Unlink
<1>8. PICK sub2 : sub2 = Succeeded(sub, x, y)
  OBVIOUS
<1>9. /\ Shape(v, sub2, here \ {x}) /\ TakenOver(t, v, x, y, c) /\ Places(t, x, y, c)
      /\ y \in here
      /\ v.root = IF t.parent[x] = NIL THEN y ELSE t.root
  BY <1>2, <1>4, <1>6, <1>7, <1>8, ReplaceShape
<1>10. f = c /\ c \in Cells /\ c # x /\ x # y /\ t.parent[y] \in Nodes
  <2>1. f = IF t.child["left"][y] = NIL THEN t.child["right"][y] ELSE t.child["left"][y]
    BY <1>5 DEF FixupNode
  <2>2. /\ t.child["left"][y] = NIL /\ c \in Cells /\ c \notin {x, y, t.child["left"][x], t.child["right"][x]}
        /\ x # y /\ t.parent[y] \in Nodes
    BY <1>9 DEF Places
  <2> QED
    BY <2>1, <2>2, <1>6
<1>11. p \in here \ {x} /\ Stale(v, sub2, here \ {x}, p, -1)
  <2>1. p = v.parent[c]
    BY <1>10
  <2> QED
    BY <2>1, <1>1, <1>4, <1>6, <1>7, <1>8, ReplaceStale
<1>12. /\ Whole(w, sub2, here \ {x})
       /\ w.root = v.root /\ w.child = v.child /\ w.parent = v.parent /\ w.color = v.color
       /\ w.fault = v.fault
  BY <1>9, <1>11, RepairUpward
<1>13. /\ v.fault = t.fault
       /\ \A m \in Cells : v.color[m] = IF m = x THEN "BLACK" ELSE IF m = y THEN t.color[x] ELSE t.color[m]
  BY <1>9 DEF TakenOver
<1>14. f \in (here \ {x}) \cup {NIL}
  BY <1>3, <1>6, <1>9, <1>10
<1>15. w.color[w.root] = t.color[t.root]
  <2>1. t.root \in Cells /\ y \in Cells /\ y # t.root
    BY <1>2, <1>3, <1>9, <1>10 DEF Trees, Cells
  <2>2. CASE t.parent[x] = NIL
    BY <2>1, <2>2, <1>3, <1>9, <1>10, <1>12, <1>13
  <2>3. CASE t.parent[x] # NIL
    BY <2>1, <2>3, <1>3, <1>9, <1>12, <1>13
  <2> QED
    BY <2>2, <2>3
<1>16. HasLaws(w, here \ {x}) /\ w.parent[f] = p /\ p # NIL
  BY <1>3, <1>11, <1>12 DEF HasLaws
<1> QED
  BY <1>11, <1>12, <1>13, <1>14, <1>15, <1>16 DEF AfterUnlink

LEMMA RemoveKeeps ==
  ASSUME NEW t, NEW here, HasLaws(t, here), NEW x \in here,
         NEW f, f = FixupNode(t, x),
         NEW v, v = Free(Unlink(t, x), x), NEW p, p = v.parent[f],
         NEW w, w = RefreshUpward(CountUpward(v, p, -1), p)
  PROVE  AfterUnlink(t, w, here \ {x}, x, f)
<1>1. CASE BothChildren(t, x)
  BY <1>1, RemoveInner
<1>2. CASE ~BothChildren(t, x)
  BY <1>2, RemoveLeaf
<1> QED
  BY <1>1, <1>2

-----------------------------------------------------------------------------
(* The fixups.  They rotate and colour, and nothing else.                  *)

LEMMA LawsGive ==
  ASSUME NEW t, NEW here, HasLaws(t, here)
  PROVE  /\ t \in Trees /\ t.color[NIL] = "BLACK" /\ here \in SUBSET Nodes /\ NIL \notin here
         /\ t.root \in here \cup {NIL} /\ (t.root = NIL <=> here = {})
         /\ \A n \in here :
              /\ n \in Nodes /\ n \in Cells
              /\ \A s \in Sides :
                   /\ t.child[s][n] \in here \cup {NIL} /\ t.child[s][n] # n
                   /\ t.child[s][n] # NIL => t.parent[t.child[s][n]] = n
              /\ t.parent[n] = NIL <=> n = t.root
              /\ t.parent[n] # NIL => t.parent[n] \in here
              /\ t.parent[n] # n
<1>1. PICK sub : Whole(t, sub, here)
  BY DEF HasLaws
<1>2. /\ LinksOK(t) /\ Forest(t, sub) /\ Rooted(t, sub, here) /\ t \in Trees /\ t.color[NIL] = "BLACK"
  BY <1>1 DEF Whole, Shape, LinksOK
<1>3. here \in SUBSET Nodes /\ NIL \notin here
  BY <1>2, InTree, NodesAreFinite
<1>4. t.root \in here \cup {NIL} /\ (t.root = NIL <=> here = {})
  BY <1>2, InTree
<1>5. ASSUME NEW n \in here
      PROVE  /\ n \in Nodes /\ n \in Cells
             /\ \A s \in Sides :
                  /\ t.child[s][n] \in here \cup {NIL} /\ t.child[s][n] # n
                  /\ t.child[s][n] # NIL => t.parent[t.child[s][n]] = n
             /\ t.parent[n] = NIL <=> n = t.root
             /\ t.parent[n] # NIL => t.parent[n] \in here
             /\ t.parent[n] # n
  <2>1. n \in Nodes /\ n \in Cells
    BY <1>3 DEF Cells
  <2>2. ASSUME NEW s \in Sides
        PROVE  /\ t.child[s][n] \in here \cup {NIL} /\ t.child[s][n] # n
               /\ t.child[s][n] # NIL => t.parent[t.child[s][n]] = n
    <3>1. t.child[s][n] \in here \cup {NIL}
      BY <1>2, InTree
    <3>2. n \notin sub[t.child[s][n]] /\ n \in sub[n]
      BY <2>1, <1>2, InForest
    <3>3. t.child[s][n] # NIL => t.parent[t.child[s][n]] = n
      BY <2>1, <1>2, InForest
    <3> QED
      BY <3>1, <3>2, <3>3
  <2>3. /\ t.parent[n] = NIL <=> n = t.root
        /\ t.parent[n] # NIL => t.parent[n] \in here
    BY <1>2, InTree
  <2>4. t.parent[n] # n
    BY <2>1, <1>2, OwnPlace
  <2> QED
    BY <2>1, <2>2, <2>3, <2>4
<1> QED
  BY <1>2, <1>3, <1>4, <1>5

\* What the rotation and the end of an operation leave of the laws and of the colours.
LEMMA FaultKeeps ==
  ASSUME NEW t, NEW here, HasLaws(t, here)
  PROVE  HasLaws([t EXCEPT !.fault = TRUE], here) /\ [t EXCEPT !.fault = TRUE].fault
<1>1. PICK u : u = [t EXCEPT !.fault = TRUE]
  OBVIOUS
<1>2. PICK sub : Whole(t, sub, here)
  BY DEF HasLaws
<1>3. t \in Trees /\ t.color[NIL] = "BLACK"
  BY LawsGive
<1>4. /\ u \in Trees /\ u.root = t.root /\ u.child = t.child /\ u.size = t.size /\ u.max_high = t.max_high
      /\ u.parent = t.parent /\ u.color = t.color /\ u.fault
  BY <1>1, <1>3 DEF Trees
<1>5. Whole(u, sub, here)
  BY <1>2, <1>3, <1>4, SameLinks
<1> QED
  BY <1>1, <1>4, <1>5 DEF HasLaws

LEMMA AtEndKeeps ==
  ASSUME NEW t, NEW here, HasLaws(t, here)
  PROVE  /\ HasLaws(AtEnd(t), here) /\ AtEnd(t).root = t.root /\ AtEnd(t).color = t.color
         /\ AtEnd(t).fault = t.fault
<1>1. PICK u : u = AtEnd(t)
  OBVIOUS
<1>2. PICK sub : Whole(t, sub, here)
  BY DEF HasLaws
<1>3. t \in Trees /\ t.color[NIL] = "BLACK"
  BY LawsGive
<1>4. NIL \in Cells /\ NIL \notin Nodes /\ \A m \in Nodes : m \in Cells
  BY NodesAreFinite DEF Cells
<1>5. /\ u \in Trees /\ u.root = t.root /\ u.child = t.child /\ u.size = t.size /\ u.max_high = t.max_high
      /\ u.color = t.color /\ u.fault = t.fault
      /\ \A m \in Cells : u.parent[m] = IF m = NIL THEN Null ELSE t.parent[m]
  BY <1>1, <1>3, <1>4 DEF Trees, AtEnd
<1>6. Whole(u, sub, here)
  BY <1>2, <1>3, <1>4, <1>5, SameLinks
<1> QED
  BY <1>1, <1>5, <1>6 DEF HasLaws

LEMMA RotateToIs ==
  ASSUME NEW t, NEW here, HasLaws(t, here), NEW x \in here, NEW s \in Sides, NEW u, u = RotateTo(t, x, s)
  PROVE  /\ HasLaws(u, here)
         /\ IF t.child[Other(s)][x] = NIL THEN u.fault ELSE Rotated(t, u, x, s)
<1>1. u = Rotate(t, x, s)
  BY DEF RotateTo, left_rotate, right_rotate, Sides
<1>2. /\ HasLaws(u, here)
      /\ IF t.child[Other(s)][x] = NIL
         THEN u = [t EXCEPT !.fault = TRUE]
         ELSE Rotated(t, u, x, s) /\ t.child[Other(s)][x] \in here
  BY <1>1, RotateKeeps
<1>3. [t EXCEPT !.fault = TRUE].fault
  BY FaultKeeps
<1> QED
  BY <1>2, <1>3

BlackRoot(t) == t.color[t.root] = "BLACK"

LEMMA RaiseKeeps ==
  ASSUME NEW t, NEW here, HasLaws(t, here), NEW n \in here, NEW s \in Sides,
         BlackRoot(t) \/ t.parent[n] = NIL,
         NEW u, u = RaiseParent(t, n, s)
  PROVE  HasLaws(u, here) /\ (u.fault \/ (u.color[u.parent[n]] = "RED" => BlackRoot(u)))
<1>1. PICK p : p = t.parent[n]
  OBVIOUS
<1>2. PICK g : g = t.parent[p]
  OBVIOUS
<1>3. t.color[NIL] = "BLACK" /\ n \in Cells /\ NIL \in Cells /\ (p # NIL => p \in here)
  BY <1>1, LawsGive DEF Cells
<1>4. PICK black : black = Recolor(t, {p}, "BLACK")
  OBVIOUS
<1>8. /\ HasLaws(black, here) /\ black.root = t.root /\ black.parent = t.parent
      /\ \A m \in Cells : black.color[m] = IF m \in {p} THEN "BLACK" ELSE t.color[m]
  BY <1>4, RecolorKeeps
<1>5. CASE p = NIL
  <2>1. u = t
    BY <1>1, <1>5 DEF RaiseParent
  <2> QED
    BY <2>1, <1>1, <1>3, <1>5
<1>6. CASE p # NIL /\ g = NIL
  <2>1. u = black
    BY <1>1, <1>2, <1>4, <1>6 DEF RaiseParent
  <2>2. /\ HasLaws(black, here) /\ black.root = t.root
        /\ \A m \in Cells : black.color[m] = IF m \in {p} THEN "BLACK" ELSE t.color[m]
    BY <1>8
  <2>3. t.root = p /\ p \in Cells
    <3>1. p \in here
      BY <1>3, <1>6
    <3>2. p \in Cells /\ (t.parent[p] = NIL <=> p = t.root)
      BY <3>1, LawsGive
    <3> QED
      BY <3>2, <1>2, <1>6
  <2> QED
    BY <2>1, <2>2, <2>3 DEF BlackRoot
<1>7. CASE p # NIL /\ g # NIL
  <2>1. p \in here /\ g \in here /\ p # n /\ g # p /\ p \in Cells /\ g \in Cells
    BY <1>1, <1>2, <1>3, <1>7, LawsGive
  <2>2. /\ HasLaws(black, here) /\ black.root = t.root /\ black.parent = t.parent
        /\ \A m \in Cells : black.color[m] = IF m \in {p} THEN "BLACK" ELSE t.color[m]
    BY <1>8
  <2>3. PICK k : k = Recolor(black, {g}, "RED")
    OBVIOUS
  <2>4. /\ HasLaws(k, here) /\ k.root = t.root /\ k.parent = t.parent
        /\ \A m \in Cells : k.color[m] = IF m = g THEN "RED" ELSE IF m = p THEN "BLACK" ELSE t.color[m]
    <3>1. NIL \notin {g}
      BY <1>7
    <3>2. /\ HasLaws(k, here) /\ k.root = black.root /\ k.parent = black.parent
          /\ \A m \in Cells : k.color[m] = IF m \in {g} THEN "RED" ELSE black.color[m]
      BY <2>2, <2>3, <3>1, RecolorKeeps
    <3> QED
      BY <2>2, <3>2
  <2>5. u = RotateTo(k, g, Other(s))
    BY <1>1, <1>2, <1>4, <1>7, <2>3 DEF RaiseParent
  <2>6. Other(s) \in Sides /\ Other(Other(s)) = s
    BY OtherSide
  <2>7. /\ HasLaws(u, here)
        /\ IF k.child[s][g] = NIL THEN u.fault ELSE Rotated(k, u, g, Other(s))
    BY <2>1, <2>4, <2>5, <2>6, RotateToIs
  <2>8. ASSUME k.child[s][g] # NIL, u.color[u.parent[n]] = "RED" PROVE BlackRoot(u)
    <3>1. PICK y : y = k.child[s][g]
      OBVIOUS
    <3>2. PICK inner : inner = k.child[Other(s)][y]
      OBVIOUS
    <3>3. /\ u.color = k.color
          /\ u.root = IF k.parent[g] = NIL THEN y ELSE k.root
          /\ \A m \in Cells :
               u.parent[m] = IF inner # NIL /\ m = inner THEN g
                             ELSE IF m = g THEN y
                             ELSE IF m = y THEN k.parent[g] ELSE k.parent[m]
      BY <2>6, <2>7, <2>8, <3>1, <3>2 DEF Rotated
    <3>4. BlackRoot(t)
      BY <1>1, <1>7
    <3>5. t.root \in Cells /\ y \in here /\ y \in Cells /\ k.parent[y] = g
      BY <2>1, <2>4, <2>8, <3>1, LawsGive DEF Cells
    <3>6. CASE t.parent[g] # NIL
      <4>1. t.root # g
        BY <2>1, <3>6, LawsGive
      <4> QED
        BY <4>1, <2>1, <2>4, <3>3, <3>4, <3>5, <3>6 DEF BlackRoot
    <3>7. CASE t.parent[g] = NIL
      <4>1. CASE y = p
        BY <4>1, <2>1, <2>4, <3>3, <3>7 DEF BlackRoot
      <4>2. CASE y # p
        <5>1. n # g
          BY <1>1, <1>7, <3>7
        <5>2. ~(inner # NIL /\ n = inner)
          <6>1. inner # NIL => k.parent[inner] = y
            BY <2>4, <2>6, <3>2, <3>5, LawsGive
          <6> QED
            BY <6>1, <4>2, <1>1, <2>4
        <5>3. n # y
          BY <1>1, <1>2, <1>7, <2>1, <2>4, <3>5
        <5>4. u.parent[n] = p
          BY <5>1, <5>2, <5>3, <1>1, <1>3, <2>4, <3>3
        <5> QED
          BY <5>4, <2>1, <2>4, <2>8, <3>3
      <4> QED
        BY <4>1, <4>2
    <3> QED
      BY <3>6, <3>7
  <2> QED
    BY <2>7, <2>8
<1> QED
  BY <1>5, <1>6, <1>7

LEMMA PastUncleKeeps ==
  ASSUME NEW t, NEW here, HasLaws(t, here), NEW n \in here, BlackRoot(t),
         t.color[t.parent[n]] = "RED", NEW past, past = PastUncle(t, n)
  PROVE  /\ HasLaws(past.tree, here) /\ past.node \in here
         /\ BlackRoot(past.tree) \/ past.tree.parent[past.node] = NIL
<1>1. PICK p : p = t.parent[n]
  OBVIOUS
<1>2. PICK s : s = Side(t, p)
  OBVIOUS
<1>3. PICK g : g = t.parent[p]
  OBVIOUS
<1>4. PICK uncle : uncle = Uncle(t, n)
  OBVIOUS
<1>5. s \in Sides
  BY <1>2 DEF Side, Sides
<1>6. /\ p # NIL /\ p \in here /\ p # t.root /\ g # NIL /\ g \in here /\ n # NIL
      /\ t.color[NIL] = "BLACK" /\ t.root \in Cells /\ p \in Cells /\ g \in Cells
  <2>1. p # NIL /\ t.color[NIL] = "BLACK"
    BY <1>1, LawsGive
  <2>2. p \in here /\ p # t.root
    BY <2>1, <1>1, LawsGive DEF BlackRoot
  <2>3. g # NIL /\ g \in here /\ n # NIL /\ t.root \in Cells
    BY <2>2, <1>3, LawsGive DEF Cells
  <2> QED
    BY <2>1, <2>2, <2>3, LawsGive
<1>7. CASE t.color[uncle] = "RED"
  <2>1. PICK v : v = Recolor(t, {p, uncle}, "BLACK")
    OBVIOUS
  <2>2. PICK w : w = Recolor(v, {g}, "RED")
    OBVIOUS
  <2>3. past.tree = w /\ past.node = g
    BY <2>1, <2>2, <1>1, <1>3, <1>4, <1>7 DEF PastUncle
  <2>4. /\ HasLaws(v, here) /\ v.root = t.root /\ v.parent = t.parent
        /\ \A m \in Cells : v.color[m] = IF m \in {p, uncle} THEN "BLACK" ELSE t.color[m]
    BY <2>1, RecolorKeeps
  <2>5. /\ HasLaws(w, here) /\ w.root = v.root /\ w.parent = v.parent
        /\ \A m \in Cells : w.color[m] = IF m \in {g} THEN "RED" ELSE v.color[m]
    <3>1. NIL \notin {g}
      BY <1>6
    <3> QED
      BY <2>2, <2>4, <3>1, RecolorKeeps
  <2>6. CASE g = t.root
    <3>1. t.parent[g] = NIL
      BY <2>6, <1>6, LawsGive
    <3> QED
      BY <3>1, <2>3, <2>4, <2>5, <1>6
  <2>7. CASE g # t.root
    BY <2>3, <2>4, <2>5, <2>7, <1>6 DEF BlackRoot
  <2> QED
    BY <2>6, <2>7
<1>8. CASE t.color[uncle] # "RED" /\ n = t.child[Other(s)][p]
  <2>1. past.tree = RotateTo(t, p, s) /\ past.node = p
    BY <1>1, <1>2, <1>4, <1>8 DEF PastUncle
  <2>2. HasLaws(past.tree, here) /\ Rotated(t, past.tree, p, s)
    BY <2>1, <1>5, <1>6, <1>8, RotateToIs
  <2>3. past.tree.color = t.color /\ past.tree.root = t.root
    BY <2>2, <1>3, <1>6 DEF Rotated
  <2> QED
    BY <2>1, <2>2, <2>3, <1>6 DEF BlackRoot
<1>9. CASE t.color[uncle] # "RED" /\ n # t.child[Other(s)][p]
  <2>1. past.tree = t /\ past.node = n
    BY <1>1, <1>2, <1>4, <1>9 DEF PastUncle
  <2> QED
    BY <2>1
<1> QED
  BY <1>7, <1>8, <1>9

LEMMA BlackBrotherKeeps ==
  ASSUME NEW t, NEW here, HasLaws(t, here), BlackRoot(t), NEW n \in here \cup {NIL}, t.color[n] = "BLACK",
         NEW p \in here, p = t.parent[n], NEW s \in Sides, NEW u, u = BlackBrother(t, n, s)
  PROVE  HasLaws(u, here) /\ u.parent[n] = p /\ BlackRoot(u)
<1>1. PICK b : b = t.child[Other(s)][p]
  OBVIOUS
<1>2. /\ Other(s) \in Sides /\ NIL \in Cells /\ NIL \notin here /\ p \in Cells /\ n \in Cells
      /\ t.root \in Cells /\ b \in here \cup {NIL} /\ b \in Cells /\ t.color[NIL] = "BLACK"
      /\ (b # NIL => t.parent[b] = p)
  <2>1. /\ Other(s) \in Sides /\ NIL \in Cells /\ NIL \notin here /\ here \in SUBSET Cells
        /\ t.root \in here \cup {NIL} /\ t.color[NIL] = "BLACK"
    BY LawsGive, OtherSide DEF Cells
  <2>2. b \in here \cup {NIL} /\ (b # NIL => t.parent[b] = p)
    BY <2>1, <1>1, LawsGive
  <2> QED
    BY <2>1, <2>2
<1>3. p # n
  BY <1>2, LawsGive
<1>4. CASE t.color[b] # "RED"
  <2>1. u = t
    BY <1>1, <1>4 DEF BlackBrother, Child
  <2> QED
    BY <2>1
<1>5. CASE t.color[b] = "RED"
  <2>1. PICK v : v = Recolor(t, {b}, "BLACK")
    OBVIOUS
  <2>2. PICK w : w = Recolor(v, {p}, "RED")
    OBVIOUS
  <2>3. u = RotateTo(w, p, s)
    BY <2>1, <2>2, <1>1, <1>5 DEF BlackBrother, Child
  <2>4. /\ HasLaws(v, here) /\ v.root = t.root /\ v.parent = t.parent /\ v.child = t.child
        /\ \A m \in Cells : v.color[m] = IF m \in {b} THEN "BLACK" ELSE t.color[m]
    BY <2>1, RecolorKeeps
  <2>5. /\ HasLaws(w, here) /\ w.root = v.root /\ w.parent = v.parent /\ w.child = v.child
        /\ \A m \in Cells : w.color[m] = IF m \in {p} THEN "RED" ELSE v.color[m]
    <3>1. NIL \notin {p}
      BY <1>2
    <3> QED
      BY <2>2, <2>4, <3>1, RecolorKeeps
  <2>6. HasLaws(u, here) /\ IF w.child[Other(s)][p] = NIL THEN u.fault ELSE Rotated(w, u, p, s)
    BY <2>3, <2>5, RotateToIs
  <2>7. Rotated(w, u, p, s)
    <3>1. w.child[Other(s)][p] = b /\ b # NIL
      BY <2>4, <2>5, <1>1, <1>2, <1>5
    <3> QED
      BY <3>1, <2>6
  <2>8. PICK inner : inner = t.child[s][b]
    OBVIOUS
  <2>9. /\ u.color = w.color
        /\ u.root = IF t.parent[p] = NIL THEN b ELSE t.root
        /\ \A m \in Cells :
             u.parent[m] = IF inner # NIL /\ m = inner THEN p
                           ELSE IF m = p THEN b
                           ELSE IF m = b THEN t.parent[p] ELSE t.parent[m]
    <3>1. w.child = t.child /\ w.parent = t.parent /\ w.root = t.root
      BY <2>4, <2>5
    <3>2. w.child[Other(s)][p] = b /\ w.child[s][b] = inner
      BY <3>1, <2>8, <1>1
    <3> QED
      BY <3>1, <3>2, <2>7 DEF Rotated
  <2>10. n # b
    BY <1>5
  <2>11. u.parent[n] = p
    BY <2>9, <2>10, <1>2, <1>3
  <2>12. b # p
    BY <1>2, <1>5, <1>1, LawsGive
  <2>13. BlackRoot(u)
    <3>1. CASE t.parent[p] = NIL
      BY <3>1, <2>4, <2>5, <2>9, <2>12, <1>2 DEF BlackRoot
    <3>2. CASE t.parent[p] # NIL
      <4>1. t.root # p
        BY <3>2, LawsGive
      <4> QED
        BY <4>1, <3>2, <2>4, <2>5, <2>9, <1>2 DEF BlackRoot
    <3> QED
      BY <3>1, <3>2
  <2> QED
    BY <2>6, <2>11, <2>13
<1> QED
  BY <1>4, <1>5

\* Where a removal's fixup may be: at the root, or below a black one.
FixupPlace(t, here, n) ==
  n \in here \cup {NIL} /\ (n = t.root \/ (BlackRoot(t) /\ t.parent[n] \in here))

LEMMA RemoveCasesKeep ==
  ASSUME NEW t, NEW here, HasLaws(t, here), BlackRoot(t), NEW n \in here \cup {NIL},
         NEW p \in here, p = t.parent[n], NEW s \in Sides, NEW after, after = RemoveCases(t, n, s)
  PROVE  /\ HasLaws(after.tree, here) /\ after.node \in here \cup {NIL}
         /\ after.tree.fault \/ FixupPlace(after.tree, here, after.node)
<1>1. PICK b : b = t.child[Other(s)][p]
  OBVIOUS
<1>2. /\ Other(s) \in Sides /\ NIL \in Cells /\ NIL \notin here /\ p \in Cells /\ n \in Cells
      /\ t.root \in Cells /\ b \in here \cup {NIL} /\ b \in Cells /\ t.color[NIL] = "BLACK"
      /\ (b # NIL => t.parent[b] = p) /\ b # p
  <2>1. /\ Other(s) \in Sides /\ NIL \in Cells /\ NIL \notin here /\ here \in SUBSET Cells
        /\ t.root \in here \cup {NIL} /\ t.color[NIL] = "BLACK"
    BY LawsGive, OtherSide DEF Cells
  <2>2. b \in here \cup {NIL} /\ (b # NIL => t.parent[b] = p) /\ b # p
    BY <2>1, <1>1, LawsGive
  <2> QED
    BY <2>1, <2>2
<1>3. CASE b = NIL
  <2>1. after.tree = [t EXCEPT !.fault = TRUE] /\ after.node = n
    BY <1>1, <1>3 DEF RemoveCases, Child
  <2> QED
    BY <2>1, FaultKeeps
<1>4. b # NIL => b \in here /\ b # t.root
  BY <1>2, LawsGive
<1>5. PICK near : near = t.child[s][b]
  OBVIOUS
<1>6. PICK distant : distant = t.child[Other(s)][b]
  OBVIOUS
<1>7. CASE b # NIL /\ t.color[near] = "BLACK" /\ t.color[distant] = "BLACK"
  <2>1. PICK v : v = Recolor(t, {b}, "RED")
    OBVIOUS
  <2>2. after.tree = v /\ after.node = p
    BY <2>1, <1>1, <1>5, <1>6, <1>7 DEF RemoveCases, Child
  <2>3. /\ HasLaws(v, here) /\ v.root = t.root /\ v.parent = t.parent
        /\ \A m \in Cells : v.color[m] = IF m \in {b} THEN "RED" ELSE t.color[m]
    <3>1. NIL \notin {b}
      BY <1>7
    <3> QED
      BY <2>1, <3>1, RecolorKeeps
  <2>4. p = t.root \/ t.parent[p] \in here
    BY LawsGive
  <2> QED
    BY <2>2, <2>3, <2>4, <1>2, <1>4, <1>7 DEF FixupPlace, BlackRoot
<1>8. CASE b # NIL /\ t.color[near] # "BLACK" /\ t.color[distant] = "BLACK"
  <2>1. PICK v : v = Recolor(t, {near}, "BLACK")
    OBVIOUS
  <2>2. PICK w : w = Recolor(v, {b}, "RED")
    OBVIOUS
  <2>3. PICK u : u = RotateTo(w, b, Other(s))
    OBVIOUS
  <2>4. after.tree = u /\ after.node = n
    BY <2>1, <2>2, <2>3, <1>1, <1>5, <1>6, <1>8 DEF RemoveCases, Child
  <2>5. /\ HasLaws(v, here) /\ v.root = t.root /\ v.parent = t.parent /\ v.child = t.child
        /\ \A m \in Cells : v.color[m] = IF m \in {near} THEN "BLACK" ELSE t.color[m]
    BY <2>1, RecolorKeeps
  <2>6. /\ HasLaws(w, here) /\ w.root = v.root /\ w.parent = v.parent /\ w.child = v.child
        /\ \A m \in Cells : w.color[m] = IF m \in {b} THEN "RED" ELSE v.color[m]
    <3>1. NIL \notin {b}
      BY <1>8
    <3> QED
      BY <2>2, <2>5, <3>1, RecolorKeeps
  <2>7. Other(Other(s)) = s
    BY OtherSide
  <2>8. HasLaws(u, here) /\ IF w.child[s][b] = NIL THEN u.fault ELSE Rotated(w, u, b, Other(s))
    BY <2>3, <2>6, <2>7, <1>2, <1>4, <1>8, RotateToIs
  <2>9. ASSUME ~u.fault PROVE FixupPlace(u, here, n)
    <3>1. Rotated(w, u, b, Other(s)) /\ near # NIL
      BY <2>5, <2>6, <2>8, <2>9, <1>5
    <3>2. PICK inner : inner = t.child[Other(s)][near]
      OBVIOUS
    <3>3. /\ u.color = w.color
          /\ u.root = IF t.parent[b] = NIL THEN near ELSE t.root
          /\ \A m \in Cells :
               u.parent[m] = IF inner # NIL /\ m = inner THEN b
                             ELSE IF m = b THEN near
                             ELSE IF m = near THEN t.parent[b] ELSE t.parent[m]
      BY <2>5, <2>6, <2>7, <3>1, <3>2, <1>5 DEF Rotated
    <3>4. u.root = t.root
      BY <3>3, <1>2, <1>8
    <3>5. BlackRoot(u)
      BY <3>3, <3>4, <2>5, <2>6, <1>2, <1>4, <1>8 DEF BlackRoot
    <3>6. CASE n = NIL
      BY <3>1, <3>3, <3>5, <3>6, <1>2, <1>8 DEF FixupPlace
    <3>7. CASE n # NIL
      <4>1. n \in here
        BY <3>7
      <4>2. n = u.root \/ u.parent[n] \in here
        BY <4>1, <2>8, LawsGive
      <4> QED
        BY <4>1, <4>2, <3>5 DEF FixupPlace
    <3> QED
      BY <3>6, <3>7
  <2> QED
    BY <2>4, <2>8, <2>9
<1>9. CASE b # NIL /\ t.color[distant] # "BLACK"
  <2>1. PICK v : v = Recolor(t, {p, distant}, "BLACK")
    OBVIOUS
  <2>2. PICK c : c = t.color[p] /\ c \in {"RED", "BLACK"}
    BY <1>2, LawsGive DEF Trees
  <2>3. PICK w : w = [v EXCEPT !.color[b] = c]
    OBVIOUS
  <2>4. PICK u : u = RotateTo(w, p, s)
    OBVIOUS
  <2>5. after.tree = u /\ after.node = u.root
    BY <2>1, <2>2, <2>3, <2>4, <1>1, <1>6, <1>9 DEF RemoveCases, Child
  <2>6. HasLaws(v, here)
    BY <2>1, RecolorKeeps
  <2>7. PICK sub : Whole(v, sub, here)
    BY <2>6 DEF HasLaws
  <2>8. v \in Trees /\ v.color[NIL] = "BLACK"
    BY <2>6, LawsGive
  <2>9. /\ w \in Trees /\ w.root = v.root /\ w.child = v.child /\ w.size = v.size
        /\ w.max_high = v.max_high /\ w.parent = v.parent /\ w.color[NIL] = "BLACK"
    BY <2>2, <2>3, <2>8, <1>2, <1>9 DEF Trees
  <2>10. HasLaws(w, here)
    <3>1. Whole(w, sub, here)
      BY <2>7, <2>9, SameLinks
    <3> QED
      BY <3>1 DEF HasLaws
  <2>11. HasLaws(u, here)
    BY <2>4, <2>10, RotateToIs
  <2>12. u.root \in here \cup {NIL}
    BY <2>11, LawsGive
  <2> QED
    BY <2>5, <2>11, <2>12 DEF FixupPlace
<1> QED
  BY <1>3, <1>7, <1>8, <1>9

-----------------------------------------------------------------------------
(* The searches: each goes down to one child, for a reason that the laws   *)
(* give.                                                                   *)

LEMMA SearchFinds ==
  ASSUME NEW t, NEW here, HasLaws(t, here), NEW d \in Nat
  PROVE  /\ search_node(t, d) \in here \cup {NIL}
         /\ search_node(t, d) # NIL <=> \E n \in here : Data[n] = d
<1>1. PICK sub : Whole(t, sub, here)
  BY DEF HasLaws
<1>2. LinksOK(t) /\ Forest(t, sub) /\ Rooted(t, sub, here) /\ Sorted(t, sub)
  BY <1>1 DEF Whole, Shape
<1>3. PICK f \in [Cells -> Cells] : /\ \A n \in Cells : f[n] = SearchStep(t, d, f, n)
                                    /\ search_node(t, d) = f[t.root]
  BY <1>2, SearchIs
<1>4. NIL \in Cells /\ NIL \notin Nodes /\ sub[NIL] = {} /\ (\A n \in Nodes : n \in Cells)
      /\ Data \in [Nodes -> Nat] /\ "left" \in Sides /\ "right" \in Sides /\ \A s \in Sides : s = "left" \/ s = "right"
  BY <1>2, NodesAreFinite, TreeAssumption DEF Cells, Forest, Sides
<1>5. PICK A : A = {n \in Cells : /\ f[n] \in sub[n] \cup {NIL}
                                  /\ f[n] # NIL => Data[f[n]] = d
                                  /\ (\E m \in sub[n] : Data[m] = d) => f[n] # NIL}
  OBVIOUS
<1>6. NIL \in A
  <2>1. f[NIL] = NIL
    BY <1>3, <1>4 DEF SearchStep
  <2> QED
    BY <2>1, <1>4, <1>5
<1>7. ASSUME NEW n \in Nodes, \A s \in Sides : t.child[s][n] \in A PROVE n \in A
  <2>1. /\ n \in sub[n] /\ sub[n] \in SUBSET Nodes /\ n # NIL /\ n \in Cells
        /\ \A s \in Sides : sub[t.child[s][n]] \subseteq sub[n]
        /\ \A m \in sub[n] : m = n \/ m \in sub[t.child["left"][n]] \/ m \in sub[t.child["right"][n]]
    <3>1. \A m \in sub[n] : m = n \/ \E s \in Sides : m \in sub[t.child[s][n]]
      BY <1>2, InForest
    <3> QED
      BY <3>1, <1>2, <1>4, InForest
  <2>2. f[n] = SearchStep(t, d, f, n)
    BY <2>1, <1>3
  <2>3. CASE Data[n] = d
    <3>1. f[n] = n
      BY <2>2, <2>3 DEF SearchStep
    <3> QED
      BY <3>1, <2>1, <2>3, <1>5
  <2>4. CASE Data[n] # d
    <3>1. PICK s \in Sides : /\ f[n] = f[t.child[s][n]]
                             /\ \A m \in sub[n] : Data[m] = d => m \in sub[t.child[s][n]]
      <4>1. CASE d < Data[n]
        <5>1. f[n] = f[t.child["left"][n]]
          BY <2>1, <2>2, <2>4, <4>1 DEF SearchStep
        <5>2. \A m \in sub[t.child["right"][n]] : Data[n] <= Data[m]
          BY <1>2, <1>4 DEF Sorted, Le
        <5>3. \A m \in sub[n] : Data[m] = d => m \in sub[t.child["left"][n]]
          BY <2>1, <2>4, <4>1, <5>2, <1>4
        <5> QED
          BY <5>1, <5>3, <1>4
      <4>2. CASE ~(d < Data[n])
        <5>1. f[n] = f[t.child["right"][n]]
          BY <2>1, <2>2, <2>4, <4>2 DEF SearchStep
        <5>2. \A m \in sub[t.child["left"][n]] : Data[m] <= Data[n]
          BY <1>2, <1>4 DEF Sorted, Le
        <5>3. Data[n] < d
          BY <2>4, <4>2, <1>4
        <5>4. \A m \in sub[n] : Data[m] = d => m \in sub[t.child["right"][n]]
          BY <2>1, <2>4, <5>2, <5>3, <1>4
        <5> QED
          BY <5>1, <5>4, <1>4
      <4> QED
        BY <4>1, <4>2
    <3>2. t.child[s][n] \in A /\ sub[t.child[s][n]] \subseteq sub[n]
      BY <2>1, <1>7
    <3> QED
      BY <3>1, <3>2, <2>1, <1>5
  <2> QED
    BY <2>3, <2>4
<1>8. Cells \subseteq A
  BY <1>2, <1>6, <1>7, Downward
<1>9. t.root \in Cells /\ sub[t.root] = here
  BY <1>2 DEF LinksOK, Trees, Rooted
<1>10. t.root \in A
  BY <1>8, <1>9
<1>11. /\ f[t.root] \in here \cup {NIL}
       /\ f[t.root] # NIL => Data[f[t.root]] = d
       /\ (\E m \in here : Data[m] = d) => f[t.root] # NIL
  BY <1>5, <1>9, <1>10
<1> QED
  BY <1>3, <1>11

\* The least node of a set of nodes.
LEMMA MinOfNodes ==
  ASSUME NEW S \in SUBSET Nodes, S # {}
  PROVE  Min(S) \in S
<1> DEFINE R == OpToRel(<, Nat)
<1>1. \A x, y \in Nat : x < y => <<x, y>> \in R
  BY DEF OpToRel
<1>2. IsWellFoundedOn(R, Nat)
  BY NatLessThanWellFounded
<1> HIDE DEF R
<1>3. S \subseteq Nat
  BY TreeAssumption
<1>4. PICK n \in S : \A m \in S : <<m, n>> \notin R
  BY <1>2, <1>3, WFMin
<1>5. ASSUME NEW m \in S PROVE n <= m
  <2>1. m \in Nat /\ n \in Nat
    BY <1>3
  <2>2. ~(m < n)
    BY <2>1, <1>1, <1>4
  <2> QED
    BY <2>1, <2>2
<1> QED
  BY <1>5 DEF Min

-----------------------------------------------------------------------------
(* The invariant: the laws hold at every step, and the colours say where a *)
(* fixup may be.                                                           *)

\* At rest, and while a fixup goes on, the root is black.  So a red parent has a parent,
\* about which an insertion's fixup rotates, and a removal's is at a node that has one.
FixupsPlaced ==
  /\ pc = "idle" => BlackRoot(tree)
  /\ pc = "insert_fixup" => node \in present /\ (RedParent => BlackRoot(tree))
  /\ pc = "remove_fixup" => FixupPlace(tree, present, node)

TreeInv ==
  /\ HasLaws(tree, present) /\ node \in Cells
  /\ pc \in {"idle", "insert_fixup", "remove_fixup", "crashed"}
  /\ FixupsPlaced

LEMMA EmptyKeeps == HasLaws(EmptyTree, {}) /\ BlackRoot(EmptyTree)
<1>1. PICK e : e = EmptyTree
  OBVIOUS
<1>2. /\ e \in Trees /\ e.root = NIL
      /\ \A s \in Sides, n \in Cells : e.child[s][n] = IF n = NIL THEN Null ELSE NIL
      /\ \A n \in Cells : /\ e.parent[n] = IF n = NIL THEN Null ELSE NIL
                          /\ e.color[n] = "BLACK" /\ e.size[n] = 0 /\ e.max_high[n] = 0
  <2>1. NIL \in Cells
    BY DEF Cells
  <2> QED
    BY <2>1, <1>1 DEF EmptyTree, Trees
<1>3. NIL \notin Nodes /\ NIL \in Cells /\ "left" \in Sides /\ "right" \in Sides /\ \A n \in Nodes : n \in Cells /\ n # NIL
  BY NodesAreFinite DEF Cells, Sides
<1>4. PICK sub : sub = [n \in Cells |-> IF n = NIL THEN {} ELSE {n}]
  OBVIOUS
<1>5. /\ sub \in [Cells -> SUBSET Nodes] /\ sub[NIL] = {} /\ \A n \in Nodes : sub[n] = {n}
  BY <1>3, <1>4 DEF Cells
<1>6. \A n \in Nodes : e.parent[n] = NIL /\ \A s \in Sides : e.child[s][n] = NIL
  BY <1>2, <1>3
<1>7. LinksOK(e)
  BY <1>2, <1>3, <1>6 DEF LinksOK
<1>8. Forest(e, sub)
  BY <1>3, <1>5, <1>6 DEF Forest
<1>9. Rooted(e, sub, {}) /\ Sorted(e, sub) /\ e.color[NIL] = "BLACK"
  BY <1>2, <1>3, <1>5, <1>6 DEF Rooted, Sorted
<1>10. Sized(e, sub, {}) /\ Maxed(e, {})
  BY <1>2, <1>3 DEF Sized, Maxed
<1>11. Whole(e, sub, {})
  BY <1>7, <1>8, <1>9, <1>10 DEF Whole, Shape
<1> QED
  BY <1>1, <1>2, <1>9, <1>11 DEF HasLaws, BlackRoot

\* insert makes a red node that is the root, or below another under a black root.
LEMMA InsertInv ==
  ASSUME TreeInv, NEW d \in Keys, insert(d)
  PROVE  TreeInv'
<1>1. HasLaws(tree, present) /\ pc = "idle" /\ BlackRoot(tree)
  BY DEF TreeInv, FixupsPlaced, insert
<1>2. PICK n : n = NewNode(d)
  OBVIOUS
<1>3. PICK p : p = Descent(tree, d)
  OBVIOUS
<1>4. PICK t : t = tree
  OBVIOUS
<1>5. PICK u : u = RefreshUpward(CountUpward(Attach(t, n, p), p, 1), p)
  OBVIOUS
<1>6. tree' = u /\ present' = present \cup {n} /\ node' = n /\ pc' = "insert_fixup"
  BY <1>2, <1>3, <1>4, <1>5 DEF insert
<1>7. n \in FreeNodes(d)
  <2>1. FreeNodes(d) \in SUBSET Nodes /\ FreeNodes(d) # {}
    BY DEF insert, FreeNodes
  <2> QED
    BY <2>1, <1>2, MinOfNodes DEF NewNode
<1>8. n \in Nodes \ present /\ p = Descent(t, Data[n])
  BY <1>3, <1>4, <1>7 DEF FreeNodes
<1>9. HasLaws(t, present) /\ BlackRoot(t)
  BY <1>1, <1>4
<1>10. /\ HasLaws(u, present \cup {n})
       /\ u.root = (IF p = NIL THEN n ELSE t.root) /\ (p = NIL <=> t.root = NIL)
       /\ u.parent[n] = p /\ p \in present \cup {NIL}
       /\ \A m \in Cells : u.color[m] = IF m = n THEN "RED" ELSE t.color[m]
  BY <1>5, <1>8, <1>9, InsertKeeps
<1>11. n \in Cells /\ NIL \in Cells /\ NIL # n /\ t.root \in present \cup {NIL} /\ t.root \in Cells
       /\ t.color[NIL] = "BLACK"
  <2>1. t.root \in present \cup {NIL} /\ present \in SUBSET Nodes /\ t.color[NIL] = "BLACK"
    BY <1>9, LawsGive
  <2> QED
    BY <2>1, <1>8, NodesAreFinite DEF Cells
<1>12. u.color[u.parent[n]] = "RED" => BlackRoot(u)
  <2>1. CASE p = NIL
    BY <2>1, <1>10, <1>11
  <2>2. CASE p # NIL
    BY <2>2, <1>8, <1>9, <1>10, <1>11 DEF BlackRoot
  <2> QED
    BY <2>1, <2>2
<1>13. HasLaws(tree, present)' /\ node' \in Cells
  BY <1>6, <1>10, <1>11
<1>14. FixupsPlaced'
  BY <1>6, <1>12 DEF FixupsPlaced, RedParent, BlackRoot
<1> QED
  BY <1>6, <1>13, <1>14 DEF TreeInv

LEMMA KeysAreNumbers == \A d \in Keys : d \in Nat
BY TreeAssumption DEF Keys

\* remove leaves a fixup at the root or below a black root, or needs none.
LEMMA RemoveInv ==
  ASSUME TreeInv, NEW d \in Keys, remove(d)
  PROVE  TreeInv'
<1>1. HasLaws(tree, present) /\ pc = "idle" /\ BlackRoot(tree) /\ node \in Cells
  BY DEF TreeInv, FixupsPlaced, remove
<1>2. PICK x : x = search_node(tree, d)
  OBVIOUS
<1>3. PICK f : f = FixupNode(tree, x)
  OBVIOUS
<1>4. PICK v : v = Free(Unlink(tree, x), x)
  OBVIOUS
<1>5. PICK p : p = v.parent[f]
  OBVIOUS
<1>6. PICK w : w = RefreshUpward(CountUpward(v, p, -1), p)
  OBVIOUS
<1>7. PICK t : t = tree
  OBVIOUS
<1>8. PICK here : here = present \ {x}
  OBVIOUS
<1>9. /\ x # NIL /\ present' = here
      /\ IF t.color[Leaving(t, x)] = "BLACK"
         THEN tree' = w /\ pc' = "remove_fixup" /\ node' = f
         ELSE tree' = AtEnd(w) /\ pc' = pc /\ node' = node
  BY <1>2, <1>3, <1>4, <1>5, <1>6, <1>7, <1>8 DEF remove
<1>10. x \in present
  <2>1. x \in present \cup {NIL}
    BY <1>1, <1>2, KeysAreNumbers, SearchFinds
  <2> QED
    BY <2>1, <1>9
<1>11. AfterUnlink(t, w, here, x, f)
  <2>1. f = FixupNode(t, x) /\ v = Free(Unlink(t, x), x) /\ HasLaws(t, present)
    BY <1>1, <1>3, <1>4, <1>7
  <2> QED
    BY <2>1, <1>5, <1>6, <1>8, <1>10, RemoveKeeps
<1>12. /\ HasLaws(w, here) /\ f \in here \cup {NIL} /\ w.parent[f] \in here \cup {NIL}
       /\ t.color[Leaving(t, x)] = "RED" => BlackRoot(w)
       /\ f = w.root \/ (BlackRoot(w) /\ w.parent[f] # NIL)
  BY <1>1, <1>7, <1>11 DEF AfterUnlink, BlackRoot
<1>13. f \in Cells
  <2>1. here \in SUBSET Nodes
    BY <1>12, LawsGive
  <2> QED
    BY <2>1, <1>12 DEF Cells
<1>14. CASE t.color[Leaving(t, x)] = "BLACK"
  <2>1. tree' = w /\ pc' = "remove_fixup" /\ node' = f /\ present' = here
    BY <1>9, <1>14
  <2>2. HasLaws(tree, present)' /\ node' \in Cells
    BY <2>1, <1>12, <1>13
  <2>3. FixupPlace(w, here, f)
    BY <1>12 DEF FixupPlace
  <2>4. FixupsPlaced'
    BY <2>1, <2>3 DEF FixupsPlaced, FixupPlace, BlackRoot
  <2> QED
    BY <2>1, <2>2, <2>4 DEF TreeInv
<1>15. CASE t.color[Leaving(t, x)] # "BLACK"
  <2>1. tree' = AtEnd(w) /\ pc' = "idle" /\ node' = node /\ present' = here
    BY <1>1, <1>9, <1>15
  <2>2. t.color[Leaving(t, x)] = "RED"
    <3>1. Leaving(t, x) \in Cells
      <4>1. PICK sub : LinksOK(t) /\ Forest(t, sub) /\ Sorted(t, sub) /\ x \in Nodes
        <5>1. PICK sub : Whole(t, sub, present)
          BY <1>1, <1>7 DEF HasLaws
        <5>2. x \in Nodes
          BY <1>1, <1>10, LawsGive
        <5> QED
          BY <5>1, <5>2 DEF Whole, Shape
      <4>2. CASE BothChildren(t, x)
        <5>1. t.child["right"][x] \in Nodes
          BY <4>1, <4>2, NodesAreFinite DEF BothChildren, LinksOK, Cells, Sides
        <5>2. Successor(t, x) \in sub[t.child["right"][x]]
          BY <4>1, <5>1, NodesAreFinite, SuccessorIs DEF Least
        <5>3. Successor(t, x) \in Nodes
          BY <4>1, <5>1, <5>2, InForest
        <5> QED
          BY <5>3, <4>2 DEF Leaving, Cells
      <4>3. CASE ~BothChildren(t, x)
        BY <4>1, <4>3 DEF Leaving, Cells
      <4> QED
        BY <4>2, <4>3
    <3>2. t \in Trees
      BY <1>1, <1>7, LawsGive
    <3> QED
      BY <3>1, <3>2, <1>15 DEF Trees
  <2>3. HasLaws(AtEnd(w), here) /\ BlackRoot(AtEnd(w))
    BY <2>2, <1>12, AtEndKeeps DEF BlackRoot
  <2>4. HasLaws(tree, present)' /\ node' \in Cells
    BY <2>1, <2>3, <1>1
  <2>5. FixupsPlaced'
    BY <2>1, <2>3 DEF FixupsPlaced, BlackRoot
  <2> QED
    BY <2>1, <2>4, <2>5 DEF TreeInv
<1> QED
  BY <1>14, <1>15

LEMMA InsertRoundInv ==
  ASSUME TreeInv, InsertFixupRound
  PROVE  TreeInv'
<1>1. HasLaws(tree, present) /\ pc = "insert_fixup" /\ node \in present /\ BlackRoot(tree)
      /\ tree.color[tree.parent[node]] = "RED"
  BY DEF TreeInv, FixupsPlaced, InsertFixupRound, RedParent
<1>2. PICK past : past = PastUncle(tree, node)
  OBVIOUS
<1>3. PICK s : s = Side(tree, tree.parent[node])
  OBVIOUS
<1>4. PICK u : u = RaiseParent(past.tree, past.node, s)
  OBVIOUS
<1>5. tree' = u /\ node' = past.node /\ pc' = (IF u.fault THEN "crashed" ELSE "insert_fixup") /\ present' = present
  BY <1>1, <1>2, <1>3, <1>4 DEF InsertFixupRound, AfterFault
<1>6. s \in Sides
  BY <1>3 DEF Side, Sides
<1>7. /\ HasLaws(past.tree, present) /\ past.node \in present
      /\ BlackRoot(past.tree) \/ past.tree.parent[past.node] = NIL
  BY <1>1, <1>2, PastUncleKeeps
<1>8. HasLaws(u, present) /\ (u.fault \/ (u.color[u.parent[past.node]] = "RED" => BlackRoot(u)))
  BY <1>4, <1>6, <1>7, RaiseKeeps
<1>9. HasLaws(tree, present)' /\ node' \in Cells
  <2>1. past.node \in Cells
    BY <1>7, LawsGive
  <2> QED
    BY <2>1, <1>5, <1>8
<1>10. FixupsPlaced'
  BY <1>5, <1>7, <1>8 DEF FixupsPlaced, RedParent, BlackRoot
<1> QED
  BY <1>5, <1>9, <1>10 DEF TreeInv

\* The last step of either fixup colours one node black and forgets where the sentinel was.
LEMMA EndInv ==
  ASSUME TreeInv, NEW n \in {tree.root, node}, tree' = AtEnd(Recolor(tree, {n}, "BLACK")), pc' = "idle",
         node' = NIL, present' = present, n # tree.root => BlackRoot(tree)
  PROVE  TreeInv'
<1>1. PICK v : v = Recolor(tree, {n}, "BLACK")
  OBVIOUS
<1>2. HasLaws(tree, present) /\ node \in Cells
  BY DEF TreeInv
<1>3. /\ HasLaws(v, present) /\ v.root = tree.root
      /\ \A m \in Cells : v.color[m] = IF m \in {n} THEN "BLACK" ELSE tree.color[m]
  BY <1>1, <1>2, RecolorKeeps
<1>4. tree.root \in Cells
  BY <1>2, LawsGive DEF Trees
<1>5. BlackRoot(v)
  BY <1>3, <1>4 DEF BlackRoot
<1>6. HasLaws(AtEnd(v), present) /\ BlackRoot(AtEnd(v)) /\ tree' = AtEnd(v)
  BY <1>1, <1>3, <1>5, AtEndKeeps DEF BlackRoot
<1>7. HasLaws(tree, present)' /\ node' \in Cells
  BY <1>6 DEF Cells
<1>8. FixupsPlaced'
  BY <1>6 DEF FixupsPlaced, BlackRoot
<1> QED
  BY <1>7, <1>8 DEF TreeInv

LEMMA RemoveRoundInv ==
  ASSUME TreeInv, RemoveFixupRound
  PROVE  TreeInv'
<1>1. HasLaws(tree, present) /\ pc = "remove_fixup" /\ FixupPlace(tree, present, node)
      /\ node # tree.root /\ tree.color[node] = "BLACK"
  BY DEF TreeInv, FixupsPlaced, RemoveFixupRound, MustGoOn
<1>2. PICK s : s = Side(tree, node)
  OBVIOUS
<1>3. PICK v : v = BlackBrother(tree, node, s)
  OBVIOUS
<1>4. PICK after : after = RemoveCases(v, node, s)
  OBVIOUS
<1>5. /\ tree' = after.tree /\ node' = after.node /\ present' = present
      /\ pc' = (IF after.tree.fault THEN "crashed" ELSE "remove_fixup")
  BY <1>1, <1>2, <1>3, <1>4 DEF RemoveFixupRound, AfterFault
<1>6. PICK p : p = tree.parent[node]
  OBVIOUS
<1>7. s \in Sides /\ p \in present /\ BlackRoot(tree) /\ node \in present \cup {NIL}
  BY <1>1, <1>2, <1>6 DEF Side, Sides, FixupPlace
<1>8. HasLaws(after.tree, present) /\ after.node \in present \cup {NIL}
      /\ (after.tree.fault \/ FixupPlace(after.tree, present, after.node))
  <2>1. HasLaws(v, present) /\ v.parent[node] = p /\ BlackRoot(v)
    BY <1>1, <1>3, <1>6, <1>7, BlackBrotherKeeps
  <2> QED
    BY <2>1, <1>4, <1>7, RemoveCasesKeep
<1>9. HasLaws(tree, present)' /\ node' \in Cells
  <2>1. present \in SUBSET Nodes
    BY <1>1, LawsGive
  <2> QED
    BY <2>1, <1>5, <1>8 DEF Cells
<1>10. FixupsPlaced'
  BY <1>5, <1>8 DEF FixupsPlaced, FixupPlace, BlackRoot
<1> QED
  BY <1>5, <1>9, <1>10 DEF TreeInv

\* The trees of rb_tree, os_tree and int_tree keep their laws: at every step the links
\* are those of one tree in order, each size and maximum is that of the subtree.
THEOREM TreeInvariant == TreeSpec => []TreeInv
<1>1. TreeInit => TreeInv
  <2> SUFFICES ASSUME TreeInit PROVE TreeInv
    OBVIOUS
  <2>1. HasLaws(tree, present) /\ BlackRoot(tree)
    BY EmptyKeeps DEF TreeInit
  <2> QED
    BY <2>1 DEF TreeInit, TreeInv, FixupsPlaced, Cells
<1>2. TreeInv /\ [TreeNext]_treeVars => TreeInv'
  <2> SUFFICES ASSUME TreeInv, [TreeNext]_treeVars PROVE TreeInv'
    OBVIOUS
  <2>1. ASSUME NEW d \in Keys, insert(d) PROVE TreeInv'
    BY <2>1, InsertInv
  <2>2. ASSUME NEW d \in Keys, remove(d) PROVE TreeInv'
    BY <2>2, RemoveInv
  <2>3. CASE InsertFixupRound
    BY <2>3, InsertRoundInv
  <2>4. CASE InsertFixupEnd
    <3>1. pc = "insert_fixup" /\ ~RedParent
      BY <2>4 DEF InsertFixupEnd
    <3>2. tree.root \in {tree.root, node}
      OBVIOUS
    <3> QED
      BY <2>4, <3>2, EndInv DEF InsertFixupEnd
  <2>5. CASE RemoveFixupRound
    BY <2>5, RemoveRoundInv
  <2>6. CASE RemoveFixupEnd
    <3>1. FixupPlace(tree, present, node)
      BY <2>6 DEF RemoveFixupEnd, TreeInv, FixupsPlaced
    <3>2. node # tree.root => BlackRoot(tree)
      BY <3>1 DEF FixupPlace
    <3>3. node \in {tree.root, node}
      OBVIOUS
    <3> QED
      BY <2>6, <3>2, <3>3, EndInv DEF RemoveFixupEnd
  <2>7. CASE UNCHANGED treeVars
    <3>1. HasLaws(tree, present)' /\ FixupsPlaced'
      BY <2>7 DEF treeVars, TreeInv, FixupsPlaced, FixupPlace, RedParent, BlackRoot
    <3> QED
      BY <3>1, <2>7 DEF treeVars, TreeInv
  <2> QED
    BY <2>1, <2>2, <2>3, <2>4, <2>5, <2>6, <2>7 DEF TreeNext
<1> QED
  BY <1>1, <1>2, PTL DEF TreeSpec

\* The sizes are those of subtrees, so none is past the number of nodes
\* (os_tree_ini.hpp), and the sentinel stays black and empty.
THEOREM TreeTypes == TreeSpec => []TreeTypeOK
<1>1. TreeInv => TreeTypeOK
  <2> SUFFICES ASSUME TreeInv PROVE TreeTypeOK
    OBVIOUS
  <2>1. /\ HasLaws(tree, present) /\ node \in Cells
        /\ pc \in {"idle", "insert_fixup", "remove_fixup", "crashed"}
    BY DEF TreeInv
  <2>2. tree \in Trees /\ tree.color[NIL] = "BLACK" /\ present \subseteq Nodes
    BY <2>1, LawsGive
  <2>3. PICK sub : Forest(tree, sub) /\ LinksOK(tree) /\ Sized(tree, sub, present) /\ Maxed(tree, present)
    BY <2>1 DEF HasLaws, Whole, Shape
  <2>4. ASSUME NEW n \in Cells PROVE tree.size[n] \in 0..Cardinality(Nodes)
    <3>1. CASE n = NIL
      BY <3>1, <2>3, NodesAreFinite DEF Sized
    <3>2. CASE n # NIL
      <4>1. n \in Nodes
        BY <3>2 DEF Cells
      <4>2. Cardinality(sub[n]) \in 0..Cardinality(Nodes)
        BY <4>1, <2>3, InForest, NodesAreFinite
      <4>3. tree.size[n] = Cardinality(sub[n]) \/ tree.size[n] = 0
        BY <4>1, <2>3 DEF Sized
      <4> QED
        BY <4>2, <4>3, NodesAreFinite
    <3> QED
      BY <3>1, <3>2
  <2>5. tree.size \in [Cells -> 0..Cardinality(Nodes)]
    BY <2>2, <2>4 DEF Trees
  <2>6. tree.size[NIL] = 0 /\ tree.max_high[NIL] = 0
    BY <2>3 DEF Sized, Maxed
  <2> QED
    BY <2>1, <2>2, <2>5, <2>6 DEF TreeTypeOK, Trees
<1> QED
  BY <1>1, TreeInvariant, PTL

-----------------------------------------------------------------------------
(* The lists.                                                              *)

\* What a list of the nodes of S in order is.
Lists(order, S) ==
  /\ order \in Seq(Nodes) /\ {order[i] : i \in DOMAIN order} = S /\ Len(order) = Cardinality(S)
  /\ \A i, j \in 1..Len(order) : i <= j => Data[order[i]] <= Data[order[j]]

LEMMA JoinAround ==
  ASSUME NEW a \in Seq(Nodes), NEW b \in Seq(Nodes), NEW n \in Nodes, NEW c, c = a \o <<n>> \o b
  PROVE  /\ c \in Seq(Nodes) /\ Len(c) = Len(a) + 1 + Len(b)
         /\ \A i \in 1..Len(c) : c[i] = IF i <= Len(a) THEN a[i]
                                        ELSE IF i = Len(a) + 1 THEN n ELSE b[i - (Len(a) + 1)]
<1>1. PICK e : e = <<n>>
  OBVIOUS
<1>2. e \in Seq(Nodes) /\ Len(e) = 1 /\ e[1] = n
  BY <1>1
<1>3. PICK d : d = a \o e
  OBVIOUS
<1>9. e \in Seq(Nodes)
  BY <1>2
<1>10. d \in Seq(Nodes) /\ Len(d) = Len(a) + Len(e) /\ \A i \in 1..Len(a) + Len(e) : d[i] = IF i <= Len(a) THEN a[i] ELSE e[i - Len(a)]
  BY <1>3, <1>9, ConcatProperties
<1>4. d \in Seq(Nodes) /\ Len(d) = Len(a) + 1 /\ \A i \in 1..Len(d) : d[i] = IF i <= Len(a) THEN a[i] ELSE e[i - Len(a)]
  BY <1>2, <1>10
<1>5. c = d \o b
  BY <1>1, <1>3
<1>6. c \in Seq(Nodes) /\ Len(c) = Len(d) + Len(b) /\ \A i \in 1..Len(c) : c[i] = IF i <= Len(d) THEN d[i] ELSE b[i - Len(d)]
  BY <1>4, <1>5, ConcatProperties
<1>7. Len(a) \in Nat /\ Len(b) \in Nat
  OBVIOUS
<1>8. ASSUME NEW i \in 1..Len(c)
      PROVE  c[i] = IF i <= Len(a) THEN a[i]
                    ELSE IF i = Len(a) + 1 THEN n ELSE b[i - (Len(a) + 1)]
  <2>1. CASE i <= Len(a)
    <3>1. i \in 1..Len(d) /\ i <= Len(d)
      BY <2>1, <1>4, <1>7
    <3> QED
      BY <3>1, <2>1, <1>4, <1>6
  <2>2. CASE i = Len(a) + 1
    <3>1. i \in 1..Len(d) /\ i <= Len(d) /\ ~(i <= Len(a)) /\ i - Len(a) = 1
      BY <2>2, <1>4, <1>7
    <3>2. d[i] = e[i - Len(a)]
      BY <3>1, <1>4
    <3> QED
      BY <3>1, <3>2, <2>2, <1>2, <1>6
  <2>3. CASE i > Len(a) + 1
    BY <2>3, <1>4, <1>6, <1>7
  <2> QED
    BY <2>1, <2>2, <2>3, <1>7
<1> QED
  BY <1>4, <1>6, <1>8

LEMMA ListsJoin ==
  ASSUME NEW S \in SUBSET Nodes, NEW T \in SUBSET Nodes, NEW n \in Nodes, n \notin S, n \notin T, S \cap T = {},
         NEW a, Lists(a, S), NEW b, Lists(b, T), NEW c, c = a \o <<n>> \o b,
         \A m \in S : Data[m] <= Data[n], \A m \in T : Data[n] <= Data[m]
  PROVE  Lists(c, {n} \cup S \cup T)
<1>1. /\ a \in Seq(Nodes) /\ b \in Seq(Nodes) /\ Len(a) \in Nat /\ Len(b) \in Nat
      /\ DOMAIN a = 1..Len(a) /\ DOMAIN b = 1..Len(b)
  BY DEF Lists
<1>2. /\ c \in Seq(Nodes) /\ Len(c) = Len(a) + 1 + Len(b) /\ DOMAIN c = 1..Len(c)
      /\ \A i \in 1..Len(c) : c[i] = IF i <= Len(a) THEN a[i]
                                        ELSE IF i = Len(a) + 1 THEN n ELSE b[i - (Len(a) + 1)]
  BY <1>1, JoinAround
<1>3. PICK k : k = Len(a) + 1
  OBVIOUS
<1>4. /\ k \in Nat /\ k \in 1..Len(c) /\ c[k] = n
      /\ \A i \in 1..Len(c) : /\ i < k => i \in 1..Len(a) /\ c[i] = a[i]
                              /\ i > k => i - k \in 1..Len(b) /\ c[i] = b[i - k]
      /\ \A i \in 1..Len(a) : i \in 1..Len(c) /\ i < k
      /\ \A i \in 1..Len(b) : i + k \in 1..Len(c) /\ i + k > k /\ (i + k) - k = i
  <2>1. k \in Nat /\ k \in 1..Len(c)
    BY <1>1, <1>2, <1>3
  <2>2. c[k] = n
    BY <2>1, <1>1, <1>2, <1>3
  <2>3. ASSUME NEW i \in 1..Len(c)
        PROVE  /\ i < k => i \in 1..Len(a) /\ c[i] = a[i]
               /\ i > k => i - k \in 1..Len(b) /\ c[i] = b[i - k]
    BY <1>1, <1>2, <1>3
  <2>4. ASSUME NEW i \in 1..Len(a) PROVE i \in 1..Len(c) /\ i < k
    BY <1>1, <1>2, <1>3
  <2>5. ASSUME NEW i \in 1..Len(b) PROVE i + k \in 1..Len(c) /\ i + k > k /\ (i + k) - k = i
    BY <1>1, <1>2, <1>3
  <2> QED
    BY <2>1, <2>2, <2>3, <2>4, <2>5
<1>5. {a[i] : i \in 1..Len(a)} = S /\ {b[i] : i \in 1..Len(b)} = T /\ Len(a) = Cardinality(S) /\ Len(b) = Cardinality(T)
  BY <1>1 DEF Lists
<1>6. \A i \in 1..Len(c) : /\ i < k => c[i] \in S
                           /\ i > k => c[i] \in T
  <2>1. (\A i \in 1..Len(a) : a[i] \in S) /\ (\A i \in 1..Len(b) : b[i] \in T)
    BY <1>5
  <2> QED
    BY <2>1, <1>4
<1>7. {c[i] : i \in DOMAIN c} = {n} \cup S \cup T
  <2>1. ASSUME NEW i \in DOMAIN c PROVE c[i] \in {n} \cup S \cup T
    <3>1. i \in 1..Len(c) /\ (i < k \/ i = k \/ i > k)
      BY <1>2, <1>4
    <3> QED
      BY <3>1, <1>4, <1>6
  <2>2. ASSUME NEW m \in S PROVE \E i \in DOMAIN c : c[i] = m
    <3>1. PICK i \in 1..Len(a) : a[i] = m
      BY <1>5
    <3> QED
      BY <3>1, <1>2, <1>4
  <2>3. ASSUME NEW m \in T PROVE \E i \in DOMAIN c : c[i] = m
    <3>1. PICK i \in 1..Len(b) : b[i] = m
      BY <1>5
    <3>2. i + k \in 1..Len(c) /\ c[i + k] = m
      BY <3>1, <1>4
    <3> QED
      BY <3>2, <1>2
  <2>4. \E i \in DOMAIN c : c[i] = n
    BY <1>2, <1>4
  <2> QED
    BY <2>1, <2>2, <2>3, <2>4
<1>8. Len(c) = Cardinality({n} \cup S \cup T)
  <2>1. IsFiniteSet(S) /\ IsFiniteSet(T) /\ Cardinality(S) \in Nat /\ Cardinality(T) \in Nat
    BY NodesAreFinite
  <2>2. PICK U : U = S \cup T
    OBVIOUS
  <2>3. IsFiniteSet(U) /\ Cardinality(U) = Cardinality(S) + Cardinality(T)
    <3>1. Cardinality(S \cap T) = 0
      BY FS_EmptySet
    <3>2. IsFiniteSet(S \cup T) /\ Cardinality(S \cup T) = Cardinality(S) + Cardinality(T) - Cardinality(S \cap T)
      BY <2>1, FS_Union
    <3> QED
      BY <2>1, <2>2, <3>1, <3>2
  <2>4. Cardinality(U \cup {n}) = Cardinality(U) + 1
    BY <2>2, <2>3, FS_AddElement
  <2>5. {n} \cup S \cup T = U \cup {n}
    BY <2>2
  <2> QED
    <3>1. Len(c) = Len(a) + 1 + Len(b) /\ Len(a) = Cardinality(S) /\ Len(b) = Cardinality(T)
      BY <1>2, <1>5
    <3>2. n \notin U
      BY <2>2
    <3>3. Cardinality({n} \cup S \cup T) = Cardinality(S) + Cardinality(T) + 1
      BY <3>2, <2>3, <2>4, <2>5
    <3> QED
      BY <3>1, <3>3, <2>1
<1>9. ASSUME NEW i \in 1..Len(c), NEW j \in 1..Len(c), i <= j PROVE Data[c[i]] <= Data[c[j]]
  <2>1. Data \in [Nodes -> Nat]
    BY TreeAssumption
  <2>2. CASE j < k
    <3>1. i < k
      BY <2>2, <1>4, <1>9
    <3>2. i \in 1..Len(a) /\ j \in 1..Len(a) /\ c[i] = a[i] /\ c[j] = a[j]
      BY <3>1, <2>2, <1>4
    <3> QED
      BY <3>2, <1>9 DEF Lists
  <2>3. CASE i > k
    <3>1. j > k
      BY <2>3, <1>4, <1>9
    <3>2. i - k \in 1..Len(b) /\ j - k \in 1..Len(b) /\ c[i] = b[i - k] /\ c[j] = b[j - k] /\ i - k <= j - k
      BY <3>1, <2>3, <1>4, <1>9
    <3> QED
      BY <3>2 DEF Lists
  <2>4. CASE i <= k /\ k <= j
    <3>1. c[i] \in Nodes /\ c[j] \in Nodes
      BY <1>2
    <3>2. Data[c[i]] <= Data[n]
      <4>1. i < k \/ i = k
        BY <2>4, <1>4
      <4> QED
        BY <4>1, <2>1, <1>4, <1>6
    <3>3. Data[n] <= Data[c[j]]
      <4>1. j > k \/ j = k
        BY <2>4, <1>4
      <4> QED
        BY <4>1, <2>1, <1>4, <1>6
    <3> QED
      BY <3>1, <3>2, <3>3, <2>1
  <2> QED
    BY <2>2, <2>3, <2>4, <1>4
<1> QED
  BY <1>2, <1>7, <1>8, <1>9 DEF Lists

\* Of every subtree, the list is in order.
LEMMA ListRight ==
  ASSUME NEW t, NEW sub, LinksOK(t), Forest(t, sub), Sorted(t, sub),
         NEW f \in [Cells -> Seq(Nodes)], \A n \in Cells : f[n] = ListStep(t, f, n)
  PROVE  \A n \in Cells : Lists(f[n], sub[n])
<1>1. PICK A : A = {n \in Cells : Lists(f[n], sub[n])}
  OBVIOUS
<1>2. NIL \in Cells /\ NIL \notin Nodes /\ sub[NIL] = {} /\ (\A n \in Nodes : n \in Cells /\ n # NIL)
      /\ "left" \in Sides /\ "right" \in Sides
  BY NodesAreFinite DEF Cells, Forest, Sides
<1>3. NIL \in A
  <2>1. f[NIL] = <<>>
    BY <1>2 DEF ListStep
  <2>2. Len(<<>>) = 0 /\ DOMAIN <<>> = {} /\ Cardinality({}) = 0 /\ <<>> \in Seq(Nodes)
    BY FS_EmptySet
  <2>3. Lists(<<>>, {})
    BY <2>2 DEF Lists
  <2> QED
    BY <2>1, <2>3, <1>1, <1>2
<1>4. ASSUME NEW n \in Nodes, \A s \in Sides : t.child[s][n] \in A PROVE n \in A
  <2>1. PICK l : l = t.child["left"][n]
    OBVIOUS
  <2>2. PICK r : r = t.child["right"][n]
    OBVIOUS
  <2>3. Lists(f[l], sub[l]) /\ Lists(f[r], sub[r]) /\ l \in Cells /\ r \in Cells
    BY <2>1, <2>2, <1>1, <1>2, <1>4
  <2>4. f[n] = f[l] \o <<n>> \o f[r]
    BY <2>1, <2>2, <1>2 DEF ListStep
  <2>5. sub[n] = {n} \cup sub[l] \cup sub[r] /\ n \notin sub[l] /\ n \notin sub[r] /\ sub[l] \cap sub[r] = {}
        /\ sub[l] \in SUBSET Nodes /\ sub[r] \in SUBSET Nodes
    BY <2>1, <2>2, <2>3, <1>2 DEF Forest
  <2>6. (\A m \in sub[l] : Data[m] <= Data[n]) /\ (\A m \in sub[r] : Data[n] <= Data[m])
    BY <2>1, <2>2, <1>2 DEF Sorted, Le
  <2>7. Lists(f[n], {n} \cup sub[l] \cup sub[r])
    BY <2>3, <2>4, <2>5, <2>6, ListsJoin
  <2> QED
    BY <2>5, <2>7, <1>1, <1>2
<1>5. Cells \subseteq A
  BY <1>3, <1>4, Downward
<1> QED
  BY <1>1, <1>5

LEMMA OrderIs ==
  ASSUME NEW t, NEW here, HasLaws(t, here)
  PROVE  Lists(in_order_core(t), here)
<1>1. PICK sub : LinksOK(t) /\ Forest(t, sub) /\ Sorted(t, sub) /\ Rooted(t, sub, here)
  BY DEF HasLaws, Whole, Shape
<1>2. PICK f \in [Cells -> Seq(Nodes)] : /\ \A n \in Cells : f[n] = ListStep(t, f, n)
                                         /\ in_order_core(t) = f[t.root]
  BY <1>1, ListIs
<1>3. \A n \in Cells : Lists(f[n], sub[n])
  BY <1>1, <1>2, ListRight
<1>4. t.root \in Cells /\ sub[t.root] = here
  BY <1>1 DEF LinksOK, Trees, Rooted
<1> QED
  BY <1>2, <1>3, <1>4

\* No rotation and no transplant (rb_tree_ini.hpp:119-138, 292-348) loses a subtree or its
\* place in the order, for any number of nodes, operations and rounds of a fixup.
THEOREM TreeContents == TreeSpec => []ContentsKept
<1>1. TreeInv => ContentsKept
  <2> SUFFICES ASSUME TreeInv PROVE ContentsKept
    OBVIOUS
  <2>1. HasLaws(tree, present)
    BY DEF TreeInv
  <2>2. PICK order : order = in_order_core(tree)
    OBVIOUS
  <2>3. Lists(order, present)
    BY <2>1, <2>2, OrderIs
  <2>4. \A i \in 1..Len(order) - 1 : Data[order[i]] <= Data[order[i + 1]]
    <3>1. Len(order) \in Nat
      BY <2>3 DEF Lists
    <3>2. \A i \in 1..Len(order) - 1 : i \in 1..Len(order) /\ i + 1 \in 1..Len(order) /\ i <= i + 1
      BY <3>1
    <3> QED
      BY <3>2, <2>3 DEF Lists
  <2>5. \A n \in present, s \in Sides :
            Child(tree, n, s) # NIL => tree.parent[Child(tree, n, s)] = n
    BY <2>1, LawsGive DEF Child
  <2>6. {order[i] : i \in DOMAIN order} = present /\ Len(order) = Cardinality(present)
    BY <2>3 DEF Lists
  <2> QED
    BY <2>2, <2>4, <2>5, <2>6 DEF ContentsKept
<1> QED
  BY <1>1, TreeInvariant, PTL

-----------------------------------------------------------------------------
(* Ranks.                                                                  *)

\* The k-th of the list below a node, for a node of the tree or the sentinel.
RanksOf(f, order, n) ==
  \A i \in 0..Cardinality(Nodes) + 1 : f[n][i] = IF i \in 1..Len(order[n]) THEN order[n][i] ELSE Null

LEMMA RanksFound ==
  ASSUME NEW t, NEW sub, NEW here, LinksOK(t), Forest(t, sub), Rooted(t, sub, here), Sized(t, sub, here),
         NEW order \in [Cells -> Seq(Nodes)], \A n \in Cells : order[n] = ListStep(t, order, n),
         \A n \in Cells : Len(order[n]) = Cardinality(sub[n]),
         NEW f \in [Cells -> [0..Cardinality(Nodes) + 1 -> Cells \cup {Null}]], \A n \in Cells : f[n] = RankStep(t, f, n)
  PROVE  \A n \in here \cup {NIL} : RanksOf(f, order, n)
<1>1. PICK A : A = {n \in Cells : n \in here \cup {NIL} => RanksOf(f, order, n)}
  OBVIOUS
<1>2. PICK N : N = Cardinality(Nodes) /\ N \in Nat
  BY NodesAreFinite
<1>3. NIL \in Cells /\ NIL \notin Nodes /\ (\A n \in Nodes : n \in Cells /\ n # NIL) /\ here \in SUBSET Nodes
      /\ sub[NIL] = {} /\ t.size[NIL] = 0
      /\ "left" \in Sides /\ "right" \in Sides
  BY NodesAreFinite, InTree DEF Cells, Forest, Sides, Sized
<1>4. NIL \in A
  <2>1. order[NIL] = <<>>
    BY <1>3 DEF ListStep
  <2>2. \A i \in 0..N + 1 : f[NIL][i] = Null
    <3>1. f[NIL] = RankStep(t, f, NIL)
      BY <1>3
    <3>2. \A i \in 0..N + 1 : RankStep(t, f, NIL)[i] = Null
      BY <1>2 DEF RankStep
    <3> QED
      BY <3>1, <3>2
  <2>3. \A i \in 0..N + 1 : i \notin 1..Len(order[NIL])
    BY <2>1
  <2> QED
    BY <2>2, <2>3, <1>1, <1>2, <1>3 DEF RanksOf
<1>5. ASSUME NEW n \in Nodes, \A s \in Sides : t.child[s][n] \in A PROVE n \in A
  <2>1. CASE n \notin here
    BY <2>1, <1>1, <1>3
  <2>2. CASE n \in here
    <3>1. PICK l : l = t.child["left"][n]
      OBVIOUS
    <3>2. PICK r : r = t.child["right"][n]
      OBVIOUS
    <3>3. l \in here \cup {NIL} /\ r \in here \cup {NIL} /\ l \in Cells /\ r \in Cells
      <4>1. l \in here \cup {NIL} /\ r \in here \cup {NIL}
        BY <2>2, <3>1, <3>2, <1>3, InTree
      <4> QED
        BY <4>1, <1>3
    <3>4. RanksOf(f, order, l) /\ RanksOf(f, order, r)
      BY <3>1, <3>2, <3>3, <1>1, <1>3, <1>5
    <3>5. PICK a : a = order[l]
      OBVIOUS
    <3>6. PICK b : b = order[r]
      OBVIOUS
    <3>7. PICK c : c = order[n]
      OBVIOUS
    <3>8. a \in Seq(Nodes) /\ b \in Seq(Nodes) /\ c = a \o <<n>> \o b
      BY <3>1, <3>2, <3>3, <3>5, <3>6, <3>7, <1>3 DEF ListStep
    <3>9. /\ Len(c) = Len(a) + 1 + Len(b) /\ Len(a) \in Nat /\ Len(b) \in Nat
          /\ \A i \in 1..Len(c) : c[i] = IF i <= Len(a) THEN a[i]
                                        ELSE IF i = Len(a) + 1 THEN n ELSE b[i - (Len(a) + 1)]
      BY <3>8, JoinAround
    <3>10. t.size[l] = Len(a)
      <4>1. CASE l = NIL
        BY <4>1, <3>3, <3>5, <1>3, FS_EmptySet
      <4>2. CASE l # NIL
        BY <4>2, <3>3, <3>5, <1>3 DEF Sized
      <4> QED
        BY <4>1, <4>2
    <3>11. \A i \in 0..N + 1 :
             f[n][i] = IF i = Len(a) + 1 THEN n ELSE IF i < Len(a) + 1 THEN f[l][i] ELSE f[r][i - (Len(a) + 1)]
      <4>1. f[n] = RankStep(t, f, n) /\ n # NIL
        BY <1>3
      <4>2. \A i \in 0..N + 1 :
              RankStep(t, f, n)[i] = IF i = t.size[l] + 1 THEN n
                                     ELSE IF i < t.size[l] + 1 THEN f[l][i] ELSE f[r][i - (t.size[l] + 1)]
        BY <4>1, <3>1, <3>2, <1>2 DEF RankStep
      <4> QED
        BY <4>1, <4>2, <3>10
    <3>12. ASSUME NEW i \in 0..N + 1 PROVE f[n][i] = IF i \in 1..Len(c) THEN c[i] ELSE Null
      <4>1. CASE i = Len(a) + 1
        <5>1. i \in 1..Len(c) /\ ~(i <= Len(a))
          BY <4>1, <3>9
        <5> QED
          BY <5>1, <4>1, <3>9, <3>11
      <4>2. CASE i < Len(a) + 1
        <5>1. f[n][i] = f[l][i] /\ f[l][i] = IF i \in 1..Len(a) THEN a[i] ELSE Null
          BY <4>2, <3>4, <3>5, <3>9, <3>11, <1>2 DEF RanksOf
        <5>2. (i \in 1..Len(c) <=> i \in 1..Len(a)) /\ i <= Len(a)
          BY <4>2, <3>9
        <5>3. i \in 1..Len(c) => c[i] = a[i]
          BY <5>2, <3>9
        <5> QED
          BY <5>1, <5>2, <5>3
      <4>3. CASE i > Len(a) + 1
        <5>5. Len(a) \in Nat /\ N \in Nat /\ i > Len(a) + 1 /\ i \in 0..N + 1
          BY <4>3, <3>9, <1>2
        <5>6. i - (Len(a) + 1) \in 0..N + 1
          BY <5>5
        <5>1. PICK j \in 0..N + 1 : j = i - (Len(a) + 1)
          BY <5>6
        <5>2. f[n][i] = f[r][j]
          BY <5>1, <4>3, <3>9, <3>11
        <5>3. f[r][j] = IF j \in 1..Len(b) THEN b[j] ELSE Null
          BY <3>4, <3>6, <1>2 DEF RanksOf
        <5>4. (i \in 1..Len(c) <=> j \in 1..Len(b)) /\ ~(i <= Len(a)) /\ i # Len(a) + 1
          BY <5>1, <4>3, <3>9
        <5> QED
          BY <5>1, <5>2, <5>3, <5>4, <3>9
      <4> QED
        BY <4>1, <4>2, <4>3, <3>9
    <3>13. RanksOf(f, order, n)
      BY <3>7, <3>12, <1>2 DEF RanksOf
    <3> QED
      BY <3>13, <1>1, <1>3
  <2> QED
    BY <2>1, <2>2
<1>6. Cells \subseteq A
  BY <1>4, <1>5, Downward
<1> QED
  BY <1>1, <1>3, <1>6

LEMMA RankOf ==
  ASSUME NEW t, NEW here, HasLaws(t, here), NEW order, order = in_order_core(t),
         NEW k \in 0..Len(order) + 1
  PROVE  search_k(t, k) = IF k \in DOMAIN order THEN order[k] ELSE Null
<1>1. PICK sub : /\ LinksOK(t) /\ Forest(t, sub) /\ Sorted(t, sub) /\ Rooted(t, sub, here)
                 /\ Sized(t, sub, here)
  BY DEF HasLaws, Whole, Shape
<1>2. PICK lists \in [Cells -> Seq(Nodes)] : /\ \A n \in Cells : lists[n] = ListStep(t, lists, n)
                                             /\ in_order_core(t) = lists[t.root]
  BY <1>1, ListIs
<1>3. \A n \in Cells : Lists(lists[n], sub[n])
  BY <1>1, <1>2, ListRight
<1>4. \A n \in Cells : Len(lists[n]) = Cardinality(sub[n])
  BY <1>3 DEF Lists
<1>5. t.size \in [Cells -> Nat]
  <2>1. \A n \in Cells : t.size[n] \in Nat
    <3>1. ASSUME NEW n \in Nodes PROVE t.size[n] \in Nat
      <4>1. Cardinality(sub[n]) \in Nat
        BY <1>1, InForest, NodesAreFinite
      <4> QED
        BY <4>1, <1>1 DEF Sized
    <3> QED
      BY <3>1, <1>1 DEF Cells, Sized
  <2> QED
    BY <2>1, <1>1 DEF LinksOK, Trees
<1>6. PICK f \in [Cells -> [0..Cardinality(Nodes) + 1 -> Cells \cup {Null}]] :
           /\ \A n \in Cells : f[n] = RankStep(t, f, n)
           /\ \A i : search_k(t, i) = f[t.root][i]
  BY <1>1, <1>5, RankIs
<1>7. t.root \in here \cup {NIL}
  BY <1>1, InTree
<1>8. RanksOf(f, lists, t.root)
  <2>1. \A n \in here \cup {NIL} : RanksOf(f, lists, n)
    BY <1>1, <1>2, <1>4, <1>6, RanksFound
  <2> QED
    BY <2>1, <1>7
<1>9. order = lists[t.root] /\ order \in Seq(Nodes) /\ Len(order) \in 0..Cardinality(Nodes) /\ Cardinality(Nodes) \in Nat
  <2>1. order = lists[t.root] /\ t.root \in Cells
    BY <1>1, <1>2 DEF LinksOK, Trees
  <2>2. sub[t.root] \in SUBSET Nodes
    BY <2>1, <1>1 DEF Forest
  <2>3. Cardinality(sub[t.root]) \in 0..Cardinality(Nodes)
    BY <2>2, NodesAreFinite
  <2> QED
    BY <2>1, <2>3, <1>4, NodesAreFinite
<1>10. k \in 0..Cardinality(Nodes) + 1 /\ DOMAIN order = 1..Len(order)
  BY <1>9
<1> QED
  BY <1>6, <1>8, <1>9, <1>10 DEF RanksOf

\* search_k (os_tree_ini.hpp:428-448) is right whatever insertions, removals and
\* rotations have made of the sizes.
THEOREM TreeRanks == TreeSpec => []RanksRight
<1>1. TreeInv => RanksRight
  BY RankOf DEF TreeInv, RanksRight
<1> QED
  BY <1>1, TreeInvariant, PTL

-----------------------------------------------------------------------------
(* Intervals.                                                              *)

\* The maximum of a node is the greatest right end below it.
Greatest(t, S, k) ==
  /\ \A m \in S : High[m] <= t.max_high[k]
  /\ k # NIL => \E m \in S : High[m] = t.max_high[k]

LEMMA GreatestHigh ==
  ASSUME NEW t, NEW sub, NEW here, LinksOK(t), Forest(t, sub), Rooted(t, sub, here), Maxed(t, here)
  PROVE  \A k \in here \cup {NIL} : Greatest(t, sub[k], k)
<1>1. PICK A : A = {n \in Cells : n \in here \cup {NIL} => Greatest(t, sub[n], n)}
  OBVIOUS
<1>2. NIL \in Cells /\ NIL \notin Nodes /\ (\A n \in Nodes : n \in Cells /\ n # NIL) /\ here \in SUBSET Nodes
      /\ sub[NIL] = {} /\ t.max_high[NIL] = 0 /\ t.max_high \in [Cells -> Nat] /\ High \in [Nodes -> Nat]
      /\ "left" \in Sides /\ "right" \in Sides /\ Other("left") = "right"
  <2>1. t.max_high \in [Cells -> Nat]
    BY DEF LinksOK, Trees
  <2>2. here \in SUBSET Nodes /\ sub[NIL] = {} /\ t.max_high[NIL] = 0
    BY DEF Rooted, Forest, Maxed
  <2> QED
    BY <2>1, <2>2, NodesAreFinite, TreeAssumption DEF Cells, Sides, Other
<1>3. NIL \in A
  BY <1>1, <1>2 DEF Greatest
<1>4. ASSUME NEW n \in Nodes, \A s \in Sides : t.child[s][n] \in A PROVE n \in A
  <2>1. CASE n \notin here
    BY <2>1, <1>1, <1>2
  <2>2. CASE n \in here
    <3>1. PICK l : l = t.child["left"][n]
      OBVIOUS
    <3>2. PICK r : r = t.child["right"][n]
      OBVIOUS
    <3>3. l \in here \cup {NIL} /\ r \in here \cup {NIL} /\ l \in Cells /\ r \in Cells
      <4>1. l \in here \cup {NIL} /\ r \in here \cup {NIL}
        BY <2>2, <3>1, <3>2, <1>2, InTree
      <4> QED
        BY <4>1, <1>2
    <3>4. Greatest(t, sub[l], l) /\ Greatest(t, sub[r], r)
      BY <3>1, <3>2, <3>3, <1>1, <1>2, <1>4
    <3>5. sub[n] = {n} \cup sub[l] \cup sub[r] /\ sub[l] \in SUBSET Nodes /\ sub[r] \in SUBSET Nodes
      BY <3>1, <3>2, <3>3, <1>2 DEF Forest
    <3>6. PICK a \in Nat : a = t.max_high[l]
      BY <3>3, <1>2
    <3>7. PICK b \in Nat : b = t.max_high[r]
      BY <3>3, <1>2
    <3>8. PICK h \in Nat : h = High[n]
      BY <1>2
    <3>9. PICK k \in Nat : k = t.max_high[n]
      BY <1>2
    <3>10. k = Max3(a, b, h)
      <4>1. k = MaxHigh(t.max_high, t.child, n)
        BY <2>2, <3>9 DEF Maxed
      <4> QED
        BY <4>1, <3>1, <3>2, <3>6, <3>7, <3>8, MaxHighIs
    <3>11. a <= k /\ b <= k /\ h <= k /\ k \in {a, b, h}
      BY <3>10, Max3Is
    <3>12. ASSUME NEW m \in sub[n] PROVE High[m] <= k
      <4>1. CASE m = n
        BY <4>1, <3>8, <3>11
      <4>2. CASE m \in sub[l]
        <5>1. High[m] <= a /\ High[m] \in Nat
          BY <4>2, <3>4, <3>5, <3>6, <1>2 DEF Greatest
        <5> QED
          BY <5>1, <3>11
      <4>3. CASE m \in sub[r]
        <5>1. High[m] <= b /\ High[m] \in Nat
          BY <4>3, <3>4, <3>5, <3>7, <1>2 DEF Greatest
        <5> QED
          BY <5>1, <3>11
      <4> QED
        BY <4>1, <4>2, <4>3, <3>5
    <3>13. \E m \in sub[n] : High[m] = k
      <4>1. CASE k = h
        BY <4>1, <3>5, <3>8
      <4>2. CASE k = a /\ l # NIL
        BY <4>2, <3>4, <3>5, <3>6 DEF Greatest
      <4>3. CASE k = b /\ r # NIL
        BY <4>3, <3>4, <3>5, <3>7 DEF Greatest
      <4>4. CASE (k = a /\ l = NIL) \/ (k = b /\ r = NIL)
        <5>1. k = 0
          BY <4>4, <3>6, <3>7, <1>2
        <5> QED
          BY <5>1, <4>1, <3>11
      <4> QED
        BY <4>1, <4>2, <4>3, <4>4, <3>11
    <3>14. Greatest(t, sub[n], n)
      BY <3>9, <3>12, <3>13 DEF Greatest
    <3> QED
      BY <3>14, <1>1, <1>2
  <2> QED
    BY <2>1, <2>2
<1>5. Cells \subseteq A
  BY <1>3, <1>4, Downward
<1> QED
  BY <1>1, <1>2, <1>5

Meets(low, high, S) == {n \in S : is_overlap(low, high, Data[n], High[n])}

\* What int_search finds below a node.
Found(low, high, S, n) ==
  IF Meets(low, high, S) = {} THEN n = NIL ELSE n \in Meets(low, high, S)

LEMMA OverlapFinds ==
  ASSUME NEW t, NEW here, HasLaws(t, here), NEW low \in Nat, NEW high \in Nat, low <= high
  PROVE  Found(low, high, here, int_search(t, low, high))
<1>1. PICK sub : /\ LinksOK(t) /\ Forest(t, sub) /\ Sorted(t, sub) /\ Rooted(t, sub, here)
                 /\ Maxed(t, here)
  BY DEF HasLaws, Whole, Shape
<1>2. PICK f \in [Cells -> Cells] : /\ \A n \in Cells : f[n] = OverlapStep(t, low, high, f, n)
                                    /\ int_search(t, low, high) = f[t.root]
  BY <1>1, OverlapIs
<1>3. \A k \in here \cup {NIL} : Greatest(t, sub[k], k)
  BY <1>1, GreatestHigh
<1>4. PICK A : A = {n \in Cells : n \in here \cup {NIL} => Found(low, high, sub[n], f[n])}
  OBVIOUS
<1>5. NIL \in Cells /\ NIL \notin Nodes /\ (\A n \in Nodes : n \in Cells /\ n # NIL) /\ here \in SUBSET Nodes
      /\ sub[NIL] = {} /\ t.max_high \in [Cells -> Nat] /\ High \in [Nodes -> Nat] /\ Data \in [Nodes -> Nat]
      /\ "left" \in Sides /\ "right" \in Sides
  <2>1. t.max_high \in [Cells -> Nat]
    BY <1>1 DEF LinksOK, Trees
  <2>2. here \in SUBSET Nodes /\ sub[NIL] = {}
    BY <1>1 DEF Rooted, Forest
  <2> QED
    BY <2>1, <2>2, NodesAreFinite, TreeAssumption DEF Cells, Sides
<1>6. NIL \in A
  <2>1. f[NIL] = NIL
    BY <1>2, <1>5 DEF OverlapStep
  <2> QED
    BY <2>1, <1>4, <1>5 DEF Found, Meets
<1>7. ASSUME NEW n \in Nodes, \A s \in Sides : t.child[s][n] \in A PROVE n \in A
  <2>1. CASE n \notin here
    BY <2>1, <1>4, <1>5
  <2>2. CASE n \in here
    <3>1. PICK l : l = t.child["left"][n]
      OBVIOUS
    <3>2. PICK r : r = t.child["right"][n]
      OBVIOUS
    <3>3. l \in here \cup {NIL} /\ r \in here \cup {NIL} /\ l \in Cells /\ r \in Cells
      <4>1. l \in here \cup {NIL} /\ r \in here \cup {NIL}
        BY <1>1, <2>2, <3>1, <3>2, <1>5, InTree
      <4> QED
        BY <4>1, <1>5
    <3>4. Found(low, high, sub[l], f[l]) /\ Found(low, high, sub[r], f[r])
      BY <3>1, <3>2, <3>3, <1>4, <1>5, <1>7
    <3>5. sub[n] = {n} \cup sub[l] \cup sub[r] /\ sub[l] \in SUBSET Nodes /\ sub[r] \in SUBSET Nodes
      BY <1>1, <3>1, <3>2, <3>3, <1>5 DEF Forest
    <3>6. f[n] = IF is_overlap(low, high, Data[n], High[n]) THEN n
                 ELSE IF l # NIL /\ t.max_high[l] >= low THEN f[l] ELSE f[r]
      BY <3>1, <3>2, <1>2, <1>5 DEF OverlapStep
    <3>7. Greatest(t, sub[l], l)
      BY <3>3, <1>3
    <3>8. CASE is_overlap(low, high, Data[n], High[n])
      <4>1. f[n] = n /\ n \in Meets(low, high, sub[n])
        BY <3>5, <3>6, <3>8 DEF Meets
      <4> QED
        BY <4>1, <1>4, <1>5 DEF Found
    <3>9. CASE ~is_overlap(low, high, Data[n], High[n]) /\ l # NIL /\ t.max_high[l] >= low
      <4>1. f[n] = f[l]
        BY <3>6, <3>9
      <4>2. Meets(low, high, sub[l]) = {} => Meets(low, high, sub[r]) = {}
        <5> SUFFICES ASSUME Meets(low, high, sub[l]) = {}, NEW k \in sub[r]
                     PROVE  ~is_overlap(low, high, Data[k], High[k])
          BY DEF Meets
        <5>1. PICK m \in sub[l] : High[m] = t.max_high[l]
          BY <3>7, <3>9 DEF Greatest
        <5>2. ~is_overlap(low, high, Data[m], High[m])
          BY <5>1 DEF Meets
        <5>3. m \in Nodes /\ k \in Nodes /\ Data[m] \in Nat /\ Data[k] \in Nat /\ Data[n] \in Nat
              /\ High[m] \in Nat /\ t.max_high[l] \in Nat
          BY <5>1, <3>3, <3>5, <1>5
        <5>4. ~(High[m] < low)
          BY <5>1, <5>3, <3>9
        <5>5. high < Data[m]
          BY <5>2, <5>4 DEF is_overlap
        <5>6. Data[m] <= Data[n] /\ Data[n] <= Data[k]
          BY <5>1, <1>1, <3>1, <3>2, <1>5 DEF Sorted, Le
        <5>7. high < Data[k]
          BY <5>3, <5>5, <5>6
        <5> QED
          BY <5>7 DEF is_overlap
      <4>3. Found(low, high, sub[n], f[n])
        BY <4>1, <4>2, <3>4, <3>5, <3>9 DEF Found, Meets
      <4> QED
        BY <4>3, <1>4, <1>5
    <3>10. CASE ~is_overlap(low, high, Data[n], High[n]) /\ ~(l # NIL /\ t.max_high[l] >= low)
      <4>1. f[n] = f[r]
        BY <3>6, <3>10
      <4>2. Meets(low, high, sub[l]) = {}
        <5> SUFFICES ASSUME NEW m \in sub[l] PROVE ~is_overlap(low, high, Data[m], High[m])
          BY DEF Meets
        <5>1. l # NIL
          BY <1>5
        <5>2. High[m] <= t.max_high[l] /\ High[m] \in Nat /\ t.max_high[l] \in Nat
          BY <3>3, <3>5, <3>7, <1>5 DEF Greatest
        <5>3. High[m] < low
          BY <5>1, <5>2, <3>10
        <5> QED
          BY <5>3 DEF is_overlap
      <4>3. Found(low, high, sub[n], f[n])
        BY <4>1, <4>2, <3>4, <3>5, <3>10 DEF Found, Meets
      <4> QED
        BY <4>3, <1>4, <1>5
    <3> QED
      BY <3>8, <3>9, <3>10
  <2> QED
    BY <2>1, <2>2
<1>8. Cells \subseteq A
  BY <1>1, <1>6, <1>7, Downward
<1>9. t.root \in here \cup {NIL} /\ t.root \in Cells /\ sub[t.root] = here
  BY <1>1, InTree DEF LinksOK, Trees, Rooted
<1>10. Found(low, high, here, f[t.root])
  BY <1>4, <1>8, <1>9
<1> QED
  BY <1>2, <1>10

\* search_node goes by the order, int_search (int_tree_ini.hpp:434-460) by the maxima
\* besides: neither misses what is there.
THEOREM TreeSearches == TreeSpec => []SearchesRight
<1>1. TreeInv => SearchesRight
  <2> SUFFICES ASSUME TreeInv PROVE SearchesRight
    OBVIOUS
  <2>1. HasLaws(tree, present)
    BY DEF TreeInv
  <2>2. \A d \in Keys : (search_node(tree, d) # NIL) <=> (\E n \in present : Data[n] = d)
    BY <2>1, KeysAreNumbers, SearchFinds
  <2>3. ASSUME NEW low \in Keys, NEW high \in {High[n] : n \in Nodes}, low <= high
        PROVE  Found(low, high, present, int_search(tree, low, high))
    <3>1. low \in Nat /\ high \in Nat
      BY KeysAreNumbers, TreeAssumption
    <3> QED
      BY <3>1, <2>1, <2>3, OverlapFinds
  <2> QED
    BY <2>2, <2>3 DEF SearchesRight, Found, Meets
<1> QED
  BY <1>1, TreeInvariant, PTL

-----------------------------------------------------------------------------
(* The loop of in_order.                                                   *)

Walks == [stack : Seq(Nodes), down : BOOLEAN, printed : Seq(Nodes)]

LEMMA PopIs ==
  ASSUME NEW stack \in Seq(Nodes), stack # <<>>
  PROVE  /\ Len(stack) \in Nat \ {0} /\ stack[Len(stack)] \in Nodes
         /\ Pop(stack) \in Seq(Nodes) /\ Len(Pop(stack)) = Len(stack) - 1
         /\ \A i \in 1..Len(stack) - 1 : Pop(stack)[i] = stack[i]
<1>1. Len(stack) \in Nat \ {0}
  BY EmptySeq
<1>2. stack[Len(stack)] \in Nodes
  BY <1>1
<1>3. PICK k : k = Len(stack) - 1
  OBVIOUS
<1>4. /\ SubSeq(stack, 1, k) \in Seq(Nodes) /\ Len(SubSeq(stack, 1, k)) = k
      /\ \A i \in 1..k : SubSeq(stack, 1, k)[i] = stack[i]
  BY <1>1, <1>3
<1> QED
  BY <1>1, <1>2, <1>3, <1>4 DEF Pop

LEMMA PushIs ==
  ASSUME NEW stack \in Seq(Nodes), NEW n \in Cells
  PROVE  /\ Push(stack, n) \in Seq(Nodes)
         /\ n = NIL => Push(stack, n) = stack
         /\ n # NIL => /\ Len(Push(stack, n)) = Len(stack) + 1 /\ Push(stack, n)[Len(stack) + 1] = n
                       /\ \A i \in 1..Len(stack) : Push(stack, n)[i] = stack[i]
<1>1. CASE n = NIL
  BY <1>1 DEF Push
<1>2. CASE n # NIL
  <2>1. n \in Nodes /\ Push(stack, n) = Append(stack, n)
    BY <1>2 DEF Push, Cells
  <2> QED
    BY <2>1, <1>2
<1> QED
  BY <1>1, <1>2

\* One round, by its cases.
LEMMA WalkStep ==
  ASSUME NEW t, NEW sub, LinksOK(t), Forest(t, sub), NEW a \in Walks, NEW b, b = InOrderStep(t, a)
  PROVE  /\ b \in Walks
         /\ a.stack = <<>> => b = a
         /\ a.stack # <<>> =>
              \E top \in Nodes, left \in Cells, right \in Cells :
                /\ top = a.stack[Len(a.stack)]
                /\ left = t.child["left"][top] /\ right = t.child["right"][top]
                /\ a.down => /\ b.stack = Push(a.stack, left) /\ b.down = (left # NIL)
                             /\ b.printed = a.printed
                /\ ~a.down => /\ b.stack = Push(Pop(a.stack), right) /\ b.down = (right # NIL)
                              /\ b.printed = Append(a.printed, top)
<1>1. a.stack \in Seq(Nodes) /\ a.down \in BOOLEAN /\ a.printed \in Seq(Nodes)
  BY DEF Walks
<1>2. CASE a.stack = <<>>
  BY <1>2 DEF InOrderStep
<1>3. CASE a.stack # <<>>
  <2>1. PICK top \in Nodes : top = a.stack[Len(a.stack)]
    BY <1>1, <1>3, PopIs
  <2>2. PICK left \in Cells : left = t.child["left"][top]
    BY InForest DEF Sides
  <2>3. PICK right \in Cells : right = t.child["right"][top]
    BY InForest DEF Sides
  <2>4. CASE a.down
    <3>1. b = [a EXCEPT !.stack = Push(@, left), !.down = left # NIL]
      BY <1>3, <2>1, <2>2, <2>4 DEF InOrderStep, Child
    <3>2. Push(a.stack, left) \in Seq(Nodes)
      BY <1>1, PushIs
    <3>3. b.stack = Push(a.stack, left) /\ b.down = (left # NIL) /\ b.printed = a.printed /\ b \in Walks
      BY <3>1, <3>2, <1>1 DEF Walks
    <3> QED
      BY <3>3, <1>3, <2>1, <2>2, <2>3, <2>4
  <2>5. CASE ~a.down
    <3>1. b = [stack |-> Push(Pop(a.stack), right), down |-> right # NIL, printed |-> Append(a.printed, top)]
      BY <1>3, <2>1, <2>3, <2>5 DEF InOrderStep, Child
    <3>2. Pop(a.stack) \in Seq(Nodes)
      BY <1>1, <1>3, PopIs
    <3>3. Push(Pop(a.stack), right) \in Seq(Nodes)
      BY <3>2, PushIs
    <3>4. Append(a.printed, top) \in Seq(Nodes)
      BY <1>1
    <3>5. b.stack = Push(Pop(a.stack), right) /\ b.down = (right # NIL) /\ b.printed = Append(a.printed, top) /\ b \in Walks
      BY <3>1, <3>3, <3>4 DEF Walks
    <3> QED
      BY <3>5, <1>3, <2>1, <2>2, <2>3, <2>5
  <2> QED
    BY <2>4, <2>5, <1>1
<1> QED
  BY <1>2, <1>3

WalkStart(t) == [stack |-> Push(<<>>, t.root), down |-> TRUE, printed |-> <<>>]
WalkRound(t, f, k) == IF k = 0 THEN WalkStart(t) ELSE InOrderStep(t, f[k - 1])

LEMMA WalkDef ==
  ASSUME NEW t
  PROVE  in_order(t) = (CHOOSE f : f = [k \in 0..3 * Cardinality(Nodes) |-> WalkRound(t, f, k)])
                         [3 * Cardinality(Nodes)].printed
BY DEF in_order, WalkRound, WalkStart

LEMMA WalkIs ==
  ASSUME NEW t, NEW sub, LinksOK(t), Forest(t, sub), NEW N \in Nat, N = 3 * Cardinality(Nodes)
  PROVE  \E f \in [0..N -> Walks] : /\ f[0] = WalkStart(t)
                                    /\ \A k \in 0..N - 1 : f[k + 1] = InOrderStep(t, f[k])
                                    /\ in_order(t) = f[N].printed
<1> DEFINE S == 0..N
           P(f) == f = [k \in S |-> WalkRound(t, f, k)]
           G == [f \in [S -> Walks] |-> [k \in S |-> WalkRound(t, f, k)]]
           rank == [k \in S |-> k]
           f == CHOOSE g : P(g)
<1>1. WalkStart(t) \in Walks
  <2>1. <<>> \in Seq(Nodes) /\ t.root \in Cells
    BY DEF LinksOK, Trees
  <2>2. Push(<<>>, t.root) \in Seq(Nodes)
    BY <2>1, PushIs
  <2> QED
    BY <2>1, <2>2 DEF WalkStart, Walks
<1>2. \A g \in [S -> Walks] : \A k \in S : WalkRound(t, g, k) \in Walks
  <2>1. ASSUME NEW g \in [S -> Walks], NEW k \in S PROVE WalkRound(t, g, k) \in Walks
    <3>1. CASE k = 0
      BY <3>1, <1>1 DEF WalkRound
    <3>2. CASE k # 0
      <4>1. k - 1 \in S
        BY <3>2
      <4>2. g[k - 1] \in Walks
        BY <4>1
      <4>3. InOrderStep(t, g[k - 1]) \in Walks
        BY <4>2, WalkStep
      <4> QED
        BY <4>3, <3>2 DEF WalkRound
    <3> QED
      BY <3>1, <3>2
  <2> QED
    BY <2>1
<1>3. G \in [[S -> Walks] -> [S -> Walks]]
  <2> HIDE DEF S
  <2> QED
    BY <1>2
<1>4. rank \in [S -> 0..N]
  OBVIOUS
<1>5. Ranked(G, S, Walks, rank)
  <2>1. ASSUME NEW g \in [S -> Walks], NEW h \in [S -> Walks], NEW k \in S,
               \A j \in S : rank[j] < rank[k] => g[j] = h[j]
        PROVE  G[g][k] = G[h][k]
    <3>1. G[g][k] = WalkRound(t, g, k) /\ G[h][k] = WalkRound(t, h, k)
      BY <2>1
    <3>2. k # 0 => g[k - 1] = h[k - 1]
      <4>1. k # 0 => k - 1 \in S /\ rank[k - 1] < rank[k]
        OBVIOUS
      <4> QED
        BY <4>1, <2>1
    <3>3. WalkRound(t, g, k) = WalkRound(t, h, k)
      BY <3>2 DEF WalkRound
    <3> QED
      BY <3>1, <3>3
  <2> QED
    BY <2>1 DEF Ranked
<1>6. HasFixpoint(G, S, Walks)
  <2>1. Walks # {}
    BY <1>1
  <2> HIDE DEF G, S, rank
  <2> QED
    BY <2>1, <1>3, <1>4, <1>5, Recursion
<1>7. PICK h \in [S -> Walks] : P(h)
  BY <1>6 DEF HasFixpoint
<1>8. P(f)
  BY <1>7
<1>9. in_order(t) = f[N].printed
  BY WalkDef
<1>10. (\A k \in S : f[k] = WalkRound(t, f, k)) /\ (\A k \in S : h[k] = WalkRound(t, h, k)) /\ DOMAIN f = S
  BY <1>7, <1>8
<1> HIDE DEF f, G, rank
<1>11. \A k \in S : f[k] = h[k]
  <2> DEFINE A == {k \in Nat : k \in S => f[k] = h[k]}
  <2>1. 0 \in A
    BY <1>10 DEF WalkRound
  <2>2. ASSUME NEW k \in Nat, k \in A PROVE k + 1 \in A
    <3>1. ASSUME k + 1 \in S PROVE f[k + 1] = h[k + 1]
      <4>1. k \in S /\ k + 1 # 0 /\ (k + 1) - 1 = k
        BY <3>1
      <4>2. f[k] = h[k]
        BY <4>1, <2>2
      <4>3. f[k + 1] = InOrderStep(t, f[k]) /\ h[k + 1] = InOrderStep(t, h[k])
        BY <4>1, <3>1, <1>10 DEF WalkRound
      <4> QED
        BY <4>2, <4>3
    <3> QED
      BY <3>1
  <2>3. Nat \subseteq A
    <3> HIDE DEF A
    <3> QED
      BY <2>1, <2>2, EveryNumber
  <2> QED
    BY <2>3
<1>12. \A k \in S : f[k] \in Walks
  BY <1>7, <1>11
<1>13. f \in [S -> Walks]
  BY <1>8, <1>12
<1>14. f[0] = WalkStart(t)
  BY <1>10 DEF WalkRound
<1>15. \A k \in 0..N - 1 : f[k + 1] = InOrderStep(t, f[k])
  <2>1. ASSUME NEW k \in 0..N - 1 PROVE f[k + 1] = InOrderStep(t, f[k])
    <3>1. k + 1 \in S /\ k + 1 # 0 /\ (k + 1) - 1 = k
      OBVIOUS
    <3> QED
      BY <3>1, <1>10 DEF WalkRound
  <2> QED
    BY <2>1
<1> QED
  BY <1>9, <1>13, <1>14, <1>15

\* How many nodes of the list are before those below a node.
OffsetStep(t, list, f, n) ==
  LET p == t.parent[n]
      left == t.child["left"][p]
  IN IF n = NIL \/ p = NIL THEN 0 ELSE IF n = left THEN f[p] ELSE f[p] + Len(list[left]) + 1

LEMMA OffsetIs ==
  ASSUME NEW t, NEW sub, LinksOK(t), Forest(t, sub), NEW list \in [Cells -> Seq(Nodes)]
  PROVE  \E f \in [Cells -> Nat] : \A n \in Cells : f[n] = OffsetStep(t, list, f, n)
<1> DEFINE G == [f \in [Cells -> Nat] |-> [n \in Cells |-> OffsetStep(t, list, f, n)]]
<1>1. ASSUME NEW n \in Cells, n # NIL
      PROVE  /\ t.parent[n] \in Cells
             /\ t.parent[n] # NIL => t.child["left"][t.parent[n]] \in Cells
  <2>1. n \in Nodes
    BY <1>1 DEF Cells
  <2>2. t.parent[n] \in Cells
    BY <2>1, InForest
  <2>3. t.parent[n] # NIL => t.parent[n] \in Nodes
    BY <2>2 DEF Cells
  <2> QED
    BY <2>2, <2>3, InForest DEF Sides
<1>2. ASSUME NEW g \in [Cells -> Nat], NEW n \in Cells PROVE OffsetStep(t, list, g, n) \in Nat
  <2>1. CASE n = NIL \/ t.parent[n] = NIL
    BY <2>1 DEF OffsetStep
  <2>2. CASE ~(n = NIL \/ t.parent[n] = NIL)
    <3>1. PICK p \in Cells : p = t.parent[n]
      BY <2>2, <1>1
    <3>2. PICK left \in Cells : left = t.child["left"][p]
      BY <3>1, <2>2, <1>1
    <3>3. PICK k \in Nat : k = g[p]
      OBVIOUS
    <3>4. PICK below \in Seq(Nodes) : below = list[left]
      OBVIOUS
    <3>5. Len(below) \in Nat
      OBVIOUS
    <3>6. OffsetStep(t, list, g, n) = IF n = left THEN k ELSE k + Len(below) + 1
      BY <3>1, <3>2, <3>3, <3>4, <2>2 DEF OffsetStep
    <3> QED
      BY <3>5, <3>6
  <2> QED
    BY <2>1, <2>2
<1>3. G \in [[Cells -> Nat] -> [Cells -> Nat]]
  BY <1>2
<1>4. ByParent(G, Nat, t)
  <2>1. ASSUME NEW g \in [Cells -> Nat], NEW h \in [Cells -> Nat], NEW n \in Cells,
               n # NIL => g[t.parent[n]] = h[t.parent[n]]
        PROVE  G[g][n] = G[h][n]
    <3>1. OffsetStep(t, list, g, n) = OffsetStep(t, list, h, n)
      BY <2>1 DEF OffsetStep
    <3> QED
      BY <3>1
  <2> QED
    BY <2>1 DEF ByParent
<1>5. HasFixpoint(G, Cells, Nat)
  <2>1. Nat # {}
    OBVIOUS
  <2> HIDE DEF G
  <2> QED
    BY <2>1, <1>3, <1>4, UpRecursion
<1>6. PICK f \in [Cells -> Nat] : f = G[f]
  <2> HIDE DEF G
  <2> QED
    BY <1>5 DEF HasFixpoint
<1>7. \A n \in Cells : f[n] = OffsetStep(t, list, f, n)
  BY <1>6
<1> QED
  BY <1>7

\* The list below n is the part of order after k.
Part(order, below, k) ==
  /\ k \in Nat /\ k + Len(below) <= Len(order)
  /\ \A i \in 1..Len(below) : order[k + i] = below[i]

LEMMA PartsJoin ==
  ASSUME NEW order \in Seq(Nodes), NEW a \in Seq(Nodes), NEW b \in Seq(Nodes), NEW n \in Nodes,
         NEW c, c = a \o <<n>> \o b, NEW k \in Nat, Part(order, c, k)
  PROVE  Part(order, a, k) /\ order[k + Len(a) + 1] = n /\ Part(order, b, k + Len(a) + 1)
<1>1. PICK x \in Nat : x = Len(a)
  OBVIOUS
<1>2. PICK y \in Nat : y = Len(b)
  OBVIOUS
<1>3. /\ Len(c) = x + 1 + y
      /\ \A i \in 1..Len(c) : c[i] = IF i <= x THEN a[i] ELSE IF i = x + 1 THEN n ELSE b[i - (x + 1)]
  BY <1>1, <1>2, JoinAround
<1>4. k \in Nat /\ k + x + 1 + y <= Len(order) /\ \A i \in 1..Len(c) : order[k + i] = c[i]
  <2>1. k \in Nat /\ k + Len(c) <= Len(order) /\ \A i \in 1..Len(c) : order[k + i] = c[i]
    BY DEF Part
  <2>2. k + Len(c) = k + x + 1 + y
    BY <2>1, <1>3
  <2> QED
    BY <2>1, <2>2
<1>5. Len(order) \in Nat
  OBVIOUS
<1>6. \A i \in 1..x : order[k + i] = a[i]
  <2>1. ASSUME NEW i \in 1..x PROVE order[k + i] = a[i]
    <3>1. i \in 1..Len(c) /\ i <= x
      BY <1>3
    <3>2. c[i] = a[i]
      BY <3>1, <1>3
    <3>3. order[k + i] = c[i]
      BY <3>1, <1>4
    <3> QED
      BY <3>2, <3>3
  <2> QED
    BY <2>1
<1>7. order[k + x + 1] = n
  <2>1. x + 1 \in 1..Len(c) /\ ~(x + 1 <= x)
    BY <1>3
  <2>2. order[k + (x + 1)] = n
    BY <2>1, <1>3, <1>4
  <2>3. k + (x + 1) = k + x + 1
    BY <1>4
  <2> QED
    BY <2>2, <2>3
<1>8. \A i \in 1..y : order[k + x + 1 + i] = b[i]
  <2>1. ASSUME NEW i \in 1..y PROVE order[k + x + 1 + i] = b[i]
    <3>1. /\ x + 1 + i \in 1..Len(c) /\ ~(x + 1 + i <= x) /\ x + 1 + i # x + 1
          /\ (x + 1 + i) - (x + 1) = i /\ k + (x + 1 + i) = k + x + 1 + i
      BY <1>3, <1>4
    <3>2. c[x + 1 + i] = b[i]
      BY <3>1, <1>3
    <3>3. order[k + (x + 1 + i)] = b[i]
      BY <3>1, <3>2, <1>4
    <3> QED
      BY <3>1, <3>3
  <2> QED
    BY <2>1
<1>9. k + x <= Len(order) /\ k + x + 1 \in Nat /\ k + x + 1 + y <= Len(order)
  BY <1>4, <1>5
<1> QED
  BY <1>1, <1>2, <1>4, <1>6, <1>7, <1>8, <1>9 DEF Part

LEMMA PartsFound ==
  ASSUME NEW t, NEW sub, NEW here, LinksOK(t), Forest(t, sub), Rooted(t, sub, here),
         NEW list \in [Cells -> Seq(Nodes)], \A n \in Cells : list[n] = ListStep(t, list, n),
         NEW off \in [Cells -> Nat], \A n \in Cells : off[n] = OffsetStep(t, list, off, n)
  PROVE  \A n \in here : Part(list[t.root], list[n], off[n])
<1>1. PICK A : A = {n \in Nodes : n \in here => Part(list[t.root], list[n], off[n])}
  OBVIOUS
<1>2. NIL \in Cells /\ NIL \notin Nodes /\ (\A n \in Nodes : n \in Cells /\ n # NIL) /\ t.root \in Cells
      /\ here \in SUBSET Nodes /\ "left" \in Sides /\ "right" \in Sides /\ Sides = {"left", "right"}
  BY NodesAreFinite DEF Cells, LinksOK, Trees, Sides, Rooted
<1>3. ASSUME NEW n \in Nodes, t.parent[n] # NIL => t.parent[n] \in A PROVE n \in A
  <2>1. ASSUME n \in here PROVE Part(list[t.root], list[n], off[n])
    <3>1. CASE t.parent[n] = NIL
      <4>1. n = t.root
        BY <2>1, <3>1, InTree
      <4>2. off[n] = 0
        BY <3>1, <1>2 DEF OffsetStep
      <4>3. Part(list[n], list[n], 0)
        <5>1. PICK c \in Seq(Nodes) : c = list[n]
          BY <1>2
        <5>2. Part(c, c, 0)
          BY DEF Part
        <5> QED
          BY <5>1, <5>2
      <4> QED
        BY <4>1, <4>2, <4>3
    <3>2. CASE t.parent[n] # NIL
      <4>1. PICK p : p = t.parent[n]
        OBVIOUS
      <4>2. p \in here
        BY <2>1, <3>2, <4>1, InTree
      <4>3. p \in Nodes /\ p \in A
        BY <3>2, <4>1, <4>2, <1>2, <1>3
      <4>4. Part(list[t.root], list[p], off[p])
        BY <4>2, <4>3, <1>1
      <4>5. \E s \in Sides : t.child[s][p] = n
        BY <3>2, <4>1, InForest
      <4>6. PICK left \in Cells : left = t.child["left"][p]
        BY <4>3, <1>2, InForest
      <4>7. PICK right \in Cells : right = t.child["right"][p]
        BY <4>3, <1>2, InForest
      <4>8. list[p] = list[left] \o <<p>> \o list[right]
        BY <4>3, <4>6, <4>7, <1>2 DEF ListStep
      <4>9. list[t.root] \in Seq(Nodes) /\ list[left] \in Seq(Nodes) /\ list[right] \in Seq(Nodes)
        BY <1>2
      <4>10. Part(list[t.root], list[left], off[p]) /\ Part(list[t.root], list[right], off[p] + Len(list[left]) + 1)
        <5>1. PICK a \in Seq(Nodes) : a = list[left]
          BY <4>9
        <5>2. PICK b \in Seq(Nodes) : b = list[right]
          BY <4>9
        <5>3. PICK order \in Seq(Nodes) : order = list[t.root]
          BY <4>9
        <5>4. PICK c : c = list[p]
          OBVIOUS
        <5>5. PICK k \in Nat : k = off[p]
          BY <4>3, <1>2
        <5>6. Part(order, c, k) /\ c = a \o <<p>> \o b
          BY <5>1, <5>2, <5>3, <5>4, <5>5, <4>4, <4>8
        <5>7. Part(order, a, k) /\ Part(order, b, k + Len(a) + 1)
          BY <5>6, <4>3, PartsJoin
        <5> QED
          BY <5>1, <5>2, <5>3, <5>5, <5>7
      <4>11. off[n] = IF n = left THEN off[p] ELSE off[p] + Len(list[left]) + 1
        BY <3>2, <4>1, <4>6, <1>2 DEF OffsetStep
      <4>12. n = left \/ n = right
        BY <4>5, <4>6, <4>7, <1>2
      <4> QED
        BY <4>10, <4>11, <4>12
    <3> QED
      BY <3>1, <3>2
  <2> QED
    BY <2>1, <1>1
<1>4. Nodes \subseteq A
  BY <1>3, UpwardInduction
<1> QED
  BY <1>1, <1>2, <1>4

\* The nodes below n are printed from first[n] to last[n], n itself at pos[n].
PlaceOf(t, here, first, pos, last, n) ==
  /\ first[n] \in Nat \ {0} /\ pos[n] \in Nat /\ last[n] \in Nat
  /\ first[n] <= pos[n] /\ pos[n] <= last[n]
  /\ LET l == t.child["left"][n]
         r == t.child["right"][n]
     IN /\ l = NIL => pos[n] = first[n]
        /\ l # NIL => l \in here /\ first[l] = first[n] /\ last[l] + 1 = pos[n]
        /\ r = NIL => pos[n] = last[n]
        /\ r # NIL => r \in here /\ first[r] = pos[n] + 1 /\ last[r] = last[n]

Placed(t, here, order, first, pos, last) ==
  /\ order \in Seq(Nodes) /\ here \subseteq Nodes
  /\ t.root = NIL => Len(order) = 0
  /\ t.root # NIL => t.root \in here /\ first[t.root] = 1 /\ last[t.root] = Len(order)
  /\ \A n \in here : /\ PlaceOf(t, here, first, pos, last, n)
                     /\ last[n] <= Len(order) /\ order[pos[n]] = n

HasPlaces(t, here, order) == \E first, pos, last : Placed(t, here, order, first, pos, last)

LEMMA PlacesFound ==
  ASSUME NEW t, NEW sub, NEW here, LinksOK(t), Forest(t, sub), Rooted(t, sub, here),
         NEW list \in [Cells -> Seq(Nodes)], \A n \in Cells : list[n] = ListStep(t, list, n),
         NEW order, order = list[t.root]
  PROVE  HasPlaces(t, here, order)
<1>1. PICK off \in [Cells -> Nat] : \A n \in Cells : off[n] = OffsetStep(t, list, off, n)
  BY OffsetIs
<1>2. NIL \in Cells /\ NIL \notin Nodes /\ (\A n \in Nodes : n \in Cells /\ n # NIL) /\ t.root \in Cells
      /\ here \in SUBSET Nodes /\ "left" \in Sides /\ "right" \in Sides /\ Other("left") = "right"
  BY NodesAreFinite DEF Cells, LinksOK, Trees, Sides, Rooted, Other
<1>3. \A n \in here : Part(order, list[n], off[n])
  BY <1>1, PartsFound
<1>4. PICK len : len = [n \in Cells |-> Len(list[n])]
  OBVIOUS
<1>5. \A n \in Cells : list[n] \in Seq(Nodes) /\ len[n] = Len(list[n]) /\ len[n] \in Nat
  BY <1>4
<1>6. PICK first : first = [n \in Cells |-> off[n] + 1]
  OBVIOUS
<1>7. PICK pos : pos = [n \in Cells |-> off[n] + len[t.child["left"][n]] + 1]
  OBVIOUS
<1>8. PICK last : last = [n \in Cells |-> off[n] + len[n]]
  OBVIOUS
<1>9. len[NIL] = 0
  <2>1. list[NIL] = <<>>
    BY <1>2 DEF ListStep
  <2> QED
    BY <2>1, <1>2, <1>5
<1>10. order \in Seq(Nodes) /\ Len(order) = len[t.root]
  BY <1>2, <1>5
<1>11. \A n \in here : n \in Nodes /\ n \in Cells /\ n # NIL
  BY <1>2
<1>12. t.root # NIL => t.root \in here /\ first[t.root] = 1 /\ last[t.root] = Len(order)
  <2>1. ASSUME t.root # NIL PROVE t.root \in here /\ first[t.root] = 1 /\ last[t.root] = Len(order)
    <3>1. t.root \in here /\ t.parent[t.root] = NIL
      BY <2>1, InTree
    <3>2. off[t.root] = 0
      BY <3>1, <1>1, <1>2 DEF OffsetStep
    <3> QED
      BY <3>1, <3>2, <1>2, <1>5, <1>6, <1>8, <1>10
  <2> QED
    BY <2>1
<1>13. ASSUME NEW n \in here
       PROVE  /\ PlaceOf(t, here, first, pos, last, n)
              /\ last[n] <= Len(order) /\ order[pos[n]] = n
  <2>1. PICK l : l = t.child["left"][n]
    OBVIOUS
  <2>2. PICK r : r = t.child["right"][n]
    OBVIOUS
  <2>3. l \in Cells /\ r \in Cells /\ l \in here \cup {NIL} /\ r \in here \cup {NIL}
    <3>1. l \in here \cup {NIL} /\ r \in here \cup {NIL}
      BY <2>1, <2>2, <1>2, InTree
    <3> QED
      BY <3>1, <1>2
  <2>4. list[n] = list[l] \o <<n>> \o list[r]
    BY <2>1, <2>2, <1>11 DEF ListStep
  <2>5. len[n] = len[l] + 1 + len[r]
    <3>1. Len(list[n]) = Len(list[l]) + 1 + Len(list[r])
      BY <2>3, <2>4, <1>5, <1>11, JoinAround
    <3> QED
      BY <3>1, <2>3, <1>5, <1>11
  <2>6. off[n] \in Nat /\ len[n] \in Nat /\ len[l] \in Nat /\ len[r] \in Nat
    BY <2>3, <1>5, <1>11
  <2>7. first[n] = off[n] + 1 /\ pos[n] = off[n] + len[l] + 1 /\ last[n] = off[n] + len[n]
    BY <2>1, <1>6, <1>7, <1>8, <1>11
  <2>8. l # NIL => /\ l \in here /\ off[l] = off[n]
                   /\ first[l] = off[l] + 1 /\ last[l] = off[l] + len[l]
    <3>1. ASSUME l # NIL PROVE l \in here /\ t.parent[l] = n
      <4>1. l \in here
        BY <3>1, <2>3
      <4>2. t.parent[l] = n
        BY <3>1, <2>1, <1>2, <1>11, InForest
      <4> QED
        BY <4>1, <4>2
    <3>2. ASSUME l # NIL PROVE off[l] = off[n]
      BY <3>1, <3>2, <2>1, <2>3, <1>1, <1>11 DEF OffsetStep
    <3> QED
      BY <3>1, <3>2, <2>3, <1>6, <1>8
  <2>9. r # NIL => /\ r \in here /\ off[r] = off[n] + len[l] + 1
                   /\ first[r] = off[r] + 1 /\ last[r] = off[r] + len[r]
    <3>1. ASSUME r # NIL PROVE r \in here /\ t.parent[r] = n
      <4>1. r \in here
        BY <3>1, <2>3
      <4>2. t.parent[r] = n
        BY <3>1, <2>2, <1>2, <1>11, InForest
      <4> QED
        BY <4>1, <4>2
    <3>2. ASSUME r # NIL PROVE r # l
      <4>1. r \in Nodes
        BY <3>1, <3>2, <1>2
      <4>2. r \in sub[r]
        BY <4>1, InForest
      <4>3. sub[l] \cap sub[r] = {}
        BY <2>1, <2>2, <1>11 DEF Forest
      <4> QED
        BY <4>2, <4>3
    <3>3. ASSUME r # NIL PROVE off[r] = off[n] + len[l] + 1
      <4>1. off[r] = off[n] + Len(list[l]) + 1
        BY <3>1, <3>2, <3>3, <2>1, <2>3, <1>1, <1>11 DEF OffsetStep
      <4> QED
        BY <4>1, <2>3, <1>5
    <3> QED
      BY <3>1, <3>3, <2>3, <1>6, <1>8
  <2>10. PICK k \in Nat : k = off[n]
    BY <2>6
  <2>11. PICK x \in Nat : x = len[l]
    BY <2>6
  <2>12. PICK y \in Nat : y = len[r]
    BY <2>6
  <2>13. (l = NIL => x = 0) /\ (r = NIL => y = 0)
    BY <1>9, <2>11, <2>12
  <2>14. /\ first[n] = k + 1 /\ pos[n] = k + x + 1 /\ last[n] = k + (x + 1 + y)
         /\ l # NIL => first[l] = k + 1 /\ last[l] = k + x
         /\ r # NIL => first[r] = (k + x + 1) + 1 /\ last[r] = (k + x + 1) + y
    BY <2>5, <2>7, <2>8, <2>9, <2>10, <2>11, <2>12
  <2>15. /\ first[n] \in Nat \ {0} /\ pos[n] \in Nat /\ last[n] \in Nat
         /\ first[n] <= pos[n] /\ pos[n] <= last[n]
    BY <2>14
  <2>16. /\ l = NIL => pos[n] = first[n]
         /\ l # NIL => l \in here /\ first[l] = first[n] /\ last[l] + 1 = pos[n]
    BY <2>8, <2>13, <2>14
  <2>17. /\ r = NIL => pos[n] = last[n]
         /\ r # NIL => r \in here /\ first[r] = pos[n] + 1 /\ last[r] = last[n]
    <3>1. r = NIL => pos[n] = last[n]
      BY <2>13, <2>14
    <3>2. r # NIL => r \in here /\ first[r] = pos[n] + 1 /\ last[r] = last[n]
      BY <2>9, <2>14
    <3> QED
      BY <3>1, <3>2
  <2>18. PlaceOf(t, here, first, pos, last, n)
    BY <2>1, <2>2, <2>15, <2>16, <2>17 DEF PlaceOf
  <2>19. last[n] <= Len(order) /\ order[pos[n]] = n
    <3>1. Part(order, list[n], off[n])
      BY <1>3
    <3>2. last[n] <= Len(order)
      <4>1. off[n] + Len(list[n]) <= Len(order)
        BY <3>1 DEF Part
      <4>2. len[n] = Len(list[n])
        BY <1>5, <1>11
      <4> QED
        BY <4>1, <4>2, <2>7
    <3>3. order[off[n] + Len(list[l]) + 1] = n
      <4>1. PICK a \in Seq(Nodes) : a = list[l]
        BY <2>3, <1>5
      <4>2. PICK b \in Seq(Nodes) : b = list[r]
        BY <2>3, <1>5
      <4>3. PICK c : c = list[n]
        OBVIOUS
      <4>4. PICK h \in Nat : h = off[n]
        BY <2>6
      <4>5. n \in Nodes /\ c = a \o <<n>> \o b /\ Part(order, c, h)
        BY <4>1, <4>2, <4>3, <4>4, <3>1, <2>4, <1>11
      <4>6. order[h + Len(a) + 1] = n
        <5>1. PICK o \in Seq(Nodes) : o = order
          BY <1>10
        <5>2. PICK m \in Nodes : m = n
          BY <4>5
        <5>3. c = a \o <<m>> \o b /\ Part(o, c, h)
          BY <5>1, <5>2, <4>5
        <5>4. Part(o, a, h) /\ o[h + Len(a) + 1] = m /\ Part(o, b, h + Len(a) + 1)
          BY <5>3, PartsJoin, Zenon
        <5>5. o[h + Len(a) + 1] = m
          BY <5>4
        <5> QED
          BY <5>1, <5>2, <5>5
      <4> QED
        BY <4>1, <4>4, <4>6
    <3> QED
      BY <3>2, <3>3, <2>3, <2>7, <1>5
  <2> QED
    BY <2>18, <2>19
<1>14. t.root = NIL => Len(order) = 0
  BY <1>9, <1>10
<1>15. Placed(t, here, order, first, pos, last)
  BY <1>2, <1>10, <1>12, <1>13, <1>14 DEF Placed
<1> QED
  BY <1>15 DEF HasPlaces

\* The stack of the loop: each node is printed after those below the next, the first
\* is on the way to the last of all.
Stacked(here, N, pos, last, stack) ==
  /\ stack \in Seq(Nodes)
  /\ \A i \in 1..Len(stack) : stack[i] \in here
  /\ stack # <<>> => last[stack[1]] = N
  /\ \A i \in 1..Len(stack) - 1 : pos[stack[i]] = last[stack[i + 1]] + 1
  /\ \A i, j \in 1..Len(stack) : i <= j => pos[stack[j]] + j <= pos[stack[i]] + i

LEMMA StackedPop ==
  ASSUME NEW here, NEW N, NEW pos, NEW last, NEW stack, Stacked(here, N, pos, last, stack), stack # <<>>
  PROVE  Stacked(here, N, pos, last, Pop(stack))
<1>1. PICK s : s = Pop(stack)
  OBVIOUS
<1>2. PICK m \in Nat \ {0} : m = Len(stack)
  BY PopIs DEF Stacked
<1>3. s \in Seq(Nodes) /\ Len(s) = m - 1 /\ \A i \in 1..m - 1 : s[i] = stack[i]
  BY <1>1, <1>2, PopIs DEF Stacked
<1>4. s # <<>> => last[s[1]] = N
  <2>1. ASSUME s # <<>> PROVE last[s[1]] = N
    <3>1. 1 \in 1..m - 1
      BY <2>1, <1>2, <1>3, EmptySeq
    <3> QED
      BY <3>1, <1>3 DEF Stacked
  <2> QED
    BY <2>1
<1>5. \A i \in 1..m - 1 : i \in 1..m /\ s[i] = stack[i]
  BY <1>2, <1>3
<1>6. \A i \in 1..m - 1 : s[i] \in here
  BY <1>2, <1>5 DEF Stacked
<1>7. \A i \in 1..(m - 1) - 1 : pos[s[i]] = last[s[i + 1]] + 1
  <2>1. \A i \in 1..(m - 1) - 1 : i \in 1..m - 1 /\ i + 1 \in 1..m - 1
    BY <1>2
  <2> QED
    BY <2>1, <1>2, <1>3 DEF Stacked
<1>8. \A i, j \in 1..m - 1 : i <= j => pos[s[j]] + j <= pos[s[i]] + i
  BY <1>2, <1>5 DEF Stacked
<1>9. Stacked(here, N, pos, last, s)
  BY <1>3, <1>4, <1>6, <1>7, <1>8 DEF Stacked
<1> QED
  BY <1>1, <1>9

LEMMA StackedPush ==
  ASSUME NEW here \in SUBSET Nodes, NEW N, NEW pos, NEW last, NEW stack, Stacked(here, N, pos, last, stack),
         \A n \in here : pos[n] \in Nat /\ last[n] \in Nat /\ pos[n] <= last[n], NEW n \in here,
         stack = <<>> => last[n] = N, stack # <<>> => pos[stack[Len(stack)]] = last[n] + 1
  PROVE  Stacked(here, N, pos, last, Push(stack, n))
<1>1. PICK s : s = Push(stack, n)
  OBVIOUS
<1>2. PICK m \in Nat : m = Len(stack)
  BY DEF Stacked
<1>3. n \in Cells /\ n # NIL /\ n \in Nodes
  BY NodesAreFinite DEF Cells
<1>4. s \in Seq(Nodes) /\ Len(s) = m + 1 /\ s[m + 1] = n /\ \A i \in 1..m : s[i] = stack[i]
  BY <1>1, <1>2, <1>3, PushIs DEF Stacked
<1>5. (stack = <<>> <=> m = 0)
  BY <1>2, EmptySeq DEF Stacked
<1>6. last[s[1]] = N
  <2>1. CASE m = 0
    BY <2>1, <1>4, <1>5
  <2>2. CASE m # 0
    <3>1. 1 \in 1..m
      BY <2>2
    <3> QED
      BY <3>1, <2>2, <1>4, <1>5 DEF Stacked
  <2> QED
    BY <2>1, <2>2
<1>7. \A i \in 1..m + 1 : (i \in 1..m /\ s[i] = stack[i] /\ stack[i] \in here) \/ (i = m + 1 /\ s[i] = n)
  BY <1>2, <1>4 DEF Stacked
<1>8. \A i \in 1..m + 1 : s[i] \in here
  BY <1>7
<1>9. ASSUME NEW i \in 1..(m + 1) - 1 PROVE pos[s[i]] = last[s[i + 1]] + 1
  <2>1. i \in 1..m
    OBVIOUS
  <2>2. CASE i = m
    <3>1. m # 0 /\ s[i] = stack[m] /\ s[i + 1] = n
      BY <2>1, <2>2, <1>4
    <3> QED
      BY <3>1, <1>2, <1>5
  <2>3. CASE i # m
    <3>1. i \in 1..m - 1 /\ i + 1 \in 1..m
      BY <2>1, <2>3
    <3> QED
      BY <3>1, <2>1, <1>2, <1>4 DEF Stacked
  <2> QED
    BY <2>2, <2>3
<1>10. ASSUME NEW i \in 1..m + 1, NEW j \in 1..m + 1, i <= j PROVE pos[s[j]] + j <= pos[s[i]] + i
  <2>1. pos[s[i]] \in Nat /\ pos[s[j]] \in Nat
    BY <1>8
  <2>2. CASE j # m + 1
    <3>1. i \in 1..m /\ j \in 1..m
      BY <2>2, <1>10
    <3> QED
      BY <3>1, <1>2, <1>4, <1>10 DEF Stacked
  <2>3. CASE j = m + 1 /\ i = m + 1
    BY <2>1, <2>3
  <2>4. CASE j = m + 1 /\ i # m + 1
    <3>1. i \in 1..m /\ m \in 1..m /\ i <= m /\ m # 0
      BY <2>4
    <3>2. PICK top : top = stack[m]
      OBVIOUS
    <3>3. top \in here /\ pos[top] = last[n] + 1 /\ pos[top] + m <= pos[stack[i]] + i
      BY <3>1, <3>2, <1>2, <1>5 DEF Stacked
    <3>4. pos[n] \in Nat /\ last[n] \in Nat /\ pos[n] <= last[n]
      OBVIOUS
    <3>5. s[i] = stack[i] /\ s[j] = n
      BY <3>1, <2>4, <1>4
    <3>6. PICK a \in Nat : a = pos[s[i]]
      BY <2>1
    <3>7. PICK b \in Nat : b = pos[n]
      BY <3>4
    <3>8. b + 1 + m <= a + i
      <4>1. PICK c \in Nat : c = last[n]
        BY <3>4
      <4>2. b <= c
        BY <4>1, <3>4, <3>7
      <4>3. (c + 1) + m <= a + i
        BY <4>1, <3>3, <3>5, <3>6
      <4> QED
        BY <4>2, <4>3
    <3> QED
      BY <3>5, <3>6, <3>7, <3>8, <2>4
  <2> QED
    BY <2>2, <2>3, <2>4
<1>11. Stacked(here, N, pos, last, s)
  BY <1>4, <1>6, <1>8, <1>9, <1>10 DEF Stacked
<1> QED
  BY <1>1, <1>11

\* The loop after k rounds: what it has printed, and what is on the stack.
Walked(here, order, first, pos, last, k, a) ==
  LET p == Len(a.printed)
      m == Len(a.stack)
  IN /\ a \in Walks /\ Stacked(here, Len(order), pos, last, a.stack)
     /\ p <= Len(order) /\ \A i \in 1..p : a.printed[i] = order[i]
     /\ a.stack = <<>> => p = Len(order)
     /\ a.stack # <<>> => /\ k = 2 * p + m - (IF a.down THEN 1 ELSE 0)
                          /\ IF a.down THEN first[a.stack[m]] = p + 1 ELSE pos[a.stack[m]] = p + 1

LEMMA WalkedStart ==
  ASSUME NEW t, NEW here, NEW order, NEW first, NEW pos, NEW last, Placed(t, here, order, first, pos, last),
         t.root \in Cells
  PROVE  Walked(here, order, first, pos, last, 0, WalkStart(t))
<1>1. PICK a : a = WalkStart(t)
  OBVIOUS
<1>2. a.stack = Push(<<>>, t.root) /\ a.down = TRUE /\ a.printed = <<>> /\ a \in Walks
  <2>1. <<>> \in Seq(Nodes)
    OBVIOUS
  <2>2. Push(<<>>, t.root) \in Seq(Nodes)
    BY <2>1, PushIs
  <2> QED
    BY <2>1, <2>2, <1>1 DEF WalkStart, Walks
<1>3. <<>> \in Seq(Nodes) /\ Len(<<>>) = 0 /\ order \in Seq(Nodes) /\ Len(order) \in Nat /\ here \in SUBSET Nodes
  BY DEF Placed
<1>4. Stacked(here, Len(order), pos, last, <<>>)
  BY <1>3 DEF Stacked
<1>5. CASE t.root = NIL
  <2>1. a.stack = <<>> /\ Len(order) = 0
    BY <1>2, <1>3, <1>5, PushIs DEF Placed
  <2> QED
    BY <2>1, <1>1, <1>2, <1>3, <1>4 DEF Walked
<1>6. CASE t.root # NIL
  <2>1. t.root \in here /\ first[t.root] = 1 /\ last[t.root] = Len(order)
    BY <1>6 DEF Placed
  <2>2. \A n \in here : pos[n] \in Nat /\ last[n] \in Nat /\ pos[n] <= last[n]
    BY DEF Placed, PlaceOf
  <2>3. Stacked(here, Len(order), pos, last, a.stack)
    <3>1. Stacked(here, Len(order), pos, last, Push(<<>>, t.root))
      BY <2>1, <2>2, <1>3, <1>4, StackedPush
    <3> QED
      BY <3>1, <1>2
  <2>4. Len(a.stack) = 1 /\ a.stack[1] = t.root
    <3>1. PICK e \in Seq(Nodes) : e = <<>> /\ Len(e) = 0
      BY <1>3
    <3>2. Len(Push(e, t.root)) = Len(e) + 1 /\ Push(e, t.root)[Len(e) + 1] = t.root
      BY <1>6, PushIs
    <3> QED
      BY <3>1, <3>2, <1>2
  <2>5. a.stack # <<>>
    BY <2>4, <1>3
  <2> QED
    BY <2>1, <2>3, <2>4, <2>5, <1>1, <1>2, <1>3 DEF Walked
<1> QED
  BY <1>5, <1>6

\* A node with a left child pushes it; the node below which nothing is to the left
\* is the next to print.
LEMMA WalkedDown ==
  ASSUME NEW t, NEW here, NEW order, NEW first, NEW pos, NEW last, Placed(t, here, order, first, pos, last),
         NEW k \in Nat, NEW a, Walked(here, order, first, pos, last, k, a), NEW b \in Walks,
         NEW top, NEW left \in Cells, a.stack # <<>>, top = a.stack[Len(a.stack)], left = t.child["left"][top],
         a.down, b.stack = Push(a.stack, left), b.down = (left # NIL), b.printed = a.printed
  PROVE  Walked(here, order, first, pos, last, k + 1, b)
<1>1. PICK stack \in Seq(Nodes) : stack = a.stack
  BY DEF Walked, Stacked
<1>2. PICK m \in Nat \ {0} : m = Len(stack)
  BY <1>1, PopIs
<1>3. PICK p \in Nat : p = Len(a.printed)
  BY DEF Walked, Walks
<1>4. PICK N \in Nat : N = Len(order)
  BY DEF Placed
<1>5. /\ Stacked(here, N, pos, last, stack) /\ p <= N /\ \A i \in 1..p : a.printed[i] = order[i]
      /\ k = 2 * p + m - 1 /\ first[top] = p + 1 /\ top = stack[m]
  BY <1>1, <1>2, <1>3, <1>4 DEF Walked
<1>6. top \in here /\ here \in SUBSET Nodes
  BY <1>2, <1>5 DEF Stacked, Placed
<1>7. PlaceOf(t, here, first, pos, last, top)
  BY <1>6 DEF Placed
<1>8. CASE left = NIL
  <2>1. b.stack = stack /\ ~b.down /\ b.printed = a.printed
    BY <1>1, <1>8, PushIs
  <2>2. pos[top] = p + 1
    BY <1>5, <1>7, <1>8 DEF PlaceOf
  <2>3. k + 1 = 2 * p + m - 0
    BY <1>5
  <2> QED
    BY <2>1, <2>2, <2>3, <1>1, <1>2, <1>3, <1>4, <1>5 DEF Walked
<1>9. CASE left # NIL
  <2>1. left \in here /\ first[left] = first[top] /\ last[left] + 1 = pos[top]
    BY <1>7, <1>9 DEF PlaceOf
  <2>2. \A n \in here : pos[n] \in Nat /\ last[n] \in Nat /\ pos[n] <= last[n]
    BY DEF Placed, PlaceOf
  <2>3. Stacked(here, N, pos, last, Push(stack, left))
    <3>1. stack # <<>> /\ pos[stack[Len(stack)]] = last[left] + 1
      BY <2>1, <1>1, <1>2, <1>5
    <3> QED
      BY <3>1, <2>1, <2>2, <1>5, <1>6, StackedPush
  <2>4. Len(Push(stack, left)) = m + 1 /\ Push(stack, left)[m + 1] = left
    BY <1>2, <1>9, PushIs
  <2>5. b.stack = Push(stack, left) /\ b.down /\ b.printed = a.printed
    BY <1>1, <1>9
  <2>6. b.stack # <<>> /\ Len(b.stack) = m + 1 /\ b.stack[m + 1] = left
    <3>1. Len(b.stack) = m + 1 /\ b.stack[m + 1] = left
      BY <2>4, <2>5
    <3>2. Len(<<>>) = 0
      OBVIOUS
    <3> QED
      BY <3>1, <3>2
  <2>7. k + 1 = 2 * p + (m + 1) - 1
    BY <1>5
  <2>8. first[left] = p + 1
    BY <2>1, <1>5
  <2> QED
    BY <2>3, <2>5, <2>6, <2>7, <2>8, <1>3, <1>4, <1>5 DEF Walked
<1> QED
  BY <1>8, <1>9

\* The top is printed; then comes what is below its right child, or the next on the stack.
LEMMA WalkedUp ==
  ASSUME NEW t, NEW here, NEW order, NEW first, NEW pos, NEW last, Placed(t, here, order, first, pos, last),
         NEW k \in Nat, NEW a, Walked(here, order, first, pos, last, k, a), NEW b \in Walks,
         NEW top, NEW right \in Cells, a.stack # <<>>, top = a.stack[Len(a.stack)], right = t.child["right"][top],
         ~a.down, b.stack = Push(Pop(a.stack), right), b.down = (right # NIL), b.printed = Append(a.printed, top)
  PROVE  Walked(here, order, first, pos, last, k + 1, b)
<1>1. PICK stack \in Seq(Nodes) : stack = a.stack
  BY DEF Walked, Stacked
<1>2. PICK m \in Nat \ {0} : m = Len(stack)
  BY <1>1, PopIs
<1>3. PICK p \in Nat : p = Len(a.printed)
  BY DEF Walked, Walks
<1>4. PICK N \in Nat : N = Len(order)
  BY DEF Placed
<1>5. /\ Stacked(here, N, pos, last, stack) /\ p <= N /\ \A i \in 1..p : a.printed[i] = order[i]
      /\ k = 2 * p + m - 0 /\ pos[top] = p + 1 /\ top = stack[m]
  BY <1>1, <1>2, <1>3, <1>4 DEF Walked
<1>6. top \in here /\ here \in SUBSET Nodes /\ top \in Nodes
  BY <1>2, <1>5 DEF Stacked, Placed
<1>7. PlaceOf(t, here, first, pos, last, top) /\ last[top] <= N /\ order[pos[top]] = top
  BY <1>4, <1>6 DEF Placed
<1>8. p + 1 <= N /\ last[top] \in Nat /\ pos[top] \in Nat
  BY <1>5, <1>7 DEF PlaceOf
<1>9. Len(b.printed) = p + 1 /\ \A i \in 1..p + 1 : b.printed[i] = order[i]
  <2>1. a.printed \in Seq(Nodes)
    BY DEF Walked, Walks
  <2>2. PICK old \in Seq(Nodes) : old = a.printed /\ Len(old) = p /\ \A i \in 1..p : old[i] = order[i]
    BY <2>1, <1>3, <1>5
  <2>3. b.printed = Append(old, top)
    BY <2>2
  <2>4. Len(b.printed) = p + 1 /\ b.printed[p + 1] = top /\ \A i \in 1..p : b.printed[i] = old[i]
    BY <2>2, <2>3, <1>6
  <2>5. order[p + 1] = top
    BY <1>5, <1>7
  <2>6. \A i \in 1..p + 1 : i \in 1..p \/ i = p + 1
    OBVIOUS
  <2> QED
    BY <2>2, <2>4, <2>5, <2>6
<1>10. PICK rest \in Seq(Nodes) : rest = Pop(stack)
  BY <1>1, PopIs
<1>11. Len(rest) = m - 1 /\ \A i \in 1..m - 1 : rest[i] = stack[i]
  BY <1>1, <1>2, <1>10, PopIs
<1>12. Stacked(here, N, pos, last, rest)
  BY <1>1, <1>5, <1>10, StackedPop
<1>13. b.stack = Push(rest, right) /\ b.down = (right # NIL)
  BY <1>1, <1>10
<1>14. m = 1 => last[top] = N /\ rest = <<>>
  <2>1. ASSUME m = 1 PROVE last[top] = N /\ rest = <<>>
    <3>1. stack # <<>> /\ top = stack[1]
      BY <2>1, <1>1, <1>5
    <3>2. Len(rest) = 0
      BY <2>1, <1>11
    <3> QED
      BY <3>1, <3>2, <1>5, EmptySeq DEF Stacked
  <2> QED
    BY <2>1
<1>15. m # 1 => rest # <<>> /\ pos[rest[m - 1]] = last[top] + 1
  <2>1. ASSUME m # 1 PROVE rest # <<>> /\ pos[rest[m - 1]] = last[top] + 1
    <3>1. m - 1 \in 1..m - 1 /\ (m - 1) + 1 = m /\ m - 1 # 0
      BY <2>1
    <3>2. pos[stack[m - 1]] = last[stack[(m - 1) + 1]] + 1
      BY <3>1, <1>2, <1>5 DEF Stacked
    <3>3. rest[m - 1] = stack[m - 1]
      BY <3>1, <1>11
    <3>4. pos[rest[m - 1]] = last[top] + 1
      BY <3>1, <3>2, <3>3, <1>5
    <3>5. rest # <<>>
      BY <3>1, <1>11, Len(<<>>) = 0
    <3> QED
      BY <3>4, <3>5
  <2> QED
    BY <2>1
<1>16. CASE right = NIL
  <2>1. b.stack = rest /\ ~b.down
    BY <1>13, <1>16, PushIs
  <2>2. last[top] = p + 1
    BY <1>5, <1>7, <1>16 DEF PlaceOf
  <2>3. rest = <<>> => p + 1 = N
    BY <2>2, <1>14, <1>15
  <2>4. rest # <<>> => k + 1 = 2 * (p + 1) + (m - 1) - 0 /\ pos[rest[m - 1]] = (p + 1) + 1
    <3>1. ASSUME rest # <<>> PROVE pos[rest[m - 1]] = (p + 1) + 1
      BY <3>1, <2>2, <1>14, <1>15
    <3>2. k + 1 = 2 * (p + 1) + (m - 1) - 0
      BY <1>5
    <3> QED
      BY <3>1, <3>2
  <2> QED
    BY <2>1, <2>3, <2>4, <1>4, <1>8, <1>9, <1>11, <1>12 DEF Walked
<1>17. CASE right # NIL
  <2>1. right \in here /\ first[right] = pos[top] + 1 /\ last[right] = last[top]
    BY <1>7, <1>17 DEF PlaceOf
  <2>2. \A n \in here : pos[n] \in Nat /\ last[n] \in Nat /\ pos[n] <= last[n]
    BY DEF Placed, PlaceOf
  <2>3. rest = <<>> => last[right] = N
    BY <2>1, <1>14, <1>15
  <2>4. rest # <<>> => pos[rest[Len(rest)]] = last[right] + 1
    BY <2>1, <1>11, <1>14, <1>15
  <2>5. Stacked(here, N, pos, last, Push(rest, right))
    BY <2>1, <2>2, <2>3, <2>4, <1>6, <1>12, StackedPush
  <2>6. Len(Push(rest, right)) = m /\ Push(rest, right)[m] = right
    <3>1. Len(Push(rest, right)) = Len(rest) + 1 /\ Push(rest, right)[Len(rest) + 1] = right
      BY <1>17, PushIs
    <3>2. Len(rest) + 1 = m
      BY <1>11
    <3> QED
      BY <3>1, <3>2
  <2>7. b.stack = Push(rest, right) /\ b.down
    BY <1>13, <1>17
  <2>8. b.stack # <<>> /\ Len(b.stack) = m /\ b.stack[m] = right
    <3>1. Len(b.stack) = m /\ b.stack[m] = right
      BY <2>6, <2>7
    <3> QED
      BY <3>1, Len(<<>>) = 0
  <2>9. k + 1 = 2 * (p + 1) + m - 1
    BY <1>5
  <2>10. first[right] = (p + 1) + 1
    BY <2>1, <1>5
  <2> QED
    BY <2>5, <2>7, <2>8, <2>9, <2>10, <1>4, <1>8, <1>9 DEF Walked
<1> QED
  BY <1>16, <1>17

LEMMA WalkedRound ==
  ASSUME NEW t, NEW sub, NEW here, LinksOK(t), Forest(t, sub),
         NEW order, NEW first, NEW pos, NEW last, Placed(t, here, order, first, pos, last),
         NEW k \in Nat, NEW a, Walked(here, order, first, pos, last, k, a)
  PROVE  Walked(here, order, first, pos, last, k + 1, InOrderStep(t, a))
<1>1. PICK b : b = InOrderStep(t, a)
  OBVIOUS
<1>2. a \in Walks /\ a.down \in BOOLEAN
  BY DEF Walked, Walks
<1>3. b \in Walks
  BY <1>1, <1>2, WalkStep
<1>4. CASE a.stack = <<>>
  <2>1. b = a
    BY <1>1, <1>2, <1>4, WalkStep
  <2>2. Walked(here, order, first, pos, last, k + 1, a)
    BY <1>4 DEF Walked
  <2> QED
    BY <2>1, <2>2, <1>1
<1>5. CASE a.stack # <<>>
  <2>1. PICK top \in Nodes, left \in Cells, right \in Cells :
          /\ top = a.stack[Len(a.stack)]
          /\ left = t.child["left"][top] /\ right = t.child["right"][top]
          /\ a.down => /\ b.stack = Push(a.stack, left) /\ b.down = (left # NIL)
                       /\ b.printed = a.printed
          /\ ~a.down => /\ b.stack = Push(Pop(a.stack), right) /\ b.down = (right # NIL)
                        /\ b.printed = Append(a.printed, top)
    BY <1>1, <1>2, <1>5, WalkStep
  <2>2. CASE a.down
    <3>1. Walked(here, order, first, pos, last, k + 1, b)
      BY <2>1, <2>2, <1>3, <1>5, WalkedDown
    <3> QED
      BY <3>1, <1>1
  <2>3. CASE ~a.down
    <3>1. Walked(here, order, first, pos, last, k + 1, b)
      BY <2>1, <2>3, <1>3, <1>5, WalkedUp
    <3> QED
      BY <3>1, <1>1
  <2> QED
    BY <2>2, <2>3
<1> QED
  BY <1>4, <1>5

\* Each node is pushed in one round and popped in one, so the rounds are enough.
LEMMA WalkedEnd ==
  ASSUME NEW t, NEW here, NEW order, NEW first, NEW pos, NEW last, Placed(t, here, order, first, pos, last),
         NEW k \in Nat, NEW a, Walked(here, order, first, pos, last, k, a), 2 * Len(order) <= k
  PROVE  a.printed = order
<1>1. PICK N \in Nat : N = Len(order)
  BY DEF Placed
<1>2. PICK p \in Nat : p = Len(a.printed)
  BY DEF Walked, Walks
<1>3. p <= N /\ (\A i \in 1..p : a.printed[i] = order[i]) /\ (a.stack = <<>> => p = N)
  BY <1>1, <1>2 DEF Walked
<1>4. ASSUME a.stack # <<>> PROVE FALSE
  <2>1. PICK stack \in Seq(Nodes) : stack = a.stack /\ stack # <<>>
    BY <1>4 DEF Walked, Stacked
  <2>2. PICK m \in Nat \ {0} : m = Len(stack)
    BY <2>1, PopIs
  <2>3. /\ Stacked(here, N, pos, last, stack)
        /\ IF a.down THEN k = 2 * p + m - 1 /\ first[stack[m]] = p + 1
           ELSE k = 2 * p + m - 0 /\ pos[stack[m]] = p + 1
    BY <2>1, <2>2, <1>1, <1>2 DEF Walked
  <2>4. 1 \in 1..m /\ m \in 1..m /\ 1 <= m
    BY <2>2
  <2>5. PICK top : top = stack[m]
    OBVIOUS
  <2>6. PICK bottom : bottom = stack[1]
    OBVIOUS
  <2>7. top \in here /\ bottom \in here /\ pos[top] + m <= pos[bottom] + 1
    BY <2>2, <2>3, <2>4, <2>5, <2>6 DEF Stacked
  <2>8. PlaceOf(t, here, first, pos, last, top) /\ PlaceOf(t, here, first, pos, last, bottom)
        /\ last[bottom] <= N
    BY <2>7, <1>1 DEF Placed
  <2>9. pos[top] \in Nat /\ pos[bottom] \in Nat /\ last[bottom] \in Nat /\ first[top] \in Nat
        /\ first[top] <= pos[top] /\ pos[bottom] <= last[bottom]
    BY <2>8 DEF PlaceOf
  <2>10. p + 1 <= pos[top] /\ k <= 2 * p + m
    <3>1. CASE a.down
      <4>1. k = 2 * p + m - 1 /\ first[top] = p + 1
        BY <3>1, <2>3, <2>5
      <4> QED
        BY <4>1, <2>9
    <3>2. CASE ~a.down
      <4>1. k = 2 * p + m - 0 /\ pos[top] = p + 1
        BY <3>2, <2>3, <2>5
      <4> QED
        BY <4>1, <2>9
    <3> QED
      BY <3>1, <3>2
  <2>11. p + m <= N
    <3>1. PICK x \in Nat : x = pos[top]
      BY <2>9
    <3>2. PICK y \in Nat : y = pos[bottom]
      BY <2>9
    <3>3. y <= N
      <4>1. PICK z \in Nat : z = last[bottom]
        BY <2>9
      <4> QED
        BY <4>1, <3>2, <2>8, <2>9
    <3>4. x + m <= y + 1 /\ p + 1 <= x
      BY <3>1, <3>2, <2>7, <2>10
    <3> QED
      BY <3>3, <3>4
  <2>12. 2 * N <= k
    BY <1>1
  <2> QED
    BY <2>2, <2>10, <2>11, <2>12
<1>5. a.printed \in Seq(Nodes) /\ order \in Seq(Nodes)
  BY DEF Walked, Walks, Placed
<1>6. Len(a.printed) = Len(order) /\ \A i \in 1..Len(order) : a.printed[i] = order[i]
  BY <1>1, <1>2, <1>3, <1>4
<1> QED
  BY <1>5, <1>6, SeqEqual

LEMMA WalkPrints ==
  ASSUME NEW t, NEW here, HasLaws(t, here)
  PROVE  in_order(t) = in_order_core(t)
<1>1. PICK sub : LinksOK(t) /\ Forest(t, sub) /\ Sorted(t, sub) /\ Rooted(t, sub, here)
  BY DEF HasLaws, Whole, Shape
<1>2. PICK list \in [Cells -> Seq(Nodes)] : /\ \A n \in Cells : list[n] = ListStep(t, list, n)
                                            /\ in_order_core(t) = list[t.root]
  BY <1>1, ListIs
<1>3. PICK order : order = list[t.root]
  OBVIOUS
<1>4. HasPlaces(t, here, order)
  BY <1>1, <1>2, <1>3, PlacesFound
<1>5. PICK first, pos, last : Placed(t, here, order, first, pos, last)
  BY <1>4 DEF HasPlaces
<1>6. PICK N \in Nat : N = 3 * Cardinality(Nodes)
  BY NodesAreFinite
<1>7. PICK f \in [0..N -> Walks] : /\ f[0] = WalkStart(t)
                                   /\ \A k \in 0..N - 1 : f[k + 1] = InOrderStep(t, f[k])
                                   /\ in_order(t) = f[N].printed
  BY <1>1, <1>6, WalkIs
<1>8. t.root \in Cells
  BY <1>1 DEF LinksOK, Trees
<1>9. PICK A : A = {k \in Nat : k \in 0..N => Walked(here, order, first, pos, last, k, f[k])}
  OBVIOUS
<1>10. 0 \in A
  BY <1>5, <1>7, <1>8, <1>9, WalkedStart
<1>11. ASSUME NEW k \in Nat, k \in A PROVE k + 1 \in A
  <2>1. ASSUME k + 1 \in 0..N PROVE Walked(here, order, first, pos, last, k + 1, f[k + 1])
    <3>1. k \in 0..N /\ k \in 0..N - 1
      BY <2>1
    <3>2. Walked(here, order, first, pos, last, k, f[k])
      BY <3>1, <1>9, <1>11
    <3>3. Walked(here, order, first, pos, last, k + 1, InOrderStep(t, f[k]))
      BY <3>2, <1>1, <1>5, WalkedRound
    <3> QED
      BY <3>1, <3>3, <1>7
  <2> QED
    BY <2>1, <1>9
<1>12. Walked(here, order, first, pos, last, N, f[N])
  <2>1. Nat \subseteq A
    BY <1>10, <1>11, EveryNumber
  <2>2. N \in 0..N
    OBVIOUS
  <2> QED
    BY <2>1, <2>2, <1>9
<1>13. 2 * Len(order) <= N
  <2>1. Lists(order, here)
    BY <1>2, <1>3, OrderIs
  <2>2. Len(order) = Cardinality(here) /\ here \in SUBSET Nodes
    BY <2>1, <1>1 DEF Lists, Rooted
  <2>3. Cardinality(here) \in 0..Cardinality(Nodes) /\ Cardinality(Nodes) \in Nat
    BY <2>2, NodesAreFinite
  <2> QED
    BY <2>2, <2>3, <1>6
<1>14. f[N].printed = order
  BY <1>5, <1>12, <1>13, WalkedEnd
<1> QED
  BY <1>2, <1>3, <1>7, <1>14

\* in_order (rb_tree_ini.hpp:350-383) prints with its stack what the recursive
\* in_order_r prints, for any tree the operations can leave.
THEOREM TreePrints == TreeSpec => []PrintsInOrder
<1>1. TreeInv => PrintsInOrder
  <2> SUFFICES ASSUME TreeInv PROVE PrintsInOrder
    OBVIOUS
  <2>1. HasLaws(tree, present)
    BY DEF TreeInv
  <2>2. in_order(tree) = in_order_core(tree)
    BY <2>1, WalkPrints
  <2> QED
    BY <2>2 DEF PrintsInOrder
<1> QED
  BY <1>1, TreeInvariant, PTL
=============================================================================
