------------------------------- MODULE RbTree --------------------------------
(***************************************************************************)
(* The red-black trees of src/rb_tree.  The three headers repeat one       *)
(* structure: rb_tree keeps only the order, os_tree the size of every      *)
(* subtree besides, int_tree the greatest right end of the intervals in    *)
(* it.  One model carries the fields of all three.  As in test.cpp, the    *)
(* only caller, an interval's left end is the node's data.                 *)
(*                                                                         *)
(* insert and remove are one step up to their fixup, and each round of a   *)
(* fixup is a step.  The mirrored branches of the code are one definition  *)
(* with a side.  Reading a field through a null pointer ends the program.  *)
(***************************************************************************)
EXTENDS Integers, Sequences, FiniteSets, FiniteSetsExt

CONSTANTS
  Nodes,   \* the nodes that can be allocated
  Data,    \* the data of each node
  High,    \* the right end of its interval
  NIL,     \* the sentinel NIL_NODE
  Null     \* the null pointer

ASSUME TreeAssumption ==
  /\ IsFiniteSet(Nodes) /\ Nodes \subseteq Nat
  /\ NIL \notin Nodes /\ Null \notin Nodes \cup {NIL}
  /\ Data \in [Nodes -> Nat]
  /\ High \in [Nodes -> Nat] /\ \A n \in Nodes : Data[n] <= High[n]

VARIABLES
  tree,     \* the root and the fields of the nodes
  present,  \* the nodes in the tree, by the operations done
  pc,       \* the loop the program is in
  node      \* the node a fixup is at

treeVars == <<tree, present, pc, node>>

Cells == Nodes \cup {NIL}
Keys == {Data[n] : n \in Nodes}
Sides == {"left", "right"}
Other(s) == IF s = "left" THEN "right" ELSE "left"

\* The links of a node that is not allocated are those it is made with.
EmptyTree ==
  [root |-> NIL,
   child |-> [s \in Sides |-> [n \in Cells |-> IF n = NIL THEN Null ELSE NIL]],
   parent |-> [n \in Cells |-> IF n = NIL THEN Null ELSE NIL],
   color |-> [n \in Cells |-> "BLACK"],
   size |-> [n \in Cells |-> 0],
   max_high |-> [n \in Cells |-> 0],
   fault |-> FALSE]

-----------------------------------------------------------------------------
(* Reading a tree.                                                         *)

\* A node that search_node stops at: its data, or nothing below.
search_node(t, d) ==
  LET from[n \in Cells] ==
        IF n = NIL \/ Data[n] = d THEN n
        ELSE IF d < Data[n] THEN from[t.child["left"][n]] ELSE from[t.child["right"][n]]
  IN from[t.root]

\* Where insert puts new data: the last node of its descent. Equal data go right.
Descent(t, d) ==
  LET side(n) == IF d < Data[n] THEN "left" ELSE "right"
      from[n \in Nodes] == LET next == t.child[side(n)][n] IN IF next = NIL THEN n ELSE from[next]
  IN IF t.root = NIL THEN NIL ELSE from[t.root]

min_node(t, n) ==
  LET from[m \in Nodes] == IF t.child["left"][m] = NIL THEN m ELSE from[t.child["left"][m]]
  IN from[n]

\* A node and the nodes above it.
Upward(t, n) ==
  LET from[m \in Cells] == IF m = NIL THEN {} ELSE {m} \cup from[t.parent[m]]
  IN from[n]

\* The node with k - 1 nodes before it, or null.
search_k(t, k) ==
  LET rank(n) == t.size[t.child["left"][n]] + 1
      from[n \in Cells] ==
        [i \in 0..Cardinality(Nodes) + 1 |->
           IF n = NIL THEN Null
           ELSE IF i = rank(n) THEN n
           ELSE IF i < rank(n) THEN from[t.child["left"][n]][i]
           ELSE from[t.child["right"][n]][i - rank(n)]]
  IN from[t.root][k]

is_overlap(low_1, high_1, low_2, high_2) == ~(high_1 < low_2) /\ ~(high_2 < low_1)

\* A node whose interval meets low..high, or NIL.
int_search(t, low, high) ==
  LET left(n) == t.child["left"][n]
      from[n \in Cells] ==
        IF n = NIL \/ is_overlap(low, high, Data[n], High[n]) THEN n
        ELSE IF left(n) # NIL /\ t.max_high[left(n)] >= low THEN from[left(n)]
        ELSE from[t.child["right"][n]]
  IN from[t.root]

\* The nodes in the order of in_order_r.
in_order_core(t) ==
  LET from[n \in Cells] ==
        IF n = NIL THEN <<>>
        ELSE from[t.child["left"][n]] \o <<n>> \o from[t.child["right"][n]]
  IN from[t.root]

\* in_order's loop: it pushes left children; when there is none it pops and prints
\* until a node has a right child, which it pushes.
Child(t, n, s) == t.child[s][n]
Push(stack, n) == IF n = NIL THEN stack ELSE Append(stack, n)
Pop(stack) == SubSeq(stack, 1, Len(stack) - 1)

\* Mutant: after a right child it goes on printing.
InOrderStepNoBreak(t, at) ==
  LET top == at.stack[Len(at.stack)]
      left == Child(t, top, "left")
  IN IF at.stack = <<>> THEN at
     ELSE IF at.down
     THEN [at EXCEPT !.stack = Push(@, left), !.down = left # NIL]
     ELSE [stack |-> Push(Pop(at.stack), Child(t, top, "right")), down |-> FALSE,
           printed |-> Append(at.printed, top)]

InOrderStep(t, at) ==
  LET top == at.stack[Len(at.stack)]
      left == Child(t, top, "left")
      right == Child(t, top, "right")
  IN IF at.stack = <<>> THEN at
     ELSE IF at.down
     THEN [at EXCEPT !.stack = Push(@, left), !.down = left # NIL]
     ELSE [stack |-> Push(Pop(at.stack), right), down |-> right # NIL,
           printed |-> Append(at.printed, top)]

in_order(t) ==
  LET after[k \in 0..3 * Cardinality(Nodes)] ==
        IF k = 0 THEN [stack |-> Push(<<>>, t.root), down |-> TRUE, printed |-> <<>>]
        ELSE InOrderStep(t, after[k - 1])
  IN after[3 * Cardinality(Nodes)].printed

-----------------------------------------------------------------------------
(* Changing one.                                                           *)

\* GET_MAX_HIGH
MaxHigh(high, child, n) == Max({high[child["left"][n]], high[child["right"][n]], High[n]})

\* Mutant: the loop tests for the sentinel after the body.
CountUpwardThroughSentinel(t, n, by) ==
  [t EXCEPT !.size = [m \in Cells |-> IF m \in Upward(t, n) \cup {NIL} THEN @[m] + by ELSE @[m]]]

\* os_tree: one more or one less in every subtree above.
CountUpward(t, n, by) ==
  [t EXCEPT !.size = [m \in Cells |-> IF m \in Upward(t, n) THEN @[m] + by ELSE @[m]]]

\* int_tree: the maxima above, from below.
RefreshUpward(t, n) ==
  LET high[m \in Cells] ==
        IF m \in Upward(t, n) THEN MaxHigh(high, t.child, m) ELSE t.max_high[m]
  IN [t EXCEPT !.max_high = [m \in Cells |-> high[m]]]

\* Puts v in the place of u below u's parent, and v's parent is that.
PutBelow(t, u, v) ==
  LET p == t.parent[u]
  IN IF p = NIL THEN [t EXCEPT !.root = v]
     ELSE IF u = t.child["left"][p] THEN [t EXCEPT !.child["left"][p] = v]
     ELSE [t EXCEPT !.child["right"][p] = v]

\* v may be the sentinel: then its parent is set as well.
transplant(t, u, v) == [PutBelow(t, u, v) EXCEPT !.parent[v] = t.parent[u]]

\* Mutants: a rotation that updates only one of its nodes.
SizeOfUpperOnly(t, x, y) == [t EXCEPT !.size[y] = t.size[x]]
MaxHighOfLowerOnly(t, x, y) == [t EXCEPT !.max_high[x] = MaxHigh(t.max_high, t.child, x)]

\* Size and maximum of the two nodes of a rotation, x now below y.
SizeAfterRotate(t, x, y) ==
  [t EXCEPT !.size[y] = t.size[x],
            !.size[x] = t.size[t.child["left"][x]] + t.size[t.child["right"][x]] + 1]

MaxHighAfterRotate(t, x, y) ==
  [t EXCEPT !.max_high[y] = t.max_high[x], !.max_high[x] = MaxHigh(t.max_high, t.child, x)]

\* x goes down on side s, its other child y takes its place.
Rotate(t, x, s) ==
  LET y == t.child[Other(s)][x]
      inner == t.child[s][y]
      moved == [PutBelow(t, x, y) EXCEPT !.parent[y] = t.parent[x]]
      turned == [moved EXCEPT !.child[Other(s)][x] = inner, !.child[s][y] = x,
                              !.parent[x] = y]
      linked == IF inner = NIL THEN turned ELSE [turned EXCEPT !.parent[inner] = x]
  IN IF y = NIL THEN [t EXCEPT !.fault = TRUE]   \* temp->left->parent, temp the sentinel
     ELSE MaxHighAfterRotate(SizeAfterRotate(linked, x, y), x, y)

left_rotate(t, x) == Rotate(t, x, "left")
right_rotate(t, x) == Rotate(t, x, "right")
RotateTo(t, x, s) == IF s = "left" THEN left_rotate(t, x) ELSE right_rotate(t, x)

Recolor(t, nodes, c) ==
  [t EXCEPT !.color = [n \in Cells |-> IF n \in nodes THEN c ELSE @[n]]]

\* Only the removal that set the sentinel's parent reads it: it is forgotten after.
AtEnd(t) == [t EXCEPT !.parent[NIL] = Null]

-----------------------------------------------------------------------------
(* insert.                                                                 *)

FreeNodes(d) == {n \in Nodes \ present : Data[n] = d}
NewNode(d) == Min(FreeNodes(d))

\* The new node is red and below the last node of the descent.
Attach(t, n, p) ==
  LET s == IF Data[n] < Data[p] THEN "left" ELSE "right"
      fresh == [t EXCEPT !.child = [r \in Sides |-> [@[r] EXCEPT ![n] = NIL]],
                         !.parent[n] = p, !.color[n] = "RED",
                         !.size[n] = 1, !.max_high[n] = High[n]]
  IN IF p = NIL THEN [fresh EXCEPT !.root = n] ELSE [fresh EXCEPT !.child[s][p] = n]

insert(d) ==
  /\ pc = "idle" /\ FreeNodes(d) # {}
  /\ LET n == NewNode(d)
         p == Descent(tree, d)
         t == Attach(tree, n, p)
     IN /\ tree' = RefreshUpward(CountUpward(t, p, 1), p)
        /\ present' = present \cup {n}
        /\ node' = n
  /\ pc' = "insert_fixup"

\* The side of n below its parent. With no child on either side it is the left.
Side(t, n) == IF n = t.child["left"][t.parent[n]] THEN "left" ELSE "right"

\* The loop's body up to the rotation about the grandparent, with the parent on
\* side s. After a red uncle the code goes on with the grandparent.
Uncle(t, n) == t.child[Other(Side(t, t.parent[n]))][t.parent[t.parent[n]]]
PastUncle(t, n) ==
  LET p == t.parent[n]
      s == Side(t, p)
  IN IF t.color[Uncle(t, n)] = "RED"
     THEN [tree |-> Recolor(Recolor(t, {p, Uncle(t, n)}, "BLACK"), {t.parent[p]}, "RED"),
           node |-> t.parent[p]]
     ELSE IF n = t.child[Other(s)][p] THEN [tree |-> RotateTo(t, p, s), node |-> p]
     ELSE [tree |-> t, node |-> n]

\* The rotation that follows either way, whatever the colour of the parent.
RaiseParent(t, n, s) ==
  LET p == t.parent[n]
      g == t.parent[p]
      black == Recolor(t, {p}, "BLACK")
  IN IF p = NIL THEN t
     ELSE IF g = NIL THEN black
     ELSE RotateTo(Recolor(black, {g}, "RED"), g, Other(s))

\* A red parent is not the root: the loop finds the root black.
RedParent == tree.color[tree.parent[node]] = "RED"
AfterFault(t, next) == IF t.fault THEN "crashed" ELSE next

InsertFixupRound ==
  /\ pc = "insert_fixup" /\ RedParent
  /\ LET past == PastUncle(tree, node)
     IN /\ tree' = RaiseParent(past.tree, past.node, Side(tree, tree.parent[node]))
        /\ node' = past.node
  /\ pc' = AfterFault(tree', pc)
  /\ UNCHANGED present

InsertFixupEnd ==
  /\ pc = "insert_fixup" /\ ~RedParent
  /\ tree' = AtEnd(Recolor(tree, {tree.root}, "BLACK"))
  /\ pc' = "idle" /\ node' = NIL
  /\ UNCHANGED present

-----------------------------------------------------------------------------
(* remove.                                                                 *)

BothChildren(t, x) == NIL \notin {t.child[s][x] : s \in Sides}
Successor(t, x) == min_node(t, t.child["right"][x])

\* The node that leaves its place, and the one that takes it.
Leaving(t, x) == IF BothChildren(t, x) THEN Successor(t, x) ELSE x
FixupNode(t, x) ==
  LET y == Leaving(t, x)
  IN IF t.child["left"][y] = NIL THEN t.child["right"][y] ELSE t.child["left"][y]

\* Mutant: the left child keeps its old parent.
ReplaceOneWay(t, x, y) ==
  LET right == t.child["right"][x]
      freed == IF t.parent[y] = x THEN [t EXCEPT !.parent[t.child["right"][y]] = y]
               ELSE [transplant(t, y, t.child["right"][y])
                       EXCEPT !.child["right"][y] = right, !.parent[right] = y]
  IN [transplant(freed, x, y) EXCEPT !.child["left"][y] = t.child["left"][x],
                                     !.color[y] = t.color[x], !.size[y] = t.size[x]]

\* The successor y of x gets x's place, children, colour and size.
ReplaceBySuccessor(t, x, y) ==
  LET apart == transplant(t, y, t.child["right"][y])
      right == t.child["right"][x]
      freed == IF t.parent[y] = x
               THEN [t EXCEPT !.parent[t.child["right"][y]] = y]
               ELSE [apart EXCEPT !.child["right"][y] = right, !.parent[right] = y]
      left == t.child["left"][x]
  IN [transplant(freed, x, y) EXCEPT !.child["left"][y] = left, !.parent[left] = y,
                                     !.color[y] = t.color[x], !.size[y] = t.size[x]]

\* Nobody points to the node: it is as it was before it was made.
Free(t, x) ==
  [t EXCEPT !.child = [s \in Sides |-> [@[s] EXCEPT ![x] = NIL]], !.parent[x] = NIL,
            !.color[x] = "BLACK", !.size[x] = 0, !.max_high[x] = 0]

Unlink(t, x) ==
  IF BothChildren(t, x) THEN ReplaceBySuccessor(t, x, Successor(t, x))
  ELSE transplant(t, x, FixupNode(t, x))

remove(d) ==
  /\ pc = "idle"
  /\ LET x == search_node(tree, d)
         f == FixupNode(tree, x)
         t == Free(Unlink(tree, x), x)
         p == t.parent[f]
     IN /\ x # NIL
        /\ present' = present \ {x}
        /\ LET removed == RefreshUpward(CountUpward(t, p, -1), p)
           IN IF tree.color[Leaving(tree, x)] = "BLACK"
              THEN tree' = removed /\ pc' = "remove_fixup" /\ node' = f
              ELSE tree' = AtEnd(removed) /\ UNCHANGED <<pc, node>>

\* A red brother is rotated above the parent first.
BlackBrother(t, n, s) ==
  LET p == t.parent[n]
      b == Child(t, p, Other(s))
  IN IF t.color[b] = "RED"
     THEN RotateTo(Recolor(Recolor(t, {b}, "BLACK"), {p}, "RED"), p, s)
     ELSE t

\* The brother b has two black children; or the far one is black; or it is red.
RemoveCases(t, n, s) ==
  LET p == t.parent[n]
      b == Child(t, p, Other(s))
      black(r) == t.color[Child(t, b, r)] = "BLACK"
      near == Recolor(Recolor(t, {Child(t, b, s)}, "BLACK"), {b}, "RED")
      far == [Recolor(t, {p, Child(t, b, Other(s))}, "BLACK") EXCEPT !.color[b] = t.color[p]]
      last == RotateTo(far, p, s)
  IN IF b = NIL THEN [tree |-> [t EXCEPT !.fault = TRUE], node |-> n]   \* brother->left->color
     ELSE IF black(s) /\ black(Other(s)) THEN [tree |-> Recolor(t, {b}, "RED"), node |-> p]
     ELSE IF black(Other(s)) THEN [tree |-> RotateTo(near, b, Other(s)), node |-> n]
     ELSE [tree |-> last, node |-> last.root]

MustGoOn == node # tree.root /\ tree.color[node] = "BLACK"

RemoveFixupRound ==
  /\ pc = "remove_fixup" /\ MustGoOn
  /\ LET s == Side(tree, node)
         after == RemoveCases(BlackBrother(tree, node, s), node, s)
     IN tree' = after.tree /\ node' = after.node
  /\ pc' = AfterFault(tree', pc)
  /\ UNCHANGED present

RemoveFixupEnd ==
  /\ pc = "remove_fixup" /\ ~MustGoOn
  /\ tree' = AtEnd(Recolor(tree, {node}, "BLACK"))
  /\ pc' = "idle" /\ node' = NIL
  /\ UNCHANGED present

-----------------------------------------------------------------------------
TreeInit == tree = EmptyTree /\ present = {} /\ pc = "idle" /\ node = NIL

TreeNext ==
  \/ \E d \in Keys : insert(d) \/ remove(d)
  \/ InsertFixupRound \/ InsertFixupEnd
  \/ RemoveFixupRound \/ RemoveFixupEnd

TreeSpec == TreeInit /\ [][TreeNext]_treeVars

-----------------------------------------------------------------------------
AtRest == pc = "idle"

TreeTypeOK ==
  /\ tree.root \in Cells /\ tree.fault \in BOOLEAN
  /\ tree.child \in [Sides -> [Cells -> Cells \cup {Null}]]
  /\ tree.parent \in [Cells -> Cells \cup {Null}]
  /\ tree.color \in [Cells -> {"RED", "BLACK"}] /\ tree.color[NIL] = "BLACK"
  /\ tree.size \in [Cells -> 0..Cardinality(Nodes)] /\ tree.size[NIL] = 0
  /\ tree.max_high \in [Cells -> Nat] /\ tree.max_high[NIL] = 0
  /\ present \subseteq Nodes /\ node \in Cells
  /\ pc \in {"idle", "insert_fixup", "remove_fixup", "crashed"}

\* Between two operations the tree lists every node inserted and not removed, once
\* and in order, and the parents are those of the children: no rotation or
\* transplant (rb_tree_ini.hpp:119-138, 292-348) loses a subtree.
ContentsKept ==
  AtRest =>
    LET order == in_order_core(tree)
    IN /\ {order[i] : i \in DOMAIN order} = present /\ Len(order) = Cardinality(present)
       /\ \A i \in 1..Len(order) - 1 : Data[order[i]] <= Data[order[i + 1]]
       /\ \A n \in present, s \in Sides :
            Child(tree, n, s) # NIL => tree.parent[Child(tree, n, s)] = n

\* search_k (os_tree_ini.hpp:428-448) finds the k-th node through the sizes that insert,
\* remove and every rotation keep, and nothing for any other k.
RanksRight ==
  AtRest =>
    LET order == in_order_core(tree)
    IN \A k \in 0..Len(order) + 1 :
         search_k(tree, k) = IF k \in DOMAIN order THEN order[k] ELSE Null

\* A search finds data when it is there, and an interval that overlaps when there is
\* one, through the maxima that insert, remove and every rotation keep
\* (int_tree_ini.hpp:434-460). Interval ends are not negative, as in test.cpp.
SearchesRight ==
  AtRest =>
    /\ \A d \in Keys : (search_node(tree, d) # NIL) <=> (\E n \in present : Data[n] = d)
    /\ \A low \in Keys, high \in {High[n] : n \in Nodes} :
         LET found == int_search(tree, low, high)
             meets == {n \in present : is_overlap(low, high, Data[n], High[n])}
         IN low <= high => IF meets = {} THEN found = NIL ELSE found \in meets

\* What in_order (rb_tree_ini.hpp:350-383) prints with its stack is what the recursive
\* in_order_r prints.
PrintsInOrder == AtRest => in_order(tree) = in_order_core(tree)

\* rb_tree.hpp:35-36: the sentinel's children do not matter, it makes the
\* borders easy. So nothing is read through them.
SentinelChildrenUnread == pc # "crashed"

=============================================================================
