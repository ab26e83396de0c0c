----------------------------- MODULE SnakeProofs -----------------------------
(***************************************************************************)
(* Proofs about the boards of the game, for maps of every size, any number *)
(* of clients and whatever options the players type.                       *)
(***************************************************************************)
EXTENDS Snake, FiniteSetTheorems, SequenceTheorems, TLAPS

-----------------------------------------------------------------------------
(* Sequences and the positions a cell has in them.                         *)

LEMMA PositionsFinite ==
  ASSUME NEW s \in Seq(Cells), NEW cell
  PROVE  /\ IsFiniteSet(Positions(s, cell))
         /\ Cardinality(Positions(s, cell)) \in Nat
<1>1. Positions(s, cell) \subseteq 1..Len(s) /\ Len(s) \in Nat
  BY DEF Positions
<1>2. IsFiniteSet(1..Len(s))
  BY <1>1, FS_Interval
<1>3. IsFiniteSet(Positions(s, cell))
  BY <1>1, <1>2, FS_Subset
<1> QED BY <1>3, FS_CardinalityType

LEMMA PositionsOfAppend ==
  ASSUME NEW s \in Seq(Cells), NEW t \in Cells, NEW cell
  PROVE  Cardinality(Positions(Append(s, t), cell)) =
           Cardinality(Positions(s, cell)) + (IF t = cell THEN 1 ELSE 0)
<1>1. Len(s) \in Nat /\ DOMAIN s = 1..Len(s)
  OBVIOUS
<1>2. /\ DOMAIN Append(s, t) = 1..Len(s) + 1
      /\ Append(s, t)[Len(s) + 1] = t
      /\ \A i \in 1..Len(s) : Append(s, t)[i] = s[i]
  OBVIOUS
<1>3. CASE t = cell
  <2>1. Positions(Append(s, t), cell) = Positions(s, cell) \cup {Len(s) + 1}
    BY <1>1, <1>2, <1>3 DEF Positions
  <2>2. Len(s) + 1 \notin Positions(s, cell)
    BY <1>1 DEF Positions
  <2> QED BY <1>3, <2>1, <2>2, PositionsFinite, FS_AddElement
<1>4. CASE t # cell
  <2>1. Positions(Append(s, t), cell) = Positions(s, cell)
    BY <1>1, <1>2, <1>4 DEF Positions
  <2> QED BY <1>4, <2>1, PositionsFinite
<1> QED BY <1>3, <1>4

LEMMA PositionsOfFront ==
  ASSUME NEW s \in Seq(Cells), s # <<>>, NEW cell
  PROVE  /\ SubSeq(s, 1, Len(s) - 1) \in Seq(Cells)
         /\ Last(s) \in Cells
         /\ Cardinality(Positions(SubSeq(s, 1, Len(s) - 1), cell)) =
              Cardinality(Positions(s, cell)) - (IF Last(s) = cell THEN 1 ELSE 0)
<1> DEFINE front == SubSeq(s, 1, Len(s) - 1)
<1>1. Len(s) \in Nat /\ Len(s) > 0 /\ DOMAIN s = 1..Len(s)
  OBVIOUS
<1>2. front \in Seq(Cells) /\ Len(front) = Len(s) - 1 /\ \A i \in 1..Len(s) - 1 : front[i] = s[i]
  BY <1>1
<1>3. Last(s) \in Cells
  BY <1>1 DEF Last
<1>4. Append(front, Last(s)) = s
  BY <1>1, <1>2 DEF Last
<1> HIDE DEF front
<1>5. Cardinality(Positions(Append(front, Last(s)), cell)) =
        Cardinality(Positions(front, cell)) + (IF Last(s) = cell THEN 1 ELSE 0)
  BY <1>2, <1>3, PositionsOfAppend
<1>6. Cardinality(Positions(front, cell)) \in Nat
  BY <1>2, PositionsFinite
<1>7. Cardinality(Positions(front, cell)) =
        Cardinality(Positions(s, cell)) - (IF Last(s) = cell THEN 1 ELSE 0)
  BY <1>4, <1>5, <1>6
<1> QED BY <1>2, <1>3, <1>7 DEF front

\* A node put before the others moves their positions up by one.
LEMMA PositionsOfPrepend ==
  ASSUME NEW s \in Seq(Cells), NEW t \in Cells, NEW cell
  PROVE  Cardinality(Positions(<<t>> \o s, cell)) =
           Cardinality(Positions(s, cell)) + (IF t = cell THEN 1 ELSE 0)
<1> DEFINE up == {i + 1 : i \in Positions(s, cell)}
           f == [i \in Positions(s, cell) |-> i + 1]
<1>1. Len(s) \in Nat /\ DOMAIN s = 1..Len(s)
  OBVIOUS
<1>2. /\ DOMAIN (<<t>> \o s) = 1..Len(s) + 1
      /\ (<<t>> \o s)[1] = t
      /\ \A i \in 1..Len(s) : (<<t>> \o s)[i + 1] = s[i]
  OBVIOUS
<1>3. Positions(s, cell) \subseteq 1..Len(s)
  BY <1>1 DEF Positions
<1>4. f \in Bijection(Positions(s, cell), up)
  BY <1>1, <1>3 DEF Bijection, Injection, Surjection, IsInjective
<1>5. IsFiniteSet(up) /\ Cardinality(up) = Cardinality(Positions(s, cell))
  BY <1>4, PositionsFinite, FS_Bijection DEF ExistsBijection
<1>6. 1 \notin up
  BY <1>1, <1>3
<1>7. \A i \in 2..Len(s) + 1 : (<<t>> \o s)[i] = s[i - 1]
  BY <1>1, <1>2
<1>8. CASE t = cell
  <2>1. Positions(<<t>> \o s, cell) = up \cup {1}
    <3>1. ASSUME NEW i \in Positions(<<t>> \o s, cell) PROVE i \in up \cup {1}
      <4>1. CASE i = 1
        BY <4>1
      <4>2. CASE i # 1
        <5>1. i \in 2..Len(s) + 1 /\ s[i - 1] = cell
          BY <1>1, <1>2, <1>7, <3>1, <4>2 DEF Positions
        <5>2. i - 1 \in Positions(s, cell) /\ i = (i - 1) + 1
          BY <1>1, <5>1 DEF Positions
        <5> QED BY <5>2
      <4> QED BY <4>1, <4>2
    <3>2. ASSUME NEW i \in Positions(s, cell) PROVE i + 1 \in Positions(<<t>> \o s, cell)
      BY <1>1, <1>2, <3>2 DEF Positions
    <3>3. 1 \in Positions(<<t>> \o s, cell)
      BY <1>1, <1>2, <1>8 DEF Positions
    <3>4. up \subseteq Positions(<<t>> \o s, cell)
      BY <3>2
    <3> HIDE DEF up
    <3> QED BY <3>1, <3>3, <3>4
  <2> HIDE DEF up, f
  <2>2. Cardinality(up \cup {1}) = Cardinality(up) + 1
    BY <1>5, <1>6, FS_AddElement
  <2> QED BY <1>5, <1>8, <2>1, <2>2
<1>9. CASE t # cell
  <2>1. Positions(<<t>> \o s, cell) = up
    <3>1. ASSUME NEW i \in Positions(<<t>> \o s, cell) PROVE i \in up
      <4>1. i \in 2..Len(s) + 1 /\ s[i - 1] = cell
        BY <1>1, <1>2, <1>7, <1>9, <3>1 DEF Positions
      <4>2. i - 1 \in Positions(s, cell) /\ i = (i - 1) + 1
        BY <1>1, <4>1 DEF Positions
      <4> QED BY <4>2
    <3>2. ASSUME NEW i \in Positions(s, cell) PROVE i + 1 \in Positions(<<t>> \o s, cell)
      BY <1>1, <1>2, <3>2 DEF Positions
    <3>3. up \subseteq Positions(<<t>> \o s, cell)
      BY <3>2
    <3> HIDE DEF up
    <3> QED BY <3>1, <3>3
  <2> HIDE DEF up, f
  <2>2. Cardinality(Positions(s, cell)) \in Nat
    BY PositionsFinite
  <2> QED BY <1>5, <1>9, <2>1, <2>2
<1> QED BY <1>8, <1>9

-----------------------------------------------------------------------------
(* What each change of a board does to its map, its overlaps and its food. *)

Boards ==
  [map : [Cells -> {"BLANK", "BORDER", "SNAKE", "FOOD"}],
   overlap : [Cells -> Nat],
   snakes : [Players -> Seq(Cells)]]

\* The overlaps count the nodes, and the map shows a snake where one is.
Counted(b) ==
  \A cell \in Cells : /\ b.overlap[cell] = NodesOn(b, cell)
                      /\ b.map[cell] = "SNAKE" <=> b.overlap[cell] > 0

FoodAt(b) == {cell \in Cells : b.map[cell] = "FOOD"}

\* EXCEPT, one field at a time.
IsBoard(b) == b = [map |-> b.map, overlap |-> b.overlap, snakes |-> b.snakes]

LEMMA SetField ==
  ASSUME NEW b, IsBoard(b), NEW x
  PROVE  /\ [b EXCEPT !.map = x] = [map |-> x, overlap |-> b.overlap, snakes |-> b.snakes]
         /\ [b EXCEPT !.overlap = x] = [map |-> b.map, overlap |-> x, snakes |-> b.snakes]
         /\ [b EXCEPT !.snakes = x] = [map |-> b.map, overlap |-> b.overlap, snakes |-> x]
<1>1. PICK m, o, s : m = b.map /\ o = b.overlap /\ s = b.snakes
  OBVIOUS
<1>2. b = [map |-> m, overlap |-> o, snakes |-> s]
  BY <1>1 DEF IsBoard
<1> QED BY <1>2

LEMMA BoardIsRecord ==
  ASSUME NEW b \in Boards
  PROVE  IsBoard(b)
BY DEF Boards, IsBoard

LEMMA CoverIs ==
  ASSUME NEW b \in Boards, NEW cell
  PROVE  Cover(b, cell) = [map |-> [b.map EXCEPT ![cell] = "SNAKE"],
                           overlap |-> [b.overlap EXCEPT ![cell] = @ + 1],
                           snakes |-> b.snakes]
<1> DEFINE m == [b.map EXCEPT ![cell] = "SNAKE"]
           o == [b.overlap EXCEPT ![cell] = @ + 1]
<1>1. Cover(b, cell) = [b EXCEPT !.map = m, !.overlap = o]
  BY Zenon DEF Cover
<1> HIDE DEF m, o
<1>2. [b EXCEPT !.map = m, !.overlap = o] = [[b EXCEPT !.map = m] EXCEPT !.overlap = o]
  BY Zenon
<1>3. [b EXCEPT !.map = m] = [map |-> m, overlap |-> b.overlap, snakes |-> b.snakes]
  BY BoardIsRecord, SetField
<1>4. [[b EXCEPT !.map = m] EXCEPT !.overlap = o] = [map |-> m, overlap |-> o, snakes |-> b.snakes]
  <2> DEFINE c == [b EXCEPT !.map = m]
  <2> HIDE DEF c
  <2>1. c = [map |-> m, overlap |-> b.overlap, snakes |-> b.snakes]
    BY <1>3 DEF c
  <2>2. [c EXCEPT !.overlap = o] = [map |-> m, overlap |-> o, snakes |-> b.snakes]
    BY <2>1, SetField DEF IsBoard
  <2> QED BY <2>2 DEF c
<1>5. Cover(b, cell) = [map |-> m, overlap |-> o, snakes |-> b.snakes]
  BY <1>1, <1>2, <1>4
<1> QED BY <1>5 DEF m, o

LEMMA GrowIs ==
  ASSUME NEW b \in Boards, NEW p, NEW cell
  PROVE  Grow(b, p, cell) = [map |-> [b.map EXCEPT ![cell] = "SNAKE"],
                             overlap |-> [b.overlap EXCEPT ![cell] = @ + 1],
                             snakes |-> [b.snakes EXCEPT ![p] = <<cell>> \o @]]
<1> DEFINE m == [b.map EXCEPT ![cell] = "SNAKE"]
           o == [b.overlap EXCEPT ![cell] = @ + 1]
           s == [b.snakes EXCEPT ![p] = <<cell>> \o @]
           covered == Cover(b, cell)
<1>1. covered = [map |-> m, overlap |-> o, snakes |-> b.snakes]
  BY CoverIs
<1>2. Grow(b, p, cell) = [covered EXCEPT !.snakes = [covered.snakes EXCEPT ![p] = <<cell>> \o @]]
  BY Zenon DEF Grow
<1> HIDE DEF m, o, covered
<1>3. covered.snakes = b.snakes
  BY <1>1
<1>4. Grow(b, p, cell) = [covered EXCEPT !.snakes = s]
  BY <1>2, <1>3
<1> HIDE DEF s
<1>5. Grow(b, p, cell) = [map |-> m, overlap |-> o, snakes |-> s]
  BY <1>1, <1>4, SetField DEF IsBoard
<1> QED BY <1>5 DEF m, o, s

LEMMA AddNodeIs ==
  ASSUME NEW b \in Boards, NEW p, NEW cell
  PROVE  AddNode(b, p, cell) = [map |-> [b.map EXCEPT ![cell] = "SNAKE"],
                                overlap |-> [b.overlap EXCEPT ![cell] = @ + 1],
                                snakes |-> [b.snakes EXCEPT ![p] = Append(@, cell)]]
<1> DEFINE m == [b.map EXCEPT ![cell] = "SNAKE"]
           o == [b.overlap EXCEPT ![cell] = @ + 1]
           s == [b.snakes EXCEPT ![p] = Append(@, cell)]
           covered == Cover(b, cell)
<1>1. covered = [map |-> m, overlap |-> o, snakes |-> b.snakes]
  BY CoverIs
<1>2. AddNode(b, p, cell) = [covered EXCEPT !.snakes = [covered.snakes EXCEPT ![p] = Append(@, cell)]]
  BY Zenon DEF AddNode
<1> HIDE DEF m, o, covered
<1>3. covered.snakes = b.snakes
  BY <1>1
<1>4. AddNode(b, p, cell) = [covered EXCEPT !.snakes = s]
  BY <1>2, <1>3
<1> HIDE DEF s
<1>5. AddNode(b, p, cell) = [map |-> m, overlap |-> o, snakes |-> s]
  BY <1>1, <1>4, SetField DEF IsBoard
<1> QED BY <1>5 DEF m, o, s

\* A snake with one node more on a cell.
LEMMA OneNodeMore ==
  ASSUME NEW b \in Boards, NEW b2 \in Boards, NEW p \in Players, NEW cell,
         \A q \in Players : q # p => b2.snakes[q] = b.snakes[q],
         \A c \in Cells : Cardinality(Positions(b2.snakes[p], c)) =
                            Cardinality(Positions(b.snakes[p], c)) + (IF cell = c THEN 1 ELSE 0)
  PROVE  \A c \in Cells : NodesOn(b2, c) = NodesOn(b, c) + (IF cell = c THEN 1 ELSE 0)
<1> SUFFICES ASSUME NEW c \in Cells
             PROVE  NodesOn(b2, c) = NodesOn(b, c) + (IF cell = c THEN 1 ELSE 0)
  OBVIOUS
<1>1. b.snakes[1] \in Seq(Cells) /\ b.snakes[2] \in Seq(Cells)
  BY DEF Boards, Players
<1>2. /\ Cardinality(Positions(b.snakes[1], c)) \in Nat
      /\ Cardinality(Positions(b.snakes[2], c)) \in Nat
  BY <1>1, PositionsFinite
<1> QED BY <1>2 DEF NodesOn, Players

\* The cell of the node is covered.
LEMMA CoveredCounted ==
  ASSUME NEW b \in Boards, Counted(b), NEW b2 \in Boards, NEW cell \in Cells,
         \A c \in Cells : NodesOn(b2, c) = NodesOn(b, c) + (IF cell = c THEN 1 ELSE 0),
         b2.map = [b.map EXCEPT ![cell] = "SNAKE"],
         b2.overlap = [b.overlap EXCEPT ![cell] = @ + 1]
  PROVE  Counted(b2) /\ FoodAt(b2) = FoodAt(b) \ {cell}
<1>1. \A c \in Cells : b.overlap[c] \in Nat
  BY DEF Boards
<1>2. \A c \in Cells : b2.overlap[c] = b.overlap[c] + (IF cell = c THEN 1 ELSE 0)
  BY <1>1 DEF Boards
<1>3. \A c \in Cells : b2.map[c] = IF c = cell THEN "SNAKE" ELSE b.map[c]
  BY DEF Boards
<1>4. Counted(b2)
  BY <1>1, <1>2, <1>3 DEF Counted
<1>5. FoodAt(b2) = FoodAt(b) \ {cell}
  BY <1>3 DEF FoodAt
<1> QED BY <1>4, <1>5

LEMMA CoveredTypes ==
  ASSUME NEW b \in Boards, NEW p \in Players, NEW cell \in Cells, NEW s \in Seq(Cells)
  PROVE  /\ [b.map EXCEPT ![cell] = "SNAKE"] \in [Cells -> {"BLANK", "BORDER", "SNAKE", "FOOD"}]
         /\ [b.overlap EXCEPT ![cell] = @ + 1] \in [Cells -> Nat]
         /\ [b.snakes EXCEPT ![p] = s] \in [Players -> Seq(Cells)]
BY DEF Boards

LEMMA GrowCounted ==
  ASSUME NEW b \in Boards, Counted(b), NEW p \in Players, NEW cell \in Cells
  PROVE  /\ Grow(b, p, cell) \in Boards /\ Counted(Grow(b, p, cell))
         /\ FoodAt(Grow(b, p, cell)) = FoodAt(b) \ {cell}
         /\ Grow(b, p, cell).snakes = [b.snakes EXCEPT ![p] = <<cell>> \o b.snakes[p]]
<1> DEFINE s == <<cell>> \o b.snakes[p]
<1>1. b.snakes[p] \in Seq(Cells) /\ s \in Seq(Cells)
  BY DEF Boards
<1>2. /\ Grow(b, p, cell).map = [b.map EXCEPT ![cell] = "SNAKE"]
      /\ Grow(b, p, cell).overlap = [b.overlap EXCEPT ![cell] = @ + 1]
      /\ Grow(b, p, cell).snakes = [b.snakes EXCEPT ![p] = s]
      /\ Grow(b, p, cell) = [map |-> Grow(b, p, cell).map, overlap |-> Grow(b, p, cell).overlap,
                            snakes |-> Grow(b, p, cell).snakes]
  BY GrowIs
<1>3. \A c \in Cells : Cardinality(Positions(s, c)) =
                       Cardinality(Positions(b.snakes[p], c)) + (IF cell = c THEN 1 ELSE 0)
  BY <1>1, PositionsOfPrepend
<1> HIDE DEF s
<1>4. Grow(b, p, cell) \in Boards
  <2>1. /\ Grow(b, p, cell).map \in [Cells -> {"BLANK", "BORDER", "SNAKE", "FOOD"}]
        /\ Grow(b, p, cell).overlap \in [Cells -> Nat]
        /\ Grow(b, p, cell).snakes \in [Players -> Seq(Cells)]
    BY <1>1, <1>2, CoveredTypes
  <2> QED BY <1>2, <2>1 DEF Boards
<1>5. /\ \A q \in Players : q # p => Grow(b, p, cell).snakes[q] = b.snakes[q]
      /\ Grow(b, p, cell).snakes[p] = s
  BY <1>2 DEF Boards
<1>6. \A c \in Cells : NodesOn(Grow(b, p, cell), c) = NodesOn(b, c) + (IF cell = c THEN 1 ELSE 0)
  BY <1>3, <1>4, <1>5, OneNodeMore
<1>7. Counted(Grow(b, p, cell)) /\ FoodAt(Grow(b, p, cell)) = FoodAt(b) \ {cell}
  BY <1>2, <1>4, <1>6, CoveredCounted
<1> QED BY <1>2, <1>4, <1>7 DEF s

LEMMA AddNodeCounted ==
  ASSUME NEW b \in Boards, Counted(b), NEW p \in Players, NEW cell \in Cells
  PROVE  /\ AddNode(b, p, cell) \in Boards /\ Counted(AddNode(b, p, cell))
         /\ FoodAt(AddNode(b, p, cell)) = FoodAt(b) \ {cell}
         /\ AddNode(b, p, cell).snakes = [b.snakes EXCEPT ![p] = Append(b.snakes[p], cell)]
<1> DEFINE s == Append(b.snakes[p], cell)
<1>1. b.snakes[p] \in Seq(Cells) /\ s \in Seq(Cells)
  BY DEF Boards
<1>2. /\ AddNode(b, p, cell).map = [b.map EXCEPT ![cell] = "SNAKE"]
      /\ AddNode(b, p, cell).overlap = [b.overlap EXCEPT ![cell] = @ + 1]
      /\ AddNode(b, p, cell).snakes = [b.snakes EXCEPT ![p] = s]
      /\ AddNode(b, p, cell) = [map |-> AddNode(b, p, cell).map, overlap |-> AddNode(b, p, cell).overlap,
                            snakes |-> AddNode(b, p, cell).snakes]
  BY AddNodeIs
<1>3. \A c \in Cells : Cardinality(Positions(s, c)) =
                       Cardinality(Positions(b.snakes[p], c)) + (IF cell = c THEN 1 ELSE 0)
  BY <1>1, PositionsOfAppend
<1> HIDE DEF s
<1>4. AddNode(b, p, cell) \in Boards
  <2>1. /\ AddNode(b, p, cell).map \in [Cells -> {"BLANK", "BORDER", "SNAKE", "FOOD"}]
        /\ AddNode(b, p, cell).overlap \in [Cells -> Nat]
        /\ AddNode(b, p, cell).snakes \in [Players -> Seq(Cells)]
    BY <1>1, <1>2, CoveredTypes
  <2> QED BY <1>2, <2>1 DEF Boards
<1>5. /\ \A q \in Players : q # p => AddNode(b, p, cell).snakes[q] = b.snakes[q]
      /\ AddNode(b, p, cell).snakes[p] = s
  BY <1>2 DEF Boards
<1>6. \A c \in Cells : NodesOn(AddNode(b, p, cell), c) = NodesOn(b, c) + (IF cell = c THEN 1 ELSE 0)
  BY <1>3, <1>4, <1>5, OneNodeMore
<1>7. Counted(AddNode(b, p, cell)) /\ FoodAt(AddNode(b, p, cell)) = FoodAt(b) \ {cell}
  BY <1>2, <1>4, <1>6, CoveredCounted
<1> QED BY <1>2, <1>4, <1>7 DEF s

LEMMA MakeFoodCounted ==
  ASSUME NEW b \in Boards, Counted(b), NEW cell \in FoodCells(b)
  PROVE  /\ cell \in Cells
         /\ MakeFood(b, cell) \in Boards /\ Counted(MakeFood(b, cell))
         /\ FoodAt(MakeFood(b, cell)) = FoodAt(b) \cup {cell}
         /\ MakeFood(b, cell).snakes = b.snakes
<1>1. cell \in Cells /\ b.map[cell] # "SNAKE"
  BY SnakeAssumption DEF FoodCells, Interior, Cells
<1>2. MakeFood(b, cell) = [map |-> [b.map EXCEPT ![cell] = "FOOD"],
                           overlap |-> b.overlap, snakes |-> b.snakes]
  <2> DEFINE m == [b.map EXCEPT ![cell] = "FOOD"]
  <2>1. MakeFood(b, cell) = [b EXCEPT !.map = m]
    BY Zenon DEF MakeFood
  <2> HIDE DEF m
  <2>2. MakeFood(b, cell) = [map |-> m, overlap |-> b.overlap, snakes |-> b.snakes]
    BY <2>1, BoardIsRecord, SetField
  <2> QED BY <2>2 DEF m
<1>3. /\ [b.map EXCEPT ![cell] = "FOOD"] \in [Cells -> {"BLANK", "BORDER", "SNAKE", "FOOD"}]
      /\ b.overlap \in [Cells -> Nat]
      /\ b.snakes \in [Players -> Seq(Cells)]
  BY DEF Boards
<1>4. MakeFood(b, cell) \in Boards
  BY <1>2, <1>3 DEF Boards
<1>5. \A c \in Cells : MakeFood(b, cell).map[c] = IF c = cell THEN "FOOD" ELSE b.map[c]
  BY <1>2 DEF Boards
<1>6. FoodAt(MakeFood(b, cell)) = FoodAt(b) \cup {cell}
  BY <1>1, <1>5 DEF FoodAt
<1>7. \A c \in Cells : NodesOn(MakeFood(b, cell), c) = NodesOn(b, c)
  BY <1>2 DEF NodesOn
<1>8. Counted(MakeFood(b, cell))
  BY <1>1, <1>2, <1>5, <1>7 DEF Counted
<1> QED BY <1>1, <1>2, <1>4, <1>6, <1>8

LEMMA LeaveTailIs ==
  ASSUME NEW c, IsBoard(c), NEW cell
  PROVE  /\ LeaveTail(c, cell).overlap = [c.overlap EXCEPT ![cell] = @ - 1]
         /\ LeaveTail(c, cell).map =
              IF LeaveTail(c, cell).overlap[cell] < 1 THEN [c.map EXCEPT ![cell] = "BLANK"] ELSE c.map
         /\ LeaveTail(c, cell).snakes = c.snakes
         /\ IsBoard(LeaveTail(c, cell))
<1> DEFINE left == [c EXCEPT !.overlap[cell] = @ - 1]
           less == [c.overlap EXCEPT ![cell] = @ - 1]
           blank == [c.map EXCEPT ![cell] = "BLANK"]
<1>1. left = [c EXCEPT !.overlap = [c.overlap EXCEPT ![cell] = @ - 1]]
  BY Zenon
<1>2. left = [c EXCEPT !.overlap = less]
  BY <1>1
<1> HIDE DEF left, less
<1>3. left = [map |-> c.map, overlap |-> less, snakes |-> c.snakes]
  BY <1>2, SetField
<1>4. left.map = c.map /\ left.overlap = less /\ left.snakes = c.snakes /\ IsBoard(left)
  BY <1>3 DEF IsBoard
<1>5. [left EXCEPT !.map[cell] = "BLANK"] = [left EXCEPT !.map = [left.map EXCEPT ![cell] = "BLANK"]]
  BY Zenon
<1>6. [left EXCEPT !.map[cell] = "BLANK"] = [left EXCEPT !.map = blank]
  BY <1>4, <1>5
<1> HIDE DEF blank
<1>7. [left EXCEPT !.map = blank] = [map |-> blank, overlap |-> less, snakes |-> c.snakes]
  <2>1. IsBoard(left)
    BY <1>4
  <2>2. [left EXCEPT !.map = blank] = [map |-> blank, overlap |-> left.overlap, snakes |-> left.snakes]
    BY <2>1, SetField
  <2> QED BY <1>4, <2>2
<1>8. LeaveTail(c, cell) = IF less[cell] < 1 THEN [left EXCEPT !.map[cell] = "BLANK"] ELSE left
  BY <1>4, Zenon DEF LeaveTail, left
<1>9. CASE less[cell] < 1
  <2>1. LeaveTail(c, cell) = [map |-> blank, overlap |-> less, snakes |-> c.snakes]
    BY <1>6, <1>7, <1>8, <1>9
  <2> QED BY <1>9, <2>1 DEF blank, less, IsBoard
<1>10. CASE ~(less[cell] < 1)
  BY <1>4, <1>8, <1>10 DEF less
<1> QED BY <1>9, <1>10

LEMMA ShiftIs ==
  ASSUME NEW b \in Boards, NEW p, NEW t
  PROVE  /\ Shift(b, p, t).overlap =
              [[b.overlap EXCEPT ![t] = @ + 1] EXCEPT ![Last(b.snakes[p])] = @ - 1]
         /\ Shift(b, p, t).map =
              IF Shift(b, p, t).overlap[Last(b.snakes[p])] < 1
              THEN [[b.map EXCEPT ![t] = "SNAKE"] EXCEPT ![Last(b.snakes[p])] = "BLANK"]
              ELSE [b.map EXCEPT ![t] = "SNAKE"]
         /\ Shift(b, p, t).snakes =
              [b.snakes EXCEPT ![p] = <<t>> \o SubSeq(b.snakes[p], 1, Len(b.snakes[p]) - 1)]
         /\ IsBoard(Shift(b, p, t))
<1> DEFINE s == <<t>> \o SubSeq(b.snakes[p], 1, Len(b.snakes[p]) - 1)
           ss == [b.snakes EXCEPT ![p] = s]
           covered == Cover(b, t)
           tail == Last(b.snakes[p])
           left == LeaveTail(covered, tail)
<1>1. /\ IsBoard(covered)
      /\ covered.map = [b.map EXCEPT ![t] = "SNAKE"]
      /\ covered.overlap = [b.overlap EXCEPT ![t] = @ + 1]
      /\ covered.snakes = b.snakes
  <2>1. covered = [map |-> [b.map EXCEPT ![t] = "SNAKE"],
                   overlap |-> [b.overlap EXCEPT ![t] = @ + 1], snakes |-> b.snakes]
    BY CoverIs
  <2> HIDE DEF covered
  <2> QED BY <2>1 DEF IsBoard
<1>2. Shift(b, p, t) = [left EXCEPT !.snakes = [left.snakes EXCEPT ![p] = s]]
  BY Zenon DEF Shift
<1> HIDE DEF covered, s, tail
<1>3. /\ left.overlap = [covered.overlap EXCEPT ![tail] = @ - 1]
      /\ left.map = IF left.overlap[tail] < 1 THEN [covered.map EXCEPT ![tail] = "BLANK"] ELSE covered.map
      /\ left.snakes = covered.snakes /\ IsBoard(left)
  BY <1>1, LeaveTailIs
<1> HIDE DEF left
<1>4. Shift(b, p, t) = [left EXCEPT !.snakes = ss]
  BY <1>1, <1>2, <1>3
<1> HIDE DEF ss
<1>5. Shift(b, p, t) = [map |-> left.map, overlap |-> left.overlap, snakes |-> ss]
  BY <1>3, <1>4, SetField
<1>6. /\ Shift(b, p, t).map = left.map
      /\ Shift(b, p, t).overlap = left.overlap
      /\ Shift(b, p, t).snakes = ss
      /\ IsBoard(Shift(b, p, t))
  BY <1>5 DEF IsBoard
<1> QED BY <1>1, <1>3, <1>6 DEF ss, s, tail

\* The head is one node more and the tail one less; the tail's cell is blank when
\* no node is left on it.
LEMMA ShiftCounted ==
  ASSUME NEW b \in Boards, Counted(b), NEW p \in Players, b.snakes[p] # <<>>, NEW t \in Cells
  PROVE  /\ Shift(b, p, t) \in Boards /\ Counted(Shift(b, p, t))
         /\ FoodAt(Shift(b, p, t)) = FoodAt(b) \ {t}
         /\ Shift(b, p, t).snakes =
              [b.snakes EXCEPT ![p] = <<t>> \o SubSeq(b.snakes[p], 1, Len(b.snakes[p]) - 1)]
<1> DEFINE snake == b.snakes[p]
           front == SubSeq(snake, 1, Len(snake) - 1)
           tail == Last(snake)
           more == [b.overlap EXCEPT ![t] = @ + 1]
           less == [more EXCEPT ![tail] = @ - 1]
           cover == [b.map EXCEPT ![t] = "SNAKE"]
           b2 == Shift(b, p, t)
<1>1. snake \in Seq(Cells) /\ snake # <<>>
  BY DEF Boards
<1>2. front \in Seq(Cells) /\ tail \in Cells /\ <<t>> \o front \in Seq(Cells)
  <2> HIDE DEF snake
  <2>1. front \in Seq(Cells) /\ tail \in Cells
    BY <1>1, PositionsOfFront
  <2> HIDE DEF front
  <2> QED BY <2>1
<1>3. /\ b2.map = IF b2.overlap[tail] < 1 THEN [cover EXCEPT ![tail] = "BLANK"] ELSE cover
      /\ b2.overlap = less
      /\ b2.snakes = [b.snakes EXCEPT ![p] = <<t>> \o front]
      /\ IsBoard(b2)
  <2>1. /\ Shift(b, p, t).overlap =
             [[b.overlap EXCEPT ![t] = @ + 1] EXCEPT ![Last(b.snakes[p])] = @ - 1]
        /\ Shift(b, p, t).map =
              IF Shift(b, p, t).overlap[Last(b.snakes[p])] < 1
              THEN [[b.map EXCEPT ![t] = "SNAKE"] EXCEPT ![Last(b.snakes[p])] = "BLANK"]
              ELSE [b.map EXCEPT ![t] = "SNAKE"]
        /\ Shift(b, p, t).snakes =
              [b.snakes EXCEPT ![p] = <<t>> \o SubSeq(b.snakes[p], 1, Len(b.snakes[p]) - 1)]
        /\ IsBoard(Shift(b, p, t))
    BY ShiftIs
  <2> QED BY <2>1, Zenon
<1> HIDE DEF b2
<1>4. \A c \in Cells : b.overlap[c] \in Nat /\ b.map[c] \in {"BLANK", "BORDER", "SNAKE", "FOOD"}
  BY DEF Boards
<1>5. \A c \in Cells : less[c] = b.overlap[c] + (IF t = c THEN 1 ELSE 0) - (IF tail = c THEN 1 ELSE 0)
  BY <1>2, <1>4 DEF Boards
<1> HIDE DEF front, tail
<1>6. \A c \in Cells : cover[c] = IF c = t THEN "SNAKE" ELSE b.map[c]
  BY DEF Boards
<1>7. less \in [Cells -> Int] /\ cover \in [Cells -> {"BLANK", "BORDER", "SNAKE", "FOOD"}]
  <2>1. more \in [Cells -> Int]
    BY DEF Boards
  <2>2. less \in [Cells -> Int]
    BY <1>2, <2>1
  <2> QED BY <2>2 DEF Boards
<1> HIDE DEF less, cover, more
<1>8. \A c \in Cells : b2.map[c] = IF c = tail /\ less[tail] < 1 THEN "BLANK" ELSE cover[c]
  BY <1>3, <1>7
<1>9. \A c \in Cells : Cardinality(Positions(<<t>> \o front, c)) =
                       Cardinality(Positions(snake, c)) + (IF t = c THEN 1 ELSE 0)
                         - (IF tail = c THEN 1 ELSE 0)
  <2> SUFFICES ASSUME NEW c \in Cells
               PROVE  Cardinality(Positions(<<t>> \o front, c)) =
                        Cardinality(Positions(snake, c)) + (IF t = c THEN 1 ELSE 0)
                          - (IF tail = c THEN 1 ELSE 0)
    OBVIOUS
  <2>1. Cardinality(Positions(<<t>> \o front, c)) =
          Cardinality(Positions(front, c)) + (IF t = c THEN 1 ELSE 0)
    BY <1>2, PositionsOfPrepend
  <2>2. Cardinality(Positions(front, c)) =
          Cardinality(Positions(snake, c)) - (IF tail = c THEN 1 ELSE 0)
    BY <1>1, PositionsOfFront DEF front, tail
  <2>3. Cardinality(Positions(snake, c)) \in Nat
    BY <1>1, PositionsFinite
  <2> QED BY <2>1, <2>2, <2>3
<1>10. \A c \in Cells : NodesOn(b2, c) = NodesOn(b, c) + (IF t = c THEN 1 ELSE 0)
                                         - (IF tail = c THEN 1 ELSE 0)
  <2> SUFFICES ASSUME NEW c \in Cells
               PROVE  NodesOn(b2, c) = NodesOn(b, c) + (IF t = c THEN 1 ELSE 0)
                                         - (IF tail = c THEN 1 ELSE 0)
    OBVIOUS
  <2>1. /\ \A q \in Players : q # p => b2.snakes[q] = b.snakes[q]
        /\ b2.snakes[p] = <<t>> \o front
    BY <1>3 DEF Boards
  <2>2. b.snakes[1] \in Seq(Cells) /\ b.snakes[2] \in Seq(Cells)
    BY DEF Boards, Players
  <2>3. /\ Cardinality(Positions(b.snakes[1], c)) \in Nat
        /\ Cardinality(Positions(b.snakes[2], c)) \in Nat
    BY <2>2, PositionsFinite
  <2>4. Cardinality(Positions(b2.snakes[p], c)) =
          Cardinality(Positions(b.snakes[p], c)) + (IF t = c THEN 1 ELSE 0)
            - (IF tail = c THEN 1 ELSE 0)
    BY <1>9, <2>1
  <2> HIDE DEF snake
  <2>5. CASE p = 1
    <3>1. b2.snakes[2] = b.snakes[2]
      BY <2>1, <2>5 DEF Players
    <3> QED BY <2>3, <2>4, <2>5, <3>1 DEF NodesOn
  <2>6. CASE p = 2
    <3>1. b2.snakes[1] = b.snakes[1]
      BY <2>1, <2>6 DEF Players
    <3> QED BY <2>3, <2>4, <2>6, <3>1 DEF NodesOn
  <2> QED BY <2>5, <2>6 DEF Players
<1>11. NodesOn(b, tail) > 0
  <2>1. \A q \in Players : b.snakes[q] \in Seq(Cells)
    BY DEF Boards
  <2>2. /\ \A q \in Players : Cardinality(Positions(b.snakes[q], tail)) \in Nat
        /\ Cardinality(Positions(front, tail)) \in Nat
    BY <1>2, <2>1, PositionsFinite
  <2>3. Cardinality(Positions(front, tail)) = Cardinality(Positions(snake, tail)) - 1
    BY <1>1, PositionsOfFront DEF front, tail
  <2> QED BY <2>2, <2>3 DEF NodesOn, Players
<1>12. b.overlap[tail] > 0 /\ b.map[tail] = "SNAKE"
  BY <1>2, <1>11 DEF Counted
<1>13. b2 \in Boards
  <2>1. \A c \in Cells : less[c] \in Nat
    BY <1>2, <1>4, <1>5, <1>12
  <2>2. less \in [Cells -> Nat]
    BY <1>7, <2>1
  <2>3. b2.map \in [Cells -> {"BLANK", "BORDER", "SNAKE", "FOOD"}]
    BY <1>3, <1>7
  <2>4. b2.snakes \in [Players -> Seq(Cells)]
    BY <1>2, <1>3 DEF Boards
  <2> QED BY <1>3, <2>2, <2>3, <2>4 DEF Boards, IsBoard
<1>14. Counted(b2)
  <2> SUFFICES ASSUME NEW c \in Cells
               PROVE  b2.overlap[c] = NodesOn(b2, c) /\ (b2.map[c] = "SNAKE" <=> b2.overlap[c] > 0)
    BY DEF Counted
  <2>1. b2.overlap[c] = NodesOn(b2, c)
    BY <1>3, <1>5, <1>10 DEF Counted
  <2>2. b.map[c] = "SNAKE" <=> b.overlap[c] > 0
    BY DEF Counted
  <2>3. b2.map[c] = "SNAKE" <=> less[c] > 0
    BY <1>2, <1>4, <1>5, <1>6, <1>8, <1>12, <2>2
  <2> QED BY <1>3, <2>1, <2>3
<1>15. FoodAt(b2) = FoodAt(b) \ {t}
  BY <1>2, <1>6, <1>8, <1>12 DEF FoodAt
<1> QED BY <1>3, <1>13, <1>14, <1>15 DEF b2, front

-----------------------------------------------------------------------------
(* Each node beside the next.                                              *)

Connected(snake) ==
  \A i \in 1..Len(snake) - 1 : \E m \in Moves : snake[i] = Beside(snake[i + 1], m)

LEMMA ConnectedPrepend ==
  ASSUME NEW s \in Seq(Cells), s # <<>>, Connected(s),
         NEW m \in Moves, NEW t \in Cells, t = Beside(s[1], m)
  PROVE  Connected(<<t>> \o s) /\ Len(<<t>> \o s) = Len(s) + 1
<1> DEFINE s2 == <<t>> \o s
<1>1. Len(s) \in Nat /\ Len(s2) = Len(s) + 1
  OBVIOUS
<1>2. s2[1] = t /\ \A i \in 1..Len(s) : s2[i + 1] = s[i]
  OBVIOUS
<1> HIDE DEF s2
<1>3. ASSUME NEW i \in 1..Len(s2) - 1 PROVE \E n \in Moves : s2[i] = Beside(s2[i + 1], n)
  <2>1. CASE i = 1
    BY <1>1, <1>2, <2>1
  <2>2. CASE i # 1
    <3>1. i - 1 \in 1..Len(s) - 1 /\ i - 1 \in 1..Len(s) /\ i \in 1..Len(s)
      BY <1>1, <1>3, <2>2
    <3>2. s2[(i - 1) + 1] = s[i - 1] /\ s2[i + 1] = s[i]
      BY <1>2, <3>1
    <3>3. PICK n \in Moves : s[i - 1] = Beside(s[(i - 1) + 1], n)
      BY <3>1 DEF Connected
    <3> QED BY <3>2, <3>3, <3>1
  <2> QED BY <2>1, <2>2
<1>4. Connected(s2)
  BY <1>3 DEF Connected
<1> QED BY <1>1, <1>4 DEF s2

LEMMA ConnectedFront ==
  ASSUME NEW s \in Seq(Cells), Len(s) > 1, Connected(s)
  PROVE  LET front == SubSeq(s, 1, Len(s) - 1)
         IN  /\ front \in Seq(Cells) /\ front # <<>> /\ Connected(front)
             /\ Len(front) = Len(s) - 1 /\ front[1] = s[1]
<1> DEFINE front == SubSeq(s, 1, Len(s) - 1)
<1>1. Len(s) \in Nat
  OBVIOUS
<1>2. front \in Seq(Cells) /\ Len(front) = Len(s) - 1 /\ \A i \in 1..Len(s) - 1 : front[i] = s[i]
  BY <1>1
<1> HIDE DEF front
<1>3. front # <<>>
  BY <1>1, <1>2
<1>4. Connected(front)
  BY <1>1, <1>2 DEF Connected
<1> QED BY <1>1, <1>2, <1>3, <1>4 DEF front

LEMMA ConnectedPair ==
  ASSUME NEW cell \in Int \X Int, NEW m \in Moves
  PROVE  Connected(<<cell, Beside(cell, m)>>)
<1> DEFINE pair == <<cell, Beside(cell, m)>>
<1>1. \E n \in Moves : cell = Beside(Beside(cell, m), n)
  <2>1. PICK x \in Int, y \in Int : cell = <<x, y>>
    OBVIOUS
  <2>2. CASE m = "MOVE_UP"
    BY <2>1, <2>2 DEF Moves, Beside, Toward
  <2>3. CASE m = "MOVE_DOWN"
    BY <2>1, <2>3 DEF Moves, Beside, Toward
  <2>4. CASE m = "MOVE_LEFT"
    BY <2>1, <2>4 DEF Moves, Beside, Toward
  <2>5. CASE m = "MOVE_RIGHT"
    BY <2>1, <2>5 DEF Moves, Beside, Toward
  <2> QED BY <2>2, <2>3, <2>4, <2>5 DEF Moves
<1>2. Len(pair) = 2 /\ pair[1] = cell /\ pair[2] = Beside(cell, m)
  OBVIOUS
<1> HIDE DEF pair
<1>3. \A i \in 1..Len(pair) - 1 : i = 1
  BY <1>2
<1>4. Connected(pair)
  BY <1>1, <1>2, <1>3 DEF Connected
<1> QED BY <1>4 DEF pair

-----------------------------------------------------------------------------
(* The first board.                                                        *)

GoodBoard(b) ==
  /\ b \in Boards /\ Counted(b)
  /\ \A p \in Players : Len(b.snakes[p]) > 1 /\ Connected(b.snakes[p])

LEMMA EmptyBoardCounted ==
  /\ EmptyBoard \in Boards /\ Counted(EmptyBoard) /\ FoodAt(EmptyBoard) = {}
  /\ \A p \in Players : EmptyBoard.snakes[p] = <<>>
<1>1. EmptyBoard \in Boards
  BY DEF EmptyBoard, Boards
<1>2. \A p \in Players : EmptyBoard.snakes[p] = <<>>
  BY DEF EmptyBoard
<1>3. FoodAt(EmptyBoard) = {}
  BY DEF EmptyBoard, FoodAt
<1>4. \A c \in Cells : EmptyBoard.overlap[c] = 0 /\ EmptyBoard.map[c] # "SNAKE"
  BY DEF EmptyBoard
<1>5. \A c \in Cells, p \in Players : Positions(EmptyBoard.snakes[p], c) = {}
  BY <1>2 DEF Positions
<1>6. \A c \in Cells : NodesOn(EmptyBoard, c) = 0
  <2>1. \A c \in Cells : /\ Positions(EmptyBoard.snakes[1], c) = {}
                         /\ Positions(EmptyBoard.snakes[2], c) = {}
    BY <1>5 DEF Players
  <2>2. Cardinality({}) = 0
    BY FS_EmptySet
  <2> QED BY <2>1, <2>2 DEF NodesOn
<1>7. Counted(EmptyBoard)
  BY <1>4, <1>6 DEF Counted
<1> QED BY <1>1, <1>2, <1>3, <1>7

\* The neighbours of a cell of the interior are on the map.
LEMMA BesideInterior ==
  ASSUME NEW cell \in Interior, NEW m \in Moves
  PROVE  Beside(cell, m) \in Cells
<1>1. PICK x \in 1..MAP_H - 2, y \in 1..MAP_W - 2 : cell = <<x, y>>
  BY DEF Interior
<1>2. MAP_H \in Nat /\ MAP_W \in Nat
  BY SnakeAssumption
<1>3. /\ <<x - 1, y>> \in Cells /\ <<x + 1, y>> \in Cells
      /\ <<x, y - 1>> \in Cells /\ <<x, y + 1>> \in Cells
  BY <1>1, <1>2 DEF Cells
<1>4. CASE m = "MOVE_UP"
  BY <1>1, <1>2, <1>3, <1>4 DEF Beside, Toward
<1>5. CASE m = "MOVE_DOWN"
  BY <1>1, <1>2, <1>3, <1>5 DEF Beside, Toward
<1>6. CASE m = "MOVE_LEFT"
  BY <1>1, <1>2, <1>3, <1>6 DEF Beside, Toward
<1>7. CASE m = "MOVE_RIGHT"
  BY <1>1, <1>2, <1>3, <1>7 DEF Beside, Toward
<1> QED BY <1>4, <1>5, <1>6, <1>7 DEF Moves

LEMMA FirstFreeIsBeside ==
  ASSUME NEW b, NEW cell, FreeNeighbours(b, cell) # {}
  PROVE  \E m \in Moves : FirstFree(b, cell) = Beside(cell, m)
<1> DEFINE free == FreeNeighbours(b, cell)
<1>1. free \subseteq 1..4
  BY DEF FreeNeighbours
<1> HIDE DEF free
<1>2. \E i \in free : \A j \in free : i <= j
  <2>1. CASE 1 \in free
    BY <1>1, <2>1
  <2>2. CASE 1 \notin free /\ 2 \in free
    BY <1>1, <2>2
  <2>3. CASE 1 \notin free /\ 2 \notin free /\ 3 \in free
    BY <1>1, <2>3
  <2>4. CASE 1 \notin free /\ 2 \notin free /\ 3 \notin free
    BY <1>1, <2>4 DEF free
  <2> QED BY <2>1, <2>2, <2>3, <2>4
<1> DEFINE first == CHOOSE i \in free : \A j \in free : i <= j
<1>3. first \in 1..4
  BY <1>1, <1>2
<1>4. FirstFree(b, cell) = Neighbour(cell, first)
  BY DEF FirstFree, free
<1> HIDE DEF first
<1>5. NeighbourOrder[first] \in Moves
  BY <1>3 DEF NeighbourOrder, Moves
<1> QED BY <1>4, <1>5 DEF Neighbour

\* A new snake has two nodes, one beside the other.
LEMMA SpawnCounted ==
  ASSUME NEW b \in Boards, Counted(b), FoodAt(b) = {},
         NEW p \in Players, b.snakes[p] = <<>>, NEW cell \in SpawnCells(b)
  PROVE  /\ Spawn(b, p, cell) \in Boards /\ Counted(Spawn(b, p, cell))
         /\ FoodAt(Spawn(b, p, cell)) = {}
         /\ \A q \in Players : q # p => Spawn(b, p, cell).snakes[q] = b.snakes[q]
         /\ Len(Spawn(b, p, cell).snakes[p]) = 2 /\ Connected(Spawn(b, p, cell).snakes[p])
<1>1. cell \in Interior /\ FreeNeighbours(b, cell) # {}
  BY DEF SpawnCells
<1>2. PICK m \in Moves : FirstFree(b, cell) = Beside(cell, m)
  BY <1>1, FirstFreeIsBeside
<1>3. cell \in Cells /\ cell \in Int \X Int
  BY <1>1, SnakeAssumption DEF Interior, Cells
<1>4. Beside(cell, m) \in Cells
  BY <1>1, BesideInterior
<1> DEFINE b1 == AddNode(b, p, cell)
           next == Beside(cell, m)
           b2 == AddNode(b1, p, next)
<1>5. /\ b1 \in Boards /\ Counted(b1) /\ FoodAt(b1) = {}
      /\ b1.snakes = [b.snakes EXCEPT ![p] = Append(b.snakes[p], cell)]
  BY <1>3, AddNodeCounted
<1> HIDE DEF b1, next
<1>6. /\ b2 \in Boards /\ Counted(b2) /\ FoodAt(b2) = {}
      /\ b2.snakes = [b1.snakes EXCEPT ![p] = Append(b1.snakes[p], next)]
  BY <1>4, <1>5, AddNodeCounted DEF next
<1> HIDE DEF b2
<1>7. b1.snakes[p] = <<cell>>
  BY <1>5 DEF Boards
<1>8. b2.snakes[p] = <<cell, next>>
  BY <1>5, <1>6, <1>7 DEF Boards
<1>9. Len(b2.snakes[p]) = 2 /\ Connected(b2.snakes[p])
  BY <1>3, <1>8, ConnectedPair DEF next
<1>10. \A q \in Players : q # p => b2.snakes[q] = b.snakes[q]
  BY <1>5, <1>6 DEF Boards
<1>11. Spawn(b, p, cell) = b2
  BY <1>2 DEF Spawn, b2, b1, next
<1> QED BY <1>6, <1>9, <1>10, <1>11

LEMMA FirstBoardGood ==
  ASSUME NEW c1 \in SpawnCells(EmptyBoard),
         NEW c2 \in SpawnCells(Spawn(EmptyBoard, 1, c1)),
         NEW f \in FoodCells(Spawn(Spawn(EmptyBoard, 1, c1), 2, c2))
  PROVE  LET b == MakeFood(Spawn(Spawn(EmptyBoard, 1, c1), 2, c2), f)
         IN  GoodBoard(b) /\ FoodAt(b) = {f}
<1> DEFINE one == Spawn(EmptyBoard, 1, c1)
           two == Spawn(one, 2, c2)
           b == MakeFood(two, f)
<1>f. f \in FoodCells(two)
  OBVIOUS
<1>1. /\ one \in Boards /\ Counted(one) /\ FoodAt(one) = {}
      /\ one.snakes[2] = <<>>
      /\ Len(one.snakes[1]) = 2 /\ Connected(one.snakes[1])
  BY EmptyBoardCounted, SpawnCounted DEF Players
<1> HIDE DEF one
<1>2. /\ two \in Boards /\ Counted(two) /\ FoodAt(two) = {}
      /\ two.snakes[1] = one.snakes[1]
      /\ Len(two.snakes[2]) = 2 /\ Connected(two.snakes[2])
  BY <1>1, SpawnCounted DEF Players, one
<1> HIDE DEF two
<1>3. /\ b \in Boards /\ Counted(b) /\ FoodAt(b) = {f}
      /\ b.snakes = two.snakes
  <2>1. /\ b \in Boards /\ Counted(b)
        /\ FoodAt(b) = FoodAt(two) \cup {f}
        /\ b.snakes = two.snakes
    BY <1>2, <1>f, MakeFoodCounted
  <2> HIDE DEF b
  <2> QED BY <1>2, <2>1
<1> HIDE DEF b
<1>4. /\ Len(b.snakes[1]) > 1 /\ Connected(b.snakes[1])
      /\ Len(b.snakes[2]) > 1 /\ Connected(b.snakes[2])
  <2>1. b.snakes[1] = one.snakes[1] /\ b.snakes[2] = two.snakes[2]
    BY <1>2, <1>3, Zenon
  <2>2. Len(b.snakes[1]) = 2 /\ Len(b.snakes[2]) = 2
    BY <1>1, <1>2, <2>1, Zenon
  <2>3. Connected(b.snakes[1]) /\ Connected(b.snakes[2])
    BY <1>1, <1>2, <2>1, Zenon
  <2> QED BY <2>2, <2>3
<1>5. \A p \in Players : Len(b.snakes[p]) > 1 /\ Connected(b.snakes[p])
  BY <1>4 DEF Players
<1>6. GoodBoard(b) /\ FoodAt(b) = {f}
  BY <1>3, <1>5 DEF GoodBoard
<1> QED BY <1>6 DEF b, two, one

-----------------------------------------------------------------------------
(* One history of the board for all clients.                               *)
(*                                                                         *)
(* Every client carries out the options of the same frames with the same   *)
(* draws, some earlier and some later.  fs are the frames sent, all the    *)
(* draws made, and h the states the foremost client has passed through;    *)
(* every other client is in one of them.                                   *)

Frames == [Players -> Moves \cup {"MOVE_FORWARD"}]

\* at: frames taken; left: options of the last one not carried out; drawn: draws made.
At(at, left, b, r, drawn) ==
  [at |-> at, left |-> left, board |-> b, refresh |-> r, drawn |-> drawn]

States ==
  [at : Nat, left : 0..2, board : Boards, refresh : {"runs", "draws", "undefined"}, drawn : Nat]

GoodState(s) ==
  /\ s \in States /\ GoodBoard(s.board)
  /\ IF s.refresh = "draws" THEN FoodAt(s.board) = {} ELSE \E f \in Cells : FoodAt(s.board) = {f}

\* The cases of MoveSnake.
Moved(s, s2, p, option, all) ==
  LET b == s.board
      targets == Targets(b, p, option)
  IN \/ /\ \E t \in targets : t \notin Cells
        /\ s2 = At(s.at, s.left - 1, b, "undefined", s.drawn)
     \/ /\ \A t \in targets : t \in Cells /\ b.map[t] = "BORDER"
        /\ s2 = At(s.at, s.left - 1, b, "runs", s.drawn)
     \/ \E t \in targets \cap Cells :
          /\ b.map[t] = "FOOD" /\ FoodCells(Grow(b, p, t)) = {}
          /\ s2 = At(s.at, s.left - 1, Grow(b, p, t), "draws", s.drawn)
     \/ \E t \in targets \cap Cells :
          /\ b.map[t] = "FOOD"
          /\ s.drawn < Len(all) /\ all[s.drawn + 1] \in FoodCells(Grow(b, p, t))
          /\ s2 = At(s.at, s.left - 1, MakeFood(Grow(b, p, t), all[s.drawn + 1]), "runs",
                     s.drawn + 1)
     \/ \E t \in targets \cap Cells :
          /\ b.map[t] \notin {"BORDER", "FOOD"}
          /\ s2 = At(s.at, s.left - 1, Shift(b, p, t), "runs", s.drawn)

TakesFrame(s, s2, fs) ==
  /\ s.left = 0 /\ s.at < Len(fs)
  /\ s2 = At(s.at + 1, 2, s.board, s.refresh, s.drawn)

MovesSnake(s, s2, fs, all) ==
  /\ s.left > 0 /\ s.at > 0 /\ s.refresh = "runs"
  /\ Moved(s, s2, 3 - s.left, fs[s.at][3 - s.left], all)

Follows(s, s2, fs, all) == TakesFrame(s, s2, fs) \/ MovesSnake(s, s2, fs, all)

History(fs, all, h) ==
  /\ Len(h) > 0
  /\ \A k \in 1..Len(h) : /\ GoodState(h[k])
                          /\ k = 3 * h[k].at - h[k].left + 1
                          /\ h[k].drawn <= Len(all) /\ h[k].at <= Len(fs)
  /\ h[Len(h)].drawn = Len(all)
  /\ \A k \in 1..Len(h) - 1 : Follows(h[k], h[k + 1], fs, all)

Taken(c) == sent - Len(queue[c]) - Len(socket[c])
StateOf(c, all) ==
  At(Taken(c), Len(frame[c]), board[c], refresh[c], Len(all) - Len(draws[c]))
Place(c) == 3 * Taken(c) - Len(frame[c]) + 1

\* What a client has still to do is the rest of what has been sent and drawn.
Pending(c, fs, all) ==
  /\ \A i \in 1..Len(queue[c]) : queue[c][i] = fs[Taken(c) + i]
  /\ \A i \in 1..Len(socket[c]) : socket[c][i] = fs[Taken(c) + Len(queue[c]) + i]
  /\ \A i \in 1..Len(frame[c]) : frame[c][i] = fs[Taken(c)][2 - Len(frame[c]) + i]
  /\ \A i \in 1..Len(draws[c]) : draws[c][i] = all[Len(all) - Len(draws[c]) + i]
  /\ Len(draws[c]) <= Len(all)

InHistory(c, fs, all, h) ==
  /\ Pending(c, fs, all)
  /\ Place(c) \in 1..Len(h) /\ h[Place(c)] = StateOf(c, all)

Typed ==
  /\ board \in [Clients -> Boards] /\ draws \in [Clients -> Seq(Interior)]
  /\ socket \in [Clients -> Seq(Frames)] /\ queue \in [Clients -> Seq(Frames)]
  /\ refresh \in [Clients -> {"runs", "draws", "undefined"}]
  /\ frame \in [Clients -> Seq(Moves \cup {"MOVE_FORWARD"})]
  /\ \A c \in Clients : /\ Len(frame[c]) <= 2
                        /\ Len(socket[c]) <= MaxQueue /\ Len(queue[c]) <= MaxQueue
                        /\ Taken(c) \in Nat
  /\ sent \in 0..MaxFrames

OneHistory ==
  \E fs \in Seq(Frames), all \in Seq(Interior), h \in Seq(States) :
    /\ Len(fs) = sent /\ History(fs, all, h)
    /\ \A c \in Clients : InHistory(c, fs, all, h)

SnakeInv == Typed /\ OneHistory

-----------------------------------------------------------------------------
(* A step of the history.                                                  *)

\* A frame is a sequence of two options.
LEMMA FrameIsSeq ==
  ASSUME NEW f \in Frames
  PROVE  f \in Seq(Moves \cup {"MOVE_FORWARD"}) /\ Len(f) = 2
<1>1. Players = 1..2
  BY DEF Players
<1>2. f \in [1..2 -> Moves \cup {"MOVE_FORWARD"}]
  BY <1>1 DEF Frames
<1>3. f \in Seq(Moves \cup {"MOVE_FORWARD"})
  BY <1>2, SeqDef
<1>4. PICK n \in Nat : n = Len(f)
  BY <1>3
<1>5. 1..n = 1..2
  BY <1>2, <1>3, <1>4
<1>6. n >= 2
  <2>1. 2 \in 1..n
    BY <1>5
  <2> QED BY <2>1
<1>7. n \in 1..n
  BY <1>6
<1>8. n <= 2
  BY <1>5, <1>7
<1> QED BY <1>3, <1>4, <1>6, <1>8

\* An option moves the head to one cell at most, and that is beside it.
LEMMA TargetsAreBeside ==
  ASSUME NEW b, NEW p, NEW option \in Moves \cup {"MOVE_FORWARD"}
  PROVE  /\ \A t \in Targets(b, p, option) : \E m \in Moves : t = Beside(b.snakes[p][1], m)
         /\ \A t, u \in Targets(b, p, option) : t = u
<1> DEFINE moves == MoveOf(b.snakes[p], option)
<1>1. Forward(b.snakes[p]) \in Moves
  BY DEF Forward, Moves
<1>2. moves \subseteq Moves /\ \A m, n \in moves : m = n
  BY <1>1 DEF MoveOf
<1> HIDE DEF moves
<1>3. Targets(b, p, option) = {Beside(b.snakes[p][1], m) : m \in moves}
  BY DEF Targets, moves
<1> QED BY <1>2, <1>3

LEMMA GrowGood ==
  ASSUME NEW b, GoodBoard(b), NEW p \in Players, NEW t \in Cells, NEW m \in Moves,
         t = Beside(b.snakes[p][1], m)
  PROVE  GoodBoard(Grow(b, p, t)) /\ FoodAt(Grow(b, p, t)) = FoodAt(b) \ {t}
<1>1. /\ b \in Boards /\ Counted(b)
      /\ b.snakes[p] \in Seq(Cells) /\ Len(b.snakes[p]) > 1 /\ Connected(b.snakes[p])
  BY DEF GoodBoard, Boards
<1>2. /\ Grow(b, p, t) \in Boards /\ Counted(Grow(b, p, t))
      /\ FoodAt(Grow(b, p, t)) = FoodAt(b) \ {t}
      /\ Grow(b, p, t).snakes = [b.snakes EXCEPT ![p] = <<t>> \o b.snakes[p]]
  BY <1>1, GrowCounted
<1>3. /\ Connected(<<t>> \o b.snakes[p]) /\ Len(<<t>> \o b.snakes[p]) = Len(b.snakes[p]) + 1
  <2>1. b.snakes[p] # <<>>
    BY <1>1
  <2> QED BY <1>1, <2>1, ConnectedPrepend
<1>4. \A q \in Players : Grow(b, p, t).snakes[q] =
                          IF q = p THEN <<t>> \o b.snakes[p] ELSE b.snakes[q]
  BY <1>1, <1>2 DEF Boards
<1>5. Len(b.snakes[p]) \in Nat
  BY <1>1
<1>6. \A q \in Players : /\ Len(Grow(b, p, t).snakes[q]) > 1
                          /\ Connected(Grow(b, p, t).snakes[q])
  <2> SUFFICES ASSUME NEW q \in Players
               PROVE  Len(Grow(b, p, t).snakes[q]) > 1 /\ Connected(Grow(b, p, t).snakes[q])
    OBVIOUS
  <2>1. CASE q = p
    <3>1. Grow(b, p, t).snakes[q] = <<t>> \o b.snakes[p]
      BY <1>4, <2>1
    <3>2. Len(<<t>> \o b.snakes[p]) > 1 /\ Connected(<<t>> \o b.snakes[p])
      BY <1>1, <1>3, <1>5
    <3> QED BY <3>1, <3>2, Zenon
  <2>2. CASE q # p
    BY <1>4, <2>2 DEF GoodBoard
  <2> QED BY <2>1, <2>2
<1> QED BY <1>2, <1>6 DEF GoodBoard

LEMMA ShiftGood ==
  ASSUME NEW b, GoodBoard(b), NEW p \in Players, NEW t \in Cells, NEW m \in Moves,
         t = Beside(b.snakes[p][1], m)
  PROVE  GoodBoard(Shift(b, p, t)) /\ FoodAt(Shift(b, p, t)) = FoodAt(b) \ {t}
<1> DEFINE front == SubSeq(b.snakes[p], 1, Len(b.snakes[p]) - 1)
<1>1. /\ b \in Boards /\ Counted(b)
      /\ b.snakes[p] \in Seq(Cells) /\ Len(b.snakes[p]) > 1 /\ Connected(b.snakes[p])
  BY DEF GoodBoard, Boards
<1>2. b.snakes[p] # <<>> /\ Len(b.snakes[p]) \in Nat
  BY <1>1
<1>3. /\ Shift(b, p, t) \in Boards /\ Counted(Shift(b, p, t))
      /\ FoodAt(Shift(b, p, t)) = FoodAt(b) \ {t}
      /\ Shift(b, p, t).snakes = [b.snakes EXCEPT ![p] = <<t>> \o front]
  BY <1>1, <1>2, ShiftCounted
<1>4. /\ front \in Seq(Cells) /\ front # <<>> /\ Connected(front)
      /\ Len(front) = Len(b.snakes[p]) - 1 /\ front[1] = b.snakes[p][1]
  BY <1>1, ConnectedFront
<1> HIDE DEF front
<1>5. Connected(<<t>> \o front) /\ Len(<<t>> \o front) = Len(front) + 1
  BY <1>4, ConnectedPrepend
<1>6. \A q \in Players : Shift(b, p, t).snakes[q] =
                          IF q = p THEN <<t>> \o front ELSE b.snakes[q]
  BY <1>1, <1>3 DEF Boards
<1>7. \A q \in Players : /\ Len(Shift(b, p, t).snakes[q]) > 1
                          /\ Connected(Shift(b, p, t).snakes[q])
  <2> SUFFICES ASSUME NEW q \in Players
               PROVE  Len(Shift(b, p, t).snakes[q]) > 1 /\ Connected(Shift(b, p, t).snakes[q])
    OBVIOUS
  <2>1. CASE q = p
    <3>1. Shift(b, p, t).snakes[q] = <<t>> \o front
      BY <1>6, <2>1
    <3>2. Len(<<t>> \o front) > 1 /\ Connected(<<t>> \o front)
      BY <1>1, <1>2, <1>4, <1>5
    <3> QED BY <3>1, <3>2, Zenon
  <2>2. CASE q # p
    BY <1>6, <2>2 DEF GoodBoard
  <2> QED BY <2>1, <2>2
<1> QED BY <1>3, <1>7 DEF GoodBoard

LEMMA MakeFoodGood ==
  ASSUME NEW b, GoodBoard(b), NEW cell \in FoodCells(b)
  PROVE  /\ GoodBoard(MakeFood(b, cell)) /\ cell \in Cells
         /\ FoodAt(MakeFood(b, cell)) = FoodAt(b) \cup {cell}
<1>1. b \in Boards /\ Counted(b)
  BY DEF GoodBoard
<1>2. /\ cell \in Cells
      /\ MakeFood(b, cell) \in Boards /\ Counted(MakeFood(b, cell))
      /\ FoodAt(MakeFood(b, cell)) = FoodAt(b) \cup {cell}
      /\ MakeFood(b, cell).snakes = b.snakes
  BY <1>1, MakeFoodCounted
<1> QED BY <1>2 DEF GoodBoard

\* Whatever the move, the board stays good and its food as it should be.
LEMMA MovedGood ==
  ASSUME NEW s, GoodState(s), s.left > 0, s.refresh = "runs",
         NEW p \in Players, NEW option \in Moves \cup {"MOVE_FORWARD"},
         NEW all \in Seq(Interior), s.drawn <= Len(all),
         NEW s2, Moved(s, s2, p, option, all)
  PROVE  /\ GoodState(s2) /\ s2.at = s.at /\ s2.left = s.left - 1
         /\ s2.drawn <= Len(all)
<1> DEFINE b == s.board
           targets == Targets(b, p, option)
<1>1. /\ s.at \in Nat /\ s.left \in 0..2 /\ s.drawn \in Nat /\ s.left - 1 \in 0..2
      /\ GoodBoard(b) /\ b \in Boards
  BY DEF GoodState, States, GoodBoard
<1>2. PICK f \in Cells : FoodAt(b) = {f}
  BY DEF GoodState
<1>3. \A t \in targets : \E m \in Moves : t = Beside(b.snakes[p][1], m)
  BY TargetsAreBeside
<1>4. ASSUME NEW b2, NEW r \in {"runs", "draws", "undefined"}, NEW d \in Nat, d <= Len(all),
             GoodBoard(b2), s2 = At(s.at, s.left - 1, b2, r, d),
             IF r = "draws" THEN FoodAt(b2) = {} ELSE \E g \in Cells : FoodAt(b2) = {g}
      PROVE  /\ GoodState(s2) /\ s2.at = s.at /\ s2.left = s.left - 1
             /\ s2.drawn <= Len(all)
  <2>1. b2 \in Boards
    BY <1>4 DEF GoodBoard
  <2>2. /\ s2.at = s.at /\ s2.left = s.left - 1 /\ s2.board = b2 /\ s2.refresh = r
        /\ s2.drawn = d
    BY <1>4 DEF At
  <2>3. s2 \in States
    BY <1>1, <1>4, <2>1 DEF States, At
  <2> QED BY <1>4, <2>2, <2>3 DEF GoodState
<1> HIDE DEF targets, b
<1>5. CASE /\ \E t \in targets : t \notin Cells
           /\ s2 = At(s.at, s.left - 1, b, "undefined", s.drawn)
  BY <1>1, <1>2, <1>4, <1>5
<1>6. CASE /\ \A t \in targets : t \in Cells /\ b.map[t] = "BORDER"
           /\ s2 = At(s.at, s.left - 1, b, "runs", s.drawn)
  BY <1>1, <1>2, <1>4, <1>6
<1>7. ASSUME NEW t \in targets \cap Cells, b.map[t] = "FOOD"
      PROVE  t = f /\ GoodBoard(Grow(b, p, t)) /\ FoodAt(Grow(b, p, t)) = {}
  <2>1. t \in FoodAt(b)
    BY <1>7 DEF FoodAt
  <2>2. PICK m \in Moves : t = Beside(b.snakes[p][1], m)
    BY <1>3, <1>7
  <2>3. GoodBoard(Grow(b, p, t)) /\ FoodAt(Grow(b, p, t)) = FoodAt(b) \ {t}
    BY <1>1, <2>2, GrowGood
  <2> QED BY <1>2, <2>1, <2>3
<1>8. ASSUME NEW t \in targets \cap Cells, b.map[t] = "FOOD",
             s2 = At(s.at, s.left - 1, Grow(b, p, t), "draws", s.drawn)
      PROVE  /\ GoodState(s2) /\ s2.at = s.at /\ s2.left = s.left - 1
             /\ s2.drawn <= Len(all)
  BY <1>1, <1>4, <1>7, <1>8
<1>9. ASSUME NEW t \in targets \cap Cells, b.map[t] = "FOOD",
             s.drawn < Len(all), all[s.drawn + 1] \in FoodCells(Grow(b, p, t)),
             s2 = At(s.at, s.left - 1, MakeFood(Grow(b, p, t), all[s.drawn + 1]), "runs",
                     s.drawn + 1)
      PROVE  /\ GoodState(s2) /\ s2.at = s.at /\ s2.left = s.left - 1
             /\ s2.drawn <= Len(all)
  <2> DEFINE cell == all[s.drawn + 1]
             grown == Grow(b, p, t)
  <2>1. GoodBoard(grown) /\ FoodAt(grown) = {} /\ cell \in FoodCells(grown)
    BY <1>7, <1>9
  <2>2. s2 = At(s.at, s.left - 1, MakeFood(grown, cell), "runs", s.drawn + 1)
    BY <1>9
  <2>3. s.drawn + 1 \in Nat /\ s.drawn + 1 <= Len(all)
    BY <1>1, <1>9
  <2> HIDE DEF cell, grown
  <2>4. /\ GoodBoard(MakeFood(grown, cell)) /\ cell \in Cells
        /\ FoodAt(MakeFood(grown, cell)) = {cell}
    BY <2>1, MakeFoodGood
  <2>5. \E g \in Cells : FoodAt(MakeFood(grown, cell)) = {g}
    BY <2>4
  <2> QED BY <1>4, <2>2, <2>3, <2>4, <2>5
<1>10. ASSUME NEW t \in targets \cap Cells, b.map[t] \notin {"BORDER", "FOOD"},
              s2 = At(s.at, s.left - 1, Shift(b, p, t), "runs", s.drawn)
       PROVE  /\ GoodState(s2) /\ s2.at = s.at /\ s2.left = s.left - 1
              /\ s2.drawn <= Len(all)
  <2>1. PICK m \in Moves : t = Beside(b.snakes[p][1], m)
    BY <1>3, <1>10
  <2>2. GoodBoard(Shift(b, p, t)) /\ FoodAt(Shift(b, p, t)) = FoodAt(b) \ {t}
    BY <1>1, <2>1, ShiftGood
  <2>3. t \notin FoodAt(b)
    BY <1>10 DEF FoodAt
  <2>4. FoodAt(Shift(b, p, t)) = {f}
    BY <1>2, <2>2, <2>3
  <2>5. \E g \in Cells : FoodAt(Shift(b, p, t)) = {g}
    BY <2>4
  <2> QED BY <1>1, <1>4, <1>10, <2>2, <2>5
<1> QED BY <1>5, <1>6, <1>8, <1>9, <1>10 DEF Moved, targets, b

\* The next state is determined by the draws made.
LEMMA MovedOnce ==
  ASSUME NEW s, NEW p, NEW option \in Moves \cup {"MOVE_FORWARD"}, NEW all,
         NEW s2, Moved(s, s2, p, option, all),
         NEW s3, Moved(s, s3, p, option, all)
  PROVE  s2 = s3
<1> DEFINE targets == Targets(s.board, p, option)
<1>1. \A t, u \in targets : t = u
  BY TargetsAreBeside
<1> HIDE DEF targets
<1>2. CASE targets = {}
  BY <1>2 DEF Moved, targets
<1>3. ASSUME NEW t, targets = {t} PROVE s2 = s3
  <2>1. CASE t \notin Cells
    BY <1>3, <2>1 DEF Moved, targets
  <2>2. CASE t \in Cells /\ s.board.map[t] = "BORDER"
    BY <1>3, <2>2 DEF Moved, targets
  <2>3. CASE t \in Cells /\ s.board.map[t] = "FOOD"
    BY <1>3, <2>3 DEF Moved, targets
  <2>4. CASE t \in Cells /\ s.board.map[t] \notin {"BORDER", "FOOD"}
    BY <1>3, <2>4 DEF Moved, targets
  <2> QED BY <2>1, <2>2, <2>3, <2>4
<1>4. ASSUME NEW t \in targets PROVE targets = {t}
  BY <1>1, <1>4
<1> QED BY <1>2, <1>3, <1>4

\* A later draw changes nothing about it.
LEMMA MovedMore ==
  ASSUME NEW s, s.drawn \in Nat, NEW p, NEW option, NEW all \in Seq(Interior),
         NEW cell \in Interior, NEW s2, Moved(s, s2, p, option, all)
  PROVE  Moved(s, s2, p, option, Append(all, cell))
<1>1. Len(all) \in Nat /\ Len(Append(all, cell)) = Len(all) + 1
  OBVIOUS
<1>2. s.drawn < Len(all) => /\ s.drawn < Len(Append(all, cell))
                            /\ Append(all, cell)[s.drawn + 1] = all[s.drawn + 1]
  BY <1>1
<1> QED BY <1>2 DEF Moved

LEMMA OptionInFrame ==
  ASSUME NEW fs \in Seq(Frames), NEW a \in 1..Len(fs), NEW p \in Players
  PROVE  fs[a][p] \in Moves \cup {"MOVE_FORWARD"}
<1>1. fs[a] \in Frames
  OBVIOUS
<1> QED BY <1>1 DEF Frames

LEMMA FollowsOnce ==
  ASSUME NEW fs \in Seq(Frames), NEW all,
         NEW s \in States, s.at <= Len(fs),
         NEW s2, Follows(s, s2, fs, all), NEW s3, Follows(s, s3, fs, all)
  PROVE  s2 = s3
<1>1. s.left \in 0..2 /\ s.at \in Nat
  BY DEF States
<1>2. CASE s.left = 0
  BY <1>2 DEF Follows, TakesFrame, MovesSnake
<1>3. CASE s.left > 0
  <2>1. MovesSnake(s, s2, fs, all) /\ MovesSnake(s, s3, fs, all)
    BY <1>3 DEF Follows, TakesFrame
  <2>2. s.at \in 1..Len(fs) /\ 3 - s.left \in Players
    BY <1>1, <1>3, <2>1 DEF MovesSnake, Players
  <2>3. fs[s.at][3 - s.left] \in Moves \cup {"MOVE_FORWARD"}
    BY <2>2, OptionInFrame
  <2> QED BY <2>1, <2>3, MovedOnce DEF MovesSnake
<1> QED BY <1>1, <1>2, <1>3

LEMMA FollowsGood ==
  ASSUME NEW fs \in Seq(Frames), NEW all \in Seq(Interior),
         NEW s, GoodState(s), s.at <= Len(fs), s.drawn <= Len(all),
         NEW s2, Follows(s, s2, fs, all)
  PROVE  /\ GoodState(s2) /\ s2.drawn <= Len(all) /\ s2.at <= Len(fs)
         /\ 3 * s2.at - s2.left = 3 * s.at - s.left + 1
<1>1. /\ s.left \in 0..2 /\ s.at \in Nat /\ s.drawn \in Nat /\ s.board \in Boards
      /\ s.refresh \in {"runs", "draws", "undefined"}
  BY DEF GoodState, States
<1>2. CASE TakesFrame(s, s2, fs)
  <2>1. s2 = At(s.at + 1, 2, s.board, s.refresh, s.drawn) /\ s.left = 0
    BY <1>2 DEF TakesFrame
  <2>2. /\ s2.at = s.at + 1 /\ s2.left = 2 /\ s2.board = s.board /\ s2.refresh = s.refresh
        /\ s2.drawn = s.drawn
    BY <2>1 DEF At
  <2>3. s.at + 1 \in Nat
    BY <1>1
  <2>4. s2 \in States
    BY <1>1, <2>1, <2>3 DEF States, At
  <2>5. GoodState(s2)
    BY <2>2, <2>4 DEF GoodState
  <2>6. s.left = 0 /\ 3 * (s.at + 1) - 2 = 3 * s.at - 0 + 1
    BY <1>1, <2>1
  <2>7. 3 * s2.at - s2.left = 3 * s.at - s.left + 1
    BY <2>2, <2>6
  <2>8. s.at + 1 <= Len(fs)
    BY <1>1, <1>2 DEF TakesFrame
  <2> QED BY <2>2, <2>5, <2>7, <2>8
<1>3. CASE MovesSnake(s, s2, fs, all)
  <2>1. s.at \in 1..Len(fs) /\ 3 - s.left \in Players
    BY <1>1, <1>3 DEF MovesSnake, Players
  <2>2. fs[s.at][3 - s.left] \in Moves \cup {"MOVE_FORWARD"}
    BY <2>1, OptionInFrame
  <2>3. /\ GoodState(s2) /\ s2.at = s.at /\ s2.left = s.left - 1
        /\ s2.drawn <= Len(all)
    BY <1>3, <2>1, <2>2, MovedGood DEF MovesSnake
  <2> QED BY <1>1, <2>3
<1> QED BY <1>2, <1>3 DEF Follows

LEMMA FollowsMore ==
  ASSUME NEW fs \in Seq(Frames), NEW all \in Seq(Interior), NEW cell \in Interior,
         NEW s \in States, NEW s2, Follows(s, s2, fs, all)
  PROVE  Follows(s, s2, fs, Append(all, cell))
<1>1. s.drawn \in Nat
  BY DEF States
<1> QED BY <1>1, MovedMore DEF Follows, MovesSnake

\* A frame sent later changes nothing about what has been done.
LEMMA FollowsLonger ==
  ASSUME NEW fs \in Seq(Frames), NEW all, NEW f \in Frames,
         NEW s \in States, s.at <= Len(fs), NEW s2, Follows(s, s2, fs, all)
  PROVE  Follows(s, s2, Append(fs, f), all)
<1>1. s.at \in Nat
  BY DEF States
<1>2. Len(Append(fs, f)) = Len(fs) + 1 /\ \A a \in 1..Len(fs) : Append(fs, f)[a] = fs[a]
  OBVIOUS
<1>3. CASE TakesFrame(s, s2, fs)
  BY <1>1, <1>2, <1>3 DEF Follows, TakesFrame
<1>4. CASE MovesSnake(s, s2, fs, all)
  <2>1. Append(fs, f)[s.at] = fs[s.at]
    BY <1>1, <1>2, <1>4 DEF MovesSnake
  <2> QED BY <1>4, <2>1 DEF Follows, MovesSnake
<1> QED BY <1>3, <1>4 DEF Follows

\* The foremost client adds a state to the history, and a draw with it or none.
LEMMA HistoryGrows ==
  ASSUME NEW fs \in Seq(Frames), NEW all \in Seq(Interior), NEW h \in Seq(States),
         History(fs, all, h),
         NEW all2 \in Seq(Interior),
         all2 = all \/ \E cell \in Interior : all2 = Append(all, cell),
         NEW s2, GoodState(s2), Follows(h[Len(h)], s2, fs, all2),
         3 * s2.at - s2.left + 1 = Len(h) + 1, s2.drawn = Len(all2), s2.at <= Len(fs)
  PROVE  Append(h, s2) \in Seq(States) /\ History(fs, all2, Append(h, s2))
<1> DEFINE h2 == Append(h, s2)
<1>1. s2 \in States
  BY DEF GoodState
<1>2. /\ h2 \in Seq(States) /\ Len(h2) = Len(h) + 1 /\ Len(h) \in Nat
      /\ h2[Len(h) + 1] = s2 /\ \A k \in 1..Len(h) : h2[k] = h[k]
  BY <1>1
<1> HIDE DEF h2
<1>3. Len(all) \in Nat /\ Len(all2) \in Nat /\ Len(all) <= Len(all2)
  OBVIOUS
<1>4. ASSUME NEW k \in 1..Len(h2)
      PROVE  /\ GoodState(h2[k]) /\ k = 3 * h2[k].at - h2[k].left + 1
             /\ h2[k].drawn <= Len(all2) /\ h2[k].at <= Len(fs)
  <2>1. CASE k = Len(h) + 1
    BY <1>2, <1>3, <2>1
  <2>2. CASE k \in 1..Len(h)
    <3>1. /\ GoodState(h[k]) /\ k = 3 * h[k].at - h[k].left + 1 /\ h[k].drawn <= Len(all)
          /\ h[k].drawn \in Nat /\ h[k].at <= Len(fs)
      BY <2>2 DEF History, GoodState, States
    <3> QED BY <1>2, <1>3, <2>2, <3>1
  <2> QED BY <1>2, <2>1, <2>2
<1>5. ASSUME NEW k \in 1..Len(h2) - 1
      PROVE  Follows(h2[k], h2[k + 1], fs, all2)
  <2>1. CASE k = Len(h)
    BY <1>2, <2>1 DEF History
  <2>2. CASE k \in 1..Len(h) - 1
    <3>1. Follows(h[k], h[k + 1], fs, all) /\ h[k] \in States
      BY <2>2 DEF History
    <3>2. Follows(h[k], h[k + 1], fs, all2)
      BY <3>1, FollowsMore
    <3>3. h2[k] = h[k] /\ h2[k + 1] = h[k + 1]
      BY <1>2, <2>2
    <3> QED BY <3>2, <3>3
  <2> QED BY <1>2, <2>1, <2>2
<1>6. h2[Len(h2)].drawn = Len(all2) /\ Len(h2) > 0
  BY <1>2
<1>7. History(fs, all2, h2)
  BY <1>4, <1>5, <1>6 DEF History
<1> QED BY <1>2, <1>7 DEF h2

-----------------------------------------------------------------------------
(* The actions and the history.                                            *)

LEMMA TwoPlayers == Cardinality(Players) = 2
<1>1. IsFiniteSet({}) /\ Cardinality({}) = 0
  BY FS_EmptySet
<1>2. IsFiniteSet({} \cup {1}) /\ Cardinality({} \cup {1}) = 1
  BY <1>1, FS_AddElement
<1>3. 2 \notin {} \cup {1}
  OBVIOUS
<1>4. Cardinality(({} \cup {1}) \cup {2}) = 2
  BY <1>2, <1>3, FS_AddElement
<1>5. Players = ({} \cup {1}) \cup {2}
  BY DEF Players
<1> QED BY <1>4, <1>5

\* rest are the last elements of all.
EndOf(rest, all) ==
  /\ Len(rest) <= Len(all)
  /\ \A i \in 1..Len(rest) : rest[i] = all[Len(all) - Len(rest) + i]

LEMMA RestGrows ==
  ASSUME NEW rest \in Seq(Interior), NEW all \in Seq(Interior), NEW x \in Interior,
         EndOf(rest, all)
  PROVE  /\ EndOf(Append(rest, x), Append(all, x))
         /\ Len(Append(all, x)) - Len(Append(rest, x)) = Len(all) - Len(rest)
<1> DEFINE rest2 == Append(rest, x)
           all2 == Append(all, x)
<1>1. PICK n \in Nat, m \in Nat : n = Len(all) /\ m = Len(rest)
  OBVIOUS
<1>2. Len(all2) = n + 1 /\ all2[n + 1] = x /\ \A i \in 1..n : all2[i] = all[i]
  BY <1>1
<1>3. Len(rest2) = m + 1 /\ rest2[m + 1] = x /\ \A i \in 1..m : rest2[i] = rest[i]
  BY <1>1
<1>4. m <= n /\ \A i \in 1..m : rest[i] = all[n - m + i]
  BY <1>1 DEF EndOf
<1> HIDE DEF rest2, all2
<1>5. ASSUME NEW i \in 1..m + 1 PROVE rest2[i] = all2[n - m + i]
  <2>1. CASE i = m + 1
    <3>1. n - m + i = n + 1
      BY <1>4, <2>1
    <3> QED BY <1>2, <1>3, <2>1, <3>1
  <2>2. CASE i \in 1..m
    <3>1. n - m + i \in 1..n
      BY <1>4, <2>2
    <3>2. all2[n - m + i] = all[n - m + i]
      BY <1>2, <3>1
    <3>3. rest[i] = all[n - m + i] /\ rest2[i] = rest[i]
      BY <1>3, <1>4, <2>2
    <3> QED BY <3>2, <3>3
  <2>3. i = m + 1 \/ i \in 1..m
    OBVIOUS
  <2> QED BY <2>1, <2>2, <2>3
<1>6. (n + 1) - (m + 1) = n - m /\ m + 1 <= n + 1
  BY <1>4
<1>7. Len(all2) - Len(rest2) = n - m
  BY <1>2, <1>3, <1>6
<1>8. \A i \in 1..Len(rest2) : rest2[i] = all2[Len(all2) - Len(rest2) + i]
  BY <1>3, <1>5, <1>7
<1>9. EndOf(rest2, all2)
  BY <1>2, <1>3, <1>6, <1>8 DEF EndOf
<1> QED BY <1>1, <1>7, <1>9 DEF rest2, all2

\* Where a client is in the history, for its state.
LEMMA ClientFacts ==
  ASSUME Typed, NEW c \in Clients,
         NEW fs \in Seq(Frames), NEW all \in Seq(Interior), NEW h \in Seq(States),
         Len(fs) = sent, History(fs, all, h), InHistory(c, fs, all, h)
  PROVE  /\ StateOf(c, all).at = Taken(c) /\ StateOf(c, all).left = Len(frame[c])
         /\ StateOf(c, all).board = board[c] /\ StateOf(c, all).refresh = refresh[c]
         /\ StateOf(c, all).drawn = Len(all) - Len(draws[c])
         /\ Len(all) - Len(draws[c]) \in Nat /\ Len(all) - Len(draws[c]) <= Len(all)
         /\ GoodState(StateOf(c, all)) /\ StateOf(c, all) \in States
         /\ Taken(c) \in 0..Len(fs) /\ Len(frame[c]) \in 0..2
         /\ Len(draws[c]) \in Nat /\ Len(queue[c]) \in Nat /\ Len(socket[c]) \in Nat
         /\ sent = Taken(c) + Len(queue[c]) + Len(socket[c])
         /\ Place(c) \in 1..Len(h) /\ h[Place(c)] = StateOf(c, all)
<1>1. /\ Len(draws[c]) \in Nat /\ Len(queue[c]) \in Nat /\ Len(socket[c]) \in Nat
      /\ Len(frame[c]) \in 0..2 /\ Taken(c) \in Nat /\ sent \in Nat
  <2>1. /\ draws[c] \in Seq(Interior) /\ queue[c] \in Seq(Frames) /\ socket[c] \in Seq(Frames)
        /\ frame[c] \in Seq(Moves \cup {"MOVE_FORWARD"}) /\ Len(frame[c]) <= 2
        /\ Taken(c) \in Nat /\ sent \in Nat
    BY SnakeAssumption DEF Typed
  <2>2. /\ Len(frame[c]) \in Nat /\ Len(draws[c]) \in Nat
        /\ Len(queue[c]) \in Nat /\ Len(socket[c]) \in Nat
    BY <2>1
  <2>3. Len(frame[c]) \in 0..2
    <3>1. PICK n \in Nat : n = Len(frame[c])
      BY <2>2
    <3>2. n <= 2
      BY <3>1 DEF Typed
    <3>3. n \in 0..2
      BY <3>2
    <3> QED BY <3>1, <3>3, Zenon
  <2> QED BY <2>1, <2>2, <2>3
<1>2. /\ Place(c) \in 1..Len(h) /\ h[Place(c)] = StateOf(c, all) /\ Len(draws[c]) <= Len(all)
  BY DEF InHistory, Pending
<1>3. GoodState(StateOf(c, all))
  BY <1>2 DEF History
<1>4. /\ StateOf(c, all).at = Taken(c) /\ StateOf(c, all).left = Len(frame[c])
      /\ StateOf(c, all).board = board[c] /\ StateOf(c, all).refresh = refresh[c]
      /\ StateOf(c, all).drawn = Len(all) - Len(draws[c])
  BY DEF StateOf, At
<1>5. sent = Taken(c) + Len(queue[c]) + Len(socket[c])
  BY <1>1 DEF Taken
<1>6. Taken(c) \in 0..Len(fs)
  BY <1>1, <1>5
<1>7. Len(all) - Len(draws[c]) \in Nat /\ Len(all) - Len(draws[c]) <= Len(all)
  BY <1>1, <1>2
<1>8. StateOf(c, all) \in States
  BY <1>3 DEF GoodState
<1> QED BY <1>1, <1>2, <1>3, <1>4, <1>5, <1>6, <1>7, <1>8

\* The foremost client has made every draw.
LEMMA ForemostHasDrawn ==
  ASSUME Typed, NEW c \in Clients,
         NEW fs \in Seq(Frames), NEW all \in Seq(Interior), NEW h \in Seq(States),
         Len(fs) = sent, History(fs, all, h), InHistory(c, fs, all, h), Place(c) = Len(h)
  PROVE  draws[c] = <<>>
<1>1. h[Len(h)].drawn = Len(all)
  BY DEF History
<1>2. Len(all) - Len(draws[c]) = Len(all)
  BY <1>1, ClientFacts
<1>3. Len(draws[c]) = 0
  BY <1>2, ClientFacts
<1> QED BY <1>3 DEF Typed

\* A client that does nothing stays where it is, with one draw more to make or none.
LEMMA OthersStay ==
  ASSUME Typed, NEW d \in Clients,
         NEW fs \in Seq(Frames), NEW all \in Seq(Interior), NEW h \in Seq(States),
         InHistory(d, fs, all, h),
         NEW all2 \in Seq(Interior), NEW h2 \in Seq(States),
         h2 = h \/ \E s2 \in States : h2 = Append(h, s2),
         sent' = sent, queue'[d] = queue[d], socket'[d] = socket[d], frame'[d] = frame[d],
         board'[d] = board[d], refresh'[d] = refresh[d],
         \/ all2 = all /\ draws'[d] = draws[d]
         \/ \E cell \in Interior : all2 = Append(all, cell) /\ draws'[d] = Append(draws[d], cell)
  PROVE  InHistory(d, fs, all2, h2)'
<1>1. Taken(d)' = Taken(d) /\ Place(d)' = Place(d)
  BY DEF Taken, Place
<1>2. /\ Place(d) \in 1..Len(h) /\ h[Place(d)] = StateOf(d, all)
      /\ Len(draws[d]) <= Len(all) /\ draws[d] \in Seq(Interior)
      /\ Len(draws[d]) \in Nat /\ Len(all) \in Nat
      /\ \A i \in 1..Len(draws[d]) : draws[d][i] = all[Len(all) - Len(draws[d]) + i]
  BY DEF InHistory, Pending, Typed
<1>3. Place(d) \in 1..Len(h2) /\ h2[Place(d)] = h[Place(d)]
  BY <1>2
<1>4. EndOf(draws'[d], all2) /\ Len(all2) - Len(draws'[d]) = Len(all) - Len(draws[d])
  <2>1. EndOf(draws[d], all) /\ draws[d] \in Seq(Interior)
    BY <1>2 DEF EndOf
  <2>2. CASE all2 = all /\ draws'[d] = draws[d]
    BY <2>1, <2>2
  <2>3. ASSUME NEW cell \in Interior, all2 = Append(all, cell),
               draws'[d] = Append(draws[d], cell)
        PROVE  EndOf(draws'[d], all2) /\ Len(all2) - Len(draws'[d]) = Len(all) - Len(draws[d])
    <3>1. /\ EndOf(Append(draws[d], cell), Append(all, cell))
          /\ Len(Append(all, cell)) - Len(Append(draws[d], cell)) = Len(all) - Len(draws[d])
      BY <2>1, RestGrows
    <3> QED BY <2>3, <3>1, Zenon
  <2> QED BY <2>2, <2>3
<1>5. StateOf(d, all2)' = StateOf(d, all)
  BY <1>1, <1>4 DEF StateOf
<1>6. Pending(d, fs, all2)'
  BY <1>1, <1>4 DEF InHistory, Pending, EndOf
<1> QED BY <1>1, <1>2, <1>3, <1>5, <1>6 DEF InHistory

-----------------------------------------------------------------------------
(* What a client does is a step of the history.                            *)

\* c gets the board of s2; no draw is new.
Keeps(c, all, s2) ==
  /\ board' = [board EXCEPT ![c] = s2.board] /\ refresh' = [refresh EXCEPT ![c] = s2.refresh]
  /\ \/ draws' = draws /\ s2.drawn = Len(all) - Len(draws[c])
     \/ /\ draws[c] # <<>> /\ draws' = [draws EXCEPT ![c] = Tail(@)]
        /\ s2.drawn = Len(all) - Len(draws[c]) + 1

\* c gets the board of s2 and has drawn the cell first.
Chooses(c, all, cell, s2) ==
  /\ board' = [board EXCEPT ![c] = s2.board] /\ refresh' = [refresh EXCEPT ![c] = s2.refresh]
  /\ draws[c] = <<>>
  /\ draws' = [d \in Clients |-> IF d = c THEN draws[d] ELSE Append(draws[d], cell)]
  /\ s2.drawn = Len(all) + 1

\* A client that is not the foremost finds its next state in the history.
LEMMA NextInHistory ==
  ASSUME Typed, NEW c \in Clients,
         NEW fs \in Seq(Frames), NEW all \in Seq(Interior), NEW h \in Seq(States),
         Len(fs) = sent, History(fs, all, h), InHistory(c, fs, all, h), Place(c) # Len(h)
  PROVE  /\ Place(c) + 1 \in 1..Len(h)
         /\ Follows(StateOf(c, all), h[Place(c) + 1], fs, all)
<1>1. Place(c) \in 1..Len(h) /\ h[Place(c)] = StateOf(c, all)
  BY DEF InHistory
<1>2. Len(h) \in Nat
  OBVIOUS
<1>3. Place(c) \in 1..Len(h) - 1
  BY <1>1, <1>2
<1> QED BY <1>1, <1>2, <1>3 DEF History

LEMMA MoveSnakeFollows ==
  ASSUME Typed, NEW c \in Clients,
         NEW fs \in Seq(Frames), NEW all \in Seq(Interior), NEW h \in Seq(States),
         Len(fs) = sent, History(fs, all, h), InHistory(c, fs, all, h), MoveSnake(c)
  PROVE  \/ \E s2 : MovesSnake(StateOf(c, all), s2, fs, all) /\ Keeps(c, all, s2)
         \/ /\ Place(c) = Len(h)
            /\ \E cell \in Interior : \E s2 :
                 /\ MovesSnake(StateOf(c, all), s2, fs, Append(all, cell))
                 /\ Chooses(c, all, cell, s2)
<1> DEFINE s == StateOf(c, all)
           b == board[c]
           p == 3 - Len(frame[c])
           option == Head(frame[c])
           targets == Targets(b, p, option)
<1>1. /\ s.at = Taken(c) /\ s.left = Len(frame[c]) /\ s.board = b /\ s.refresh = "runs"
      /\ s.drawn = Len(all) - Len(draws[c])
      /\ Len(frame[c]) \in 1..2 /\ Taken(c) \in 1..Len(fs) /\ Len(draws[c]) \in Nat
  <2>1. /\ s.at = Taken(c) /\ s.left = Len(frame[c]) /\ s.board = b /\ s.refresh = refresh[c]
        /\ s.drawn = Len(all) - Len(draws[c])
        /\ Len(frame[c]) \in 0..2 /\ Taken(c) \in 0..Len(fs) /\ Len(draws[c]) \in Nat
        /\ Place(c) \in 1..Len(h)
    BY ClientFacts
  <2>2. frame[c] # <<>> /\ refresh[c] = "runs"
    BY DEF MoveSnake
  <2>3. Len(frame[c]) # 0
    BY <2>2 DEF Typed
  <2>4. Taken(c) # 0
    BY <2>1, <2>3 DEF Place
  <2> QED BY <2>1, <2>2, <2>3, <2>4
<1>2. option = fs[s.at][3 - s.left] /\ option \in Moves \cup {"MOVE_FORWARD"}
  <2>1. frame[c] \in Seq(Moves \cup {"MOVE_FORWARD"}) /\ 1 \in 1..Len(frame[c])
    <3>1. frame[c] \in Seq(Moves \cup {"MOVE_FORWARD"})
      BY DEF Typed
    <3>2. PICK n \in 1..2 : n = Len(frame[c])
      BY <1>1
    <3>3. 1 \in 1..n
      OBVIOUS
    <3> QED BY <3>1, <3>2, <3>3, Zenon
  <2>2. option = frame[c][1] /\ option \in Moves \cup {"MOVE_FORWARD"}
    BY <2>1
  <2>3. frame[c][1] = fs[Taken(c)][2 - Len(frame[c]) + 1]
    BY <2>1 DEF InHistory, Pending
  <2>4. 2 - Len(frame[c]) + 1 = 3 - Len(frame[c])
    BY <1>1
  <2>5. s.at = Taken(c) /\ s.left = Len(frame[c])
    BY <1>1
  <2> HIDE DEF s, option
  <2> QED BY <2>2, <2>3, <2>4, <2>5, Zenon
<1>3. \A s2, all2 : Moved(s, s2, p, option, all2) => MovesSnake(s, s2, fs, all2)
  BY <1>1, <1>2 DEF MovesSnake
<1>4. board \in [Clients -> Boards] /\ draws \in [Clients -> Seq(Interior)]
      /\ refresh \in [Clients -> {"runs", "draws", "undefined"}]
  BY DEF Typed
<1>5. \/ /\ \E t \in targets : t \notin Cells
         /\ refresh' = [refresh EXCEPT ![c] = "undefined"] /\ board' = board /\ draws' = draws
      \/ /\ \A t \in targets : t \in Cells /\ b.map[t] = "BORDER"
         /\ board' = board /\ draws' = draws /\ refresh' = refresh
      \/ \E t \in targets \cap Cells :
           /\ b.map[t] = "FOOD" /\ FoodCells(Grow(b, p, t)) = {}
           /\ refresh' = [refresh EXCEPT ![c] = "draws"]
           /\ board' = [board EXCEPT ![c] = Grow(b, p, t)] /\ draws' = draws
      \/ \E t \in targets \cap Cells :
           /\ b.map[t] = "FOOD" /\ FoodCells(Grow(b, p, t)) # {}
           /\ \E cell \in Cells :
                /\ Draw(c, Grow(b, p, t), cell)
                /\ board' = [board EXCEPT ![c] = MakeFood(Grow(b, p, t), cell)]
                /\ refresh' = refresh
      \/ \E t \in targets \cap Cells :
           /\ b.map[t] \notin {"BORDER", "FOOD"}
           /\ board' = [board EXCEPT ![c] = Shift(b, p, t)]
           /\ draws' = draws /\ refresh' = refresh
  <2>1. Cardinality(Players) + 1 - Len(frame[c]) = p
    BY <1>1, TwoPlayers
  <2> QED BY <2>1 DEF MoveSnake
<1> HIDE DEF s, b, p, option
<1>6. CASE /\ \E t \in targets : t \notin Cells
           /\ refresh' = [refresh EXCEPT ![c] = "undefined"] /\ board' = board /\ draws' = draws
  <2> DEFINE s2 == At(s.at, s.left - 1, b, "undefined", s.drawn)
  <2>1. Moved(s, s2, p, option, all)
    BY <1>1, <1>6 DEF Moved
  <2>2. Keeps(c, all, s2)
    BY <1>1, <1>4, <1>6 DEF Keeps, At, b
  <2> QED BY <1>3, <2>1, <2>2 DEF s
<1>7. CASE /\ \A t \in targets : t \in Cells /\ b.map[t] = "BORDER"
           /\ board' = board /\ draws' = draws /\ refresh' = refresh
  <2> DEFINE s2 == At(s.at, s.left - 1, b, "runs", s.drawn)
  <2>1. Moved(s, s2, p, option, all)
    BY <1>1, <1>7 DEF Moved
  <2>2. Keeps(c, all, s2)
    <3>1. refresh[c] = "runs"
      BY DEF MoveSnake
    <3> QED BY <1>1, <1>4, <1>7, <3>1 DEF Keeps, At, b
  <2> QED BY <1>3, <2>1, <2>2 DEF s
<1>8. ASSUME NEW t \in targets \cap Cells,
             b.map[t] = "FOOD", FoodCells(Grow(b, p, t)) = {},
             refresh' = [refresh EXCEPT ![c] = "draws"],
             board' = [board EXCEPT ![c] = Grow(b, p, t)], draws' = draws
      PROVE  \E s2 : MovesSnake(s, s2, fs, all) /\ Keeps(c, all, s2)
  <2> DEFINE s2 == At(s.at, s.left - 1, Grow(b, p, t), "draws", s.drawn)
  <2>1. Moved(s, s2, p, option, all)
    BY <1>1, <1>8 DEF Moved
  <2>2. Keeps(c, all, s2)
    BY <1>1, <1>8 DEF Keeps, At
  <2> QED BY <1>3, <2>1, <2>2
<1>9. ASSUME NEW t \in targets \cap Cells,
             b.map[t] \notin {"BORDER", "FOOD"},
             board' = [board EXCEPT ![c] = Shift(b, p, t)],
             draws' = draws, refresh' = refresh
      PROVE  \E s2 : MovesSnake(s, s2, fs, all) /\ Keeps(c, all, s2)
  <2> DEFINE s2 == At(s.at, s.left - 1, Shift(b, p, t), "runs", s.drawn)
  <2>1. Moved(s, s2, p, option, all)
    BY <1>1, <1>9 DEF Moved
  <2>2. Keeps(c, all, s2)
    <3>1. refresh[c] = "runs"
      BY DEF MoveSnake
    <3>2. refresh' = [refresh EXCEPT ![c] = "runs"]
      BY <1>4, <1>9, <3>1
    <3> QED BY <1>1, <1>9, <3>2 DEF Keeps, At
  <2> QED BY <1>3, <2>1, <2>2
<1>10. ASSUME NEW t \in targets \cap Cells,
              b.map[t] = "FOOD", FoodCells(Grow(b, p, t)) # {}, Place(c) # Len(h)
       PROVE  s.drawn < Len(all) /\ all[s.drawn + 1] \in FoodCells(Grow(b, p, t))
  <2>1. PICK s3 : Follows(s, s3, fs, all)
    BY <1>10, NextInHistory DEF s
  <2>2. Moved(s, s3, p, option, all)
    <3>1. s.left # 0
      <4>1. PICK n \in 1..2 : n = s.left
        BY <1>1
      <4> QED BY <4>1
    <3>2. Moved(s, s3, 3 - s.left, fs[s.at][3 - s.left], all)
      BY <2>1, <3>1 DEF Follows, TakesFrame, MovesSnake
    <3>3. 3 - s.left = p
      BY <1>1 DEF p
    <3> QED BY <1>2, <3>2, <3>3, Zenon
  <2>3. \A u \in targets : u = t
    BY <1>2, TargetsAreBeside
  <2> QED BY <1>1, <1>10, <2>2, <2>3 DEF Moved
<1>11. ASSUME NEW t \in targets \cap Cells, NEW cell \in Cells,
              b.map[t] = "FOOD", FoodCells(Grow(b, p, t)) # {},
              Draw(c, Grow(b, p, t), cell),
              board' = [board EXCEPT ![c] = MakeFood(Grow(b, p, t), cell)], refresh' = refresh
       PROVE  \/ \E s2 : MovesSnake(s, s2, fs, all) /\ Keeps(c, all, s2)
              \/ /\ Place(c) = Len(h)
                 /\ \E x \in Interior : \E s2 :
                      MovesSnake(s, s2, fs, Append(all, x)) /\ Chooses(c, all, x, s2)
  <2> DEFINE s2 == At(s.at, s.left - 1, MakeFood(Grow(b, p, t), cell), "runs", s.drawn + 1)
  <2>1. refresh' = [refresh EXCEPT ![c] = s2.refresh]
    <3>1. refresh[c] = "runs"
      BY DEF MoveSnake
    <3>2. refresh' = [refresh EXCEPT ![c] = "runs"]
      BY <1>4, <1>11, <3>1
    <3> QED BY <3>2 DEF At
  <2>2. board' = [board EXCEPT ![c] = s2.board] /\ s2.drawn = s.drawn + 1
    BY <1>11 DEF At
  <2>3. CASE draws[c] # <<>>
    <3>1. cell = Head(draws[c]) /\ draws' = [draws EXCEPT ![c] = Tail(@)]
      BY <1>11, <2>3 DEF Draw
    <3>2. Place(c) # Len(h)
      BY <2>3, ForemostHasDrawn
    <3>3. s.drawn < Len(all) /\ all[s.drawn + 1] \in FoodCells(Grow(b, p, t))
      BY <1>10, <1>11, <3>2
    <3>4. cell = all[s.drawn + 1]
      <4>1. 1 \in 1..Len(draws[c]) /\ Head(draws[c]) = draws[c][1]
        BY <1>4, <2>3
      <4>2. draws[c][1] = all[Len(all) - Len(draws[c]) + 1]
        BY <4>1 DEF InHistory, Pending
      <4> QED BY <1>1, <3>1, <4>1, <4>2
    <3>5. Moved(s, s2, p, option, all)
      BY <1>1, <1>11, <3>3, <3>4 DEF Moved
    <3>6. Keeps(c, all, s2)
      BY <1>1, <2>1, <2>2, <2>3, <3>1 DEF Keeps
    <3> QED BY <1>3, <3>5, <3>6
  <2>4. CASE draws[c] = <<>>
    <3>1. /\ cell \in FoodCells(Grow(b, p, t))
          /\ draws' = [d \in Clients |-> IF d = c THEN draws[d] ELSE Append(draws[d], cell)]
      BY <1>11, <2>4 DEF Draw
    <3>2. s.drawn = Len(all) /\ Len(all) \in Nat
      BY <1>1, <2>4
    <3>3. Place(c) = Len(h)
      BY <1>10, <1>11, <3>2
    <3>4. cell \in Interior
      BY <3>1 DEF FoodCells
    <3>5. s.drawn < Len(Append(all, cell)) /\ Append(all, cell)[s.drawn + 1] = cell
      BY <3>2, <3>4
    <3>6. Moved(s, s2, p, option, Append(all, cell))
      BY <1>1, <1>11, <3>1, <3>5 DEF Moved
    <3>7. Chooses(c, all, cell, s2)
      BY <2>1, <2>2, <2>4, <3>1, <3>2 DEF Chooses
    <3> QED BY <1>3, <3>3, <3>4, <3>6, <3>7
  <2> QED BY <2>3, <2>4
<1> QED BY <1>5, <1>6, <1>7, <1>8, <1>9, <1>11 DEF s

LEMMA FollowsDrawn ==
  ASSUME NEW s, s.drawn \in Nat, NEW s2, NEW fs, NEW all, Follows(s, s2, fs, all)
  PROVE  s2.drawn >= s.drawn
<1>1. s2.drawn = s.drawn \/ s2.drawn = s.drawn + 1
  BY DEF Follows, TakesFrame, MovesSnake, Moved, At
<1> QED BY <1>1

\* A step that makes no new draw is in the history or extends it.
LEMMA Advance ==
  ASSUME NEW fs \in Seq(Frames), NEW all \in Seq(Interior), NEW h \in Seq(States),
         History(fs, all, h), NEW k \in 1..Len(h), h[k].at <= Len(fs),
         NEW s2, Follows(h[k], s2, fs, all)
  PROVE  \E h2 \in Seq(States) :
           /\ History(fs, all, h2) /\ (h2 = h \/ \E x \in States : h2 = Append(h, x))
           /\ k + 1 \in 1..Len(h2) /\ h2[k + 1] = s2
<1>1. /\ GoodState(h[k]) /\ k = 3 * h[k].at - h[k].left + 1 /\ h[k].drawn <= Len(all)
      /\ h[k] \in States
  BY DEF History, GoodState
<1>2. Len(h) \in Nat /\ Len(all) \in Nat
  OBVIOUS
<1>3. CASE k = Len(h)
  <2>1. /\ GoodState(s2) /\ s2.drawn <= Len(all) /\ s2.at <= Len(fs)
        /\ 3 * s2.at - s2.left = 3 * h[k].at - h[k].left + 1
    BY <1>1, FollowsGood
  <2>2. s2 \in States
    BY <2>1 DEF GoodState
  <2>3. s2.drawn \in Nat /\ h[k].drawn \in Nat
    BY <1>1, <2>2 DEF States
  <2>4. s2.drawn >= h[k].drawn
    BY <2>3, FollowsDrawn
  <2>5. h[k].drawn = Len(all)
    BY <1>3 DEF History
  <2>6. s2.drawn = Len(all)
    BY <1>2, <2>1, <2>3, <2>4, <2>5
  <2>7. 3 * s2.at - s2.left + 1 = Len(h) + 1
    BY <1>1, <1>3, <2>1
  <2>8. Append(h, s2) \in Seq(States) /\ History(fs, all, Append(h, s2))
    BY <1>3, <2>1, <2>6, <2>7, HistoryGrows
  <2>9. k + 1 \in 1..Len(Append(h, s2)) /\ Append(h, s2)[k + 1] = s2
    BY <1>2, <1>3, <2>2
  <2> QED BY <2>2, <2>8, <2>9
<1>4. CASE k # Len(h)
  <2>1. k \in 1..Len(h) - 1 /\ k + 1 \in 1..Len(h)
    BY <1>2, <1>4
  <2>2. Follows(h[k], h[k + 1], fs, all)
    BY <2>1 DEF History
  <2>3. h[k + 1] = s2
    BY <1>1, <2>2, FollowsOnce
  <2> QED BY <2>1, <2>3
<1> QED BY <1>3, <1>4

LEMMA ClientAdvances ==
  ASSUME Typed, NEW c \in Clients,
         NEW fs \in Seq(Frames), NEW all \in Seq(Interior), NEW h \in Seq(States),
         Len(fs) = sent, History(fs, all, h), \A d \in Clients : InHistory(d, fs, all, h),
         NEW s2, Follows(StateOf(c, all), s2, fs, all),
         sent' = sent, StateOf(c, all)' = s2, Place(c)' = Place(c) + 1, Pending(c, fs, all)',
         \A d \in Clients \ {c} : /\ queue'[d] = queue[d] /\ socket'[d] = socket[d]
                                  /\ frame'[d] = frame[d] /\ board'[d] = board[d]
                                  /\ refresh'[d] = refresh[d] /\ draws'[d] = draws[d]
  PROVE  OneHistory'
<1>1. /\ Place(c) \in 1..Len(h) /\ h[Place(c)] = StateOf(c, all)
      /\ StateOf(c, all).at = Taken(c) /\ Taken(c) \in 0..Len(fs)
  BY ClientFacts
<1>2. h[Place(c)].at <= Len(fs) /\ Follows(h[Place(c)], s2, fs, all)
  BY <1>1
<1>3. PICK h2 \in Seq(States) :
        /\ History(fs, all, h2) /\ (h2 = h \/ \E x \in States : h2 = Append(h, x))
        /\ Place(c) + 1 \in 1..Len(h2) /\ h2[Place(c) + 1] = s2
  <2>1. PICK k \in 1..Len(h) : k = Place(c)
    BY <1>1
  <2>2. h[k].at <= Len(fs) /\ Follows(h[k], s2, fs, all)
    BY <1>2, <2>1
  <2>3. \E h2 \in Seq(States) :
          /\ History(fs, all, h2) /\ (h2 = h \/ \E x \in States : h2 = Append(h, x))
          /\ k + 1 \in 1..Len(h2) /\ h2[k + 1] = s2
    BY <2>2, Advance
  <2> QED BY <2>1, <2>3
<1>4. InHistory(c, fs, all, h2)'
  BY <1>3 DEF InHistory
<1>5. ASSUME NEW d \in Clients \ {c} PROVE InHistory(d, fs, all, h2)'
  <2>1. InHistory(d, fs, all, h)
    OBVIOUS
  <2> QED BY <1>3, <2>1, OthersStay
<1>6. \A d \in Clients : InHistory(d, fs, all, h2)'
  BY <1>4, <1>5
<1>7. (Len(fs) = sent)'
  OBVIOUS
<1> QED BY <1>3, <1>6, <1>7 DEF OneHistory

-----------------------------------------------------------------------------
(* Every action keeps the history.                                         *)

LEMMA TakeFrameInv ==
  ASSUME SnakeInv, NEW c \in Clients, TakeFrame(c)
  PROVE  SnakeInv'
<1>1. PICK fs \in Seq(Frames), all \in Seq(Interior), h \in Seq(States) :
        /\ Len(fs) = sent /\ History(fs, all, h)
        /\ \A d \in Clients : InHistory(d, fs, all, h)
  BY DEF SnakeInv, OneHistory
<1>2. Typed
  BY DEF SnakeInv
<1>3. /\ frame' = [frame EXCEPT ![c] = Head(queue[c])]
      /\ queue' = [queue EXCEPT ![c] = Tail(queue[c])]
      /\ board' = board /\ draws' = draws /\ socket' = socket
      /\ refresh' = refresh /\ sent' = sent
      /\ frame[c] = <<>> /\ queue[c] # <<>>
  BY DEF TakeFrame
<1>4. /\ frame \in [Clients -> Seq(Moves \cup {"MOVE_FORWARD"})]
      /\ queue \in [Clients -> Seq(Frames)] /\ socket \in [Clients -> Seq(Frames)]
  BY <1>2 DEF Typed
<1>5. frame'[c] = Head(queue[c]) /\ queue'[c] = Tail(queue[c])
  BY <1>3, <1>4
<1>6. \A d \in Clients \ {c} : frame'[d] = frame[d] /\ queue'[d] = queue[d]
  BY <1>3, <1>4
<1>7. /\ Len(queue[c]) \in Nat /\ Len(queue[c]) > 0 /\ Len(queue'[c]) = Len(queue[c]) - 1
      /\ Head(queue[c]) = queue[c][1] /\ queue'[c] \in Seq(Frames) /\ Head(queue[c]) \in Frames
      /\ \A i \in 1..Len(queue'[c]) : queue'[c][i] = queue[c][i + 1]
  BY <1>3, <1>4, <1>5
<1>8. /\ sent = Taken(c) + Len(queue[c]) + Len(socket[c]) /\ Len(socket[c]) \in Nat
      /\ Taken(c) \in Nat /\ sent \in Nat /\ Len(frame[c]) = 0
  <2>1. /\ sent = Taken(c) + Len(queue[c]) + Len(socket[c]) /\ Len(socket[c]) \in Nat
        /\ Taken(c) \in 0..Len(fs)
    BY <1>1, <1>2, ClientFacts
  <2>2. Len(fs) \in Nat
    OBVIOUS
  <2>3. Len(frame[c]) = 0
    BY <1>3
  <2> QED BY <1>1, <2>1, <2>2, <2>3
<1>9. Taken(c)' = Taken(c) + 1 /\ Taken(c) < Len(fs)
  <2>1. Taken(c)' = sent - (Len(queue[c]) - 1) - Len(socket[c])
    <3>1. sent' = sent /\ socket'[c] = socket[c]
      BY <1>3
    <3> QED BY <1>7, <3>1, Zenon DEF Taken
  <2>2. sent - (Len(queue[c]) - 1) - Len(socket[c]) = Taken(c) + 1
    <3>1. PICK q \in Nat, k \in Nat, t \in Nat :
            q = Len(queue[c]) /\ k = Len(socket[c]) /\ t = Taken(c)
      BY <1>7, <1>8
    <3>2. sent = t + q + k
      BY <1>8, <3>1, Zenon
    <3>3. (t + q + k) - (q - 1) - k = t + 1
      OBVIOUS
    <3> QED BY <3>1, <3>2, <3>3, Zenon
  <2>3. Taken(c) < sent
    <3>1. Len(queue[c]) \in Nat /\ Len(socket[c]) \in Nat /\ Taken(c) \in Nat
      BY <1>7, <1>8
    <3> QED BY <1>7, <1>8, <3>1
  <2> QED BY <1>1, <2>1, <2>2, <2>3
<1>10. frame'[c] \in Seq(Moves \cup {"MOVE_FORWARD"}) /\ Len(frame'[c]) = 2
  BY <1>5, <1>7, FrameIsSeq
<1>11. Place(c)' = Place(c) + 1
  BY <1>8, <1>9, <1>10 DEF Place
<1>12. /\ \A i \in 1..Len(queue[c]) : queue[c][i] = fs[Taken(c) + i]
       /\ \A i \in 1..Len(socket[c]) : socket[c][i] = fs[Taken(c) + Len(queue[c]) + i]
       /\ \A i \in 1..Len(draws[c]) : draws[c][i] = all[Len(all) - Len(draws[c]) + i]
       /\ Len(draws[c]) <= Len(all)
  BY <1>1 DEF InHistory, Pending
<1>13. Pending(c, fs, all)'
  <2>1. ASSUME NEW i \in 1..Len(queue'[c]) PROVE queue'[c][i] = fs[Taken(c) + 1 + i]
    <3>1. i + 1 \in 1..Len(queue[c]) /\ Taken(c) + (i + 1) = Taken(c) + 1 + i
      BY <1>7, <1>8
    <3>2. queue[c][i + 1] = fs[Taken(c) + (i + 1)]
      BY <1>12, <3>1
    <3> QED BY <1>7, <3>1, <3>2
  <2>2. ASSUME NEW i \in 1..Len(socket[c])
        PROVE  socket[c][i] = fs[Taken(c) + 1 + Len(queue'[c]) + i]
    <3>1. Taken(c) + 1 + Len(queue'[c]) + i = Taken(c) + Len(queue[c]) + i
      BY <1>7, <1>8
    <3> QED BY <1>12, <3>1
  <2>3. ASSUME NEW i \in 1..Len(frame'[c])
        PROVE  frame'[c][i] = fs[Taken(c) + 1][2 - Len(frame'[c]) + i]
    <3>1. 1 \in 1..Len(queue[c])
      BY <1>7
    <3>2. frame'[c] = fs[Taken(c) + 1]
      BY <1>5, <1>7, <1>12, <3>1
    <3>3. 2 - Len(frame'[c]) + i = i
      BY <1>10
    <3> QED BY <3>2, <3>3, Zenon
  <2>4. /\ draws'[c] = draws[c] /\ socket'[c] = socket[c]
    BY <1>3
  <2> QED BY <1>9, <1>12, <2>1, <2>2, <2>3, <2>4 DEF Pending
<1> DEFINE s2 == At(Taken(c) + 1, 2, board[c], refresh[c], Len(all) - Len(draws[c]))
<1>14. PICK s3 : s3 = s2
  OBVIOUS
<1>15. Follows(StateOf(c, all), s3, fs, all)
  <2>1. /\ StateOf(c, all).at = Taken(c) /\ StateOf(c, all).left = 0
        /\ StateOf(c, all).board = board[c] /\ StateOf(c, all).refresh = refresh[c]
        /\ StateOf(c, all).drawn = Len(all) - Len(draws[c])
    BY <1>8 DEF StateOf, At
  <2> QED BY <1>9, <1>14, <2>1 DEF Follows, TakesFrame
<1>16. StateOf(c, all)' = s3
  BY <1>3, <1>9, <1>10, <1>14 DEF StateOf
<1>17. OneHistory'
  <2>1. \A d \in Clients \ {c} : /\ queue'[d] = queue[d] /\ socket'[d] = socket[d]
                                 /\ frame'[d] = frame[d] /\ board'[d] = board[d]
                                 /\ refresh'[d] = refresh[d] /\ draws'[d] = draws[d]
    BY <1>3, <1>6
  <2>2. sent' = sent
    BY <1>3
  <2> HIDE DEF s2
  <2> QED BY <1>1, <1>2, <1>11, <1>13, <1>15, <1>16, <2>1, <2>2, ClientAdvances
<1>18. Typed'
  <2>1. /\ frame' \in [Clients -> Seq(Moves \cup {"MOVE_FORWARD"})]
        /\ queue' \in [Clients -> Seq(Frames)]
    BY <1>3, <1>4, <1>5, <1>7, <1>10
  <2>2. ASSUME NEW d \in Clients
        PROVE  /\ Len(frame'[d]) <= 2 /\ Len(queue'[d]) <= MaxQueue
               /\ Taken(d)' \in Nat
    <3>1. CASE d = c
      <4>1. Len(queue[c]) <= MaxQueue
        BY <1>2 DEF Typed
      <4>2. Len(queue'[c]) <= MaxQueue
        <5>1. MaxQueue \in Nat
          BY SnakeAssumption
        <5> QED BY <1>7, <4>1, <5>1
      <4>3. Taken(c) + 1 \in Nat
        BY <1>8
      <4>4. Len(frame'[c]) <= 2
        BY <1>10
      <4> QED BY <1>9, <3>1, <4>2, <4>3, <4>4, Zenon
    <3>2. CASE d # c
      <4>1. Len(frame[d]) <= 2 /\ Len(queue[d]) <= MaxQueue /\ Taken(d) \in Nat
        BY <1>2 DEF Typed
      <4>2. Taken(d)' = Taken(d)
        BY <1>3, <1>6, <3>2 DEF Taken
      <4> QED BY <1>6, <3>2, <4>1, <4>2
    <3> QED BY <3>1, <3>2
  <2> QED BY <1>2, <1>3, <2>1, <2>2 DEF Typed
<1> QED BY <1>17, <1>18 DEF SnakeInv

LEMMA RecvFrameInv ==
  ASSUME SnakeInv, NEW c \in Clients, RecvFrame(c)
  PROVE  SnakeInv'
<1>1. PICK fs \in Seq(Frames), all \in Seq(Interior), h \in Seq(States) :
        /\ Len(fs) = sent /\ History(fs, all, h)
        /\ \A d \in Clients : InHistory(d, fs, all, h)
  BY DEF SnakeInv, OneHistory
<1>2. Typed
  BY DEF SnakeInv
<1>3. /\ queue' = [queue EXCEPT ![c] = Append(queue[c], Head(socket[c]))]
      /\ socket' = [socket EXCEPT ![c] = Tail(socket[c])]
      /\ board' = board /\ draws' = draws /\ refresh' = refresh /\ frame' = frame
      /\ sent' = sent /\ socket[c] # <<>> /\ Len(queue[c]) < MaxQueue
  BY DEF RecvFrame
<1>4. queue \in [Clients -> Seq(Frames)] /\ socket \in [Clients -> Seq(Frames)]
  BY <1>2 DEF Typed
<1>5. queue'[c] = Append(queue[c], Head(socket[c])) /\ socket'[c] = Tail(socket[c])
  BY <1>3, <1>4
<1>6. \A d \in Clients \ {c} : queue'[d] = queue[d] /\ socket'[d] = socket[d]
  BY <1>3, <1>4
<1>7. PICK q \in Nat, k \in Nat, t \in Nat :
        q = Len(queue[c]) /\ k = Len(socket[c]) /\ t = Taken(c)
  BY <1>2, <1>4 DEF Typed
<1>8. /\ k > 0 /\ Head(socket[c]) = socket[c][1] /\ Head(socket[c]) \in Frames
      /\ Len(socket'[c]) = k - 1 /\ socket'[c] \in Seq(Frames)
      /\ \A i \in 1..k - 1 : socket'[c][i] = socket[c][i + 1]
  BY <1>3, <1>4, <1>5, <1>7
<1>9. /\ Len(queue'[c]) = q + 1 /\ queue'[c] \in Seq(Frames)
      /\ queue'[c][q + 1] = socket[c][1] /\ \A i \in 1..q : queue'[c][i] = queue[c][i]
  BY <1>4, <1>5, <1>7, <1>8
<1>10. t = sent - q - k /\ sent \in Nat
  BY <1>2, <1>7, SnakeAssumption DEF Taken, Typed
<1>11. Taken(c)' = t /\ Taken(c) = t
  <2>1. Taken(c)' = sent - (q + 1) - (k - 1)
    BY <1>3, <1>8, <1>9 DEF Taken
  <2> QED BY <1>7, <1>10, <2>1
<1>12. Place(c)' = Place(c)
  BY <1>3, <1>11 DEF Place
<1>13. /\ \A i \in 1..q : queue[c][i] = fs[t + i]
       /\ \A i \in 1..k : socket[c][i] = fs[t + q + i]
       /\ \A i \in 1..Len(frame[c]) : frame[c][i] = fs[t][2 - Len(frame[c]) + i]
       /\ \A i \in 1..Len(draws[c]) : draws[c][i] = all[Len(all) - Len(draws[c]) + i]
       /\ Len(draws[c]) <= Len(all)
  BY <1>1, <1>7 DEF InHistory, Pending
<1>14. Pending(c, fs, all)'
  <2>1. ASSUME NEW i \in 1..q + 1 PROVE queue'[c][i] = fs[t + i]
    <3>1. CASE i \in 1..q
      BY <1>9, <1>13, <3>1
    <3>2. CASE i = q + 1
      <4>1. 1 \in 1..k /\ t + q + 1 = t + (q + 1)
        BY <1>8
      <4> QED BY <1>9, <1>13, <3>2, <4>1
    <3> QED BY <3>1, <3>2
  <2>2. ASSUME NEW i \in 1..k - 1 PROVE socket'[c][i] = fs[t + (q + 1) + i]
    <3>1. i + 1 \in 1..k /\ t + q + (i + 1) = t + (q + 1) + i
      OBVIOUS
    <3> QED BY <1>8, <1>13, <3>1
  <2>3. frame'[c] = frame[c] /\ draws'[c] = draws[c]
    BY <1>3
  <2>4. Len(queue'[c]) = q + 1 /\ Len(socket'[c]) = k - 1
    BY <1>8, <1>9
  <2> QED BY <1>11, <1>13, <2>1, <2>2, <2>3, <2>4 DEF Pending
<1>15. InHistory(c, fs, all, h)'
  <2>1. StateOf(c, all)' = StateOf(c, all)
    BY <1>3, <1>11 DEF StateOf
  <2> QED BY <1>1, <1>12, <1>14, <2>1 DEF InHistory
<1>16. ASSUME NEW d \in Clients \ {c} PROVE InHistory(d, fs, all, h)'
  <2>1. /\ queue'[d] = queue[d] /\ socket'[d] = socket[d] /\ frame'[d] = frame[d]
        /\ board'[d] = board[d] /\ refresh'[d] = refresh[d] /\ draws'[d] = draws[d]
        /\ sent' = sent
    BY <1>3, <1>6
  <2>2. InHistory(d, fs, all, h)
    BY <1>1
  <2> QED BY <1>2, <2>1, <2>2, OthersStay
<1>17. OneHistory'
  <2>1. \A d \in Clients : InHistory(d, fs, all, h)'
    BY <1>15, <1>16
  <2>2. (Len(fs) = sent)'
    BY <1>1, <1>3
  <2> QED BY <1>1, <2>1, <2>2 DEF OneHistory
<1>18. Typed'
  <2>1. /\ queue' \in [Clients -> Seq(Frames)] /\ socket' \in [Clients -> Seq(Frames)]
    BY <1>3, <1>4, <1>5, <1>8, <1>9
  <2>2. ASSUME NEW d \in Clients
        PROVE  /\ Len(socket'[d]) <= MaxQueue /\ Len(queue'[d]) <= MaxQueue
               /\ Taken(d)' \in Nat
    <3>1. CASE d = c
      <4>1. k <= MaxQueue /\ q < MaxQueue
        BY <1>2, <1>3, <1>7 DEF Typed
      <4>2. k - 1 <= MaxQueue /\ q + 1 <= MaxQueue
        BY <4>1, SnakeAssumption
      <4> QED BY <1>8, <1>9, <1>11, <3>1, <4>2
    <3>2. CASE d # c
      <4>1. Len(socket[d]) <= MaxQueue /\ Len(queue[d]) <= MaxQueue /\ Taken(d) \in Nat
        BY <1>2 DEF Typed
      <4>2. Taken(d)' = Taken(d)
        BY <1>3, <1>6, <3>2 DEF Taken
      <4> QED BY <1>6, <3>2, <4>1, <4>2
    <3> QED BY <3>1, <3>2
  <2> QED BY <1>2, <1>3, <2>1, <2>2 DEF Typed
<1> QED BY <1>17, <1>18 DEF SnakeInv

\* A frame more is sent.
LEMMA HistoryLonger ==
  ASSUME NEW fs \in Seq(Frames), NEW all \in Seq(Interior), NEW h \in Seq(States),
         History(fs, all, h), NEW f \in Frames
  PROVE  History(Append(fs, f), all, h)
<1>1. Len(Append(fs, f)) = Len(fs) + 1 /\ Len(fs) \in Nat /\ Len(h) \in Nat
  OBVIOUS
<1>2. ASSUME NEW k \in 1..Len(h)
      PROVE  /\ GoodState(h[k]) /\ k = 3 * h[k].at - h[k].left + 1
             /\ h[k].drawn <= Len(all) /\ h[k].at <= Len(Append(fs, f))
  <2>1. /\ GoodState(h[k]) /\ k = 3 * h[k].at - h[k].left + 1
        /\ h[k].drawn <= Len(all) /\ h[k].at <= Len(fs)
    BY DEF History
  <2>2. h[k].at \in Nat
    BY <2>1 DEF GoodState, States
  <2> QED BY <1>1, <2>1, <2>2
<1>3. ASSUME NEW k \in 1..Len(h) - 1
      PROVE  Follows(h[k], h[k + 1], Append(fs, f), all)
  <2>1. k \in 1..Len(h)
    BY <1>1
  <2>2. Follows(h[k], h[k + 1], fs, all) /\ h[k] \in States /\ h[k].at <= Len(fs)
    BY <2>1 DEF History
  <2> QED BY <2>2, FollowsLonger
<1>4. Len(h) > 0 /\ h[Len(h)].drawn = Len(all)
  BY DEF History
<1> QED BY <1>2, <1>3, <1>4 DEF History

LEMMA SendFrameInv ==
  ASSUME SnakeInv, SendFrame
  PROVE  SnakeInv'
<1>1. PICK fs \in Seq(Frames), all \in Seq(Interior), h \in Seq(States) :
        /\ Len(fs) = sent /\ History(fs, all, h)
        /\ \A d \in Clients : InHistory(d, fs, all, h)
  BY DEF SnakeInv, OneHistory
<1>2. Typed
  BY DEF SnakeInv
<1>3. PICK f \in Frames : socket' = [c \in Clients |-> Append(socket[c], f)]
  BY DEF SendFrame, Frames
<1>4. /\ board' = board /\ draws' = draws /\ queue' = queue /\ refresh' = refresh
      /\ frame' = frame /\ sent' = sent + 1 /\ sent < MaxFrames
      /\ \A c \in Clients : Len(socket[c]) < MaxQueue
  BY DEF SendFrame
<1> DEFINE fs2 == Append(fs, f)
<1>5. /\ fs2 \in Seq(Frames) /\ Len(fs2) = sent + 1 /\ sent \in Nat
      /\ fs2[sent + 1] = f /\ \A i \in 1..sent : fs2[i] = fs[i]
  BY <1>1
<1>6. History(fs2, all, h)
  BY <1>1, HistoryLonger
<1> HIDE DEF fs2
<1>7. ASSUME NEW c \in Clients
      PROVE  /\ InHistory(c, fs2, all, h)' /\ Taken(c)' \in Nat
             /\ Len(socket'[c]) <= MaxQueue /\ socket'[c] \in Seq(Frames)
  <2>1. socket[c] \in Seq(Frames) /\ queue[c] \in Seq(Frames) /\ socket'[c] = Append(socket[c], f)
    BY <1>2, <1>3 DEF Typed
  <2>2. PICK q \in Nat, k \in Nat, t \in Nat :
          q = Len(queue[c]) /\ k = Len(socket[c]) /\ t = Taken(c)
    BY <1>2, <2>1 DEF Typed
  <2>3. /\ Len(socket'[c]) = k + 1 /\ socket'[c] \in Seq(Frames)
        /\ socket'[c][k + 1] = f /\ \A i \in 1..k : socket'[c][i] = socket[c][i]
    BY <2>1, <2>2
  <2>4. t = sent - q - k
    BY <2>2 DEF Taken
  <2>5. Taken(c)' = t
    <3>1. Taken(c)' = (sent + 1) - q - (k + 1)
      BY <1>4, <2>2, <2>3 DEF Taken
    <3> QED BY <1>5, <2>4, <3>1
  <2>6. Place(c)' = Place(c)
    BY <1>4, <2>2, <2>5 DEF Place
  <2>7. StateOf(c, all)' = StateOf(c, all)
    BY <1>4, <2>2, <2>5 DEF StateOf
  <2>8. Place(c) \in 1..Len(h) /\ h[Place(c)] = StateOf(c, all)
    BY <1>1 DEF InHistory
  <2>9. /\ \A i \in 1..q : queue[c][i] = fs[t + i]
        /\ \A i \in 1..k : socket[c][i] = fs[t + q + i]
        /\ \A i \in 1..Len(frame[c]) : frame[c][i] = fs[t][2 - Len(frame[c]) + i]
        /\ \A i \in 1..Len(draws[c]) : draws[c][i] = all[Len(all) - Len(draws[c]) + i]
        /\ Len(draws[c]) <= Len(all)
    BY <1>1, <2>2 DEF InHistory, Pending
  <2>10. \A i \in 1..q : queue[c][i] = fs2[t + i]
    <3>1. \A i \in 1..q : t + i \in 1..sent
      BY <1>5, <2>4
    <3> QED BY <1>5, <2>9, <3>1
  <2>11. ASSUME NEW i \in 1..k + 1 PROVE socket'[c][i] = fs2[t + q + i]
    <3>1. CASE i \in 1..k
      <4>1. t + q + i \in 1..sent
        BY <1>5, <2>4, <3>1
      <4> QED BY <1>5, <2>3, <2>9, <3>1, <4>1
    <3>2. CASE i = k + 1
      <4>1. t + q + i = sent + 1
        BY <1>5, <2>4, <3>2
      <4> QED BY <1>5, <2>3, <3>2, <4>1
    <3> QED BY <3>1, <3>2
  <2>12. \A i \in 1..Len(frame[c]) : frame[c][i] = fs2[t][2 - Len(frame[c]) + i]
    <3>1. CASE Len(frame[c]) = 0
      BY <3>1
    <3>2. CASE Len(frame[c]) # 0
      <4>1. t # 0
        <5>1. Place(c) = 3 * t - Len(frame[c]) + 1 /\ Place(c) >= 1 /\ Len(frame[c]) \in 0..2
          BY <1>1, <1>2, <2>2, <2>8, ClientFacts DEF Place
        <5> QED BY <3>2, <5>1
      <4>2. t \in 1..sent
        BY <1>5, <2>4, <4>1
      <4>3. fs2[t] = fs[t]
        BY <1>5, <4>2
      <4> QED BY <2>9, <4>3
    <3> QED BY <3>1, <3>2
  <2>13. Pending(c, fs2, all)'
    <3>1. Len(queue'[c]) = q /\ Len(socket'[c]) = k + 1 /\ queue' = queue /\ frame' = frame
          /\ draws' = draws
      BY <1>4, <2>2, <2>3
    <3> QED BY <2>5, <2>9, <2>10, <2>11, <2>12, <3>1 DEF Pending
  <2>14. Len(socket'[c]) <= MaxQueue
    <3>1. k < MaxQueue
      BY <1>4, <2>2
    <3> QED BY <2>3, <3>1, SnakeAssumption
  <2> QED BY <2>3, <2>5, <2>6, <2>7, <2>8, <2>13, <2>14 DEF InHistory
<1>8. OneHistory'
  <2>1. (Len(fs2) = sent)'
    BY <1>4, <1>5
  <2>2. \A c \in Clients : InHistory(c, fs2, all, h)'
    BY <1>7
  <2> QED BY <1>5, <1>6, <2>1, <2>2 DEF OneHistory
<1>9. Typed'
  <2>1. socket' \in [Clients -> Seq(Frames)]
    BY <1>3, <1>7
  <2>2. sent' \in 0..MaxFrames
    BY <1>4, <1>5, SnakeAssumption
  <2> QED BY <1>2, <1>4, <1>7, <2>1, <2>2 DEF Typed
<1> QED BY <1>8, <1>9 DEF SnakeInv

LEMMA MovesAt ==
  ASSUME NEW s, NEW s2, NEW fs, NEW all, MovesSnake(s, s2, fs, all)
  PROVE  s2.at = s.at /\ s2.left = s.left - 1
BY DEF MovesSnake, Moved, At

\* What MoveSnake leaves to do.
LEMMA MoveSnakeOwn ==
  ASSUME Typed, NEW c \in Clients,
         NEW fs \in Seq(Frames), NEW all \in Seq(Interior), NEW h \in Seq(States),
         Len(fs) = sent, History(fs, all, h), InHistory(c, fs, all, h), MoveSnake(c),
         NEW all2 \in Seq(Interior), NEW s2 \in States,
         s2.at = Taken(c), s2.left = Len(frame[c]) - 1, s2.drawn = Len(all2) - Len(draws'[c]),
         board'[c] = s2.board, refresh'[c] = s2.refresh, EndOf(draws'[c], all2)
  PROVE  StateOf(c, all2)' = s2 /\ Place(c)' = Place(c) + 1 /\ Pending(c, fs, all2)'
<1>1. /\ frame' = [frame EXCEPT ![c] = Tail(frame[c])] /\ frame[c] # <<>>
      /\ queue' = queue /\ socket' = socket /\ sent' = sent
  BY DEF MoveSnake
<1>2. frame \in [Clients -> Seq(Moves \cup {"MOVE_FORWARD"})]
  BY DEF Typed
<1>3. PICK n \in Nat, t \in Nat : n = Len(frame[c]) /\ t = Taken(c)
  BY <1>2 DEF Typed
<1>4. frame'[c] = Tail(frame[c])
  BY <1>1, <1>2
<1>5. n > 0 /\ Len(frame'[c]) = n - 1 /\ \A i \in 1..n - 1 : frame'[c][i] = frame[c][i + 1]
  BY <1>1, <1>2, <1>3, <1>4
<1>6. Taken(c)' = t
  BY <1>1, <1>3 DEF Taken
<1>7. Place(c)' = Place(c) + 1
  <2>1. Place(c)' = 3 * t - (n - 1) + 1 /\ Place(c) = 3 * t - n + 1
    BY <1>3, <1>5, <1>6 DEF Place
  <2>2. 3 * t - (n - 1) + 1 = (3 * t - n + 1) + 1
    OBVIOUS
  <2> QED BY <2>1, <2>2, Zenon
<1>8. StateOf(c, all2)' = s2
  <2>1. StateOf(c, all2)' = At(t, n - 1, s2.board, s2.refresh, s2.drawn)
    BY <1>5, <1>6 DEF StateOf
  <2>2. s2 = At(s2.at, s2.left, s2.board, s2.refresh, s2.drawn)
    BY DEF States, At
  <2> QED BY <1>3, <2>1, <2>2
<1>9. Pending(c, fs, all2)'
  <2>1. /\ \A i \in 1..Len(queue[c]) : queue[c][i] = fs[t + i]
        /\ \A i \in 1..Len(socket[c]) : socket[c][i] = fs[t + Len(queue[c]) + i]
        /\ \A i \in 1..n : frame[c][i] = fs[t][2 - n + i]
    BY <1>3 DEF InHistory, Pending
  <2>2. ASSUME NEW i \in 1..n - 1 PROVE frame'[c][i] = fs[t][2 - (n - 1) + i]
    <3>1. i + 1 \in 1..n /\ 2 - n + (i + 1) = 2 - (n - 1) + i
      OBVIOUS
    <3>2. frame[c][i + 1] = fs[t][2 - n + (i + 1)]
      BY <2>1, <3>1
    <3> QED BY <1>5, <3>1, <3>2
  <2>3. \A i \in 1..Len(frame'[c]) : frame'[c][i] = fs[t][2 - Len(frame'[c]) + i]
    BY <1>5, <2>2
  <2> QED BY <1>1, <1>6, <2>1, <2>3 DEF Pending, EndOf
<1> QED BY <1>7, <1>8, <1>9

LEMMA MoveSnakeTyped ==
  ASSUME Typed, NEW c \in Clients, MoveSnake(c), NEW s2 \in States,
         board' = [board EXCEPT ![c] = s2.board], refresh' = [refresh EXCEPT ![c] = s2.refresh],
         draws' \in [Clients -> Seq(Interior)]
  PROVE  Typed'
<1>1. /\ frame' = [frame EXCEPT ![c] = Tail(frame[c])] /\ frame[c] # <<>>
      /\ queue' = queue /\ socket' = socket /\ sent' = sent
  BY DEF MoveSnake
<1>2. frame \in [Clients -> Seq(Moves \cup {"MOVE_FORWARD"})]
  BY DEF Typed
<1>3. /\ Tail(frame[c]) \in Seq(Moves \cup {"MOVE_FORWARD"})
      /\ Len(Tail(frame[c])) = Len(frame[c]) - 1 /\ Len(frame[c]) \in Nat
  BY <1>1, <1>2
<1>4. frame' \in [Clients -> Seq(Moves \cup {"MOVE_FORWARD"})]
  BY <1>1, <1>2, <1>3
<1>5. ASSUME NEW d \in Clients PROVE Len(frame'[d]) <= 2 /\ Taken(d)' \in Nat
  <2>1. Len(frame[d]) <= 2 /\ Taken(d) \in Nat
    BY DEF Typed
  <2>2. Taken(d)' = Taken(d)
    BY <1>1 DEF Taken
  <2>3. Len(frame'[d]) <= 2
    <3>1. CASE d = c
      BY <1>1, <1>2, <1>3, <2>1, <3>1
    <3>2. CASE d # c
      BY <1>1, <1>2, <2>1, <3>2
    <3> QED BY <3>1, <3>2
  <2> QED BY <2>1, <2>2, <2>3
<1>6. s2.board \in Boards /\ s2.refresh \in {"runs", "draws", "undefined"}
  BY DEF States
<1>7. board' \in [Clients -> Boards] /\ refresh' \in [Clients -> {"runs", "draws", "undefined"}]
  BY <1>6 DEF Typed
<1> QED BY <1>1, <1>4, <1>5, <1>7 DEF Typed

LEMMA MoveSnakeInv ==
  ASSUME SnakeInv, NEW c \in Clients, MoveSnake(c)
  PROVE  SnakeInv'
<1>1. PICK fs \in Seq(Frames), all \in Seq(Interior), h \in Seq(States) :
        /\ Len(fs) = sent /\ History(fs, all, h)
        /\ \A d \in Clients : InHistory(d, fs, all, h)
  BY DEF SnakeInv, OneHistory
<1>2. Typed
  BY DEF SnakeInv
<1>3. /\ frame' = [frame EXCEPT ![c] = Tail(frame[c])]
      /\ queue' = queue /\ socket' = socket /\ sent' = sent
  BY DEF MoveSnake
<1>4. /\ board \in [Clients -> Boards] /\ draws \in [Clients -> Seq(Interior)]
      /\ refresh \in [Clients -> {"runs", "draws", "undefined"}]
      /\ frame \in [Clients -> Seq(Moves \cup {"MOVE_FORWARD"})]
  BY <1>2 DEF Typed
<1>5. /\ StateOf(c, all).at = Taken(c) /\ StateOf(c, all).left = Len(frame[c])
      /\ GoodState(StateOf(c, all)) /\ StateOf(c, all).drawn = Len(all) - Len(draws[c])
      /\ StateOf(c, all).drawn <= Len(all) /\ StateOf(c, all).at <= Len(fs)
      /\ Len(draws[c]) \in Nat /\ Len(draws[c]) <= Len(all) /\ StateOf(c, all).drawn \in Nat
      /\ Place(c) \in 1..Len(h) /\ h[Place(c)] = StateOf(c, all)
  <2>1. /\ StateOf(c, all).at = Taken(c) /\ StateOf(c, all).left = Len(frame[c])
        /\ GoodState(StateOf(c, all)) /\ StateOf(c, all).drawn = Len(all) - Len(draws[c])
        /\ Len(all) - Len(draws[c]) <= Len(all) /\ Taken(c) \in 0..Len(fs)
        /\ Len(draws[c]) \in Nat /\ Len(all) - Len(draws[c]) \in Nat
        /\ Place(c) \in 1..Len(h) /\ h[Place(c)] = StateOf(c, all)
    BY <1>1, <1>2, ClientFacts
  <2>2. Len(draws[c]) <= Len(all)
    BY <1>1 DEF InHistory, Pending
  <2> QED BY <2>1, <2>2
<1>6. \A d \in Clients \ {c} : /\ queue'[d] = queue[d] /\ socket'[d] = socket[d]
                               /\ frame'[d] = frame[d]
  BY <1>3, <1>4
<1>7. ASSUME NEW s2, MovesSnake(StateOf(c, all), s2, fs, all), Keeps(c, all, s2)
      PROVE  SnakeInv'
  <2>1. GoodState(s2) /\ s2 \in States
    <3>1. Follows(StateOf(c, all), s2, fs, all)
      BY <1>7 DEF Follows
    <3>2. GoodState(s2)
      BY <1>5, <3>1, FollowsGood
    <3> QED BY <3>2 DEF GoodState
  <2>2. /\ board' = [board EXCEPT ![c] = s2.board] /\ refresh' = [refresh EXCEPT ![c] = s2.refresh]
    BY <1>7 DEF Keeps
  <2>3. board'[c] = s2.board /\ refresh'[c] = s2.refresh
        /\ \A d \in Clients \ {c} : board'[d] = board[d] /\ refresh'[d] = refresh[d]
    BY <1>4, <2>2
  <2>4. s2.at = Taken(c) /\ s2.left = Len(frame[c]) - 1
    BY <1>5, <1>7, MovesAt
  <2>5. EndOf(draws[c], all)
    BY <1>1 DEF InHistory, Pending, EndOf
  <2>6. /\ s2.drawn = Len(all) - Len(draws'[c]) /\ EndOf(draws'[c], all)
        /\ draws' \in [Clients -> Seq(Interior)]
        /\ \A d \in Clients \ {c} : draws'[d] = draws[d]
    <3>1. CASE draws' = draws /\ s2.drawn = Len(all) - Len(draws[c])
      BY <1>4, <2>5, <3>1
    <3>2. CASE /\ draws[c] # <<>> /\ draws' = [draws EXCEPT ![c] = Tail(@)]
               /\ s2.drawn = Len(all) - Len(draws[c]) + 1
      <4>1. /\ draws'[c] = Tail(draws[c]) /\ draws' \in [Clients -> Seq(Interior)]
            /\ \A d \in Clients \ {c} : draws'[d] = draws[d]
        BY <1>4, <3>2
      <4>2. PICK m \in Nat, n \in Nat : m = Len(draws[c]) /\ n = Len(all)
        <5>1. Len(draws[c]) \in Nat /\ Len(all) \in Nat
          BY <1>5
        <5> QED BY <5>1, Zenon
      <4>3. /\ Len(draws'[c]) = m - 1 /\ m <= n /\ m > 0
            /\ \A i \in 1..m - 1 : draws'[c][i] = draws[c][i + 1]
        BY <1>4, <1>5, <3>2, <4>1, <4>2
      <4>4. ASSUME NEW i \in 1..m - 1 PROVE draws'[c][i] = all[n - (m - 1) + i]
        <5>1. i + 1 \in 1..m /\ n - m + (i + 1) = n - (m - 1) + i
          OBVIOUS
        <5>2. draws[c][i + 1] = all[n - m + (i + 1)]
          BY <2>5, <4>2, <5>1 DEF EndOf
        <5> QED BY <4>3, <5>1, <5>2
      <4>5. n - (m - 1) = n - m + 1 /\ m - 1 <= n
        BY <4>3
      <4>6. EndOf(draws'[c], all)
        BY <4>2, <4>3, <4>4, <4>5 DEF EndOf
      <4> QED BY <3>2, <4>1, <4>2, <4>3, <4>5, <4>6
    <3> QED BY <1>7, <3>1, <3>2 DEF Keeps
  <2>7. StateOf(c, all)' = s2 /\ Place(c)' = Place(c) + 1 /\ Pending(c, fs, all)'
    BY <1>1, <1>2, <2>1, <2>3, <2>4, <2>6, MoveSnakeOwn
  <2>8. OneHistory'
    <3>1. Follows(StateOf(c, all), s2, fs, all)
      BY <1>7 DEF Follows
    <3>2. sent' = sent
      BY <1>3
    <3> QED BY <1>1, <1>2, <1>6, <2>3, <2>6, <2>7, <3>1, <3>2, ClientAdvances
  <2>9. Typed'
    BY <1>2, <2>1, <2>2, <2>6, MoveSnakeTyped
  <2> QED BY <2>8, <2>9 DEF SnakeInv
<1>8. ASSUME Place(c) = Len(h), NEW cell \in Interior, NEW s2,
             MovesSnake(StateOf(c, all), s2, fs, Append(all, cell)), Chooses(c, all, cell, s2)
      PROVE  SnakeInv'
  <2>1. PICK all2 \in Seq(Interior) : all2 = Append(all, cell)
    <3>1. Append(all, cell) \in Seq(Interior)
      OBVIOUS
    <3> QED BY <3>1, Zenon
  <2>2. Len(all2) = Len(all) + 1 /\ Len(all) \in Nat
    BY <2>1
  <2>3. /\ StateOf(c, all).drawn <= Len(all2) /\ Follows(StateOf(c, all), s2, fs, all2)
        /\ MovesSnake(StateOf(c, all), s2, fs, all2)
    <3>1. StateOf(c, all).drawn <= Len(all2)
      <4>1. PICK n \in Nat : n = StateOf(c, all).drawn
        BY <1>5
      <4>2. n <= Len(all)
        BY <1>5, <4>1, Zenon
      <4>3. n <= Len(all2)
        BY <2>2, <4>2
      <4> QED BY <4>1, <4>3, Zenon
    <3>2. MovesSnake(StateOf(c, all), s2, fs, all2)
      BY <1>8, <2>1, Zenon
    <3> QED BY <3>1, <3>2 DEF Follows
  <2>4. /\ GoodState(s2) /\ s2 \in States /\ s2.at <= Len(fs)
        /\ 3 * s2.at - s2.left = 3 * StateOf(c, all).at - StateOf(c, all).left + 1
    <3>1. /\ GoodState(s2) /\ s2.at <= Len(fs)
          /\ 3 * s2.at - s2.left = 3 * StateOf(c, all).at - StateOf(c, all).left + 1
      BY <1>5, <2>3, FollowsGood
    <3> QED BY <3>1 DEF GoodState
  <2>5. s2.at = Taken(c) /\ s2.left = Len(frame[c]) - 1
    BY <1>5, <2>3, MovesAt
  <2>6. /\ board' = [board EXCEPT ![c] = s2.board] /\ refresh' = [refresh EXCEPT ![c] = s2.refresh]
        /\ draws[c] = <<>> /\ s2.drawn = Len(all) + 1
        /\ draws' = [d \in Clients |-> IF d = c THEN draws[d] ELSE Append(draws[d], cell)]
    BY <1>8 DEF Chooses
  <2>7. board'[c] = s2.board /\ refresh'[c] = s2.refresh
        /\ \A d \in Clients \ {c} : board'[d] = board[d] /\ refresh'[d] = refresh[d]
    BY <1>4, <2>6
  <2>8. /\ draws'[c] = <<>> /\ draws' \in [Clients -> Seq(Interior)]
        /\ \A d \in Clients \ {c} : draws'[d] = Append(draws[d], cell)
    BY <1>4, <2>6
  <2>9. EndOf(draws'[c], all2) /\ s2.drawn = Len(all2) - Len(draws'[c])
    <3>1. Len(draws'[c]) = 0
      BY <2>8
    <3>2. EndOf(draws'[c], all2)
      BY <2>2, <3>1 DEF EndOf
    <3>3. s2.drawn = Len(all) + 1
      BY <2>6
    <3>4. Len(all2) - Len(draws'[c]) = Len(all) + 1
      BY <2>2, <3>1
    <3> QED BY <3>2, <3>3, <3>4, Zenon
  <2>10. StateOf(c, all2)' = s2 /\ Place(c)' = Place(c) + 1 /\ Pending(c, fs, all2)'
    <3>1. /\ Len(fs) = sent /\ History(fs, all, h) /\ InHistory(c, fs, all, h)
          /\ s2 \in States /\ s2.at = Taken(c) /\ s2.left = Len(frame[c]) - 1
          /\ s2.drawn = Len(all2) - Len(draws'[c])
          /\ board'[c] = s2.board /\ refresh'[c] = s2.refresh /\ EndOf(draws'[c], all2)
      BY <1>1, <2>4, <2>5, <2>7, <2>9
    <3> QED BY <1>2, <3>1, MoveSnakeOwn
  <2>11. PICK h2 \in Seq(States) : h2 = Append(h, s2)
    <3>1. Append(h, s2) \in Seq(States)
      BY <2>4
    <3> QED BY <3>1, Zenon
  <2>12. History(fs, all2, h2)
    <3>1. 3 * s2.at - s2.left + 1 = Len(h) + 1
      <4>1. Len(h) = 3 * StateOf(c, all).at - StateOf(c, all).left + 1
        BY <1>1, <1>5, <1>8 DEF History
      <4> QED BY <2>4, <4>1
    <3>2. Follows(h[Len(h)], s2, fs, all2)
      BY <1>5, <1>8, <2>3
    <3>3. s2.drawn = Len(all2)
      BY <2>2, <2>6
    <3> QED BY <1>1, <2>1, <2>4, <2>11, <3>1, <3>2, <3>3, HistoryGrows
  <2>13. Place(c) + 1 \in 1..Len(h2) /\ h2[Place(c) + 1] = s2
    BY <1>8, <2>4, <2>11
  <2>14. InHistory(c, fs, all2, h2)'
    BY <2>10, <2>13 DEF InHistory
  <2>15. ASSUME NEW d \in Clients \ {c} PROVE InHistory(d, fs, all2, h2)'
    <3>1. /\ sent' = sent /\ queue'[d] = queue[d] /\ socket'[d] = socket[d]
          /\ frame'[d] = frame[d] /\ board'[d] = board[d] /\ refresh'[d] = refresh[d]
          /\ draws'[d] = Append(draws[d], cell)
      BY <1>3, <1>6, <2>7, <2>8
    <3>2. \E x \in Interior : all2 = Append(all, x) /\ draws'[d] = Append(draws[d], x)
      BY <2>1, <3>1
    <3>3. h2 = h \/ \E x \in States : h2 = Append(h, x)
      BY <2>4, <2>11
    <3>4. InHistory(d, fs, all, h)
      BY <1>1
    <3> QED BY <1>2, <3>1, <3>2, <3>3, <3>4, OthersStay
  <2>16. OneHistory'
    <3>1. (Len(fs) = sent)'
      BY <1>1, <1>3
    <3>2. \A d \in Clients : InHistory(d, fs, all2, h2)'
      BY <2>14, <2>15
    <3> QED BY <2>12, <3>1, <3>2 DEF OneHistory
  <2>17. Typed'
    BY <1>2, <2>4, <2>6, <2>8, MoveSnakeTyped
  <2> QED BY <2>16, <2>17 DEF SnakeInv
<1> QED BY <1>1, <1>2, <1>7, <1>8, MoveSnakeFollows

LEMMA SnakeInitInv == SnakeInit => SnakeInv
<1> SUFFICES ASSUME SnakeInit PROVE SnakeInv
  OBVIOUS
<1>1. PICK b, f : /\ GoodBoard(b) /\ f \in Cells /\ FoodAt(b) = {f}
                  /\ board = [c \in Clients |-> b]
  <2>c. PICK c1 \in SpawnCells(EmptyBoard) :
          \E c2 \in SpawnCells(Spawn(EmptyBoard, 1, c1)) :
            \E f \in FoodCells(Spawn(Spawn(EmptyBoard, 1, c1), 2, c2)) :
              board = [c \in Clients |-> MakeFood(Spawn(Spawn(EmptyBoard, 1, c1), 2, c2), f)]
    BY Zenon DEF SnakeInit
  <2>d. PICK c2 \in SpawnCells(Spawn(EmptyBoard, 1, c1)) :
          \E f \in FoodCells(Spawn(Spawn(EmptyBoard, 1, c1), 2, c2)) :
            board = [c \in Clients |-> MakeFood(Spawn(Spawn(EmptyBoard, 1, c1), 2, c2), f)]
    BY <2>c
  <2>1. PICK f \in FoodCells(Spawn(Spawn(EmptyBoard, 1, c1), 2, c2)) :
          board = [c \in Clients |-> MakeFood(Spawn(Spawn(EmptyBoard, 1, c1), 2, c2), f)]
    BY <2>d
  <2>2. f \in Interior /\ f \in Cells
    BY <2>1, SnakeAssumption DEF FoodCells, Interior, Cells
  <2>3. /\ GoodBoard(MakeFood(Spawn(Spawn(EmptyBoard, 1, c1), 2, c2), f))
        /\ FoodAt(MakeFood(Spawn(Spawn(EmptyBoard, 1, c1), 2, c2), f)) = {f}
    BY FirstBoardGood
  <2> QED BY <2>1, <2>2, <2>3
<1>2. /\ draws = [c \in Clients |-> <<>>] /\ socket = [c \in Clients |-> <<>>]
      /\ queue = [c \in Clients |-> <<>>] /\ refresh = [c \in Clients |-> "runs"]
      /\ frame = [c \in Clients |-> <<>>] /\ sent = 0
  BY DEF SnakeInit
<1>3. b \in Boards
  BY <1>1 DEF GoodBoard
<1>4. MaxQueue \in Nat /\ MaxFrames \in Nat
  BY SnakeAssumption
<1>5. ASSUME NEW c \in Clients
      PROVE  /\ Len(queue[c]) = 0 /\ Len(socket[c]) = 0 /\ Len(frame[c]) = 0 /\ Len(draws[c]) = 0
             /\ board[c] = b /\ refresh[c] = "runs"
  BY <1>1, <1>2
<1>6. ASSUME NEW c \in Clients PROVE Taken(c) = 0 /\ Place(c) = 1
  <2>1. Taken(c) = 0 - 0 - 0
    BY <1>2, <1>5, Zenon DEF Taken
  <2>2. Place(c) = 3 * 0 - 0 + 1
    <3>1. Taken(c) = 0
      BY <2>1
    <3> QED BY <1>5, <3>1, Zenon DEF Place
  <2> QED BY <2>1, <2>2
<1>7. Typed
  <2>1. /\ board \in [Clients -> Boards] /\ refresh \in [Clients -> {"runs", "draws", "undefined"}]
    BY <1>1, <1>2, <1>3
  <2>2. /\ draws \in [Clients -> Seq(Interior)] /\ socket \in [Clients -> Seq(Frames)]
        /\ queue \in [Clients -> Seq(Frames)]
        /\ frame \in [Clients -> Seq(Moves \cup {"MOVE_FORWARD"})]
    BY <1>2
  <2>3. sent \in 0..MaxFrames
    BY <1>2, <1>4
  <2> QED BY <1>4, <1>5, <1>6, <2>1, <2>2, <2>3 DEF Typed
<1> DEFINE s == At(0, 0, b, "runs", 0)
<1>8. GoodState(s) /\ s \in States
  <2>1. s \in States
    BY <1>3 DEF States, At
  <2>2. s.board = b /\ s.refresh = "runs"
    BY DEF At
  <2>3. \E g \in Cells : FoodAt(s.board) = {g}
    BY <1>1, <2>2
  <2> QED BY <1>1, <2>1, <2>2, <2>3 DEF GoodState
<1>9. PICK fs \in Seq(Frames), all \in Seq(Interior), h \in Seq(States) :
        fs = <<>> /\ all = <<>> /\ h = <<s>>
  <2>1. <<>> \in Seq(Frames) /\ <<>> \in Seq(Interior)
    OBVIOUS
  <2>2. <<s>> \in Seq(States)
    BY <1>8
  <2> QED BY <2>1, <2>2, Zenon
<1>10. Len(h) = 1 /\ h[1] = s /\ Len(all) = 0 /\ Len(fs) = 0
  BY <1>8, <1>9
<1>11. s.at = 0 /\ s.left = 0 /\ s.drawn = 0
  BY DEF At
<1> HIDE DEF s
<1>12. History(fs, all, h)
  <2>1. ASSUME NEW k \in 1..Len(h)
        PROVE  /\ GoodState(h[k]) /\ k = 3 * h[k].at - h[k].left + 1
               /\ h[k].drawn <= Len(all) /\ h[k].at <= Len(fs)
    <3>1. k = 1
      BY <1>10
    <3> QED BY <1>8, <1>10, <1>11, <3>1
  <2>2. ~ \E k \in 1..Len(h) - 1 : TRUE
    BY <1>10
  <2> QED BY <1>10, <1>11, <2>1, <2>2 DEF History
<1>13. ASSUME NEW c \in Clients PROVE InHistory(c, fs, all, h)
  <2>1. StateOf(c, all) = At(0, 0, b, "runs", 0)
    BY <1>5, <1>6, <1>10 DEF StateOf
  <2>2. h[Place(c)] = StateOf(c, all) /\ Place(c) \in 1..Len(h)
    BY <1>6, <1>10, <2>1 DEF s
  <2>3. Pending(c, fs, all)
    <3>1. \A i \in 1..0 : FALSE
      OBVIOUS
    <3>2. 0 <= 0
      OBVIOUS
    <3> QED BY <1>5, <1>10, <3>1, <3>2, Zenon DEF Pending
  <2> QED BY <2>2, <2>3 DEF InHistory
<1>14. OneHistory
  BY <1>2, <1>10, <1>12, <1>13 DEF OneHistory
<1> QED BY <1>7, <1>14 DEF SnakeInv

LEMMA StutterInv ==
  ASSUME SnakeInv, UNCHANGED snakeVars
  PROVE  SnakeInv'
<1>1. /\ board' = board /\ draws' = draws /\ socket' = socket /\ queue' = queue
      /\ refresh' = refresh /\ frame' = frame /\ sent' = sent
  BY DEF snakeVars
<1>2. Typed'
  BY <1>1 DEF SnakeInv, Typed, Taken
<1>3. PICK fs \in Seq(Frames), all \in Seq(Interior), h \in Seq(States) :
        /\ Len(fs) = sent /\ History(fs, all, h)
        /\ \A d \in Clients : InHistory(d, fs, all, h)
  BY DEF SnakeInv, OneHistory
<1>4. ASSUME NEW d \in Clients PROVE InHistory(d, fs, all, h)'
  <2>1. InHistory(d, fs, all, h) /\ Typed
    BY <1>3 DEF SnakeInv
  <2> QED BY <1>1, <2>1, OthersStay
<1>5. (Len(fs) = sent)'
  BY <1>1, <1>3
<1>6. OneHistory'
  BY <1>3, <1>4, <1>5 DEF OneHistory
<1> QED BY <1>2, <1>6 DEF SnakeInv

\* The inductive invariant: every client is somewhere in one history of the board.
THEOREM SnakeInvariant == SnakeSpec => []SnakeInv
<1>1. SnakeInit => SnakeInv
  BY SnakeInitInv
<1>2. SnakeInv /\ [SnakeNext]_snakeVars => SnakeInv'
  <2> SUFFICES ASSUME SnakeInv, [SnakeNext]_snakeVars PROVE SnakeInv'
    OBVIOUS
  <2>1. CASE SendFrame
    BY <2>1, SendFrameInv
  <2>2. ASSUME NEW c \in Clients, RecvFrame(c) PROVE SnakeInv'
    BY <2>2, RecvFrameInv
  <2>3. ASSUME NEW c \in Clients, TakeFrame(c) PROVE SnakeInv'
    BY <2>3, TakeFrameInv
  <2>4. ASSUME NEW c \in Clients, MoveSnake(c) PROVE SnakeInv'
    BY <2>4, MoveSnakeInv
  <2>5. CASE UNCHANGED snakeVars
    BY <2>5, StutterInv
  <2> QED BY <2>1, <2>2, <2>3, <2>4, <2>5 DEF SnakeNext
<1> QED BY <1>1, <1>2, PTL DEF SnakeSpec

-----------------------------------------------------------------------------
(* What the history gives.                                                 *)

LEMMA BoardsAreGood ==
  ASSUME SnakeInv, NEW c \in Clients
  PROVE  /\ GoodBoard(board[c])
         /\ IF refresh[c] = "draws" THEN FoodAt(board[c]) = {}
            ELSE \E f \in Cells : FoodAt(board[c]) = {f}
<1>1. PICK fs \in Seq(Frames), all \in Seq(Interior), h \in Seq(States) :
        /\ Len(fs) = sent /\ History(fs, all, h)
        /\ \A d \in Clients : InHistory(d, fs, all, h)
  BY DEF SnakeInv, OneHistory
<1>2. /\ GoodState(StateOf(c, all)) /\ StateOf(c, all).board = board[c]
      /\ StateOf(c, all).refresh = refresh[c]
  BY <1>1, ClientFacts DEF SnakeInv
<1> QED BY <1>2 DEF GoodState

\* Maps, overlaps, snakes, draws and frames have their types, and the queues
\* their bounds (game.hpp:95-130, 214-226).
THEOREM SnakeTypeCorrect == SnakeSpec => []SnakeTypeOK
<1>1. SnakeInv => SnakeTypeOK
  <2> SUFFICES ASSUME SnakeInv PROVE SnakeTypeOK
    OBVIOUS
  <2>1. Typed
    BY DEF SnakeInv
  <2>2. ASSUME NEW c \in Clients
        PROVE  /\ board[c].map \in [Cells -> {"BLANK", "BORDER", "SNAKE", "FOOD"}]
               /\ board[c].overlap \in [Cells -> Nat]
               /\ \A p \in Players : board[c].snakes[p] \in Seq(Cells) /\ Len(board[c].snakes[p]) > 1
    BY BoardsAreGood DEF GoodBoard, Boards
  <2>3. ASSUME NEW c \in Clients
        PROVE  /\ draws[c] \in Seq(Interior)
               /\ Len(socket[c]) <= MaxQueue /\ Len(queue[c]) <= MaxQueue
               /\ Len(frame[c]) <= Cardinality(Players)
    BY <2>1, TwoPlayers DEF Typed
  <2>4. refresh \in [Clients -> {"runs", "draws", "undefined"}] /\ sent \in 0..MaxFrames
    BY <2>1 DEF Typed
  <2> QED BY <2>2, <2>3, <2>4 DEF SnakeTypeOK
<1> QED BY <1>1, SnakeInvariant, PTL

\* However snakes cross, follow their own tail or grow, the overlaps count the nodes
\* and the map shows a snake exactly where they are; one piece of food until the
\* interior is full (game.cpp:236-261).
THEOREM BoardsConsistent == SnakeSpec => []BoardConsistent
<1>1. SnakeInv => BoardConsistent
  <2> SUFFICES ASSUME SnakeInv, NEW c \in Clients
               PROVE  /\ \A cell \in Cells :
                           /\ board[c].overlap[cell] = NodesOn(board[c], cell)
                           /\ board[c].map[cell] = "SNAKE" <=> board[c].overlap[cell] > 0
                      /\ Cardinality({cell \in Cells : board[c].map[cell] = "FOOD"})
                           = IF refresh[c] = "draws" THEN 0 ELSE 1
    BY Zenon DEF BoardConsistent
  <2>1. Counted(board[c])
    BY BoardsAreGood DEF GoodBoard
  <2>2. Cardinality(FoodAt(board[c])) = IF refresh[c] = "draws" THEN 0 ELSE 1
    <3>1. CASE refresh[c] = "draws"
      BY <3>1, BoardsAreGood, FS_EmptySet
    <3>2. CASE refresh[c] # "draws"
      <4>1. PICK f \in Cells : FoodAt(board[c]) = {f}
        BY <3>2, BoardsAreGood
      <4>2. Cardinality({f}) = 1
        BY FS_Singleton
      <4> QED BY <3>2, <4>1, <4>2
    <3> QED BY <3>1, <3>2
  <2> QED BY <2>1, <2>2 DEF Counted, FoodAt
<1> QED BY <1>1, SnakeInvariant, PTL

\* Each node of a snake stays beside the next, so the first two always tell where
\* it is heading (game.cpp:147-227).
THEOREM BodiesConnected == SnakeSpec => []BodyConnected
<1>1. SnakeInv => BodyConnected
  BY BoardsAreGood DEF GoodBoard, Connected, BodyConnected
<1> QED BY <1>1, SnakeInvariant, PTL

\* Two players who have moved by every frame sent see the same board: both are in
\* the one history, and at the same place of it (game.cpp:76, 705, 951-968).
THEOREM ClientsSeeOneBoard == SnakeSpec => []BoardsAgree
<1>1. SnakeInv => BoardsAgree
  <2> SUFFICES ASSUME SnakeInv, NEW c \in Clients, NEW d \in Clients,
                      CaughtUp(c), CaughtUp(d)
               PROVE  board[c] = board[d]
    BY DEF BoardsAgree
  <2>1. PICK fs \in Seq(Frames), all \in Seq(Interior), h \in Seq(States) :
          /\ Len(fs) = sent /\ History(fs, all, h)
          /\ \A e \in Clients : InHistory(e, fs, all, h)
    BY DEF SnakeInv, OneHistory
  <2>2. /\ StateOf(c, all).board = board[c] /\ h[Place(c)] = StateOf(c, all)
        /\ StateOf(d, all).board = board[d] /\ h[Place(d)] = StateOf(d, all)
    BY <2>1, ClientFacts DEF SnakeInv
  <2>3. Place(c) = Place(d)
    <3>1. /\ socket[c] = <<>> /\ queue[c] = <<>> /\ frame[c] = <<>>
          /\ socket[d] = <<>> /\ queue[d] = <<>> /\ frame[d] = <<>>
      BY DEF CaughtUp
    <3> QED BY <3>1, Zenon DEF Place, Taken
  <2> QED BY <2>2, <2>3, Zenon
<1> QED BY <1>1, SnakeInvariant, PTL
=============================================================================
