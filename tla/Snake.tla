-------------------------------- MODULE Snake --------------------------------
(***************************************************************************)
(* The game itself: the frames a room's server thread multicasts           *)
(* (game.cpp:409-454) and, at each client, the threads that receive them   *)
(* and move the snakes on its board (game.cpp:12-262, 699-982).            *)
(*                                                                         *)
(* The code is not finished: nothing puts the players' snakes into         *)
(* m_mapSnake yet, nor their options into the queues of m_mapGameOpt.      *)
(* Here m_mapSnake has a snake of each player, on the client's map, and    *)
(* Options says what the queues may hold.                                  *)
(*                                                                         *)
(* Both clients seed rand() with one number, so the n-th draw is the same  *)
(* at each: whoever comes first chooses it, for the other it is kept.      *)
(* Draws that hit a snake are repeated at once and are not kept.  Every    *)
(* frame is delivered once and in order; the README says what follows when *)
(* one is not.  Nobody leaves: start() runs until ESC is typed twice.      *)
(***************************************************************************)
EXTENDS Integers, Sequences, FiniteSets

CONSTANTS
  Clients,    \* the players' programs
  MAP_H, MAP_W,
  Options,    \* for each of the two players, what its queue of options may hold
  MaxQueue,   \* bound: frames a socket or a queue holds
  MaxFrames   \* bound: frames the server sends

Moves == {"MOVE_UP", "MOVE_DOWN", "MOVE_LEFT", "MOVE_RIGHT"}
Players == {1, 2}   \* in the order of m_mapGameOpt and of m_mapSnake

ASSUME SnakeAssumption ==
  /\ MAP_H \in Nat /\ MAP_H > 3 /\ MAP_W \in Nat /\ MAP_W > 3
  /\ Options \in [Players -> SUBSET (Moves \cup {"MOVE_FORWARD"})]
  /\ MaxQueue \in Nat \ {0} /\ MaxFrames \in Nat

VARIABLES
  board,     \* per client: the map, the overlaps and the two snakes
  draws,     \* per client: the draws that only others have made
  socket,    \* per client: frames that have arrived
  queue,     \* per client: m_queGameFrame
  refresh,   \* whether its refresh_thread runs, draws for ever or is undefined
  frame,     \* the options of its frame that it has still to carry out
  sent       \* how many frames the server has sent

snakeVars == <<board, draws, socket, queue, refresh, frame, sent>>

-----------------------------------------------------------------------------
(* The board.                                                              *)

Cells == (0..MAP_H - 1) \X (0..MAP_W - 1)
Interior == (1..MAP_H - 2) \X (1..MAP_W - 2)

Toward ==
  [MOVE_UP |-> <<-1, 0>>, MOVE_DOWN |-> <<1, 0>>, MOVE_LEFT |-> <<0, -1>>, MOVE_RIGHT |-> <<0, 1>>]
Beside(cell, move) == <<cell[1] + Toward[move][1], cell[2] + Toward[move][2]>>

EmptyBoard ==
  [map |-> [c \in Cells |-> IF c \in Interior THEN "BLANK" ELSE "BORDER"],
   overlap |-> [c \in Cells |-> 0],
   snakes |-> [p \in Players |-> <<>>]]

Cover(b, cell) == [b EXCEPT !.map[cell] = "SNAKE", !.overlap[cell] = @ + 1]
AddNode(b, p, cell) == [Cover(b, cell) EXCEPT !.snakes[p] = Append(@, cell)]

\* The second node of a new snake is on the first of the four neighbours that is
\* no snake: on the border as well.
NeighbourOrder == <<"MOVE_UP", "MOVE_DOWN", "MOVE_LEFT", "MOVE_RIGHT">>
Neighbour(cell, i) == Beside(cell, NeighbourOrder[i])
FreeNeighbours(b, cell) == {i \in 1..4 : b.map[Neighbour(cell, i)] # "SNAKE"}
FirstFree(b, cell) ==
  Neighbour(cell, CHOOSE i \in FreeNeighbours(b, cell) : \A j \in FreeNeighbours(b, cell) : i <= j)

SpawnCells(b) == {c \in Interior : b.map[c] # "SNAKE" /\ FreeNeighbours(b, c) # {}}
Spawn(b, p, cell) == AddNode(AddNode(b, p, cell), p, FirstFree(b, cell))

\* Mutant: rand() % MAP_H and rand() % MAP_W.
FoodCellsOnBorder(b) == {c \in Cells : b.map[c] # "SNAKE"}
FoodCells(b) == {c \in Interior : b.map[c] # "SNAKE"}
MakeFood(b, cell) == [b EXCEPT !.map[cell] = "FOOD"]

-----------------------------------------------------------------------------
(* Moving a snake.                                                         *)

\* No turning back: the moves that the first two nodes rule out.
Refused(snake, move) ==
  LET head == snake[1]
      next == snake[2]
  IN CASE move = "MOVE_UP" -> head[1] > next[1]
       [] move = "MOVE_DOWN" -> head[1] < next[1]
       [] move = "MOVE_LEFT" -> head[2] > next[2]
       [] move = "MOVE_RIGHT" -> head[2] < next[2]

Forward(snake) ==
  LET head == snake[1]
      next == snake[2]
  IN IF head[1] > next[1] THEN "MOVE_DOWN"
     ELSE IF head[1] < next[1] THEN "MOVE_UP"
     ELSE IF head[2] > next[2] THEN "MOVE_RIGHT"
     ELSE "MOVE_LEFT"

Last(s) == s[Len(s)]
Grow(b, p, cell) == [Cover(b, cell) EXCEPT !.snakes[p] = <<cell>> \o @]

\* Mutant: the overlap of the cell is not looked at.
LeaveTailAlways(b, cell) == [b EXCEPT !.overlap[cell] = @ - 1, !.map[cell] = "BLANK"]

\* The last node becomes the head; the cell it leaves is blank unless another
\* node is on it.
LeaveTail(b, cell) ==
  LET left == [b EXCEPT !.overlap[cell] = @ - 1]
  IN IF left.overlap[cell] < 1 THEN [left EXCEPT !.map[cell] = "BLANK"] ELSE left

\* Mutant: the node moved stays the last (no splice).
ShiftInPlace(b, p, cell) ==
  LET snake == b.snakes[p]
  IN [LeaveTail(Cover(b, cell), Last(snake)) EXCEPT !.snakes[p] = [snake EXCEPT ![Len(snake)] = cell]]

Shift(b, p, cell) ==
  LET snake == b.snakes[p]
  IN [LeaveTail(Cover(b, cell), Last(snake))
        EXCEPT !.snakes[p] = <<cell>> \o SubSeq(snake, 1, Len(snake) - 1)]

\* An option of a frame as a move, or none.
MoveOf(snake, option) ==
  IF option = "MOVE_FORWARD" THEN {Forward(snake)}
  ELSE IF Refused(snake, option) THEN {} ELSE {option}

Targets(b, p, option) == {Beside(b.snakes[p][1], m) : m \in MoveOf(b.snakes[p], option)}

-----------------------------------------------------------------------------
(* The threads of a client.                                                *)

\* Mutant: each client has a seed of its own, as in CSnake::init.
DrawOwnSeed(c, b, cell) == cell \in FoodCells(b) /\ UNCHANGED draws

\* Whoever draws first chooses; the others find the draw kept.
Draw(c, b, cell) ==
  IF draws[c] # <<>>
  THEN cell = Head(draws[c]) /\ draws' = [draws EXCEPT ![c] = Tail(@)]
  ELSE /\ cell \in FoodCells(b)
       /\ draws' = [d \in Clients |-> IF d = c THEN draws[d] ELSE Append(draws[d], cell)]

RecvFrame(c) ==
  /\ socket[c] # <<>> /\ Len(queue[c]) < MaxQueue
  /\ queue' = [queue EXCEPT ![c] = Append(@, Head(socket[c]))]
  /\ socket' = [socket EXCEPT ![c] = Tail(@)]
  /\ UNCHANGED <<board, draws, refresh, frame, sent>>

\* refresh_thread has moved every snake and waited 50 ms when no option is left.
TakeFrame(c) ==
  /\ frame[c] = <<>> /\ queue[c] # <<>>
  /\ frame' = [frame EXCEPT ![c] = Head(queue[c])]
  /\ queue' = [queue EXCEPT ![c] = Tail(@)]
  /\ UNCHANGED <<board, draws, socket, refresh, sent>>

\* The loop's body for the next snake: nothing, an index outside the map, food, a
\* draw that never ends, or a move.
MoveSnake(c) ==
  /\ frame[c] # <<>> /\ refresh[c] = "runs"
  /\ frame' = [frame EXCEPT ![c] = Tail(@)]
  /\ LET b == board[c]
         p == Cardinality(Players) + 1 - Len(frame[c])
         targets == Targets(b, p, Head(frame[c]))
         Undefined == \E t \in targets : t \notin Cells
         Still == \A t \in targets : b.map[t] = "BORDER"
     IN \/ /\ Undefined
           /\ refresh' = [refresh EXCEPT ![c] = "undefined"]
           /\ UNCHANGED <<board, draws>>
        \/ /\ ~Undefined /\ Still
           /\ UNCHANGED <<board, draws, refresh>>
        \/ \E t \in targets \cap Cells :
             /\ b.map[t] = "FOOD"
             /\ IF FoodCells(Grow(b, p, t)) = {}
                THEN /\ refresh' = [refresh EXCEPT ![c] = "draws"]
                     /\ board' = [board EXCEPT ![c] = Grow(b, p, t)]
                     /\ UNCHANGED draws
                ELSE \E cell \in Cells :
                       /\ Draw(c, Grow(b, p, t), cell)
                       /\ board' = [board EXCEPT ![c] = MakeFood(Grow(b, p, t), cell)]
                       /\ UNCHANGED refresh
        \/ \E t \in targets \cap Cells :
             /\ b.map[t] \notin {"BORDER", "FOOD"}
             /\ board' = [board EXCEPT ![c] = Shift(b, p, t)]
             /\ UNCHANGED <<draws, refresh>>
  /\ UNCHANGED <<socket, queue, sent>>

-----------------------------------------------------------------------------
(* The server's send_frame thread.                                         *)

\* Try_GetTask finds an option of the player, or nothing.
SendFrame ==
  /\ sent < MaxFrames /\ sent' = sent + 1
  /\ \A c \in Clients : Len(socket[c]) < MaxQueue
  /\ \E f \in [Players -> Moves \cup {"MOVE_FORWARD"}] :
       /\ \A p \in Players : f[p] \in Options[p] \cup {"MOVE_FORWARD"}
       /\ socket' = [c \in Clients |-> Append(socket[c], f)]
  /\ UNCHANGED <<board, draws, queue, refresh, frame>>

SnakeInit ==
  /\ \E c1 \in SpawnCells(EmptyBoard) :
       LET one == Spawn(EmptyBoard, 1, c1)
       IN \E c2 \in SpawnCells(one) :
            LET two == Spawn(one, 2, c2)
            IN \E f \in FoodCells(two) : board = [c \in Clients |-> MakeFood(two, f)]
  /\ draws = [c \in Clients |-> <<>>]
  /\ socket = [c \in Clients |-> <<>>] /\ queue = [c \in Clients |-> <<>>]
  /\ refresh = [c \in Clients |-> "runs"]
  /\ frame = [c \in Clients |-> <<>>]
  /\ sent = 0

SnakeNext ==
  \/ SendFrame
  \/ \E c \in Clients :
       \/ RecvFrame(c)
       \/ TakeFrame(c)
       \/ MoveSnake(c)

SnakeSpec == SnakeInit /\ [][SnakeNext]_snakeVars

-----------------------------------------------------------------------------
SnakeTypeOK ==
  /\ \A c \in Clients :
       /\ board[c].map \in [Cells -> {"BLANK", "BORDER", "SNAKE", "FOOD"}]
       /\ board[c].overlap \in [Cells -> Nat]
       /\ \A p \in Players : board[c].snakes[p] \in Seq(Cells) /\ Len(board[c].snakes[p]) > 1
       /\ draws[c] \in Seq(Interior)
       /\ Len(socket[c]) <= MaxQueue /\ Len(queue[c]) <= MaxQueue
       /\ Len(frame[c]) <= Cardinality(Players)
  /\ refresh \in [Clients -> {"runs", "draws", "undefined"}]
  /\ sent \in 0..MaxFrames

\* The nodes on a cell, of either snake.
Positions(snake, cell) == {i \in DOMAIN snake : snake[i] = cell}
NodesOn(b, cell) ==
  Cardinality(Positions(b.snakes[1], cell)) + Cardinality(Positions(b.snakes[2], cell))

\* However snakes cross, follow their own tail or grow, a cell's overlap is the number
\* of nodes on it and the map shows a snake exactly there (game.cpp:236-261); there
\* is one piece of food until the interior is full.
BoardConsistent ==
  \A c \in Clients :
    LET b == board[c]
    IN /\ \A cell \in Cells : /\ b.overlap[cell] = NodesOn(b, cell)
                              /\ b.map[cell] = "SNAKE" <=> b.overlap[cell] > 0
       /\ Cardinality({cell \in Cells : b.map[cell] = "FOOD"}) = IF refresh[c] = "draws" THEN 0 ELSE 1

\* Each node of a snake is beside the next, so the first two always tell where it
\* is heading (game.cpp:147-227).
BodyConnected ==
  \A c \in Clients, p \in Players :
    LET snake == board[c].snakes[p]
    IN \A i \in 1..Len(snake) - 1 : \E m \in Moves : snake[i] = Beside(snake[i + 1], m)

\* Two players who have moved by every frame sent see the same board: a client draws
\* as often and in the same order as the other (game.cpp:76, 705, 951-968).
CaughtUp(c) ==
  socket[c] = <<>> /\ queue[c] = <<>> /\ frame[c] = <<>> /\ refresh[c] = "runs"
BoardsAgree == \A c, d \in Clients : CaughtUp(c) /\ CaughtUp(d) => board[c] = board[d]

=============================================================================
