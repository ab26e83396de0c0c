------------------------------- MODULE MCSnake -------------------------------
(* The first player turns up and right, the second goes on.                *)
EXTENDS Snake, TLC

OptionsOf == <<{"MOVE_UP", "MOVE_RIGHT"}, {}>>
Symmetry == Permutations(Clients)
=============================================================================
