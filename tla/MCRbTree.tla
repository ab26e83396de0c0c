------------------------------ MODULE MCRbTree -------------------------------
(* Eight nodes, two of them with equal data; intervals of unequal length, the   *)
(* longest in the middle.                                                       *)
EXTENDS RbTree

DataOf == <<1, 2, 3, 4, 5, 6, 6, 7>>
HighOf == <<2, 2, 7, 9, 5, 6, 8, 7>>
=============================================================================
