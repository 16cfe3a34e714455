------------------------------ MODULE MCSnakes ------------------------------
(***************************************************************************)
(* Boards of three by three for TLC: two snakes, one of them coiled up at  *)
(* an edge, the other told to start below the board, a meal from being     *)
(* full or two; and three hungry snakes of one cell and two, of which the  *)
(* middle one of the list can leave first.                                 *)
(***************************************************************************)
EXTENDS Snakes

Snake(y, x, len, dir, color) ==
    [y |-> y, x |-> x, len |-> len, dir |-> dir, color |-> color]

N == 1
W == 3
E == 4

Two == <<Snake(0, 1, 3, E, 7), Snake(3, 1, 2, W, 6)>>

Three == <<Snake(0, 0, 1, E, 7), Snake(1, 0, 2, E, 7), Snake(2, 2, 1, N, 7)>>

Demos ==
    {[snakes |-> Two, hungry |-> h] : h \in BOOLEAN} \cup {[snakes |-> Three, hungry |-> TRUE]}
=============================================================================
