---------------------------- MODULE MCGameEngine ----------------------------
(***************************************************************************)
(* A small maze for TLC: corridor cells 1 - 2 - 3 - 4 - 1 in a ring with a *)
(* stub, cell 5, at cell 1, and a ghost house, cell 6, that opens on cell  *)
(* 3.  Cells 5 and 3 are far enough apart for a tracked path to be jumped. *)
(***************************************************************************)
EXTENDS GameEngine

\* Pink, whose spawn red shares, also plays orange, so that a game over has a
\* ghost that stares and one that does not.
CONSTANTS red, pink

MCCorridor == 1 .. 5

MCCells == 1 .. 6

ring(a, b) == LET d == (a - b) % 4 IN IF d = 3 THEN 1 ELSE d

onRing(a) == IF a = 5 THEN 1 ELSE a

stubs(a, b) == IF a = b THEN 0 ELSE Cardinality({a, b} \cap {5})

MCDist == [a \in MCCorridor |-> [b \in MCCorridor |->
             ring(onRing(a), onRing(b)) + stubs(a, b)]]

MCGhostMoves == [c \in MCCells |->
                   IF c = 6 THEN {3} ELSE {n \in MCCorridor : MCDist[c][n] = 1}]

MCGhostSpawn == [g \in {red, pink} |-> IF g = red THEN 3 ELSE 6]
=============================================================================
