--------------------------- MODULE MCGhostPlanner ---------------------------
(***************************************************************************)
(* The maze of the game for TLC, bit for bit (initWalls of variables.go,   *)
(* column 0 at the right), with Pacman at the far ends of it.              *)
(***************************************************************************)
EXTENDS GhostPlanner

initWalls == <<
  \b1111111111111111111111111111,
  \b1000000000000110000000000001,
  \b1011110111110110111110111101,
  \b1011110111110110111110111101,
  \b1011110111110110111110111101,
  \b1000000000000000000000000001,
  \b1011110110111111110110111101,
  \b1011110110111111110110111101,
  \b1000000110000110000110000001,
  \b1111110111110110111110111111,
  \b1111110111110110111110111111,
  \b1111110110000000000110111111,
  \b1111110110111111110110111111,
  \b1111110110111111110110111111,
  \b1111110000111111110000111111,
  \b1111110110111111110110111111,
  \b1111110110111111110110111111,
  \b1111110110000000000110111111,
  \b1111110110111111110110111111,
  \b1111110110111111110110111111,
  \b1000000000000110000000000001,
  \b1011110111110110111110111101,
  \b1011110111110110111110111101,
  \b1000110000000000000000110001,
  \b1110110110111111110110110111,
  \b1110110110111111110110110111,
  \b1000000110000110000110000001,
  \b1011111111110110111111111101,
  \b1011111111110110111111111101,
  \b1000000000000000000000000001,
  \b1111111111111111111111111111 >>

MCOpen == {c \in (0 .. mazeRows - 1) \X (0 .. mazeCols - 1) :
             (initWalls[c[1] + 1] \div (2 ^ c[2])) % 2 = 0}

\* The spawn point, two opposite corners, and off the maze.
MCPacmans == {at(23, 13, right), at(1, 1, left), at(29, 26, down), emptyLoc}

MCReds == {<<1, 26>>, <<29, 1>>}
=============================================================================
