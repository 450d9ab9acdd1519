----------------------------- MODULE Locations -----------------------------
(***************************************************************************)
(* The positions of the game: the cell and the direction of an agent       *)
(* (location.go), the fixed places of the maze (variables.go), and the two *)
(* bytes a position takes in a frame (serialize.go), as the bot reads them *)
(* (gameState.py).                                                         *)
(***************************************************************************)
EXTENDS Integers, Sequences

up == 0
left == 1
down == 2
right == 3
none == 4

Dirs == {up, left, down, right}

dRow(d) == IF d = up THEN -1 ELSE IF d = down THEN 1 ELSE 0

dCol(d) == IF d = left THEN -1 ELSE IF d = right THEN 1 ELSE 0

mazeRows == 31
mazeCols == 28

at(r, c, d) == [row |-> r, col |-> c, dir |-> d]

emptyLoc == at(32, 32, none)

isEmpty(l) == l.row = 32 /\ l.col = 32

\* Cells off the maze never collide.
collidesWith(l, m) ==
  /\ l.row < 32 /\ l.col < 32
  /\ l.row = m.row /\ l.col = m.col

reversed(d) == IF d = none THEN none ELSE (d + 2) % 4

cell(l) == <<l.row, l.col>>

getNeighborCoords(l, d) == <<l.row + dRow(d), l.col + dCol(d)>>

getAheadCoords(l, n) == <<l.row + n * dRow(l.dir), l.col + n * dCol(l.dir)>>

advanceFrom(l) == at(l.row + dRow(l.dir), l.col + dCol(l.dir), l.dir)

sq(n) == n * n

distSq(a, b) == sq(b[1] - a[1]) + sq(b[2] - a[2])

-----------------------------------------------------------------------------
(* On the wire.  A coordinate has six bits and its delta the two above; the  *)
(* or of the code is a sum, because no coordinate reaches the delta's bits.  *)

byte(n) == n % 256

serLocation(l) == <<byte(64 * dRow(l.dir) + l.row), byte(64 * dCol(l.dir) + l.col)>>

\* Location.update: the two high bits are in two's complement.
signed(n) == IF n >= 2 THEN n - 4 ELSE n

coordinate(b) == b % 64

delta(b) == signed(b \div 64)
=============================================================================
