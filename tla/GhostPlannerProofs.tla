------------------------- MODULE GhostPlannerProofs -------------------------
(***************************************************************************)
(* A ghost keeps to its ground and always has a way to go, in every maze   *)
(* without dead ends whose house opens only on red's spawn.  What is       *)
(* inductive is more than where the ghost stands: the cell it looks at is  *)
(* ground as well, the plan is one step ahead of the position, and only a  *)
(* game that is over leaves a ghost without a direction.  From it follows  *)
(* that the planner does what the rules of the game say of a ghost.        *)
(***************************************************************************)
EXTENDS GhostPlanner, TLAPS

ground(sp, c) == c \in Open \/ (sp /\ c \in House \cup {Exit})

\* A position on the maze that looks at ground.
Stands(l, sp) ==
  ground(sp, cell(l)) /\ (l.dir # none => ground(sp, getNeighborCoords(l, l.dir)))

Places ==
  /\ isEmpty(g.loc) \/ Stands(g.loc, g.spawning)
  /\ Stands(g.nextLoc, g.spawning)

OneAhead ==
  pc = "update" /\ ~ isEmpty(g.loc) =>
    cell(g.nextLoc) = getNeighborCoords(g.loc, g.loc.dir)

Directed ==
  /\ g.nextLoc.dir = none => halt \in {"gameOver", "ended"}
  /\ (g.loc.dir = none /\ ~ isEmpty(g.loc)) => halt = "ended"

Inv == TypeOK /\ Places /\ OneAhead /\ Directed

-----------------------------------------------------------------------------
(* Facts about the maze. *)

Coordinates == Int \X Int

LEMMA GroundInRange ==
  ASSUME NEW sp \in BOOLEAN, NEW r \in Int, NEW c \in Int, ground(sp, <<r, c>>)
  PROVE  r \in 0 .. 30 /\ c \in 0 .. 27
BY MazeAssumption DEF ground, House, Exit, mazeRows, mazeCols

\* Whatever way a ghost comes from, the cell it enters has another way out.
LEMMA WayOut ==
  ASSUME NEW sp \in BOOLEAN, NEW r \in Int, NEW c \in Int, NEW back \in 0 .. 4,
         ground(sp, <<r, c>>)
  PROVE  \E d \in Dirs \ {back} : ground(sp, <<r + dRow(d), c + dCol(d)>>)
<1>1. CASE <<r, c>> \in Open
  <2>1. PICK b \in Dirs : back \in Dirs => b = back
    BY DEF Dirs, up
  <2>2. PICK d \in Dirs \ {b} :
          <<<<r, c>>[1] + dRow(d), <<r, c>>[2] + dCol(d)>> \in Open
    BY <1>1, MazeAssumption
  <2> QED BY <2>1, <2>2 DEF ground
<1>2. CASE sp /\ <<r, c>> = Exit
  <2>1. /\ <<r + dRow(up), c + dCol(up)>> = <<11, 13>>
        /\ <<r + dRow(down), c + dCol(down)>> = <<13, 13>>
    BY <1>2 DEF Exit, dRow, dCol, up, down, left, right
  <2>2. ground(sp, <<11, 13>>) /\ ground(sp, <<13, 13>>)
    BY <1>2, MazeAssumption DEF ground, House
  <2>3. up \in Dirs /\ down \in Dirs /\ up # down
    BY DEF Dirs, up, down
  <2> QED BY <2>1, <2>2, <2>3
<1>3. CASE sp /\ <<r, c>> \in House
  <2>1. r \in 13 .. 14 /\ c \in 11 .. 15
    BY <1>3 DEF House
  <2>2. PICK h \in {left, right} : <<r + dRow(h), c + dCol(h)>> \in House
    BY <2>1 DEF House, dRow, dCol, up, down, left, right
  <2>3. PICK v \in {up, down} : <<r + dRow(v), c + dCol(v)>> \in House
    BY <2>1 DEF House, dRow, dCol, up, down, left, right
  <2>4. h \in Dirs /\ v \in Dirs /\ h # v
    BY <2>2, <2>3 DEF Dirs, up, down, left, right
  <2> QED BY <1>3, <2>2, <2>3, <2>4 DEF ground
<1> QED BY <1>1, <1>2, <1>3 DEF ground

\* A position and the way back from the cell it looks at.
LEMMA BackAgain ==
  ASSUME NEW r \in Int, NEW c \in Int, NEW d \in 0 .. 4
  PROVE  /\ reversed(d) \in 0 .. 4
         /\ (r + dRow(d)) + dRow(reversed(d)) = r
         /\ (c + dCol(d)) + dCol(reversed(d)) = c
<1>1. d = 0 \/ d = 1 \/ d = 2 \/ d = 3 \/ d = 4
  OBVIOUS
<1> QED BY <1>1 DEF reversed, dRow, dCol, up, down, left, right, none

-----------------------------------------------------------------------------
(* One ghost. *)

ghostState == [loc : locationState, nextLoc : locationState,
               trappedSteps : 0 .. 32, frightSteps : 0 .. FrightSteps,
               spawning : BOOLEAN, eaten : BOOLEAN]

\* The cell in front of a ghost, which its plan starts from, is ground.
LEMMA Ahead ==
  ASSUME NEW l \in locationState, NEW sp \in BOOLEAN, Stands(l, sp)
  PROVE  /\ ground(sp, <<l.row + dRow(l.dir), l.col + dCol(l.dir)>>)
         /\ advanceFrom(l) \in locationState
         /\ advanceFrom(l) = [row |-> l.row + dRow(l.dir),
                              col |-> l.col + dCol(l.dir), dir |-> l.dir]
<1> DEFINE r == l.row + dRow(l.dir)
           c == l.col + dCol(l.dir)
<1>1. l.row \in 0 .. 32 /\ l.col \in 0 .. 32 /\ l.dir \in 0 .. 4
      /\ l = [row |-> l.row, col |-> l.col, dir |-> l.dir]
  BY DEF locationState
<1>2. r \in Int /\ c \in Int
  BY <1>1 DEF dRow, dCol
<1>3. ground(sp, <<r, c>>)
  <2>1. CASE l.dir = none
    <3>1. r = l.row /\ c = l.col
      BY <2>1, <1>1 DEF dRow, dCol, none, up, down, left, right
    <3> QED BY <3>1 DEF Stands, cell
  <2>2. CASE l.dir # none
    BY <2>2 DEF Stands, getNeighborCoords
  <2> QED BY <2>1, <2>2
<1>4. r \in 0 .. 30 /\ c \in 0 .. 27
  BY <1>2, <1>3, GroundInRange
<1>5. advanceFrom(l) = [row |-> r, col |-> c, dir |-> l.dir]
  BY DEF advanceFrom, at
<1> QED BY <1>1, <1>3, <1>4, <1>5 DEF locationState

\* The moves of a ghost on the maze: there always is one.
LEMMA WayToGo ==
  ASSUME NEW s \in ghostState, Stands(s.loc, s.spawning)
  PROVE  LET l == s.loc IN
         /\ validMoves(s) = {d \in Dirs \ {reversed(l.dir)} :
              ground(s.spawning, <<l.row + dRow(l.dir) + dRow(d),
                                   l.col + dCol(l.dir) + dCol(d)>>)}
         /\ validMoves(s) # {}
<1> DEFINE l == s.loc
           r == l.row + dRow(l.dir)
           k == l.col + dCol(l.dir)
           sp == s.spawning
<1>1. /\ l \in locationState /\ sp \in BOOLEAN
      /\ l.row \in 0 .. 32 /\ l.col \in 0 .. 32 /\ l.dir \in 0 .. 4
  BY DEF ghostState, locationState
<1>2. /\ ground(sp, <<r, k>>)
      /\ advanceFrom(l) = [row |-> r, col |-> k, dir |-> l.dir]
  BY <1>1, Ahead
<1>3. r \in Int /\ k \in Int
  BY <1>1 DEF dRow, dCol
<1>4. validMoves(s) = {d \in Dirs \ {reversed(l.dir)} :
                         ground(sp, <<r + dRow(d), k + dCol(d)>>)}
  BY <1>2 DEF validMoves, allowed, ground, getNeighborCoords
<1>5. reversed(l.dir) \in 0 .. 4
  BY <1>1, BackAgain
<1> QED BY <1>1, <1>2, <1>3, <1>4, <1>5, WayOut

\* A plan leaves the ghost ready to step onto ground and looking at ground.
LEMMA PlanStands ==
  ASSUME NEW s \in ghostState, ~ isEmpty(s.loc), Stands(s.loc, s.spawning),
         NEW c \in Colors, color = c, NEW t \in planned(s)
  PROVE  /\ t \in ghostState
         /\ t.loc = s.loc /\ t.spawning = s.spawning
         /\ t.frightSteps = s.frightSteps /\ t.eaten = s.eaten
         /\ Stands(t.nextLoc, t.spawning)
         /\ cell(t.nextLoc) = getNeighborCoords(s.loc, s.loc.dir)
         /\ s.loc.dir # none \/ s.trappedSteps = 0 => t.nextLoc.dir # none
<1> DEFINE l == s.loc
           r == l.row + dRow(l.dir)
           k == l.col + dCol(l.dir)
           sp == s.spawning
           n == advanceFrom(l)
<1>1. /\ l \in locationState /\ sp \in BOOLEAN
      /\ l.row \in 0 .. 32 /\ l.col \in 0 .. 32 /\ l.dir \in 0 .. 4
      /\ s.trappedSteps \in 0 .. 32
  BY DEF ghostState, locationState
<1>2. /\ ground(sp, <<r, k>>) /\ n \in locationState
      /\ n = [row |-> r, col |-> k, dir |-> l.dir]
  BY <1>1, Ahead
<1>3. r \in Int /\ k \in Int
  BY <1>1 DEF dRow, dCol
<1>4. \A d \in 0 .. 4 :
        heading(s, d) = [s EXCEPT !.nextLoc = [row |-> r, col |-> k, dir |-> d]]
  BY <1>2 DEF heading
<1>5. \A d \in 0 .. 4 : [row |-> r, col |-> k, dir |-> d] \in locationState
  BY <1>2 DEF locationState
<1>6. \A d \in 0 .. 4 :
        /\ heading(s, d) \in ghostState
        /\ heading(s, d).loc = l /\ heading(s, d).spawning = sp
        /\ heading(s, d).nextLoc = [row |-> r, col |-> k, dir |-> d]
        /\ heading(s, d).trappedSteps = s.trappedSteps
        /\ heading(s, d).frightSteps = s.frightSteps
        /\ heading(s, d).eaten = s.eaten
  BY <1>4, <1>5 DEF ghostState
<1>7. validMoves(s) = {d \in Dirs \ {reversed(l.dir)} :
                         ground(sp, <<r + dRow(d), k + dCol(d)>>)}
  BY WayToGo
<1>8. validMoves(s) # {}
  BY WayToGo
<1>9. CASE s.trappedSteps > 0
  <2>1. t = [heading(s, reversed(l.dir)) EXCEPT !.trappedSteps = @ - 1]
    BY <1>9 DEF planned
  <2>2. /\ reversed(l.dir) \in 0 .. 4
        /\ r + dRow(reversed(l.dir)) = l.row /\ k + dCol(reversed(l.dir)) = l.col
    BY <1>1, BackAgain
  <2>3. /\ t \in ghostState /\ t.loc = l /\ t.spawning = sp
        /\ t.frightSteps = s.frightSteps /\ t.eaten = s.eaten
        /\ t.nextLoc = [row |-> r, col |-> k, dir |-> reversed(l.dir)]
    BY <2>1, <2>2, <1>1, <1>6, <1>9 DEF ghostState
  <2>4. ground(sp, <<l.row, l.col>>)
    BY DEF Stands, cell
  <2>5. l.dir # none => reversed(l.dir) # none
    BY <1>1 DEF reversed, none
  <2>6. Stands(t.nextLoc, sp)
    BY <2>2, <2>3, <2>4, <1>2 DEF Stands, cell, getNeighborCoords
  <2>7. cell(t.nextLoc) = getNeighborCoords(l, l.dir)
    BY <2>3 DEF cell, getNeighborCoords
  <2> QED BY <2>3, <2>5, <2>6, <2>7, <1>1, <1>9
<1>10. CASE s.trappedSteps = 0
  <2>1. PICK d \in validMoves(s) : t = heading(s, d)
    BY <1>8, <1>10 DEF planned, moves, bestMoves
  <2>2. d \in Dirs /\ d \in 0 .. 4 /\ d # none
        /\ ground(sp, <<r + dRow(d), k + dCol(d)>>)
    <3>1. d \in Dirs /\ ground(sp, <<r + dRow(d), k + dCol(d)>>)
      BY <1>7
    <3> QED BY <3>1 DEF Dirs, up, down, left, right, none
  <2>3. /\ t \in ghostState /\ t.loc = l /\ t.spawning = sp
        /\ t.frightSteps = s.frightSteps /\ t.eaten = s.eaten
        /\ t.nextLoc = [row |-> r, col |-> k, dir |-> d]
    BY <2>1, <2>2, <1>6
  <2>4. Stands(t.nextLoc, sp)
    BY <2>2, <2>3, <1>2 DEF Stands, cell, getNeighborCoords
  <2>5. cell(t.nextLoc) = getNeighborCoords(l, l.dir)
    BY <2>3 DEF cell, getNeighborCoords
  <2> QED BY <2>2, <2>3, <2>4, <2>5, <1>8
<1> QED BY <1>1, <1>9, <1>10

-----------------------------------------------------------------------------
(* The fixed positions. *)

LEMMA Spawns ==
  ASSUME NEW c \in Colors
  PROVE  LET l == ghostSpawnLocs[c]
             up_ == [ghostSpawnLocs[IF c = "red" THEN "pink" ELSE c] EXCEPT !.dir = up]
             stare == [l EXCEPT !.dir = IF c = "orange" THEN left ELSE none]
         IN  /\ \A m \in {l, up_, stare} : m \in locationState /\ Stands(m, TRUE)
             /\ l.dir # none /\ up_.dir # none
             /\ ghostTrappedSteps[c] \in 0 .. 32
<1>1. c \in {"red", "pink", "cyan", "orange"}
  BY MazeAssumption
<1>2. /\ <<11, 13>> \in Open /\ <<11, 12>> \in Open
      /\ {<<13, 13>>, <<14, 13>>, <<14, 11>>, <<13, 11>>, <<14, 15>>,
          <<13, 15>>, <<14, 14>>} \subseteq House
      /\ Exit = <<12, 13>>
  BY MazeAssumption DEF House, Exit
<1>3. CASE c = "red"
  BY <1>2, <1>3 DEF ghostSpawnLocs, ghostTrappedSteps, at, locationState, Stands,
     ground, cell, getNeighborCoords, dRow, dCol, up, left, down, right, none
<1>4. CASE c = "pink"
  BY <1>2, <1>4 DEF ghostSpawnLocs, ghostTrappedSteps, at, locationState, Stands,
     ground, cell, getNeighborCoords, dRow, dCol, up, left, down, right, none
<1>5. CASE c = "cyan"
  BY <1>2, <1>5 DEF ghostSpawnLocs, ghostTrappedSteps, at, locationState, Stands,
     ground, cell, getNeighborCoords, dRow, dCol, up, left, down, right, none
<1>6. CASE c = "orange"
  BY <1>2, <1>6 DEF ghostSpawnLocs, ghostTrappedSteps, at, locationState, Stands,
     ground, cell, getNeighborCoords, dRow, dCol, up, left, down, right, none
<1> QED BY <1>1, <1>3, <1>4, <1>5, <1>6

LEMMA NoPosition ==
  emptyLoc \in locationState /\ isEmpty(emptyLoc) /\ ~ collidesWith(emptyLoc, redSpawn)
BY DEF emptyLoc, at, none, locationState, isEmpty, collidesWith

\* What a ghost sees once it has stepped off red's spawn, other than back into
\* the house, is the maze.
LEMMA OffTheDoor ==
  ASSUME NEW l \in locationState, NEW n \in locationState,
         collidesWith(l, redSpawn), l.dir \notin {down, none},
         cell(n) = getNeighborCoords(l, l.dir), Stands(n, TRUE)
  PROVE  Stands(n, FALSE)
<1>1. l.row = 11 /\ l.col = 13 /\ l.dir \in {up, left, right}
  BY MazeAssumption DEF collidesWith, redSpawn, ghostSpawnLocs, at, locationState,
     up, left, down, right, none
<1>2. <<n.row, n.col>> \in {<<10, 13>>, <<11, 12>>, <<11, 14>>}
  BY <1>1 DEF cell, getNeighborCoords, dRow, dCol, up, left, down, right
<1>3. <<n.row, n.col>> \notin House \cup {Exit}
  BY <1>2 DEF House, Exit
<1>4. n.dir \in 0 .. 4
  BY DEF locationState
<1>5. ASSUME n.dir # none
      PROVE  <<n.row + dRow(n.dir), n.col + dCol(n.dir)>> \notin House \cup {Exit}
  <2>1. n.dir \in {up, left, down, right}
    BY <1>4, <1>5 DEF up, left, down, right, none
  <2>2. (n.row = 10 /\ n.col = 13) \/ (n.row = 11 /\ n.col \in {12, 14})
    BY <1>2
  <2> QED BY <2>1, <2>2 DEF House, Exit, dRow, dCol, up, left, down, right
<1> QED BY <1>3, <1>5 DEF Stands, ground, cell, getNeighborCoords

-----------------------------------------------------------------------------
(* The inductive invariant, action by action. *)

LEMMA InvInit == Init => Inv
<1> SUFFICES ASSUME Init PROVE Inv
  OBVIOUS
<1>1. /\ ghostSpawnLocs[color] \in locationState
      /\ Stands(ghostSpawnLocs[color], TRUE)
      /\ ghostSpawnLocs[color].dir # none
      /\ ghostTrappedSteps[color] \in 0 .. 32
  BY Spawns DEF Init
<1>2. TypeOK
  BY <1>1, NoPosition, PlannerAssumption DEF Init, newGhostState, TypeOK
<1>3. Places /\ OneAhead /\ Directed
  BY <1>1, NoPosition DEF Init, newGhostState, Places, OneAhead, Directed
<1> QED BY <1>2, <1>3 DEF Inv

LEMMA UpdateInv == Inv /\ Update => Inv'
<1> SUFFICES ASSUME Inv, Update PROVE Inv'
  OBVIOUS
<1>1. /\ g \in ghostState /\ FrightSteps \in 1 .. 63
      /\ g.loc \in locationState /\ g.nextLoc \in locationState
      /\ g.frightSteps \in 0 .. FrightSteps
  BY PlannerAssumption DEF Inv, TypeOK, ghostState
<1>2. /\ g'.loc = g.nextLoc /\ g'.nextLoc = g.nextLoc
      /\ g'.spawning = (g.spawning /\ ~ (collidesWith(g.loc, redSpawn)
                                           /\ g.loc.dir # down))
      /\ g'.eaten = FALSE /\ g'.trappedSteps = g.trappedSteps
      /\ g' \in ghostState
  <2>1. g' = [g EXCEPT !.spawning = @ /\ ~ (collidesWith(g.loc, redSpawn)
                                              /\ g.loc.dir # down),
                       !.eaten = FALSE,
                       !.frightSteps = IF g.eaten \/ @ = 0 THEN 0 ELSE @ - 1,
                       !.loc = g.nextLoc]
    BY DEF Update, update
  <2>2. (IF g.eaten \/ g.frightSteps = 0 THEN 0 ELSE g.frightSteps - 1)
          \in 0 .. FrightSteps
    BY <1>1
  <2>3. (g.spawning /\ ~ (collidesWith(g.loc, redSpawn) /\ g.loc.dir # down))
          \in BOOLEAN
    OBVIOUS
  <2> QED BY <1>1, <2>1, <2>2, <2>3 DEF ghostState
<1>3. pc' = "plan" /\ halt # "ended" /\ color' = color /\ mode' = mode
      /\ halt' = IF halt = "gameOver" THEN "ended" ELSE "none"
  BY DEF Update
<1>4. TypeOK'
  BY <1>2, <1>3 DEF Inv, TypeOK, ghostState
<1>5. Places'
  <2>1. Stands(g.nextLoc, g.spawning)
    BY DEF Inv, Places
  <2>2. CASE g'.spawning = g.spawning
    BY <1>2, <2>1, <2>2 DEF Places
  <2>3. CASE g'.spawning # g.spawning
    <3>1. /\ g.spawning = TRUE /\ g'.spawning = FALSE
          /\ collidesWith(g.loc, redSpawn) /\ g.loc.dir # down
      BY <1>1, <1>2, <2>3 DEF ghostState
    <3>2. ~ isEmpty(g.loc)
      BY <1>1, <3>1 DEF collidesWith, isEmpty, locationState
    <3>3. g.loc.dir # none
      BY <1>3, <3>2 DEF Inv, Directed
    <3>4. cell(g.nextLoc) = getNeighborCoords(g.loc, g.loc.dir)
      BY <3>2 DEF Inv, OneAhead, Update
    <3>5. Stands(g.nextLoc, FALSE)
      BY <1>1, <2>1, <3>1, <3>3, <3>4, OffTheDoor
    <3> QED BY <1>2, <3>1, <3>5 DEF Places
  <2> QED BY <2>2, <2>3
<1>6. OneAhead'
  BY <1>3 DEF OneAhead
<1>7. Directed'
  BY <1>2, <1>3 DEF Inv, Directed
<1> QED BY <1>4, <1>5, <1>6, <1>7 DEF Inv

LEMMA PlanInv == Inv /\ Plan => Inv'
<1> SUFFICES ASSUME Inv, Plan PROVE Inv'
  OBVIOUS
<1>1. /\ g \in ghostState /\ g' \in planned(g) /\ pc' = "update"
      /\ color' = color /\ color \in Colors /\ mode' = mode /\ halt' = halt
  BY DEF Inv, TypeOK, Plan, ghostState
<1>2. CASE isEmpty(g.loc)
  <2>1. g' = g
    BY <1>1, <1>2 DEF planned
  <2> QED BY <1>1, <1>2, <2>1 DEF Inv, TypeOK, Places, OneAhead, Directed
<1>3. CASE ~ isEmpty(g.loc)
  <2>1. Stands(g.loc, g.spawning)
    BY <1>3 DEF Inv, Places
  <2>2. /\ g' \in ghostState
        /\ g'.loc = g.loc /\ g'.spawning = g.spawning
        /\ Stands(g'.nextLoc, g'.spawning)
        /\ cell(g'.nextLoc) = getNeighborCoords(g.loc, g.loc.dir)
        /\ g.loc.dir # none => g'.nextLoc.dir # none
    BY <1>1, <1>3, <2>1, PlanStands
  <2>3. TypeOK'
    BY <1>1, <2>2 DEF Inv, TypeOK, ghostState
  <2>4. Places'
    BY <2>1, <2>2 DEF Places
  <2>5. OneAhead'
    BY <2>2 DEF OneAhead, cell, getNeighborCoords
  <2>6. Directed'
    BY <1>1, <1>3, <2>2 DEF Inv, Directed
  <2> QED BY <2>3, <2>4, <2>5, <2>6 DEF Inv
<1> QED BY <1>2, <1>3

\* A turn and a fright leave the ghost where it is and its plan as it is.
LEMMA TurnInv ==
  Inv /\ (SwitchMode \/ Frighten \/ Anger \/ UNCHANGED vars) => Inv'
<1> SUFFICES ASSUME Inv, SwitchMode \/ Frighten \/ Anger \/ UNCHANGED vars
             PROVE  Inv'
  OBVIOUS
<1>1. g \in ghostState /\ FrightSteps \in 0 .. FrightSteps
  BY PlannerAssumption DEF Inv, TypeOK, ghostState
<1>2. /\ turn(g) \in ghostState
      /\ turn(g).loc = g.loc /\ turn(g).nextLoc = g.nextLoc
      /\ turn(g).spawning = g.spawning
  BY <1>1 DEF turn, ghostState
<1>3. /\ frighten(g) \in ghostState
      /\ frighten(g).loc = g.loc /\ frighten(g).nextLoc = g.nextLoc
      /\ frighten(g).spawning = g.spawning
  BY <1>1, <1>2 DEF frighten, ghostState
<1>4. /\ g' \in ghostState
      /\ g'.loc = g.loc /\ g'.nextLoc = g.nextLoc /\ g'.spawning = g.spawning
  BY <1>1, <1>2, <1>3 DEF SwitchMode, Frighten, Anger, vars
<1>5. /\ color' = color /\ pc' = pc /\ halt' = halt
      /\ mode' \in {"scatter", "chase"}
  BY DEF Inv, TypeOK, SwitchMode, Frighten, Anger, vars
<1> QED BY <1>4, <1>5 DEF Inv, TypeOK, ghostState, Places, OneAhead, Directed

LEMMA CatchInv == Inv /\ Catch => Inv'
<1> SUFFICES ASSUME Inv, Catch PROVE Inv'
  OBVIOUS
<1> DEFINE u == [ghostSpawnLocs[IF color = "red" THEN "pink" ELSE color]
                   EXCEPT !.dir = up]
<1>1. u \in locationState /\ Stands(u, TRUE) /\ u.dir # none
  BY Spawns DEF Inv, TypeOK
<1> HIDE DEF u
<1>2. g' = [g EXCEPT !.spawning = TRUE, !.eaten = TRUE, !.loc = emptyLoc,
                     !.nextLoc = u]
  BY DEF Catch, respawn, u
<1>3. /\ g' \in ghostState /\ g'.loc = emptyLoc /\ g'.nextLoc = u
      /\ g'.spawning = TRUE
  BY <1>1, <1>2, NoPosition DEF Inv, TypeOK, ghostState
<1>4. color' = color /\ pc' = pc /\ halt' = halt /\ mode' = mode
  BY DEF Catch
<1> QED BY <1>1, <1>3, <1>4, NoPosition
           DEF Inv, TypeOK, ghostState, Places, OneAhead, Directed

LEMMA ResetInv == Inv /\ Reset => Inv'
<1> SUFFICES ASSUME Inv, Reset PROVE Inv'
  OBVIOUS
<1> DEFINE l == ghostSpawnLocs[color]
           stare == [l EXCEPT !.dir = IF color = "orange" THEN left ELSE none]
<1>1. /\ l \in locationState /\ Stands(l, TRUE) /\ l.dir # none
      /\ stare \in locationState /\ Stands(stare, TRUE)
      /\ ghostTrappedSteps[color] \in 0 .. 32
  BY Spawns DEF Inv, TypeOK
<1> HIDE DEF l
<1>2. PICK n \in {l, stare} :
        /\ g' = [g EXCEPT !.spawning = TRUE,
                          !.trappedSteps = ghostTrappedSteps[color],
                          !.frightSteps = 0, !.loc = emptyLoc, !.nextLoc = n]
        /\ n = l \/ halt' = "gameOver"
        /\ halt' \in {"reset", "gameOver"}
  <2>1. g \in [loc : locationState, nextLoc : locationState,
               trappedSteps : 0 .. 32, frightSteps : 0 .. FrightSteps,
               spawning : BOOLEAN, eaten : BOOLEAN]
    BY DEF Inv, TypeOK
  <2>2. reset(color, g) = [g EXCEPT !.spawning = TRUE,
                             !.trappedSteps = ghostTrappedSteps[color],
                             !.frightSteps = 0, !.loc = emptyLoc, !.nextLoc = l]
    BY DEF reset, l
  <2>3. CASE g' = reset(color, g) /\ halt' = "reset"
    BY <2>2, <2>3
  <2>4. CASE /\ g' = [reset(color, g) EXCEPT
                        !.nextLoc.dir = IF color = "orange" THEN left ELSE none]
             /\ halt' = "gameOver"
    BY <2>1, <2>2, <2>4
  <2> QED BY <2>3, <2>4 DEF Reset
<1>3. n \in locationState /\ Stands(n, TRUE)
  BY <1>1
<1>4. /\ g' \in ghostState /\ g'.loc = emptyLoc /\ g'.nextLoc = n
      /\ g'.spawning = TRUE
  <2> HIDE DEF stare
  <2>1. g \in ghostState /\ 0 \in 0 .. FrightSteps
    BY PlannerAssumption DEF Inv, TypeOK, ghostState
  <2> QED BY <1>1, <1>2, <1>3, <2>1, NoPosition DEF ghostState
<1>5. color' = color /\ pc' = pc /\ mode' \in {"scatter", "chase"}
  BY DEF Inv, TypeOK, Reset
<1> QED BY <1>1, <1>2, <1>3, <1>4, <1>5, NoPosition
           DEF Inv, TypeOK, ghostState, Places, OneAhead, Directed

LEMMA RestartInv == Inv /\ Restart => Inv'
<1> SUFFICES ASSUME Inv, Restart PROVE Inv'
  OBVIOUS
<1>1. /\ ghostSpawnLocs[color] \in locationState
      /\ Stands(ghostSpawnLocs[color], TRUE)
      /\ ghostSpawnLocs[color].dir # none
      /\ ghostTrappedSteps[color] \in 0 .. 32
  BY Spawns DEF Inv, TypeOK
<1>2. g' = [loc |-> ghostSpawnLocs[color], nextLoc |-> ghostSpawnLocs[color],
            trappedSteps |-> ghostTrappedSteps[color], frightSteps |-> 0,
            spawning |-> TRUE, eaten |-> FALSE]
  BY NoPosition DEF Restart, update, newGhostState
<1>3. /\ color' = color /\ pc' = "plan" /\ halt' = "none" /\ mode' = "scatter"
  BY DEF Restart
<1>4. 0 \in 0 .. FrightSteps
  BY PlannerAssumption
<1>5. TypeOK'
  BY <1>1, <1>2, <1>3, <1>4 DEF Inv, TypeOK
<1>6. Places' /\ OneAhead' /\ Directed'
  BY <1>1, <1>2, <1>3 DEF Places, OneAhead, Directed
<1> QED BY <1>5, <1>6 DEF Inv

\* The strengthening: a ghost always stands on ground it may stand on, and where
\* it goes next is one step ahead of it, in the direction it will face.
THEOREM Invariance == Spec => []Inv
<1>1. Inv /\ [Next]_vars => Inv'
  BY UpdateInv, PlanInv, TurnInv, CatchInv, ResetInv, RestartInv
     DEF Next, Disturbance
<1> QED BY <1>1, InvInit, PTL DEF Spec

-----------------------------------------------------------------------------
(* The properties of the runs. *)

\* The state of a ghost keeps to the widths and limits the frame relies on.
THEOREM TypeCorrect == Spec => []TypeOK
<1>1. Inv => TypeOK
  BY DEF Inv
<1> QED BY <1>1, Invariance, PTL

\* A ghost is never inside a wall, nor back in the house once it has left it,
\* whatever turns it around in the door.
THEOREM OnGround == Spec => []GhostOnGround
<1>1. Inv => GhostOnGround
  BY DEF Inv, Places, Stands, ground, allowed, GhostOnGround, onGround
<1> QED BY <1>1, Invariance, PTL

\* No ghost is ever "surrounded by all walls" when it plans.
THEOREM AlwaysAMove == Spec => []NeverCornered
<1>1. Inv => NeverCornered
  BY WayToGo DEF Inv, TypeOK, ghostState, Places, NeverCornered
<1> QED BY <1>1, Invariance, PTL

\* Four bytes are enough to tell the bot everything about a ghost.
THEOREM FrameTells == Spec => []FrameTellsGhost
<1>1. ASSUME NEW d \in 0 .. 4, NEW n \in 0 .. 32
      PROVE  /\ coordinate(byte(64 * dRow(d) + n)) = n
             /\ delta(byte(64 * dRow(d) + n)) = dRow(d)
             /\ coordinate(byte(64 * dCol(d) + n)) = n
             /\ delta(byte(64 * dCol(d) + n)) = dCol(d)
  <2>1. \A x \in {-1, 0, 1} : coordinate(byte(64 * x + n)) = n
                                /\ delta(byte(64 * x + n)) = x
    BY DEF coordinate, byte, delta, signed
  <2>2. dRow(d) \in {-1, 0, 1} /\ dCol(d) \in {-1, 0, 1}
    BY DEF dRow, dCol
  <2> QED BY <2>1, <2>2
<1>2. ASSUME NEW n \in 0 .. 63, NEW f \in BOOLEAN
      PROVE  LET b == n + (IF f THEN 128 ELSE 0)
             IN  b % 64 = n /\ (b \div 128 = 1) = f
  OBVIOUS
<1>3. TypeOK => FrameTellsGhost
  <2> SUFFICES ASSUME TypeOK PROVE FrameTellsGhost
    OBVIOUS
  <2>1. /\ g.loc.row \in 0 .. 32 /\ g.loc.col \in 0 .. 32 /\ g.loc.dir \in 0 .. 4
        /\ g.frightSteps \in 0 .. 63 /\ g.trappedSteps \in 0 .. 63
        /\ g.spawning \in BOOLEAN /\ g.eaten \in BOOLEAN
    BY PlannerAssumption DEF TypeOK, locationState
  <2>2. serGhost(g) = <<byte(64 * dRow(g.loc.dir) + g.loc.row),
                        byte(64 * dCol(g.loc.dir) + g.loc.col),
                        g.frightSteps + (IF g.spawning THEN 128 ELSE 0),
                        g.trappedSteps + (IF g.eaten THEN 128 ELSE 0)>>
    BY DEF serGhost, serLocation
  <2> DEFINE b == serGhost(g)
  <2>3. /\ coordinate(b[1]) = g.loc.row /\ delta(b[1]) = dRow(g.loc.dir)
        /\ coordinate(b[2]) = g.loc.col /\ delta(b[2]) = dCol(g.loc.dir)
    BY <1>1, <2>1, <2>2
  <2>4. /\ b[3] % 64 = g.frightSteps /\ (b[3] \div 128 = 1) = g.spawning
        /\ b[4] % 64 = g.trappedSteps /\ (b[4] \div 128 = 1) = g.eaten
    <3>1. /\ b[3] = g.frightSteps + (IF g.spawning THEN 128 ELSE 0)
          /\ b[4] = g.trappedSteps + (IF g.eaten THEN 128 ELSE 0)
      BY <2>2
    <3> HIDE DEF b
    <3> QED BY <1>2, <2>1, <3>1
  <2> HIDE DEF b
  <2>5. readGhost(b) = [row |-> g.loc.row, col |-> g.loc.col,
                        rowDir |-> dRow(g.loc.dir), colDir |-> dCol(g.loc.dir),
                        frightSteps |-> g.frightSteps, spawning |-> g.spawning,
                        trappedSteps |-> g.trappedSteps, eaten |-> g.eaten]
    BY <2>3, <2>4, Zenon DEF readGhost
  <2> QED BY <2>5 DEF FrameTellsGhost, b
<1> QED BY <1>3, TypeCorrect, PTL

-----------------------------------------------------------------------------
(* The planner does what the rules say. *)

\* Where the rules send a ghost.
LEMMA RuledSpawns ==
  ASSUME NEW c \in Colors
  PROVE  LET home == ghostSpawnLocs[IF c = "red" THEN "pink" ELSE c]
         IN  /\ DOMAIN ghostSpawnLocs = {"red", "pink", "cyan", "orange"}
             /\ c \in DOMAIN ghostSpawnLocs
             /\ ghostSpawnLocs[c] \in locationState /\ home \in locationState
             /\ ghostSpawnLocs[c].dir # none
             /\ cell([home EXCEPT !.dir = up]) = cell(home)
             /\ [home EXCEPT !.dir = up].dir = up
<1>1. DOMAIN ghostSpawnLocs = {"red", "pink", "cyan", "orange"}
  BY DEF ghostSpawnLocs
<1>2. c \in DOMAIN ghostSpawnLocs
  BY <1>1, MazeAssumption
<1>3. \A d \in DOMAIN ghostSpawnLocs :
        ghostSpawnLocs[d] \in locationState /\ ghostSpawnLocs[d].dir # none
  BY <1>1 DEF ghostSpawnLocs, at, locationState, up, left, down, none
<1>4. ASSUME NEW l \in locationState
      PROVE  cell([l EXCEPT !.dir = up]) = cell(l) /\ [l EXCEPT !.dir = up].dir = up
  <2>1. /\ [l EXCEPT !.dir = up].row = l.row /\ [l EXCEPT !.dir = up].col = l.col
        /\ [l EXCEPT !.dir = up].dir = up
    BY DEF locationState
  <2> QED BY <2>1 DEF cell
<1>5. (IF c = "red" THEN "pink" ELSE c) \in DOMAIN ghostSpawnLocs
  BY <1>1, <1>2
<1> QED BY <1>1, <1>2, <1>3, <1>4, <1>5

\* A ghost that is off the maze is so for the rules.
LEMMA OffMaze == \A l \in locationState : isEmpty(l) <=> cell(l) = cell(emptyLoc)
BY DEF isEmpty, cell, emptyLoc, at, locationState

LEMMA UpdateFollows ==
  ASSUME NEW s \in ghostState
  PROVE  ghost(update(s)) = Rules!update(ghost(s))
<1>1. /\ update(s).loc = s.nextLoc /\ update(s).nextLoc = s.nextLoc
      /\ update(s).eaten = FALSE
      /\ update(s).frightSteps = IF s.eaten \/ s.frightSteps = 0 THEN 0
                                ELSE s.frightSteps - 1
  BY DEF update, ghostState
<1> QED BY <1>1 DEF ghost, Rules!update, Rules!dec

LEMMA NewFollows ==
  ASSUME NEW c \in Colors
  PROVE  /\ newGhostState(c) \in ghostState
         /\ ghost(newGhostState(c)) = Rules!newGhostState(c)
<1>1. ghostTrappedSteps[c] \in 0 .. 32 /\ ghostSpawnLocs[c] \in locationState
  BY Spawns
<1>2. newGhostState(c) \in ghostState
  BY <1>1, NoPosition, PlannerAssumption DEF newGhostState, ghostState
<1>3. ghost(newGhostState(c)) = Rules!newGhostState(c)
  BY <1>1, RuledSpawns DEF newGhostState, ghost, Rules!newGhostState
<1> QED BY <1>2, <1>3

\* Between an update and its plan a ghost's next place is still the one it has
\* just reached, its direction included: only a plan gives it another, and what
\* sends it home takes it off the maze.
Arrived == pc = "plan" /\ ~ isEmpty(g.loc) => g.nextLoc = g.loc

LEMMA ArrivedInductive ==
  /\ Init => Arrived
  /\ Inv /\ Arrived /\ [Next]_vars => Arrived'
<1>1. Init => Arrived
  BY DEF Init, Arrived
<1> SUFFICES ASSUME Inv, Arrived, [Next]_vars PROVE Arrived'
  BY <1>1
<1>2. g \in ghostState /\ color \in Colors
  BY DEF Inv, TypeOK, ghostState
<1>3. CASE Update
  <2>1. g'.loc = g.nextLoc /\ g'.nextLoc = g.nextLoc
    BY <1>2, <1>3 DEF Update, update, ghostState
  <2> QED BY <2>1 DEF Arrived
<1>4. CASE Plan
  BY <1>4 DEF Plan, Arrived
<1>5. CASE SwitchMode \/ Frighten \/ Anger \/ UNCHANGED vars
  <2>1. g'.loc = g.loc /\ g'.nextLoc = g.nextLoc
    BY <1>2, <1>5 DEF SwitchMode, Frighten, Anger, vars, turn, frighten, ghostState
  <2>2. pc' = pc
    BY <1>5 DEF SwitchMode, Frighten, Anger, vars
  <2> QED BY <2>1, <2>2 DEF Arrived
<1>6. CASE Catch
  <2>1. g'.loc = emptyLoc
    BY <1>2, <1>6 DEF Catch, respawn, ghostState
  <2> QED BY <2>1, NoPosition DEF Arrived
<1>7. CASE Reset
  <2>1. ghostSpawnLocs[color] \in locationState
    BY <1>2, Spawns
  <2>2. g'.loc = emptyLoc
    BY <1>2, <1>7, <2>1 DEF Reset, reset, ghostState, locationState
  <2> QED BY <2>2, NoPosition DEF Arrived
<1>8. CASE Restart
  <2>1. newGhostState(color) \in ghostState
    BY <1>2, NewFollows
  <2>2. g'.loc = newGhostState(color).nextLoc
        /\ g'.nextLoc = newGhostState(color).nextLoc
    BY <1>8, <2>1 DEF Restart, update, ghostState
  <2> QED BY <2>2 DEF Arrived
<1> QED BY <1>3, <1>4, <1>5, <1>6, <1>7, <1>8 DEF Next, Disturbance

LEMMA PlanFollows ==
  Inv /\ Arrived /\ Plan => ghost(g') \in Rules!planned(ghost(g))
<1> SUFFICES ASSUME Inv, Arrived, Plan
             PROVE  ghost(g') \in Rules!planned(ghost(g))
  OBVIOUS
<1>1. /\ g \in ghostState /\ color \in Colors
      /\ g.loc \in locationState /\ g.spawning \in BOOLEAN
      /\ g.loc.row \in 0 .. 32 /\ g.loc.col \in 0 .. 32 /\ g.loc.dir \in 0 .. 4
  BY DEF Inv, TypeOK, ghostState, locationState
<1>2. CASE isEmpty(g.loc)
  <2>1. g' = g
    BY <1>2 DEF Plan, planned
  <2>2. Rules!planned(ghost(g)) = {ghost(g)}
    BY <1>1, <1>2, OffMaze DEF Rules!planned, ghost
  <2> QED BY <2>1, <2>2
<1>3. CASE ~ isEmpty(g.loc)
  <2>1. Stands(g.loc, g.spawning)
    BY <1>3 DEF Inv, Places
  <2>2. /\ g' \in ghostState
        /\ g'.loc = g.loc /\ g'.spawning = g.spawning
        /\ g'.frightSteps = g.frightSteps /\ g'.eaten = g.eaten
        /\ Stands(g'.nextLoc, g'.spawning)
        /\ cell(g'.nextLoc) = getNeighborCoords(g.loc, g.loc.dir)
        /\ g.loc.dir # none => g'.nextLoc.dir # none
    BY <1>1, <1>3, <2>1, PlanStands DEF Plan
  <2>3. /\ cell(g.loc) \in Ground /\ cell(g'.nextLoc) \in Ground
        /\ cell(g.loc) # cell(emptyLoc)
    BY <1>1, <1>3, <2>1, <2>2, OffMaze DEF Stands, ground, Ground
  <2>4. ghost(g).staring = (g.loc.dir = none)
    BY <1>3 DEF Arrived, Plan, ghost
  <2>5. CASE g.loc.dir = none
    <3>1. cell(g'.nextLoc) = cell(g.loc)
      BY <1>1, <2>2, <2>5
         DEF cell, getNeighborCoords, dRow, dCol, none, up, left, down, right
    <3>2. ghost(g') = [ghost(g) EXCEPT !.nextLoc = cell(g.loc),
                                       !.staring = (g'.nextLoc.dir = none)]
      <4>1. PICK s \in BOOLEAN : s = (g'.nextLoc.dir = none)
        OBVIOUS
      <4> DEFINE seen == [loc |-> cell(g.loc), nextLoc |-> cell(g.loc),
                          frightSteps |-> g.frightSteps, eaten |-> g.eaten,
                          staring |-> s]
      <4>2. ghost(g') = seen
        BY <2>2, <3>1, <4>1 DEF ghost
      <4> DEFINE still == [loc |-> cell(g.loc), nextLoc |-> cell(g.loc),
                           frightSteps |-> g.frightSteps, eaten |-> g.eaten,
                           staring |-> g.nextLoc.dir = none]
      <4>3. still = [ghost(g) EXCEPT !.nextLoc = cell(g.loc)]
        BY DEF ghost
      <4>4. seen = [still EXCEPT !.staring = s]
        OBVIOUS
      <4> HIDE DEF seen, still
      <4> QED BY <4>1, <4>2, <4>3, <4>4
    <3>3. Rules!planned(ghost(g)) =
            {[ghost(g) EXCEPT !.nextLoc = cell(g.loc), !.staring = s] : s \in BOOLEAN}
      BY <2>3, <2>4, <2>5 DEF Rules!planned, ghost
    <3> QED BY <3>2, <3>3
  <2>6. CASE g.loc.dir # none
    <3>1. g.loc.dir \in Dirs
      BY <1>1, <2>6 DEF Dirs, none, up, left, down, right
    <3>2. cell(g'.nextLoc) \in adjacent(cell(g.loc)) \cap Ground
      BY <2>2, <2>3, <3>1 DEF adjacent, cell, getNeighborCoords
    <3>3. ghost(g') = [ghost(g) EXCEPT !.nextLoc = cell(g'.nextLoc)]
      BY <2>2, <2>4, <2>6 DEF ghost
    <3>4. Rules!planned(ghost(g)) =
            {[ghost(g) EXCEPT !.nextLoc = n] : n \in adjacent(cell(g.loc)) \cap Ground}
      BY <2>3, <2>4, <2>6 DEF Rules!planned, ghost
    <3> QED BY <3>2, <3>3, <3>4
  <2> QED BY <2>5, <2>6
<1> QED BY <1>2, <1>3

LEMMA DisturbanceFollows ==
  ASSUME Inv
  PROVE  /\ Frighten => ghost(g') = Rules!frighten(ghost(g))
         /\ Catch => ghost(g') = Rules!respawn(color, ghost(g))
         /\ Reset => ghost(g') = IF halt' = "gameOver"
                                 THEN Rules!stare(color, Rules!reset(color, ghost(g)))
                                 ELSE Rules!reset(color, ghost(g))
         /\ SwitchMode \/ Anger => ghost(g') = ghost(g)
<1>1. g \in ghostState /\ color \in Colors
  BY DEF Inv, TypeOK, ghostState
<1>2. /\ turn(g).loc = g.loc /\ turn(g).nextLoc = g.nextLoc
      /\ turn(g).frightSteps = g.frightSteps /\ turn(g).eaten = g.eaten
      /\ frighten(g).loc = g.loc /\ frighten(g).nextLoc = g.nextLoc
      /\ frighten(g).frightSteps = FrightSteps /\ frighten(g).eaten = g.eaten
  BY <1>1 DEF turn, frighten, ghostState
<1>3. Frighten => ghost(g') = Rules!frighten(ghost(g))
  BY <1>2 DEF Frighten, ghost, Rules!frighten
<1>4. SwitchMode \/ Anger => ghost(g') = ghost(g)
  BY <1>2 DEF SwitchMode, Anger, ghost
<1>5. ASSUME Catch PROVE ghost(g') = Rules!respawn(color, ghost(g))
  <2> DEFINE home == IF color = "red" THEN "pink" ELSE color
  <2>1. /\ g'.loc = emptyLoc /\ g'.frightSteps = g.frightSteps
        /\ g'.eaten = TRUE
        /\ g'.nextLoc = [ghostSpawnLocs[home] EXCEPT !.dir = up]
    BY <1>1, <1>5 DEF Catch, respawn, ghostState
  <2>2. /\ cell(g'.nextLoc) = cell(ghostSpawnLocs[home])
        /\ color \in DOMAIN ghostSpawnLocs /\ home \in DOMAIN ghostSpawnLocs
        /\ g'.nextLoc.dir # none
    BY <1>1, <2>1, RuledSpawns DEF up, none
  <2> QED BY <2>1, <2>2 DEF ghost, Rules!respawn
<1>6. ASSUME Reset
      PROVE  ghost(g') = IF halt' = "gameOver"
                         THEN Rules!stare(color, Rules!reset(color, ghost(g)))
                         ELSE Rules!reset(color, ghost(g))
  <2> DEFINE r == reset(color, g)
  <2>1. /\ ghostSpawnLocs[color] \in locationState /\ ghostSpawnLocs[color].dir # none
        /\ color \in DOMAIN ghostSpawnLocs
    BY <1>1, RuledSpawns
  <2>2. /\ r \in ghostState
        /\ r.loc = emptyLoc /\ r.frightSteps = 0 /\ r.eaten = g.eaten
        /\ r.nextLoc = ghostSpawnLocs[color]
    <3>1. ghostTrappedSteps[color] \in 0 .. 32
      BY <1>1, Spawns
    <3>2. 0 \in 0 .. FrightSteps
      BY PlannerAssumption
    <3> QED BY <1>1, <2>1, <3>1, <3>2, NoPosition DEF reset, ghostState
  <2>3. ghost(r) = Rules!reset(color, ghost(g))
    BY <2>1, <2>2 DEF ghost, Rules!reset
  <2>4. CASE g' = r /\ halt' = "reset"
    BY <2>3, <2>4
  <2>5. CASE /\ g' = [r EXCEPT
                        !.nextLoc.dir = IF color = "orange" THEN left ELSE none]
             /\ halt' = "gameOver"
    <3> HIDE DEF r
    <3>1. r \in ghostState /\ r.nextLoc \in locationState
      BY <2>1, <2>2
    <3>2. /\ g'.loc = r.loc /\ g'.frightSteps = r.frightSteps
          /\ g'.eaten = r.eaten
          /\ g'.nextLoc.row = r.nextLoc.row /\ g'.nextLoc.col = r.nextLoc.col
          /\ g'.nextLoc.dir = IF color = "orange" THEN left ELSE none
      BY <2>5, <3>1 DEF ghostState, locationState
    <3>3. (g'.nextLoc.dir = none) = (color # "orange")
      BY <3>2 DEF left, none
    <3>4. ghost(g') = [ghost(r) EXCEPT !.staring = (color # "orange")]
      BY <3>2, <3>3 DEF ghost, cell
    <3> QED BY <2>3, <2>5, <3>4 DEF Rules!stare
  <2> QED BY <1>6, <2>4, <2>5 DEF Reset
<1> QED BY <1>3, <1>4, <1>5, <1>6

\* The ghosts of the rules are an abstraction of the planned ones, in every maze
\* without dead ends: whatever a ghost aims at, wherever it is turned around, an
\* operation on it has the effect that the rules ascribe to it, and a plan leads
\* to a cell beside its own, unless the ghost was reset when no lives were left.
THEOREM PlannerFollowsRules == Spec => FollowsRules
<1> DEFINE Step(a, b) ==
             \/ Update /\ b = Rules!update(a)
             \/ Plan /\ b \in Rules!planned(a)
             \/ Frighten /\ b = Rules!frighten(a)
             \/ Catch /\ b = Rules!respawn(color, a)
             \/ Reset /\ b = IF halt' = "gameOver"
                            THEN Rules!stare(color, Rules!reset(color, a))
                            ELSE Rules!reset(color, a)
             \/ Restart /\ b = Rules!update(Rules!newGhostState(color))
             \/ (SwitchMode \/ Anger) /\ b = a
<1>1. Init => ghost(g) = Rules!newGhostState(color)
  BY NewFollows DEF Init
<1>2. ASSUME Inv, Arrived, Next PROVE Step(ghost(g), ghost(g'))
  <2>1. g \in ghostState /\ color \in Colors
    BY <1>2 DEF Inv, TypeOK, ghostState
  <2>2. CASE Update
    BY <2>1, <2>2, UpdateFollows DEF Update
  <2>3. CASE Plan
    BY <1>2, <2>3, PlanFollows
  <2>4. CASE Frighten \/ Catch \/ Reset \/ SwitchMode \/ Anger
    BY <1>2, <2>4, DisturbanceFollows
  <2>5. CASE Restart
    BY <2>1, <2>5, NewFollows, UpdateFollows DEF Restart
  <2> QED BY <1>2, <2>2, <2>3, <2>4, <2>5 DEF Next, Disturbance
<1>3. Inv /\ Arrived /\ [Next]_vars => [Step(ghost(g), ghost(g'))]_vars
  BY <1>2
<1>4. Inv /\ [Next]_vars => Inv'
  BY UpdateInv, PlanInv, TurnInv, CatchInv, ResetInv, RestartInv
     DEF Next, Disturbance
<1> QED BY <1>1, <1>3, <1>4, InvInit, ArrivedInductive, PTL
        DEF Spec, FollowsRules

\* What the theorems about the rules assume of the ghosts' move graph and spawn
\* points holds of the maze of the planner.
THEOREM MazeOfTheRules ==
  LET Spawn == [c \in DOMAIN ghostSpawnLocs |-> cell(ghostSpawnLocs[c])]
      Moves == [a \in Ground |-> adjacent(a) \cap Ground]
  IN  /\ cell(emptyLoc) \notin Ground
      /\ Spawn \in [DOMAIN ghostSpawnLocs -> Ground]
      /\ Moves \in [Ground -> (SUBSET Ground) \ {{}}]
<1>1. cell(emptyLoc) \notin Ground
  BY MazeAssumption DEF Ground, House, Exit, cell, emptyLoc, at, mazeRows, mazeCols
<1>2. \A c \in DOMAIN ghostSpawnLocs : cell(ghostSpawnLocs[c]) \in Ground
  BY MazeAssumption
     DEF ghostSpawnLocs, Ground, House, cell, at, up, left, down
<1>3. ASSUME NEW a \in Ground PROVE adjacent(a) \cap Ground # {}
  <2>1. a \in Int \X Int /\ ground(TRUE, a)
    BY MazeAssumption DEF Ground, House, Exit, ground, mazeRows, mazeCols
  <2>2. PICK r \in Int, c \in Int : a = <<r, c>>
    BY <2>1
  <2>3. PICK d \in Dirs : ground(TRUE, <<r + dRow(d), c + dCol(d)>>)
    <3>1. TRUE \in BOOLEAN /\ none \in 0 .. 4
      BY DEF none
    <3> QED BY <2>1, <2>2, <3>1, WayOut
  <2>4. <<r + dRow(d), c + dCol(d)>> \in adjacent(a) \cap Ground
    BY <2>2, <2>3 DEF adjacent, ground, Ground
  <2> QED BY <2>4
<1> QED BY <1>1, <1>2, <1>3
=============================================================================
