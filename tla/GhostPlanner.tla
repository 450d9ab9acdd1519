---------------------------- MODULE GhostPlanner ----------------------------
(***************************************************************************)
(* One ghost in the maze (ghost_state.go, ghost_helpers.go): how it leaves *)
(* the ghost house, how it chooses its next cell, and what the rest of the *)
(* game does to it meanwhile.  An update of the engine moves the ghost and *)
(* then, after the collisions and the step events, plans its next move;    *)
(* between two updates the players' commands may frighten it, catch it or  *)
(* end the life.  The four planners run concurrently, but each writes its  *)
(* own plan only and reads positions no planner writes.                    *)
(***************************************************************************)
EXTENDS Locations

CONSTANTS
  Colors,          \* the colors of the ghosts considered
  Open,            \* the cells of initWalls that are not walls
  Pacmans,         \* positions of Pacman the ghosts may aim at
  Reds,            \* positions of the red ghost cyan may aim around
  FrightSteps      \* ghostFrightSteps

House == (13 .. 14) \X (11 .. 15)
Exit == <<12, 13>>

ghostSpawnLocs ==
  [c \in {"red", "pink", "cyan", "orange"} |->
     CASE c = "red" -> at(11, 13, left)
       [] c = "pink" -> at(13, 13, down)
       [] c = "cyan" -> at(14, 11, up)
       [] c = "orange" -> at(14, 15, up)]

ghostScatterTargets ==
  [c \in {"red", "pink", "cyan", "orange"} |->
     CASE c = "red" -> <<-3, 25>>
       [] c = "pink" -> <<-3, 2>>
       [] c = "cyan" -> <<31, 27>>
       [] c = "orange" -> <<31, 0>>]

ghostTrappedSteps ==
  [c \in {"red", "pink", "cyan", "orange"} |->
     CASE c = "red" -> 0 [] c = "pink" -> 5
       [] c = "cyan" -> 16 [] c = "orange" -> 32]

redSpawn == ghostSpawnLocs["red"]

\* The maze: no dead ends, and the house opens only on red's spawn.
ASSUME MazeAssumption ==
  /\ Colors \subseteq {"red", "pink", "cyan", "orange"}
  /\ Open \subseteq (0 .. mazeRows - 1) \X (0 .. mazeCols - 1)
  /\ Open \cap (House \cup {Exit}) = {}
  /\ {<<11, 12>>, <<11, 13>>, <<11, 14>>} \subseteq Open
  /\ \A c \in Open : \A back \in Dirs : \E d \in Dirs \ {back} :
       <<c[1] + dRow(d), c[2] + dCol(d)>> \in Open

ASSUME PlannerAssumption ==
  /\ Pacmans \subseteq [row : 0 .. 32, col : 0 .. 32, dir : 0 .. 4]
  /\ Reds \subseteq (0 .. 32) \X (0 .. 32)
  /\ FrightSteps \in 1 .. 63

VARIABLES
  color,
  g,       \* the ghostState
  mode,    \* the last unpaused mode
  pc,      \* what the engine does next with the ghost, "update" or "plan"
  halt     \* a reset that the next update will turn into a pause

vars == <<color, g, mode, pc, halt>>

newGhostState(c) ==
  [loc |-> emptyLoc, nextLoc |-> ghostSpawnLocs[c],
   trappedSteps |-> ghostTrappedSteps[c], frightSteps |-> 0,
   spawning |-> TRUE, eaten |-> FALSE]

Init ==
  /\ color \in Colors
  /\ g = newGhostState(color)
  /\ mode = "scatter" /\ pc = "update" /\ halt = "none"

-----------------------------------------------------------------------------
(* The ghost's own operations. *)

\* Mutant of reset: the ghost is not marked as spawning.
resetSpawned(c, s) ==
  [s EXCEPT !.trappedSteps = ghostTrappedSteps[c], !.frightSteps = 0,
            !.loc = emptyLoc, !.nextLoc = ghostSpawnLocs[c]]

reset(c, s) ==
  [s EXCEPT !.spawning = TRUE, !.trappedSteps = ghostTrappedSteps[c],
            !.frightSteps = 0, !.loc = emptyLoc, !.nextLoc = ghostSpawnLocs[c]]

\* Mutant of respawn: red comes back outside the house as well.
respawnAtSpawn(c, s) ==
  [s EXCEPT !.spawning = TRUE, !.eaten = TRUE, !.loc = emptyLoc,
            !.nextLoc = [ghostSpawnLocs[c] EXCEPT !.dir = up]]

respawn(c, s) ==
  [s EXCEPT !.spawning = TRUE, !.eaten = TRUE, !.loc = emptyLoc,
            !.nextLoc = [ghostSpawnLocs[IF c = "red" THEN "pink" ELSE c]
                           EXCEPT !.dir = up]]

\* Mutants of update: the fright is counted down below zero; a ghost at the
\* door has left, whichever way it looks.
updateBelowZero(s) ==
  [s EXCEPT !.spawning = @ /\ ~ (collidesWith(s.loc, redSpawn)
                                   /\ s.loc.dir # down),
            !.eaten = FALSE,
            !.frightSteps = IF s.eaten THEN 0 ELSE @ - 1,
            !.loc = s.nextLoc]

updateAtDoor(s) ==
  [s EXCEPT !.spawning = @ /\ ~ collidesWith(s.loc, redSpawn),
            !.eaten = FALSE,
            !.frightSteps = IF s.eaten \/ @ = 0 THEN 0 ELSE @ - 1,
            !.loc = s.nextLoc]

update(s) ==
  [s EXCEPT !.spawning = @ /\ ~ (collidesWith(s.loc, redSpawn)
                                   /\ s.loc.dir # down),
            !.eaten = FALSE,
            !.frightSteps = IF s.eaten \/ @ = 0 THEN 0 ELSE @ - 1,
            !.loc = s.nextLoc]

\* One iteration of frightenAllGhosts and of reverseAllGhosts.
turn(s) == [s EXCEPT !.trappedSteps = IF @ = 0 THEN 1 ELSE @]

frighten(s) == [turn(s) EXCEPT !.frightSteps = FrightSteps]

-----------------------------------------------------------------------------
(* Where the ghost aims. *)

\* getChaseTarget; cyan mirrors the red ghost in a cell ahead of Pacman, and
\* orange, once it is near, heads for its corner.
getChaseTarget(s, pacman, red) ==
  CASE color = "red" -> cell(pacman)
    [] color = "pink" -> getAheadCoords(pacman, 4)
    [] color = "cyan" -> LET pivot == getAheadCoords(pacman, 2)
                         IN  <<2 * pivot[1] - red[1], 2 * pivot[2] - red[2]>>
    [] color = "orange" -> IF distSq(cell(s.loc), cell(pacman)) >= 64
                           THEN cell(pacman) ELSE ghostScatterTargets[color]

leaving(s) ==
  /\ s.spawning
  /\ ~ collidesWith(s.loc, redSpawn) /\ ~ collidesWith(advanceFrom(s.loc), redSpawn)

\* Mutants of target: a spawning ghost hunts; a corner's row and column are
\* swapped.
targetHunting(s, pacman, red) ==
  IF mode = "chase" THEN getChaseTarget(s, pacman, red)
  ELSE ghostScatterTargets[color]

targetSwapped(s, pacman, red) ==
  IF leaving(s) THEN cell(redSpawn)
  ELSE IF mode = "chase" THEN getChaseTarget(s, pacman, red)
  ELSE <<ghostScatterTargets[color][2], ghostScatterTargets[color][1]>>

target(s, pacman, red) ==
  IF leaving(s) THEN cell(redSpawn)
  ELSE IF mode = "chase" THEN getChaseTarget(s, pacman, red)
  ELSE ghostScatterTargets[color]

-----------------------------------------------------------------------------
(* The plan. *)

allowed(s, c) == c \in Open \/ (s.spawning /\ c \in House \cup {Exit})

\* From the cell a ghost is about to enter, every way but back.
validMoves(s) ==
  LET n == advanceFrom(s.loc) IN
  {d \in Dirs \ {reversed(n.dir)} : allowed(s, getNeighborCoords(n, d))}

\* The valid moves that end closest to the target, the first in case of a tie.
bestMoves(s, t) ==
  LET n == advanceFrom(s.loc)
      dist(d) == distSq(getNeighborCoords(n, d), t)
  IN  {d \in validMoves(s) : \A e \in validMoves(s) \ {d} :
         dist(d) < dist(e) \/ (dist(d) = dist(e) /\ d < e)}

\* A ghost that stays frightened for another step moves at random.
moves(s, t) == IF s.frightSteps > 1 THEN validMoves(s) ELSE bestMoves(s, t)

heading(s, d) == [s EXCEPT !.nextLoc = [advanceFrom(s.loc) EXCEPT !.dir = d]]

\* The outcomes of plan().
planned(s) ==
  IF isEmpty(s.loc) THEN {s}
  ELSE IF s.trappedSteps > 0
  THEN {[heading(s, reversed(s.loc.dir)) EXCEPT !.trappedSteps = @ - 1]}
  ELSE IF validMoves(s) = {} THEN {heading(s, s.loc.dir)}
  ELSE {heading(s, d) : d \in UNION {moves(s, target(s, p, r)) :
                                       p \in Pacmans, r \in Reds}}

-----------------------------------------------------------------------------
(* The engine's iteration and what happens to the ghost. *)

Update ==
  /\ pc = "update" /\ halt # "ended"
  /\ g' = update(g)
  /\ halt' = IF halt = "gameOver" THEN "ended" ELSE "none"
  /\ pc' = "plan"
  /\ UNCHANGED <<color, mode>>

Plan ==
  /\ pc = "plan"
  /\ g' \in planned(g)
  /\ pc' = "update"
  /\ UNCHANGED <<color, mode, halt>>

\* handleStepEvents when the mode is over.
SwitchMode ==
  /\ pc = "plan"
  /\ mode' = IF mode = "chase" THEN "scatter" ELSE "chase"
  /\ g' = turn(g)
  /\ UNCHANGED <<color, pc, halt>>

\* A power pellet, and the pellet that makes the ghosts angry.
Frighten ==
  /\ pc = "update" /\ halt = "none"
  /\ g' = frighten(g)
  /\ UNCHANGED <<color, mode, pc, halt>>

Anger ==
  /\ pc = "update" /\ halt = "none"
  /\ mode' = "chase"
  /\ UNCHANGED <<color, g, pc, halt>>

\* Pacman is on the ghost's cell, in an update or in a command.
Catch ==
  /\ halt = "none"
  /\ cell(g.loc) \in Open /\ g.frightSteps > 0 /\ ~ g.eaten
  /\ g' = respawn(color, g)
  /\ UNCHANGED <<color, mode, pc, halt>>

\* A death or a cleared level; with no lives left the ghosts stare at the
\* player, all but orange, and the game ends with the next update.
Reset ==
  /\ halt = "none"
  /\ mode' \in {mode, "scatter"}
  /\ \/ g' = reset(color, g) /\ halt' = "reset"
     \/ /\ g' = [reset(color, g) EXCEPT
                   !.nextLoc.dir = IF color = "orange" THEN left ELSE none]
        /\ halt' = "gameOver"
  /\ UNCHANGED <<color, pc>>

Restart ==
  /\ pc = "update"
  /\ g' = update(newGhostState(color))
  /\ mode' = "scatter" /\ pc' = "plan" /\ halt' = "none"
  /\ UNCHANGED color

Disturbance == SwitchMode \/ Frighten \/ Anger \/ Catch \/ Reset \/ Restart

Next == Update \/ Plan \/ Disturbance

\* The ticker drives the updates of a game that is not over.
Fairness == WF_vars(Update) /\ WF_vars(Plan)

Spec == Init /\ [][Next]_vars

FairSpec == Spec /\ Fairness

-----------------------------------------------------------------------------
(* The frame. *)

\* Mutant of serGhost: the spawning flag is left out.
serGhostUnflagged(s) ==
  LET at2 == serLocation(s.loc)
  IN  <<at2[1], at2[2], s.frightSteps,
        s.trappedSteps + (IF s.eaten THEN 128 ELSE 0)>>

serGhost(s) ==
  LET at2 == serLocation(s.loc)
  IN  <<at2[1], at2[2], s.frightSteps + (IF s.spawning THEN 128 ELSE 0),
        s.trappedSteps + (IF s.eaten THEN 128 ELSE 0)>>

\* Location.update, updateAux and updateAux2 of the bot.
readGhost(b) ==
  [row |-> coordinate(b[1]), col |-> coordinate(b[2]),
   rowDir |-> delta(b[1]), colDir |-> delta(b[2]),
   frightSteps |-> b[3] % 64, spawning |-> b[3] \div 128 = 1,
   trappedSteps |-> b[4] % 64, eaten |-> b[4] \div 128 = 1]

-----------------------------------------------------------------------------
(* Properties. *)

locationState == [row : 0 .. 32, col : 0 .. 32, dir : 0 .. 4]

TypeOK ==
  /\ color \in Colors
  /\ g \in [loc : locationState, nextLoc : locationState,
            trappedSteps : 0 .. 32, frightSteps : 0 .. FrightSteps,
            spawning : BOOLEAN, eaten : BOOLEAN]
  /\ mode \in {"scatter", "chase"} /\ pc \in {"update", "plan"}
  /\ halt \in {"none", "reset", "gameOver", "ended"}

\* Whenever a ghost plans it has somewhere to go: neither a reversal in the
\* door of the house, nor a catch, nor a reset leaves it "surrounded by all
\* walls", the case plan() only logs.
NeverCornered ==
  pc = "plan" /\ ~ isEmpty(g.loc) /\ g.trappedSteps = 0 => validMoves(g) # {}

\* A ghost stands and goes only where it may: on the maze, and in the house
\* or its door only while it is spawning, however it was turned around there.
onGround(l) == isEmpty(l) \/ allowed(g, cell(l))

GhostOnGround == onGround(g.loc) /\ onGround(g.nextLoc)

\* The bot reads from the frame the ghost that the engine wrote into it, off
\* the maze (where both coordinates need their sixth bit) included.
FrameTellsGhost ==
  readGhost(serGhost(g)) =
    [row |-> g.loc.row, col |-> g.loc.col,
     rowDir |-> dRow(g.loc.dir), colDir |-> dCol(g.loc.dir),
     frightSteps |-> g.frightSteps, spawning |-> g.spawning,
     trappedSteps |-> g.trappedSteps, eaten |-> g.eaten]

Undisturbed == <>[][~ Disturbance]_vars

\* A ghost left alone gets out of the house, from wherever in it a reversal, a
\* fright or a catch has put it, unless the game is over.
LeavesHouse == Undisturbed => <>[](~ g.spawning \/ halt = "ended")

\* A ghost left alone in scatter mode ends up in its own quarter of the maze
\* for good, though it looks only one cell ahead and may not turn back.
corner ==
  LET t == ghostScatterTargets[color]
  IN  /\ g.loc.row >= 15 <=> t[1] >= 15
      /\ g.loc.col >= 14 <=> t[2] >= 14

ScattersHome ==
  (Undisturbed /\ <>[](mode = "scatter")) => <>[](corner \/ halt = "ended")

-----------------------------------------------------------------------------
(* What the rules of the game see of the ghost. *)

Ground == Open \cup House \cup {Exit}

adjacent(a) == {<<a[1] + dRow(d), a[2] + dCol(d)>> : d \in Dirs}

Rules == INSTANCE GhostRules WITH
  Ghosts <- DOMAIN ghostSpawnLocs, ActiveGhosts <- DOMAIN ghostSpawnLocs,
  Red <- "red", Pink <- "pink", Orange <- "orange",
  Cells <- Ground, Empty <- cell(emptyLoc),
  GhostMoves <- [a \in Ground |-> adjacent(a) \cap Ground],
  GhostSpawn <- [c \in DOMAIN ghostSpawnLocs |-> cell(ghostSpawnLocs[c])]

ghost(s) == [loc |-> cell(s.loc), nextLoc |-> cell(s.nextLoc),
             frightSteps |-> s.frightSteps, eaten |-> s.eaten,
             staring |-> s.nextLoc.dir = none]

\* With its directions, its traps, its targets and its way out of the house a
\* ghost does, operation by operation, what the rules of the game say of it:
\* the move graph they choose the next cell from is adjacency on the maze, and
\* a ghost stays where it is only if it was reset when no lives were left.
FollowsRules ==
  /\ ghost(g) = Rules!newGhostState(color)
  /\ [][LET a == ghost(g)
            b == ghost(g')
        IN  \/ Update /\ b = Rules!update(a)
            \/ Plan /\ b \in Rules!planned(a)
            \/ Frighten /\ b = Rules!frighten(a)
            \/ Catch /\ b = Rules!respawn(color, a)
            \/ Reset /\ b = IF halt' = "gameOver"
                           THEN Rules!stare(color, Rules!reset(color, a))
                           ELSE Rules!reset(color, a)
            \/ Restart /\ b = Rules!update(Rules!newGhostState(color))
            \/ (SwitchMode \/ Anger) /\ b = a]_vars
=============================================================================
