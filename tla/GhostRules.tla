----------------------------- MODULE GhostRules -----------------------------
(***************************************************************************)
(* A ghost as the rules of the game see it: which cell it is on, which one *)
(* it goes to next, whether it is frightened or eaten, and whether it only *)
(* stares at the player, having been given no direction.  Each method of   *)
(* ghostState is an operator from the ghost before the call to the ghost   *)
(* after it.  What no rule looks at, which way else a ghost faces, when it *)
(* is trapped and what it aims at, is hidden in the move graph GhostMoves; *)
(* GhostPlanner, where it is modelled, is shown to follow these rules.     *)
(***************************************************************************)
EXTENDS Integers

CONSTANTS
  Ghosts,               \* ghost colors
  ActiveGhosts,         \* colors below numActiveGhosts
  Red, Pink,            \* red respawns inside the house, at pink's cell
  Orange,               \* who does not stare at the player in the end
  Cells,                \* every cell an agent can stand on
  Empty,                \* emptyLoc, off the maze
  GhostMoves,           \* where a ghost may plan to go from a cell
  GhostSpawn,
  FrightSteps

Places == Cells \cup {Empty}

ghostState == [loc : Places, nextLoc : Places,
               frightSteps : 0 .. FrightSteps, eaten : BOOLEAN,
               staring : BOOLEAN]   \* nextLoc has no direction

newGhostState(c) ==
  [loc |-> Empty, frightSteps |-> 0, eaten |-> FALSE,
   staring |-> c \notin ActiveGhosts,
   nextLoc |-> IF c \in ActiveGhosts THEN GhostSpawn[c] ELSE Empty]

\* A uint8 or uint16 counter decremented unless it is zero.
dec(n) == IF n = 0 THEN 0 ELSE n - 1

isFrightened(g) == g.frightSteps > 0

\* Mutant of reset: the ghost stays where it is until the next update.
resetInPlace(c, g) ==
  IF c \notin ActiveGhosts THEN g
  ELSE [g EXCEPT !.frightSteps = 0, !.nextLoc = GhostSpawn[c],
                 !.staring = FALSE]

reset(c, g) ==
  IF c \notin ActiveGhosts THEN g
  ELSE [g EXCEPT !.frightSteps = 0, !.loc = Empty, !.nextLoc = GhostSpawn[c],
                 !.staring = FALSE]

\* Without lives resetAllGhosts makes the ghosts stare at the player; orange
\* looks away.
stare(c, g) == [g EXCEPT !.staring = (c # Orange)]

respawn(c, g) ==
  IF c \notin ActiveGhosts THEN g
  ELSE [g EXCEPT !.eaten = TRUE, !.loc = Empty, !.staring = FALSE,
                 !.nextLoc = GhostSpawn[IF c = Red THEN Pink ELSE c]]

\* Mutant of update: a ghost comes back from being eaten still frightened.
updateStillFrightened(g) ==
  [loc |-> g.nextLoc, nextLoc |-> g.nextLoc, eaten |-> FALSE,
   staring |-> g.staring, frightSteps |-> dec(g.frightSteps)]

update(g) ==
  [loc |-> g.nextLoc, nextLoc |-> g.nextLoc, eaten |-> FALSE,
   staring |-> g.staring, frightSteps |-> IF g.eaten THEN 0 ELSE dec(g.frightSteps)]

\* One iteration of frightenAllGhosts.
frighten(g) == [g EXCEPT !.frightSteps = FrightSteps]

\* The outcomes of plan(): a ghost off the maze does not plan, one that stares
\* stays where it is, whether or not it now finds a direction (a trapped one
\* reverses the direction it does not have); any other advances along the move
\* graph.  How many lives are left is not looked at.
planned(g) ==
  IF g.loc = Empty THEN {g}
  ELSE IF g.staring
  THEN {[g EXCEPT !.nextLoc = g.loc, !.staring = s] : s \in BOOLEAN}
  ELSE {[g EXCEPT !.nextLoc = n] : n \in GhostMoves[g.loc]}
=============================================================================
