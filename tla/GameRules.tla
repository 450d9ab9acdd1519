----------------------------- MODULE GameRules -----------------------------
(***************************************************************************)
(* The rules of the game as the server's package `game` keeps them: every  *)
(* method of gameState that changes state is an operator from the state    *)
(* before the call to the state after it, under the method's own name.     *)
(*                                                                         *)
(* The 31 x 28 maze is abstracted to a set of cells.  Pacman walks the     *)
(* corridor, whose metric is Dist (the length of the path findLikelyPath   *)
(* returns); the ghosts, one at a time, are GhostRules.  The score, which  *)
(* no rule reads back, is left out.                                        *)
(***************************************************************************)
EXTENDS GhostRules, FiniteSets

CONSTANTS
  Corridor,             \* cells that are not walls, where Pacman may stand
  Dist,                 \* length of the shortest corridor path
  PacmanSpawn, FruitCell,
  InitPellets, SuperPellets,
  InitUpdatePeriod, MaxTicks, MaxLevel, InitLives,
  ScatterDuration, ChaseDuration, LevelDuration, LevelPenaltyDuration,
  FruitDuration,
  FruitThreshold1, FruitThreshold2, AngerThreshold1, AngerThreshold2,
  LongPath              \* a longer tracked path is jumped, not walked

\* The maze: spawn cells are cells, Pacman does not spawn on a ghost's cell,
\* and from a corridor cell one can always step closer to any other.
ASSUME MazeAssumption ==
  /\ IsFiniteSet(Ghosts) /\ ActiveGhosts \subseteq Ghosts
  /\ {Red, Pink} \subseteq Ghosts
  /\ Empty \notin Cells /\ Corridor \subseteq Cells
  /\ PacmanSpawn \in Corridor /\ FruitCell \in Corridor
  /\ GhostSpawn \in [Ghosts -> Cells]
  /\ \A g \in Ghosts : GhostSpawn[g] # PacmanSpawn
  /\ GhostMoves \in [Cells -> (SUBSET Cells) \ {{}}]
  /\ Dist \in [Corridor -> [Corridor -> Nat]]
  /\ \A a, b \in Corridor :
       /\ Dist[a][b] = 0 <=> a = b
       /\ a # b => \E n \in Corridor :
                      Dist[a][n] = 1 /\ Dist[n][b] = Dist[a][b] - 1

\* The pellets and every duration, bound and threshold of variables.go.
ASSUME RulesAssumption ==
  /\ IsFiniteSet(InitPellets) /\ InitPellets \subseteq Corridor
  /\ InitPellets # {} /\ SuperPellets \subseteq InitPellets
  /\ {InitUpdatePeriod, MaxTicks, MaxLevel, InitLives, FrightSteps,
      AngerThreshold1, AngerThreshold2}
       \subseteq Nat \ {0}
  /\ {ScatterDuration, ChaseDuration, LevelDuration, LevelPenaltyDuration,
      FruitDuration, FruitThreshold1, FruitThreshold2, LongPath} \subseteq Nat

PlayModes == {"scatter", "chase"}
Modes == PlayModes \cup {"paused"}

modeDurations == [m \in PlayModes |->
                    IF m = "scatter" THEN ScatterDuration ELSE ChaseDuration]

gameState ==
  [currTicks : 0 .. MaxTicks, updatePeriod : 1 .. InitUpdatePeriod,
   mode : Modes, lastUnpausedMode : PlayModes, pauseOnUpdate : BOOLEAN,
   modeSteps : Nat, levelSteps : Nat,
   currLevel : 1 .. MaxLevel, currLives : 0 .. InitLives,
   pacmanLoc : Corridor \cup {Empty}, fruitSteps : 0 .. FruitDuration,
   ghosts : [Ghosts -> ghostState], ghostCombo : Nat,
   pellets : SUBSET InitPellets, numPellets : Nat]

newGameState ==
  [currTicks |-> 0, updatePeriod |-> InitUpdatePeriod,
   mode |-> "paused", lastUnpausedMode |-> "scatter", pauseOnUpdate |-> FALSE,
   modeSteps |-> ScatterDuration, levelSteps |-> LevelDuration,
   currLevel |-> 1, currLives |-> InitLives,
   pacmanLoc |-> PacmanSpawn, fruitSteps |-> 0,
   ghosts |-> [c \in Ghosts |-> newGhostState(c)], ghostCombo |-> 0,
   pellets |-> InitPellets, numPellets |-> Cardinality(InitPellets)]

-----------------------------------------------------------------------------
(* Ticks, modes, lives and levels. *)

updateReady(s) == s.currTicks % s.updatePeriod = 0

isPaused(s) == s.mode = "paused"

getLastUnpausedMode(s) == IF isPaused(s) THEN s.lastUnpausedMode ELSE s.mode

pause(s) ==
  IF isPaused(s) THEN s
  ELSE [s EXCEPT !.lastUnpausedMode = s.mode, !.mode = "paused"]

\* Mutant of canPlay: a finished game may be resumed.
canPlayWithoutLives(s) == isPaused(s) /\ s.currTicks # MaxTicks

canPlay(s) == isPaused(s) /\ s.currLives # 0 /\ s.currTicks # MaxTicks

play(s) == IF canPlay(s) THEN [s EXCEPT !.mode = s.lastUnpausedMode] ELSE s

\* setMode and setModeSteps, always called as a pair with a playing mode.
startMode(s, m) == [s EXCEPT !.mode = m, !.modeSteps = modeDurations[m]]

\* Mutant of nextTick: the limit is reached without a pause.
nextTickWithoutPause(s) ==
  IF s.currTicks = MaxTicks THEN s ELSE [s EXCEPT !.currTicks = @ + 1]

\* The counter saturates, and the step that reaches the limit pauses.
nextTick(s) ==
  IF s.currTicks = MaxTicks THEN s
  ELSE [(IF s.currTicks = MaxTicks - 1 THEN pause(s) ELSE s)
          EXCEPT !.currTicks = @ + 1]

\* setUpdatePeriod(max(1, period)).
atLeastOne(n) == IF n < 1 THEN 1 ELSE n

\* Mutant of speedUp: the update period is not kept positive.
speedUpUnbounded(s) == [s EXCEPT !.updatePeriod = @ - 2]

speedUp(s) == [s EXCEPT !.updatePeriod = atLeastOne(@ - 2)]

decrementLives(s) == [s EXCEPT !.currLives = dec(@)]

incrementLevel(s) ==
  IF s.currLevel = MaxLevel THEN s
  ELSE [s EXCEPT !.currLevel = @ + 1,
                 !.updatePeriod = atLeastOne(InitUpdatePeriod - 2 * s.currLevel)]

-----------------------------------------------------------------------------
(* All ghosts at once. *)

updateAllGhosts(s) ==
  [s EXCEPT !.ghosts = [c \in Ghosts |-> update(s.ghosts[c])]]

frightenAllGhosts(s) ==
  [s EXCEPT !.ghostCombo = 0,
            !.ghosts = [c \in Ghosts |-> frighten(s.ghosts[c])]]

\* Nobody stares until a reset finds that no lives are left: the command that
\* takes one leaves the ghosts as they are.
sendHome(c, g, lives) ==
  IF lives = 0 THEN stare(c, reset(c, g)) ELSE reset(c, g)

resetAllGhosts(s) ==
  [s EXCEPT !.ghostCombo = 0,
            !.ghosts = [c \in Ghosts |-> sendHome(c, s.ghosts[c], s.currLives)]]

respawnGhosts(s, flag) ==
  [s EXCEPT !.ghostCombo = @ + Cardinality(flag),
            !.ghosts = [c \in Ghosts |-> IF c \in flag
                                         THEN respawn(c, s.ghosts[c])
                                         ELSE s.ghosts[c]]]

\* What the ghosts' concurrent planners may make of the ghosts.
plans(s) ==
  {n \in [Ghosts -> UNION {planned(s.ghosts[c]) : c \in Ghosts}] :
     \A c \in Ghosts : n[c] \in planned(s.ghosts[c])}

planAllGhosts(s, n) == [s EXCEPT !.ghosts = n]

-----------------------------------------------------------------------------
(* Deaths, cleared levels, collisions. *)

\* Mutant of deathReset: a death calms the ghosts at the anger threshold.
deathResetCalming(s) ==
  LET lost == decrementLives([s EXCEPT !.pauseOnUpdate = TRUE,
                                       !.pacmanLoc = Empty, !.fruitSteps = 0])
  IN  resetAllGhosts(IF s.numPellets >= AngerThreshold1
                     THEN startMode(lost, "scatter") ELSE lost)

deathReset(s) ==
  LET lost == decrementLives([s EXCEPT !.pauseOnUpdate = TRUE,
                                       !.pacmanLoc = Empty, !.fruitSteps = 0])
  IN  resetAllGhosts(IF s.numPellets > AngerThreshold1
                     THEN startMode(lost, "scatter") ELSE lost)

\* Mutants of levelReset: the counter is not reset with the bits; the fruit of
\* the old board stays.
levelResetBitsOnly(s) ==
  resetAllGhosts(
    startMode([s EXCEPT !.pauseOnUpdate = TRUE, !.pacmanLoc = Empty,
                        !.levelSteps = LevelDuration, !.fruitSteps = 0,
                        !.pellets = InitPellets], "scatter"))

levelResetKeepingFruit(s) ==
  resetAllGhosts(
    startMode([s EXCEPT !.pauseOnUpdate = TRUE, !.pacmanLoc = Empty,
                        !.levelSteps = LevelDuration,
                        !.pellets = InitPellets,
                        !.numPellets = Cardinality(InitPellets)], "scatter"))

levelReset(s) ==
  resetAllGhosts(
    startMode([s EXCEPT !.pauseOnUpdate = TRUE, !.pacmanLoc = Empty,
                        !.levelSteps = LevelDuration, !.fruitSteps = 0,
                        !.pellets = InitPellets,
                        !.numPellets = Cardinality(InitPellets)], "scatter"))

\* The ghosts on Pacman's cell; nothing collides with the empty location, and
\* an eaten ghost is skipped.
colliding(s) == {c \in Ghosts : /\ s.pacmanLoc # Empty
                                /\ s.ghosts[c].loc = s.pacmanLoc
                                /\ ~ s.ghosts[c].eaten}

checkCollisions(s) ==
  IF \E c \in colliding(s) : ~ isFrightened(s.ghosts[c]) THEN deathReset(s)
  ELSE IF colliding(s) = {} THEN s
  ELSE respawnGhosts(s, colliding(s))

-----------------------------------------------------------------------------
(* Pellets and Pacman's moves. *)

\* What reaching a number of pellets triggers.
pelletEvents(s) ==
  LET fruit == IF /\ s.numPellets \in {FruitThreshold1, FruitThreshold2}
                  /\ s.fruitSteps = 0
               THEN [s EXCEPT !.fruitSteps = FruitDuration] ELSE s
  IN  IF s.numPellets \in {AngerThreshold1, AngerThreshold2}
      THEN startMode(speedUp(fruit), "chase")
      ELSE IF s.numPellets = 0 THEN incrementLevel(levelReset(fruit))
      ELSE fruit

collectPellet(s, cell) ==
  LET fed  == IF s.fruitSteps > 0 /\ s.pacmanLoc = FruitCell
              THEN [s EXCEPT !.fruitSteps = 0] ELSE s
      less == [fed EXCEPT !.pellets = @ \ {cell}, !.numPellets = dec(@)]
  IN  IF cell \notin s.pellets THEN fed
      ELSE pelletEvents(IF cell \in SuperPellets
                        THEN frightenAllGhosts(less) ELSE less)

stopped(s) == isPaused(s) \/ s.pauseOnUpdate

neighbors(loc) ==
  IF loc = Empty THEN {} ELSE {n \in Corridor : Dist[loc][n] = 1}

\* Where the shortest paths from a cell to another may begin.
findLikelyPath(loc, dest) ==
  {n \in neighbors(loc) : Dist[n][dest] = Dist[loc][dest] - 1}

\* Mutant of movePacmanDir: the collision is checked before the pellet is eaten.
movePacmanDirCheckFirst(s, dest) ==
  IF stopped(s) \/ dest \notin neighbors(s.pacmanLoc) THEN checkCollisions(s)
  ELSE LET moved == checkCollisions([s EXCEPT !.pacmanLoc = dest])
       IN  collectPellet(moved, dest)

\* One step to the cell the direction leads to (a wall is the cell itself).
\* The deferred collision check runs even when the command is ignored.
movePacmanDir(s, dest) ==
  checkCollisions(
    IF stopped(s) \/ dest \notin neighbors(s.pacmanLoc) THEN s
    ELSE collectPellet([s EXCEPT !.pacmanLoc = dest], dest))

\* movePacmanAbsolute to a cell further than LongPath.
jump(s, dest) ==
  checkCollisions(collectPellet([s EXCEPT !.pacmanLoc = dest], dest))

\* One iteration of movePacmanAbsolute's walk along the path.
walk(s, dest) ==
  LET moved == checkCollisions(movePacmanDir(s, dest))
  IN  collectPellet(moved, moved.pacmanLoc)

tryRespawnPacman(s) ==
  IF s.pacmanLoc = Empty /\ s.currLives > 0
  THEN [s EXCEPT !.pacmanLoc = PacmanSpawn] ELSE s

-----------------------------------------------------------------------------
(* Events of an update. *)

otherMode(m) == IF m = "chase" THEN "scatter" ELSE "chase"

\* The scheduled mode change: a paused game changes the mode it will resume in.
switchMode(s) ==
  LET m == otherMode(getLastUnpausedMode(s))
  IN  IF isPaused(s)
      THEN [s EXCEPT !.lastUnpausedMode = m, !.modeSteps = modeDurations[m]]
      ELSE startMode(s, m)

handleStepEvents(s) ==
  LET moded == IF s.modeSteps = 0 THEN switchMode(s) ELSE s
      timed == IF s.levelSteps = 0
               THEN [speedUp(moded) EXCEPT !.levelSteps = LevelPenaltyDuration]
               ELSE moded
  IN  [timed EXCEPT !.modeSteps = IF s.numPellets >= AngerThreshold1
                                  THEN dec(@) ELSE @,
                    !.levelSteps = dec(@), !.fruitSteps = dec(@)]

\* Mutant of pauseIfPending: the flag is not taken down.
pauseKeepingFlag(s) == IF s.pauseOnUpdate THEN pause(s) ELSE s

pauseIfPending(s) ==
  IF s.pauseOnUpdate THEN [pause(s) EXCEPT !.pauseOnUpdate = FALSE] ELSE s
=============================================================================
