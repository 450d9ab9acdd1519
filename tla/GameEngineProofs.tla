-------------------------- MODULE GameEngineProofs --------------------------
(***************************************************************************)
(* Theorems about the game engine, for every maze, number of ghosts and    *)
(* value of the durations and thresholds: the types, what every frame      *)
(* shows, what a reset leaves behind, and what the game counts.            *)
(***************************************************************************)
EXTENDS GameEngine, FiniteSetTheorems, TLAPS

-----------------------------------------------------------------------------
(* Types: every operator of GameRules leads from a game state to one. *)

LEMMA ConstantTypes ==
  /\ \A n \in {InitUpdatePeriod, MaxTicks, MaxLevel, InitLives, FrightSteps} :
       n \in Nat /\ n >= 1
  /\ \A n \in {ScatterDuration, ChaseDuration, LevelDuration, FruitDuration,
               LevelPenaltyDuration, AngerThreshold1} : n \in Nat
  /\ Cardinality(InitPellets) \in Nat /\ Cardinality(InitPellets) > 0
  /\ FruitCell \in Corridor /\ PacmanSpawn \in Corridor
<1>1. /\ Cardinality(InitPellets) \in Nat
      /\ Cardinality(InitPellets) = 0 => InitPellets = {}
  BY RulesAssumption, FS_CardinalityType, FS_EmptySet, ZenonT(30)
<1> QED
  BY <1>1, RulesAssumption, MazeAssumption

\* One field at a time: an update of several fields is a chain of these.
LEMMA FieldTypes ==
  ASSUME NEW s \in gameState
  PROVE  /\ \A x \in 0 .. MaxTicks : [s EXCEPT !.currTicks = x] \in gameState
         /\ \A x \in 1 .. InitUpdatePeriod :
              [s EXCEPT !.updatePeriod = x] \in gameState
         /\ \A x \in BOOLEAN : [s EXCEPT !.pauseOnUpdate = x] \in gameState
         /\ \A x \in Nat : [s EXCEPT !.modeSteps = x] \in gameState
         /\ \A x \in Nat : [s EXCEPT !.levelSteps = x] \in gameState
         /\ \A x \in 1 .. MaxLevel : [s EXCEPT !.currLevel = x] \in gameState
         /\ \A x \in Corridor \cup {Empty} :
              [s EXCEPT !.pacmanLoc = x] \in gameState
         /\ \A x \in 0 .. FruitDuration :
              [s EXCEPT !.fruitSteps = x] \in gameState
         /\ \A x \in SUBSET InitPellets : [s EXCEPT !.pellets = x] \in gameState
         /\ \A x \in Nat : [s EXCEPT !.numPellets = x] \in gameState
BY DEF gameState

LEMMA PauseType ==
  ASSUME NEW s \in gameState
  PROVE  pause(s) \in gameState /\ pauseIfPending(s) \in gameState
BY DEF gameState, pause, pauseIfPending, isPaused, Modes, PlayModes

LEMMA PlayType ==
  ASSUME NEW s \in gameState
  PROVE  play(s) \in gameState
BY DEF gameState, play, canPlay, isPaused, Modes, PlayModes

LEMMA DurationType == modeDurations \in [PlayModes -> Nat]
BY RulesAssumption DEF modeDurations

LEMMA StartModeType ==
  ASSUME NEW s \in gameState, NEW m \in PlayModes
  PROVE  startMode(s, m) \in gameState
BY DurationType DEF gameState, startMode, Modes

LEMMA TickType ==
  ASSUME NEW s \in gameState
  PROVE  nextTick(s) \in gameState
<1>1. \A r \in gameState :
        r.currTicks # MaxTicks => [r EXCEPT !.currTicks = @ + 1] \in gameState
  BY ConstantTypes DEF gameState
<1>2. pause(s) \in gameState /\ pause(s).currTicks = s.currTicks
  BY PauseType DEF gameState, pause
<1> QED
  BY <1>1, <1>2 DEF nextTick

LEMMA SpeedUpType ==
  ASSUME NEW s \in gameState
  PROVE  speedUp(s) \in gameState
BY ConstantTypes DEF gameState, speedUp, atLeastOne

LEMMA LivesType ==
  ASSUME NEW s \in gameState
  PROVE  decrementLives(s) \in gameState
BY ConstantTypes DEF gameState, decrementLives, dec

LEMMA LevelType ==
  ASSUME NEW s \in gameState
  PROVE  incrementLevel(s) \in gameState
<1>1. \A k \in Nat : k >= 1 =>
        atLeastOne(InitUpdatePeriod - 2 * k) \in 1 .. InitUpdatePeriod
  BY ConstantTypes DEF atLeastOne
<1>2. s.currLevel \in Nat /\ s.currLevel >= 1
  BY DEF gameState
<1>3. s.currLevel # MaxLevel => s.currLevel + 1 \in 1 .. MaxLevel
  BY ConstantTypes DEF gameState
<1>4. \A p \in 1 .. InitUpdatePeriod : s.currLevel # MaxLevel =>
        [s EXCEPT !.currLevel = s.currLevel + 1, !.updatePeriod = p]
          \in gameState
  BY <1>3, FieldTypes
<1> QED
  BY <1>1, <1>2, <1>4 DEF incrementLevel

LEMMA GhostTypes ==
  ASSUME NEW c \in Ghosts, NEW g \in ghostState
  PROVE  /\ \A lives \in Nat : sendHome(c, g, lives) \in ghostState
         /\ respawn(c, g) \in ghostState
         /\ update(g) \in ghostState
         /\ frighten(g) \in ghostState
         /\ newGhostState(c) \in ghostState
         /\ planned(g) \subseteq ghostState
<1>1. \A d \in Ghosts : GhostSpawn[d] \in Places
  BY MazeAssumption DEF Places
<1>2. Pink \in Ghosts /\ Empty \in Places /\ 0 \in 0 .. FrightSteps
  BY ConstantTypes, MazeAssumption DEF Places
<1>3. \A lives \in Nat : sendHome(c, g, lives) \in ghostState
  <2>1. reset(c, g) \in ghostState
    BY <1>1, <1>2 DEF ghostState, reset
  <2>2. stare(c, reset(c, g)) \in ghostState
    BY <2>1 DEF ghostState, stare
  <2> QED BY <2>1, <2>2 DEF sendHome
<1>4. respawn(c, g) \in ghostState
  BY <1>1, <1>2 DEF ghostState, respawn
<1>5. dec(g.frightSteps) \in 0 .. FrightSteps
  BY ConstantTypes DEF ghostState, dec
<1>6. update(g) \in ghostState
  BY <1>2, <1>5 DEF ghostState, update
<1>7. newGhostState(c) \in ghostState
  BY <1>1, <1>2 DEF ghostState, newGhostState
<1>8. frighten(g) \in ghostState
  BY ConstantTypes DEF ghostState, frighten
<1>9. planned(g) \subseteq ghostState
  <2>1. g.loc \in Places /\ (g.loc # Empty => GhostMoves[g.loc] \subseteq Places)
    BY MazeAssumption DEF ghostState, Places
  <2>2. ASSUME NEW n \in Places, NEW s \in BOOLEAN
        PROVE  /\ [g EXCEPT !.nextLoc = n] \in ghostState
               /\ [g EXCEPT !.nextLoc = n, !.staring = s] \in ghostState
    BY DEF ghostState
  <2> QED BY <2>1, <2>2 DEF planned
<1> QED
  BY <1>3, <1>4, <1>6, <1>7, <1>8, <1>9

\* Where a reset leaves a ghost, however many lives there are.
LEMMA SentHome ==
  ASSUME NEW c \in Ghosts, NEW g \in ghostState, NEW lives
  PROVE  LET h == sendHome(c, g, lives) IN
         /\ c \in ActiveGhosts => /\ h.loc = Empty /\ h.nextLoc = GhostSpawn[c]
                                  /\ h.frightSteps = 0
         /\ c \notin ActiveGhosts => /\ h.loc = g.loc /\ h.nextLoc = g.nextLoc
                                     /\ h.frightSteps = g.frightSteps
         /\ h.eaten = g.eaten
<1>1. stare(c, reset(c, g)) = [reset(c, g) EXCEPT !.staring = (c # Orange)]
  BY DEF stare
<1>2. CASE c \in ActiveGhosts
  <2>1. /\ reset(c, g).loc = Empty /\ reset(c, g).nextLoc = GhostSpawn[c]
        /\ reset(c, g).frightSteps = 0 /\ reset(c, g).eaten = g.eaten
        /\ stare(c, reset(c, g)).loc = Empty
        /\ stare(c, reset(c, g)).nextLoc = GhostSpawn[c]
        /\ stare(c, reset(c, g)).frightSteps = 0
        /\ stare(c, reset(c, g)).eaten = g.eaten
    BY <1>1, <1>2 DEF reset, ghostState
  <2> QED BY <1>2, <2>1 DEF sendHome
<1>3. CASE c \notin ActiveGhosts
  <2>1. reset(c, g) = g
    BY <1>3 DEF reset
  <2>2. /\ stare(c, g).loc = g.loc /\ stare(c, g).nextLoc = g.nextLoc
        /\ stare(c, g).frightSteps = g.frightSteps /\ stare(c, g).eaten = g.eaten
    BY DEF stare, ghostState
  <2> QED BY <1>3, <2>1, <2>2 DEF sendHome
<1> QED BY <1>2, <1>3

\* What a plan leaves of a ghost.
LEMMA PlanFields ==
  ASSUME NEW g \in ghostState, NEW h \in planned(g)
  PROVE  /\ h.loc = g.loc /\ h.eaten = g.eaten
         /\ h.frightSteps = g.frightSteps
         /\ g.loc = Empty => h.nextLoc = g.nextLoc
BY DEF planned, ghostState

LEMMA AllGhostsType ==
  ASSUME NEW s \in gameState
  PROVE  /\ updateAllGhosts(s) \in gameState
         /\ frightenAllGhosts(s) \in gameState
         /\ resetAllGhosts(s) \in gameState
         /\ \A flag \in SUBSET Ghosts : respawnGhosts(s, flag) \in gameState
         /\ \A n \in plans(s) : planAllGhosts(s, n) \in gameState
<1>1. \A f \in [Ghosts -> ghostState] : [s EXCEPT !.ghosts = f] \in gameState
  BY DEF gameState
<1>2. \A f \in [Ghosts -> ghostState], k \in Nat :
        [s EXCEPT !.ghostCombo = k, !.ghosts = f] \in gameState
  BY DEF gameState
<1>3. \A c \in Ghosts : s.ghosts[c] \in ghostState
  BY DEF gameState
<1>4. updateAllGhosts(s) \in gameState
  BY <1>1, <1>3, GhostTypes DEF updateAllGhosts
<1>5. \A c \in Ghosts :
        frighten(s.ghosts[c]) \in ghostState
  BY <1>3, GhostTypes
<1>6. frightenAllGhosts(s) \in gameState
  BY <1>2, <1>5 DEF frightenAllGhosts
<1>7. resetAllGhosts(s) \in gameState
  <2>1. s.currLives \in Nat
    BY DEF gameState
  <2> QED BY <1>2, <1>3, <2>1, GhostTypes DEF resetAllGhosts
<1>8. ASSUME NEW flag \in SUBSET Ghosts
      PROVE  s.ghostCombo + Cardinality(flag) \in Nat
  <2>1. IsFiniteSet(flag)
    BY FS_Subset, MazeAssumption
  <2>2. Cardinality(flag) \in Nat
    BY <2>1, FS_CardinalityType
  <2> QED
    BY <2>2 DEF gameState
<1>9. \A flag \in SUBSET Ghosts : respawnGhosts(s, flag) \in gameState
  BY <1>2, <1>3, <1>8, GhostTypes DEF respawnGhosts
<1>10. ASSUME NEW n \in plans(s) PROVE n \in [Ghosts -> ghostState]
  <2>1. n \in [Ghosts -> UNION {planned(s.ghosts[c]) : c \in Ghosts}]
    BY DEF plans
  <2>2. \A c \in Ghosts : n[c] \in ghostState
    BY <1>3, GhostTypes DEF plans
  <2> QED BY <2>1, <2>2
<1>11. \A n \in plans(s) : planAllGhosts(s, n) \in gameState
  BY <1>1, <1>10 DEF planAllGhosts
<1> QED
  BY <1>4, <1>6, <1>7, <1>9, <1>11

LEMMA DeathType ==
  ASSUME NEW s \in gameState
  PROVE  deathReset(s) \in gameState
<1> DEFINE away == [s EXCEPT !.pauseOnUpdate = TRUE, !.pacmanLoc = Empty,
                             !.fruitSteps = 0]
           lost == decrementLives(away)
           moded == IF s.numPellets > AngerThreshold1
                    THEN startMode(lost, "scatter") ELSE lost
<1>1. away \in gameState
  <2>1. 0 \in 0 .. FruitDuration
    BY ConstantTypes
  <2> QED
    BY <2>1, FieldTypes
<1>2. lost \in gameState
  BY <1>1, LivesType
<1>3. moded \in gameState
  BY <1>2, StartModeType DEF PlayModes
<1>4. resetAllGhosts(moded) \in gameState
  BY <1>3, AllGhostsType
<1> QED
  BY <1>4 DEF deathReset

LEMMA LevelResetType ==
  ASSUME NEW s \in gameState
  PROVE  levelReset(s) \in gameState
<1> DEFINE board == [s EXCEPT !.pauseOnUpdate = TRUE, !.pacmanLoc = Empty,
                              !.levelSteps = LevelDuration, !.fruitSteps = 0,
                              !.pellets = InitPellets,
                              !.numPellets = Cardinality(InitPellets)]
<1>1. board \in gameState
  <2>1. /\ 0 \in 0 .. FruitDuration /\ LevelDuration \in Nat
        /\ InitPellets \in SUBSET InitPellets
        /\ Cardinality(InitPellets) \in Nat
    BY ConstantTypes
  <2> QED
    BY <2>1, FieldTypes
<1>2. startMode(board, "scatter") \in gameState
  BY <1>1, StartModeType DEF PlayModes
<1>3. resetAllGhosts(startMode(board, "scatter")) \in gameState
  BY <1>2, AllGhostsType
<1> QED
  BY <1>3 DEF levelReset

LEMMA CollisionsType ==
  ASSUME NEW s \in gameState
  PROVE  checkCollisions(s) \in gameState
<1>1. colliding(s) \in SUBSET Ghosts
  BY DEF colliding
<1>2. respawnGhosts(s, colliding(s)) \in gameState
  BY <1>1, AllGhostsType
<1> QED
  BY <1>2, DeathType DEF checkCollisions

LEMMA EventsType ==
  ASSUME NEW s \in gameState
  PROVE  pelletEvents(s) \in gameState
<1> DEFINE fruit == IF /\ s.numPellets \in {FruitThreshold1, FruitThreshold2}
                       /\ s.fruitSteps = 0
                    THEN [s EXCEPT !.fruitSteps = FruitDuration] ELSE s
<1>1. fruit \in gameState
  BY ConstantTypes DEF gameState
<1>2. startMode(speedUp(fruit), "chase") \in gameState
  BY <1>1, SpeedUpType, StartModeType DEF PlayModes
<1>3. incrementLevel(levelReset(fruit)) \in gameState
  BY <1>1, LevelResetType, LevelType
<1> QED
  BY <1>1, <1>2, <1>3 DEF pelletEvents

LEMMA PelletType ==
  ASSUME NEW s \in gameState, NEW cell
  PROVE  collectPellet(s, cell) \in gameState
<1> DEFINE fed  == IF s.fruitSteps > 0 /\ s.pacmanLoc = FruitCell
                   THEN [s EXCEPT !.fruitSteps = 0] ELSE s
           less == [fed EXCEPT !.pellets = @ \ {cell}, !.numPellets = dec(@)]
<1>1. fed \in gameState
  BY ConstantTypes DEF gameState
<1>2. less \in gameState
  <2>1. /\ fed.pellets \ {cell} \in SUBSET InitPellets
        /\ dec(fed.numPellets) \in Nat
    BY <1>1 DEF gameState, dec
  <2> HIDE DEF fed
  <2> QED
    BY <1>1, <2>1, FieldTypes
<1>3. frightenAllGhosts(less) \in gameState
  BY <1>2, AllGhostsType
<1> QED
  BY <1>1, <1>2, <1>3, EventsType DEF collectPellet

LEMMA MoveTypes ==
  ASSUME NEW s \in gameState, NEW dest
  PROVE  /\ movePacmanDir(s, dest) \in gameState
         /\ dest \in Corridor => jump(s, dest) \in gameState
         /\ walk(s, dest) \in gameState
<1>1. dest \in Corridor => [s EXCEPT !.pacmanLoc = dest] \in gameState
  BY DEF gameState
<1>2. dest \in neighbors(s.pacmanLoc) => dest \in Corridor
  BY DEF neighbors
<1>3. movePacmanDir(s, dest) \in gameState
  BY <1>1, <1>2, PelletType, CollisionsType DEF movePacmanDir
<1>4. dest \in Corridor => jump(s, dest) \in gameState
  BY <1>1, PelletType, CollisionsType DEF jump
<1>5. walk(s, dest) \in gameState
  BY <1>3, PelletType, CollisionsType DEF walk
<1> QED
  BY <1>3, <1>4, <1>5

LEMMA StepType ==
  ASSUME NEW s \in gameState
  PROVE  handleStepEvents(s) \in gameState
<1> DEFINE moded == IF s.modeSteps = 0 THEN switchMode(s) ELSE s
           timed == IF s.levelSteps = 0
                    THEN [speedUp(moded) EXCEPT
                            !.levelSteps = LevelPenaltyDuration]
                    ELSE moded
<1>1. switchMode(s) \in gameState
  <2>1. \A m \in PlayModes :
          [s EXCEPT !.lastUnpausedMode = m, !.modeSteps = modeDurations[m]]
            \in gameState
    BY DurationType DEF gameState
  <2>2. \A m : otherMode(m) \in PlayModes
    BY DEF otherMode, PlayModes
  <2> QED
    BY <2>1, <2>2, StartModeType DEF switchMode
<1>2. moded \in gameState
  BY <1>1
<1>3. timed \in gameState
  <2>1. \A r \in gameState :
          [r EXCEPT !.levelSteps = LevelPenaltyDuration] \in gameState
    BY ConstantTypes DEF gameState
  <2> QED
    BY <1>2, <2>1, SpeedUpType
<1>4. \A r \in gameState : \A m \in {r.modeSteps, dec(r.modeSteps)} :
        [r EXCEPT !.modeSteps = m, !.levelSteps = dec(@), !.fruitSteps = dec(@)]
          \in gameState
  <2> TAKE r \in gameState
  <2> TAKE m \in {r.modeSteps, dec(r.modeSteps)}
  <2>1. /\ m \in Nat /\ dec(r.levelSteps) \in Nat
        /\ dec(r.fruitSteps) \in 0 .. FruitDuration
    BY ConstantTypes DEF gameState, dec
  <2> QED
    BY <2>1, FieldTypes
<1> HIDE DEF moded, timed
<1> QED
  BY <1>3, <1>4 DEF handleStepEvents, moded, timed

LEMMA SteppedType ==
  ASSUME NEW s \in gameState
  PROVE  stepped(s) \in gameState
<1>1. \A r \in gameState : tryRespawnPacman(r) \in gameState
  BY ConstantTypes DEF gameState, tryRespawnPacman
<1>2. \A r \in gameState : updateAllGhosts(r) \in gameState
  BY AllGhostsType
<1> QED
  BY <1>1, <1>2, PauseType, CollisionsType, StepType DEF stepped

LEMMA NewGameType == newGameState \in gameState
<1>1. [c \in Ghosts |-> newGhostState(c)] \in [Ghosts -> ghostState]
  <2>1. \A c \in Ghosts : newGhostState(c) \in ghostState
    BY ConstantTypes, MazeAssumption DEF newGhostState, ghostState, Places
  <2> QED
    BY <2>1
<1> QED
  BY <1>1, ConstantTypes DEF newGameState, gameState, Modes, PlayModes

-----------------------------------------------------------------------------
(* Type correctness. *)

\* The engine's state is always well typed: no counter goes out of range and
\* the update period is never zero.
THEOREM TypeCorrect == Spec => []TypeOK
<1>1. Init => TypeOK
  BY NewGameType DEF Init, TypeOK
<1>2. TypeOK /\ [Next]_vars => TypeOK'
  <2> SUFFICES ASSUME TypeOK, [Next]_vars PROVE TypeOK'
    OBVIOUS
  <2> USE DEF TypeOK
  <2>1. \A s \in gameState : \A n \in plans(s) :
         planAllGhosts(s, n) \in gameState
    BY AllGhostsType
  <2>2. CASE Update
    BY <2>1, <2>2, SteppedType DEF Update
  <2>3. CASE SkipUpdate
    BY <2>3 DEF SkipUpdate
  <2>4. \A s \in gameState : Obey(s) => TypeOK'
    BY DEF Obey
  <2>5. CASE PauseCommand \/ PlayCommand \/ KillCommand
    BY <2>4, <2>5, PauseType, PlayType, LivesType
    DEF PauseCommand, PlayCommand, KillCommand
  <2>6. CASE MoveCommand
    BY <2>4, <2>6, MoveTypes DEF MoveCommand
  <2>7. CASE JumpCommand
    BY <2>4, <2>7, MoveTypes DEF JumpCommand
  <2>8. \A dest \in Corridor \cup {Empty} : WalkTowards(dest) => TypeOK'
    BY MoveTypes DEF WalkTowards
  <2>9. CASE WalkCommand
    BY <2>8, <2>9 DEF WalkCommand
  <2>10. CASE Walk
    BY <2>8, <2>10 DEF Walk
  <2>11. CASE RestartCommand
    <3>1. handleStepEvents(updateAllGhosts(newGameState)) \in gameState
      BY NewGameType, AllGhostsType, StepType
    <3> QED
      BY <2>1, <2>11, <3>1 DEF RestartCommand
  <2>12. CASE Tick
    BY <2>12, TickType DEF Tick
  <2>13. CASE UNCHANGED vars
    BY <2>13 DEF vars
  <2> QED
    BY <2>2, <2>3, <2>5, <2>6, <2>7, <2>9, <2>10, <2>11, <2>12, <2>13
    DEF Next, RunLoop, Command
<1> QED
  BY <1>1, <1>2, PTL DEF Spec

-----------------------------------------------------------------------------
(* What the resets and the step events do, field by field. *)

LEMMA DeathFields ==
  ASSUME NEW s \in gameState
  PROVE  /\ deathReset(s).pacmanLoc = Empty
         /\ deathReset(s).pauseOnUpdate = TRUE
         /\ deathReset(s).fruitSteps = 0
         /\ deathReset(s).pellets = s.pellets
         /\ deathReset(s).numPellets = s.numPellets
         /\ deathReset(s).ghostCombo = 0
         /\ deathReset(s).ghosts =
              [c \in Ghosts |-> sendHome(c, s.ghosts[c], deathReset(s).currLives)]
BY DEF gameState, deathReset, decrementLives, startMode, resetAllGhosts

LEMMA LevelResetFields ==
  ASSUME NEW s \in gameState
  PROVE  LET r == incrementLevel(levelReset(s)) IN
         /\ r.pacmanLoc = Empty
         /\ r.pauseOnUpdate = TRUE
         /\ r.fruitSteps = 0
         /\ r.pellets = InitPellets
         /\ r.numPellets = Cardinality(InitPellets)
         /\ r.ghostCombo = 0
         /\ r.ghosts = [c \in Ghosts |-> sendHome(c, s.ghosts[c], r.currLives)]
BY DEF gameState, levelReset, incrementLevel, startMode, resetAllGhosts

LEMMA StepFields ==
  ASSUME NEW s \in gameState
  PROVE  LET r == handleStepEvents(s) IN
         /\ r.pacmanLoc = s.pacmanLoc
         /\ r.pauseOnUpdate = s.pauseOnUpdate
         /\ r.currLives = s.currLives
         /\ r.fruitSteps = dec(s.fruitSteps)
         /\ r.pellets = s.pellets
         /\ r.numPellets = s.numPellets
         /\ r.ghostCombo = s.ghostCombo
         /\ r.ghosts = s.ghosts
         /\ isPaused(s) => isPaused(r)
BY DEF gameState, handleStepEvents, switchMode, startMode, speedUp, isPaused

-----------------------------------------------------------------------------
(* The invariant, as predicates on a game state: NoGhostOnPacman needs to    *)
(* know that an eaten ghost, which checkCollisions skips, is off the maze;   *)
(* ResetClearsBoard that the ghosts which are not in play, which reset       *)
(* skips, never enter it; AwayIsHalted that a reset leaves its pause pending.*)

OffMaze(s) ==
  \A c \in Ghosts :
    /\ c \notin ActiveGhosts =>
         s.ghosts[c].loc = Empty /\ s.ghosts[c].nextLoc = Empty
    /\ s.ghosts[c].eaten => s.ghosts[c].loc = Empty

Apart(s) ==
  \A c \in Ghosts : s.pacmanLoc # Empty => s.ghosts[c].loc # s.pacmanLoc

Cleared(s) ==
  s.pauseOnUpdate => /\ s.pacmanLoc = Empty
                     /\ \A c \in Ghosts : s.ghosts[c].loc = Empty

Halted(s) ==
  s.pacmanLoc = Empty => s.pauseOnUpdate \/ (isPaused(s) /\ s.currLives = 0)

Sound(s) == s \in gameState /\ OffMaze(s) /\ Cleared(s) /\ Halted(s)

\* After a reset every ghost is off the maze.
LEMMA ResetOffMaze ==
  ASSUME NEW s \in gameState, NEW r \in gameState, OffMaze(s),
         r.ghosts = [c \in Ghosts |-> sendHome(c, s.ghosts[c], r.currLives)]
  PROVE  OffMaze(r) /\ \A c \in Ghosts : r.ghosts[c].loc = Empty
<1> SUFFICES ASSUME NEW c \in Ghosts
             PROVE  /\ c \notin ActiveGhosts => r.ghosts[c].nextLoc = Empty
                    /\ r.ghosts[c].loc = Empty
  BY DEF OffMaze
<1>1. r.ghosts[c] = sendHome(c, s.ghosts[c], r.currLives) /\ s.ghosts[c] \in ghostState
  BY DEF gameState
<1>2. CASE c \in ActiveGhosts
  BY <1>1, <1>2, SentHome
<1>3. CASE c \notin ActiveGhosts
  BY <1>1, <1>3, SentHome DEF OffMaze
<1> QED
  BY <1>2, <1>3

LEMMA ResetSound ==
  ASSUME NEW s \in gameState, NEW r \in gameState, OffMaze(s),
         r.ghosts = [c \in Ghosts |-> sendHome(c, s.ghosts[c], r.currLives)],
         r.pacmanLoc = Empty, r.pauseOnUpdate
  PROVE  Sound(r) /\ Apart(r)
BY ResetOffMaze DEF Sound, Cleared, Halted, Apart

LEMMA CollisionsSound ==
  ASSUME NEW s, Sound(s)
  PROVE  Sound(checkCollisions(s)) /\ Apart(checkCollisions(s))
<1> USE DEF Sound
<1>1. CASE \E c \in colliding(s) : ~ isFrightened(s.ghosts[c])
  BY <1>1, DeathType, DeathFields, ResetSound DEF checkCollisions
<1>2. CASE colliding(s) = {}
  BY <1>2 DEF checkCollisions, colliding, Apart, OffMaze
<1>3. CASE colliding(s) # {} /\ \A c \in colliding(s) : isFrightened(s.ghosts[c])
  <2> DEFINE r == respawnGhosts(s, colliding(s))
  <2>1. checkCollisions(s) = r /\ r \in gameState
    BY <1>3, CollisionsType DEF checkCollisions
  <2>2. /\ r.pacmanLoc = s.pacmanLoc /\ r.pauseOnUpdate = s.pauseOnUpdate
        /\ isPaused(r) <=> isPaused(s)
        /\ r.currLives = s.currLives
    BY DEF respawnGhosts, gameState, isPaused
  <2>3. \A c \in Ghosts :
          r.ghosts[c] = IF c \in colliding(s) THEN respawn(c, s.ghosts[c])
                                             ELSE s.ghosts[c]
    BY DEF respawnGhosts, gameState
  <2>4. s.pacmanLoc # Empty
    BY <1>3 DEF colliding
  <2>5. \A c \in colliding(s) : c \in ActiveGhosts /\ c \in Ghosts
    BY <2>4 DEF colliding, OffMaze
  <2>6. \A c \in colliding(s) : r.ghosts[c].loc = Empty
    BY <2>3, <2>5 DEF respawn, gameState, ghostState
  <2>7. OffMaze(r)
    BY <2>3, <2>5, <2>6 DEF OffMaze
  <2>8. Apart(r)
    BY <2>2, <2>3, <2>6 DEF Apart, OffMaze, colliding
  <2>9. Cleared(r) /\ Halted(r)
    BY <2>2, <2>4 DEF Cleared, Halted
  <2> QED
    BY <2>1, <2>7, <2>8, <2>9
<1> QED
  BY <1>1, <1>2, <1>3

\* Eating leaves everybody in place, unless it clears the level.
LEMMA PelletSound ==
  ASSUME NEW s, Sound(s)
  PROVE  LET r == collectPellet(s, s.pacmanLoc) IN
         Sound(r) /\ (Apart(s) => Apart(r))
<1> DEFINE cell == s.pacmanLoc
           fed  == IF s.fruitSteps > 0 /\ s.pacmanLoc = FruitCell
                   THEN [s EXCEPT !.fruitSteps = 0] ELSE s
           less == [fed EXCEPT !.pellets = @ \ {cell}, !.numPellets = dec(@)]
           more == IF cell \in SuperPellets
                   THEN frightenAllGhosts(less) ELSE less
           r == collectPellet(s, cell)
           InPlace(q) == /\ q.pacmanLoc = s.pacmanLoc
                         /\ q.pauseOnUpdate = s.pauseOnUpdate
                         /\ \A c \in Ghosts :
                              /\ q.ghosts[c].loc = s.ghosts[c].loc
                              /\ q.ghosts[c].nextLoc = s.ghosts[c].nextLoc
                              /\ q.ghosts[c].eaten = s.ghosts[c].eaten
<1> USE DEF Sound
<1>1. r \in gameState
  BY PelletType
<1>2. fed \in gameState /\ InPlace(fed) /\ fed.currLives = s.currLives
      /\ fed.mode = s.mode
  <2>1. 0 \in 0 .. FruitDuration
    BY ConstantTypes
  <2>2. [s EXCEPT !.fruitSteps = 0] \in gameState
    BY <2>1, FieldTypes
  <2> QED
    BY <2>2 DEF gameState
<1>3. CASE cell \notin s.pellets
  BY <1>1, <1>2, <1>3 DEF collectPellet, OffMaze, Cleared, Halted, Apart, isPaused
<1>4. CASE cell \in s.pellets
  <2>1. s.pacmanLoc # Empty /\ ~ s.pauseOnUpdate
    BY <1>4, MazeAssumption, RulesAssumption DEF gameState, Cleared
  <2>2. less \in gameState /\ InPlace(less)
    <3>1. /\ fed.pellets \ {cell} \in SUBSET InitPellets
          /\ dec(fed.numPellets) \in Nat
      BY <1>2 DEF gameState, dec
    <3>2. less \in gameState
      BY <1>2, <3>1, FieldTypes
    <3>3. InPlace(less)
      BY <1>2 DEF gameState
    <3> QED
      BY <3>2, <3>3
  <2>3. more \in gameState /\ InPlace(more)
    <3> HIDE DEF less
    <3>1. frightenAllGhosts(less) \in gameState
      BY <2>2, AllGhostsType
    <3>2. InPlace(frightenAllGhosts(less))
      BY <2>2 DEF frightenAllGhosts, frighten, gameState, ghostState
    <3> QED
      BY <2>2, <3>1, <3>2
  <2>4. r = pelletEvents(more)
    BY <1>4 DEF collectPellet
  <2> HIDE DEF more, cell
  <2>5. OffMaze(more)
    BY <2>3 DEF OffMaze
  <2> DEFINE fruit == IF /\ more.numPellets \in {FruitThreshold1, FruitThreshold2}
                         /\ more.fruitSteps = 0
                      THEN [more EXCEPT !.fruitSteps = FruitDuration] ELSE more
  <2>6. fruit \in gameState /\ InPlace(fruit) /\ fruit.ghosts = more.ghosts
    <3>1. FruitDuration \in 0 .. FruitDuration
      BY ConstantTypes
    <3>2. fruit \in gameState
      BY <2>3, <3>1, FieldTypes
    <3> QED
      BY <2>3, <3>2 DEF gameState
  <2> HIDE DEF fruit
  <2>7. InPlace(startMode(speedUp(fruit), "chase"))
    BY <2>6 DEF startMode, speedUp, gameState
  <2>8. ASSUME r = incrementLevel(levelReset(fruit))
        PROVE  Sound(r) /\ Apart(r)
    <3>1. OffMaze(fruit)
      BY <2>5, <2>6 DEF OffMaze
    <3> QED
      BY <1>1, <2>6, <2>8, <3>1, LevelResetFields, ResetSound
  <2>9. ASSUME InPlace(r) PROVE Sound(r) /\ (Apart(s) => Apart(r))
    BY <1>1, <2>1, <2>9 DEF OffMaze, Cleared, Halted, Apart
  <2>10. \/ r = startMode(speedUp(fruit), "chase")
         \/ r = incrementLevel(levelReset(fruit))
         \/ r = fruit
    BY <2>4 DEF pelletEvents, fruit
  <2> HIDE DEF r
  <2>11. Sound(r) /\ (Apart(s) => Apart(r))
    BY <2>6, <2>7, <2>8, <2>9, <2>10
  <2> QED
    BY <2>11 DEF r, cell
<1> QED
  BY <1>3, <1>4

\* Standing elsewhere on the maze, unless a pause is pending.
LEMMA PlaceSound ==
  ASSUME NEW s, Sound(s), ~ s.pauseOnUpdate, NEW dest \in Corridor
  PROVE  Sound([s EXCEPT !.pacmanLoc = dest])
<1>1. [s EXCEPT !.pacmanLoc = dest] \in gameState
  BY FieldTypes DEF Sound
<1> QED
  BY <1>1, MazeAssumption DEF Sound, OffMaze, Cleared, Halted, gameState

LEMMA EatThereSound ==
  ASSUME NEW s, Sound(s), ~ s.pauseOnUpdate, NEW dest \in Corridor
  PROVE  Sound(collectPellet([s EXCEPT !.pacmanLoc = dest], dest))
<1> DEFINE there == [s EXCEPT !.pacmanLoc = dest]
<1>1. Sound(there)
  BY PlaceSound
<1>2. there.pacmanLoc = dest
  BY DEF Sound, gameState
<1> HIDE DEF there
<1>3. Sound(collectPellet(there, there.pacmanLoc))
  BY <1>1, PelletSound
<1> QED
  BY <1>2, <1>3 DEF there

LEMMA MovesSound ==
  ASSUME NEW s, Sound(s), NEW dest
  PROVE  /\ Sound(movePacmanDir(s, dest)) /\ Apart(movePacmanDir(s, dest))
         /\ Sound(walk(s, dest)) /\ Apart(walk(s, dest))
         /\ ~ s.pauseOnUpdate /\ dest \in Corridor =>
              Sound(jump(s, dest)) /\ Apart(jump(s, dest))
<1>1. Sound(movePacmanDir(s, dest)) /\ Apart(movePacmanDir(s, dest))
  BY EatThereSound, CollisionsSound DEF movePacmanDir, stopped, neighbors
<1>2. Sound(walk(s, dest)) /\ Apart(walk(s, dest))
  BY <1>1, CollisionsSound, PelletSound DEF walk
<1>3. ~ s.pauseOnUpdate /\ dest \in Corridor =>
        Sound(jump(s, dest)) /\ Apart(jump(s, dest))
  BY EatThereSound, CollisionsSound DEF jump
<1> QED
  BY <1>1, <1>2, <1>3

LEMMA StepSound ==
  ASSUME NEW s, Sound(s)
  PROVE  /\ Sound(handleStepEvents(s))
         /\ Apart(s) => Apart(handleStepEvents(s))
BY StepType, StepFields DEF Sound, OffMaze, Cleared, Halted, Apart

\* The ghosts enter the maze only once the pause is no longer pending.
LEMMA EnterSound ==
  ASSUME NEW s, Sound(s)
  PROVE  Sound(pauseIfPending(tryRespawnPacman(updateAllGhosts(s))))
<1> DEFINE u == updateAllGhosts(s)
           t == tryRespawnPacman(u)
           r == pauseIfPending(t)
<1> USE DEF Sound
<1>1. /\ u \in gameState
      /\ u.pacmanLoc = s.pacmanLoc /\ u.pauseOnUpdate = s.pauseOnUpdate
      /\ u.mode = s.mode /\ u.currLives = s.currLives
      /\ u.ghosts = [c \in Ghosts |-> update(s.ghosts[c])]
  BY AllGhostsType DEF updateAllGhosts, gameState
<1>2. OffMaze(u)
  <2> HIDE DEF u
  <2>1. \A c \in Ghosts : /\ u.ghosts[c].loc = s.ghosts[c].nextLoc
                          /\ u.ghosts[c].nextLoc = s.ghosts[c].nextLoc
                          /\ u.ghosts[c].eaten = FALSE
    <3>1. \A c \in Ghosts : u.ghosts[c] = update(s.ghosts[c])
      BY <1>1
    <3>2. ASSUME NEW g
          PROVE  /\ update(g).loc = g.nextLoc /\ update(g).nextLoc = g.nextLoc
                 /\ update(g).eaten = FALSE
      BY DEF update
    <3> QED
      BY <3>1, <3>2
  <2> QED
    BY <2>1 DEF OffMaze
<1> HIDE DEF u
<1>3. /\ t \in gameState
      /\ t.pacmanLoc = IF s.pacmanLoc = Empty /\ s.currLives > 0
                       THEN PacmanSpawn ELSE s.pacmanLoc
      /\ t.pauseOnUpdate = s.pauseOnUpdate
      /\ t.mode = s.mode /\ t.currLives = s.currLives
      /\ t.ghosts = u.ghosts
  <2>1. [u EXCEPT !.pacmanLoc = PacmanSpawn] \in gameState
    BY <1>1, ConstantTypes, FieldTypes
  <2> HIDE DEF Sound
  <2>2. CASE u.pacmanLoc = Empty /\ u.currLives > 0
    BY <1>1, <2>1, <2>2 DEF tryRespawnPacman, gameState
  <2>3. CASE ~ (u.pacmanLoc = Empty /\ u.currLives > 0)
    BY <1>1, <2>3 DEF tryRespawnPacman
  <2> QED
    BY <2>2, <2>3
<1> HIDE DEF t
<1>4. /\ r \in gameState
      /\ r.pacmanLoc = t.pacmanLoc /\ ~ r.pauseOnUpdate
      /\ isPaused(r) <=> isPaused(s) \/ s.pauseOnUpdate
      /\ r.currLives = s.currLives
      /\ r.ghosts = u.ghosts
  BY <1>3, PauseType DEF pauseIfPending, pause, isPaused, gameState
<1>5. OffMaze(r) /\ Cleared(r)
  BY <1>2, <1>4 DEF OffMaze, Cleared
<1>6. s.currLives \in Nat /\ PacmanSpawn # Empty
  BY ConstantTypes, MazeAssumption DEF gameState
<1>7. Halted(r)
  BY <1>3, <1>4, <1>6 DEF Halted
<1> QED
  BY <1>4, <1>5, <1>7 DEF r, t, u

LEMMA SteppedSound ==
  ASSUME NEW s, Sound(s)
  PROVE  Sound(stepped(s)) /\ Apart(stepped(s))
BY EnterSound, CollisionsSound, StepSound DEF stepped

LEMMA PlanSound ==
  ASSUME NEW s, Sound(s), NEW n \in plans(s)
  PROVE  /\ Sound(planAllGhosts(s, n))
         /\ Apart(s) => Apart(planAllGhosts(s, n))
<1> DEFINE r == planAllGhosts(s, n)
<1>1. r \in gameState
  BY AllGhostsType DEF Sound
<1>2. /\ r.pacmanLoc = s.pacmanLoc /\ r.pauseOnUpdate = s.pauseOnUpdate
      /\ r.mode = s.mode /\ r.currLives = s.currLives
  BY DEF planAllGhosts, Sound, gameState
<1>3. \A c \in Ghosts :
        /\ r.ghosts[c].loc = s.ghosts[c].loc
        /\ r.ghosts[c].eaten = s.ghosts[c].eaten
        /\ s.ghosts[c].loc = Empty => r.ghosts[c].nextLoc = s.ghosts[c].nextLoc
  <2>1. r.ghosts = n
    BY DEF planAllGhosts, Sound, gameState
  <2>2. \A c \in Ghosts : s.ghosts[c] \in ghostState /\ n[c] \in planned(s.ghosts[c])
    BY DEF plans, Sound, gameState
  <2> HIDE DEF r
  <2> QED BY <2>1, <2>2, PlanFields
<1> HIDE DEF r
<1>5. OffMaze(r)
  BY <1>3 DEF OffMaze, Sound
<1>6. Sound(r) /\ (Apart(s) => Apart(r))
  BY <1>1, <1>2, <1>3, <1>5 DEF Sound, Cleared, Halted, Apart, isPaused
<1> QED
  BY <1>6 DEF r

LEMMA NewGameSound ==
  LET r == handleStepEvents(updateAllGhosts(newGameState)) IN
  /\ Sound(newGameState) /\ Apart(newGameState)
  /\ Sound(r) /\ Apart(r)
<1> DEFINE u == updateAllGhosts(newGameState)
<1>1. PacmanSpawn # Empty
  BY MazeAssumption
<1>2. /\ newGameState.pacmanLoc = PacmanSpawn
      /\ newGameState.pauseOnUpdate = FALSE
      /\ newGameState.ghosts = [c \in Ghosts |-> newGhostState(c)]
  BY DEF newGameState
<1>3. Sound(newGameState) /\ Apart(newGameState)
  BY <1>1, <1>2, NewGameType
  DEF Sound, Apart, OffMaze, Cleared, Halted, newGhostState
<1>4. /\ u \in gameState
      /\ u.pacmanLoc = PacmanSpawn /\ u.pauseOnUpdate = FALSE
      /\ u.ghosts = [c \in Ghosts |-> update(newGhostState(c))]
  BY <1>2, NewGameType, AllGhostsType DEF updateAllGhosts, gameState
<1>5. \A c \in Ghosts :
        LET g == update(newGhostState(c)) IN
        /\ g.loc = IF c \in ActiveGhosts THEN GhostSpawn[c] ELSE Empty
        /\ g.nextLoc = g.loc /\ g.eaten = FALSE
  BY DEF update, newGhostState
<1> HIDE DEF u
<1>6. Sound(u) /\ Apart(u)
  BY <1>1, <1>4, <1>5, MazeAssumption DEF Sound, Apart, OffMaze, Cleared, Halted
<1> QED
  BY <1>3, <1>6, StepSound DEF u

LEMMA CommandsSound ==
  ASSUME NEW s, Sound(s), Apart(s),
         NEW r \in {pause(s), play(s), decrementLives(s), nextTick(s)}
  PROVE  Sound(r) /\ Apart(r)
<1> USE DEF Sound
<1>1. r \in gameState
  BY PauseType, PlayType, LivesType, TickType
<1>2. /\ r.pacmanLoc = s.pacmanLoc /\ r.pauseOnUpdate = s.pauseOnUpdate
      /\ r.ghosts = s.ghosts
  BY DEF pause, play, decrementLives, nextTick, gameState
<1>3. isPaused(s) /\ s.currLives = 0 => isPaused(r) /\ r.currLives = 0
  BY DEF pause, play, canPlay, decrementLives, dec, nextTick, gameState, isPaused
<1> QED
  BY <1>1, <1>2, <1>3 DEF OffMaze, Cleared, Halted, Apart

-----------------------------------------------------------------------------
(* The board theorem. *)

IInv == Sound(gs) /\ Apart(gs)

LEMMA Initially == Init => IInv
BY NewGameSound DEF Init, IInv

LEMMA Inductive == IInv /\ [Next]_vars => IInv'
<1> SUFFICES ASSUME IInv, [Next]_vars PROVE IInv'
  OBVIOUS
<1> USE DEF IInv
<1>0. \A s : Sound(s) /\ Apart(s) /\ gs' = s => IInv'
  BY DEF Sound, OffMaze, Cleared, Halted, Apart, isPaused
<1>1. \A s : Sound(s) /\ Apart(s) /\ Obey(s) => IInv'
  BY <1>0 DEF Obey
<1>2. CASE Update
  BY <1>0, <1>2, SteppedSound, PlanSound DEF Update
<1>3. CASE SkipUpdate
  BY <1>0, <1>3 DEF SkipUpdate
<1>4. CASE PauseCommand \/ PlayCommand \/ KillCommand
  BY <1>1, <1>4, CommandsSound DEF PauseCommand, PlayCommand, KillCommand
<1>5. CASE MoveCommand
  BY <1>1, <1>5, MovesSound DEF MoveCommand
<1>6. CASE JumpCommand
  BY <1>1, <1>6, MovesSound DEF JumpCommand, CanTrack, stopped
<1>7. \A dest : WalkTowards(dest) => IInv'
  BY <1>0, MovesSound DEF WalkTowards
<1>8. CASE WalkCommand \/ Walk
  BY <1>7, <1>8 DEF WalkCommand, Walk
<1>9. CASE RestartCommand
  BY <1>0, <1>9, NewGameSound, PlanSound DEF RestartCommand
<1>10. CASE Tick
  BY <1>0, <1>10, CommandsSound DEF Tick
<1>11. CASE UNCHANGED vars
  BY <1>0, <1>11 DEF vars
<1> QED
  BY <1>2, <1>3, <1>4, <1>5, <1>6, <1>8, <1>9, <1>10, <1>11
  DEF Next, RunLoop, Command

\* Between any two steps the board is consistent and no ghost is on Pacman's cell:
\* the strengthening that the three theorems below follow from.
THEOREM InductiveInvariant == Spec => []IInv
BY Initially, Inductive, PTL DEF Spec

\* No frame shows a ghost on Pacman's cell: checkCollisions runs after every
\* move of Pacman's and of the ghosts'.
THEOREM Collisions == Spec => []NoGhostOnPacman
<1>1. IInv => NoGhostOnPacman
  BY DEF IInv, Apart, NoGhostOnPacman
<1> QED
  BY <1>1, InductiveInvariant, PTL

\* deathReset and levelReset take everybody off the maze, and nobody is back
\* before the pause they ask for.
THEOREM Resets == Spec => []ResetClearsBoard
<1>1. IInv => ResetClearsBoard
  BY DEF IInv, Sound, Cleared, ResetClearsBoard
<1> QED
  BY <1>1, InductiveInvariant, PTL

\* With Pacman off the maze the game is about to pause, or paused for good.
THEOREM Away == Spec => []AwayIsHalted
<1>1. IInv => AwayIsHalted
  BY DEF IInv, Sound, Halted, AwayIsHalted
<1> QED
  BY <1>1, InductiveInvariant, PTL

-----------------------------------------------------------------------------
(* Pellets and fruit. *)

Counted(s) == s.numPellets = Cardinality(s.pellets) /\ s.numPellets > 0

FruitDue(s) ==
  s.fruitSteps > 0 =>
    \E t \in {FruitThreshold1, FruitThreshold2} : s.numPellets <= t

Book(s) == s \in gameState /\ Counted(s) /\ FruitDue(s)

\* The books are about these fields alone.
LEMMA SameBook ==
  ASSUME NEW s, Book(s), NEW r \in gameState,
         r.pellets = s.pellets, r.numPellets = s.numPellets,
         r.fruitSteps \in {0, dec(s.fruitSteps), s.fruitSteps}
  PROVE  Book(r)
BY DEF Book, Counted, FruitDue, gameState, dec

LEMMA CollisionsBook ==
  ASSUME NEW s, Book(s)
  PROVE  Book(checkCollisions(s))
<1> DEFINE r == checkCollisions(s)
<1>1. s \in gameState /\ r \in gameState
  BY CollisionsType DEF Book
<1>2. /\ r.pellets = s.pellets /\ r.numPellets = s.numPellets
      /\ r.fruitSteps \in {0, s.fruitSteps}
  <2>1. CASE r = deathReset(s)
    BY <1>1, <2>1, DeathFields
  <2>2. CASE r = respawnGhosts(s, colliding(s))
    BY <1>1, <2>2 DEF respawnGhosts, gameState
  <2> QED
    BY <2>1, <2>2 DEF checkCollisions
<1> QED
  BY <1>1, <1>2, SameBook

LEMMA PelletBook ==
  ASSUME NEW s, Book(s), NEW cell
  PROVE  Book(collectPellet(s, cell))
<1> DEFINE fed  == IF s.fruitSteps > 0 /\ s.pacmanLoc = FruitCell
                   THEN [s EXCEPT !.fruitSteps = 0] ELSE s
           less == [fed EXCEPT !.pellets = @ \ {cell}, !.numPellets = dec(@)]
           more == IF cell \in SuperPellets
                   THEN frightenAllGhosts(less) ELSE less
           fruit == IF /\ more.numPellets \in {FruitThreshold1, FruitThreshold2}
                       /\ more.fruitSteps = 0
                    THEN [more EXCEPT !.fruitSteps = FruitDuration] ELSE more
           r == collectPellet(s, cell)
<1>1. r \in gameState /\ s \in gameState
  BY PelletType DEF Book
<1>2. Book(fed)
  <2>1. 0 \in 0 .. FruitDuration
    BY ConstantTypes
  <2>2. [s EXCEPT !.fruitSteps = 0] \in gameState
    BY <1>1, <2>1, FieldTypes
  <2>3. Book([s EXCEPT !.fruitSteps = 0])
    BY <1>1, <2>2, SameBook DEF gameState
  <2> QED
    BY <2>3
<1>3. fed.pellets = s.pellets
  BY <1>1 DEF gameState
<1> HIDE DEF fed
<1>4. CASE cell \notin s.pellets
  BY <1>2, <1>4 DEF collectPellet, fed
<1>5. CASE cell \in s.pellets
  <2>1. less \in gameState
    <3>1. /\ fed.pellets \ {cell} \in SUBSET InitPellets
          /\ dec(fed.numPellets) \in Nat
      BY <1>2 DEF gameState, dec, Book
    <3> QED
      BY <1>2, <3>1, FieldTypes DEF Book
  <2>2. /\ less.numPellets = Cardinality(less.pellets)
        /\ FruitDue(less)
    <3>1. IsFiniteSet(fed.pellets)
      BY <1>2, RulesAssumption, FS_Subset DEF Book, gameState
    <3>2. Cardinality(fed.pellets \ {cell}) = Cardinality(fed.pellets) - 1
      BY <1>3, <1>5, <3>1, FS_RemoveElement
    <3>3. /\ less.pellets = fed.pellets \ {cell}
          /\ less.numPellets = fed.numPellets - 1
          /\ less.fruitSteps = fed.fruitSteps
      BY <1>2 DEF Book, Counted, gameState, dec
    <3>4. less.numPellets = Cardinality(less.pellets)
      BY <1>2, <3>2, <3>3 DEF Book, Counted
    <3> HIDE DEF less
    <3>5. FruitDue(less)
      BY <1>2, <3>3, RulesAssumption DEF Book, FruitDue, gameState
    <3> QED
      BY <3>4, <3>5
  <2> HIDE DEF less
  <2>3. /\ more \in gameState
        /\ more.numPellets = Cardinality(more.pellets)
        /\ FruitDue(more)
    BY <2>1, <2>2, AllGhostsType DEF frightenAllGhosts, FruitDue, gameState
  <2>4. r = pelletEvents(more)
    BY <1>5 DEF collectPellet, fed, less
  <2> HIDE DEF more
  <2>5. /\ fruit \in gameState
        /\ fruit.numPellets = more.numPellets
        /\ fruit.numPellets = Cardinality(fruit.pellets)
        /\ FruitDue(fruit)
    <3>1. FruitDuration \in 0 .. FruitDuration
      BY ConstantTypes
    <3>2. [more EXCEPT !.fruitSteps = FruitDuration] \in gameState
      BY <2>3, <3>1, FieldTypes
    <3> QED
      BY <2>3, <3>2, RulesAssumption DEF FruitDue, gameState
  <2> HIDE DEF fruit
  <2>6. CASE more.numPellets \in {AngerThreshold1, AngerThreshold2}
    <3> DEFINE angry == startMode(speedUp(fruit), "chase")
    <3>1. r = angry
      BY <2>4, <2>6 DEF pelletEvents, fruit
    <3>2. /\ angry.numPellets = fruit.numPellets
          /\ angry.pellets = fruit.pellets
          /\ angry.fruitSteps = fruit.fruitSteps
      BY <2>5 DEF startMode, speedUp, gameState
    <3>3. Book(fruit)
      BY <2>5, <2>6, RulesAssumption DEF Book, Counted
    <3> QED
      BY <1>1, <3>1, <3>2, <3>3, SameBook
  <2>7. CASE /\ more.numPellets \notin {AngerThreshold1, AngerThreshold2}
             /\ more.numPellets = 0
    <3>1. r = incrementLevel(levelReset(fruit))
      BY <2>4, <2>7 DEF pelletEvents, fruit
    <3>2. /\ r.pellets = InitPellets /\ r.fruitSteps = 0
          /\ r.numPellets = Cardinality(InitPellets)
      BY <2>5, <3>1, LevelResetFields
    <3> QED
      BY <1>1, <3>2, ConstantTypes DEF Book, Counted, FruitDue
  <2>8. CASE /\ more.numPellets \notin {AngerThreshold1, AngerThreshold2}
             /\ more.numPellets # 0
    <3>1. r = fruit
      BY <2>4, <2>8 DEF pelletEvents, fruit
    <3> QED
      BY <2>5, <2>8, <3>1 DEF Book, Counted, gameState
  <2> QED
    BY <2>6, <2>7, <2>8
<1> QED
  BY <1>4, <1>5

\* Everything else leaves the pellets alone and at most takes the fruit away.
LEMMA OthersBook ==
  ASSUME NEW s, Book(s)
  PROVE  /\ \A r \in {pause(s), play(s), decrementLives(s), nextTick(s),
                     pauseIfPending(s), tryRespawnPacman(s),
                     updateAllGhosts(s), handleStepEvents(s)} : Book(r)
         /\ \A n \in plans(s) : Book(planAllGhosts(s, n))
         /\ \A dest \in Corridor : Book([s EXCEPT !.pacmanLoc = dest])
<1>0. s \in gameState
  BY DEF Book
<1>1. \A r \in {pause(s), play(s), decrementLives(s), nextTick(s),
               pauseIfPending(s), tryRespawnPacman(s)} :
        r.pellets = s.pellets /\ r.numPellets = s.numPellets
          /\ r.fruitSteps = s.fruitSteps
  <2> DEFINE Same(r) == /\ r.pellets = s.pellets /\ r.numPellets = s.numPellets
                        /\ r.fruitSteps = s.fruitSteps
  <2>1. Same(pause(s)) /\ Same(play(s))
    BY <1>0 DEF pause, play, gameState
  <2>2. Same(decrementLives(s)) /\ Same(tryRespawnPacman(s))
    BY <1>0 DEF decrementLives, tryRespawnPacman, gameState
  <2>3. Same(nextTick(s))
    <3>1. pause(s) \in gameState
      BY <1>0, PauseType
    <3>2. \A r \in gameState : LET q == [r EXCEPT !.currTicks = @ + 1] IN
            /\ q.pellets = r.pellets /\ q.numPellets = r.numPellets
            /\ q.fruitSteps = r.fruitSteps
      BY DEF gameState
    <3> QED
      BY <1>0, <2>1, <3>1, <3>2 DEF nextTick
  <2>4. Same(pauseIfPending(s))
    BY <1>0 DEF pauseIfPending, pause, gameState
  <2> QED
    BY <2>1, <2>2, <2>3, <2>4
<1>2. tryRespawnPacman(s) \in gameState
  BY <1>0, ConstantTypes, FieldTypes DEF tryRespawnPacman
<1>3. \A r \in {pause(s), play(s), decrementLives(s), nextTick(s),
               pauseIfPending(s), tryRespawnPacman(s)} : Book(r)
  BY <1>0, <1>1, <1>2, PauseType, PlayType, LivesType, TickType, SameBook
<1>4. Book(updateAllGhosts(s))
  BY <1>0, AllGhostsType, SameBook DEF updateAllGhosts, gameState
<1>5. Book(handleStepEvents(s))
  BY <1>0, StepType, StepFields, SameBook
<1>6. ASSUME NEW n \in plans(s) PROVE Book(planAllGhosts(s, n))
  <2>1. planAllGhosts(s, n) \in gameState
    BY <1>0, AllGhostsType
  <2>2. /\ planAllGhosts(s, n).pellets = s.pellets
        /\ planAllGhosts(s, n).numPellets = s.numPellets
        /\ planAllGhosts(s, n).fruitSteps = s.fruitSteps
    BY <1>0 DEF planAllGhosts, gameState
  <2> QED
    BY <2>1, <2>2, SameBook
<1>7. \A dest \in Corridor : Book([s EXCEPT !.pacmanLoc = dest])
  BY <1>0, FieldTypes, SameBook DEF gameState
<1> QED
  BY <1>3, <1>4, <1>5, <1>6, <1>7

LEMMA MovesBook ==
  ASSUME NEW s, Book(s), NEW dest
  PROVE  /\ Book(movePacmanDir(s, dest))
         /\ Book(walk(s, dest))
         /\ dest \in Corridor => Book(jump(s, dest))
<1>1. dest \in Corridor => Book(collectPellet([s EXCEPT !.pacmanLoc = dest], dest))
  BY OthersBook, PelletBook
<1>2. Book(movePacmanDir(s, dest))
  BY <1>1, CollisionsBook DEF movePacmanDir, neighbors
<1>3. Book(walk(s, dest))
  BY <1>2, CollisionsBook, PelletBook DEF walk
<1>4. dest \in Corridor => Book(jump(s, dest))
  BY <1>1, CollisionsBook DEF jump
<1> QED
  BY <1>2, <1>3, <1>4

LEMMA NewGameBook == Book(newGameState)
<1>1. /\ newGameState.numPellets = Cardinality(InitPellets)
      /\ newGameState.pellets = InitPellets
      /\ newGameState.fruitSteps = 0
  BY DEF newGameState
<1> QED
  BY <1>1, NewGameType, ConstantTypes DEF Book, Counted, FruitDue

LEMMA BookInvariant == Spec => []Book(gs)
<1>1. Init => Book(gs)
  BY NewGameBook DEF Init
<1>2. Book(gs) /\ [Next]_vars => Book(gs)'
  <2> SUFFICES ASSUME Book(gs), [Next]_vars PROVE Book(gs)'
    OBVIOUS
  <2>0. \A s : Book(s) /\ gs' = s => Book(gs)'
    BY DEF Book, Counted, FruitDue
  <2>1. \A s : Book(s) /\ Obey(s) => Book(gs)'
    BY <2>0 DEF Obey
  <2>2. CASE Update
    <3>1. Book(stepped(gs))
      BY OthersBook, CollisionsBook DEF stepped
    <3> QED
      BY <2>0, <2>2, <3>1, OthersBook DEF Update
  <2>3. CASE SkipUpdate
    BY <2>0, <2>3 DEF SkipUpdate
  <2>4. CASE PauseCommand \/ PlayCommand \/ KillCommand
    BY <2>1, <2>4, OthersBook DEF PauseCommand, PlayCommand, KillCommand
  <2>5. CASE MoveCommand
    BY <2>1, <2>5, MovesBook DEF MoveCommand
  <2>6. CASE JumpCommand
    BY <2>1, <2>6, MovesBook DEF JumpCommand
  <2>7. \A dest : WalkTowards(dest) => Book(gs)'
    BY <2>0, MovesBook DEF WalkTowards
  <2>8. CASE WalkCommand \/ Walk
    BY <2>7, <2>8 DEF WalkCommand, Walk
  <2>9. CASE RestartCommand
    <3>1. Book(handleStepEvents(updateAllGhosts(newGameState)))
      BY NewGameBook, OthersBook
    <3> QED
      BY <2>0, <2>9, <3>1, OthersBook DEF RestartCommand
  <2>10. CASE Tick
    BY <2>0, <2>10, OthersBook DEF Tick
  <2>11. CASE UNCHANGED vars
    BY <2>0, <2>11 DEF vars
  <2> QED
    BY <2>2, <2>3, <2>4, <2>5, <2>6, <2>8, <2>9, <2>10, <2>11
    DEF Next, RunLoop, Command
<1> QED
  BY <1>1, <1>2, PTL DEF Spec

\* collectPellet keeps the counter and the bits together, and a level that is
\* cleared is refilled in the same call.
THEOREM Pellets == Spec => []PelletCount
<1>1. Book(gs) => PelletCount
  BY DEF Book, Counted, PelletCount
<1> QED
  BY <1>1, BookInvariant, PTL

\* levelReset and deathReset take the fruit with them.
THEOREM Fruit == Spec => []FruitOnItsBoard
<1>1. Book(gs) => FruitOnItsBoard
  BY DEF Book, FruitDue, FruitOnItsBoard
<1> QED
  BY <1>1, BookInvariant, PTL

-----------------------------------------------------------------------------
(* Ghosts eaten in a row.  A catch adds to the combo what it takes from the  *)
(* edible ghosts; Sound says that only ghosts in play are ever caught.       *)

Combo(s) == s.ghostCombo + Cardinality(edible(s)) <= Cardinality(ActiveGhosts)

LEMMA EdibleFinite ==
  ASSUME NEW s, NEW T \in SUBSET edible(s)
  PROVE  /\ IsFiniteSet(T) /\ IsFiniteSet(edible(s)) /\ IsFiniteSet(ActiveGhosts)
         /\ Cardinality(T) \in Nat /\ Cardinality(edible(s)) \in Nat
         /\ Cardinality(ActiveGhosts) \in Nat
         /\ Cardinality(T) <= Cardinality(edible(s))
         /\ Cardinality(edible(s)) <= Cardinality(ActiveGhosts)
<1>1. IsFiniteSet(ActiveGhosts)
  BY MazeAssumption, FS_Subset
<1>2. edible(s) \in SUBSET ActiveGhosts
  BY DEF edible
<1>3. /\ IsFiniteSet(edible(s))
      /\ Cardinality(edible(s)) <= Cardinality(ActiveGhosts)
  BY <1>1, <1>2, FS_Subset
<1>4. IsFiniteSet(T) /\ Cardinality(T) <= Cardinality(edible(s))
  BY <1>3, FS_Subset
<1> QED
  BY <1>1, <1>3, <1>4, FS_CardinalityType

LEMMA FewerEdible ==
  ASSUME NEW s \in gameState, Combo(s), NEW r \in gameState,
         r.ghostCombo = s.ghostCombo, edible(r) \subseteq edible(s)
  PROVE  Combo(r)
<1>1. /\ Cardinality(edible(r)) <= Cardinality(edible(s))
      /\ Cardinality(edible(r)) \in Nat /\ Cardinality(edible(s)) \in Nat
      /\ Cardinality(ActiveGhosts) \in Nat
  BY EdibleFinite
<1> QED
  BY <1>1 DEF Combo, gameState

LEMMA NoCombo ==
  ASSUME NEW r \in gameState, r.ghostCombo = 0
  PROVE  Combo(r)
<1>1. /\ Cardinality(edible(r)) \in Nat
      /\ Cardinality(edible(r)) <= Cardinality(ActiveGhosts)
  BY EdibleFinite
<1> QED
  BY <1>1 DEF Combo

LEMMA SameGhosts ==
  ASSUME NEW s \in gameState, Combo(s), NEW r \in gameState,
         r.ghostCombo = s.ghostCombo, r.ghosts = s.ghosts
  PROVE  Combo(r)
BY FewerEdible DEF edible

LEMMA CollisionsCombo ==
  ASSUME NEW s, Sound(s), Combo(s)
  PROVE  Combo(checkCollisions(s))
<1> DEFINE hit == colliding(s)
           r == respawnGhosts(s, hit)
<1>0. s \in gameState
  BY DEF Sound
<1>1. CASE checkCollisions(s) = deathReset(s)
  BY <1>0, <1>1, DeathType, DeathFields, NoCombo
<1>2. CASE /\ checkCollisions(s) = r
           /\ \A c \in hit : isFrightened(s.ghosts[c])
  <2>1. \A c \in hit : c \in Ghosts /\ c \in edible(s)
    BY <1>2 DEF colliding, edible, Sound, OffMaze
  <2>2. /\ r.ghostCombo = s.ghostCombo + Cardinality(hit)
        /\ r.ghosts = [c \in Ghosts |-> IF c \in hit
                                       THEN respawn(c, s.ghosts[c])
                                       ELSE s.ghosts[c]]
    BY <1>0 DEF respawnGhosts, gameState
  <2>3. \A c \in hit : respawn(c, s.ghosts[c]).eaten
    BY <1>0, <2>1 DEF respawn, edible, gameState, ghostState
  <2>4. \A c \in ActiveGhosts : c \in edible(r) <=> c \in edible(s) /\ c \notin hit
    <3> HIDE DEF r, hit
    <3>1. ASSUME NEW c \in ActiveGhosts, c \in hit PROVE c \notin edible(r)
      BY <2>2, <2>3, <3>1, MazeAssumption DEF edible
    <3>2. ASSUME NEW c \in ActiveGhosts, c \notin hit
          PROVE  c \in edible(r) <=> c \in edible(s)
      <4>1. r.ghosts[c] = s.ghosts[c]
        BY <2>2, <3>2, MazeAssumption
      <4> QED
        BY <4>1 DEF edible
    <3> QED
      BY <3>1, <3>2
  <2> HIDE DEF r, hit
  <2>5. edible(r) = edible(s) \ hit
    BY <2>4 DEF edible
  <2>6. /\ edible(r) \cup hit = edible(s)
        /\ edible(r) \cap hit = {}
        /\ edible(r) \in SUBSET edible(s) /\ hit \in SUBSET edible(s)
    BY <2>1, <2>5
  <2>7. /\ IsFiniteSet(edible(r)) /\ IsFiniteSet(hit)
        /\ Cardinality(edible(r)) \in Nat /\ Cardinality(hit) \in Nat
        /\ Cardinality(edible(s)) \in Nat /\ Cardinality(ActiveGhosts) \in Nat
    BY <2>6, EdibleFinite
  <2>8. Cardinality(edible(s)) =
          Cardinality(edible(r)) + Cardinality(hit) - Cardinality({})
    BY <2>6, <2>7, FS_Union
  <2>9. Combo(r)
    BY <1>0, <2>2, <2>7, <2>8, FS_EmptySet DEF Combo, gameState
  <2> QED
    BY <1>2, <2>9
<1>3. CASE checkCollisions(s) = s
  BY <1>3
<1> QED
  BY <1>1, <1>2, <1>3 DEF checkCollisions

LEMMA PelletCombo ==
  ASSUME NEW s \in gameState, Combo(s), NEW cell
  PROVE  Combo(collectPellet(s, cell))
<1> DEFINE fed  == IF s.fruitSteps > 0 /\ s.pacmanLoc = FruitCell
                   THEN [s EXCEPT !.fruitSteps = 0] ELSE s
           less == [fed EXCEPT !.pellets = @ \ {cell}, !.numPellets = dec(@)]
           more == IF cell \in SuperPellets
                   THEN frightenAllGhosts(less) ELSE less
           fruit == IF /\ more.numPellets \in {FruitThreshold1, FruitThreshold2}
                       /\ more.fruitSteps = 0
                    THEN [more EXCEPT !.fruitSteps = FruitDuration] ELSE more
           r == collectPellet(s, cell)
           Still(q) == q \in gameState /\ Combo(q)
<1>1. r \in gameState
  BY PelletType
<1>2. Still(fed)
  <2>1. 0 \in 0 .. FruitDuration
    BY ConstantTypes
  <2>2. [s EXCEPT !.fruitSteps = 0] \in gameState
    BY <2>1, FieldTypes
  <2>3. Combo([s EXCEPT !.fruitSteps = 0])
    BY <2>2, SameGhosts DEF gameState
  <2> QED
    BY <2>2, <2>3
<1> HIDE DEF fed
<1>3. Still(less)
  <2>1. /\ fed.pellets \ {cell} \in SUBSET InitPellets
        /\ dec(fed.numPellets) \in Nat
    BY <1>2 DEF gameState, dec
  <2>2. less \in gameState
    BY <1>2, <2>1, FieldTypes
  <2>3. less.ghostCombo = fed.ghostCombo /\ less.ghosts = fed.ghosts
    BY <1>2 DEF gameState
  <2> HIDE DEF less
  <2> QED
    BY <1>2, <2>2, <2>3, SameGhosts
<1> HIDE DEF less
<1>4. Still(more)
  <2>1. frightenAllGhosts(less) \in gameState
    BY <1>3, AllGhostsType
  <2>2. frightenAllGhosts(less).ghostCombo = 0
    BY <1>3 DEF frightenAllGhosts, gameState
  <2> QED
    BY <1>3, <2>1, <2>2, NoCombo
<1> HIDE DEF more
<1>5. Still(fruit)
  <2>1. FruitDuration \in 0 .. FruitDuration
    BY ConstantTypes
  <2>2. [more EXCEPT !.fruitSteps = FruitDuration] \in gameState
    BY <1>4, <2>1, FieldTypes
  <2>3. Combo([more EXCEPT !.fruitSteps = FruitDuration])
    BY <1>4, <2>2, SameGhosts DEF gameState
  <2> QED
    BY <1>4, <2>2, <2>3
<1> HIDE DEF fruit
<1>6. CASE r = startMode(speedUp(fruit), "chase")
  <2>1. /\ startMode(speedUp(fruit), "chase").ghostCombo = fruit.ghostCombo
        /\ startMode(speedUp(fruit), "chase").ghosts = fruit.ghosts
    BY <1>5 DEF startMode, speedUp, gameState
  <2> QED
    BY <1>1, <1>5, <1>6, <2>1, SameGhosts
<1>7. CASE r = incrementLevel(levelReset(fruit))
  BY <1>1, <1>5, <1>7, LevelResetFields, NoCombo
<1>8. CASE r \in {fed, fruit}
  BY <1>2, <1>5, <1>8
<1>9. r = fed \/ r = pelletEvents(more)
  BY DEF collectPellet, fed, less, more
<1>10. \/ pelletEvents(more) = startMode(speedUp(fruit), "chase")
       \/ pelletEvents(more) = incrementLevel(levelReset(fruit))
       \/ pelletEvents(more) = fruit
  BY DEF pelletEvents, fruit
<1> QED
  BY <1>6, <1>7, <1>8, <1>9, <1>10

\* Sound and Combo together, through each operation.
Caught(s) == Sound(s) /\ Combo(s)

LEMMA PlaceCaught ==
  ASSUME NEW s, Caught(s), ~ s.pauseOnUpdate, NEW dest \in Corridor
  PROVE  Caught(collectPellet([s EXCEPT !.pacmanLoc = dest], dest))
<1>1. [s EXCEPT !.pacmanLoc = dest] \in gameState /\ s \in gameState
  BY FieldTypes DEF Caught, Sound
<1>2. Combo([s EXCEPT !.pacmanLoc = dest])
  BY <1>1, SameGhosts DEF Caught, gameState
<1> QED
  BY <1>1, <1>2, PelletCombo, EatThereSound DEF Caught

LEMMA MovesCaught ==
  ASSUME NEW s, Caught(s), NEW dest
  PROVE  /\ Caught(movePacmanDir(s, dest))
         /\ Caught(walk(s, dest))
         /\ ~ s.pauseOnUpdate /\ dest \in Corridor => Caught(jump(s, dest))
<1>1. \A r : Caught(r) => Caught(checkCollisions(r))
  BY CollisionsSound, CollisionsCombo DEF Caught
<1>2. Caught(movePacmanDir(s, dest))
  BY <1>1, PlaceCaught DEF movePacmanDir, stopped, neighbors
<1>3. \A r : Caught(r) => Caught(collectPellet(r, r.pacmanLoc))
  BY PelletSound, PelletCombo DEF Caught, Sound
<1>4. Caught(walk(s, dest))
  BY <1>1, <1>2, <1>3 DEF walk
<1>5. ~ s.pauseOnUpdate /\ dest \in Corridor => Caught(jump(s, dest))
  BY <1>1, PlaceCaught DEF jump
<1> QED
  BY <1>2, <1>4, <1>5

LEMMA CommandsCaught ==
  ASSUME NEW s, Caught(s), Apart(s),
         NEW r \in {pause(s), play(s), decrementLives(s), nextTick(s)}
  PROVE  Caught(r)
<1>1. s \in gameState /\ Sound(r) /\ r \in gameState
  BY CommandsSound DEF Caught, Sound
<1>2. r.ghosts = s.ghosts /\ r.ghostCombo = s.ghostCombo
  BY <1>1 DEF pause, play, decrementLives, nextTick, gameState
<1> QED
  BY <1>1, <1>2, SameGhosts DEF Caught

LEMMA StepCaught ==
  ASSUME NEW s, Caught(s)
  PROVE  Caught(handleStepEvents(s))
<1>1. s \in gameState /\ handleStepEvents(s) \in gameState
  BY StepType DEF Caught, Sound
<1> QED
  BY <1>1, StepSound, StepFields, SameGhosts DEF Caught

LEMMA UpdateCombo ==
  ASSUME NEW s \in gameState, Combo(s)
  PROVE  Combo(updateAllGhosts(s))
<1> DEFINE u == updateAllGhosts(s)
<1>1. u \in gameState /\ u.ghostCombo = s.ghostCombo
  BY AllGhostsType DEF updateAllGhosts, gameState
<1>2. \A c \in Ghosts :
        /\ u.ghosts[c].frightSteps = IF s.ghosts[c].eaten THEN 0
                                     ELSE dec(s.ghosts[c].frightSteps)
        /\ s.ghosts[c].frightSteps \in Nat
  BY DEF updateAllGhosts, update, gameState, ghostState
<1> HIDE DEF u
<1>3. edible(u) \subseteq edible(s)
  BY <1>2, MazeAssumption DEF edible, isFrightened, dec
<1>4. Combo(u)
  BY <1>1, <1>3, FewerEdible
<1> QED
  BY <1>4 DEF u

LEMMA EnterCaught ==
  ASSUME NEW s, Caught(s)
  PROVE  Caught(pauseIfPending(tryRespawnPacman(updateAllGhosts(s))))
<1> DEFINE u == updateAllGhosts(s)
           t == tryRespawnPacman(u)
           r == pauseIfPending(t)
<1>1. u \in gameState /\ Combo(u)
  BY AllGhostsType, UpdateCombo DEF Caught, Sound
<1> HIDE DEF u
<1>2. t \in gameState /\ t.ghosts = u.ghosts /\ t.ghostCombo = u.ghostCombo
  BY <1>1, ConstantTypes, FieldTypes DEF tryRespawnPacman, gameState
<1> HIDE DEF t
<1>3. r \in gameState /\ r.ghosts = t.ghosts /\ r.ghostCombo = t.ghostCombo
  BY <1>2, PauseType DEF pauseIfPending, pause, gameState
<1> HIDE DEF r
<1>4. Combo(r)
  BY <1>1, <1>2, <1>3, SameGhosts
<1> QED
  BY <1>4, EnterSound DEF Caught, r, t, u

LEMMA PlanCaught ==
  ASSUME NEW s, Caught(s), NEW n \in plans(s)
  PROVE  Caught(planAllGhosts(s, n))
<1> DEFINE r == planAllGhosts(s, n)
<1>1. s \in gameState /\ r \in gameState /\ r.ghostCombo = s.ghostCombo
  BY AllGhostsType DEF Caught, Sound, planAllGhosts, gameState
<1>2. \A c \in Ghosts : /\ r.ghosts[c].frightSteps = s.ghosts[c].frightSteps
                        /\ r.ghosts[c].eaten = s.ghosts[c].eaten
  <2>1. r.ghosts = n
    BY <1>1 DEF planAllGhosts, gameState
  <2>2. \A c \in Ghosts : s.ghosts[c] \in ghostState /\ n[c] \in planned(s.ghosts[c])
    BY <1>1 DEF plans, gameState
  <2> HIDE DEF r
  <2> QED BY <2>1, <2>2, PlanFields
<1> HIDE DEF r
<1>3. edible(r) \subseteq edible(s)
  BY <1>2, MazeAssumption DEF edible, isFrightened
<1>4. Combo(r)
  BY <1>1, <1>3, FewerEdible DEF Caught
<1> QED
  BY <1>4, PlanSound DEF Caught, r

LEMMA NewGameCaught ==
  Caught(newGameState) /\ Caught(handleStepEvents(updateAllGhosts(newGameState)))
<1>1. newGameState \in gameState /\ newGameState.ghostCombo = 0
  BY NewGameType DEF newGameState
<1>2. LET u == updateAllGhosts(newGameState) IN
      u \in gameState /\ u.ghostCombo = 0
  <2>1. ASSUME NEW s \in gameState
        PROVE  /\ updateAllGhosts(s) \in gameState
               /\ updateAllGhosts(s).ghostCombo = s.ghostCombo
    BY AllGhostsType DEF updateAllGhosts, gameState
  <2> QED
    BY <1>1, <2>1
<1>3. LET r == handleStepEvents(updateAllGhosts(newGameState)) IN
      r \in gameState /\ r.ghostCombo = 0
  BY <1>2, StepType, StepFields
<1> QED
  BY <1>1, <1>3, NoCombo, NewGameSound DEF Caught

LEMMA ComboInvariant == Spec => [](Caught(gs) /\ Apart(gs))
<1> DEFINE Inv == Caught(gs) /\ Apart(gs)
<1>1. Init => Inv
  BY NewGameCaught, NewGameSound DEF Init
<1>2. Inv /\ [Next]_vars => Inv'
  <2> SUFFICES ASSUME Inv, [Next]_vars PROVE Inv'
    OBVIOUS
  <2>0. IInv /\ IInv'
    BY Inductive DEF IInv, Caught
  <2>1. \A s : Combo(s) /\ gs' = s => Combo(gs)'
    BY DEF Combo, edible, isFrightened
  <2>2. SUFFICES Combo(gs)'
    BY <2>0 DEF IInv, Caught
  <2>3. \A s : Caught(s) /\ gs' = s => Combo(gs)'
    BY <2>1 DEF Caught
  <2>4. CASE Update
    <3>1. Caught(stepped(gs))
      BY EnterCaught, CollisionsSound, CollisionsCombo, StepCaught
      DEF stepped, Caught
    <3> QED
      BY <2>3, <2>4, <3>1, PlanCaught DEF Update
  <2>5. CASE SkipUpdate
    BY <2>3, <2>5 DEF SkipUpdate
  <2>6. CASE PauseCommand \/ PlayCommand \/ KillCommand
    BY <2>3, <2>6, CommandsCaught
    DEF PauseCommand, PlayCommand, KillCommand, Obey
  <2>7. CASE MoveCommand
    BY <2>3, <2>7, MovesCaught DEF MoveCommand, Obey
  <2>8. CASE JumpCommand
    BY <2>3, <2>8, MovesCaught DEF JumpCommand, Obey, CanTrack, stopped
  <2>9. CASE WalkCommand \/ Walk
    BY <2>3, <2>9, MovesCaught DEF WalkCommand, Walk, WalkTowards
  <2>10. CASE RestartCommand
    BY <2>3, <2>10, NewGameCaught, PlanCaught DEF RestartCommand
  <2>11. CASE Tick
    BY <2>3, <2>11, CommandsCaught DEF Tick
  <2>12. CASE UNCHANGED vars
    BY <2>3, <2>12 DEF vars
  <2> QED
    BY <2>4, <2>5, <2>6, <2>7, <2>8, <2>9, <2>10, <2>11, <2>12
    DEF Next, RunLoop, Command
<1> QED
  BY <1>1, <1>2, PTL DEF Spec

\* However many power pellets overlap, the ghosts eaten since the last one
\* never outnumber the ghosts in play.
THEOREM Catches == Spec => []EatenOncePerFright
<1>1. Caught(gs) => EatenOncePerFright
  BY DEF Caught, Combo, EatenOncePerFright
<1> QED
  BY <1>1, ComboInvariant, PTL
=============================================================================
