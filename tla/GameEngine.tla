----------------------------- MODULE GameEngine -----------------------------
(***************************************************************************)
(* GameEngine.RunLoop over the rules of GameRules: an iteration updates    *)
(* the game if its tick calls for it, sends the frame, obeys the commands  *)
(* the clients have queued, in whatever order they come, and moves to the  *)
(* next tick.  One goroutine owns the state, so an action is a whole call; *)
(* the walk along a tracked path takes one action per loop iteration.      *)
(***************************************************************************)
EXTENDS GameRules

VARIABLES
  gs,          \* ge.state
  justTicked,
  pc,          \* "update", "commands", or "walking" a tracked path
  target       \* where movePacmanAbsolute is walking to

vars == <<gs, justTicked, pc, target>>

Init ==
  /\ gs = newGameState
  /\ justTicked = TRUE
  /\ pc = "update"
  /\ target = Empty

-----------------------------------------------------------------------------
(* Steps 1 to 4: the update and the frame. *)

\* Mutant of stepped: collisions are checked before the ghosts move.
steppedCheckFirst(s) ==
  handleStepEvents(pauseIfPending(tryRespawnPacman(updateAllGhosts(
    checkCollisions(s)))))

stepped(s) ==
  handleStepEvents(checkCollisions(pauseIfPending(
    tryRespawnPacman(updateAllGhosts(s)))))

Update ==
  /\ pc = "update" /\ justTicked /\ updateReady(gs)
  /\ \E n \in plans(stepped(gs)) : gs' = planAllGhosts(stepped(gs), n)
  /\ pc' = "commands"
  /\ UNCHANGED <<justTicked, target>>

SkipUpdate ==
  /\ pc = "update" /\ ~ (justTicked /\ updateReady(gs))
  /\ pc' = "commands"
  /\ UNCHANGED <<gs, justTicked, target>>

-----------------------------------------------------------------------------
(* Step 5: the commands of interpretCommand. *)

Obey(s) ==
  /\ pc = "commands"
  /\ gs' = s
  /\ UNCHANGED <<justTicked, pc, target>>

PauseCommand == Obey(pause(gs))

PlayCommand == Obey(play(gs))

KillCommand == Obey(decrementLives(gs))

\* The direction leads to a neighbor or, the cell itself, into a wall.
MoveCommand ==
  \E dest \in neighbors(gs.pacmanLoc) \cup {gs.pacmanLoc} :
    Obey(movePacmanDir(gs, dest))

\* movePacmanAbsolute, up to the choice between a jump and a walk.
CanTrack(dest) ==
  /\ pc = "commands" /\ ~ stopped(gs)
  /\ gs.pacmanLoc \notin {Empty, dest}

JumpCommand ==
  \E dest \in Corridor :
    /\ CanTrack(dest) /\ Dist[gs.pacmanLoc][dest] > LongPath
    /\ Obey(jump(gs, dest))

\* One iteration of the walk.  A death or a cleared level on the way makes the
\* rest of it idle.
WalkTowards(dest) ==
  /\ \E n \in findLikelyPath(gs.pacmanLoc, dest) : gs' = walk(gs, n)
  /\ IF gs'.pacmanLoc \in {Empty, dest}
     THEN pc' = "commands" /\ target' = Empty
     ELSE pc' = "walking" /\ target' = dest
  /\ UNCHANGED justTicked

WalkCommand ==
  \E dest \in Corridor :
    /\ CanTrack(dest) /\ Dist[gs.pacmanLoc][dest] <= LongPath
    /\ WalkTowards(dest)

Walk == pc = "walking" /\ WalkTowards(target)

RestartCommand ==
  /\ pc = "commands"
  /\ LET fresh == handleStepEvents(updateAllGhosts(newGameState))
     IN  \E n \in plans(fresh) : gs' = planAllGhosts(fresh, n)
  /\ justTicked' = TRUE
  /\ UNCHANGED <<pc, target>>

-----------------------------------------------------------------------------
(* Step 6: the next tick. *)

\* Mutant of Tick: a paused iteration counts as a tick.
TickWhilePaused ==
  /\ pc = "commands"
  /\ gs' = IF isPaused(gs) THEN gs ELSE nextTick(gs)
  /\ justTicked' = TRUE
  /\ pc' = "update"
  /\ UNCHANGED target

Tick ==
  /\ pc = "commands"
  /\ gs' = IF isPaused(gs) THEN gs ELSE nextTick(gs)
  /\ justTicked' = ~ isPaused(gs)
  /\ pc' = "update"
  /\ UNCHANGED target

Command ==
  \/ PauseCommand \/ PlayCommand \/ KillCommand \/ MoveCommand
  \/ JumpCommand \/ WalkCommand \/ RestartCommand

RunLoop == Update \/ SkipUpdate \/ Walk \/ Tick

Next == RunLoop \/ Command

\* The ticker drives the loop, and the clients never keep its inner loop,
\* which ends as soon as no command is queued, from ending.
Fairness == WF_vars(RunLoop)

Spec == Init /\ [][Next]_vars

FairSpec == Spec /\ Fairness

-----------------------------------------------------------------------------
(* Properties. *)

TypeOK ==
  /\ gs \in gameState
  /\ justTicked \in BOOLEAN
  /\ pc \in {"update", "commands", "walking"}
  /\ target \in Corridor \cup {Empty}

\* No frame ever shows a ghost on Pacman's cell: every step that moves Pacman
\* or the ghosts resolves the collisions it causes (checkCollisions is called
\* by the update, by movePacmanDir and by movePacmanAbsolute).
NoGhostOnPacman ==
  \A c \in Ghosts : gs.pacmanLoc # Empty => gs.ghosts[c].loc # gs.pacmanLoc

\* A power pellet lets Pacman eat each ghost once: the ghosts eaten since the
\* last one and those that can still be eaten are together never more than
\* the ghosts in play, so the score of a catch (comboMultiplier << ghostCombo)
\* stays within its sixteen bits.
edible(s) == {c \in ActiveGhosts : /\ isFrightened(s.ghosts[c])
                                   /\ ~ s.ghosts[c].eaten}

EatenOncePerFright ==
  gs.ghostCombo + Cardinality(edible(gs)) <= Cardinality(ActiveGhosts)

\* A death or a cleared level resets the whole board at once: while the pause
\* it asks for is pending, neither Pacman nor any ghost is on the maze.
ResetClearsBoard ==
  gs.pauseOnUpdate => /\ gs.pacmanLoc = Empty
                      /\ \A c \in Ghosts : gs.ghosts[c].loc = Empty

\* Pacman is off the maze only until the update that pauses the game, or in a
\* game that is over and stays paused.
AwayIsHalted ==
  gs.pacmanLoc = Empty =>
    gs.pauseOnUpdate \/ (isPaused(gs) /\ gs.currLives = 0)

\* The pellet counter that drives fruit, anger and levels agrees with the
\* pellet bits the clients draw, and is never left at zero.
PelletCount ==
  /\ gs.numPellets = Cardinality(gs.pellets)
  /\ gs.numPellets > 0

\* Fruit never survives the board it was spawned on: there is none while more
\* pellets are left than the first fruit threshold.
FruitOnItsBoard ==
  gs.fruitSteps > 0 =>
    \E t \in {FruitThreshold1, FruitThreshold2} : gs.numPellets <= t

\* Nothing on the board moves while the game is paused: neither the update
\* nor a command touches it until Play or a restart.  (The first update of a
\* game and the one at the tick limit run while paused.)
PausedFreezesBoard ==
  [][(isPaused(gs) /\ gs.currTicks \in 1 .. MaxTicks - 1 /\ gs'.currTicks # 0)
       => gs' = [gs EXCEPT !.mode = gs'.mode, !.currLives = gs'.currLives]
    ]_vars

\* The last pellet is worth more than a ghost: the step that clears a level
\* costs no life, even with a ghost on the cell of the pellet, and refills
\* the board.
ClearedLevelCostsNoLife ==
  [][gs'.currLevel > gs.currLevel =>
       gs'.currLives = gs.currLives /\ gs'.pellets = InitPellets]_vars

\* Angry ghosts stay as they are until more pellets are eaten or the schedule
\* runs out: neither a death nor a pause calms them.
AngerSurvivesDeath ==
  [][(/\ gs.numPellets <= AngerThreshold1 /\ gs'.numPellets = gs.numPellets
      /\ gs.modeSteps > 0)
       => getLastUnpausedMode(gs') = getLastUnpausedMode(gs)]_vars

\* The game engine implements the abstract life of a game.
Life == INSTANCE GameLife WITH
          Lives <- InitLives, running <- ~ isPaused(gs),
          pending <- gs.pauseOnUpdate, onMaze <- gs.pacmanLoc # Empty,
          lives <- gs.currLives, ended <- gs.currTicks = MaxTicks

GameLifeSpec == Life!Spec

\* Every death and every cleared level ends in a pause, whatever the players
\* send meanwhile.
ResetHalts == gs.pauseOnUpdate ~> isPaused(gs)
=============================================================================
