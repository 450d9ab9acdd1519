--------------------------- MODULE GameLifeProofs ---------------------------
(***************************************************************************)
(* The game engine implements GameLife, and two of its action properties:  *)
(* what each call of the rules does to the life of the game.               *)
(***************************************************************************)
EXTENDS GameEngineProofs

-----------------------------------------------------------------------------
(* A call leaves the life of the game alone, ends it, or clears a level.     *)

Alike(s, r) ==
  /\ isPaused(r) <=> isPaused(s)
  /\ r.pauseOnUpdate = s.pauseOnUpdate
  /\ r.pacmanLoc = Empty <=> s.pacmanLoc = Empty
  /\ r.currLives = s.currLives
  /\ r.currTicks = s.currTicks
  /\ r.currLevel = s.currLevel

Leaves(s, r) ==
  /\ s.pacmanLoc # Empty /\ ~ s.pauseOnUpdate
  /\ r.pacmanLoc = Empty /\ r.pauseOnUpdate
  /\ r.currTicks = s.currTicks
  /\ ~ isPaused(s) => ~ isPaused(r)

Dies(s, r) ==
  Leaves(s, r) /\ r.currLives = dec(s.currLives) /\ r.currLevel = s.currLevel

Clears(s, r) ==
  Leaves(s, r) /\ r.currLives = s.currLives /\ r.pellets = InitPellets

\* Where the ghosts come in, Pacman does not: a ghost off the maze has not
\* planned his spawn cell.
Entrance(s) ==
  \A c \in Ghosts :
    s.ghosts[c].loc = Empty => s.ghosts[c].nextLoc # PacmanSpawn

Entering(s) == Sound(s) /\ Entrance(s)

LEMMA SpawnApart ==
  /\ PacmanSpawn # Empty
  /\ \A c \in Ghosts : GhostSpawn[c] # PacmanSpawn /\ GhostSpawn[c] # Empty
  /\ Pink \in Ghosts
BY MazeAssumption

LEMMA ResetEntrance ==
  ASSUME NEW s, Sound(s), NEW r,
         r.ghosts = [c \in Ghosts |-> sendHome(c, s.ghosts[c], r.currLives)]
  PROVE  Entrance(r)
<1> SUFFICES ASSUME NEW c \in Ghosts
             PROVE  r.ghosts[c].nextLoc # PacmanSpawn
  BY DEF Entrance
<1>1. r.ghosts[c] = sendHome(c, s.ghosts[c], r.currLives) /\ s.ghosts[c] \in ghostState
  BY DEF Sound, gameState
<1>2. CASE c \in ActiveGhosts
  BY <1>1, <1>2, SpawnApart, SentHome
<1>3. CASE c \notin ActiveGhosts
  BY <1>1, <1>3, SpawnApart, SentHome DEF Sound, OffMaze
<1> QED
  BY <1>2, <1>3

LEMMA DeathLife ==
  ASSUME NEW s \in gameState, s.pacmanLoc # Empty, ~ s.pauseOnUpdate
  PROVE  Dies(s, deathReset(s))
BY DEF gameState, deathReset, decrementLives, startMode, resetAllGhosts, Dies,
       Leaves, isPaused

LEMMA LevelLife ==
  ASSUME NEW s \in gameState, s.pacmanLoc # Empty, ~ s.pauseOnUpdate
  PROVE  Clears(s, incrementLevel(levelReset(s)))
BY DEF gameState, levelReset, incrementLevel, startMode, resetAllGhosts, Clears,
       Leaves, isPaused

LEMMA CollisionsLife ==
  ASSUME NEW s, Entering(s)
  PROVE  LET r == checkCollisions(s) IN
         /\ Entering(r) /\ Apart(r)
         /\ Alike(s, r) \/ Dies(s, r)
         /\ Apart(s) => r = s
<1> DEFINE r == checkCollisions(s)
<1> USE DEF Entering
<1>1. Sound(r) /\ Apart(r) /\ s \in gameState
  BY CollisionsSound DEF Sound
<1>2. colliding(s) # {} => s.pacmanLoc # Empty /\ ~ s.pauseOnUpdate /\ ~ Apart(s)
  BY DEF colliding, Sound, Cleared, Apart
<1>3. CASE \E c \in colliding(s) : ~ isFrightened(s.ghosts[c])
  <2>1. r = deathReset(s)
    BY <1>3 DEF checkCollisions
  <2>2. Entrance(r)
    BY <1>1, <2>1, DeathFields, ResetEntrance
  <2>3. Dies(s, r)
    BY <1>1, <1>2, <1>3, <2>1, DeathLife
  <2> QED
    BY <1>1, <1>2, <1>3, <2>2, <2>3
<1>4. CASE colliding(s) = {}
  BY <1>1, <1>4 DEF checkCollisions, Alike
<1>5. CASE colliding(s) # {} /\ \A c \in colliding(s) : isFrightened(s.ghosts[c])
  <2>1. r = respawnGhosts(s, colliding(s))
    BY <1>5 DEF checkCollisions
  <2>2. Alike(s, r)
    BY <1>1, <2>1 DEF respawnGhosts, gameState, Alike, isPaused
  <2>3. ASSUME NEW c \in Ghosts, r.ghosts[c].loc = Empty
        PROVE  r.ghosts[c].nextLoc # PacmanSpawn
    <3>1. r.ghosts[c] = IF c \in colliding(s) THEN respawn(c, s.ghosts[c])
                                              ELSE s.ghosts[c]
      BY <1>1, <2>1 DEF respawnGhosts, gameState
    <3>2. CASE c \in colliding(s) /\ c \in ActiveGhosts
      BY <1>1, <3>1, <3>2, SpawnApart DEF respawn, gameState, ghostState
    <3>3. CASE ~ (c \in colliding(s) /\ c \in ActiveGhosts)
      BY <2>3, <3>1, <3>3 DEF respawn, Entrance
    <3> QED
      BY <3>2, <3>3
  <2>4. Entrance(r)
    BY <2>3 DEF Entrance
  <2> QED
    BY <1>1, <1>2, <1>5, <2>2, <2>4
<1> QED
  BY <1>3, <1>4, <1>5

-----------------------------------------------------------------------------
(* Pellets and moves. *)

\* Ghosts stay in place, as far as Entrance looks.
SamePlans(s, r) ==
  \A c \in Ghosts : /\ r.ghosts[c].loc = s.ghosts[c].loc
                    /\ r.ghosts[c].nextLoc = s.ghosts[c].nextLoc

LEMMA PelletLife ==
  ASSUME NEW s, Entering(s), ~ stopped(s), s.pacmanLoc # Empty
  PROVE  LET r == collectPellet(s, s.pacmanLoc) IN
         /\ Entering(r)
         /\ \/ Alike(s, r) /\ r.pacmanLoc = s.pacmanLoc
                           /\ r.pacmanLoc \notin r.pellets
            \/ Clears(s, r)
<1> DEFINE cell == s.pacmanLoc
           fed  == IF s.fruitSteps > 0 /\ s.pacmanLoc = FruitCell
                   THEN [s EXCEPT !.fruitSteps = 0] ELSE s
           less == [fed EXCEPT !.pellets = @ \ {cell}, !.numPellets = dec(@)]
           more == IF cell \in SuperPellets
                   THEN frightenAllGhosts(less) ELSE less
           fruit == IF /\ more.numPellets \in {FruitThreshold1, FruitThreshold2}
                       /\ more.fruitSteps = 0
                    THEN [more EXCEPT !.fruitSteps = FruitDuration] ELSE more
           r == collectPellet(s, cell)
           Still(q) == /\ Alike(s, q) /\ SamePlans(s, q)
                       /\ q.pacmanLoc = s.pacmanLoc
           Eaten(q) == q \in gameState /\ Still(q) /\ cell \notin q.pellets
<1>1. s \in gameState /\ ~ isPaused(s) /\ ~ s.pauseOnUpdate
  BY DEF Entering, Sound, stopped
<1>2. Sound(r) /\ r \in gameState
  BY PelletSound DEF Entering, Sound
<1>3. fed \in gameState /\ Still(fed) /\ fed.pellets = s.pellets
  <2>1. [s EXCEPT !.fruitSteps = 0] \in gameState
    BY <1>1, FieldTypes, ConstantTypes
  <2> QED
    BY <1>1, <2>1 DEF gameState, Alike, SamePlans, isPaused
<1>4. CASE cell \notin s.pellets
  BY <1>2, <1>3, <1>4 DEF collectPellet, Entering, Entrance, SamePlans
<1>5. CASE cell \in s.pellets
  <2>1. Eaten(less)
    <3>1. fed.pellets \ {cell} \in SUBSET InitPellets /\ dec(fed.numPellets) \in Nat
      BY <1>3 DEF gameState, dec
    <3> HIDE DEF fed, cell
    <3>2. less \in gameState
      BY <1>3, <3>1, FieldTypes
    <3> QED
      BY <1>3, <3>2 DEF gameState, Alike, SamePlans, isPaused
  <2>2. Eaten(more)
    <3> HIDE DEF less, cell
    <3>1. frightenAllGhosts(less) \in gameState
      BY <2>1, AllGhostsType
    <3>2. Still(frightenAllGhosts(less)) /\ cell \notin frightenAllGhosts(less).pellets
      BY <2>1 DEF frightenAllGhosts, frighten, gameState, ghostState, Alike, SamePlans, isPaused
    <3> QED
      BY <2>1, <3>1, <3>2
  <2>3. Eaten(fruit) /\ fruit.ghosts = more.ghosts
    <3> HIDE DEF more, cell
    <3>1. fruit \in gameState
      BY <2>2, FieldTypes, ConstantTypes
    <3> QED
      BY <2>2, <3>1 DEF gameState, Alike, SamePlans, isPaused
  <2>4. r = pelletEvents(more)
    BY <1>5 DEF collectPellet
  <2>5. r \in {startMode(speedUp(fruit), "chase"), fruit,
               incrementLevel(levelReset(fruit))}
    BY <2>4 DEF pelletEvents
  <2> HIDE DEF fruit, more, r, cell
  <2>6. CASE r = startMode(speedUp(fruit), "chase")
    <3>1. Alike(s, r) /\ SamePlans(s, r) /\ r.pacmanLoc = s.pacmanLoc
          /\ cell \notin r.pellets
      BY <1>1, <2>3, <2>6
         DEF startMode, speedUp, gameState, Alike, SamePlans, isPaused
    <3> QED
      BY <1>2, <3>1 DEF cell, r, Entering, Entrance, SamePlans
  <2>7. CASE r = fruit
    BY <1>2, <2>3, <2>7 DEF cell, r, Entering, Entrance, SamePlans
  <2>8. CASE r = incrementLevel(levelReset(fruit))
    <3>1. Clears(fruit, r)
      BY <1>1, <2>3, <2>8, LevelLife DEF Alike
    <3>2. Clears(s, r)
      BY <2>3, <3>1 DEF Clears, Leaves, Alike
    <3>3. r.ghosts = [c \in Ghosts |-> sendHome(c, fruit.ghosts[c], r.currLives)]
      BY <2>3, <2>8, LevelResetFields
    <3>4. Entrance(r)
      <4> SUFFICES ASSUME NEW c \in Ghosts
                   PROVE  r.ghosts[c].nextLoc # PacmanSpawn
        BY DEF Entrance
      <4>1. /\ r.ghosts[c] = sendHome(c, fruit.ghosts[c], r.currLives)
            /\ fruit.ghosts[c] \in ghostState
        BY <2>3, <3>3 DEF gameState
      <4>2. CASE c \in ActiveGhosts
        BY <4>1, <4>2, SpawnApart, SentHome
      <4>3. CASE c \notin ActiveGhosts
        <5>1. fruit.ghosts[c].nextLoc = Empty
          BY <2>3, <4>3 DEF Entering, Sound, OffMaze, SamePlans
        <5> QED
          BY <4>1, <4>3, <5>1, SpawnApart, SentHome
      <4> QED
        BY <4>2, <4>3
    <3> QED
      BY <1>2, <3>2, <3>4 DEF cell, r, Entering
  <2> QED
    BY <2>5, <2>6, <2>7, <2>8
<1> QED
  BY <1>4, <1>5

LEMMA EatThereLife ==
  ASSUME NEW s, Entering(s), ~ stopped(s), s.pacmanLoc # Empty,
         NEW dest \in Corridor
  PROVE  LET r == collectPellet([s EXCEPT !.pacmanLoc = dest], dest) IN
         /\ Entering(r)
         /\ \/ Alike(s, r) /\ r.pacmanLoc \notin r.pellets
            \/ Clears(s, r)
<1> DEFINE there == [s EXCEPT !.pacmanLoc = dest]
<1>1. Sound(there) /\ dest # Empty
  BY PlaceSound, MazeAssumption DEF Entering, stopped
<1>2. /\ Alike(s, there) /\ there.pacmanLoc = dest
      /\ there.ghosts = s.ghosts
  BY <1>1 DEF Entering, Sound, gameState, Alike, isPaused
<1> HIDE DEF there
<1>3. Entering(there) /\ ~ stopped(there)
  BY <1>1, <1>2 DEF Entering, Entrance, stopped, Alike
<1> DEFINE r == collectPellet(there, dest)
<1>4. /\ Entering(r)
      /\ \/ Alike(there, r) /\ r.pacmanLoc \notin r.pellets
         \/ Clears(there, r)
  BY <1>1, <1>2, <1>3, PelletLife
<1> HIDE DEF r
<1>5. Alike(there, r) => Alike(s, r)
  BY <1>2 DEF Alike
<1>6. Clears(there, r) => Clears(s, r)
  BY <1>2 DEF Clears, Leaves, Alike
<1> QED
  BY <1>4, <1>5, <1>6 DEF r, there

\* A step to a neighbor, or a jump: alive, dead, or through with the level.
LEMMA ArriveLife ==
  ASSUME NEW s, Entering(s), ~ stopped(s), s.pacmanLoc # Empty,
         NEW dest \in Corridor
  PROVE  LET r == checkCollisions(collectPellet([s EXCEPT !.pacmanLoc = dest],
                                                dest)) IN
         /\ Entering(r) /\ Apart(r)
         /\ \/ Alike(s, r) /\ r.pacmanLoc \notin r.pellets
            \/ Dies(s, r) \/ Clears(s, r)
<1> DEFINE eaten == collectPellet([s EXCEPT !.pacmanLoc = dest], dest)
           r == checkCollisions(eaten)
<1>1. /\ Entering(eaten)
      /\ \/ Alike(s, eaten) /\ eaten.pacmanLoc \notin eaten.pellets
         \/ Clears(s, eaten)
  BY EatThereLife
<1> HIDE DEF eaten
<1>2. Entering(r) /\ Apart(r) /\ (Alike(eaten, r) \/ Dies(eaten, r))
      /\ (Apart(eaten) => r = eaten)
  BY <1>1, CollisionsLife
<1>3. r.pacmanLoc # Empty => r.pacmanLoc = eaten.pacmanLoc /\ r.pellets = eaten.pellets
  BY <1>1, <1>2, DeathFields
     DEF checkCollisions, respawnGhosts, Entering, Sound, gameState
<1>4. Empty \notin r.pellets
  BY <1>2, MazeAssumption, RulesAssumption DEF Entering, Sound, gameState
<1> HIDE DEF r
<1>5. Clears(s, eaten) => r = eaten
  BY <1>2 DEF Clears, Leaves, Apart
<1>6. ASSUME Alike(s, eaten), eaten.pacmanLoc \notin eaten.pellets
      PROVE  (Alike(s, r) /\ r.pacmanLoc \notin r.pellets) \/ Dies(s, r)
  <2>1. Alike(eaten, r) => Alike(s, r)
    BY <1>6 DEF Alike
  <2>2. Dies(eaten, r) => Dies(s, r)
    BY <1>6 DEF Alike, Dies, Leaves
  <2>3. r.pacmanLoc \notin r.pellets
    BY <1>3, <1>4, <1>6
  <2> QED
    BY <1>2, <2>1, <2>2, <2>3
<1> QED
  BY <1>1, <1>2, <1>5, <1>6 DEF eaten, r

LEMMA MoveLife ==
  ASSUME NEW s, Entering(s), Apart(s), NEW dest
  PROVE  LET r == movePacmanDir(s, dest) IN
         /\ Entering(r) /\ Apart(r)
         /\ Alike(s, r) \/ Dies(s, r) \/ Clears(s, r)
         /\ stopped(s) => r = s
<1>1. s.pacmanLoc = Empty => neighbors(s.pacmanLoc) = {}
  BY DEF neighbors
<1>2. CASE stopped(s) \/ dest \notin neighbors(s.pacmanLoc)
  <2>1. movePacmanDir(s, dest) = s
    BY <1>2, CollisionsLife DEF movePacmanDir
  <2> QED
    BY <2>1 DEF Alike
<1>3. CASE ~ stopped(s) /\ dest \in neighbors(s.pacmanLoc)
  <2>1. dest \in Corridor /\ s.pacmanLoc # Empty
    BY <1>1, <1>3 DEF neighbors
  <2> QED
    BY <1>3, <2>1, ArriveLife DEF movePacmanDir
<1> QED
  BY <1>2, <1>3

\* The walk collects the pellet of its cell a second time, and so in vain.
LEMMA WalkLife ==
  ASSUME NEW s, Entering(s), Apart(s), ~ stopped(s), s.pacmanLoc # Empty,
         NEW dest \in neighbors(s.pacmanLoc)
  PROVE  LET r == walk(s, dest) IN
         /\ Entering(r) /\ Apart(r)
         /\ Alike(s, r) \/ Dies(s, r) \/ Clears(s, r)
         /\ r = [movePacmanDir(s, dest) EXCEPT !.fruitSteps = r.fruitSteps]
<1> DEFINE m == movePacmanDir(s, dest)
           r == walk(s, dest)
<1>1. /\ Entering(m) /\ Apart(m)
      /\ \/ Alike(s, m) /\ m.pacmanLoc \notin m.pellets
         \/ Dies(s, m) \/ Clears(s, m)
  <2>1. dest \in Corridor
    BY DEF neighbors
  <2> QED
    BY <2>1, ArriveLife DEF movePacmanDir
<1> HIDE DEF m
<1>2. m.pacmanLoc \notin m.pellets
  BY <1>1, MazeAssumption, RulesAssumption
     DEF Dies, Clears, Leaves, Entering, Sound, gameState
<1>3. r = collectPellet(m, m.pacmanLoc)
  BY <1>1, CollisionsLife DEF walk, m
<1>4. /\ Alike(m, r) /\ SamePlans(m, r) /\ r.pellets = m.pellets
      /\ r.pacmanLoc = m.pacmanLoc
      /\ r = [m EXCEPT !.fruitSteps = r.fruitSteps]
  BY <1>1, <1>2, <1>3
     DEF collectPellet, Entering, Sound, gameState, Alike, SamePlans, isPaused
<1>5. Sound(r) /\ Apart(r)
  BY MovesSound DEF Entering
<1> HIDE DEF r
<1>6. Entering(r)
  BY <1>1, <1>4, <1>5 DEF Entering, Entrance, SamePlans
<1>7. Alike(s, m) => Alike(s, r)
  BY <1>4 DEF Alike
<1>8. Dies(s, m) => Dies(s, r)
  BY <1>4 DEF Alike, Dies, Leaves
<1>9. Clears(s, m) => Clears(s, r)
  BY <1>4 DEF Alike, Clears, Leaves
<1> QED
  BY <1>1, <1>4, <1>5, <1>6, <1>7, <1>8, <1>9 DEF r, m

-----------------------------------------------------------------------------
(* The update. *)

\* A pending pause is taken, and Pacman is back if a life is left.
Halts(s, r) ==
  /\ s.pauseOnUpdate /\ ~ r.pauseOnUpdate /\ isPaused(r)
  /\ r.pacmanLoc # Empty <=> s.currLives > 0
  /\ r.currLives = s.currLives /\ r.currTicks = s.currTicks
  /\ r.currLevel = s.currLevel

LEMMA StepEventsLife ==
  ASSUME NEW s, Entering(s)
  PROVE  LET r == handleStepEvents(s) IN
         Entering(r) /\ Alike(s, r) /\ (Apart(s) => Apart(r))
<1>1. Alike(s, handleStepEvents(s))
  BY DEF handleStepEvents, switchMode, otherMode, startMode, speedUp, isPaused,
         Alike, Entering, Sound, gameState
<1> QED
  BY <1>1, StepSound, StepFields DEF Entering, Sound, Entrance, Apart

LEMMA PlanLife ==
  ASSUME NEW s, Entering(s), NEW n \in plans(s)
  PROVE  LET r == planAllGhosts(s, n) IN
         Entering(r) /\ Alike(s, r) /\ (Apart(s) => Apart(r))
<1> DEFINE r == planAllGhosts(s, n)
<1>1. Alike(s, r)
  BY DEF planAllGhosts, Alike, Entering, Sound, gameState, isPaused
<1>2. \A c \in Ghosts :
        /\ r.ghosts[c].loc = s.ghosts[c].loc
        /\ s.ghosts[c].loc = Empty => r.ghosts[c].nextLoc = s.ghosts[c].nextLoc
  <2>1. r.ghosts = n
    BY DEF planAllGhosts, Entering, Sound, gameState
  <2>2. \A c \in Ghosts : s.ghosts[c] \in ghostState /\ n[c] \in planned(s.ghosts[c])
    BY DEF plans, Entering, Sound, gameState
  <2> HIDE DEF r
  <2> QED BY <2>1, <2>2, PlanFields
<1>4. Entrance(r)
  BY <1>2 DEF Entrance, Entering
<1> QED
  BY <1>1, <1>4, PlanSound DEF Entering

LEMMA EnterLife ==
  ASSUME NEW s, Entering(s)
  PROVE  LET r == pauseIfPending(tryRespawnPacman(updateAllGhosts(s))) IN
         /\ Entering(r)
         /\ \/ Alike(s, r) /\ ~ s.pauseOnUpdate
            \/ Halts(s, r) /\ Apart(r)
<1> DEFINE u == updateAllGhosts(s)
           t == tryRespawnPacman(u)
           r == pauseIfPending(t)
<1>1. s \in gameState /\ s.currLives \in Nat
  BY ConstantTypes DEF Entering, Sound, gameState
<1>2. u = [s EXCEPT !.ghosts = u.ghosts]
  BY <1>1 DEF updateAllGhosts, gameState
<1>3. \A c \in Ghosts : /\ u.ghosts[c].loc = s.ghosts[c].nextLoc
                        /\ u.ghosts[c].nextLoc = s.ghosts[c].nextLoc
  BY <1>1 DEF updateAllGhosts, update, gameState
<1> HIDE DEF u
<1>4. /\ r.ghosts = u.ghosts
      /\ r.pacmanLoc = IF s.pacmanLoc = Empty /\ s.currLives > 0
                       THEN PacmanSpawn ELSE s.pacmanLoc
      /\ ~ r.pauseOnUpdate
      /\ isPaused(r) <=> isPaused(s) \/ s.pauseOnUpdate
      /\ r.currLives = s.currLives /\ r.currTicks = s.currTicks
      /\ r.currLevel = s.currLevel
  BY <1>1, <1>2 DEF tryRespawnPacman, pauseIfPending, pause, isPaused, gameState
<1>5. Sound(r)
  BY EnterSound DEF Entering, u
<1> HIDE DEF r
<1>6. Entrance(r)
  BY <1>3, <1>4, SpawnApart DEF Entering, Entrance
<1>7. ASSUME s.pauseOnUpdate
      PROVE  Halts(s, r) /\ Apart(r)
  <2>1. s.pacmanLoc = Empty /\ \A c \in Ghosts : s.ghosts[c].loc = Empty
    BY <1>7 DEF Entering, Sound, Cleared
  <2>2. Halts(s, r)
    BY <1>1, <1>4, <1>7, <2>1, SpawnApart DEF Halts
  <2>3. Apart(r)
    BY <1>3, <1>4, <2>1 DEF Entering, Entrance, Apart
  <2> QED
    BY <2>2, <2>3
<1>8. ASSUME ~ s.pauseOnUpdate
      PROVE  Alike(s, r)
  <2>1. s.pacmanLoc = Empty => s.currLives = 0
    BY <1>8 DEF Entering, Sound, Halted
  <2>2. r.pauseOnUpdate = FALSE /\ s.pauseOnUpdate = FALSE
    BY <1>1, <1>4, <1>5, <1>8 DEF Sound, gameState
  <2>3. r.pacmanLoc = s.pacmanLoc
    BY <1>1, <1>4, <2>1
  <2> QED
    BY <1>4, <1>8, <2>2, <2>3 DEF Alike
<1>9. Entering(r)
  BY <1>5, <1>6 DEF Entering
<1> QED
  BY <1>7, <1>8, <1>9 DEF r, u

LEMMA SteppedLife ==
  ASSUME NEW s, Entering(s)
  PROVE  LET r == stepped(s) IN
         /\ Entering(r) /\ Apart(r)
         /\ Alike(s, r) \/ Dies(s, r) \/ Halts(s, r)
<1> DEFINE e == pauseIfPending(tryRespawnPacman(updateAllGhosts(s)))
           k == checkCollisions(e)
           r == handleStepEvents(k)
<1>1. /\ Entering(e)
      /\ Alike(s, e) \/ (Halts(s, e) /\ Apart(e))
  BY EnterLife
<1> HIDE DEF e
<1>2. /\ Entering(k) /\ Apart(k)
      /\ Alike(e, k) \/ Dies(e, k)
      /\ Apart(e) => k = e
  BY <1>1, CollisionsLife
<1> HIDE DEF k
<1>3. Entering(r) /\ Alike(k, r) /\ Apart(r)
  BY <1>2, StepEventsLife
<1>4. stepped(s) = r
  BY DEF stepped, e, k
<1> HIDE DEF r
<1>5. ASSUME Alike(s, e)
      PROVE  Alike(s, r) \/ Dies(s, r)
  BY <1>2, <1>3, <1>5 DEF Alike, Dies, Leaves
<1>6. Halts(s, e) /\ Apart(e) => Halts(s, r)
  BY <1>2, <1>3 DEF Alike, Halts
<1> QED
  BY <1>1, <1>3, <1>4, <1>5, <1>6

-----------------------------------------------------------------------------
(* The invariant: a walk goes on only while nothing stopped Pacman, and the  *)
(* update of a paused game is its first or the one at the tick limit.        *)

LifeInv ==
  /\ Entering(gs) /\ Apart(gs)
  /\ pc = "walking" => ~ stopped(gs)
  /\ pc = "update" /\ justTicked /\ isPaused(gs) =>
       gs = newGameState \/ gs.currTicks = MaxTicks

\* A game as NewGame has it.
Starts(r) ==
  /\ isPaused(r) /\ ~ r.pauseOnUpdate /\ r.pacmanLoc # Empty
  /\ r.currLives = InitLives /\ r.currTicks = 0 /\ r.currLevel = 1

LEMMA NewGameLife ==
  LET r == handleStepEvents(updateAllGhosts(newGameState)) IN
  /\ Entering(newGameState) /\ Apart(newGameState) /\ Starts(newGameState)
  /\ Entering(r) /\ Apart(r) /\ Starts(r)
  /\ stepped(newGameState) = r
<1> DEFINE n == newGameState
           u == updateAllGhosts(n)
<1>1. /\ Sound(n) /\ Apart(n) /\ n \in gameState
  BY NewGameSound DEF Sound
<1>2. Starts(n)
  BY SpawnApart DEF Starts, newGameState, isPaused
<1>3. \A c \in Ghosts : n.ghosts[c].nextLoc # PacmanSpawn
  BY SpawnApart DEF newGameState, newGhostState
<1>4. n.pacmanLoc = PacmanSpawn /\ PacmanSpawn # Empty
  BY SpawnApart DEF newGameState
<1> HIDE DEF n
<1>5. /\ u \in gameState /\ Alike(n, u) /\ u.pacmanLoc = PacmanSpawn
      /\ \A c \in Ghosts : /\ u.ghosts[c].loc = n.ghosts[c].nextLoc
                           /\ u.ghosts[c].nextLoc = n.ghosts[c].nextLoc
                           /\ u.ghosts[c].eaten = FALSE
  BY <1>1, <1>4, AllGhostsType
     DEF updateAllGhosts, update, gameState, Alike, isPaused
<1> HIDE DEF u
<1>6. Entering(u) /\ Apart(u)
  <2>1. OffMaze(u)
    BY <1>1, <1>5 DEF Sound, OffMaze
  <2>2. Entrance(u) /\ Apart(u)
    BY <1>3, <1>5 DEF Entrance, Apart
  <2>3. Cleared(u) /\ Halted(u)
    BY <1>2, <1>4, <1>5 DEF Starts, Alike, Cleared, Halted
  <2> QED
    BY <1>5, <2>1, <2>2, <2>3 DEF Entering, Sound
<1>7. checkCollisions(pauseIfPending(tryRespawnPacman(u))) = u
  <2>1. pauseIfPending(tryRespawnPacman(u)) = u
    BY <1>2, <1>4, <1>5 DEF pauseIfPending, tryRespawnPacman, Starts, Alike
  <2> QED
    BY <1>6, <2>1, CollisionsLife
<1>8. Starts(u)
  BY <1>2, <1>4, <1>5 DEF Starts, Alike
<1>9. /\ Entering(handleStepEvents(u)) /\ Apart(handleStepEvents(u))
      /\ Alike(u, handleStepEvents(u))
  BY <1>6, StepEventsLife
<1>10. Starts(handleStepEvents(u))
  BY <1>8, <1>9 DEF Starts, Alike
<1>11. Entering(n)
  BY <1>1, <1>3 DEF Entering, Entrance
<1> QED
  BY <1>1, <1>2, <1>7, <1>9, <1>10, <1>11 DEF n, u, stepped

-----------------------------------------------------------------------------
(* What the calls of the rules are in terms of GameLife. *)

LEMMA Mapping ==
  ASSUME gs \in gameState, gs' \in gameState
  PROVE  /\ Alike(gs, gs') => UNCHANGED Life!vars
         /\ (~ isPaused(gs) \/ gs.currTicks = MaxTicks) /\ Dies(gs, gs')
              => Life!Die
         /\ ~ isPaused(gs) /\ Clears(gs, gs') => Life!ClearLevel
         /\ Halts(gs, gs') => Life!Halt
         /\ Starts(gs') => Life!Restart
<1>1. Alike(gs, gs') => UNCHANGED Life!vars
  BY DEF Alike, Life!vars
<1>2. (~ isPaused(gs) \/ gs.currTicks = MaxTicks) /\ Dies(gs, gs') => Life!Die
  BY DEF Dies, Leaves, Life!Die, Life!Leave, dec, gameState
<1>3. ~ isPaused(gs) /\ Clears(gs, gs') => Life!ClearLevel
  BY DEF Clears, Leaves, Life!ClearLevel, Life!Leave, gameState
<1>4. Halts(gs, gs') => Life!Halt
  BY DEF Halts, Life!Halt, gameState
<1>5. ASSUME Starts(gs') PROVE Life!Restart
  <2>1. MaxTicks # 0
    BY ConstantTypes
  <2>2. /\ (~ isPaused(gs')) = FALSE /\ gs'.pauseOnUpdate = FALSE
        /\ (gs'.pacmanLoc # Empty) = TRUE /\ gs'.currLives = InitLives
        /\ (gs'.currTicks = MaxTicks) = FALSE
    BY <1>5, <2>1 DEF Starts, gameState
  <2> QED
    BY <2>2 DEF Life!Restart, Life!NewGame, Life!vars
<1> QED
  BY <1>1, <1>2, <1>3, <1>4, <1>5

LEMMA InvTypes == LifeInv => gs \in gameState
BY DEF LifeInv, Entering, Sound

LEMMA CommandsEntering ==
  ASSUME NEW s, Entering(s), Apart(s),
         NEW r \in {pause(s), play(s), decrementLives(s), nextTick(s)}
  PROVE  Entering(r) /\ Apart(r)
<1>1. Sound(r) /\ Apart(r)
  BY CommandsSound DEF Entering
<1>2. r.ghosts = s.ghosts
  BY DEF pause, play, decrementLives, nextTick, Entering, Sound, gameState
<1> QED
  BY <1>1, <1>2 DEF Entering, Entrance

LEMMA UpdateStep ==
  ASSUME LifeInv, Update
  PROVE  LifeInv' /\ [Life!Next]_(Life!vars)
<1>1. PICK n \in plans(stepped(gs)) : gs' = planAllGhosts(stepped(gs), n)
  BY DEF Update
<1>2. /\ Entering(stepped(gs)) /\ Apart(stepped(gs))
      /\ \/ Alike(gs, stepped(gs)) \/ Dies(gs, stepped(gs))
         \/ Halts(gs, stepped(gs))
  BY SteppedLife DEF LifeInv
<1>3. Entering(gs') /\ Apart(gs') /\ Alike(stepped(gs), gs')
  BY <1>1, <1>2, PlanLife
<1>4. pc' = "commands"
  BY DEF Update
<1>5. LifeInv'
  BY <1>3, <1>4 DEF LifeInv, Entering, Sound, Entrance, Apart, OffMaze,
                    Cleared, Halted, isPaused
<1>6. gs \in gameState /\ gs' \in gameState
  BY <1>3, InvTypes DEF Entering, Sound
<1>7. CASE gs = newGameState
  <2>1. Starts(gs) /\ Starts(gs')
    BY <1>3, <1>7, NewGameLife DEF Starts, Alike
  <2>2. Alike(gs, gs')
    BY <1>6, <2>1 DEF Starts, Alike, gameState
  <2> QED
    BY <1>5, <1>6, <2>2, Mapping
<1>8. CASE gs # newGameState
  <2>1. ~ isPaused(gs) \/ gs.currTicks = MaxTicks
    BY <1>8 DEF LifeInv, Update
  <2>2. Alike(gs, gs') \/ Dies(gs, gs') \/ Halts(gs, gs')
    BY <1>2, <1>3 DEF Alike, Dies, Leaves, Halts
  <2> QED
    BY <1>5, <1>6, <2>1, <2>2, Mapping DEF Life!Next
<1> QED
  BY <1>7, <1>8

LEMMA CommandStep ==
  ASSUME LifeInv, PauseCommand \/ PlayCommand \/ KillCommand
  PROVE  LifeInv' /\ [Life!Next]_(Life!vars)
<1>1. /\ gs' \in {pause(gs), play(gs), decrementLives(gs)}
      /\ pc = "commands" /\ pc' = "commands"
  BY DEF PauseCommand, PlayCommand, KillCommand, Obey
<1>2. Entering(gs') /\ Apart(gs')
  BY <1>1, CommandsEntering DEF LifeInv
<1>3. LifeInv'
  BY <1>1, <1>2 DEF LifeInv, Entering, Sound, Entrance, Apart, OffMaze,
                    Cleared, Halted, isPaused
<1>4. gs \in gameState
  BY InvTypes
<1>5. CASE gs' = pause(gs)
  <2>1. CASE isPaused(gs)
    BY <1>3, <1>5, <2>1 DEF pause, Life!vars, isPaused
  <2>2. CASE ~ isPaused(gs)
    <3>1. Life!Pause
      BY <1>4, <1>5, <2>2 DEF pause, gameState, isPaused, Life!Pause
    <3> QED
      BY <1>3, <3>1 DEF Life!Next
  <2> QED
    BY <2>1, <2>2
<1>6. CASE gs' = play(gs)
  <2>1. CASE canPlay(gs)
    <3>1. gs'.mode # "paused" /\ gs' = [gs EXCEPT !.mode = gs'.mode]
      BY <1>4, <1>6, <2>1 DEF play, gameState, PlayModes
    <3>2. gs.currLives > 0 /\ isPaused(gs) /\ gs.currTicks # MaxTicks
      BY <1>4, <2>1, ConstantTypes DEF canPlay, gameState
    <3>3. Life!Play
      BY <1>4, <3>1, <3>2 DEF isPaused, gameState, Life!Play
    <3> QED
      BY <1>3, <3>3 DEF Life!Next
  <2>2. CASE ~ canPlay(gs)
    BY <1>3, <1>6, <2>2 DEF play, Life!vars, isPaused
  <2> QED
    BY <2>1, <2>2
<1>7. CASE gs' = decrementLives(gs)
  <2>1. gs' = [gs EXCEPT !.currLives = dec(gs.currLives)]
    BY <1>7 DEF decrementLives
  <2>2. CASE gs.currLives = 0
    <3>1. gs' = gs
      BY <1>4, <2>1, <2>2 DEF dec, gameState
    <3> QED
      BY <1>3, <3>1 DEF Life!vars, isPaused
  <2>3. CASE gs.currLives # 0
    <3>1. Life!KillLife
      BY <1>4, <2>1, <2>3, ConstantTypes
         DEF dec, gameState, isPaused, Life!KillLife
    <3> QED
      BY <1>3, <3>1 DEF Life!Next
  <2> QED
    BY <2>2, <2>3
<1> QED
  BY <1>1, <1>3, <1>5, <1>6, <1>7

LEMMA MoveStep ==
  ASSUME LifeInv, MoveCommand
  PROVE  LifeInv' /\ [Life!Next]_(Life!vars)
<1>1. PICK dest : gs' = movePacmanDir(gs, dest) /\ pc' = "commands"
  BY DEF MoveCommand, Obey
<1>2. /\ Entering(gs') /\ Apart(gs')
      /\ Alike(gs, gs') \/ Dies(gs, gs') \/ Clears(gs, gs')
      /\ stopped(gs) => gs' = gs
  BY <1>1, MoveLife DEF LifeInv
<1>3. LifeInv'
  BY <1>1, <1>2 DEF LifeInv, Entering, Sound, Entrance, Apart, OffMaze,
                    Cleared, Halted, isPaused
<1>4. gs \in gameState /\ gs' \in gameState
  BY <1>2, InvTypes DEF Entering, Sound
<1>5. stopped(gs) => Alike(gs, gs')
  BY <1>2 DEF Alike
<1> QED
  BY <1>2, <1>3, <1>4, <1>5, Mapping DEF Life!Next, stopped

LEMMA JumpStep ==
  ASSUME LifeInv, JumpCommand
  PROVE  LifeInv' /\ [Life!Next]_(Life!vars)
<1>1. PICK dest \in Corridor :
        /\ gs' = jump(gs, dest) /\ pc' = "commands"
        /\ ~ stopped(gs) /\ gs.pacmanLoc # Empty
  BY DEF JumpCommand, CanTrack, Obey
<1>2. /\ Entering(gs') /\ Apart(gs')
      /\ Alike(gs, gs') \/ Dies(gs, gs') \/ Clears(gs, gs')
  BY <1>1, ArriveLife DEF LifeInv, jump
<1>3. LifeInv'
  BY <1>1, <1>2 DEF LifeInv, Entering, Sound, Entrance, Apart, OffMaze,
                    Cleared, Halted, isPaused
<1>4. gs \in gameState /\ gs' \in gameState
  BY <1>2, InvTypes DEF Entering, Sound
<1> QED
  BY <1>1, <1>2, <1>3, <1>4, Mapping DEF Life!Next, stopped

LEMMA WalkStep ==
  ASSUME LifeInv, WalkCommand \/ Walk
  PROVE  LifeInv' /\ [Life!Next]_(Life!vars)
<1>1. ~ stopped(gs)
  BY DEF LifeInv, WalkCommand, Walk, CanTrack
<1>2. gs.pacmanLoc # Empty
  BY <1>1 DEF LifeInv, Entering, Sound, Halted, stopped
<1>3. PICK dest : WalkTowards(dest)
  BY DEF WalkCommand, Walk
<1>4. PICK n \in neighbors(gs.pacmanLoc) : gs' = walk(gs, n)
  BY <1>3 DEF WalkTowards, findLikelyPath
<1>5. /\ Entering(gs') /\ Apart(gs')
      /\ Alike(gs, gs') \/ Dies(gs, gs') \/ Clears(gs, gs')
  BY <1>1, <1>2, <1>4, WalkLife DEF LifeInv
<1>6. pc' = "commands" \/ (pc' = "walking" /\ gs'.pacmanLoc # Empty)
  BY <1>3 DEF WalkTowards
<1>7. gs'.pacmanLoc # Empty => ~ stopped(gs)'
  BY <1>1, <1>5 DEF Alike, Dies, Clears, Leaves, stopped, isPaused
<1>8. LifeInv'
  BY <1>5, <1>6, <1>7 DEF LifeInv, Entering, Sound, Entrance, Apart, OffMaze,
                          Cleared, Halted, isPaused
<1>9. gs \in gameState /\ gs' \in gameState
  BY <1>5, InvTypes DEF Entering, Sound
<1> QED
  BY <1>1, <1>5, <1>8, <1>9, Mapping DEF Life!Next, stopped

LEMMA RestartStep ==
  ASSUME LifeInv, RestartCommand
  PROVE  LifeInv' /\ [Life!Next]_(Life!vars)
<1> DEFINE fresh == handleStepEvents(updateAllGhosts(newGameState))
<1>1. PICK n \in plans(fresh) : gs' = planAllGhosts(fresh, n)
  BY DEF RestartCommand
<1>2. Entering(fresh) /\ Apart(fresh) /\ Starts(fresh)
  BY NewGameLife
<1> HIDE DEF fresh
<1>3. Entering(gs') /\ Apart(gs') /\ Alike(fresh, gs')
  BY <1>1, <1>2, PlanLife
<1>4. pc' = "commands"
  BY DEF RestartCommand
<1>5. LifeInv'
  BY <1>3, <1>4 DEF LifeInv, Entering, Sound, Entrance, Apart, OffMaze,
                    Cleared, Halted, isPaused
<1>6. Starts(gs')
  BY <1>2, <1>3 DEF Starts, Alike
<1>7. gs \in gameState /\ gs' \in gameState
  BY <1>3, InvTypes DEF Entering, Sound
<1> QED
  BY <1>5, <1>6, <1>7, Mapping DEF Life!Next

LEMMA TickStep ==
  ASSUME LifeInv, Tick
  PROVE  LifeInv' /\ [Life!Next]_(Life!vars)
<1>1. /\ gs' = IF isPaused(gs) THEN gs ELSE nextTick(gs)
      /\ justTicked' = ~ isPaused(gs) /\ pc' = "update"
  BY DEF Tick
<1>2. gs \in gameState
  BY InvTypes
<1>3. CASE isPaused(gs)
  BY <1>1, <1>3 DEF LifeInv, Entering, Sound, Entrance, Apart, OffMaze, Cleared,
                    Halted, isPaused, Life!vars
<1>4. CASE ~ isPaused(gs)
  <2>1. Entering(gs') /\ Apart(gs')
    BY <1>1, <1>4, CommandsEntering DEF LifeInv
  <2>2. CASE gs.currTicks = MaxTicks - 1
    <3>1. MaxTicks \in Nat /\ gs.currTicks # MaxTicks /\ gs.currTicks + 1 = MaxTicks
      BY <2>2, ConstantTypes
    <3>2. /\ gs' = [pause(gs) EXCEPT !.currTicks = MaxTicks]
          /\ pause(gs) = [gs EXCEPT !.lastUnpausedMode = gs.mode, !.mode = "paused"]
      BY <1>1, <1>2, <1>4, <2>2, <3>1 DEF nextTick, pause, gameState
    <3>3. gs'.currTicks = MaxTicks /\ Life!RunOut
      BY <1>2, <1>4, <3>1, <3>2 DEF gameState, isPaused, Life!RunOut
    <3>4. LifeInv'
      BY <1>1, <2>1, <3>3 DEF LifeInv, Entering, Sound, Entrance, Apart, OffMaze,
                              Cleared, Halted, isPaused
    <3> QED
      BY <3>3, <3>4 DEF Life!Next
  <2>3. CASE gs.currTicks # MaxTicks - 1
    <3>1. /\ gs' = [gs EXCEPT !.currTicks = gs'.currTicks]
          /\ gs'.currTicks = MaxTicks <=> gs.currTicks = MaxTicks
      BY <1>1, <1>2, <1>4, <2>3, ConstantTypes DEF nextTick, gameState
    <3>2. ~ isPaused(gs')
      BY <1>2, <1>4, <3>1 DEF isPaused, gameState
    <3>3. LifeInv'
      BY <1>1, <2>1, <3>2 DEF LifeInv, Entering, Sound, Entrance, Apart, OffMaze,
                              Cleared, Halted, isPaused
    <3>4. UNCHANGED Life!vars
      BY <1>2, <3>1 DEF Life!vars, gameState, isPaused
    <3> QED
      BY <3>3, <3>4
  <2> QED
    BY <2>2, <2>3
<1> QED
  BY <1>3, <1>4

-----------------------------------------------------------------------------
(* The theorems. *)

LEMMA LifeInit == Init => LifeInv /\ Life!Init
<1> SUFFICES ASSUME Init PROVE LifeInv /\ Life!Init
  OBVIOUS
<1>1. gs = newGameState /\ pc = "update"
  BY DEF Init
<1>2. Entering(gs) /\ Apart(gs) /\ Starts(gs)
  BY <1>1, NewGameLife
<1>3. LifeInv
  BY <1>1, <1>2 DEF LifeInv
<1>4. MaxTicks # 0 /\ gs \in gameState
  BY <1>2, ConstantTypes DEF Entering, Sound
<1>5. /\ (~ isPaused(gs)) = FALSE /\ gs.pauseOnUpdate = FALSE
      /\ (gs.pacmanLoc # Empty) = TRUE /\ gs.currLives = InitLives
      /\ (gs.currTicks = MaxTicks) = FALSE
  BY <1>2, <1>4 DEF Starts, gameState
<1> QED
  BY <1>3, <1>5 DEF Life!Init, Life!NewGame, Life!vars

LEMMA LifeStep == LifeInv /\ [Next]_vars => LifeInv' /\ [Life!Next]_(Life!vars)
<1> SUFFICES ASSUME LifeInv, [Next]_vars
             PROVE  LifeInv' /\ [Life!Next]_(Life!vars)
  OBVIOUS
<1>1. ASSUME gs' = gs, UNCHANGED <<justTicked, pc>> \/ pc' = "commands"
      PROVE  LifeInv' /\ [Life!Next]_(Life!vars)
  BY <1>1 DEF LifeInv, Entering, Sound, Entrance, Apart, OffMaze, Cleared,
              Halted, isPaused, stopped, newGameState, Life!vars
<1>2. CASE SkipUpdate
  BY <1>1, <1>2 DEF SkipUpdate
<1>3. CASE UNCHANGED vars
  BY <1>1, <1>3 DEF vars
<1> QED
  BY <1>2, <1>3, UpdateStep, CommandStep, MoveStep, JumpStep, WalkStep,
     RestartStep, TickStep
     DEF Next, RunLoop, Command

\* Entering and Apart hold in every state; Pacman walks only while nothing has
\* stopped him, and the update of a paused game is its first or its last.
THEOREM LifeInvariance == Spec => []LifeInv
BY LifeInit, LifeStep, PTL DEF Spec

\* The game engine, with its maze, ghosts, pellets and schedules, implements
\* the life of a game that GameLife promises to the clients.
THEOREM Refinement == Spec => GameLifeSpec
BY LifeInit, LifeStep, PTL DEF Spec, GameLifeSpec, Life!Spec

\* What happens to the level and the pellets in a step.
LEMMA LevelStep ==
  ASSUME LifeInv, [Next]_vars
  PROVE  \/ gs'.currLevel = gs.currLevel
         \/ Clears(gs, gs')
         \/ gs'.currLevel = 1
<1>1. gs \in gameState
  BY InvTypes
<1>2. CASE Update
  <2>1. PICK n \in plans(stepped(gs)) : gs' = planAllGhosts(stepped(gs), n)
    BY <1>2 DEF Update
  <2>2. Alike(stepped(gs), gs')
    BY <2>1, SteppedLife, PlanLife DEF LifeInv
  <2> QED
    BY <2>2, SteppedLife DEF LifeInv, Alike, Dies, Halts
<1>3. CASE PauseCommand \/ PlayCommand \/ KillCommand \/ Tick
  <2>1. gs' \in {gs, pause(gs), play(gs), decrementLives(gs), nextTick(gs)}
    BY <1>3 DEF PauseCommand, PlayCommand, KillCommand, Tick, Obey
  <2> QED
    BY <1>1, <2>1 DEF pause, play, decrementLives, nextTick, gameState
<1>4. CASE MoveCommand
  BY <1>4, MoveLife DEF MoveCommand, Obey, LifeInv, Alike, Dies
<1>5. CASE JumpCommand
  BY <1>5, ArriveLife DEF JumpCommand, CanTrack, Obey, jump, LifeInv, Alike, Dies
<1>6. CASE WalkCommand \/ Walk
  <2>1. ~ stopped(gs) /\ gs.pacmanLoc # Empty
    BY <1>6 DEF LifeInv, WalkCommand, Walk, CanTrack, Entering, Sound, Halted,
                stopped
  <2>2. PICK n \in neighbors(gs.pacmanLoc) : gs' = walk(gs, n)
    BY <1>6 DEF WalkCommand, Walk, WalkTowards, findLikelyPath
  <2> QED
    BY <2>1, <2>2, WalkLife DEF LifeInv, Alike, Dies
<1>7. CASE RestartCommand
  BY <1>7, NewGameLife, PlanLife DEF RestartCommand, Starts, Alike
<1>8. CASE SkipUpdate \/ UNCHANGED vars
  BY <1>8 DEF SkipUpdate, vars
<1> QED
  BY <1>2, <1>3, <1>4, <1>5, <1>6, <1>7, <1>8 DEF Next, RunLoop, Command

\* The step that clears a level costs no life and refills the board, even when
\* a ghost stands on the cell of the last pellet: collectPellet comes before
\* checkCollisions.
THEOREM LevelCleared == Spec => ClearedLevelCostsNoLife
<1>1. ASSUME LifeInv, [Next]_vars, gs'.currLevel > gs.currLevel
      PROVE  gs'.currLives = gs.currLives /\ gs'.pellets = InitPellets
  <2>1. gs.currLevel \in Nat /\ gs.currLevel >= 1
    BY <1>1, InvTypes DEF gameState
  <2>2. Clears(gs, gs')
    BY <1>1, <2>1, LevelStep
  <2> QED
    BY <2>2 DEF Clears
<1> QED
  BY <1>1, LifeInvariance, PTL DEF Spec, ClearedLevelCostsNoLife

\* While the game is paused the board is frozen: no update runs, and of the
\* commands only Play and the lost life do anything.
THEOREM Frozen == Spec => PausedFreezesBoard
<1>1. ASSUME LifeInv, [Next]_vars,
             isPaused(gs), gs.currTicks \in 1 .. MaxTicks - 1,
             gs'.currTicks # 0
      PROVE  gs' = [gs EXCEPT !.mode = gs'.mode, !.currLives = gs'.currLives]
  <2>1. gs \in gameState /\ stopped(gs)
    BY <1>1, InvTypes DEF stopped
  <2>2. gs.currTicks # 0 /\ gs.currTicks # MaxTicks
    BY <1>1, ConstantTypes
  <2>3. ~ Update
    BY <1>1, <2>2 DEF LifeInv, Update, newGameState
  <2>4. ~ JumpCommand /\ ~ WalkCommand /\ ~ Walk
    BY <1>1, <2>1 DEF LifeInv, JumpCommand, WalkCommand, Walk, CanTrack
  <2>5. ~ RestartCommand
    BY <1>1, NewGameLife, PlanLife DEF RestartCommand, Starts, Alike
  <2>6. CASE gs' = gs
    BY <2>1, <2>6 DEF gameState
  <2>7. CASE MoveCommand
    BY <1>1, <2>1, <2>6, <2>7, MoveLife DEF MoveCommand, Obey, LifeInv
  <2>8. CASE PauseCommand \/ Tick
    BY <1>1, <2>6, <2>8 DEF PauseCommand, Tick, Obey, pause
  <2>9. CASE PlayCommand \/ KillCommand
    BY <2>1, <2>9 DEF PlayCommand, KillCommand, Obey, play, decrementLives, gameState
  <2>10. CASE SkipUpdate \/ UNCHANGED vars
    BY <2>6, <2>10 DEF SkipUpdate, vars
  <2> QED
    BY <1>1, <2>3, <2>4, <2>5, <2>7, <2>8, <2>9, <2>10 DEF Next, RunLoop, Command
<1> QED
  BY <1>1, LifeInvariance, PTL DEF Spec, PausedFreezesBoard

-----------------------------------------------------------------------------
(* Anger: what the calls do to the mode a game is in, or will resume in,     *)
(* once the pellets are at the first anger threshold.                        *)

Angry(s) == s.numPellets <= AngerThreshold1

Steady(s, r) ==
  /\ r.numPellets = s.numPellets
  /\ Angry(s) => /\ getLastUnpausedMode(r) = getLastUnpausedMode(s)
                 /\ r.modeSteps = s.modeSteps

\* Steady, or a pellet further, or on a new board.
Tempered(s, r) ==
  \/ Steady(s, r)
  \/ Angry(s) => r.numPellets < s.numPellets \/ ~ Angry(r)

LEMMA Together ==
  ASSUME NEW s, NEW m, NEW r
  PROVE  /\ Steady(s, m) /\ Steady(m, r) => Steady(s, r)
         /\ Steady(s, m) /\ Tempered(m, r) => Tempered(s, r)
         /\ Tempered(s, m) /\ Steady(m, r) => Tempered(s, r)
BY DEF Steady, Tempered, Angry

LEMMA CollisionsSteady ==
  ASSUME NEW s \in gameState
  PROVE  Steady(s, checkCollisions(s))
<1>1. s.numPellets \in Nat /\ AngerThreshold1 \in Nat
  BY ConstantTypes DEF gameState
<1>2. Steady(s, deathReset(s))
  BY <1>1 DEF gameState, deathReset, decrementLives, startMode, resetAllGhosts,
              Steady, Angry, getLastUnpausedMode, isPaused
<1>3. Steady(s, respawnGhosts(s, colliding(s)))
  BY DEF gameState, respawnGhosts, Steady, getLastUnpausedMode, isPaused
<1>4. Steady(s, s)
  BY DEF Steady
<1> QED
  BY <1>2, <1>3, <1>4 DEF checkCollisions

LEMMA PelletTempered ==
  ASSUME Cardinality(InitPellets) > AngerThreshold1,
         NEW s \in gameState, NEW cell
  PROVE  Tempered(s, collectPellet(s, cell))
<1> DEFINE fed  == IF s.fruitSteps > 0 /\ s.pacmanLoc = FruitCell
                   THEN [s EXCEPT !.fruitSteps = 0] ELSE s
           less == [fed EXCEPT !.pellets = @ \ {cell}, !.numPellets = dec(@)]
           more == IF cell \in SuperPellets
                   THEN frightenAllGhosts(less) ELSE less
           fruit == IF /\ more.numPellets \in {FruitThreshold1, FruitThreshold2}
                       /\ more.fruitSteps = 0
                    THEN [more EXCEPT !.fruitSteps = FruitDuration] ELSE more
           r == collectPellet(s, cell)
<1>1. /\ s.numPellets \in Nat /\ AngerThreshold1 \in Nat \ {0}
      /\ AngerThreshold2 \in Nat \ {0} /\ Cardinality(InitPellets) \in Nat
  BY ConstantTypes, RulesAssumption DEF gameState
<1>2. fed \in gameState /\ Steady(s, fed)
  <2>1. [s EXCEPT !.fruitSteps = 0] \in gameState
    BY FieldTypes, ConstantTypes
  <2> QED
    BY <2>1 DEF gameState, Steady, getLastUnpausedMode, isPaused
<1>3. CASE cell \notin s.pellets
  BY <1>2, <1>3 DEF collectPellet, Tempered
<1>4. CASE cell \in s.pellets
  <2>1. less \in gameState /\ less.numPellets = dec(s.numPellets)
    <3>1. fed.pellets \ {cell} \in SUBSET InitPellets /\ dec(fed.numPellets) \in Nat
      BY <1>2 DEF gameState, dec
    <3> HIDE DEF fed
    <3>2. less \in gameState
      BY <1>2, <3>1, FieldTypes
    <3> QED
      BY <1>2, <3>2 DEF gameState, Steady
  <2>2. more \in gameState /\ more.numPellets = dec(s.numPellets)
    <3> HIDE DEF less
    <3>1. frightenAllGhosts(less) \in gameState
      BY <2>1, AllGhostsType
    <3>2. frightenAllGhosts(less).numPellets = less.numPellets
      BY <2>1 DEF frightenAllGhosts, gameState
    <3> QED
      BY <2>1, <3>1, <3>2
  <2>3. fruit \in gameState /\ fruit.numPellets = dec(s.numPellets)
    <3> HIDE DEF more
    <3>1. [more EXCEPT !.fruitSteps = FruitDuration] \in gameState
      BY <2>2, FieldTypes, ConstantTypes
    <3> QED
      BY <2>2, <3>1 DEF gameState
  <2>4. \/ r = incrementLevel(levelReset(fruit))
        \/ /\ r \in {startMode(speedUp(fruit), "chase"), fruit}
           /\ more.numPellets # 0
    BY <1>1, <1>4 DEF collectPellet, pelletEvents
  <2> HIDE DEF fruit, more, r
  <2>5. CASE r = incrementLevel(levelReset(fruit))
    <3>1. r.numPellets = Cardinality(InitPellets)
      BY <2>3, <2>5, LevelResetFields
    <3> QED
      BY <1>1, <3>1 DEF r, Tempered, Angry
  <2>6. CASE r \in {startMode(speedUp(fruit), "chase"), fruit}
             /\ more.numPellets # 0
    <3>1. r.numPellets = fruit.numPellets
      BY <2>3, <2>6 DEF startMode, speedUp, gameState
    <3>2. r.numPellets < s.numPellets
      BY <1>1, <2>2, <2>3, <2>6, <3>1 DEF dec
    <3> QED
      BY <3>2 DEF r, Tempered
  <2> QED
    BY <2>4, <2>5, <2>6
<1> QED
  BY <1>3, <1>4

LEMMA MovesTempered ==
  ASSUME Cardinality(InitPellets) > AngerThreshold1,
         NEW s \in gameState, NEW dest
  PROVE  /\ Tempered(s, movePacmanDir(s, dest))
         /\ dest \in Corridor => Tempered(s, jump(s, dest))
<1> DEFINE there == [s EXCEPT !.pacmanLoc = dest]
           eaten == collectPellet(there, dest)
<1>1. Steady(s, s)
  BY DEF Steady
<1>2. ASSUME dest \in Corridor
      PROVE  Tempered(s, checkCollisions(eaten))
  <2>1. there \in gameState /\ Steady(s, there)
    BY <1>2 DEF gameState, Steady, getLastUnpausedMode, isPaused
  <2> HIDE DEF there
  <2>2. eaten \in gameState /\ Tempered(there, eaten)
    BY <2>1, PelletType, PelletTempered
  <2> HIDE DEF eaten
  <2>3. Steady(eaten, checkCollisions(eaten))
    BY <2>2, CollisionsSteady
  <2> QED
    BY <2>1, <2>2, <2>3, Together
<1>3. CASE stopped(s) \/ dest \notin neighbors(s.pacmanLoc)
  BY <1>2, <1>3, CollisionsSteady DEF movePacmanDir, jump, Tempered
<1>4. CASE ~ (stopped(s) \/ dest \notin neighbors(s.pacmanLoc))
  BY <1>2, <1>4 DEF movePacmanDir, jump, neighbors
<1> QED
  BY <1>3, <1>4

LEMMA UpdateSteady ==
  ASSUME NEW s \in gameState, s.modeSteps > 0, NEW n \in plans(stepped(s))
  PROVE  LET r == planAllGhosts(stepped(s), n) IN
         /\ r.numPellets = s.numPellets
         /\ Angry(s) => getLastUnpausedMode(r) = getLastUnpausedMode(s)
<1> DEFINE e == pauseIfPending(tryRespawnPacman(updateAllGhosts(s)))
           k == checkCollisions(e)
           h == handleStepEvents(k)
           r == planAllGhosts(stepped(s), n)
<1>1. e \in gameState /\ Steady(s, e) /\ e.modeSteps = s.modeSteps
  <2> DEFINE t == tryRespawnPacman(updateAllGhosts(s))
  <2>1. /\ t \in gameState
        /\ t.numPellets = s.numPellets /\ t.modeSteps = s.modeSteps
        /\ t.mode = s.mode /\ t.lastUnpausedMode = s.lastUnpausedMode
    <3>1. updateAllGhosts(s) \in gameState
      BY AllGhostsType
    <3>2. PacmanSpawn \in Corridor \cup {Empty}
      BY MazeAssumption
    <3> QED
      BY <3>1, <3>2, FieldTypes DEF updateAllGhosts, tryRespawnPacman, gameState
  <2> HIDE DEF t
  <2>2. /\ e \in gameState
        /\ e.numPellets = t.numPellets /\ e.modeSteps = t.modeSteps
        /\ getLastUnpausedMode(e) = getLastUnpausedMode(t)
    BY <2>1, PauseType
       DEF t, pauseIfPending, pause, getLastUnpausedMode, isPaused, gameState
  <2>3. getLastUnpausedMode(t) = getLastUnpausedMode(s)
    BY <2>1 DEF getLastUnpausedMode, isPaused
  <2> QED
    BY <2>1, <2>2, <2>3 DEF Steady
<1> HIDE DEF e
<1>2. k \in gameState /\ Steady(s, k)
  BY <1>1, CollisionsType, CollisionsSteady, Together
<1> HIDE DEF k
<1>3. /\ h \in gameState /\ h.numPellets = k.numPellets
      /\ k.modeSteps # 0 => getLastUnpausedMode(h) = getLastUnpausedMode(k)
  <2>1. h \in gameState
    BY <1>2, StepType
  <2>2. h.numPellets = k.numPellets
    BY <1>2, StepFields
  <2>3. k.modeSteps # 0 => h.mode = k.mode /\ h.lastUnpausedMode = k.lastUnpausedMode
    BY <1>2 DEF handleStepEvents, speedUp, gameState
  <2> QED
    BY <2>1, <2>2, <2>3 DEF getLastUnpausedMode, isPaused
<1>4. stepped(s) = h
  BY DEF stepped, k, e
<1> HIDE DEF h
<1>5. /\ r.numPellets = h.numPellets
      /\ getLastUnpausedMode(r) = getLastUnpausedMode(h)
  BY <1>3, <1>4 DEF planAllGhosts, getLastUnpausedMode, isPaused, gameState
<1> HIDE DEF r
<1>6. r.numPellets = s.numPellets
  BY <1>2, <1>3, <1>5 DEF Steady
<1>7. ASSUME Angry(s)
      PROVE  getLastUnpausedMode(r) = getLastUnpausedMode(s)
  <2>1. k.modeSteps # 0
    BY <1>2, <1>7 DEF Steady, gameState
  <2> QED
    BY <1>2, <1>3, <1>5, <1>7, <2>1 DEF Steady
<1> QED
  BY <1>6, <1>7 DEF r

\* Angry ghosts stay angry, whatever a death, a pause or a command does, until
\* more pellets are eaten or the schedule runs out: deathReset calms them only
\* above the first threshold.  A board has more pellets than that.
THEOREM Anger ==
  ASSUME Cardinality(InitPellets) > AngerThreshold1
  PROVE  Spec => AngerSurvivesDeath
<1>1. ASSUME LifeInv, [Next]_vars,
             gs.numPellets <= AngerThreshold1, gs'.numPellets = gs.numPellets,
             gs.modeSteps > 0
      PROVE  getLastUnpausedMode(gs') = getLastUnpausedMode(gs)
  <2>1. /\ gs \in gameState /\ Angry(gs) /\ gs.numPellets \in Nat
        /\ AngerThreshold1 \in Nat
    BY <1>1, InvTypes, ConstantTypes DEF Angry, gameState
  <2>2. Tempered(gs, gs')
          => getLastUnpausedMode(gs') = getLastUnpausedMode(gs)
    BY <1>1, <2>1 DEF Tempered, Steady, Angry
  <2>3. CASE Update
    BY <1>1, <2>1, <2>3, UpdateSteady DEF Update
  <2>4. CASE PauseCommand \/ PlayCommand \/ KillCommand \/ Tick
    <3>1. gs' \in {gs, pause(gs), play(gs), decrementLives(gs), nextTick(gs)}
      BY <2>4 DEF PauseCommand, PlayCommand, KillCommand, Tick, Obey
    <3>2. \A r \in {pause(gs), play(gs), decrementLives(gs)} :
            getLastUnpausedMode(r) = getLastUnpausedMode(gs)
      BY <2>1 DEF pause, play, canPlay, decrementLives, getLastUnpausedMode,
                  isPaused, PlayModes, gameState
    <3>3. \A r \in gameState : \A t \in 0 .. MaxTicks :
            getLastUnpausedMode([r EXCEPT !.currTicks = t])
              = getLastUnpausedMode(r)
      BY DEF getLastUnpausedMode, isPaused, gameState
    <3>4. getLastUnpausedMode(nextTick(gs)) = getLastUnpausedMode(gs)
      <4>1. pause(gs) \in gameState /\ pause(gs).currTicks = gs.currTicks
        BY <2>1, PauseType DEF pause, gameState
      <4>2. MaxTicks \in Nat /\ gs.currTicks \in 0 .. MaxTicks
        BY <2>1, ConstantTypes DEF gameState
      <4>3. gs.currTicks # MaxTicks => gs.currTicks + 1 \in 0 .. MaxTicks
        BY <4>2
      <4> QED
        BY <2>1, <3>2, <3>3, <4>1, <4>3 DEF nextTick
    <3> QED
      BY <3>1, <3>2, <3>4
  <2>5. CASE MoveCommand
    BY <1>1, <2>1, <2>2, <2>5, MovesTempered DEF MoveCommand, Obey
  <2>6. CASE JumpCommand
    BY <1>1, <2>1, <2>2, <2>6, MovesTempered DEF JumpCommand, Obey
  <2>7. CASE WalkCommand \/ Walk
    <3>1. ~ stopped(gs) /\ gs.pacmanLoc # Empty
      BY <1>1, <2>7 DEF LifeInv, WalkCommand, Walk, CanTrack, Entering, Sound,
                        Halted, stopped
    <3>2. PICK n \in neighbors(gs.pacmanLoc) : gs' = walk(gs, n)
      BY <2>7 DEF WalkCommand, Walk, WalkTowards, findLikelyPath
    <3>3. gs' = [movePacmanDir(gs, n) EXCEPT !.fruitSteps = gs'.fruitSteps]
      BY <1>1, <3>1, <3>2, WalkLife DEF LifeInv
    <3>4. movePacmanDir(gs, n) \in gameState
      BY <2>1, MoveTypes
    <3>5. Steady(movePacmanDir(gs, n), gs')
      BY <3>3, <3>4 DEF Steady, getLastUnpausedMode, isPaused, gameState
    <3> QED
      BY <1>1, <2>1, <2>2, <3>5, MovesTempered, Together
  <2>8. CASE RestartCommand
    <3> DEFINE fresh == handleStepEvents(updateAllGhosts(newGameState))
    <3>1. PICK n \in plans(fresh) : gs' = planAllGhosts(fresh, n)
      BY <2>8 DEF RestartCommand
    <3>2. updateAllGhosts(newGameState) \in gameState
      BY NewGameType, AllGhostsType
    <3>3. fresh.numPellets = Cardinality(InitPellets) /\ fresh \in gameState
      BY <3>2, NewGameType, StepType, StepFields
         DEF updateAllGhosts, newGameState, gameState
    <3> HIDE DEF fresh
    <3>4. gs'.numPellets = Cardinality(InitPellets)
      BY <3>1, <3>3 DEF planAllGhosts, gameState
    <3> QED
      BY <1>1, <2>1, <3>4, ConstantTypes
  <2>9. CASE SkipUpdate \/ UNCHANGED vars
    BY <2>9 DEF SkipUpdate, vars
  <2> QED
    BY <1>1, <2>3, <2>4, <2>5, <2>6, <2>7, <2>8, <2>9 DEF Next, RunLoop, Command
<1> QED
  BY <1>1, LifeInvariance, PTL DEF Spec, AngerSurvivesDeath
=============================================================================
