SPECIFICATION Spec
CONSTANTS
  red = red
  pink = pink
  Empty = Empty
  Ghosts = {red, pink}
  ActiveGhosts = {red, pink}
  Red = red
  Pink = pink
  Orange = pink
  Cells <- MCCells
  Corridor <- MCCorridor
  Dist <- MCDist
  GhostMoves <- MCGhostMoves
  GhostSpawn <- MCGhostSpawn
  PacmanSpawn = 1
  FruitCell = 4
  InitPellets = {2, 3, 5}
  SuperPellets = {2}
  InitUpdatePeriod = 2
  MaxTicks = 5
  MaxLevel = 2
  InitLives = 2
  ScatterDuration = 1
  ChaseDuration = 2
  LevelDuration = 3
  LevelPenaltyDuration = 2
  FruitDuration = 2
  FrightSteps = 3
  FruitThreshold1 = 2
  FruitThreshold2 = 1
  AngerThreshold1 = 2
  AngerThreshold2 = 1
  LongPath = 2
INVARIANTS
  TypeOK
  NoGhostOnPacman
  EatenOncePerFright
  ResetClearsBoard
  AwayIsHalted
  PelletCount
  FruitOnItsBoard
PROPERTIES
  PausedFreezesBoard
  ClearedLevelCostsNoLife
  AngerSurvivesDeath
  GameLifeSpec
