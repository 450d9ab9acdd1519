SPECIFICATION FairSpec
CONSTANTS
  m1 = m1
  None = None
  Stop = Stop
  North = North
  East = East
  Motors <- MCMotors
  Duties = {0, 1}
  Dirs <- MCDirs
  MaxSpeed = 2
  Moves <- MCMoves
  SlowSpeed = 1
  MaxStep = 1
INVARIANTS
  TypeOK
  ManualBypassesDrive
  BrakingNeverReverses
  SlidesOnlyAlongCorridor
PROPERTIES
  MoveObeyed
  StopMeansStill
  StopsAtWall
