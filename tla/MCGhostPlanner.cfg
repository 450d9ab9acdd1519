SPECIFICATION FairSpec
CONSTANTS
  Colors = {"red", "pink", "cyan", "orange"}
  Open <- MCOpen
  Pacmans <- MCPacmans
  Reds <- MCReds
  FrightSteps = 4
INVARIANTS
  TypeOK
  NeverCornered
  GhostOnGround
  FrameTellsGhost
PROPERTIES
  FollowsRules
  LeavesHouse
  ScattersHome
