SPECIFICATION FairSpec
CONSTANTS
  Cells <- Block
  Spawn <- Corner
  StuckThreshold = 3
  UnstuckAfter = 2
INVARIANTS
  OnlyLossMisleads
PROPERTY
  KeepsMoving
