SPECIFICATION FairSpec
CONSTANTS
  Conns = {r1, r2}
  OutCap = 2
  SendCap = 2
  NoConn = NoConn
INVARIANTS
  TypeOK
  SendsToReaders
PROPERTIES
  LeaversAreDropped
  GameGoesOn
CHECK_DEADLOCK FALSE
