SPECIFICATION Spec
CONSTANTS
  Conns = {r1, r2}
  OutCap = 2
  SendCap = 2
  NoConn = NoConn
INVARIANT
  CountIsOpen
CHECK_DEADLOCK FALSE
