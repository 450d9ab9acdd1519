-------------------------- MODULE MCRobotFirmware --------------------------
EXTENDS RobotFirmware

CONSTANTS m1, North, East

MCMotors == {m1}
MCDirs == {North, East}

\* A stop, and two directions with a speed each: every turn, through a stop and
\* without, between different speeds, one of them the limit.
MCMoves ==
  {[dir |-> Stop, speed |-> 0], [dir |-> North, speed |-> 2],
   [dir |-> East, speed |-> 1]}
=============================================================================
