--------------------------- MODULE RobotFirmware ---------------------------
(***************************************************************************)
(* The robot's firmware (src/low_level/RPiPacBot).  Core 1 answers the     *)
(* server's datagrams and leaves what they command in a mailbox, one slot  *)
(* for each kind of command; core 0 polls the slots one after the other,   *)
(* each under the mutex, and drives the motors.  PID gains and logging are *)
(* in RobotLink.                                                           *)
(***************************************************************************)
EXTENDS Integers

CONSTANTS Motors,    \* 0 .. NUM_MOTORS - 1
          Duties,    \* signed PWM duties, as clamped by handleRx
          Dirs,      \* the cardinal directions
          Stop,      \* DIR_STOP
          MaxSpeed,  \* 255
          Moves,     \* the cardinal moves that the server sends
          SlowSpeed, \* FWD_SLOW_SPEED
          MaxStep,   \* the most the forward speed ramps in one tick
          None       \* an empty slot

Speeds == 0 .. MaxSpeed
AllMoves == [dir : Dirs \cup {Stop}, speed : Speeds]

ASSUME FirmwareAssumption ==
  /\ MaxSpeed \in Nat
  /\ SlowSpeed \in Speeds
  /\ MaxStep \in Nat \ {0}
  /\ Moves \subseteq AllMoves
  /\ None \notin AllMoves \cup {"manual", "cardinal"}
  /\ Stop \notin Dirs
  /\ 0 \in Duties /\ Duties \subseteq Int

VARIABLES box,     \* the pending commands (commsShared)
          command, \* motorCmd: the speeds of the pending motor command
          pc,      \* the next poll or update of core 0's loop
          drive,   \* the statics of drive.cpp
          duty,    \* what a raw command makes the motors do, and
          motion,  \* what driveUpdate makes them do: one is at rest
          walled   \* the last forward reading was below FWD_STOP_DIST_MM

vars == <<box, command, pc, drive, duty, motion, walled>>

Modes == {"manual", "cardinal"}
Places == {"mode", "calibrate", "motor", "direction", "heading", "center"}
Ahead == {"error", "wall", "close", "clear"}
Beside == {"none", "wall", "near"}

AtRest == [m \in Motors |-> 0]
Still == [along |-> 0, adjust |-> FALSE]

(***************************************************************************)
(* drive.cpp.  The corrections are abstracted to whether there is one; the *)
(* lateral one also to the direction that the robot was moving in when it  *)
(* was computed, Stop if there is none.                                    *)
(***************************************************************************)
driveInit ==
  [mode |-> "manual", dir |-> Stop, speed |-> 0, forward |-> 0,
   calibrated |-> FALSE, suppress |-> FALSE, lateral |-> Stop]

driveSetMode(d, m) ==
  IF m = "cardinal"
  THEN [driveInit EXCEPT !.mode = m, !.calibrated = d.calibrated]
  ELSE [d EXCEPT !.mode = m]

driveCalibrate(d) ==
  [d EXCEPT !.calibrated = TRUE, !.lateral = Stop, !.forward = 0]

\* Mutants of driveSetCardinal: the lateral correction survives a turn; so does
\* the speed.
driveSetCardinalKeepingSlide(d, move) ==
  [d EXCEPT !.dir = move.dir, !.speed = move.speed,
            !.forward = IF move.dir = d.dir THEN @ ELSE 0]

driveSetCardinalKeepingSpeed(d, move) ==
  [d EXCEPT !.dir = move.dir,
            !.speed = IF move.dir = d.dir THEN move.speed ELSE @,
            !.lateral = IF move.dir = d.dir THEN @ ELSE Stop,
            !.forward = IF move.dir = d.dir THEN @ ELSE 0]

driveSetCardinal(d, move) ==
  [d EXCEPT !.dir = move.dir,
            !.speed = move.speed,
            !.lateral = IF move.dir = d.dir THEN @ ELSE Stop,
            !.forward = IF move.dir = d.dir THEN @ ELSE 0]

constrain(x, low, high) == IF x < low THEN low ELSE IF x > high THEN high ELSE x

\* Mutants of targetSpeed: the robot backs off from a wall, as the PID did that
\* the thresholds replaced (and drive.h:58 still says); it slows down but does
\* not stop.
targetSpeedBackingOff(d, ahead) ==
  CASE ahead = "wall"  -> -SlowSpeed
    [] ahead = "close" -> SlowSpeed
    [] ahead = "clear" -> d.speed

targetSpeedSlowing(d, ahead) ==
  IF ahead = "clear" THEN d.speed ELSE SlowSpeed

targetSpeed(d, ahead) ==
  CASE ahead = "wall"  -> 0
    [] ahead = "close" -> SlowSpeed
    [] ahead = "clear" -> d.speed

driveUpdateForward(d, ahead, step) ==
  IF ahead = "error" THEN d
  ELSE [d EXCEPT !.forward =
          @ + constrain(targetSpeed(d, ahead) - @, -step, step)]

\* offCenter: whether the readings call for a correction.
driveUpdateCentering(d, left, right, offCenter) ==
  [d EXCEPT !.suppress = "near" \in {left, right},
            !.lateral = IF ~ d.calibrated THEN Stop
                        ELSE IF {left, right} = {"none"} THEN @
                        ELSE IF offCenter THEN d.dir ELSE Stop]

\* Mutant of driveUpdate: the heading correction is not scaled with the speed,
\* as DRIVING.md:270 has it.
driveUpdateUnscaled(d, offHeading) ==
  [along  |-> IF d.dir = Stop THEN 0
              ELSE constrain(d.forward, -d.speed, d.speed),
   adjust |-> \/ offHeading /\ ~ d.suppress
              \/ d.lateral # Stop /\ d.dir # Stop /\ d.speed > 0]

\* offHeading: whether the heading PID calls for a correction.  Both
\* corrections are scaled with the speed; a stopped robot has no lateral axis.
driveUpdate(d, offHeading) ==
  [along  |-> IF d.dir = Stop THEN 0
              ELSE constrain(d.forward, -d.speed, d.speed),
   adjust |-> /\ d.speed > 0
              /\ \/ offHeading /\ ~ d.suppress
                 \/ d.lateral # Stop /\ d.dir # Stop]

(***************************************************************************)
(* Core 1: handleRx.  A command overwrites a pending one of its kind.      *)
(***************************************************************************)
Init ==
  /\ box = [mode |-> None, calibrate |-> FALSE, motor |-> FALSE, move |-> None]
  /\ command = AtRest
  /\ pc = "mode"
  /\ drive = driveInit
  /\ duty = AtRest
  /\ motion = Still
  /\ walled = FALSE

core0 == <<pc, drive, duty, motion, walled>>

SetMotor(m, d) ==
  /\ command' = [command EXCEPT ![m] = d]
  /\ box' = [box EXCEPT !.motor = TRUE]
  /\ UNCHANGED core0

SetMotors(speeds) ==
  /\ command' = speeds
  /\ box' = [box EXCEPT !.motor = TRUE]
  /\ UNCHANGED core0

SetDriveMode(m) ==
  /\ box' = [box EXCEPT !.mode = m]
  /\ UNCHANGED <<command, core0>>

CardinalMove(move) ==
  /\ box' = [box EXCEPT !.move = move]
  /\ UNCHANGED <<command, core0>>

Calibrate ==
  /\ box' = [box EXCEPT !.calibrate = TRUE]
  /\ UNCHANGED <<command, core0>>

Receive ==
  \/ \E m \in Motors, d \in Duties : SetMotor(m, d)
  \/ \E speeds \in [Motors -> Duties] : SetMotors(speeds)
  \/ \E m \in Modes : SetDriveMode(m)
  \/ \E move \in Moves : CardinalMove(move)
  \/ Calibrate

(***************************************************************************)
(* Core 0: one turn of loop().                                             *)
(***************************************************************************)
\* Mutants of PollDriveMode: an empty slot is read as a mode; manual mode does
\* not stop the motors.
PollDriveModeUnchecked ==
  /\ pc = "mode"
  /\ pc' = "calibrate"
  /\ box' = [box EXCEPT !.mode = None]
  /\ drive' = driveSetMode(drive, box.mode)
  /\ UNCHANGED <<command, duty, motion, walled>>

PollDriveModeRolling ==
  /\ pc = "mode"
  /\ pc' = "calibrate"
  /\ box' = [box EXCEPT !.mode = None]
  /\ drive' = IF box.mode = None THEN drive ELSE driveSetMode(drive, box.mode)
  /\ UNCHANGED <<command, duty, motion, walled>>

\* driveSetMode(DRIVE_MANUAL) also stops the motors.
PollDriveMode ==
  /\ pc = "mode"
  /\ pc' = "calibrate"
  /\ box' = [box EXCEPT !.mode = None]
  /\ drive' = IF box.mode = None THEN drive ELSE driveSetMode(drive, box.mode)
  /\ duty' = IF box.mode = "manual" THEN AtRest ELSE duty
  /\ motion' = IF box.mode = "manual" THEN Still ELSE motion
  /\ UNCHANGED <<command, walled>>

PollCalibrate ==
  /\ pc = "calibrate"
  /\ pc' = "motor"
  /\ box' = [box EXCEPT !.calibrate = FALSE]
  /\ drive' = IF box.calibrate THEN driveCalibrate(drive) ELSE drive
  /\ UNCHANGED <<command, duty, motion, walled>>

\* A raw motor command drops to manual mode and sets all motors.
PollMotorCmd ==
  /\ pc = "motor"
  /\ box.motor
  /\ pc' = "direction"
  /\ box' = [box EXCEPT !.motor = FALSE]
  /\ drive' = driveSetMode(drive, "manual")
  /\ duty' = command
  /\ motion' = Still
  /\ UNCHANGED <<command, walled>>

NoMotorCmd ==
  /\ pc = "motor"
  /\ ~ box.motor
  /\ pc' = "direction"
  /\ UNCHANGED <<box, command, drive, duty, motion, walled>>

\* A move is polled in cardinal mode only: in manual mode it stays pending.
PollCardinalCmd ==
  /\ pc = "direction"
  /\ drive.mode = "cardinal"
  /\ pc' = "heading"
  /\ box' = [box EXCEPT !.move = None]
  /\ drive' = IF box.move = None THEN drive ELSE driveSetCardinal(drive, box.move)
  /\ UNCHANGED <<command, duty, motion, walled>>

Bypass ==
  /\ pc = "direction"
  /\ drive.mode = "manual"
  /\ pc' = "mode"
  /\ UNCHANGED <<box, command, drive, duty, motion, walled>>

RunHeading ==
  /\ pc = "heading"
  /\ pc' = "center"
  /\ \E offHeading \in BOOLEAN : motion' = driveUpdate(drive, offHeading)
  /\ duty' = AtRest
  /\ UNCHANGED <<box, command, drive, walled>>

\* A stopped robot has neither lateral nor forward sensors.
RunCentering ==
  /\ pc = "center"
  /\ pc' = "mode"
  /\ IF drive.dir = Stop THEN UNCHANGED <<drive, walled>>
     ELSE \E left, right \in Beside, offCenter \in BOOLEAN,
             ahead \in Ahead, step \in 1 .. MaxStep :
            /\ drive' = driveUpdateForward(
                          driveUpdateCentering(drive, left, right, offCenter),
                          ahead, step)
            /\ walled' = (ahead = "wall")
  /\ UNCHANGED <<box, command, duty, motion>>

\* The interval of the update has not passed.
NotDue ==
  /\ \/ pc = "heading" /\ pc' = "center"
     \/ pc = "center" /\ pc' = "mode"
  /\ UNCHANGED <<box, command, drive, duty, motion, walled>>

Loop ==
  \/ PollDriveMode \/ PollCalibrate
  \/ PollMotorCmd \/ NoMotorCmd
  \/ PollCardinalCmd \/ Bypass
  \/ RunHeading \/ RunCentering \/ NotDue

Next == Receive \/ Loop

Spec == Init /\ [][Next]_vars

\* The loop never blocks, and millis() advances: the updates recur.
Fairness == WF_vars(Loop) /\ SF_vars(RunHeading) /\ SF_vars(RunCentering)

FairSpec == Spec /\ Fairness

(***************************************************************************)
(* Properties                                                              *)
(***************************************************************************)
\* Every variable has its type.
TypeOK ==
  /\ box \in [mode : Modes \cup {None}, calibrate : BOOLEAN,
              motor : BOOLEAN, move : AllMoves \cup {None}]
  /\ command \in [Motors -> Duties]
  /\ pc \in Places
  /\ drive \in [mode : Modes, dir : Dirs \cup {Stop}, speed : Speeds,
                forward : Int, calibrated : BOOLEAN, suppress : BOOLEAN,
                lateral : Dirs \cup {Stop}]
  /\ duty \in [Motors -> Duties]
  /\ motion \in [along : Int, adjust : BOOLEAN]
  /\ walled \in BOOLEAN

\* In manual mode the control loops are bypassed: whatever was under way when
\* the mode changed, by a command or by the drop to manual in loop(), the
\* motors do only what the server says.
ManualBypassesDrive == drive.mode = "manual" => motion = Still

\* Braking never drives the robot backwards and never speeds it up beyond what
\* a move may command, whatever the readings, moves and the ramp between them
\* (driveUpdateForward, driveUpdate).  So drive.cpp:29 and DRIVING.md:238 say;
\* that it "backs off when too close" (drive.h:59) was true of the PID once.
BrakingNeverReverses ==
  /\ motion.along \in Speeds
  /\ drive.forward \in Speeds

\* A lateral correction acts only in the direction it was computed for, however
\* moves, stops, calibrations and changes of mode come between the readings, and
\* a robot that was not calibrated makes none (driveUpdateCentering,
\* driveSetCardinal): left and right of another direction are other sensors and
\* other motors.
SlidesOnlyAlongCorridor ==
  drive.lateral # Stop => drive.calibrated /\ drive.lateral = drive.dir

\* In cardinal mode a pending move is obeyed unless a newer one replaces it or
\* the mode ends first.
MoveObeyed ==
  \A move \in Moves :
    drive.mode = "cardinal" /\ box.move = move
      ~> \/ drive.dir = move.dir /\ drive.speed = move.speed
         \/ box.move \notin {move, None}
         \/ drive.mode = "manual"

\* A robot whose speed stays zero comes to rest, its corrections included, and
\* so does one that enters cardinal mode with its motors running.  The code scales
\* the heading correction with the speed (drive.cpp:276), which DRIVING.md:277
\* denies: "the robot can spin in place to fix heading even at curSpeed = 0".
StopMeansStill ==
  <>[](drive.mode = "cardinal" /\ drive.speed = 0)
    => <>[](motion = Still /\ duty = AtRest)

\* A robot that keeps reading a wall ahead stops in front of it, although it
\* slows down over several readings, and neither goes on nor keeps a distance as
\* drive.h:58 has it ("Maintains FORWARD_TARGET_MM from the wall ahead").
StopsAtWall ==
  <>[](drive.mode = "cardinal" /\ walled) => <>[](motion.along = 0)
=============================================================================
