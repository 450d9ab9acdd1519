------------------------ MODULE RobotFirmwareProofs ------------------------
(***************************************************************************)
(* Theorems about RobotFirmware for every set of motors, directions and    *)
(* moves, every speed limit and every ramp.                                *)
(***************************************************************************)
EXTENDS RobotFirmware, TLAPS

Boxes == [mode : Modes \cup {None}, calibrate : BOOLEAN,
          motor : BOOLEAN, move : AllMoves \cup {None}]
Drives == [mode : Modes, dir : Dirs \cup {Stop}, speed : Speeds,
           forward : Int, calibrated : BOOLEAN, suppress : BOOLEAN,
           lateral : Dirs \cup {Stop}]
Motions == [along : Int, adjust : BOOLEAN]

\* What holds of the statics of drive.cpp between any two calls.
Steady(d) ==
  /\ d \in Drives
  /\ d.forward \in Speeds
  /\ d.lateral # Stop => d.calibrated /\ d.lateral = d.dir

\* The control loops run in cardinal mode: only the polls before them change
\* the mode.
LoopsInCardinal == pc \in {"heading", "center"} => drive.mode = "cardinal"

\* The invariant.  Bypassing is not inductive without the place of the loops,
\* nor is the speed along a corridor within its limits unless the forward speed
\* is.
IInv ==
  /\ LoopsInCardinal
  /\ TypeOK
  /\ ManualBypassesDrive
  /\ BrakingNeverReverses
  /\ SlidesOnlyAlongCorridor

-----------------------------------------------------------------------------
\* constrain clamps its argument to the interval (the Arduino macro).
LEMMA Constrain ==
  ASSUME NEW x \in Int, NEW low \in Int, NEW high \in Int, low <= high
  PROVE  /\ constrain(x, low, high) \in low .. high
         /\ x \in low .. high => constrain(x, low, high) = x
BY DEF constrain

\* Zero is a speed.
LEMMA ZeroSpeed == 0 \in Speeds /\ Speeds \subseteq Int
BY FirmwareAssumption DEF Speeds

\* The initial statics are steady.
LEMMA InitSteady == Steady(driveInit)
BY ZeroSpeed DEF driveInit, Steady, Drives, Modes

\* driveSetMode keeps the statics steady and sets the mode.
LEMMA SetModeSteady ==
  ASSUME NEW d, Steady(d), NEW m \in Modes
  PROVE  Steady(driveSetMode(d, m)) /\ driveSetMode(d, m).mode = m
BY ZeroSpeed DEF driveSetMode, driveInit, Steady, Drives, Modes

\* driveCalibrate keeps the statics steady and the mode.
LEMMA CalibrateSteady ==
  ASSUME NEW d, Steady(d)
  PROVE  Steady(driveCalibrate(d)) /\ driveCalibrate(d).mode = d.mode
BY ZeroSpeed DEF driveCalibrate, Steady, Drives

\* A new direction drops the lateral correction, which belongs to the old one.
LEMMA SetCardinalSteady ==
  ASSUME NEW d, Steady(d), NEW move \in AllMoves
  PROVE  Steady(driveSetCardinal(d, move)) /\ driveSetCardinal(d, move).mode = d.mode
BY ZeroSpeed DEF driveSetCardinal, Steady, Drives, AllMoves

\* A calibrated robot corrects sideways to the direction that it has; without
\* readings it keeps a correction, which was for that direction.
LEMMA CenteringSteady ==
  ASSUME NEW d, Steady(d),
         NEW left \in Beside, NEW right \in Beside, NEW offCenter \in BOOLEAN
  PROVE  /\ Steady(driveUpdateCentering(d, left, right, offCenter))
         /\ driveUpdateCentering(d, left, right, offCenter).mode = d.mode
<1> DEFINE lat == IF ~ d.calibrated THEN Stop
                  ELSE IF {left, right} = {"none"} THEN d.lateral
                  ELSE IF offCenter THEN d.dir ELSE Stop
           sup == "near" \in {left, right}
<1>1. /\ lat \in {Stop, d.lateral, d.dir} /\ sup \in BOOLEAN
      /\ lat # Stop => d.calibrated /\ lat = d.dir
  BY DEF Steady, Drives
<1>2. driveUpdateCentering(d, left, right, offCenter)
        = [d EXCEPT !.suppress = sup, !.lateral = lat]
  BY Zenon DEF driveUpdateCentering
<1> HIDE DEF lat, sup
<1> QED BY <1>1, <1>2 DEF Steady, Drives

\* The ramp moves the forward speed towards a target between zero and the
\* speed limit, so that it stays between them.
LEMMA ForwardSteady ==
  ASSUME NEW d, Steady(d), NEW ahead \in Ahead, NEW step \in 1 .. MaxStep
  PROVE  /\ Steady(driveUpdateForward(d, ahead, step))
         /\ driveUpdateForward(d, ahead, step).mode = d.mode
<1> DEFINE target == targetSpeed(d, ahead)
           ramped == d.forward + constrain(target - d.forward, -step, step)
<1>1. CASE ahead = "error"
  BY <1>1 DEF driveUpdateForward
<1>2. CASE ahead # "error"
  <2>1. target \in Speeds
    BY <1>2, ZeroSpeed, FirmwareAssumption DEF targetSpeed, Ahead, Steady, Drives
  <2>2. step \in Int /\ step >= 1
    BY FirmwareAssumption
  <2>3. d.forward \in Speeds
    BY DEF Steady
  <2>4. ramped \in Speeds
    <3> HIDE DEF target
    <3> QED BY <2>1, <2>2, <2>3, FirmwareAssumption DEF Speeds, constrain
  <2>5. driveUpdateForward(d, ahead, step) = [d EXCEPT !.forward = ramped]
    BY <1>2, Zenon DEF driveUpdateForward
  <2> HIDE DEF ramped
  <2> QED BY <2>4, <2>5, ZeroSpeed DEF Steady, Drives
<1> QED BY <1>1, <1>2

\* The effective speed is the forward speed, capped with the commanded one.
LEMMA UpdateMotion ==
  ASSUME NEW d, Steady(d), NEW offHeading \in BOOLEAN
  PROVE  /\ driveUpdate(d, offHeading) \in Motions
         /\ driveUpdate(d, offHeading).along \in Speeds
<1> DEFINE along == IF d.dir = Stop THEN 0
                    ELSE constrain(d.forward, -d.speed, d.speed)
           adjust == /\ d.speed > 0
                     /\ \/ offHeading /\ ~ d.suppress
                        \/ d.lateral # Stop /\ d.dir # Stop
<1>1. d.forward \in Speeds /\ d.speed \in Speeds
  BY DEF Steady, Drives
<1>2. along \in Speeds
  BY <1>1, FirmwareAssumption DEF Speeds, constrain
<1>3. adjust \in BOOLEAN
  OBVIOUS
<1>4. driveUpdate(d, offHeading) = [along |-> along, adjust |-> adjust]
  BY DEF driveUpdate
<1> HIDE DEF along, adjust
<1> QED BY <1>2, <1>3, <1>4, ZeroSpeed DEF Motions

-----------------------------------------------------------------------------
\* A pending command is a mode, a move or nothing.
LEMMA BoxFields ==
  ASSUME NEW b \in Boxes
  PROVE  /\ \A m \in Modes \cup {None} : [b EXCEPT !.mode = m] \in Boxes
         /\ \A f \in BOOLEAN : [b EXCEPT !.calibrate = f] \in Boxes
         /\ \A f \in BOOLEAN : [b EXCEPT !.motor = f] \in Boxes
         /\ \A m \in AllMoves \cup {None} : [b EXCEPT !.move = m] \in Boxes
BY DEF Boxes

\* The invariant in terms of the statics' own.
LEMMA Parts ==
  IInv <=> /\ box \in Boxes
           /\ command \in [Motors -> Duties]
           /\ pc \in Places
           /\ Steady(drive)
           /\ duty \in [Motors -> Duties]
           /\ motion \in Motions
           /\ motion.along \in Speeds
           /\ walled \in BOOLEAN
           /\ drive.mode = "manual" => motion = Still
           /\ pc \in {"heading", "center"} => drive.mode = "cardinal"
BY DEF IInv, LoopsInCardinal, TypeOK, ManualBypassesDrive, BrakingNeverReverses,
       SlidesOnlyAlongCorridor, Steady, Boxes, Drives, Motions

\* The motors at rest are within their types.
LEMMA AtRestTypes ==
  /\ AtRest \in [Motors -> Duties]
  /\ Still \in Motions /\ Still.along \in Speeds
BY FirmwareAssumption, ZeroSpeed DEF AtRest, Still, Motions

\* The robot starts in manual mode and at rest.
LEMMA InitInv == Init => IInv
<1> SUFFICES ASSUME Init PROVE IInv
  OBVIOUS
<1>1. box \in Boxes
  BY DEF Init, Boxes
<1> QED BY <1>1, InitSteady, AtRestTypes, Parts DEF Init, Places

\* Core 1 only writes the mailbox.
LEMMA ReceiveInv == IInv /\ Receive => IInv'
<1> SUFFICES ASSUME IInv, Receive PROVE IInv'
  OBVIOUS
<1>1. ASSUME NEW m \in Motors, NEW d \in Duties, SetMotor(m, d) PROVE IInv'
  BY <1>1, Parts, BoxFields DEF SetMotor, core0, IInv, LoopsInCardinal, TypeOK,
     ManualBypassesDrive, BrakingNeverReverses, SlidesOnlyAlongCorridor, Boxes
<1>2. ASSUME NEW speeds \in [Motors -> Duties], SetMotors(speeds) PROVE IInv'
  BY <1>2, Parts, BoxFields DEF SetMotors, core0, IInv, LoopsInCardinal, TypeOK,
     ManualBypassesDrive, BrakingNeverReverses, SlidesOnlyAlongCorridor, Boxes
<1>3. ASSUME NEW m \in Modes, SetDriveMode(m) PROVE IInv'
  BY <1>3, Parts, BoxFields DEF SetDriveMode, core0, IInv, LoopsInCardinal, TypeOK,
     ManualBypassesDrive, BrakingNeverReverses, SlidesOnlyAlongCorridor, Boxes
<1>4. ASSUME NEW move \in Moves, CardinalMove(move) PROVE IInv'
  <2>1. move \in AllMoves \cup {None}
    BY FirmwareAssumption
  <2> QED BY <1>4, <2>1, Parts, BoxFields DEF CardinalMove, core0, IInv, LoopsInCardinal, TypeOK,
     ManualBypassesDrive, BrakingNeverReverses, SlidesOnlyAlongCorridor, Boxes
<1>5. ASSUME Calibrate PROVE IInv'
  BY <1>5, Parts, BoxFields DEF Calibrate, core0, IInv, LoopsInCardinal, TypeOK,
     ManualBypassesDrive, BrakingNeverReverses, SlidesOnlyAlongCorridor, Boxes
<1> QED BY <1>1, <1>2, <1>3, <1>4, <1>5 DEF Receive

\* Core 0's loop: a mode that ends stops the motors, and everything else leaves
\* manual mode at rest.
LEMMA LoopInv == IInv /\ Loop => IInv'
<1> SUFFICES ASSUME IInv, Loop PROVE IInv'
  OBVIOUS
<1> DEFINE Rest == /\ box' \in Boxes
                   /\ command' \in [Motors -> Duties]
                   /\ pc' \in Places
                   /\ Steady(drive')
                   /\ duty' \in [Motors -> Duties]
                   /\ motion' \in Motions
                   /\ motion'.along \in Speeds
                   /\ walled' \in BOOLEAN
                   /\ drive'.mode = "manual" => motion' = Still
                   /\ pc' \in {"heading", "center"} => drive'.mode = "cardinal"
<1>0. SUFFICES Rest
  BY DEF IInv, LoopsInCardinal, TypeOK, ManualBypassesDrive,
     BrakingNeverReverses, SlidesOnlyAlongCorridor, Steady, Boxes, Drives, Motions
<1> USE Parts DEF Places
<1>1. CASE PollDriveMode
  <2>1. box.mode = None \/ box.mode \in Modes
    BY DEF Boxes
  <2>2. "manual" # None /\ "cardinal" # None
    BY FirmwareAssumption
  <2>3. CASE box.mode = None
    BY <1>1, <2>2, <2>3, BoxFields DEF PollDriveMode
  <2>4. CASE box.mode \in Modes
    <3>1. drive' = driveSetMode(drive, box.mode)
      BY <1>1, <2>2, <2>4 DEF PollDriveMode, Modes
    <3>2. Steady(drive') /\ drive'.mode = box.mode
      BY <2>4, <3>1, SetModeSteady
    <3>3. box' \in Boxes /\ pc' \in Places
      BY <1>1, BoxFields DEF PollDriveMode
    <3> QED BY <1>1, <3>2, <3>3, AtRestTypes DEF PollDriveMode
  <2> QED BY <2>1, <2>3, <2>4
<1>2. CASE PollCalibrate
  BY <1>2, BoxFields, CalibrateSteady DEF PollCalibrate
<1>3. CASE PollMotorCmd
  <2>1. Steady(drive')
    BY <1>3, SetModeSteady DEF PollMotorCmd, Modes
  <2> QED BY <1>3, <2>1, BoxFields, AtRestTypes DEF PollMotorCmd
<1>4. CASE NoMotorCmd
  BY <1>4 DEF NoMotorCmd
<1>5. CASE PollCardinalCmd
  <2>1. box.move \in AllMoves \cup {None}
    BY DEF Boxes
  <2>2. Steady(drive') /\ drive'.mode = "cardinal"
    BY <1>5, <2>1, SetCardinalSteady DEF PollCardinalCmd
  <2> QED BY <1>5, <2>2, BoxFields DEF PollCardinalCmd
<1>6. CASE Bypass
  BY <1>6 DEF Bypass
<1>7. CASE RunHeading
  <2>1. drive.mode = "cardinal"
    BY <1>7 DEF RunHeading
  <2> QED BY <1>7, <2>1, UpdateMotion, AtRestTypes DEF RunHeading
<1>8. CASE RunCentering
  <2>1. Steady(drive') /\ drive'.mode = drive.mode /\ walled' \in BOOLEAN
    <3>1. CASE drive.dir = Stop
      BY <1>8, <3>1 DEF RunCentering
    <3>2. CASE drive.dir # Stop
      <4>1. PICK left \in Beside, right \in Beside, offCenter \in BOOLEAN,
                 ahead \in Ahead, step \in 1 .. MaxStep :
              /\ drive' = driveUpdateForward(
                            driveUpdateCentering(drive, left, right, offCenter),
                            ahead, step)
              /\ walled' = (ahead = "wall")
        BY <1>8, <3>2, Zenon DEF RunCentering
      <4> DEFINE centered == driveUpdateCentering(drive, left, right, offCenter)
      <4>2. Steady(centered) /\ centered.mode = drive.mode
        BY CenteringSteady
      <4>3. /\ drive' = driveUpdateForward(centered, ahead, step)
            /\ walled' \in BOOLEAN
        BY <4>1
      <4> HIDE DEF centered
      <4>4. /\ Steady(driveUpdateForward(centered, ahead, step))
            /\ driveUpdateForward(centered, ahead, step).mode = centered.mode
        BY <4>2, ForwardSteady
      <4> QED BY <4>2, <4>3, <4>4
    <3> QED BY <3>1, <3>2
  <2> QED BY <1>8, <2>1 DEF RunCentering
<1>9. CASE NotDue
  BY <1>9 DEF NotDue
<1> QED BY <1>1, <1>2, <1>3, <1>4, <1>5, <1>6, <1>7, <1>8, <1>9 DEF Loop

\* The invariant holds throughout.
THEOREM FirmwareInvariant == Spec => []IInv
<1>1. Init => IInv
  BY InitInv
<1>2. IInv /\ [Next]_vars => IInv'
  <2> SUFFICES ASSUME IInv, [Next]_vars PROVE IInv'
    OBVIOUS
  <2>1. CASE Receive
    BY <2>1, ReceiveInv
  <2>2. CASE Loop
    BY <2>2, LoopInv
  <2>3. CASE UNCHANGED vars
    BY <2>3 DEF vars, IInv, LoopsInCardinal, TypeOK, ManualBypassesDrive, BrakingNeverReverses,
       SlidesOnlyAlongCorridor
  <2> QED BY <2>1, <2>2, <2>3 DEF Next
<1> QED BY <1>1, <1>2, PTL DEF Spec

\* Every slot, and every variable of drive.cpp, has its type.
THEOREM FirmwareTypes == Spec => []TypeOK
BY FirmwareInvariant, PTL DEF IInv

\* In manual mode no control loop moves the motors.
THEOREM ManualBypass == Spec => []ManualBypassesDrive
BY FirmwareInvariant, PTL DEF IInv

\* Braking never reverses the robot and never exceeds the speed limit.
THEOREM Braking == Spec => []BrakingNeverReverses
BY FirmwareInvariant, PTL DEF IInv

\* A sideways correction belongs to the present direction and needs a
\* calibration.
THEOREM Slides == Spec => []SlidesOnlyAlongCorridor
BY FirmwareInvariant, PTL DEF IInv
=============================================================================
