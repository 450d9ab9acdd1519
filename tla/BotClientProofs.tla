-------------------------- MODULE BotClientProofs --------------------------
(***************************************************************************)
(* In every maze, and however long the bot waits: it decides on open cells *)
(* only, and only a lost datagram or a sweep separates the robot from what *)
(* the bot believes it to do.                                              *)
(***************************************************************************)
EXTENDS BotClient, TLAPS

\* A target off the maze is where the bot starts from, and next to no cell.
LEMMA AwayFromCells ==
  ASSUME NEW c \in Cells, NEW d \in Dirs
  PROVE  next(c, d) # Away /\ c # Away
BY BotAssumption DEF next, Away, cell, emptyLoc, at, dRow, dCol, Dirs, up, left,
   down, right, none, mazeRows, mazeCols

\* The way from a code to the robot and back.
LEMMA WayOfCode ==
  ASSUME NEW d \in Dirs \cup {none}
  PROVE  code(d) \in 0 .. 4 /\ way[code(d)] = d
<1>1. /\ chars[up] = "n" /\ chars[right] = "e" /\ chars[down] = "s"
      /\ chars[left] = "w" /\ chars[none] = "x"
  BY DEF chars, Dirs, up, left, down, right, none
<1>2. /\ dirCode["n"] = 1 /\ dirCode["e"] = 2 /\ dirCode["s"] = 3
      /\ dirCode["w"] = 4 /\ dirCode["x"] = 0
  BY DEF dirCode
<1>3. /\ way[1] = up /\ way[2] = right /\ way[3] = down /\ way[4] = left
      /\ way[0] = none
  BY DEF way
<1> QED BY <1>1, <1>2, <1>3 DEF code, Dirs

LEMMA DirectionType ==
  ASSUME NEW t
  PROVE  /\ directionTo(t) \in Dirs \cup {none}
         /\ directionTo(t) # none => /\ directionTo(t) \in Dirs
                                     /\ known \in Cells
                                     /\ next(known, directionTo(t)) = t
<1>1. none \notin Dirs
  BY DEF Dirs, none, up, left, down, right
<1> QED BY <1>1 DEF directionTo

LEMMA TargetType ==
  ASSUME TypeOK, NEW t \in targets
  PROVE  t \in Places
BY DEF TypeOK, Places, targets, neighbors

\* Whatever was the target before, a step towards the next one is open.
LEMMA TargetOpen ==
  ASSUME TypeOK, NEW t \in targets, directionTo(t) # none
  PROVE  next(known, directionTo(t)) \in Cells
<1>1. /\ directionTo(t) \in Dirs /\ known \in Cells
      /\ next(known, directionTo(t)) = t
  BY DirectionType
<1>2. t # Away
  BY <1>1, AwayFromCells
<1> QED BY <1>1, <1>2, TargetType DEF Places

LEMMA AnnounceType ==
  ASSUME TypeOK, OnlyLossMisleads, NEW d \in Dirs \cup {none}, announce(d)
  PROVE  /\ last' = d /\ move' \in 0 .. 4 /\ astray' \in BOOLEAN
         /\ ~ astray' => way[move'] = last'
BY WayOfCode DEF TypeOK, OnlyLossMisleads, announce, told

LEMMA TryType ==
  ASSUME TypeOK, OnlyLossMisleads, NEW d \in Dirs \cup {none}, try(d)
  PROVE  /\ move' \in 0 .. 4 /\ astray' \in BOOLEAN
         /\ ~ astray' => way[move'] = last
BY WayOfCode DEF TypeOK, OnlyLossMisleads, try, told

LEMMA LaterType ==
  /\ \A x \in Off .. StuckThreshold + 1 :
       later(x, StuckThreshold + 1) \in Off .. StuckThreshold + 1
  /\ \A x \in 0 .. UnstuckAfter : later(x, UnstuckAfter) \in 0 .. UnstuckAfter
BY BotAssumption DEF later, Off

IInv == TypeOK /\ OnlyLossMisleads

LEMMA IInvInit == Init => IInv
<1>1. none = 4 /\ way[0] = none
  BY DEF way, none
<1>2. Off \in Off .. StuckThreshold + 1 /\ 0 \in 0 .. UnstuckAfter
  BY BotAssumption DEF Off
<1>3. ASSUME Init PROVE OnlyLossMisleads
  BY <1>1, <1>3 DEF Init, OnlyLossMisleads
<1>4. ASSUME Init PROVE TypeOK
  <2>1. fresh \in BOOLEAN /\ tried \in BOOLEAN /\ astray \in BOOLEAN
    BY <1>4 DEF Init
  <2>2. move \in 0 .. 4 /\ sweep \in 0 .. 5
    BY <1>4 DEF Init
  <2> QED BY <1>2, <1>4, <2>1, <2>2, BotAssumption DEF Init, TypeOK, Places
<1> QED BY <1>3, <1>4 DEF IInv

LEMMA DecideStep ==
  ASSUME IInv, NEW t \in targets, Decide(t)
  PROVE  IInv'
<1> DEFINE d == directionTo(t)
<1>1. d \in Dirs \cup {none} /\ t \in Places
  BY DirectionType, TargetType DEF IInv
<1> HIDE DEF d
<1>2. /\ robot' \in Cells /\ known' \in Places /\ fresh' \in BOOLEAN
      /\ targetPos' \in Places /\ tried' \in BOOLEAN
      /\ stuckPos' \in Places /\ stuckFor' \in 0 .. UnstuckAfter
  <2>1. robot' = robot /\ known' = known /\ fresh' = FALSE /\ targetPos' = t
    BY DEF Decide
  <2>2. tried' \in {tried, TRUE, FALSE} /\ stuckPos' \in {stuckPos, known, Away}
    BY DEF Decide, stuck
  <2>3. stuckFor' \in {stuckFor, 0} /\ 0 \in 0 .. UnstuckAfter
    BY BotAssumption DEF Decide, stuck
  <2> QED BY <1>1, <2>1, <2>2, <2>3 DEF IInv, TypeOK, Places
<1>3. prevLocation' \in Cells /\ stillFor' \in Off .. StuckThreshold + 1
  <2>1. Watch /\ TypeOK /\ 0 \in Off .. StuckThreshold + 1
    BY BotAssumption DEF Decide, IInv, Off
  <2> QED BY <2>1 DEF Watch, TypeOK
<1>4. CASE announce(d) /\ UNCHANGED <<direction, sweep>>
  <2>1. /\ last' = d /\ move' \in 0 .. 4 /\ astray' \in BOOLEAN
        /\ ~ astray' => way[move'] = last'
    BY <1>1, <1>4, AnnounceType DEF IInv
  <2> QED BY <1>1, <1>2, <1>3, <1>4, <2>1
             DEF IInv, TypeOK, OnlyLossMisleads, Places
<1>5. CASE direction' = d /\ sweep' = 1 /\ try(sweepOrder[1]) /\ last' = last
  <2>1. sweepOrder[1] \in Dirs \cup {none}
    BY DEF sweepOrder, Dirs
  <2>2. /\ move' \in 0 .. 4 /\ astray' \in BOOLEAN
        /\ ~ astray' => way[move'] = last'
    BY <1>5, <2>1, TryType DEF IInv
  <2>3. last' \in Dirs \cup {none} /\ direction' \in Dirs \cup {none}
        /\ sweep' \in 0 .. 5
    BY <1>1, <1>5 DEF IInv, TypeOK
  <2> QED BY <2>3, <1>1, <1>2, <1>3, <1>5, <2>2
             DEF IInv, TypeOK, OnlyLossMisleads, Places
<1> QED BY <1>4, <1>5 DEF Decide, d

LEMMA SweepStep ==
  ASSUME IInv, Sweep \/ SweepEnds
  PROVE  IInv'
<1>1. CASE Sweep
  <2>1. sweep + 1 \in 2 .. 5 /\ sweepOrder[sweep + 1] \in Dirs \cup {none}
    BY <1>1 DEF Sweep, sweepOrder, Dirs
  <2>2. /\ move' \in 0 .. 4 /\ astray' \in BOOLEAN
        /\ ~ astray' => way[move'] = last
    BY <1>1, <2>1, TryType DEF Sweep, IInv
  <2> QED BY <1>1, <2>1, <2>2
             DEF Sweep, IInv, TypeOK, OnlyLossMisleads, sight, aim, stuck
<1>2. CASE SweepEnds
  <2>1. direction \in Dirs \cup {none}
    BY DEF IInv, TypeOK
  <2>2. /\ last' = direction /\ move' \in 0 .. 4 /\ astray' \in BOOLEAN
        /\ ~ astray' => way[move'] = last'
    BY <1>2, <2>1, AnnounceType DEF SweepEnds, IInv
  <2> QED BY <1>2, <2>1, <2>2
             DEF SweepEnds, IInv, TypeOK, OnlyLossMisleads, sight, aim, stuck
<1> QED BY <1>1, <1>2

LEMMA WorldStep ==
  ASSUME IInv, Drive \/ Second \/ Frame \/ Disturbance \/ UNCHANGED vars
  PROVE  IInv'
<1>1. CASE Drive
  BY <1>1 DEF Drive, told, sight, aim, stuck, IInv, TypeOK, OnlyLossMisleads
<1>2. CASE Second
  BY <1>2, LaterType DEF Second, told, sight, IInv, TypeOK, OnlyLossMisleads
<1>3. CASE Frame \/ Disturbance
  <2>1. PICK c \in {robot, Away, Spawn}, running \in BOOLEAN : receive(c, running)
    BY <1>3 DEF Frame, Disturbance
  <2>2. c \in Places
    BY <2>1, BotAssumption DEF IInv, TypeOK, Places
  <2> QED BY <2>1, <2>2 DEF receive, told, aim, stuck, IInv, TypeOK, OnlyLossMisleads, Places
<1>4. CASE UNCHANGED vars
  BY <1>4 DEF vars, told, sight, aim, stuck, IInv, TypeOK, OnlyLossMisleads
<1> QED BY <1>1, <1>2, <1>3, <1>4

LEMMA IInvNext == IInv /\ [Next]_vars => IInv'
BY DecideStep, SweepStep, WorldStep DEF Next

-----------------------------------------------------------------------------

\* The bot's and the robot's variables keep their types.
THEOREM BotTypes == Spec => []TypeOK
<1>1. IInv => TypeOK
  BY DEF IInv
<1> QED BY <1>1, IInvInit, IInvNext, PTL DEF Spec

\* Without a loss or a sweep the robot goes the way the bot remembers.
THEOREM Misled == Spec => []OnlyLossMisleads
<1>1. IInv => OnlyLossMisleads
  BY DEF IInv
<1> QED BY <1>1, IInvInit, IInvNext, PTL DEF Spec

\* A decision never sends the robot into a wall.
THEOREM Decisions == Spec => IntoTheOpen
<1> DEFINE A == sweep = 0 /\ last' \notin {last, none} =>
                  next(known, last') \in Cells
<1>1. ASSUME IInv, [Next]_vars PROVE A
  <2> SUFFICES ASSUME sweep = 0, last' \notin {last, none}
               PROVE  next(known, last') \in Cells
    OBVIOUS
  <2>1. PICK t \in targets : Decide(t)
    BY <1>1 DEF Next, Drive, Second, Frame, Disturbance, receive, Sweep, SweepEnds, vars
  <2>2. last' = directionTo(t)
    BY <2>1 DEF Decide, announce
  <2> QED BY <1>1, <2>2, TargetOpen DEF IInv
<1>2. IInv /\ [Next]_vars => [A]_vars
  BY <1>1
<1> QED BY <1>2, IInvInit, IInvNext, PTL DEF Spec, IntoTheOpen
=============================================================================
