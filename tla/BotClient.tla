----------------------------- MODULE BotClient -----------------------------
(***************************************************************************)
(* How the bot steers the robot: its decision loop (decisionModule.py),    *)
(* which shares one event loop with the reception of the frames            *)
(* (pacbotClient.py), the local socket and datagrams its directions take   *)
(* to the robot (low_level.py, handleExternalDirection), and the robot,    *)
(* which drives on until it is told otherwise.  The bot learns of a lost   *)
(* direction only from a position that does not change.                    *)
(***************************************************************************)
EXTENDS Locations

CONSTANTS
  Cells,           \* the cells of the maze that are not walls
  Spawn,           \* Pacman's spawn point
  StuckThreshold,  \* STUCK_THRESHOLD
  UnstuckAfter     \* how long the bot waits before it sweeps

next(c, d) == <<c[1] + dRow(d), c[2] + dCol(d)>>

neighbors(c) == {next(c, d) : d \in Dirs} \cap Cells

\* Like the maze, no dead ends; a corridor is as good as a corner.
ASSUME BotAssumption ==
  /\ Cells \subseteq (0 .. mazeRows - 1) \X (0 .. mazeCols - 1)
  /\ Spawn \in Cells
  /\ \A c \in Cells : \E a, b \in neighbors(c) : a # b
  /\ StuckThreshold \in Nat /\ UnstuckAfter \in Nat

\* The cells that are not walls are connected: A* reaches every target, and
\* find_path never answers with the (0, 0) that update_target_loc would take
\* for a path, and fail on.
ASSUME MazeConnected ==
  \A S \in SUBSET Cells :
    S \notin {{}, Cells} => \E c \in S : ~ (neighbors(c) \subseteq S)

VARIABLES
  robot, move,     \* the robot: its cell and the move it executes
  astray,          \* it is not on the way the bot told it last: a history variable
  known,           \* the bot's gameState: Pacman's cell in the last frame,
  fresh,           \* and whether that frame waits for a decision
  targetPos, prevLocation, stillFor,            \* of the decision module
  stuckPos, stuckFor, tried, last, direction,   \* of its loop
  sweep            \* how many directions unstuck has sent, 0 if it does not run

told == <<move, astray>>
sight == <<known, fresh>>
aim == <<targetPos, prevLocation, stillFor>>
stuck == <<stuckPos, stuckFor, tried>>
vars == <<robot, told, sight, aim, stuck, last, direction, sweep>>

Away == cell(emptyLoc)
Off == -1

Init ==
  /\ robot \in Cells /\ move = 0 /\ astray = FALSE
  /\ known = Away /\ fresh = FALSE
  /\ targetPos = Away /\ prevLocation = Spawn /\ stillFor = Off
  /\ stuckPos = Away /\ stuckFor = 0 /\ tried = FALSE
  /\ last = none /\ direction = none /\ sweep = 0

-----------------------------------------------------------------------------
(* The robot, and time. *)

\* The headings of the robot, north being up in the maze.
way == [m \in 0 .. 4 |-> CASE m = 0 -> none [] m = 1 -> up [] m = 2 -> right
                           [] m = 3 -> down [] m = 4 -> left]

\* A wall stops the robot.
Drive ==
  /\ way[move] # none /\ next(robot, way[move]) \in Cells
  /\ robot' = next(robot, way[move])
  /\ UNCHANGED <<told, sight, aim, stuck, last, direction, sweep>>

later(clock, limit) == IF clock \in {Off, limit} THEN clock ELSE clock + 1

Second ==
  /\ stillFor' = later(stillFor, StuckThreshold + 1)
  /\ stuckFor' = later(stuckFor, UnstuckAfter)
  /\ UNCHANGED <<robot, told, sight, targetPos, prevLocation, stuckPos, tried,
                 last, direction, sweep>>

-----------------------------------------------------------------------------
(* The bot. *)

\* receiveLoop: recv blocks the whole event loop, so that between two frames
\* the decision loop, unless it sleeps in unstuck, comes round once.  A paused
\* game asks for no decision.  The response that a decision queues waits for
\* one frame only, so the next decision never finds it there.
receive(c, running) ==
  /\ ~ fresh \/ sweep > 0
  /\ known' = c /\ fresh' = running
  /\ UNCHANGED <<robot, told, aim, stuck, last, direction, sweep>>

Frame == receive(robot, TRUE)

\* A pause, a death or a new board.
Disturbance == \E c \in {robot, Away, Spawn}, running \in BOOLEAN :
                 (c # robot \/ ~ running) /\ receive(c, running)

chars == [d \in Dirs \cup {none} |->
            CASE d = up -> "n" [] d = down -> "s" [] d = right -> "e"
              [] d = left -> "w" [] d = none -> "x"]

\* handleExternalDirection: the direction of CMD_CARDINAL_MOVE.
dirCode ==
  [c \in {"n", "e", "s", "w", "x"} |->
     CASE c = "n" -> 1 [] c = "e" -> 2 [] c = "s" -> 3 [] c = "w" -> 4
       [] c = "x" -> 0]

code(d) == dirCode[chars[d]]

\* Mutant of announce: standing still is not worth a message.
announceMoves(d) ==
  /\ last' = d
  /\ \/ d # none /\ d # last /\ move' = code(d) /\ astray' = FALSE
     \/ d # last /\ move' = move /\ astray' = (d # none)
     \/ d = last /\ UNCHANGED told

\* send_direction when the direction changes, through the dashboard's socket
\* and a datagram that may be lost.
announce(d) ==
  /\ last' = d
  /\ \/ d # last /\ move' = code(d) /\ astray' = FALSE
     \/ d # last /\ move' = move /\ astray' = TRUE
     \/ d = last /\ UNCHANGED told

try(d) == (move' = code(d) /\ astray' = TRUE) \/ UNCHANGED told

isStuck == known = prevLocation /\ stillFor > StuckThreshold

\* Mutant of targets: no way out of being stuck.
targetsPatient ==
  IF known \notin Cells THEN {targetPos}
  ELSE IF targetPos \in neighbors(known) THEN {targetPos}
  ELSE {targetPos} \cup neighbors(known)

\* get_direction and update_target_loc: the next targets.  What A* and the
\* avoidance map choose is left open.  There is a path (MazeConnected); it is
\* empty when the choice is Pacman's own cell, and the target stays.
targets ==
  IF known \notin Cells THEN {targetPos}
  ELSE IF isStuck THEN neighbors(known)
  ELSE IF targetPos \in {next(known, d) : d \in Dirs} THEN {targetPos}
  ELSE {targetPos} \cup neighbors(known)

directionTo(t) ==
  IF known \in Cells /\ \E d \in Dirs : next(known, d) = t
  THEN CHOOSE d \in Dirs : next(known, d) = t
  ELSE none

Watch ==
  IF known \notin Cells THEN UNCHANGED <<prevLocation, stillFor>>
  ELSE /\ prevLocation' = known
       /\ stillFor' = IF known # prevLocation \/ stillFor = Off THEN 0 ELSE stillFor

sweepOrder == <<up, down, right, left, none>>

\* An iteration of decisionLoop.
Decide(t) ==
  LET d == directionTo(t) IN
  /\ fresh /\ sweep = 0 /\ fresh' = FALSE
  /\ targetPos' = t /\ Watch
  /\ \/ /\ d = none
        /\ stuckPos' = Away /\ stuckFor' = 0 /\ tried' = FALSE
        /\ announce(d) /\ UNCHANGED <<direction, sweep>>
     \/ /\ d # none /\ known # stuckPos
        /\ stuckPos' = known /\ stuckFor' = 0 /\ tried' = FALSE
        /\ announce(d) /\ UNCHANGED <<direction, sweep>>
     \/ /\ d # none /\ known = stuckPos /\ ~ tried /\ stuckFor >= UnstuckAfter
        /\ tried' = TRUE /\ direction' = d
        /\ sweep' = 1 /\ try(sweepOrder[1])
        /\ UNCHANGED <<stuckPos, stuckFor, last>>
     \/ /\ d # none /\ known = stuckPos /\ (tried \/ stuckFor < UnstuckAfter)
        /\ announce(d) /\ UNCHANGED <<stuck, direction, sweep>>
  /\ UNCHANGED <<robot, known>>

\* unstuck after a sleep: the next direction, unless Pacman has moved.
Sweep ==
  /\ sweep \in 1 .. 4 /\ known = stuckPos
  /\ sweep' = sweep + 1 /\ try(sweepOrder[sweep + 1])
  /\ UNCHANGED <<robot, sight, aim, stuck, last, direction>>

\* The rest of the iteration, with the direction from before the sweep.
SweepEnds ==
  /\ sweep > 0 /\ (sweep = 5 \/ known # stuckPos)
  /\ sweep' = 0 /\ direction' = none
  /\ announce(direction)
  /\ UNCHANGED <<robot, sight, aim, stuck>>

Next ==
  \/ Drive \/ Second
  \/ Frame \/ Disturbance
  \/ \E t \in targets : Decide(t)
  \/ Sweep \/ SweepEnds

Spec == Init /\ [][Next]_vars

\* The server sends frames and the event loop runs; a random choice picks
\* every neighbor again and again, not every datagram is lost, and a robot
\* that is told to move again and again gets to the next cell.
Fairness ==
  /\ WF_vars(Second) /\ SF_vars(Drive)
  /\ WF_vars(Frame)
  /\ WF_vars(\E t \in targets : Decide(t))
  /\ \A c \in Cells :
       SF_vars(isStuck /\ c \in targets /\ Decide(c) /\ last' # last
                         /\ move' = code(last'))
  /\ WF_vars(Sweep) /\ WF_vars(SweepEnds)

FairSpec == Spec /\ Fairness

-----------------------------------------------------------------------------
(* Properties. *)

Places == Cells \cup {Away}

TypeOK ==
  /\ robot \in Cells /\ move \in 0 .. 4 /\ astray \in BOOLEAN
  /\ known \in Places /\ fresh \in BOOLEAN
  /\ targetPos \in Places /\ prevLocation \in Cells
  /\ stillFor \in Off .. StuckThreshold + 1
  /\ stuckPos \in Places /\ stuckFor \in 0 .. UnstuckAfter
  /\ tried \in BOOLEAN
  /\ last \in Dirs \cup {none} /\ direction \in Dirs \cup {none}
  /\ sweep \in 0 .. 5

\* Nothing but a lost datagram or a sweep makes the robot's way differ from
\* the direction that the bot believes to have sent.
OnlyLossMisleads == ~ astray => way[move] = last

\* A direction the bot decides on leads from where it sees Pacman into an open
\* cell; only a sweep tries walls.
IntoTheOpen ==
  [][sweep = 0 /\ last' \notin {last, none} => next(known, last') \in Cells]_vars

Undisturbed == <>[][~ Disturbance]_vars

\* Directions get lost, and a sweep leaves the robot stopped or on a way that
\* the bot does not remember; still, as long as the game goes on, the robot
\* does not stand in one place for good.
KeepsMoving == Undisturbed => []<><<robot' # robot>>_vars
=============================================================================
