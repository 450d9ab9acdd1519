------------------------------ MODULE GameLife ------------------------------
(***************************************************************************)
(* What the game engine promises about the life of a game, whatever the    *)
(* maze, the ghosts and the pellets do: a game runs or is paused; losing a *)
(* life or clearing a level takes Pacman off the maze and leaves a pause   *)
(* pending; the next update puts Pacman back, if a life is left, and the   *)
(* game then waits for a Play command.  A game without lives never runs    *)
(* again, nor does one that has used up its ticks, but for the one death   *)
(* that its last update can still find.                                    *)
(***************************************************************************)
EXTENDS Naturals

CONSTANT Lives   \* the lives of a new game

VARIABLES
  running,   \* the mode is not `paused`
  pending,   \* the game will pause at its next update
  onMaze,    \* Pacman is not at the empty location
  lives,
  ended      \* the tick counter is at its limit

vars == <<running, pending, onMaze, lives, ended>>

TypeOK ==
  /\ {running, pending, onMaze, ended} \subseteq BOOLEAN
  /\ lives \in 0 .. Lives

NewGame == <<FALSE, FALSE, TRUE, Lives, FALSE>>

Init == vars = NewGame

Leave ==
  /\ onMaze /\ ~ pending
  /\ onMaze' = FALSE /\ pending' = TRUE
  /\ UNCHANGED ended

ClearLevel == running /\ Leave /\ UNCHANGED <<running, lives>>

Die ==
  /\ Leave
  /\ lives' = IF lives = 0 THEN 0 ELSE lives - 1
  /\ \/ running /\ UNCHANGED running
     \/ ended /\ running' \in BOOLEAN

Halt ==
  /\ pending /\ pending' = FALSE
  /\ running' = FALSE
  /\ onMaze' = (lives > 0)
  /\ UNCHANGED <<lives, ended>>

Pause == running /\ running' = FALSE /\ UNCHANGED <<pending, onMaze, lives, ended>>

Play ==
  /\ ~ running /\ lives > 0 /\ ~ ended
  /\ running' = TRUE
  /\ UNCHANGED <<pending, onMaze, lives, ended>>

KillLife ==
  /\ lives > 0 /\ lives' = lives - 1
  /\ UNCHANGED <<running, pending, onMaze, ended>>

RunOut ==
  /\ running /\ ~ ended
  /\ running' = FALSE /\ ended' = TRUE
  /\ UNCHANGED <<pending, onMaze, lives>>

Restart == vars' = NewGame

Next ==
  \/ ClearLevel \/ Die \/ Halt \/ Pause \/ Play \/ KillLife \/ RunOut \/ Restart

Spec == Init /\ [][Next]_vars
=============================================================================
