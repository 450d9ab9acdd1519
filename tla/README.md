# Pacbot: a TLA+ verification of the game server and its robot

Pacbot is a Pacman game played by a robot on a physical maze.  A Go server
(`src/server`) runs the game and sends 24 frames a second to its clients over
websockets and TCP; a Python bot (`src/bot_client`) decides where the robot
goes; a second Go program (`src/dashboard/server`) is the bridge between the
operators' web app, the bot and the robot; and firmware (`src/low_level`)
drives the robot.  This directory models the parts of it that are hard to get
right and hard to test, checks the models with TLC on small instances, and
proves their safety properties, and that the detailed ones implement the abstract
ones, for every instance with TLAPS.

1. Inventory
2. The modules, and how they correspond to the code
3. The runs: questions, bounds, results
4. Fairness
5. What is proved, and how
6. What disagrees with the code's own comments
7. What is not modelled, and the plan

## 1. Inventory

### 1.1 Game rules and state (`server/game/game_state.go`, `game_modes.go`, `game_helpers.go`, `ghost_state.go`, `ghost_helpers.go`, `location.go`, `variables.go`)

*State.*  Ticks and update period; mode, the mode to resume in, a pending pause,
steps until the mode or the level's speed changes; level, lives, score; pellet
bits and their counter; fruit steps; Pacman's location; for each of up to four
ghosts its location, planned next location, fright, trap, spawning and eaten
state; how many ghosts were caught in a row.  Each field has a mutex, but all
of it is owned by the engine's goroutine, except for the goroutines that
reset, respawn, update or plan one ghost each, which the caller waits for.

*Operations.*  Play and pause; the four moves and the tracked position;
collecting a pellet (which may spawn a fruit, frighten or anger the ghosts, or
end the level); collisions (which eat ghosts or kill Pacman); the resets after
a death and a level; respawning Pacman; updating and planning the ghosts; the
step events.

*What makes it correct.*  Collisions are resolved in every frame; a reset takes
effect as a whole although it is spread over several calls; a game without
lives or ticks never runs on; counters stay in range (several are unsigned
bytes, one is a divisor); the pellet bits and their counter agree; a ghost is
eaten at most once per power pellet.

*The ghosts.*  `plan` chooses the next cell by the distance to a target; a ghost
never turns back of its own will, but mode switches and power pellets turn it
around (`trappedSteps`), and while it is spawning it may cross the house and its
door.  *Correct if* it always has a way to go, never stands in a wall, gets out
of the house and reaches its corner when left alone.

*What is hard.*  The order of the calls.  Deaths, cleared levels and pauses are
requested in one place and carried out in another, with the clients' commands
in between; a tracked position may walk Pacman through several cells, any of
which may end the level or kill him half way.

### 1.2 Game engine loop (`server/game/game_engine.go`, `commands.go`)

*State.*  The game state, `justTicked`, the ticker, and the channels
`webOutputCh` (frames, 100) and `webInputCh` (commands, 100).

*Operations.*  One iteration: update if the tick calls for it, serialize and
send the frame, obey every queued command, advance the tick unless paused, wait
for the ticker or the quit signal.

*What makes it correct.*  Nothing on the board moves while the game is paused;
every requested pause happens; a restart gives a new game at any point.

### 1.3 Serialization (`server/game/serialize.go`)

Writes the fields of the state into the frame's bytes.  No state of its own.
Most fields have bytes of their own; a position has two, each with a coordinate
in six bits and a direction in two, and the flags of a ghost share bytes with its
counters.  *Correct if* the bot reads what the engine wrote.

### 1.4 Web sessions and broker (`server/webserver/web_broker.go`, `web_session.go`, `socket_handler.go`)

*State.*  For each connection a `sendCh` (10), the connection itself, whether
the client is trusted to send commands; shared: `openWebSessions` (mutex
`muOWS`), `ipSessionMap` (mutex `muISM`), `responseCh` (100), the wait group
`wgQuit`.

*Operations.*  A handler goroutine per connection registers (kicking the
previous connection of the same IP when only one is allowed), runs a read and a
send goroutine, waits for them and unregisters.  The broker offers every frame
to every open session and drops it for those that do not keep up.

*Interactions.*  The broker reads `webOutputCh`; read loops write `responseCh`,
which the engine reads; `quit` may be called on a session by a newcomer, by its
own two goroutines and by the broker.

*What makes it correct.*  Nobody sends on a closed channel; one connection per
IP; a session that is told to quit ends; at shutdown all of them do.

### 1.5 TCP server (`server/webserver/tcp_server.go`)

*State.*  `conns`, `NumOpenTCPClients` (both written under `muTcp`), `readCh`
(200), `tcpSendCh` (2).

*Operations.*  Accept; a read loop for each robot, which ends on the end of the
stream, on the message `q` and on one kind of error, and retries all others; a
send loop, which writes every frame to every connection.  The broker forwards a
frame only while the counter is positive.

*What makes it correct.*  The frames go to exactly the robots that are there,
the counter counts them, and a robot that does not read holds up nobody but the
send loop.

### 1.6 Start-up and configuration (`server/main.go`, `config_reader.go`, `config.json`)

Creates the channels, starts the units, forwards console lines as commands, and
on `q` shuts down the HTTP server (two seconds), then the broker, then the
engine, and waits for `wgQuit`.

### 1.7 Dashboard server (`dashboard/server/main.go`)

*State.*  The robot's last known address, mode, sensors and settings; the PID
gains the user selected; the web sockets.  *Operations.*  UDP messages from the
robot, commands from the web app, directions from the bot over UDP and a local
socket, a watcher that declares the robot disconnected after five seconds of
silence, and the re-sending of the gains when it comes back.  *Correct if* the
robot runs with the gains the operator sees, and the dashboard's picture of the
robot converges to the robot's state although datagrams are lost.

### 1.8 Robot firmware (`low_level/RPiPacBot`)

*State.*  Shared by the two cores, under one mutex: a mailbox with one slot for
each kind of command (drive mode, raw motor speeds, cardinal move, calibration,
gains, sensor offsets), logging state, device information, readings.  Core 1's
own: the socket and what it has sent.  Core 0's own: the statics of `drive.cpp`
(mode, direction, speed, forward speed, corrections, PID).

*Operations.*  Core 1 (`comms.cpp`) keeps the WiFi up, handles datagrams, and
sends a sign of life, device information or readings.  Core 0 (`loop`) polls
the slots one after the other and runs heading and centering when due.

*What makes it correct.*  A mode change stops what the previous mode was doing;
moves are obeyed; braking ends at rest and never runs backwards; a correction
made for one direction does not act in another; gains arrive.

*What is hard.*  The slots are written between any two polls, a slot keeps only
the last command of its kind, and the drive's state survives the command and
often the mode that made it.

### 1.9 Other firmware (`low_level/TeensyPacBot`, prototypes)

An earlier robot with a movement state machine, and bench sketches.

### 1.10 Bot client (`bot_client/pacbotClient.py`, `decisionModule.py`, `gameState.py`, `low_level.py`, ...)

*State.*  The copy of the game state in the last frame (`gameState`); the decision
module's next cell, the last place and since when it has not changed; the
decision loop's own memory of the last direction it sent, of the place it is
stuck in, and whether it has tried to get unstuck there.

*Operations.*  One event loop runs the receive loop, which blocks in `recv`, and
the decision loop, which computes a direction for each new tick, sends it to the
robot when it differs from the last one, and after two seconds in one place sends
all four in turn (`unstuck`).  The dashboard server forwards a direction as a
datagram.

*What makes it correct.*  The robot is on the way the bot decided on, or the bot
gets it there; a lost direction does not stop it for good.

*What is hard.*  Nothing acknowledges a direction and nothing repeats it; the
sweep of `unstuck` suspends the decision loop for a second in which frames go on
arriving, and leaves the robot on a way that the decision loop does not know.

### 1.11 Path finding and learning, web client, dashboard web app

Heuristics over tables of numbers; viewers and forms.

The hazards of all of these are listed in `PROJECT.json`, each at its line, with
the properties that cover it or why none does yet.

## 2. The modules, and how they correspond to the code

| Module | Models | Used by |
| --- | --- | --- |
| `GhostRules` | a ghost as the rules see it: `reset`, `respawn`, `update`, the fright, the stare at the player, where it may plan to go; operators from a ghost to the next | `GameRules`, `GhostPlanner` |
| `GameRules` | every method of `gameState` that changes state, as an operator from a state record to the next | `GameEngine` |
| `GameEngine` | `GameEngine.RunLoop` and `interpretCommand`: one action per step of the loop and per command | `MCGameEngine`, the proofs |
| `Locations` | positions, directions, distances, and their bytes in a frame | `GhostPlanner`, `BotClient` |
| `GhostPlanner` | one ghost on the maze: `reset`, `respawn`, `update`, `plan`, the chase targets, its bytes in a frame; implements `GhostRules` | `MCGhostPlanner`, the proofs |
| `GameLife` | abstract: what the engine promises about the life of a game | refined by `GameEngine` |
| `WebSessions` | handlers, session goroutines, broker and shutdown over their shared maps and channels | `MCWebSessions`, the proofs |
| `TcpClients` | the engine's and the broker's channels, accept loop, read loops, send loop, the broker's counter | its own runs, the proofs |
| `BotClient` | the bot's receive and decision loops, the way of a direction to the robot, the robot driving on | `MCBotClient`, the proofs |
| `RobotFirmware` | core 1's mailbox and core 0's loop, drive modes and motion | `MCRobotFirmware`, the proofs |
| `RobotLink` | dashboard server and core 1 with UDP between them; gains down to the drive | `MCRobotLink`, the proofs |
| `MCGameEngine`, `MCGhostPlanner`, `MCWebSessions`, `MCBotClient`, `MCRobotFirmware`, `MCRobotLink` | small instances for TLC | the runs |
| `GameEngineProofs`, `GameLifeProofs` | theorems about `GameEngine`, the last also that it implements `GameLife` | |
| `GhostPlannerProofs` | theorems about `GhostPlanner`, also that it does what `GhostRules` says | |
| `WebSessionsProofs`, `TcpClientsProofs`, `BotClientProofs`, `RobotFirmwareProofs`, `RobotLinkProofs` | theorems about the module each is named after | |

### GhostRules, GameRules and GameEngine

`gs` is one record with the fields of `gameState`; an operator `deathReset(s)`
is the method `gs.deathReset()`, in the order of its calls.  The goroutines that
update, plan or reset single ghosts touch only their own ghost and are waited
for, so their effect is a function on all ghosts.  `Update` is steps 1 to 4 of
the loop, `PauseCommand` ... `RestartCommand` are the cases of
`interpretCommand` in step 5, in any number and order, and `Tick` is step 6.
`movePacmanAbsolute` is a `JumpCommand` when the path is long; otherwise each
iteration of its loop is an action (`WalkCommand`, then `Walk` while `pc` is
"walking"), because its path is searched only once and the game may stop, or
Pacman die, half way.

Abstractions, each of them a constant with its assumption:

* The 31 x 28 maze is a set of cells.  `Corridor` are the cells without walls
  and `Dist` their metric: `findLikelyPath` is a breadth-first search, so a cell
  on the way is any cell one step closer.  The assumption says that corridors are
  connected, which `initWalls` is.
* A ghost plans any cell its move graph `GhostMoves` allows.  This covers every
  direction, trap and target the planner could choose, so the safety results
  hold whatever it chooses; that it does is a theorem about the planner
  (section 5).  A ghost at the empty location does not plan and keeps the spawn
  cell that `reset` or `respawn` stored.  A ghost without a direction (`staring`)
  plans to stay.  Only `resetAllGhosts` takes the direction away, from all ghosts but
  orange, when it finds no lives left (`game_helpers.go:527`, `stare`); a plan
  does not look at the lives.  So when the `k` command takes the last life of a
  running game (`commands.go:65`) its ghosts go on moving, and the properties
  below hold of that game too.
* Durations, thresholds and limits are constants; `MaxTicks` is 65535, `MaxLevel`
  255 in the code.  The score is left out: no rule reads it.
* The commands' bytes are the actions.  A malformed or unknown message changes
  nothing.

Each field keeps the code's saturation: counters that are decremented unless
zero (`dec`), a period that is kept positive (`atLeastOne`), a tick counter
that stops at its limit.  A comment at `game_state.go:10` speaks of the tick
counter's overflow; the code saturates, and the model follows the code.

### GhostPlanner

`GameRules` lets a ghost go anywhere its move graph allows; `GhostPlanner` is the
planner itself, for one ghost on the maze of `initWalls` (`MCGhostPlanner` holds
its bits).  `Update` and `Plan` are the ghost's part of an iteration of the
engine; `SwitchMode`, `Frighten`, `Anger`, `Catch`, `Reset` and `Restart` are what
the rest of the game may do to it, each of them at any time that the engine's
order of calls allows: a mode switches between the update and the plan, a power
pellet is eaten between two updates, Pacman is met in either.  The four planners
run at once, but a planner writes only its own `nextLoc`, and reads the others'
`loc`, which no planner writes; so one ghost with any position of Pacman and of
Red is enough.

`FollowsRules` ties the two together: with `ghost` as the refinement mapping,
which forgets traps, targets and directions (but whether there is one, `staring`),
and adjacency on the maze for `GhostMoves`, each operation of the planner's ghost is
the operation of the same name in `GhostRules`.  The model checker and the proof thus
say of the engine that what is proved of ghosts on an abstract move graph is true of
the ghosts that `ghost_helpers.go` moves.  The two sides share their conditions: both
let a ghost stay if and only if it has no direction, and a reset takes it away in
the planner when the game ends with it (`halt`), in the rules when no lives are
left.  The `k` command needs no step in the planner, because it touches no ghost and
no ghost looks at the lives.

`serGhost` and `readGhost` are the engine's and the bot's side of
a ghost's four bytes.

The maze enters as an assumption: no dead ends, and the house opens on Red's
spawn only.  The proofs use nothing else of it.

### GameLife

Five variables: the game runs, a pause is pending, Pacman is on the maze, the
lives, the ticks have ended.  `GameEngine` implements it with `running` mapped
to `~ isPaused(gs)` and so on (`Life` in `GameEngine`).  One of its disjuncts
came out of the refinement check: if the tick that reaches the limit is also an
update tick, the last update may find a collision, and `deathReset` then sets a
playing mode, so a finished game un-pauses for one update (`Die` with `ended`).

### WebSessions

`pc[s]` is the place of the handler of session `s` between two shared accesses:
upgraded, entered in `ipSessionMap` (`Remember`), listed (`List`), looping, out
of the loop, unlisted (`Unlist`), forgotten (`Forget`), done (`CloseChannel`).
`reader` and `writer` are its goroutines.  Critical sections are single actions,
since everything in them is under the mutex that the other accesses take; the
broker's loop over `openWebSessions` holds `muOWS` and never waits.  The order
of the deferred calls (last in, first out) is kept: `WgDone` before `QuitSelf`.
A send on a closed channel sets `panicked` and stops everything, as in Go.
Frames have no contents, commands no meaning; a channel is a sequence of frames
and the nil that wakes the send loop.

### TcpClients

`peer[c]` is what the next read of a connection finds.  An operating system
that reports a reset reports it once and the end of the stream after it; a
timeout needs a deadline, which is never set.  The send loop's iteration over
the map is split into its steps, because it takes no lock: an accept or a
delete in the middle may set `fatal` (Go's "concurrent map iteration and map
write").  The mutex `muTcp` protects a counter that is read without it, so its
critical sections are split too: `Accept`, `ReadEof` and `Deferred` take the lock
(`Lock`) and change the counter, `Enlist` and `Delist` change the map and release it
(`Locked` says who is in between).  `NextConn` goes on to a connection and `Write`
ends when the robot reads or its connection breaks or is closed: a robot that is
`stalled` keeps the send loop in its write.  `Emit` is the engine's blocking send of a frame.  The broker's
turn is three steps: it takes a frame (`Receive`), reads the counter without the lock
(`CountRobots`, `web_broker.go:97`), and then sends, with the default when `tcpSendCh`
is full (`Send`); a robot may come or leave between any two.  (What the same turn
offers to the websockets is `Broadcast` in `WebSessions`.)

### BotClient

`known` and `fresh` are what the last frame said and whether the decision loop has
not looked at it yet.  `recv` blocks the event loop, so between two frames the
decision loop comes round once, unless it sleeps in `unstuck`: hence the guard of
`receive`.  `Decide` is a whole iteration of `decisionLoop` with `get_direction`;
`Sweep` is one direction of `unstuck`, `SweepEnds` the rest of the iteration, which
sends the direction computed before.  What A* and the avoidance map choose is left
open (`targets` offers every neighbor and the old target); what the code does when
it is stuck is not.  A* always finds a path: where it starts from and where it goes
are walkable cells (`update_target_loc` checks the first and takes the second from the
avoidance map or the neighbors), and the walkable cells of `walls.py` are connected,
which is the assumption `MazeConnected`.  So `find_path` does not reach the
`(0, 0)` of `pathfinding.py:76`, which is no path and on which `update_target_loc`
would raise an error; and the path is empty only if the choice is Pacman's own cell.
A direction becomes a letter (`chars`), the dashboard's code (`dirCode`), and a datagram that may be lost; the robot executes the last move
that arrived until the next, and a wall stops it.  Clocks count in steps of
`Second` up to their thresholds.  `astray` is a history variable: the last thing
that concerned the robot was a loss or a sweep.

### RobotFirmware

`box` is the mailbox, `command` the speeds of the last raw command (which a
command for one motor changes in one entry only), `drive` the statics of
`drive.cpp`, of the lateral correction the direction it was computed for, which
the code does not keep.  A `Receive` step is one case of `handleRx`, under the mutex; the
steps of `Loop` are the polls and updates of `loop()` in their order, with `pc`
between them, since core 1 may write between any two.  `duty` and `motion` tell
apart who has set the motors last: a raw command, or `driveUpdate`.

What is abstract is the arithmetic.  A forward reading is a wall, close, clear
or an error (the two thresholds of `driveUpdateForward`), a lateral reading is
nothing in range, a wall, or so near that heading correction is suppressed.
Whether the corrections are zero is chosen freely; when they are computed, kept,
cleared and applied is the code's.  A tick ramps the forward speed by any step
up to `MaxStep`.  `NotDue` is a turn of the loop in which an interval has not
passed.  Sensor offsets and the filters do not reach this state.

### RobotLink

`up` and `down` are the datagrams under way, sets, so that they overtake each
other; equal ones are merged.  `LoseUp` and `LoseDown` lose them.  A datagram is
delivered to the port it was sent to and dropped if the robot has closed it.
`Connect` is the branch of `commsLoop` (and the end of `commsSetup`) that opens a
socket; its port is a new one, because lwIP draws ephemeral ports in sequence.
`Reboot` is the firmware's start at any time.  On the other side, `HandleUDP` is
the whole of `handleUDP` under `robot.mu` and starts a `resendPidGains`, whose
copy (`CopyGains`) and sends (`Resend`) are steps of a goroutine.
`handleWSCommand` sends first (`SendCommand`) and stores then (`StoreCommand`);
one operator's web app is connected, so one call of it is under way.  The 20 ms
between two resent gains promise nothing: core 0 may be in its setup, and
datagrams may bunch, so any number may arrive between two polls.

Left out, because no property sees them: ping and pong, log messages, the send
interval, the offsets, the drive mode that the dashboard shows.

`clean` is a history variable for `ResendRestores`: it is set when a datagram
from a new address starts a resend while no gains are on their way, and cleared
when something that no resend could survive happens (a lost or replaced
datagram, a new order, a reboot, the robot leaving, the watcher).

## 3. The runs: questions, bounds, results

| Run | Question | Bounds | Result |
| --- | --- | --- | --- |
| `engine` | do the rules keep their promises whatever the clients send? | 6 cells, 2 ghosts, 3 pellets (one super), 2 lives, 2 levels, 5 ticks, period 2 | holds, 593 thousand states |
| `engine_live` | does every reset end in a pause? | the same maze, 2 pellets, 1 life, 3 ticks | holds, 13 thousand states |
| `planner` | does a ghost always find its way, and by the rules? | the maze of the game, all four ghosts, 4 places of Pacman, 2 of Red, 4 fright steps | holds, 87 thousand states |
| `sessions` | are maps, channels and kicks consistent, and does whoever is told to quit end? | 3 watchers of one IP, or a watcher and a player of two; channels of 1 | holds, 117 thousand states |
| `sessions_panic` | does nobody send on a closed channel? | 2 players of one IP | violated |
| `sessions_shutdown` | does every session end when the server quits? | as above | violated |
| `tcp` | do the frames follow the robots, and does the game go on? | 2 robots, channels of 2 | holds, 65 thousand states |
| `tcp_count` | does the counter count? | 2 robots | violated |
| `bot` | does the robot keep moving, and on the bot's way? | a ring of 4 cells, stuck after 3 seconds, sweep after 2 | holds, 56 thousand states |
| `firmware` | does the robot do what its mode and its last move say? | 1 motor with 2 duties, a stop and 2 directions, each with its own speed, ramp step 1 | holds, 255 thousand states |
| `link` | is the robot found again, with its gains and its state? | 2 loops, 1 choice of gains for one of them, 2 ports, 2 datagrams up and 1 down, losses, 1 resend | holds, 785 thousand states |
| `link_gains` | does the robot run with the gains that the dashboard remembers? | 3 loops, no losses, a robot that stays | violated |

Why these bounds are enough.  The small maze has a ring, so that Pacman can be
met from both sides, a stub that makes a path long enough to be jumped, and a
ghost house that is left in one direction only.  Two ghosts, one of them Red,
whose respawn cell differs from its spawn cell, give every combination of one
eaten and one deadly ghost on Pacman's cell.  The other one is named as both Pink,
whose spawn Red respawns at, and Orange, which goes on moving when the lives are used
up; Red stares.  Three pellets with thresholds 2
and 1 reach both fruits, both angers and the cleared level; two levels reach
the level limit; the durations are 1 to 3 steps, so that every schedule runs out
within the five ticks; five ticks at period 2 reach the tick limit between two
updates and, after a level, when the period has sunk to one, on an update.
`MaxTicks` bounds the time between two restarts, not the behaviour: commands and
restarts are unlimited.  `modeSteps`, `levelSteps` and the rest are bounded by
their durations.

For the planner the maze is the real one.  Fright lasts four steps instead of 40,
which is enough for its last step to differ from the others and for the ghost to
be turned within it; with 40 the run holds too, in three minutes.  Pacman stands
at his spawn, in two opposite corners and off the maze, Red in the other two.

Three sessions of one IP are what a kick needs at its worst: the one that
leaves, its successor and the one that comes next.  A channel of one message is
full after a single frame, which is the case that loses the wake-up.  `MCInit`
lets either the player or two of the watchers be over already, so that both
branches of `loop`, with and without a read loop, are in the run.

Two robots and channels of two: one robot stalls the send loop while the other one
comes, or leaves in the middle of its iteration; the last robot leaves between the
broker's look at the counter and its send; a frame waits in each channel beside the
one being taken.

A ring of four cells has in each cell two ways on and two walls, which is what a
lost direction needs: a way on, a way back and a wall to stand at.  A ring of six
was checked too.

One motor is enough for the firmware because every statement about motors is
about all of them alike; a stop and two directions at different speeds give every
turn, through a stop and without, to a faster and to a slower move, and a move that is
repeated.  With top speed 2 and ramp
step 1 braking takes several ticks, in which moves and readings change.  For the
link two ports tell the present socket from a former one, whose datagrams may
still be under way; two datagrams up may overtake each other; one down may be
lost, arrive late, or find the robot gone.  A second resend at the same time is
excluded by the bound (`HandleUDP` from a new address waits for a free place).
`link_gains` constrains the search to a robot that the dashboard never loses
(`MCStays`), so that its counterexample shows the slot and not a lost datagram.

`CHECK_DEADLOCK FALSE` is set for the sessions and the TCP server: there the
system really stops, after a panic or a fatal error or when every connection has
come and gone.  Engine, ghosts, bot, firmware and link never stop, and their runs
check deadlock.

### The properties

*Engine.*  `NoGhostOnPacman`: every frame has its collisions resolved.
`EatenOncePerFright`: ghosts caught in a row and ghosts still edible are at most
the ghosts in play, which also bounds the points of a catch
(`comboMultiplier << ghostCombo`) to sixteen bits.  `ResetClearsBoard` and
`AwayIsHalted`: a reset empties the board as a whole, and a board without Pacman
is about to pause or over (without this, `findLikelyPath` would search from
outside the maze and not return).  `PelletCount`, `FruitOnItsBoard`: counter,
bits and fruit belong to the same board.  `PausedFreezesBoard`: while paused
nothing changes but mode and lives, until a restart; the first update and the
one at the tick limit, which run while paused, are exempt.
`ClearedLevelCostsNoLife`: the last pellet wins against a ghost on its cell.
`AngerSurvivesDeath`: only pellets and the schedule change the mode at the end
of a board.  `GameLifeSpec`: refinement.  `ResetHalts`: liveness.

*Ghosts.*  `NeverCornered`: reversals in the door, catches and resets put a ghost
in places and directions that no plan has chosen, and it still has a move.
`GhostOnGround`: nor do they put it in a wall, or in the house without the right
to be there.  `LeavesHouse`, `ScattersHome`: looking one cell ahead and never
turning back is enough to get out of the house and to the corner.
`FrameTellsGhost`: the masks of the bot undo the shifts of the engine, also off
the maze.  `FollowsRules`: refinement of `GhostRules`.

*Sessions.*  `RegisteredIsOpen`: whatever can be broadcast to or kicked has an
open channel.  `OneLivePerIP`: whatever the interleaving of a leaving session,
its successor and the next.  `QuitEnds`: liveness of quitting, with full
channels.

*Robots.*  `SendsToReaders`: a robot is in the map while it is being read from and
not after.  `LeaversAreDropped`: whichever way its connection ended.
`GameGoesOn`: engine, broker and send loop wait on channels in a row, and a robot
that does not read blocks the last of them for ever; the engine sends on.

*Bot.*  `OnlyLossMisleads`: two encodings, two memories of the last direction and a
sweep in between, and the robot's way is what the bot believes unless something
was lost or tried.  `KeepsMoving`: the robot never stands for good, although the
loop does not repeat a direction and sweeps only once in a place; what saves it is
the random neighbor, whose direction differs from the last one sent.

*Firmware.*  `ManualBypassesDrive`: nothing of the control loops acts in manual
mode, whichever way it was entered.  `BrakingNeverReverses`, `StopsAtWall`: the
ramp between moves and walls.  `SlidesOnlyAlongCorridor`: a lateral correction is in
force only in the direction it was computed for, although ticks without a reading keep
it and moves, calibrations and changes of mode come in between.  `MoveObeyed`, `StopMeansStill`: liveness of
moves, against polls in a fixed order and statics that outlive a move.

*Link.*  `ResendRestores`: whoever comes back, rebooted or not, has the gains of
the dashboard once an undisturbed resend is through, also if the dashboard had
not noticed that it was gone.  `ComesBack`: the dashboard's address becomes the
robot's present one.  `ShownStateSettles`: what the dashboard shows ends up as
what the robot does, although commands are shown before they arrive.

Some properties are proved (section 5) and in no run, because a run that is
meant to be violated checks one property only, and the rest would say little new
on an instance of that size: `PanicsInOwnQuit` and `WatchersNeverPanic` (what the
panic of `sessions_panic` is confined to), `CountDrift` and `ForwardsToSomebody`
(what the error of `tcp_count` amounts to), the bot's `TypeOK` and `IntoTheOpen`.
TLC found no violation of any of them on the instances above before it was
proved.

Every property of a run has a mutant in `PROJECT.json`: a plausible slip in the code
(collisions checked before the ghosts move, the pause flag left up, a channel
closed before its session is unlisted) under which TLC finds it violated.

## 4. Fairness

* `GameEngine`: weak fairness of the loop's own actions.  The inner loop ends
  as soon as the input channel is empty; the assumption is that clients do not
  keep it non-empty for ever, which a channel of 100 and 24 frames a second make
  true in practice.  Commands have no fairness.
* `WebSessions`: weak fairness of each goroutine, since Go's scheduler is fair,
  and strong fairness of delivering a message to `responseCh`, because a Go
  channel serves the goroutines waiting to send in the order they came.  Reading,
  leaving, connecting and shutting down are never assumed.
* `TcpClients`: weak fairness of the accept loop once it has a connection, of the
  read loops, the engine and the broker; `muTcp` is held for a few statements only.
  Robots need not do anything, and so nothing is asked of the send loop.
* `GhostPlanner`: weak fairness of `Update` and `Plan`, which the ticker drives.
  The random choice of a frightened ghost is left to chance, and so is
  everything that disturbs a ghost; the liveness properties speak of behaviours
  in which nothing does from some point on.
* `BotClient`: weak fairness of frames, of the loop and of time.  Strong fairness
  of the robot (told to move again and again it gets to the next cell) and, for each
  neighbor, of a decision that picks it, differs from the last one and arrives:
  `random.choice` is not rigged, and not all datagrams are lost.  Nothing is asked
  of disturbances.
* `RobotFirmware`: weak fairness of core 0's loop, which never blocks, and strong
  fairness of its two updates, since `millis()` advances and each is due again.
  Core 1 need not receive anything.
* `RobotLink`: the robot reconnects when its WiFi is back (weak) and keeps sending
  (strong, because the bound on datagrams may block it at times); not all
  datagrams of a robot that stays are lost (strong fairness of handling one from
  its present port); every datagram arrives or is lost in the end (weak, each
  way); the goroutine of a resend runs (strong, for the bound).  The watcher, the
  operator, WiFi losses and reboots have no fairness.

## 5. What is proved, and how

Each theorem holds for every value of the constants that meets the assumptions of
the module it speaks of: `MazeAssumption` and `RulesAssumption` for the engine
(every maze, every set of ghosts, all durations), `MazeAssumption` and
`PlannerAssumption` for a ghost, `BotAssumption`, `FirmwareAssumption`,
`SessionsAssumption` and `TcpAssumption` for any number of sessions and robots and
any capacity of their channels, and `LinkAssumption` for any number of loops,
gains, ports, datagrams and resends.  TLC evaluates all of them in the runs.

`GameEngineProofs` proves `TypeCorrect`, then the inductive invariant
`IInv == Sound(gs) /\ Apart(gs)`, and from it `Collisions`
(`NoGhostOnPacman`), `Resets` (`ResetClearsBoard`) and `Away` (`AwayIsHalted`).
None of the three is inductive as it stands.  `Apart` says that no ghost is on
Pacman's cell; `checkCollisions` establishes it for all ghosts it looks at, but
skips eaten ones, so that `OffMaze` must say that an eaten or inactive ghost is
at the empty location.  `Cleared` (while a pause is pending everybody is off the
maze) survives a move of Pacman only because moves are refused while he is away,
and a tracked walk because `Halted` says when he can be: a pause is pending, or
the game is paused without lives.  `Sound` is the conjunction of the three with
the type.  Each operator of `GameRules`
gets a lemma for each part, so that the proof of a step is a chain of the
operators it is composed of, as the code is a chain of calls.

The same module proves `Pellets` (`PelletCount`), `Fruit` (`FruitOnItsBoard`) and
`Catches` (`EatenOncePerFright`), from invariants of their own: the counter is the cardinality of the bits before and after each
call, a positive one between calls; and the cardinality of the edible ghosts
shrinks by what `ghostCombo` grows.

`GameLifeProofs` proves what a step does rather than what a state is:
`Refinement` (`GameLifeSpec`), `LevelCleared` (`ClearedLevelCostsNoLife`),
`Frozen` (`PausedFreezesBoard`) and `Anger` (`AngerSurvivesDeath`).  Every
operator of `GameRules` is sorted into one of a few relations between two states
of the game (`Alike`, `Dies`, `Clears`, `Halts`, `Starts`), each of which maps to
one disjunct of `GameLife` or to a stutter; a step of the engine composes them.
`IInv` does not suffice for that.  `LifeInv` (`LifeInvariance`) adds that the halt
which respawns Pacman is not a second death in the same update, because a ghost
that is off the maze does not come in on his cell (`Entrance`); that a walk goes on
only while nothing has stopped him, so that its second call of `collectPellet` is
in vain; and that a paused game is updated only when it is new or at the tick
limit.  `Anger` has a hypothesis of its own, that a board has more pellets than the
first threshold of anger (244 and 20 in the code): else a new board is angry
at once.

`GhostPlannerProofs` proves `Invariance` for any maze without dead ends whose
house opens on Red's spawn only, from it `TypeCorrect`, `OnGround`
(`GhostOnGround`) and `AlwaysAMove` (`NeverCornered`), and on its own `FrameTells`
(`FrameTellsGhost`).  What makes it inductive is `OneAhead` and `Directed`: the
cell a ghost goes to next is the one its present direction looks at, whatever has
turned it since, and it has a direction except when the game is over.  `Places`
says that where it stands, and where it looks, is ground.

The same module proves `PlannerFollowsRules` (`FollowsRules`): a step of
the planner maps to the operator of `GhostRules` of that name, one lemma for each
(`UpdateFollows`, `NewFollows`, `PlanFollows`, `DisturbanceFollows`).  A plan has to
lead to a cell beside the ghost's own, or to that cell itself if and only if the
ghost has no direction to begin with.  For that the planner's ghost must not have lost
its direction between its update and its plan: `Arrived` says that its next place is
still the one it has just reached, direction included.
`MazeOfTheRules` discharges for this maze what `RulesAssumption` asks of a move
graph and of the spawn cells: no spawn is off the maze, and every cell has a way on.

`BotClientProofs` proves `BotTypes` (`TypeOK`), `Misled` (`OnlyLossMisleads`), which
is inductive with the type, and `Decisions`: every direction the bot decides on
leads into an open cell (`IntoTheOpen`).

`WebSessionsProofs` proves `SessionTypes` (`TypeOK`), `Registrations`
(`RegisteredIsOpen`) and `OnePerIP` (`OneLivePerIP`) from `SessionInvariant`.  Its
part `Ended` says that a session leaves its loop only after its connection is no
longer open, since a nil in its channel comes only from `quit`; `Closing` relates a
channel's state to the place of its handler; `Remembered` says that a connection
that is open and past its registration is the one its IP's entry names.

`NoSendOnClosed` is false (section 6), so the module proves how false.
`PanicsAreOwn` (`PanicsInOwnQuit`) says that the panic has a single origin, the
deferred `quit` of a trusted client's own goroutine after its handler is done;
broadcasts, kicks and the shutdown never meet a closed channel.  Hence `Watchers`
(`WatchersNeverPanic`).  The invariant `BlameInv` adds to the
types and `Closing` what protects a session that only listens, which has no read
loop and whose handler does not get past its loop before the send loop is gone
(`Watching`); that an IP remembers only sessions of its own, so that a kick meets an
open one (`Origins`); and that a panic that has happened had a trusted client
(`Blamed`).

`TcpClientsProofs` proves `TcpTypes` (`TypeOK`) and `Readers` (`SendsToReaders`), and
of the counter that is wrong (section 6) how wrong: `Counting` (`CountDrift`), it is at
any moment, inside the critical sections too, not above the number of connections
that are open (`Present`), and below it by at most the robots that have gone.  The
invariant is `CountInv`, the drift with the two others: a connection is counted out
only as it stops being open, and a second time only as it becomes one of the gone.
`OpenIsMapped` says that what is open is what is on the map whenever nobody holds the
lock (`Mapped` adds where a read loop is when its robot is off the map).  `Forwarding`
(`ForwardsToSomebody`) follows from the drift: the broker, which reads the counter
without the lock, decides to forward a frame only while a robot is connected.  It says
nothing of the moment when the frame is sent: the last robot may have left by then,
and a frame is queued for nobody.  Of the counter's error it says that it starves
robots, and does not lead to frames for nobody by itself.

`RobotFirmwareProofs` proves, for any motors, moves and ramp that meet
`FirmwareAssumption`, the inductive invariant `IInv` (`FirmwareInvariant`) and from
it `FirmwareTypes` (`TypeOK`), `ManualBypass` (`ManualBypassesDrive`), `Braking`
(`BrakingNeverReverses`) and `Slides` (`SlidesOnlyAlongCorridor`).
`ManualBypassesDrive` is not inductive: `RunHeading` sets the motion without
looking at the mode.  `LoopsInCardinal` adds that core 0 is at its heading or
centering update only in cardinal mode, which holds because the mode is polled,
and dropped by a raw command, before `loop()` branches on it and nowhere else.
`Steady` is what each function of `drive.cpp` preserves of its statics; that a kept
lateral correction was made for the present direction is one of its conjuncts.
Braking rests on the lemma `Constrain`: a step towards a target between zero
and `MaxSpeed` stays between them.

`RobotLinkProofs` proves `LinkTypes` (`TypeOK`) and, from the inductive invariant
`IInv == TypeOK /\ Restoring` (`LinkInvariance`), `Resends` (`ResendRestores`).
`ResendRestores` speaks of the moment when nothing is under way any more, and is not
inductive: `Restoring` says of every moment since the resend began that each loop's
gains are somewhere between the dashboard and the drive (`Coming`: to be copied, to be
sent, in a datagram, in the slot, or in force), and that no other gains are on the
way to replace them (`Current`), as the dashboard's address stays known.  A slot that is
overwritten before it is polled, as in `link_gains`, ends what `clean` stands for.

Only model-checked is all liveness, which is beyond the prover; and the four
properties of the runs that find a violation are, of course, not proved.  Every
safety property that a passing run checks is a theorem, for all constants.  No module
with a theorem declares or reaches a RECURSIVE operator, and nothing is proved by
induction over data.

## 6. What disagrees with the code's own comments

* `NoSendOnClosed`: the goroutines of a session release the wait group before
  their last `quit`, so that `unregister` may close the channel that this `quit`
  sends on, and the server panics ("Wait until deregister to prevent write to
  closed channel", `web_session.go:142`).  It is the only way to a panic, and takes a
  trusted client (`PanicsAreOwn`, `Watchers`).
* `ShutdownEnds`: a connection that registers after the broker has quit is never
  told to end, and `main` waits for it ("Quit by closing all web sessions",
  `web_broker.go:35`).
* `CountIsOpen`: the end of a stream is counted twice ("Keep track of the number
  of open TCP connections", `tcp_server.go:15`).  The counter falls below the
  number of robots, and the broker then forwards no frames.  It never goes above it
  (`Counting`).
* `GainsMatch`: the robot has one slot for the gains of all loops
  (`comms.cpp:163`), so of gains that arrive between two polls only the last take
  effect, while the dashboard remembers all.  The panel's `sendAll`
  (`PIDPanel.jsx:66`) sends three at once; the resend waits 20 ms between two
  ("A small inter-packet delay avoids a firmware race", `main.go:343`), the
  operator's commands do not, and "the firmware always runs with the UI's
  currently selected coefficients" (`main.go:100`) fails without any loss.

These four are runs that TLC finds violated.  In the next two the properties
state what the code does, and hold; a document or comment says otherwise, and what it
says is the mutant that breaks them.

* Whether the robot backs off from a wall.  `drive.h:58`: "Maintains
  FORWARD_TARGET_MM from the wall ahead — backs off when too close, advances when too
  far."  `drive.cpp:29`: "Robot does NOT back off when too close", and so
  `DRIVING.md:238` ("Never negative").  The code (`drive.cpp:200`) stops; the header's
  comment is of the PID that the two thresholds replaced.  `BrakingNeverReverses` and
  `StopsAtWall` hold, and would not if `drive.h` were right
  (`targetSpeedBackingOff`).
* Whether a robot at speed zero turns to correct its heading.  `DRIVING.md:277`:
  "Heading correction is **not** scaled by `speedFrac`. [...] the robot can spin in place
  to fix heading even at `curSpeed = 0`", with the formula at `DRIVING.md:270`.  The
  code scales it (`drive.cpp:276`), so that a stopped robot is still.
  `StopMeansStill` holds, and would not if the document were right
  (`driveUpdateUnscaled`).

Five more disagreements are in the models and not stated as properties.

* `DRIVING.md:241`: "`fwdCorrection` never exceeds `curSpeed`".  It does, in the slow
  zone, where its target is 40 whatever the speed (`drive.cpp:206`), and after a slower
  move in the same direction, until it has ramped down; only what `driveUpdate` makes of
  it is clamped.  So `BrakingNeverReverses` bounds `fwdCorrection` by the greatest speed a
  move may have, not by the present one.
* `DRIVING.md:222` and `DRIVING.md:224` give 249 mm and speed 70 for the slow zone, the
  code has 190 and 40 (`drive.cpp:30`), and `DRIVING.md:230` assigns the speed at once
  where the code ramps it (`drive.cpp:218`).  The model has the ramp, and the thresholds
  as `close` and `wall`.
* The send loop iterates over `conns` without `muTcp` (`tcp_server.go:171`;
  "Protect important TCP variables from race conditions with a mutex",
  `tcp_server.go:19`); `TcpClients` has the fatal error that Go may answer with.
* A command for one motor also sends the stale speeds of the others
  (`comms.cpp:76`; "Set a single motor", `PROTOCOL.md:73`), which manual mode may
  have stopped since.
* `suppressHeading` is not cleared while stopped (`drive.cpp:287`;
  `DRIVING.md:206` says that it is), because a stopped robot has no lateral
  sensors and `loop()` then skips `driveUpdateCentering`.

## 7. What is not modelled, and the plan

Not modelled, and not planned: reading the configuration, logging, sensors'
filters and motor control (numeric code), path finding, learning and the bot's
simulation of the rules (heuristics that promise nothing; `BotClient` lets them
choose anything), the viewers, the bench sketches and the earlier Teensy robot.

Left for later, in this order:

1. The drive mode in `RobotLink`: what the dashboard shows against the robot's
   mode across raw commands, reboots and timeouts (`main.go:480`).
2. The engine's frame buffer, which every queued frame shares
   (`game_engine.go:147`), composed with the sessions: frames have no contents
   there today.
3. The fields of a frame other than the ghosts and locations, against
   `pacbotClient.py` and `gameState.py`.
4. The console (`server/main.go:66`).
5. An abstract specification of a session's life (kicked, told to quit, ended) that
   `WebSessions` implements, as `GameEngine` implements `GameLife`.
