----------------------------- MODULE RobotLink -----------------------------
(***************************************************************************)
(* The link between the dashboard server (src/dashboard/server/main.go)    *)
(* and the robot's core 1 (src/low_level/RPiPacBot/comms.cpp): UDP         *)
(* datagrams that may be lost or overtake each other, a robot that loses   *)
(* its WiFi or reboots, the robot's state as the dashboard shows it, and   *)
(* the PID gains that are sent again when the robot comes back.            *)
(***************************************************************************)
EXTENDS Integers, FiniteSets

CONSTANTS NumLoops,   \* PID loops: the last is PID_LOOP_FORWARD
          Gains,      \* gains that the operator selects
          Default,    \* the gains of a loop that nobody has touched
          Ports,      \* the ephemeral ports of the robot's socket
          None,
          Orders,     \* the operator's commands
          Lossy,      \* the network may lose what it could deliver to the robot
          MaxUp,      \* bound: datagrams under way to the dashboard,
          MaxDown,    \* and to the robot
          MaxResends  \* bound: concurrent calls of resendPidGains

Loops == 0 .. NumLoops - 1
Forward == NumLoops - 1

SetPid(loop, gains) == [type |-> "set_pid", loop |-> loop, gains |-> gains]
PidOrders == {SetPid(loop, gains) : loop \in Loops, gains \in Gains}
LogOrders == {[type |-> t] : t \in {"start_log", "stop_log", "status"}}

ASSUME LinkAssumption ==
  /\ NumLoops \in Nat \ {0}
  /\ Default \notin Gains
  /\ None \notin Ports /\ None \notin PidOrders /\ None \notin LogOrders
  /\ Lossy \in BOOLEAN
  /\ Orders \subseteq PidOrders \cup LogOrders
  /\ MaxUp \in Nat \ {0} /\ MaxDown \in Nat \ {0} /\ MaxResends \in Nat \ {0}

VARIABLES robot,    \* core 1's statics and commsShared
          up, down, \* the datagrams under way to the dashboard and the robot
          dash,     \* robotState
          selected, \* pidGains
          handler,  \* the command that handleWSCommand has sent, not stored
          resends,  \* the calls of resendPidGains
          clean     \* history: nothing has interfered with the last resend

vars == <<robot, up, down, dash, selected, handler, resends, clean>>

\* A call of resendPidGains: it has to copy the gains, then to send these orders.
Idle == [copying |-> FALSE, left |-> {}]
Started == [copying |-> TRUE, left |-> {}]

From(port, type) == [port |-> port, type |-> type]
To(port, order) == [port |-> port, order |-> order]

IsPid(order) == order.type = "set_pid"
PidUnderWay == \E m \in down : IsPid(m.order)
Resting == \A k \in 1 .. MaxResends : resends[k] = Idle

\* No gains are on their way from the operator to the robot's drive.
Quiet == handler = None /\ Resting /\ ~ PidUnderWay /\ robot.slot = None

Booted(port) ==
  [open |-> FALSE, port |-> port, state |-> "idle", informed |-> FALSE,
   ready |-> FALSE, slot |-> None, gains |-> [l \in Loops |-> Default]]

Init ==
  /\ \E port \in Ports : robot = Booted(port)
  /\ up = {} /\ down = {}
  /\ dash = [addr |-> None, connected |-> FALSE, state |-> "disconnected"]
  /\ selected = [l \in Loops |-> Default]
  /\ handler = None
  /\ resends = [k \in 1 .. MaxResends |-> Idle]
  /\ clean = FALSE

dashboard == <<dash, selected, handler, resends>>

(***************************************************************************)
(* The robot                                                               *)
(***************************************************************************)
SendUp(types, port) ==
  /\ Cardinality(up) < MaxUp
  /\ up' = up \cup {From(port, t) : t \in types}

\* WiFi comes up, at boot or again: a fresh socket, and an ALIVE.
Connect ==
  /\ ~ robot.open
  /\ \E port \in Ports \ {robot.port} :
       /\ robot' = [robot EXCEPT !.open = TRUE, !.port = port, !.informed = FALSE]
       /\ SendUp({"alive"}, port)
  /\ UNCHANGED <<down, dashboard, clean>>

Disconnect ==
  /\ robot.open
  /\ robot' = [robot EXCEPT !.open = FALSE]
  /\ clean' = FALSE
  /\ UNCHANGED <<up, down, dashboard>>

Reboot ==
  /\ robot' = Booted(robot.port)
  /\ clean' = FALSE
  /\ UNCHANGED <<up, down, dashboard>>

\* Core 0 has finished its setup.
SetDeviceInfo ==
  /\ ~ robot.ready
  /\ robot' = [robot EXCEPT !.ready = TRUE]
  /\ UNCHANGED <<up, down, dashboard, clean>>

SendDeviceInfo ==
  /\ robot.open /\ robot.state = "idle" /\ robot.ready /\ ~ robot.informed
  /\ SendUp({"device_info"}, robot.port)
  /\ robot' = [robot EXCEPT !.informed = TRUE]
  /\ UNCHANGED <<down, dashboard, clean>>

\* Mutant of SendAlive: in every state of the robot.
SendAliveAlways ==
  /\ robot.open
  /\ SendUp({"alive"}, robot.port)
  /\ UNCHANGED <<robot, down, dashboard, clean>>

SendAlive ==
  /\ robot.open /\ robot.state = "idle"
  /\ SendUp({"alive"}, robot.port)
  /\ UNCHANGED <<robot, down, dashboard, clean>>

SendSensorData ==
  /\ robot.open /\ robot.state = "logging"
  /\ SendUp({"sensor_data"}, robot.port)
  /\ UNCHANGED <<robot, down, dashboard, clean>>

\* A datagram reaches the robot's present socket (handleRx).
Hear(m) ==
  /\ m \in down /\ robot.open /\ m.port = robot.port
  /\ down' = down \ {m}

HandleLog(m) ==
  /\ Hear(m) /\ m.order.type \in {"start_log", "stop_log"}
  /\ robot' = [robot EXCEPT !.state =
                 IF m.order.type = "start_log" THEN "logging" ELSE "idle"]
  /\ UNCHANGED <<up, dashboard, clean>>

HandleStatus(m) ==
  /\ Hear(m) /\ m.order.type = "status"
  /\ SendUp({"device_info"}, robot.port)
  /\ UNCHANGED <<robot, dashboard, clean>>

\* There is one slot for the gains of all loops.
HandleSetPid(m) ==
  /\ Hear(m) /\ IsPid(m.order)
  /\ robot' = [robot EXCEPT !.slot = m.order]
  /\ clean' = (clean /\ robot.slot = None)
  /\ UNCHANGED <<up, dashboard>>

HandleRx == \E m \in down : HandleLog(m) \/ HandleStatus(m) \/ HandleSetPid(m)

\* Core 0 polls the slot; the forward loop has no gains any more.
SetPidGains ==
  /\ robot.ready /\ robot.slot # None
  /\ robot' = [robot EXCEPT
                 !.slot = None,
                 !.gains = IF robot.slot.loop = Forward THEN @
                           ELSE [@ EXCEPT ![robot.slot.loop] = robot.slot.gains]]
  /\ UNCHANGED <<up, down, dashboard, clean>>

(***************************************************************************)
(* The network                                                             *)
(***************************************************************************)
LoseUp ==
  /\ \E m \in up : up' = up \ {m}
  /\ UNCHANGED <<robot, down, dashboard, clean>>

\* Nobody reads a datagram to a socket that the robot has closed.
LoseDown ==
  /\ \E m \in down :
       /\ Lossy \/ m.port # robot.port \/ ~ robot.open
       /\ down' = down \ {m}
       /\ clean' = (clean /\ ~ IsPid(m.order))
  /\ UNCHANGED <<robot, up, dashboard>>

(***************************************************************************)
(* The dashboard server                                                    *)
(***************************************************************************)
Shown(type) ==
  CASE type = "alive"       -> "idle"
    [] type = "device_info" -> "setup_done"
    [] type = "sensor_data" -> "logging"

\* Mutant of HandleUDP: only a robot that had been given up gets its gains again.
HandleUDPUnlessConnected(m) ==
  /\ m \in up
  /\ up' = up \ {m}
  /\ dash' = [addr |-> m.port, connected |-> TRUE, state |-> Shown(m.type)]
  /\ clean' = (IF dash.addr = m.port THEN clean ELSE Quiet /\ m.port = robot.port)
  /\ IF dash.addr # None THEN UNCHANGED resends
     ELSE \E k \in 1 .. MaxResends :
            resends[k] = Idle /\ resends' = [resends EXCEPT ![k] = Started]
  /\ UNCHANGED <<robot, down, selected, handler>>

\* Mutant of HandleUDP: the first address is kept.
HandleUDPKeepingAddr(m) ==
  /\ m \in up
  /\ up' = up \ {m}
  /\ dash' = [dash EXCEPT !.addr = IF @ = None THEN m.port ELSE @,
                          !.connected = TRUE, !.state = Shown(m.type)]
  /\ UNCHANGED <<robot, down, selected, handler, resends, clean>>

\* A new address starts a goroutine that sends the gains again.
HandleUDP(m) ==
  /\ m \in up
  /\ up' = up \ {m}
  /\ dash' = [addr |-> m.port, connected |-> TRUE, state |-> Shown(m.type)]
  /\ IF dash.addr = m.port THEN UNCHANGED <<resends, clean>>
     ELSE \E k \in 1 .. MaxResends :
            /\ resends[k] = Idle
            /\ \A j \in 1 .. k - 1 : resends[j] # Idle
            /\ resends' = [resends EXCEPT ![k] = Started]
            /\ clean' = (Quiet /\ m.port = robot.port)
  /\ UNCHANGED <<robot, down, selected, handler>>

SendToRobot(order) ==
  /\ dash.addr # None
  /\ Cardinality(down) < MaxDown
  /\ down' = down \cup {To(dash.addr, order)}

\* Mutant of Touched: every loop.
EveryLoop == Loops

\* A loop that nobody has touched is skipped.
Touched == {l \in Loops : selected[l] # Default}

CopyGains(k) ==
  /\ resends[k].copying
  /\ resends' = [resends EXCEPT ![k] =
                   [copying |-> FALSE,
                    left |-> {SetPid(l, selected[l]) : l \in Touched}]]
  /\ UNCHANGED <<robot, up, down, dash, selected, handler, clean>>

\* One turn of the loop; without an address the call returns.
Resend(k) ==
  /\ \E order \in resends[k].left :
       /\ \A other \in resends[k].left : order.loop <= other.loop
       /\ \/ /\ SendToRobot(order)
             /\ resends' = [resends EXCEPT ![k].left = @ \ {order}]
          \/ /\ dash.addr = None
             /\ resends' = [resends EXCEPT ![k] = Idle]
             /\ UNCHANGED down
  /\ UNCHANGED <<robot, up, dash, selected, handler, clean>>

\* A command is sent first and takes effect in the dashboard afterwards.
SendCommand(order) ==
  /\ handler = None
  /\ SendToRobot(order)
  /\ handler' = IF order.type = "status" THEN None ELSE order
  /\ clean' = (clean /\ ~ IsPid(order))
  /\ UNCHANGED <<robot, up, dash, selected, resends>>

StoreCommand ==
  /\ handler # None
  /\ handler' = None
  /\ selected' = IF IsPid(handler)
                 THEN [selected EXCEPT ![handler.loop] = handler.gains]
                 ELSE selected
  /\ dash' = CASE handler.type = "start_log" -> [dash EXCEPT !.state = "logging"]
               [] handler.type = "stop_log"  -> [dash EXCEPT !.state = "setup_done"]
               [] IsPid(handler)             -> dash
  /\ UNCHANGED <<robot, up, down, resends, clean>>

\* disconnectWatcher: five seconds without a datagram.
Timeout ==
  /\ dash.connected
  /\ dash' = [addr |-> None, connected |-> FALSE, state |-> "disconnected"]
  /\ clean' = FALSE
  /\ UNCHANGED <<robot, up, down, selected, handler, resends>>

Next ==
  \/ Connect \/ Disconnect \/ Reboot \/ SetDeviceInfo
  \/ SendDeviceInfo \/ SendAlive \/ SendSensorData
  \/ HandleRx \/ SetPidGains
  \/ LoseUp \/ LoseDown
  \/ \E m \in up : HandleUDP(m)
  \/ \E k \in 1 .. MaxResends : CopyGains(k) \/ Resend(k)
  \/ \E order \in Orders : SendCommand(order)
  \/ StoreCommand \/ Timeout

Spec == Init /\ [][Next]_vars

Uplink == [port : Ports, type : {"alive", "device_info", "sensor_data"}]

Heartbeat == SendAlive \/ SendSensorData
HandlePresent == \E m \in up : m.port = robot.port /\ HandleUDP(m)

\* The programs run.  A datagram arrives or is lost, and not all that the robot
\* keeps sending are lost.
Fairness ==
  /\ WF_vars(Connect)
  /\ SF_vars(Heartbeat)
  /\ SF_vars(HandlePresent)
  /\ WF_vars(LoseUp \/ \E m \in up : HandleUDP(m))
  /\ WF_vars(LoseDown \/ HandleRx)
  /\ SF_vars(\E k \in 1 .. MaxResends : CopyGains(k) \/ Resend(k))

FairSpec == Spec /\ Fairness

(***************************************************************************)
(* Properties                                                              *)
(***************************************************************************)
\* Every variable has its type.
TypeOK ==
  /\ robot \in [open : BOOLEAN, port : Ports, state : {"idle", "logging"},
                informed : BOOLEAN, ready : BOOLEAN,
                slot : PidOrders \cup {None}, gains : [Loops -> Gains \cup {Default}]]
  /\ up \subseteq Uplink
  /\ down \subseteq [port : Ports, order : PidOrders \cup LogOrders]
  /\ dash \in [addr : Ports \cup {None}, connected : BOOLEAN,
               state : {"disconnected", "idle", "setup_done", "logging"}]
  /\ selected \in [Loops -> Gains \cup {Default}]
  /\ handler \in {order \in PidOrders \cup LogOrders : order.type # "status"}
                \cup {None}
  /\ resends \in [1 .. MaxResends -> [copying : BOOLEAN, left : SUBSET PidOrders]]
  /\ clean \in BOOLEAN

InForce(l) == selected[l] # Default => robot.gains[l] = selected[l]

\* A robot that comes back, rebooted or not, has all gains of the dashboard once
\* the resend that it has caused is through, provided that nothing interfered:
\* no datagram of it was lost or replaced in the slot, the operator set no gains
\* and the robot did not leave again (handleUDP, resendPidGains).
ResendRestores == clean /\ Quiet => \A l \in Loops \ {Forward} : InForce(l)

\* The robot runs with the gains that the dashboard shows whenever none are on
\* their way.
GainsMatch ==
  Quiet /\ robot.open /\ dash.addr = robot.port
    => \A l \in Loops \ {Forward} : InForce(l)

\* A robot that stays in the WiFi is found, at its present port, however often
\* the watcher gives it up.
ComesBack == <>[]robot.open => []<>(dash.connected /\ dash.addr = robot.port)

\* What the dashboard shows settles at what the robot does, although it is set
\* by commands before they arrive and by datagrams that overtake each other.
Agrees == IF robot.state = "logging" THEN dash.state = "logging"
          ELSE dash.state \in {"idle", "setup_done"}

ShownStateSettles ==
  <>[](robot.open /\ dash.connected /\ handler = None /\ down = {})
    => <>[]Agrees
=============================================================================
