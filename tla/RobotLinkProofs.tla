-------------------------- MODULE RobotLinkProofs --------------------------
(***************************************************************************)
(* For any number of PID loops, gains, ports, datagrams under way and      *)
(* concurrent resends: the types, and that a robot that comes back has the *)
(* gains of the dashboard once an undisturbed resend is through.           *)
(***************************************************************************)
EXTENDS RobotLink, TLAPS

\* The gains of a loop that are in the dashboard, as an order.
Wanted(l) == SetPid(l, selected[l])

\* Whatever gains are on their way are those of the dashboard.
Current ==
  /\ \A k \in 1 .. MaxResends : \A order \in resends[k].left :
       order = Wanted(order.loop)
  /\ \A m \in down : IsPid(m.order) => m.order = Wanted(m.order.loop)
  /\ robot.slot # None => robot.slot = Wanted(robot.slot.loop)
  /\ handler # None => ~ IsPid(handler)

\* The gains of a loop are somewhere between the dashboard and the drive.
Coming(l) ==
  \/ \E k \in 1 .. MaxResends : resends[k].copying \/ Wanted(l) \in resends[k].left
  \/ \E m \in down : m.order = Wanted(l)
  \/ robot.slot = Wanted(l)
  \/ robot.gains[l] = selected[l]

\* While nothing interferes with a resend, the gains of every loop are on their
\* way or in force, and no older ones can replace them.
Restoring ==
  clean => /\ dash.addr # None
           /\ Current
           /\ \A l \in Touched \ {Forward} : Coming(l)

IInv == TypeOK /\ Restoring

-----------------------------------------------------------------------------
(* Types. *)

LEMMA Constants ==
  /\ Forward \in Loops
  /\ None \notin Ports /\ None \notin PidOrders /\ None \notin LogOrders
  /\ Orders \subseteq PidOrders \cup LogOrders
  /\ Default \notin Gains
BY LinkAssumption DEF Forward, Loops

LEMMA PidOrder ==
  ASSUME NEW order \in PidOrders \cup LogOrders, IsPid(order)
  PROVE  /\ order \in PidOrders
         /\ order.loop \in Loops /\ order.gains \in Gains
         /\ order = SetPid(order.loop, order.gains)
         /\ order.type # "status"
BY DEF PidOrders, LogOrders, IsPid, SetPid

LEMMA SetPidOrder ==
  ASSUME NEW l \in Loops, NEW gains \in Gains
  PROVE  SetPid(l, gains) \in PidOrders /\ IsPid(SetPid(l, gains))
BY DEF PidOrders, SetPid, IsPid

LEMMA SendUpType ==
  ASSUME up \subseteq Uplink, NEW port \in Ports,
         NEW types \in SUBSET {"alive", "device_info", "sensor_data"},
         SendUp(types, port)
  PROVE  up' \subseteq Uplink
BY DEF SendUp, From, Uplink

LEMMA SendToRobotType ==
  ASSUME TypeOK, NEW order \in PidOrders \cup LogOrders, SendToRobot(order)
  PROVE  /\ down' \subseteq [port : Ports, order : PidOrders \cup LogOrders]
         /\ dash.addr \in Ports
BY Constants DEF SendToRobot, To, TypeOK

LEMMA InitTypes == Init => TypeOK
<1> SUFFICES ASSUME Init PROVE TypeOK
  OBVIOUS
<1> USE Constants DEF Init
<1>1. PICK port \in Ports : robot = Booted(port)
  OBVIOUS
<1>2. robot \in [open : BOOLEAN, port : Ports, state : {"idle", "logging"},
                 informed : BOOLEAN, ready : BOOLEAN, slot : PidOrders \cup {None},
                 gains : [Loops -> Gains \cup {Default}]]
  BY <1>1 DEF Booted
<1>3. resends \in [1 .. MaxResends -> [copying : BOOLEAN, left : SUBSET PidOrders]]
  BY DEF Idle
<1>4. dash \in [addr : Ports \cup {None}, connected : BOOLEAN,
                state : {"disconnected", "idle", "setup_done", "logging"}]
  OBVIOUS
<1>q. QED
  BY <1>2, <1>3, <1>4 DEF TypeOK

\* The robot's side and the network.
LEMMA RobotTypes ==
  ASSUME TypeOK,
         \/ Connect \/ Disconnect \/ Reboot \/ SetDeviceInfo
         \/ SendDeviceInfo \/ SendAlive \/ SendSensorData
         \/ HandleRx \/ SetPidGains \/ LoseUp \/ LoseDown
  PROVE  TypeOK'
<1> USE Constants DEF dashboard
<1>1. CASE Connect
  <2>1. PICK port \in Ports \ {robot.port} :
          /\ robot' = [robot EXCEPT !.open = TRUE, !.port = port, !.informed = FALSE]
          /\ SendUp({"alive"}, port)
    BY <1>1 DEF Connect
  <2>2. up' \subseteq Uplink
    BY <2>1, SendUpType DEF TypeOK
  <2> QED BY <1>1, <2>1, <2>2 DEF Connect, TypeOK
<1>2. CASE Disconnect
  BY <1>2 DEF Disconnect, TypeOK
<1>3. CASE Reboot
  BY <1>3 DEF Reboot, Booted, TypeOK
<1>4. CASE SetDeviceInfo
  BY <1>4 DEF SetDeviceInfo, TypeOK
<1>5. CASE SendDeviceInfo
  <2>1. up' \subseteq Uplink
    BY <1>5, SendUpType DEF SendDeviceInfo, TypeOK
  <2> QED BY <1>5, <2>1 DEF SendDeviceInfo, TypeOK
<1>6. CASE SendAlive \/ SendSensorData
  <2>1. up' \subseteq Uplink
    BY <1>6, SendUpType DEF SendAlive, SendSensorData, TypeOK
  <2> QED BY <1>6, <2>1 DEF SendAlive, SendSensorData, TypeOK
<1>7. CASE HandleRx
  <2>1. PICK m \in down : HandleLog(m) \/ HandleStatus(m) \/ HandleSetPid(m)
    BY <1>7 DEF HandleRx
  <2>2. CASE HandleLog(m)
    BY <2>2 DEF HandleLog, Hear, TypeOK
  <2>3. CASE HandleStatus(m)
    <3>1. up' \subseteq Uplink
      BY <2>3, SendUpType DEF HandleStatus, TypeOK
    <3> QED BY <2>3, <3>1 DEF HandleStatus, Hear, TypeOK
  <2>4. CASE HandleSetPid(m)
    <3>1. m.order \in PidOrders
      BY <2>4, PidOrder DEF HandleSetPid, TypeOK
    <3> QED BY <2>4, <3>1 DEF HandleSetPid, Hear, TypeOK
  <2> QED BY <2>1, <2>2, <2>3, <2>4
<1>8. CASE SetPidGains
  <2>1. robot.slot.loop \in Loops /\ robot.slot.gains \in Gains
    BY <1>8 DEF SetPidGains, TypeOK, PidOrders, SetPid
  <2> QED BY <1>8, <2>1 DEF SetPidGains, TypeOK
<1>9. CASE LoseUp
  BY <1>9 DEF LoseUp, TypeOK
<1>10. CASE LoseDown
  BY <1>10 DEF LoseDown, TypeOK
<1>q. QED
  BY <1>1, <1>2, <1>3, <1>4, <1>5, <1>6, <1>7, <1>8, <1>9, <1>10

\* The dashboard's side.
LEMMA DashboardTypes ==
  ASSUME TypeOK,
         \/ \E m \in up : HandleUDP(m)
         \/ \E k \in 1 .. MaxResends : CopyGains(k) \/ Resend(k)
         \/ \E order \in Orders : SendCommand(order)
         \/ StoreCommand \/ Timeout
  PROVE  TypeOK'
<1> USE Constants
<1>1. ASSUME NEW m \in up, HandleUDP(m) PROVE TypeOK'
  <2>1. m.port \in Ports /\ Shown(m.type) \in {"idle", "setup_done", "logging"}
    BY DEF TypeOK, Uplink, Shown
  <2>2. resends' \in [1 .. MaxResends -> [copying : BOOLEAN, left : SUBSET PidOrders]]
    <3>1. Started \in [copying : BOOLEAN, left : SUBSET PidOrders]
      BY DEF Started
    <3>2. UNCHANGED resends
          \/ \E k \in 1 .. MaxResends : resends' = [resends EXCEPT ![k] = Started]
      BY <1>1 DEF HandleUDP
    <3> QED BY <3>1, <3>2 DEF TypeOK
  <2>3. clean' \in BOOLEAN
    <3>1. CASE dash.addr = m.port
      BY <1>1, <3>1 DEF HandleUDP, TypeOK
    <3>2. CASE dash.addr # m.port
      <4>1. clean' = (Quiet /\ m.port = robot.port)
        BY <1>1, <3>2 DEF HandleUDP
      <4> QED BY <4>1, Zenon
    <3> QED BY <3>1, <3>2
  <2> QED BY <1>1, <2>1, <2>2, <2>3 DEF HandleUDP, TypeOK
<1>2. ASSUME NEW k \in 1 .. MaxResends, CopyGains(k) PROVE TypeOK'
  <2>1. {SetPid(l, selected[l]) : l \in Touched} \subseteq PidOrders
    BY DEF Touched, TypeOK, PidOrders
  <2> QED BY <1>2, <2>1 DEF CopyGains, TypeOK
<1>3. ASSUME NEW k \in 1 .. MaxResends, Resend(k) PROVE TypeOK'
  <2>1. resends[k] \in [copying : BOOLEAN, left : SUBSET PidOrders]
    BY DEF TypeOK
  <2>2. PICK order \in resends[k].left :
          \/ /\ SendToRobot(order)
             /\ resends' = [resends EXCEPT ![k].left = @ \ {order}]
          \/ /\ resends' = [resends EXCEPT ![k] = Idle]
             /\ UNCHANGED down
    BY <1>3 DEF Resend
  <2>3. down' \subseteq [port : Ports, order : PidOrders \cup LogOrders]
    BY <2>1, <2>2, SendToRobotType DEF TypeOK
  <2>4. resends' \in [1 .. MaxResends -> [copying : BOOLEAN, left : SUBSET PidOrders]]
    <3>1. Idle \in [copying : BOOLEAN, left : SUBSET PidOrders]
      BY DEF Idle
    <3>2. [resends[k] EXCEPT !.left = @ \ {order}]
            \in [copying : BOOLEAN, left : SUBSET PidOrders]
      BY <2>1
    <3>3. \/ resends' = [resends EXCEPT ![k] = [resends[k] EXCEPT !.left = @ \ {order}]]
          \/ resends' = [resends EXCEPT ![k] = Idle]
      BY <2>2
    <3> QED BY <3>1, <3>2, <3>3 DEF TypeOK
  <2> QED BY <1>3, <2>3, <2>4 DEF Resend, TypeOK
<1>4. ASSUME NEW order \in Orders, SendCommand(order) PROVE TypeOK'
  <2>1. order \in PidOrders \cup LogOrders
    OBVIOUS
  <2>2. down' \subseteq [port : Ports, order : PidOrders \cup LogOrders]
    BY <1>4, <2>1, SendToRobotType DEF SendCommand
  <2>3. clean' \in BOOLEAN
    BY <1>4, Zenon DEF SendCommand, TypeOK
  <2> QED BY <1>4, <2>1, <2>2, <2>3 DEF SendCommand, TypeOK
<1>5. CASE StoreCommand
  <2>1. handler \in PidOrders \cup LogOrders /\ handler.type # "status"
    BY <1>5 DEF StoreCommand, TypeOK
  <2>2. CASE IsPid(handler)
    <3>1. handler.loop \in Loops /\ handler.gains \in Gains /\ handler.type = "set_pid"
      BY <2>1, <2>2, PidOrder DEF IsPid
    <3> QED BY <1>5, <2>2, <3>1 DEF StoreCommand, TypeOK
  <2>3. CASE ~ IsPid(handler)
    <3>1. handler.type \in {"start_log", "stop_log"}
      BY <2>1, <2>3 DEF PidOrders, LogOrders, SetPid, IsPid
    <3> QED BY <1>5, <2>3, <3>1 DEF StoreCommand, TypeOK
  <2> QED BY <2>2, <2>3
<1>6. CASE Timeout
  BY <1>6 DEF Timeout, TypeOK
<1>q. QED
  BY <1>1, <1>2, <1>3, <1>4, <1>5, <1>6

LEMMA NextTypes == TypeOK /\ [Next]_vars => TypeOK'
<1>1. TypeOK /\ UNCHANGED vars => TypeOK'
  BY DEF TypeOK, vars
<1>q. QED
  BY <1>1, RobotTypes, DashboardTypes DEF Next

\* Every variable keeps its type, and a datagram is always one that its receiver
\* has a case for, whatever is lost, overtaken or rebooted.
THEOREM LinkTypes == Spec => []TypeOK
BY InitTypes, NextTypes, PTL DEF Spec

-----------------------------------------------------------------------------
(* A resend that nothing interferes with. *)

LEMMA WantedIsPid == \A l : IsPid(Wanted(l)) /\ Wanted(l).loop = l
BY DEF Wanted, SetPid, IsPid

\* A step that takes no gains from where they are, and adds none.
LEMMA Stays ==
  ASSUME Restoring, clean' => clean,
         dash'.addr = dash.addr, UNCHANGED <<selected, resends>>,
         handler' = handler \/ (handler' # None => ~ IsPid(handler')),
         robot'.slot = robot.slot, robot'.gains = robot.gains,
         \A m \in down' \ down : ~ IsPid(m.order),
         clean' => \A m \in down \ down' : ~ IsPid(m.order)
  PROVE  Restoring'
<1> SUFFICES ASSUME clean'
             PROVE  /\ dash'.addr # None
                    /\ Current'
                    /\ \A l \in Touched' \ {Forward} : Coming(l)'
  BY DEF Restoring
<1>1. dash'.addr # None /\ Current /\ \A l \in Touched \ {Forward} : Coming(l)
  BY DEF Restoring
<1>2. Touched' = Touched /\ \A l : Wanted(l)' = Wanted(l)
  BY DEF Touched, Wanted
<1>3. Current'
  BY <1>1, <1>2 DEF Current
<1>4. ASSUME NEW l \in Touched \ {Forward} PROVE Coming(l)'
  <2>1. Coming(l)
    BY <1>1, <1>4
  <2>2. CASE \E m \in down : m.order = Wanted(l)
    <3>1. PICK m \in down : m.order = Wanted(l)
      BY <2>2
    <3>2. m \in down'
      BY <3>1, WantedIsPid
    <3> QED BY <3>1, <3>2, <1>2 DEF Coming
  <2> QED BY <2>1, <2>2, <1>2 DEF Coming
<1>q. QED
  BY <1>1, <1>2, <1>3, <1>4

\* Gains reach an empty slot.
LEMMA HearingRestores ==
  ASSUME IInv, NEW m \in down, HandleSetPid(m)
  PROVE  Restoring'
<1> SUFFICES ASSUME clean'
             PROVE  /\ dash'.addr # None
                    /\ Current'
                    /\ \A l \in Touched' \ {Forward} : Coming(l)'
  BY DEF Restoring
<1>1. clean /\ robot.slot = None
  BY DEF HandleSetPid
<1>2. dash.addr # None /\ Current /\ \A l \in Touched \ {Forward} : Coming(l)
  BY <1>1 DEF IInv, Restoring
<1>3. /\ down' = down \ {m} /\ IsPid(m.order)
      /\ UNCHANGED <<dash, selected, handler, resends>>
      /\ robot'.slot = m.order /\ robot'.gains = robot.gains
  BY DEF HandleSetPid, Hear, dashboard, IInv, TypeOK
<1>4. Touched' = Touched /\ \A l : Wanted(l)' = Wanted(l)
  BY <1>3 DEF Touched, Wanted
<1>5. Current'
  BY <1>2, <1>3, <1>4 DEF Current
<1>6. ASSUME NEW l \in Touched \ {Forward} PROVE Coming(l)'
  <2>1. Coming(l) /\ robot.slot # Wanted(l)
    BY <1>1, <1>2, <1>6, Constants, SetPidOrder DEF Wanted, Touched, IInv, TypeOK
  <2> QED BY <2>1, <1>3, <1>4 DEF Coming
<1>q. QED
  BY <1>2, <1>3, <1>4, <1>5, <1>6

\* Core 0 takes them.
LEMMA TakingRestores ==
  ASSUME IInv, SetPidGains
  PROVE  Restoring'
<1> SUFFICES ASSUME clean'
             PROVE  /\ dash'.addr # None
                    /\ Current'
                    /\ \A l \in Touched' \ {Forward} : Coming(l)'
  BY DEF Restoring
<1>1. clean /\ robot.slot # None
  BY DEF SetPidGains
<1>2. dash.addr # None /\ Current /\ \A l \in Touched \ {Forward} : Coming(l)
  BY <1>1 DEF IInv, Restoring
<1>3. /\ UNCHANGED <<down, dash, selected, handler, resends>>
      /\ robot'.slot = None
      /\ robot'.gains = IF robot.slot.loop = Forward THEN robot.gains
                        ELSE [robot.gains EXCEPT ![robot.slot.loop] = robot.slot.gains]
  BY DEF SetPidGains, dashboard, IInv, TypeOK
<1>4. Touched' = Touched /\ \A l : Wanted(l)' = Wanted(l)
  BY <1>3 DEF Touched, Wanted
<1>5. Current'
  BY <1>2, <1>3, <1>4 DEF Current
<1>6. robot.slot = SetPid(robot.slot.loop, selected[robot.slot.loop])
  BY <1>1, <1>2 DEF Current, Wanted
<1>7. robot.slot.gains = selected[robot.slot.loop]
  BY <1>6 DEF SetPid
<1>8. ASSUME NEW l \in Touched \ {Forward} PROVE Coming(l)'
  <2>1. l \in Loops /\ robot.gains \in [Loops -> Gains \cup {Default}]
    BY DEF Touched, IInv, TypeOK
  <2>2. CASE robot.slot.loop = l
    <3>1. robot'.gains[l] = selected'[l]
      BY <2>1, <2>2, <1>3, <1>7
    <3> QED BY <3>1 DEF Coming
  <2>3. CASE robot.slot.loop # l
    <3>1. robot'.gains[l] = robot.gains[l] /\ robot.slot # Wanted(l)
      BY <2>1, <2>3, <1>3, WantedIsPid
    <3>2. Coming(l)
      BY <1>2, <1>8
    <3> QED BY <3>1, <3>2, <1>3, <1>4 DEF Coming
  <2> QED BY <2>2, <2>3
<1>q. QED
  BY <1>2, <1>3, <1>4, <1>5, <1>8

\* A new address starts a resend with nothing else under way, or is not clean.
LEMMA HandlingRestores ==
  ASSUME IInv, NEW m \in up, HandleUDP(m)
  PROVE  Restoring'
<1>1. /\ UNCHANGED <<robot, down, selected, handler>>
      /\ dash'.addr = m.port /\ m.port \in Ports
  BY DEF HandleUDP, IInv, TypeOK, Uplink
<1>2. CASE dash.addr = m.port
  <2>1. UNCHANGED <<resends, clean>>
    BY <1>2 DEF HandleUDP
  <2> QED BY <1>1, <1>2, <2>1, Stays DEF IInv
<1>3. CASE dash.addr # m.port /\ clean'
  <2>1. Quiet
    BY <1>3 DEF HandleUDP
  <2>2. PICK k \in 1 .. MaxResends : resends' = [resends EXCEPT ![k] = Started]
    BY <1>3 DEF HandleUDP
  <2>3. /\ resends'[k].copying
        /\ \A j \in 1 .. MaxResends : resends'[j].left = {}
    BY <2>1, <2>2 DEF Quiet, Resting, Started, Idle, IInv, TypeOK
  <2>4. Current'
    BY <1>1, <2>1, <2>3 DEF Current, Quiet, PidUnderWay
  <2>5. \A l \in Touched' : Coming(l)'
    BY <2>3 DEF Coming
  <2> QED BY <1>1, <2>4, <2>5, Constants DEF Restoring
<1>4. CASE ~ clean'
  BY <1>4 DEF Restoring
<1>q. QED
  BY <1>2, <1>3, <1>4

\* The copy holds the gains of every loop that has any.
LEMMA CopyingRestores ==
  ASSUME IInv, NEW k \in 1 .. MaxResends, CopyGains(k)
  PROVE  Restoring'
<1> DEFINE copy == {SetPid(l, selected[l]) : l \in Touched}
<1>1. /\ UNCHANGED <<robot, down, dash, selected, handler, clean>>
      /\ resends' = [resends EXCEPT ![k] = [copying |-> FALSE, left |-> copy]]
  BY DEF CopyGains
<1>2. /\ resends'[k].left = copy
      /\ \A j \in (1 .. MaxResends) \ {k} : resends'[j] = resends[j]
  BY <1>1 DEF IInv, TypeOK
<1>3. Touched' = Touched /\ \A l : Wanted(l)' = Wanted(l)
  BY <1>1 DEF Touched, Wanted
<1>4. \A order \in copy : order = Wanted(order.loop)
  BY WantedIsPid DEF Wanted
<1>5. Current => Current'
  <2> SUFFICES ASSUME Current PROVE Current'
    OBVIOUS
  <2>1. \A j \in 1 .. MaxResends : \A order \in resends'[j].left :
          order = Wanted(order.loop)
    BY <1>2, <1>4 DEF Current
  <2> QED BY <1>1, <1>3, <2>1 DEF Current
<1>6. \A l \in Touched : Coming(l)'
  <2>1. \A l \in Touched : Wanted(l) \in copy
    BY DEF Wanted
  <2> QED BY <1>2, <1>3, <2>1 DEF Coming
<1>q. QED
  BY <1>1, <1>3, <1>5, <1>6 DEF IInv, Restoring

\* What is sent is under way; the address is there, so that the call goes on.
LEMMA ResendingRestores ==
  ASSUME IInv, NEW k \in 1 .. MaxResends, Resend(k)
  PROVE  Restoring'
<1> SUFFICES ASSUME clean'
             PROVE  /\ dash'.addr # None
                    /\ Current'
                    /\ \A l \in Touched' \ {Forward} : Coming(l)'
  BY DEF Restoring
<1>1. UNCHANGED <<robot, dash, selected, handler, clean>>
  BY DEF Resend
<1>2. dash.addr # None /\ Current /\ \A l \in Touched \ {Forward} : Coming(l)
  BY <1>1 DEF IInv, Restoring
<1>3. PICK order \in resends[k].left :
        /\ SendToRobot(order)
        /\ resends' = [resends EXCEPT ![k].left = @ \ {order}]
  BY <1>2 DEF Resend
<1>4. /\ down' = down \cup {To(dash.addr, order)}
      /\ resends'[k].left = resends[k].left \ {order}
      /\ resends'[k].copying = resends[k].copying
      /\ \A j \in (1 .. MaxResends) \ {k} : resends'[j] = resends[j]
  BY <1>3 DEF SendToRobot, IInv, TypeOK
<1>5. Touched' = Touched /\ \A l : Wanted(l)' = Wanted(l)
  BY <1>1 DEF Touched, Wanted
<1>6. order = Wanted(order.loop)
  BY <1>2 DEF Current
<1>7. Current'
  <2>1. \A j \in 1 .. MaxResends : \A o \in resends'[j].left : o = Wanted(o.loop)
    BY <1>2, <1>4 DEF Current
  <2>2. \A m \in down' : IsPid(m.order) => m.order = Wanted(m.order.loop)
    BY <1>2, <1>4, <1>6 DEF Current, To
  <2> QED BY <1>1, <1>2, <1>5, <2>1, <2>2 DEF Current
<1>8. ASSUME NEW l \in Touched \ {Forward} PROVE Coming(l)'
  <2>1. Coming(l)
    BY <1>2, <1>8
  <2>2. CASE Wanted(l) = order
    <3>1. To(dash.addr, order) \in down' /\ To(dash.addr, order).order = Wanted(l)
      BY <1>4, <2>2 DEF To
    <3> QED BY <1>5, <3>1 DEF Coming
  <2>3. CASE Wanted(l) # order /\ \E j \in 1 .. MaxResends :
                resends[j].copying \/ Wanted(l) \in resends[j].left
    <3>1. PICK j \in 1 .. MaxResends :
            resends[j].copying \/ Wanted(l) \in resends[j].left
      BY <2>3
    <3>2. resends'[j].copying \/ Wanted(l) \in resends'[j].left
      BY <1>4, <2>3, <3>1
    <3> QED BY <1>5, <3>1, <3>2 DEF Coming
  <2>4. CASE \/ \E m \in down : m.order = Wanted(l)
             \/ robot.slot = Wanted(l)
             \/ robot.gains[l] = selected[l]
    BY <1>1, <1>4, <1>5, <2>4 DEF Coming
  <2> QED BY <2>1, <2>2, <2>3, <2>4 DEF Coming
<1>q. QED
  BY <1>1, <1>2, <1>5, <1>7, <1>8

\* Nothing but a resend brings gains while it is undisturbed.
LEMMA CommandRestores ==
  ASSUME IInv, (\E order \in Orders : SendCommand(order)) \/ StoreCommand
  PROVE  Restoring'
<1>1. ASSUME NEW order \in Orders, SendCommand(order) PROVE Restoring'
  <2> SUFFICES ASSUME clean' PROVE Restoring'
    BY DEF Restoring
  <2>1. clean /\ ~ IsPid(order)
    BY <1>1, Zenon DEF SendCommand
  <2>2. /\ UNCHANGED <<robot, dash, selected, resends>>
        /\ down' = down \cup {To(dash.addr, order)}
        /\ handler' = None \/ handler' = order
    BY <1>1 DEF SendCommand, SendToRobot
  <2>3. \A m \in down' \ down : ~ IsPid(m.order)
    BY <2>1, <2>2 DEF To
  <2> QED BY <2>1, <2>2, <2>3, Stays DEF IInv
<1>2. CASE StoreCommand
  <2> SUFFICES ASSUME clean' PROVE Restoring'
    BY DEF Restoring
  <2>1. clean /\ handler # None /\ UNCHANGED <<robot, up, down, resends>>
    BY <1>2 DEF StoreCommand
  <2>2. ~ IsPid(handler)
    BY <2>1 DEF IInv, Restoring, Current
  <2>3. handler.type \in {"start_log", "stop_log"}
    BY <2>1, <2>2 DEF IInv, TypeOK, PidOrders, LogOrders, SetPid, IsPid
  <2>4. UNCHANGED selected /\ dash'.addr = dash.addr /\ handler' = None
    BY <1>2, <2>2, <2>3 DEF StoreCommand, IInv, TypeOK
  <2> QED BY <2>1, <2>4, Stays DEF IInv
<1>q. QED
  BY <1>1, <1>2

LEMMA NextRestoring == IInv /\ [Next]_vars => Restoring'
<1> SUFFICES ASSUME IInv, [Next]_vars PROVE Restoring'
  OBVIOUS
<1> USE DEF dashboard
<1>1. CASE Disconnect \/ Reboot \/ Timeout
  BY <1>1 DEF Disconnect, Reboot, Timeout, Restoring
<1>2. CASE Connect \/ SetDeviceInfo \/ SendDeviceInfo
  <2>1. robot'.slot = robot.slot /\ robot'.gains = robot.gains
    BY <1>2 DEF Connect, SetDeviceInfo, SendDeviceInfo, IInv, TypeOK
  <2>2. UNCHANGED <<down, dash, selected, handler, resends, clean>>
    BY <1>2 DEF Connect, SetDeviceInfo, SendDeviceInfo
  <2> QED BY <2>1, <2>2, Stays DEF IInv
<1>3. CASE SendAlive \/ SendSensorData \/ LoseUp \/ UNCHANGED vars
  BY <1>3, Stays DEF SendAlive, SendSensorData, LoseUp, vars, IInv
<1>4. CASE LoseDown
  <2>1. clean' => clean /\ \A m \in down \ down' : ~ IsPid(m.order)
    BY <1>4, Zenon DEF LoseDown
  <2> QED BY <1>4, <2>1, Stays DEF LoseDown, IInv
<1>5. ASSUME NEW m \in down, HandleLog(m) \/ HandleStatus(m) PROVE Restoring'
  <2>1. robot'.slot = robot.slot /\ robot'.gains = robot.gains /\ ~ IsPid(m.order)
    BY <1>5 DEF HandleLog, HandleStatus, Hear, IsPid, IInv, TypeOK
  <2> QED BY <1>5, <2>1, Stays DEF HandleLog, HandleStatus, Hear, IInv
<1>q. QED
  BY <1>1, <1>2, <1>3, <1>4, <1>5, HearingRestores, TakingRestores,
     HandlingRestores, CopyingRestores, ResendingRestores, CommandRestores
     DEF Next, HandleRx

\* Between a robot's return and its last gain, every loop's gains are on their
\* way or in force, as long as nothing interferes.
THEOREM LinkInvariance == Spec => []IInv
<1>1. Init => IInv
  BY InitTypes DEF Init, IInv, Restoring
<1>2. IInv /\ [Next]_vars => IInv'
  BY NextTypes, NextRestoring DEF IInv
<1> QED BY <1>1, <1>2, PTL DEF Spec

\* A robot that comes back, rebooted or not, has all gains of the dashboard once
\* an undisturbed resend is through, whatever their number and the bounds.
THEOREM Resends == Spec => []ResendRestores
<1>1. IInv => ResendRestores
  <2> SUFFICES ASSUME IInv, clean, Quiet, NEW l \in Loops \ {Forward},
                      selected[l] # Default
               PROVE  robot.gains[l] = selected[l]
    BY DEF ResendRestores, InForce
  <2>1. Coming(l)
    BY DEF IInv, Restoring, Touched
  <2>2. IsPid(Wanted(l)) /\ Wanted(l) # None
    BY WantedIsPid, Constants, SetPidOrder DEF Wanted, IInv, TypeOK
  <2> QED BY <2>1, <2>2 DEF Coming, Quiet, Resting, PidUnderWay, Idle
<1> QED BY <1>1, LinkInvariance, PTL
=============================================================================
