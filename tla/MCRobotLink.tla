---------------------------- MODULE MCRobotLink ----------------------------
EXTENDS RobotLink

\* Gains of the heading loop, the start and the end of logging, and a request
\* for the robot's description.
MCOrders ==
  {[type |-> "set_pid", loop |-> 0, gains |-> g] : g \in Gains} \cup
  LogOrders

\* "Send all" of the operator's panel: the gains of all loops, for a robot that
\* the dashboard never loses and whose datagrams all arrive.
MCAllGains == PidOrders

MCStays == dash.addr # None => robot.open /\ dash.addr = robot.port
=============================================================================
