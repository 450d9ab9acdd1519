--------------------------- MODULE MCWebSessions ---------------------------
(***************************************************************************)
(* Connections from an IP that may only watch and from one that also       *)
(* sends, and two instances for TLC, in each of which the connections that *)
(* do not matter are over: three watchers who compete for one place, and a *)
(* watcher beside a player.                                                *)
(***************************************************************************)
EXTENDS WebSessions

CONSTANTS s1, s2, s3, t1, t2, home, lab

MCIpOf == [s \in Sessions |-> IF s \in {t1, t2} THEN lab ELSE home]

MCInit == Start({t1}) \/ Start({s2, s3})

MCFairSpec == MCInit /\ [][Next]_vars /\ Fairness
=============================================================================
