------------------------- MODULE WebSessionsProofs -------------------------
(***************************************************************************)
(* For any number of connections, IPs and capacities: the types, that what *)
(* can be broadcast to or kicked is open, that an IP has one live          *)
(* connection, and that the server panics in one way only.                 *)
(***************************************************************************)
EXTENDS WebSessions, TLAPS

\* A channel is closed when the session is off both maps.
Closing ==
  \A s \in Sessions :
    /\ closed[s] => pc[s] = "done"
    /\ s \in openWebSessions => pc[s] \in {"looping", "left"}
    /\ ipSessionMap[ipOf[s]] = s
         => pc[s] \in {"mapped", "looping", "left", "unlisted"}

Ending == {"returned", "leaving", "gone"}
After == {"left", "unlisted", "forgotten", "done"}

Woken(s) == \E i \in 1 .. Len(sendCh[s]) : sendCh[s][i] = Nil

\* A session ends only after its connection, and is woken only after that.
Ended ==
  \A s \in Sessions :
    \/ Woken(s) \/ pc[s] \in After
    \/ reader[s] \in Ending \/ writer[s] \in Ending
    => conn[s] # "open"

\* Under the restriction a live connection is the one its IP is remembered by.
Remembered ==
  OneClientPerIP =>
    \A s \in Sessions :
      Registered(s) /\ conn[s] = "open" => ipSessionMap[ipOf[s]] = s

IInv == TypeOK /\ Closing /\ Ended /\ Remembered

-----------------------------------------------------------------------------
(* Channels, and quit. *)

LEMMA OfferType ==
  ASSUME NEW q \in Seq({Frame, Nil}), Len(q) <= SendCap,
         NEW msg \in {Frame, Nil}
  PROVE  offer(q, msg) \in Seq({Frame, Nil}) /\ Len(offer(q, msg)) <= SendCap
BY SessionsAssumption DEF offer

LEMMA OfferFrame ==
  ASSUME NEW q \in Seq({Frame, Nil}),
         \E i \in 1 .. Len(offer(q, Frame)) : offer(q, Frame)[i] = Nil
  PROVE  \E i \in 1 .. Len(q) : q[i] = Nil
BY DEF offer, Frame, Nil

LEMMA TailType ==
  ASSUME NEW q \in Seq({Frame, Nil}), Len(q) <= SendCap, q # <<>>
  PROVE  /\ Tail(q) \in Seq({Frame, Nil}) /\ Len(Tail(q)) <= SendCap
         /\ Head(q) = Nil => \E i \in 1 .. Len(q) : q[i] = Nil
         /\ (\E i \in 1 .. Len(Tail(q)) : Tail(q)[i] = Nil)
              => \E i \in 1 .. Len(q) : q[i] = Nil
<1>1. Tail(q) \in Seq({Frame, Nil}) /\ Len(Tail(q)) = Len(q) - 1
  OBVIOUS
<1>2. Len(Tail(q)) <= SendCap
  BY <1>1, SessionsAssumption
<1>3. Head(q) = Nil => \E i \in 1 .. Len(q) : q[i] = Nil
  OBVIOUS
<1>4. ASSUME NEW i \in 1 .. Len(Tail(q)), Tail(q)[i] = Nil
      PROVE  \E j \in 1 .. Len(q) : q[j] = Nil
  <2>1. i + 1 \in 1 .. Len(q) /\ q[i + 1] = Nil
    BY <1>1, <1>4
  <2>q. QED
    BY <2>1
<1>q. QED
  BY <1>1, <1>2, <1>3, <1>4

\* What quit() on some sessions leaves true.
LEMMA QuitType ==
  ASSUME TypeOK, NEW S \in SUBSET Sessions, Quit(S)
  PROVE  /\ conn' \in [Sessions -> {"open", "dropped", "closed"}]
         /\ sendCh' \in [Sessions -> Seq({Frame, Nil})]
         /\ \A s \in Sessions : Len(sendCh'[s]) <= SendCap
         /\ panicked' \in BOOLEAN
<1>1. conn' \in [Sessions -> {"open", "dropped", "closed"}]
  BY DEF Quit, TypeOK
<1>2. CASE \E s \in S : closed[s]
  BY <1>1, <1>2 DEF Quit, TypeOK
<1>3. CASE ~ \E s \in S : closed[s]
  <2>1. sendCh' = [s \in Sessions |->
                     IF s \in S THEN wake(sendCh[s]) ELSE sendCh[s]]
    BY <1>3 DEF Quit
  <2>2. \A s \in Sessions : /\ sendCh'[s] \in Seq({Frame, Nil})
                            /\ Len(sendCh'[s]) <= SendCap
    BY <2>1, OfferType DEF wake, TypeOK
  <2>3. panicked' \in BOOLEAN
    BY <1>3 DEF Quit, TypeOK
  <2>q. QED
    BY <1>1, <2>1, <2>2, <2>3
<1>q. QED
  BY <1>2, <1>3

LEMMA QuitWakes ==
  ASSUME TypeOK, NEW S \in SUBSET Sessions, Quit(S), NEW s \in Sessions
  PROVE  /\ conn'[s] = "open" => conn[s] = "open" /\ s \notin S
         /\ s \notin S => sendCh'[s] = sendCh[s]
BY DEF Quit, TypeOK

-----------------------------------------------------------------------------
(* Types. *)

LEMMA InitTypes == Init => TypeOK
<1> SUFFICES ASSUME Init PROVE TypeOK
  OBVIOUS
<1> USE SessionsAssumption DEF Init, Start, goroutine
<1>1. sendCh \in [Sessions -> Seq({Frame, Nil})]
  OBVIOUS
<1>2. \A s \in Sessions : Len(sendCh[s]) <= SendCap
  OBVIOUS
<1>3. pc = [s \in Sessions |-> "new"] /\ conn = [s \in Sessions |-> "open"]
  OBVIOUS
<1>4. /\ reader = [s \in Sessions |-> "off"]
      /\ writer = [s \in Sessions |-> "off"]
  OBVIOUS
<1>5. closed \in [Sessions -> BOOLEAN]
  OBVIOUS
<1>6. panicked \in BOOLEAN
  OBVIOUS
<1>q. QED
  BY <1>1, <1>2, <1>3, <1>4, <1>5, <1>6 DEF TypeOK

LEMMA GoroutineType ==
  ASSUME NEW f \in [Sessions -> goroutine], NEW s \in Sessions
  PROVE  /\ [f EXCEPT ![s] = "leaving"] \in [Sessions -> goroutine]
         /\ [f EXCEPT ![s] = "gone"] \in [Sessions -> goroutine]
BY DEF goroutine

LEMMA NextTypes == TypeOK /\ [Next]_vars => TypeOK'
<1> SUFFICES ASSUME TypeOK, [Next]_vars PROVE TypeOK'
  OBVIOUS
<1> USE SessionsAssumption DEF shared, Goto, goroutine
<1>1. ASSUME NEW s \in Sessions, Upgrade(s) PROVE TypeOK'
  BY <1>1 DEF Upgrade, TypeOK
<1>2. ASSUME NEW s \in Sessions, Remember(s) PROVE TypeOK'
  <2> DEFINE S == IF OneClientPerIP THEN {ipSessionMap[ipOf[s]]} \ {None} ELSE {}
  <2>1. S \in SUBSET Sessions /\ Quit(S)
    BY <1>2 DEF Remember, TypeOK
  <2> HIDE DEF S
  <2>q. QED
    BY <1>2, <2>1, QuitType DEF Remember, TypeOK
<1>3. ASSUME NEW s \in Sessions, List(s) PROVE TypeOK'
  BY <1>3 DEF List, TypeOK
<1>4. ASSUME NEW s \in Sessions, LoopEnds(s) PROVE TypeOK'
  BY <1>4 DEF LoopEnds, TypeOK
<1>5. ASSUME NEW s \in Sessions, Unlist(s) PROVE TypeOK'
  BY <1>5 DEF Unlist, TypeOK
<1>6. ASSUME NEW s \in Sessions, Forget(s) PROVE TypeOK'
  BY <1>6 DEF Forget, TypeOK
<1>7. ASSUME NEW s \in Sessions, CloseChannel(s) PROVE TypeOK'
  BY <1>7 DEF CloseChannel, TypeOK
<1>8. ASSUME NEW s \in Sessions, Read(s) \/ Deliver(s) \/ ReadFails(s)
      PROVE  TypeOK'
  <2>1. CASE Read(s)
    BY <2>1 DEF Read, TypeOK
  <2>2. CASE Deliver(s)
    BY <2>2 DEF Deliver, TypeOK
  <2>3. CASE ReadFails(s)
    BY <2>3 DEF ReadFails, TypeOK
  <2>q. QED
    BY <1>8, <2>1, <2>2, <2>3
<1>9. ASSUME NEW s \in Sessions, Send(s) PROVE TypeOK'
  <2>1. /\ sendCh' \in [Sessions -> Seq({Frame, Nil})]
        /\ \A t \in Sessions : Len(sendCh'[t]) <= SendCap
    BY <1>9, TailType DEF Send, TypeOK
  <2>2. writer' = writer \/ writer' = [writer EXCEPT ![s] = "returned"]
    BY <1>9 DEF Send
  <2>3. writer' \in [Sessions -> goroutine]
    BY <2>2 DEF TypeOK
  <2>q. QED
    BY <1>9, <2>1, <2>3 DEF Send, TypeOK
<1>10. ASSUME NEW s \in Sessions, WgDone(s) PROVE TypeOK'
  <2>1. \/ reader' = [reader EXCEPT ![s] = "leaving"] /\ writer' = writer
        \/ writer' = [writer EXCEPT ![s] = "leaving"] /\ reader' = reader
    BY <1>10 DEF WgDone
  <2>2. reader' \in [Sessions -> goroutine] /\ writer' \in [Sessions -> goroutine]
    BY <2>1, GoroutineType DEF TypeOK
  <2>q. QED
    BY <1>10, <2>2 DEF WgDone, TypeOK
<1>11. ASSUME NEW s \in Sessions, QuitSelf(s) PROVE TypeOK'
  <2>1. \/ reader' = [reader EXCEPT ![s] = "gone"] /\ writer' = writer
        \/ writer' = [writer EXCEPT ![s] = "gone"] /\ reader' = reader
    BY <1>11 DEF QuitSelf
  <2>2. reader' \in [Sessions -> goroutine] /\ writer' \in [Sessions -> goroutine]
    BY <2>1, GoroutineType DEF TypeOK
  <2>q. QED
    BY <1>11, <2>2, QuitType DEF QuitSelf, TypeOK
<1>12. ASSUME NEW s \in Sessions, Drop(s) PROVE TypeOK'
  BY <1>12 DEF Drop, TypeOK
<1>13. CASE Broadcast
  <2>1. panicked' \in BOOLEAN
    BY <1>13 DEF Broadcast, TypeOK
  <2>2. \/ sendCh' = sendCh
        \/ sendCh' = [t \in Sessions |->
                        IF t \in openWebSessions THEN offer(sendCh[t], Frame)
                                                 ELSE sendCh[t]]
    BY <1>13 DEF Broadcast
  <2>3. /\ sendCh' \in [Sessions -> Seq({Frame, Nil})]
        /\ \A t \in Sessions : Len(sendCh'[t]) <= SendCap
    <3>1. \A t \in Sessions : /\ offer(sendCh[t], Frame) \in Seq({Frame, Nil})
                              /\ Len(offer(sendCh[t], Frame)) <= SendCap
      BY OfferType DEF TypeOK
    <3>2. CASE sendCh' = sendCh
      BY <3>2 DEF TypeOK
    <3>3. CASE sendCh' = [t \in Sessions |->
                            IF t \in openWebSessions
                            THEN offer(sendCh[t], Frame) ELSE sendCh[t]]
      <4>1. \A t \in Sessions : /\ sendCh'[t] \in Seq({Frame, Nil})
                                /\ Len(sendCh'[t]) <= SendCap
        BY <3>1, <3>3 DEF TypeOK
      <4>q. QED
        BY <3>3, <4>1
    <3>q. QED
      BY <2>2, <3>2, <3>3
  <2>q. QED
    BY <1>13, <2>1, <2>3 DEF Broadcast, TypeOK
<1>14. CASE Obey
  BY <1>14 DEF Obey, TypeOK
<1>15. CASE BrokerQuit
  BY <1>15, QuitType DEF BrokerQuit, TypeOK
<1>16. CASE Shutdown
  BY <1>16 DEF Shutdown, TypeOK
<1>17. CASE EngineQuit
  BY <1>17 DEF EngineQuit, TypeOK
<1>18. CASE UNCHANGED vars
  BY <1>18 DEF vars, TypeOK
<1>q. QED
  BY <1>1, <1>2, <1>3, <1>4, <1>5, <1>6, <1>7, <1>8, <1>9, <1>10, <1>11,
     <1>12, <1>13, <1>14, <1>15, <1>16, <1>17, <1>18 DEF Next, Handler, Loop

\* Every channel keeps its capacity and every goroutine its states, for any
\* number of connections.
THEOREM SessionTypes == Spec => []TypeOK
BY InitTypes, NextTypes, PTL DEF Spec

-----------------------------------------------------------------------------
(* The channels are closed last. *)

LEMMA InitClosing == Init => Closing
<1> SUFFICES ASSUME Init, NEW s \in Sessions
             PROVE  /\ ~ closed[s]
                    /\ s \notin openWebSessions
                    /\ ipSessionMap[ipOf[s]] # s
  BY DEF Closing
<1>1. closed[s] = (s \in {})
  BY Zenon DEF Init, Start
<1>2. ~ closed[s]
  BY <1>1, Zenon
<1>3. openWebSessions = {}
  BY DEF Init, Start
<1>4. ipSessionMap[ipOf[s]] = None /\ None # s
  BY SessionsAssumption DEF Init, Start
<1>q. QED
  BY <1>2, <1>3, <1>4

LEMMA NextClosing == TypeOK /\ Closing /\ [Next]_vars => Closing'
<1> SUFFICES ASSUME TypeOK, Closing, [Next]_vars PROVE Closing'
  OBVIOUS
<1> USE SessionsAssumption DEF TypeOK, Closing, Goto, shared
<1>1. ASSUME NEW s \in Sessions, Upgrade(s) PROVE Closing'
  BY <1>1 DEF Upgrade
<1>2. ASSUME NEW s \in Sessions, Remember(s) PROVE Closing'
  BY <1>2 DEF Remember
<1>3. ASSUME NEW s \in Sessions, List(s) PROVE Closing'
  BY <1>3 DEF List
<1>4. ASSUME NEW s \in Sessions, LoopEnds(s) PROVE Closing'
  <2>1. Goto(s, "looping", "left")
    BY <1>4 DEF LoopEnds
  <2>q. QED
    BY <1>4, <2>1 DEF LoopEnds
<1>5. ASSUME NEW s \in Sessions, Unlist(s) PROVE Closing'
  BY <1>5 DEF Unlist
<1>6. ASSUME NEW s \in Sessions, Forget(s) PROVE Closing'
  <2>1. \A t \in Sessions : ipSessionMap'[ipOf[t]] = t
                            => ipSessionMap[ipOf[t]] = t /\ t # s
    BY <1>6 DEF Forget
  <2>q. QED
    BY <1>6, <2>1 DEF Forget
<1>7. ASSUME NEW s \in Sessions, CloseChannel(s) PROVE Closing'
  BY <1>7 DEF CloseChannel
<1>8. ASSUME UNCHANGED <<pc, closed, openWebSessions, ipSessionMap>>
      PROVE  Closing'
  BY <1>8
<1>9. ASSUME NEW s \in Sessions, Read(s) \/ Loop(s) \/ Drop(s) PROVE Closing'
  BY <1>8, <1>9
     DEF Read, Loop, Deliver, ReadFails, Send, WgDone, QuitSelf, Drop
<1>10. CASE \/ Broadcast \/ Obey \/ Shutdown \/ BrokerQuit \/ EngineQuit
            \/ UNCHANGED vars
  BY <1>8, <1>10
     DEF Broadcast, Obey, Shutdown, BrokerQuit, EngineQuit, vars
<1>q. QED
  BY <1>1, <1>2, <1>3, <1>4, <1>5, <1>6, <1>7, <1>9, <1>10 DEF Next, Handler

\* Whoever a frame is offered to or a newcomer kicks still has an open channel,
\* for any number of connections: unregister unlists a session and forgets it
\* before it closes the channel.
THEOREM Registrations == Spec => []RegisteredIsOpen
<1>1. TypeOK /\ Closing => RegisteredIsOpen
  BY DEF TypeOK, Closing, RegisteredIsOpen
<1>q. QED
  BY <1>1, InitClosing, InitTypes, NextTypes, NextClosing, PTL DEF Spec

-----------------------------------------------------------------------------
(* A session ends only after its connection. *)

LEMMA NextEnded == TypeOK /\ Ended /\ [Next]_vars => Ended'
<1> SUFFICES ASSUME TypeOK, Ended, [Next]_vars, NEW t \in Sessions,
                    conn'[t] = "open"
             PROVE  /\ ~ Woken(t)' /\ pc'[t] \notin After
                    /\ reader'[t] \notin Ending /\ writer'[t] \notin Ending
  BY DEF Ended
<1> DEFINE Live == /\ pc[t] \notin After
                   /\ reader[t] \notin Ending /\ writer[t] \notin Ending
           Awake == /\ pc'[t] \notin After
                    /\ reader'[t] \notin Ending /\ writer'[t] \notin Ending
           Still == conn[t] = "open" => ~ Woken(t)' /\ Awake
<1>0. conn[t] = "open" => ~ Woken(t) /\ Live
  BY DEF Ended
<1> USE DEF Goto, After, Ending, shared
<1>1. ASSUME NEW s \in Sessions, \/ Upgrade(s) \/ List(s) \/ Unlist(s)
                                 \/ Forget(s) \/ CloseChannel(s)
      PROVE  ~ Woken(t)' /\ Awake
  <2>1. conn' = conn /\ sendCh' = sendCh
    BY <1>1 DEF Upgrade, List, Unlist, Forget, CloseChannel
  <2>2. ~ Woken(t)' /\ Live
    BY <1>0, <2>1 DEF Woken
  <2>q. QED
    BY <1>1, <2>2 DEF TypeOK, Upgrade, List, Unlist, Forget, CloseChannel
<1>2. ASSUME NEW s \in Sessions, Remember(s) PROVE ~ Woken(t)' /\ Awake
  <2> DEFINE S == IF OneClientPerIP THEN {ipSessionMap[ipOf[s]]} \ {None} ELSE {}
  <2>1. S \in SUBSET Sessions /\ Quit(S)
    BY <1>2, SessionsAssumption DEF Remember, TypeOK
  <2> HIDE DEF S
  <2>2. ~ Woken(t)' /\ Live
    BY <1>0, <2>1, QuitWakes DEF Woken
  <2>q. QED
    BY <1>2, <2>2 DEF Remember, TypeOK
<1>3. ASSUME NEW s \in Sessions, LoopEnds(s) PROVE ~ Woken(t)' /\ Awake
  <2>1. ~ Woken(t)' /\ Live
    BY <1>0, <1>3 DEF LoopEnds, Woken
  <2>2. writer[s] \in Ending
    BY <1>3 DEF LoopEnds
  <2>q. QED
    BY <1>3, <2>1, <2>2 DEF LoopEnds, TypeOK
<1>4. ASSUME NEW s \in Sessions, Read(s) \/ Deliver(s) \/ ReadFails(s)
      PROVE  ~ Woken(t)' /\ Awake
  <2>1. ~ Woken(t)' /\ Live
    BY <1>0, <1>4 DEF Read, Deliver, ReadFails, Woken
  <2>2. CASE Read(s)
    BY <2>1, <2>2 DEF Read, TypeOK
  <2>3. CASE Deliver(s)
    BY <2>1, <2>3 DEF Deliver, TypeOK
  <2>4. CASE ReadFails(s)
    BY <2>1, <2>4 DEF ReadFails, TypeOK
  <2>q. QED
    BY <1>4, <2>2, <2>3, <2>4
<1>5. ASSUME NEW s \in Sessions, Send(s) PROVE ~ Woken(t)' /\ Awake
  <2>1. conn[t] = "open"
    BY <1>5 DEF Send
  <2>2. CASE t # s
    BY <1>0, <1>5, <2>1, <2>2 DEF Send, TypeOK, Woken
  <2>3. CASE t = s
    <3>1. /\ sendCh'[t] = Tail(sendCh[t])
          /\ sendCh[t] \in Seq({Frame, Nil}) /\ Len(sendCh[t]) <= SendCap
          /\ sendCh[t] # <<>>
      BY <1>5, <2>3 DEF Send, TypeOK
    <3>2. ~ Woken(t)' /\ Head(sendCh[t]) # Nil
      BY <1>0, <2>1, <3>1, TailType DEF Woken
    <3>3. UNCHANGED <<writer, pc, reader>>
      BY <1>5, <2>1, <2>3, <3>2 DEF Send
    <3>q. QED
      BY <1>0, <2>1, <3>2, <3>3
  <2>q. QED
    BY <2>2, <2>3
<1>6. ASSUME NEW s \in Sessions, WgDone(s) PROVE ~ Woken(t)' /\ Awake
  <2>1. ~ Woken(t)' /\ Live
    BY <1>0, <1>6 DEF WgDone, Woken
  <2>2. t # s
    BY <1>6, <2>1 DEF WgDone
  <2>3. reader'[t] = reader[t] /\ writer'[t] = writer[t] /\ pc' = pc
    BY <1>6, <2>2 DEF WgDone, TypeOK
  <2>q. QED
    BY <2>1, <2>3
<1>7. ASSUME NEW s \in Sessions, QuitSelf(s) PROVE ~ Woken(t)' /\ Awake
  <2>1. t # s /\ sendCh'[t] = sendCh[t] /\ conn[t] = "open"
    BY <1>7, QuitWakes DEF QuitSelf
  <2>2. reader'[t] = reader[t] /\ writer'[t] = writer[t] /\ pc' = pc
    BY <1>7, <2>1 DEF QuitSelf, TypeOK
  <2>q. QED
    BY <1>0, <2>1, <2>2 DEF Woken
<1>8. ASSUME NEW s \in Sessions, Drop(s) PROVE ~ Woken(t)' /\ Awake
  <2>1. conn[t] = "open"
    BY <1>8 DEF Drop, TypeOK
  <2>q. QED
    BY <1>0, <1>8, <2>1 DEF Drop, Woken
<1>9. CASE Broadcast
  <2>1. conn[t] = "open" /\ UNCHANGED <<pc, reader, writer>>
    BY <1>9 DEF Broadcast
  <2>2. sendCh'[t] = sendCh[t] \/ sendCh'[t] = offer(sendCh[t], Frame)
    BY <1>9 DEF Broadcast
  <2>3. ~ Woken(t)'
    <3>1. sendCh[t] \in Seq({Frame, Nil})
      BY DEF TypeOK
    <3>2. CASE sendCh'[t] = sendCh[t]
      BY <1>0, <2>1, <3>2 DEF Woken
    <3>3. CASE sendCh'[t] = offer(sendCh[t], Frame)
      BY <1>0, <2>1, <3>1, <3>3, OfferFrame DEF Woken
    <3>q. QED
      BY <2>2, <3>2, <3>3
  <2>q. QED
    BY <1>0, <2>1, <2>3
<1>10. CASE BrokerQuit
  <2>1. conn[t] = "open" /\ sendCh'[t] = sendCh[t]
    BY <1>10, QuitWakes DEF BrokerQuit, TypeOK
  <2>q. QED
    BY <1>0, <1>10, <2>1 DEF BrokerQuit, Woken
<1>11. CASE Obey \/ Shutdown \/ EngineQuit \/ UNCHANGED vars
  <2>1. UNCHANGED <<pc, reader, writer, conn, sendCh>>
    BY <1>11 DEF Obey, Shutdown, EngineQuit, vars
  <2>q. QED
    BY <1>0, <2>1 DEF Woken
<1>q. QED
  BY <1>1, <1>2, <1>3, <1>4, <1>5, <1>6, <1>7, <1>8, <1>9, <1>10, <1>11
     DEF Next, Handler, Loop

-----------------------------------------------------------------------------
(* A live connection is remembered. *)

LEMMA NextRemembered ==
  TypeOK /\ Ended /\ Remembered /\ [Next]_vars => Remembered'
<1> SUFFICES ASSUME TypeOK, Ended, Remembered, [Next]_vars, OneClientPerIP,
                    NEW t \in Sessions, Registered(t)', conn'[t] = "open"
             PROVE  ipSessionMap'[ipOf[t]] = t
  BY DEF Remembered
<1>0. Registered(t) /\ conn[t] = "open" => ipSessionMap[ipOf[t]] = t
  BY DEF Remembered
<1> USE DEF Goto, Registered, shared
<1>1. ASSUME NEW s \in Sessions, Remember(s) PROVE ipSessionMap'[ipOf[t]] = t
  <2> DEFINE S == {ipSessionMap[ipOf[s]]} \ {None}
  <2>1. S \in SUBSET Sessions /\ Quit(S)
    BY <1>1, SessionsAssumption DEF Remember, TypeOK
  <2>2. conn[t] = "open" /\ t \notin S
    BY <2>1, QuitWakes
  <2>3. t # s => ipSessionMap[ipOf[t]] = t /\ ipOf[t] # ipOf[s]
    BY <1>0, <1>1, <2>2, SessionsAssumption DEF Remember, TypeOK
  <2>q. QED
    BY <1>1, <2>3, SessionsAssumption DEF Remember, TypeOK
<1>2. ASSUME NEW s \in Sessions, Forget(s) PROVE ipSessionMap'[ipOf[t]] = t
  <2>1. conn[s] # "open" /\ conn' = conn
    BY <1>2 DEF Forget, Ended, After
  <2>2. t # s /\ ipSessionMap[ipOf[t]] = t
    BY <1>0, <1>2, <2>1 DEF Forget, TypeOK
  <2>q. QED
    BY <1>2, <2>2, SessionsAssumption DEF Forget, TypeOK
<1>3. ASSUME UNCHANGED ipSessionMap, pc'[t] # pc[t] => Registered(t),
             conn'[t] = conn[t]
      PROVE  ipSessionMap'[ipOf[t]] = t
  BY <1>0, <1>3
<1>4. ASSUME NEW s \in Sessions, \/ Upgrade(s) \/ List(s) \/ LoopEnds(s)
                                 \/ Unlist(s) \/ CloseChannel(s)
      PROVE  ipSessionMap'[ipOf[t]] = t
  <2>1. UNCHANGED <<ipSessionMap, conn>>
    BY <1>4 DEF Upgrade, List, LoopEnds, Unlist, CloseChannel
  <2>2. pc'[t] # pc[t] => Registered(t)
    BY <1>4 DEF Upgrade, List, LoopEnds, Unlist, CloseChannel, TypeOK
  <2>q. QED
    BY <1>3, <2>1, <2>2
<1>5. ASSUME NEW s \in Sessions, QuitSelf(s) PROVE ipSessionMap'[ipOf[t]] = t
  <2>1. conn[t] = "open"
    BY <1>5, QuitWakes DEF QuitSelf
  <2>q. QED
    BY <1>0, <1>5, <2>1 DEF QuitSelf
<1>6. ASSUME NEW s \in Sessions, Drop(s) PROVE ipSessionMap'[ipOf[t]] = t
  <2>1. conn[t] = "open"
    BY <1>6 DEF Drop, TypeOK
  <2>q. QED
    BY <1>0, <1>6, <2>1 DEF Drop
<1>7. ASSUME NEW s \in Sessions,
             Read(s) \/ Deliver(s) \/ ReadFails(s) \/ Send(s) \/ WgDone(s)
      PROVE  ipSessionMap'[ipOf[t]] = t
  BY <1>3, <1>7 DEF Read, Deliver, ReadFails, Send, WgDone
<1>8. CASE Broadcast \/ Obey \/ Shutdown \/ EngineQuit \/ UNCHANGED vars
  BY <1>3, <1>8 DEF Broadcast, Obey, Shutdown, EngineQuit, vars
<1>9. CASE BrokerQuit
  <2>1. conn[t] = "open"
    BY <1>9, QuitWakes DEF BrokerQuit, TypeOK
  <2>q. QED
    BY <1>0, <1>9, <2>1 DEF BrokerQuit
<1>q. QED
  BY <1>1, <1>2, <1>4, <1>5, <1>6, <1>7, <1>8, <1>9 DEF Next, Handler, Loop

LEMMA Inductive ==
  /\ Init => IInv
  /\ IInv /\ [Next]_vars => IInv'
<1>1. ASSUME Init, NEW s \in Sessions
      PROVE  /\ ~ Woken(s) /\ pc[s] \notin After /\ ~ Registered(s)
             /\ reader[s] \notin Ending /\ writer[s] \notin Ending
  <2>1. pc[s] = "new" /\ reader[s] = "off" /\ writer[s] = "off"
    BY <1>1 DEF Init, Start
  <2>2. sendCh[s] = <<>>
    BY <1>1 DEF Init, Start
  <2>q. QED
    BY <2>1, <2>2 DEF Woken, After, Ending, Registered
<1>2. Init => Ended /\ Remembered
  BY <1>1 DEF Ended, Remembered
<1>q. QED
  BY <1>2, InitClosing, InitTypes, NextTypes, NextClosing, NextEnded, NextRemembered DEF IInv

\* The strengthening: nobody is woken or ends before its connection, and the
\* connection an IP is remembered by is the live one.
THEOREM SessionInvariant == Spec => []IInv
BY Inductive, PTL DEF Spec

\* Under the restriction an IP has at most one live connection, for any number
\* of connections registering and unregistering in any order.
THEOREM OnePerIP == Spec => []OneLivePerIP
<1>1. IInv => OneLivePerIP
  <2> SUFFICES ASSUME IInv, OneClientPerIP, NEW s \in Sessions,
                      NEW t \in Sessions, s # t, ipOf[s] = ipOf[t],
                      Registered(s), Registered(t), {conn[s], conn[t]} = {"open"}
               PROVE  FALSE
    BY DEF OneLivePerIP
  <2>1. conn[s] = "open" /\ conn[t] = "open"
    OBVIOUS
  <2>q. QED
    BY <2>1 DEF IInv, Remembered
<1>q. QED
  BY <1>1, SessionInvariant, PTL

-----------------------------------------------------------------------------
(* Who writes to a closed channel. *)

\* A session that only sends has no reader, and its handler waits for the end
\* of its writer: no wait group of it says so too early.
Watching ==
  \A s \in Sessions :
    ~ readEn(s) => /\ reader[s] = "off"
                   /\ pc[s] \in After => writer[s] = "gone"

\* An IP remembers a session of its own.
Origins ==
  \A i \in Ips : ipSessionMap[i] # None => ipOf[ipSessionMap[i]] = i

\* What has panicked had a trusted client.
Blamed == panicked => \E s \in Sessions : readEn(s)

LEMMA NextWatching == TypeOK /\ Watching /\ [Next]_vars => Watching'
<1> SUFFICES ASSUME TypeOK, Watching, [Next]_vars, NEW t \in Sessions,
                    ~ readEn(t)
             PROVE  /\ reader'[t] = "off"
                    /\ pc'[t] \in After => writer'[t] = "gone"
  BY DEF Watching, readEn
<1> DEFINE Still == /\ reader'[t] = "off"
                    /\ pc'[t] \in After => writer'[t] = "gone"
<1>0. reader[t] = "off" /\ (pc[t] \in After => writer[t] = "gone")
  BY DEF Watching
<1> USE DEF TypeOK, Goto, shared, After
<1>1. ASSUME NEW s \in Sessions,
             Upgrade(s) \/ Remember(s) \/ Unlist(s) \/ Forget(s)
                        \/ CloseChannel(s)
      PROVE  Still
  BY <1>0, <1>1 DEF Upgrade, Remember, Unlist, Forget, CloseChannel
<1>2. ASSUME NEW s \in Sessions, List(s) PROVE Still
  BY <1>0, <1>2 DEF List
<1>3. ASSUME NEW s \in Sessions, LoopEnds(s) PROVE Still
  BY <1>0, <1>3 DEF LoopEnds
<1>4. ASSUME NEW s \in Sessions, Read(s) \/ Deliver(s) \/ ReadFails(s)
      PROVE  Still
  BY <1>0, <1>4 DEF Read, Deliver, ReadFails
<1>5. ASSUME NEW s \in Sessions, Send(s) PROVE Still
  BY <1>0, <1>5 DEF Send
<1>6. ASSUME NEW s \in Sessions, WgDone(s) PROVE Still
  BY <1>0, <1>6 DEF WgDone
<1>7. ASSUME NEW s \in Sessions, QuitSelf(s) PROVE Still
  BY <1>0, <1>7 DEF QuitSelf
<1>8. ASSUME UNCHANGED <<pc, reader, writer>> PROVE Still
  BY <1>0, <1>8
<1>9. ASSUME NEW s \in Sessions, Drop(s) PROVE Still
  BY <1>8, <1>9 DEF Drop
<1>10. CASE \/ Broadcast \/ Obey \/ Shutdown \/ BrokerQuit \/ EngineQuit
            \/ UNCHANGED vars
  BY <1>8, <1>10
     DEF Broadcast, Obey, Shutdown, BrokerQuit, EngineQuit, vars
<1>q. QED
  BY <1>1, <1>2, <1>3, <1>4, <1>5, <1>6, <1>7, <1>9, <1>10
     DEF Next, Handler, Loop

LEMMA NextOrigins == TypeOK /\ Origins /\ [Next]_vars => Origins'
<1> SUFFICES ASSUME TypeOK, Origins, [Next]_vars PROVE Origins'
  OBVIOUS
<1> USE SessionsAssumption DEF TypeOK, Origins
<1>1. ASSUME NEW s \in Sessions, Remember(s) PROVE Origins'
  BY <1>1 DEF Remember
<1>2. ASSUME NEW s \in Sessions, Forget(s) PROVE Origins'
  BY <1>2 DEF Forget
<1>3. ASSUME UNCHANGED ipSessionMap PROVE Origins'
  BY <1>3
<1>q. QED
  BY <1>1, <1>2, <1>3
     DEF Next, Handler, Loop, shared, vars, Upgrade, List, LoopEnds, Unlist,
         CloseChannel, Read, Deliver, ReadFails, Send, WgDone, QuitSelf, Drop,
         Broadcast, Obey, Shutdown, BrokerQuit, EngineQuit

\* Everyone but a trusted client's own goroutine quits open channels.
LEMMA Panicking ==
  ASSUME TypeOK, Closing, Watching, Origins, [Next]_vars, panicked',
         ~ panicked
  PROVE  \E s \in Sessions : readEn(s) /\ pc[s] = "done" /\ QuitSelf(s)
<1>1. ASSUME NEW S \in SUBSET Sessions, Quit(S)
      PROVE  \E s \in S : closed[s]
  BY <1>1 DEF Quit
<1>2. \A s \in openWebSessions : ~ closed[s]
  BY DEF TypeOK, Closing
<1>3. ASSUME NEW s \in Sessions, Remember(s) PROVE FALSE
  <2> DEFINE S == IF OneClientPerIP THEN {ipSessionMap[ipOf[s]]} \ {None} ELSE {}
  <2>1. S \in SUBSET Sessions /\ Quit(S)
    BY <1>3, SessionsAssumption DEF Remember, TypeOK
  <2>2. \A r \in S : ipSessionMap[ipOf[r]] = r
    BY SessionsAssumption DEF TypeOK, Origins
  <2>q. QED
    BY <1>1, <2>1, <2>2 DEF Closing
<1>4. CASE Broadcast
  BY <1>2, <1>4 DEF Broadcast
<1>5. CASE BrokerQuit
  BY <1>1, <1>2, <1>5 DEF BrokerQuit, TypeOK
<1>6. ASSUME NEW s \in Sessions, QuitSelf(s)
      PROVE  readEn(s) /\ pc[s] = "done"
  <2>1. closed[s] /\ pc[s] = "done"
    BY <1>1, <1>6 DEF QuitSelf, Closing
  <2>2. ~ readEn(s) => reader[s] = "off" /\ writer[s] = "gone"
    BY <2>1 DEF Watching, After
  <2>q. QED
    BY <1>6, <2>1, <2>2 DEF QuitSelf
<1>7. ASSUME UNCHANGED panicked PROVE FALSE
  BY <1>7
<1>q. QED
  BY <1>3, <1>4, <1>5, <1>6, <1>7
     DEF Next, Handler, Loop, Upgrade, List, LoopEnds, Unlist, Forget,
         CloseChannel, Read, Deliver, ReadFails, Send, WgDone, Drop, Obey,
         Shutdown, EngineQuit, vars

BlameInv == TypeOK /\ Closing /\ Watching /\ Origins /\ Blamed

LEMMA BlameInductive ==
  /\ Init => BlameInv
  /\ BlameInv /\ [Next]_vars => BlameInv'
<1>1. ASSUME Init PROVE Watching /\ Origins /\ Blamed
  <2>1. \A s \in Sessions : reader[s] = "off" /\ pc[s] = "new"
    BY <1>1 DEF Init, Start
  <2>2. Origins /\ Blamed
    BY <1>1 DEF Init, Start, Origins, Blamed
  <2>q. QED
    BY <2>1, <2>2 DEF Watching, After
<1>2. BlameInv /\ [Next]_vars => Blamed'
  <2> SUFFICES ASSUME BlameInv, [Next]_vars, panicked'
               PROVE  \E s \in Sessions : readEn(s)
    BY DEF Blamed, readEn
  <2>1. CASE panicked
    BY <2>1 DEF BlameInv, Blamed
  <2>2. CASE ~ panicked
    BY <2>2, Panicking DEF BlameInv
  <2>q. QED
    BY <2>1, <2>2
<1>q. QED
  BY <1>1, <1>2, InitTypes, InitClosing, NextTypes, NextClosing, NextWatching,
     NextOrigins DEF BlameInv

\* The panic that the code is known to have is the only one: a trusted client's
\* goroutine, in the quit it defers past wg.Done, writes to the channel that
\* its handler has closed by then.  No broadcast, kick or shutdown does so, for
\* any number of connections in any order.
THEOREM PanicsAreOwn == Spec => PanicsInOwnQuit
<1>1. BlameInv /\ [Next]_vars
        => (panicked' => panicked \/ \E s \in Sessions :
                           readEn(s) /\ pc[s] = "done" /\ QuitSelf(s))
  BY Panicking DEF BlameInv
<1>q. QED
  BY <1>1, BlameInductive, PTL DEF Spec, PanicsInOwnQuit

\* A server without trusted clients, to which everyone only listens, never
\* writes to a closed channel.
THEOREM Watchers == Spec => []WatchersNeverPanic
<1>1. BlameInv => WatchersNeverPanic
  BY DEF BlameInv, Blamed, WatchersNeverPanic, NoSendOnClosed
<1>q. QED
  BY <1>1, BlameInductive, PTL DEF Spec
=============================================================================
