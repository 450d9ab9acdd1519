---------------------------- MODULE WebSessions ----------------------------
(***************************************************************************)
(* The websocket side of the server: the handler of each connection        *)
(* (WebSocketHandler), the two goroutines of its loop, the broker that     *)
(* broadcasts the frames, and what they share: openWebSessions, under      *)
(* muOWS, ipSessionMap, under muISM, the sessions' send channels and the   *)
(* channel of the responses.  An action is the code between two points     *)
(* where another goroutine can be seen.  Sending on a closed channel is a  *)
(* panic, which ends the server.                                           *)
(***************************************************************************)
EXTENDS Naturals, Sequences, FiniteSets

CONSTANTS
  Sessions,         \* the connections, each upgraded at most once
  Ips, ipOf,        \* and where they come from
  Trusted,          \* trustedClientIPs
  OneClientPerIP,
  SendCap,          \* of a session's sendCh
  ResponseCap,      \* of responseCh
  None              \* no session

ASSUME SessionsAssumption ==
  /\ IsFiniteSet(Sessions) /\ None \notin Sessions
  /\ ipOf \in [Sessions -> Ips] /\ Trusted \subseteq Ips
  /\ OneClientPerIP \in BOOLEAN
  /\ SendCap \in Nat \ {0} /\ ResponseCap \in Nat \ {0}

VARIABLES
  pc,               \* the handler of each session
  reader, writer,   \* the goroutines of loop
  conn,             \* the connection
  sendCh, closed,   \* the send channel, and whether it is closed
  openWebSessions, ipSessionMap,
  responses,        \* how many messages responseCh holds
  up,               \* which of main's units still run
  panicked

shared == <<openWebSessions, ipSessionMap>>
vars == <<pc, reader, writer, conn, sendCh, closed, shared, responses, up,
          panicked>>

Frame == "frame"
Nil == "nil"

readEn(s) == ipOf[s] \in Trusted

goroutine == {"off", "running", "delivering", "returned", "leaving", "gone"}

TypeOK ==
  /\ pc \in [Sessions -> {"new", "upgraded", "mapped", "looping", "left",
                          "unlisted", "forgotten", "done"}]
  /\ reader \in [Sessions -> goroutine] /\ writer \in [Sessions -> goroutine]
  /\ conn \in [Sessions -> {"open", "dropped", "closed"}]
  /\ sendCh \in [Sessions -> Seq({Frame, Nil})]
  /\ \A s \in Sessions : Len(sendCh[s]) <= SendCap
  /\ closed \in [Sessions -> BOOLEAN]
  /\ openWebSessions \subseteq Sessions
  /\ ipSessionMap \in [Ips -> Sessions \cup {None}]
  /\ responses \in 0 .. ResponseCap
  /\ up \subseteq {"http", "broker", "engine"}
  /\ panicked \in BOOLEAN

\* The server after it has seen some connections come and go.
Start(gone) ==
  /\ pc = [s \in Sessions |-> IF s \in gone THEN "done" ELSE "new"]
  /\ reader = [s \in Sessions |->
                 IF s \in gone /\ readEn(s) THEN "gone" ELSE "off"]
  /\ writer = [s \in Sessions |-> IF s \in gone THEN "gone" ELSE "off"]
  /\ conn = [s \in Sessions |-> IF s \in gone THEN "closed" ELSE "open"]
  /\ sendCh = [s \in Sessions |-> <<>>]
  /\ closed = [s \in Sessions |-> s \in gone]
  /\ openWebSessions = {}
  /\ ipSessionMap = [i \in Ips |-> None]
  /\ responses = 0
  /\ up = {"http", "broker", "engine"}
  /\ panicked = FALSE

Init == Start({})

-----------------------------------------------------------------------------
(* Sending without waiting, and quit. *)

\* A select with a default: a full channel drops the message.
offer(q, msg) == IF Len(q) < SendCap THEN Append(q, msg) ELSE q

\* Mutants of wake: quit only closes the connection; quit adds to a full
\* channel.
wakeNobody(q) == q

wakeUnbounded(q) == Append(q, Nil)

wake(q) == offer(q, Nil)

\* quit() on every session of a set.
Quit(S) ==
  /\ conn' = [s \in Sessions |-> IF s \in S THEN "closed" ELSE conn[s]]
  /\ IF \E s \in S : closed[s]
     THEN panicked' = TRUE /\ UNCHANGED sendCh
     ELSE /\ sendCh' = [s \in Sessions |->
                          IF s \in S THEN wake(sendCh[s]) ELSE sendCh[s]]
          /\ UNCHANGED panicked

-----------------------------------------------------------------------------
(* The handler: register, loop, unregister. *)

Goto(s, from, to) == pc[s] = from /\ pc' = [pc EXCEPT ![s] = to]

Upgrade(s) ==
  /\ "http" \in up /\ Goto(s, "new", "upgraded")
  /\ UNCHANGED <<reader, writer, conn, sendCh, closed, shared, responses, up,
                 panicked>>

\* register, under muISM: kick the session of the same IP.
Remember(s) ==
  /\ Goto(s, "upgraded", "mapped")
  /\ Quit(IF OneClientPerIP THEN {ipSessionMap[ipOf[s]]} \ {None} ELSE {})
  /\ ipSessionMap' = [ipSessionMap EXCEPT ![ipOf[s]] = s]
  /\ UNCHANGED <<reader, writer, closed, openWebSessions, responses, up>>

\* register, under muOWS; then loop starts its goroutines.
List(s) ==
  /\ Goto(s, "mapped", "looping")
  /\ openWebSessions' = openWebSessions \cup {s}
  /\ reader' = [reader EXCEPT ![s] = IF readEn(s) THEN "running" ELSE "off"]
  /\ writer' = [writer EXCEPT ![s] = "running"]
  /\ UNCHANGED <<conn, sendCh, closed, ipSessionMap, responses, up, panicked>>

\* wg.Wait; a session that only sends has no wait group.
LoopEnds(s) ==
  /\ IF readEn(s) THEN {reader[s], writer[s]} \subseteq {"leaving", "gone"}
                  ELSE writer[s] = "gone"
  /\ Goto(s, "looping", "left")
  /\ UNCHANGED <<reader, writer, conn, sendCh, closed, shared, responses, up,
                 panicked>>

\* Mutant of Unlist: the channel is closed before the session is unlisted.
CloseThenUnlist(s) ==
  /\ \/ Goto(s, "left", "left") /\ ~ closed[s] /\ UNCHANGED openWebSessions
     \/ /\ Goto(s, "left", "unlisted") /\ closed[s]
        /\ openWebSessions' = openWebSessions \ {s}
  /\ closed' = [closed EXCEPT ![s] = TRUE]
  /\ UNCHANGED <<reader, writer, conn, sendCh, ipSessionMap, responses, up,
                 panicked>>

\* unregister, under muOWS.
Unlist(s) ==
  /\ Goto(s, "left", "unlisted")
  /\ openWebSessions' = openWebSessions \ {s}
  /\ UNCHANGED <<reader, writer, conn, sendCh, closed, ipSessionMap, responses,
                 up, panicked>>

\* Mutant of Forget: whichever session is remembered is forgotten.
ForgetAny(s) ==
  /\ Goto(s, "unlisted", "forgotten")
  /\ ipSessionMap' = [ipSessionMap EXCEPT ![ipOf[s]] = None]
  /\ UNCHANGED <<reader, writer, conn, sendCh, closed, openWebSessions,
                 responses, up, panicked>>

\* unregister, under muISM.
Forget(s) ==
  /\ Goto(s, "unlisted", "forgotten")
  /\ ipSessionMap' = [ipSessionMap EXCEPT
                        ![ipOf[s]] = IF @ = s THEN None ELSE @]
  /\ UNCHANGED <<reader, writer, conn, sendCh, closed, openWebSessions,
                 responses, up, panicked>>

CloseChannel(s) ==
  /\ Goto(s, "forgotten", "done")
  /\ closed' = [closed EXCEPT ![s] = TRUE]
  /\ UNCHANGED <<reader, writer, conn, sendCh, shared, responses, up, panicked>>

Handler(s) ==
  \/ Remember(s) \/ List(s) \/ LoopEnds(s)
  \/ Unlist(s) \/ Forget(s) \/ CloseChannel(s)

-----------------------------------------------------------------------------
(* The goroutines of loop. *)

\* readLoop: a message of the client, then its delivery to the engine, which
\* blocks while responseCh is full.
Read(s) ==
  /\ reader[s] = "running" /\ conn[s] = "open"
  /\ reader' = [reader EXCEPT ![s] = "delivering"]
  /\ UNCHANGED <<pc, writer, conn, sendCh, closed, shared, responses, up,
                 panicked>>

Deliver(s) ==
  /\ reader[s] = "delivering" /\ responses < ResponseCap
  /\ responses' = responses + 1
  /\ reader' = [reader EXCEPT ![s] = "running"]
  /\ UNCHANGED <<pc, writer, conn, sendCh, closed, shared, up, panicked>>

ReadFails(s) ==
  /\ reader[s] = "running" /\ conn[s] # "open"
  /\ reader' = [reader EXCEPT ![s] = "returned"]
  /\ UNCHANGED <<pc, writer, conn, sendCh, closed, shared, responses, up,
                 panicked>>

\* sendLoop: it returns on nil, and when the write fails; a write to a peer
\* that is gone may still succeed.
Send(s) ==
  /\ writer[s] = "running" /\ sendCh[s] # <<>>
  /\ sendCh' = [sendCh EXCEPT ![s] = Tail(@)]
  /\ \/ /\ Head(sendCh[s]) = Nil \/ conn[s] # "open"
        /\ writer' = [writer EXCEPT ![s] = "returned"]
     \/ /\ Head(sendCh[s]) = Frame /\ conn[s] # "closed"
        /\ UNCHANGED writer
  /\ UNCHANGED <<pc, reader, conn, closed, shared, responses, up, panicked>>

\* The deferred calls run last in, first out: wg.Done, then quit.
WgDone(s) ==
  /\ readEn(s)
  /\ \/ /\ reader[s] = "returned" /\ reader' = [reader EXCEPT ![s] = "leaving"]
        /\ UNCHANGED writer
     \/ /\ writer[s] = "returned" /\ writer' = [writer EXCEPT ![s] = "leaving"]
        /\ UNCHANGED reader
  /\ UNCHANGED <<pc, conn, sendCh, closed, shared, responses, up, panicked>>

QuitSelf(s) ==
  LET last == IF readEn(s) THEN "leaving" ELSE "returned" IN
  /\ \/ /\ reader[s] = last /\ reader' = [reader EXCEPT ![s] = "gone"]
        /\ UNCHANGED writer
     \/ /\ writer[s] = last /\ writer' = [writer EXCEPT ![s] = "gone"]
        /\ UNCHANGED reader
  /\ Quit({s})
  /\ UNCHANGED <<pc, closed, shared, responses, up>>

Loop(s) == Deliver(s) \/ ReadFails(s) \/ Send(s) \/ WgDone(s) \/ QuitSelf(s)

\* The client goes away.
Drop(s) ==
  /\ pc[s] # "new" /\ conn[s] = "open"
  /\ conn' = [conn EXCEPT ![s] = "dropped"]
  /\ UNCHANGED <<pc, reader, writer, sendCh, closed, shared, responses, up,
                 panicked>>

-----------------------------------------------------------------------------
(* The broker, the engine, and main's shutdown. *)

\* A frame for every open session that keeps up, under muOWS.
Broadcast ==
  /\ "broker" \in up
  /\ IF \E s \in openWebSessions : closed[s]
     THEN panicked' = TRUE /\ UNCHANGED sendCh
     ELSE /\ sendCh' = [s \in Sessions |->
                          IF s \in openWebSessions THEN offer(sendCh[s], Frame)
                                                   ELSE sendCh[s]]
          /\ UNCHANGED panicked
  /\ UNCHANGED <<pc, reader, writer, conn, closed, shared, responses, up>>

\* The engine reads a response.
Obey ==
  /\ "engine" \in up /\ responses > 0
  /\ responses' = responses - 1
  /\ UNCHANGED <<pc, reader, writer, conn, sendCh, closed, shared, up, panicked>>

\* server.Shutdown; it does not know of the connections that were upgraded.
Shutdown ==
  /\ "http" \in up /\ up' = up \ {"http"}
  /\ UNCHANGED <<pc, reader, writer, conn, sendCh, closed, shared, responses,
                 panicked>>

BrokerQuit ==
  /\ "http" \notin up /\ "broker" \in up
  /\ up' = up \ {"broker"}
  /\ Quit(openWebSessions)
  /\ UNCHANGED <<pc, reader, writer, closed, shared, responses>>

EngineQuit ==
  /\ "http" \notin up /\ "engine" \in up
  /\ up' = up \ {"engine"}
  /\ UNCHANGED <<pc, reader, writer, conn, sendCh, closed, shared, responses,
                 panicked>>

-----------------------------------------------------------------------------

Next ==
  /\ ~ panicked
  /\ \/ \E s \in Sessions : \/ Upgrade(s) \/ Handler(s)
                            \/ Read(s) \/ Loop(s) \/ Drop(s)
     \/ Broadcast \/ Obey \/ Shutdown \/ BrokerQuit \/ EngineQuit

Spec == Init /\ [][Next]_vars

\* The scheduler is fair to every goroutine, and a channel serves the senders
\* that wait for room first come, first served; nobody has to connect, to
\* send, to leave, or to shut the server down.
Fairness ==
  /\ \A s \in Sessions :
       /\ WF_vars(~ panicked /\ Handler(s))
       /\ SF_vars(~ panicked /\ Deliver(s))
       /\ WF_vars(~ panicked /\ ReadFails(s))
       /\ WF_vars(~ panicked /\ Send(s))
       /\ WF_vars(~ panicked /\ WgDone(s))
       /\ WF_vars(~ panicked /\ QuitSelf(s))
  /\ WF_vars(~ panicked /\ Obey)
  /\ WF_vars(~ panicked /\ BrokerQuit)

FairSpec == Spec /\ Fairness

-----------------------------------------------------------------------------
(* Properties. *)

\* Whoever the broker broadcasts to, or a new connection may kick, still has
\* its channel open: unregister takes a session off both maps, each under its
\* mutex, before it closes the channel.
RegisteredIsOpen ==
  \A s \in Sessions :
    s \in openWebSessions \/ ipSessionMap[ipOf[s]] = s => ~ closed[s]

\* Under the restriction to one client per IP, an IP never has two live
\* connections, whatever order they register and unregister in.
Registered(s) == pc[s] \notin {"new", "upgraded"}

OneLivePerIP ==
  OneClientPerIP =>
    \A s, t \in Sessions :
      /\ s # t /\ ipOf[s] = ipOf[t]
      /\ Registered(s) /\ Registered(t)
      => {conn[s], conn[t]} # {"open"}

\* A session that is told to quit, by a kick, a failure or the broker, ends,
\* even if its channel had no room for the wake-up, as long as the engine
\* takes the message that its reader may be delivering.
QuitEnds ==
  \A s \in Sessions :
    (Registered(s) /\ conn[s] = "closed")
      ~> (pc[s] = "done" \/ panicked \/ "engine" \notin up)

\* No goroutine writes to a closed channel.
NoSendOnClosed == ~ panicked

\* Only a goroutine of a trusted client does, in the quit that it defers until
\* after wg.Done, when the handler that waited for wg.Done has ended: neither a
\* broadcast, nor a kick, nor the broker's shutdown meets a closed channel.
PanicsInOwnQuit ==
  [][panicked' =>
       panicked \/ \E s \in Sessions :
                     readEn(s) /\ pc[s] = "done" /\ QuitSelf(s)]_vars

\* So a server that trusts none of its clients never panics.
WatchersNeverPanic ==
  (\A s \in Sessions : ~ readEn(s)) => NoSendOnClosed

\* Once the broker has quit, every session ends, so that main can return.
ShutdownEnds ==
  \A s \in Sessions :
    (pc[s] # "new" /\ "broker" \notin up)
      ~> (pc[s] = "done" \/ panicked \/ responses = ResponseCap)
=============================================================================
