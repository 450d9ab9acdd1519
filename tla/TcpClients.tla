----------------------------- MODULE TcpClients -----------------------------
(***************************************************************************)
(* The way of a frame to the robots, and the TCP side of the server.  The  *)
(* engine puts its frame on a channel and blocks while that is full; the   *)
(* broker takes it and forwards it without waiting, and only if it finds   *)
(* that NumOpenTCPClients says somebody is there; the send loop writes it  *)
(* to one robot after the other, and a robot that does not read blocks     *)
(* that write.  An accept loop and a read loop for each robot change the   *)
(* counter and then the map of connections, under muTcp; the broker reads  *)
(* the counter and the send loop iterates over the map without it, which   *)
(* for the map Go's runtime may answer with a fatal error.                 *)
(***************************************************************************)
EXTENDS Integers, FiniteSets

CONSTANTS
  Conns,            \* the connections, each accepted at most once
  OutCap,           \* of webOutputCh, 100 in the program
  SendCap,          \* of tcpSendCh
  NoConn            \* no connection is being written to

ASSUME TcpAssumption ==
  /\ IsFiniteSet(Conns) /\ NoConn \notin Conns
  /\ {OutCap, SendCap} \subseteq Nat \ {0}

VARIABLES
  reader,           \* the accept loop's, then the read loop's place with each
  peer,             \* what a read finds, and whether the robot reads
  conns, NumOpenTCPClients,
  output,           \* how many frames webOutputCh holds
  broker,           \* what the broker does next with the frame it took
  frames,           \* how many frames tcpSendCh holds
  sending, todo,    \* the send loop's iteration over conns
  writing,          \* the connection it is writing to
  fatal

sendLoop == <<sending, todo, writing>>
channels == <<output, broker, frames>>
clients == <<reader, peer, conns, NumOpenTCPClients>>
vars == <<clients, channels, sendLoop, fatal>>

TypeOK ==
  /\ reader \in [Conns -> {"new", "entering", "reading", "leaving",
                           "returned", "closing", "gone"}]
  /\ peer \in [Conns -> {"there", "stalled", "reset", "eof"}]
  /\ conns \subseteq Conns /\ todo \subseteq Conns
  /\ NumOpenTCPClients \in Int
  /\ broker \in {"idle", "counting", "sending"}
  /\ output \in 0 .. OutCap /\ frames \in 0 .. SendCap
  /\ writing \in Conns \cup {NoConn}
  /\ {sending, fatal} \subseteq BOOLEAN

Init ==
  /\ reader = [c \in Conns |-> "new"]
  /\ peer = [c \in Conns |-> "there"]
  /\ conns = {} /\ NumOpenTCPClients = 0
  /\ output = 0 /\ broker = "idle" /\ frames = 0
  /\ sending = FALSE /\ todo = {} /\ writing = NoConn
  /\ fatal = FALSE

\* A write to conns while the send loop iterates over it is a data race.
WriteConns(S) ==
  /\ conns' = S
  /\ fatal' \in IF sending THEN BOOLEAN ELSE {FALSE}

Goto(c, from, to) == reader[c] = from /\ reader' = [reader EXCEPT ![c] = to]

\* Who holds muTcp has changed the counter and not yet the map.
Locked == \E c \in Conns : reader[c] \in {"entering", "leaving", "closing"}

Lock(c, from, to) == ~ Locked /\ Goto(c, from, to)

Accept(c) ==
  /\ Lock(c, "new", "entering")
  /\ NumOpenTCPClients' = NumOpenTCPClients + 1
  /\ UNCHANGED <<peer, conns, channels, sendLoop, fatal>>

Enlist(c) ==
  /\ Goto(c, "entering", "reading")
  /\ WriteConns(conns \cup {c})
  /\ UNCHANGED <<peer, NumOpenTCPClients, channels, sendLoop>>

-----------------------------------------------------------------------------
(* tcpReadLoop. *)

\* The message "q" ends the loop; any other only goes to the printer.
ReadKick(c) ==
  /\ peer[c] = "there" /\ Goto(c, "reading", "returned")
  /\ UNCHANGED <<peer, conns, NumOpenTCPClients, channels, sendLoop, fatal>>

\* Mutant of ReadEof: the end of the stream is one more error to retry after.
RetryEof(c) ==
  /\ peer[c] = "eof" /\ Goto(c, "reading", "reading")
  /\ UNCHANGED <<peer, conns, NumOpenTCPClients, channels, sendLoop, fatal>>

ReadEof(c) ==
  /\ peer[c] = "eof" /\ Lock(c, "reading", "leaving")
  /\ NumOpenTCPClients' = NumOpenTCPClients - 1
  /\ UNCHANGED <<peer, conns, channels, sendLoop, fatal>>

\* A reset is logged and the read tried again, which then finds the end of the
\* stream; one that was "forcibly closed" ends the loop.
ReadReset(c) ==
  /\ peer[c] = "reset"
  /\ \/ Goto(c, "reading", "reading") /\ peer' = [peer EXCEPT ![c] = "eof"]
     \/ Goto(c, "reading", "returned") /\ UNCHANGED peer
  /\ UNCHANGED <<conns, NumOpenTCPClients, channels, sendLoop, fatal>>

\* The deferred function, whichever way the loop ended, closes the connection.
Deferred(c) ==
  /\ Lock(c, "returned", "closing")
  /\ NumOpenTCPClients' = NumOpenTCPClients - 1
  /\ UNCHANGED <<peer, conns, channels, sendLoop, fatal>>

\* Mutant of Delist: only the end of the stream takes a connection off the map.
DelistAtEof(c) ==
  /\ \/ Goto(c, "leaving", "returned") /\ WriteConns(conns \ {c})
     \/ Goto(c, "closing", "gone") /\ UNCHANGED <<conns, fatal>>
  /\ UNCHANGED <<peer, NumOpenTCPClients, channels, sendLoop>>

\* Both of them take the connection off the map once it is counted out.
Delist(c) ==
  /\ Goto(c, "leaving", "returned") \/ Goto(c, "closing", "gone")
  /\ WriteConns(conns \ {c})
  /\ UNCHANGED <<peer, NumOpenTCPClients, channels, sendLoop>>

\* The robot closes its end, or crashes.
Leave(c) ==
  /\ reader[c] = "reading" /\ peer[c] \in {"there", "stalled"}
  /\ \E end \in {"eof", "reset"} : peer' = [peer EXCEPT ![c] = end]
  /\ UNCHANGED <<reader, conns, NumOpenTCPClients, channels, sendLoop, fatal>>

\* The robot stops reading, so that its connection fills up, or goes on.
Stall(c) ==
  /\ reader[c] = "reading"
  /\ \E way \in {<<"there", "stalled">>, <<"stalled", "there">>} :
       peer[c] = way[1] /\ peer' = [peer EXCEPT ![c] = way[2]]
  /\ UNCHANGED <<reader, conns, NumOpenTCPClients, channels, sendLoop, fatal>>

-----------------------------------------------------------------------------
(* The engine's and the broker's part of a broadcast, and tcpSendLoop. *)

Emit ==
  /\ output < OutCap /\ output' = output + 1
  /\ UNCHANGED <<clients, broker, frames, sendLoop, fatal>>

\* The broker, once the sessions have the frame (WebSessions), looks at the
\* counter without the lock; what it finds may not hold any more when it sends.
Receive ==
  /\ broker = "idle" /\ output > 0
  /\ output' = output - 1 /\ broker' = "counting"
  /\ UNCHANGED <<clients, frames, sendLoop, fatal>>

CountRobots ==
  /\ broker = "counting"
  /\ broker' = IF NumOpenTCPClients > 0 THEN "sending" ELSE "idle"
  /\ UNCHANGED <<clients, output, frames, sendLoop, fatal>>

\* Mutants of Send: the frame is queued even if the channel is full; the broker
\* waits for room in it.
SendUnbounded ==
  /\ broker = "sending" /\ broker' = "idle"
  /\ frames' = frames + 1
  /\ UNCHANGED <<clients, output, sendLoop, fatal>>

SendWaiting ==
  /\ broker = "sending" /\ broker' = "idle"
  /\ frames < SendCap /\ frames' = frames + 1
  /\ UNCHANGED <<clients, output, sendLoop, fatal>>

Send ==
  /\ broker = "sending" /\ broker' = "idle"
  /\ frames' = IF frames < SendCap THEN frames + 1 ELSE frames
  /\ UNCHANGED <<clients, output, sendLoop, fatal>>

Forward == Receive \/ CountRobots \/ Send

TakeFrame ==
  /\ ~ sending /\ frames > 0
  /\ frames' = frames - 1
  /\ sending' = TRUE /\ todo' = conns
  /\ UNCHANGED <<clients, output, broker, writing, fatal>>

\* The iteration goes on to a connection; it skips what was deleted meanwhile.
NextConn ==
  /\ sending /\ writing = NoConn
  /\ IF todo \cap conns = {}
     THEN sending' = FALSE /\ todo' = {} /\ UNCHANGED writing
     ELSE /\ \E c \in todo \cap conns : writing' = c /\ todo' = todo \ {c}
          /\ UNCHANGED sending
  /\ UNCHANGED <<clients, channels, fatal>>

\* A write ends when the robot reads, or when the connection is broken or closed.
Write ==
  /\ writing # NoConn
  /\ peer[writing] # "stalled" \/ reader[writing] \in {"closing", "gone"}
  /\ writing' = NoConn
  /\ UNCHANGED <<clients, channels, sending, todo, fatal>>

-----------------------------------------------------------------------------

ReadLoop(c) == ReadEof(c) \/ ReadReset(c) \/ Deferred(c) \/ Delist(c)

Next ==
  /\ ~ fatal
  /\ \/ \E c \in Conns : \/ Accept(c) \/ Enlist(c) \/ ReadKick(c) \/ ReadLoop(c)
                         \/ Leave(c) \/ Stall(c)
     \/ Emit \/ Forward \/ TakeFrame \/ NextConn \/ Write

Spec == Init /\ [][Next]_vars

\* Every loop of the server, the engine and the broker are scheduled; robots need
\* not come, talk, read or leave, and so nothing is asked of the send loop.
Fairness ==
  /\ \A c \in Conns : WF_vars(~ fatal /\ (Enlist(c) \/ ReadLoop(c)))
  /\ WF_vars(~ fatal /\ Emit) /\ WF_vars(~ fatal /\ Forward)

FairSpec == Spec /\ Fairness

-----------------------------------------------------------------------------
(* Properties. *)

\* The frames go to exactly the robots that are being read from: no robot is
\* dropped while its read loop runs on, and none stays after it has ended.
SendsToReaders ==
  \A c \in Conns : /\ reader[c] = "reading" => c \in conns
                   /\ reader[c] = "gone" => c \notin conns

\* A robot that goes away is noticed, however its connection ended, and gets
\* no more frames.
LeaversAreDropped ==
  \A c \in Conns : (peer[c] \in {"reset", "eof"}) ~> (c \notin conns \/ fatal)

\* No robot holds the game up: whether it reads its frames or not, the engine
\* gets rid of every frame (unless the race on conns ends the program).
GameGoesOn == []<><<Emit>>_vars \/ <>fatal

\* The counter is the number of open connections, when nobody is changing it.
CountIsOpen == ~ Locked => NumOpenTCPClients = Cardinality(conns)

\* The connections that are open: counted in, and not yet counted out.
Present == {c \in Conns : \/ reader[c] \in {"entering", "reading"}
                         \/ (reader[c] = "returned" /\ c \in conns)}

Gone == {c \in Conns : reader[c] \in {"closing", "gone"}}

\* How far the counter can be off, at any moment: it is never too high, and too
\* low by at most one for each robot that has gone.  While nobody has, it is right.
CountDrift ==
  /\ NumOpenTCPClients <= Cardinality(Present)
  /\ Cardinality(Present) <= NumOpenTCPClients + Cardinality(Gone)

\* The broker decides to forward a frame only while a robot is connected, although
\* it reads, without the lock, a counter that is wrong.  More the code does not
\* promise: when the frame is sent the robot may have left.
ForwardsToSomebody ==
  [][broker = "counting" /\ broker' = "sending" => Present # {}]_vars
=============================================================================
