-------------------------- MODULE TcpClientsProofs --------------------------
(***************************************************************************)
(* For any number of robots and any capacity of the channels: the types,   *)
(* that frames go to exactly the robots that are being read from, and how  *)
(* far the counter can be off that is decremented twice.                   *)
(***************************************************************************)
EXTENDS TcpClients, FiniteSetTheorems, TLAPS

ReaderStates ==
  {"new", "entering", "reading", "leaving", "returned", "closing", "gone"}
PeerStates == {"there", "stalled", "reset", "eof"}

LEMMA GotoType ==
  ASSUME reader \in [Conns -> ReaderStates], NEW c \in Conns,
         NEW from, NEW to \in ReaderStates, Goto(c, from, to)
  PROVE  reader' \in [Conns -> ReaderStates]
BY DEF Goto

LEMMA WriteConnsType ==
  ASSUME fatal \in BOOLEAN, NEW S \in SUBSET Conns, WriteConns(S)
  PROVE  conns' \subseteq Conns /\ fatal' \in BOOLEAN
BY DEF WriteConns

LEMMA InitTypes == Init => TypeOK
<1> SUFFICES ASSUME Init PROVE TypeOK
  OBVIOUS
<1>1. OutCap \in Nat /\ SendCap \in Nat
  BY TcpAssumption
<1>2. output \in 0 .. OutCap /\ frames \in 0 .. SendCap
  BY <1>1 DEF Init
<1>3. /\ reader \in [Conns -> ReaderStates]
      /\ peer \in [Conns -> {"there", "stalled", "reset", "eof"}]
  BY DEF Init, ReaderStates
<1>4. {sending, fatal} \subseteq BOOLEAN
  BY Zenon DEF Init
<1>q. QED
  BY <1>2, <1>3, <1>4 DEF Init, TypeOK, ReaderStates

LEMMA NextTypes == TypeOK /\ [Next]_vars => TypeOK'
<1> SUFFICES ASSUME TypeOK, [Next]_vars PROVE TypeOK'
  OBVIOUS
<1> USE TcpAssumption DEF TypeOK, clients, channels, sendLoop, ReaderStates
<1>1. ASSUME NEW c \in Conns, Accept(c) PROVE TypeOK'
  BY <1>1, GotoType DEF Accept, Lock
<1>2. ASSUME NEW c \in Conns, ReadKick(c) PROVE TypeOK'
  BY <1>2, GotoType DEF ReadKick
<1>3. ASSUME NEW c \in Conns, ReadEof(c) PROVE TypeOK'
  BY <1>3, GotoType DEF ReadEof, Lock
<1>4. ASSUME NEW c \in Conns, ReadReset(c) PROVE TypeOK'
  BY <1>4, GotoType DEF ReadReset
<1>5. ASSUME NEW c \in Conns, Deferred(c) PROVE TypeOK'
  BY <1>5, GotoType DEF Deferred, Lock
<1>14. ASSUME NEW c \in Conns, Enlist(c) PROVE TypeOK'
  BY <1>14, GotoType, WriteConnsType DEF Enlist
<1>15. ASSUME NEW c \in Conns, Delist(c) PROVE TypeOK'
  BY <1>15, GotoType, WriteConnsType DEF Delist
<1>6. ASSUME NEW c \in Conns, Leave(c) PROVE TypeOK'
  BY <1>6 DEF Leave
<1>7. ASSUME NEW c \in Conns, Stall(c) PROVE TypeOK'
  BY <1>7 DEF Stall
<1>8. CASE Emit
  BY <1>8 DEF Emit
<1>9. CASE Forward
  BY <1>9 DEF Forward, Receive, CountRobots, Send
<1>10. CASE TakeFrame
  BY <1>10 DEF TakeFrame
<1>11. CASE NextConn
  BY <1>11 DEF NextConn
<1>12. CASE Write
  BY <1>12 DEF Write
<1>13. CASE UNCHANGED vars
  BY <1>13 DEF vars
<1>q. QED
  BY <1>1, <1>2, <1>3, <1>4, <1>5, <1>6, <1>7, <1>8, <1>9, <1>10, <1>11,
     <1>12, <1>13, <1>14, <1>15 DEF Next, ReadLoop

\* Every variable keeps its type, and the three channels their capacity,
\* for any number of robots and whatever they do.
THEOREM TcpTypes == Spec => []TypeOK
BY InitTypes, NextTypes, PTL DEF Spec

-----------------------------------------------------------------------------

LEMMA NextReaders ==
  TypeOK /\ SendsToReaders /\ [Next]_vars => SendsToReaders'
<1> SUFFICES ASSUME TypeOK, SendsToReaders, [Next]_vars,
                    NEW d \in Conns
             PROVE  /\ reader'[d] = "reading" => d \in conns'
                    /\ reader'[d] = "gone" => d \notin conns'
  BY DEF SendsToReaders
<1> DEFINE Here == /\ reader'[d] = "reading" => d \in conns'
                   /\ reader'[d] = "gone" => d \notin conns'
<1> USE DEF TypeOK, SendsToReaders, Goto, WriteConns
<1>1. ASSUME NEW c \in Conns, Accept(c) \/ Enlist(c) PROVE Here
  BY <1>1 DEF Accept, Enlist, Lock
<1>2. ASSUME NEW c \in Conns, ReadKick(c) PROVE Here
  BY <1>2 DEF ReadKick
<1>3. ASSUME NEW c \in Conns, ReadEof(c) PROVE Here
  BY <1>3 DEF ReadEof, Lock
<1>4. ASSUME NEW c \in Conns, ReadReset(c) PROVE Here
  BY <1>4 DEF ReadReset
<1>5. ASSUME NEW c \in Conns, Deferred(c) \/ Delist(c) PROVE Here
  BY <1>5 DEF Deferred, Delist, Lock
<1>6. ASSUME UNCHANGED <<reader, conns>> PROVE Here
  BY <1>6
<1>7. ASSUME NEW c \in Conns, Leave(c) \/ Stall(c) PROVE Here
  BY <1>6, <1>7 DEF Leave, Stall
<1>8. CASE Emit \/ Forward \/ TakeFrame \/ NextConn \/ Write \/ UNCHANGED vars
  BY <1>6, <1>8
     DEF Emit, Forward, Receive, CountRobots, Send, TakeFrame, NextConn, Write,
         vars, clients
<1>q. QED
  BY <1>1, <1>2, <1>3, <1>4, <1>5, <1>7, <1>8 DEF Next, ReadLoop

\* However connections come, fail and are closed, a robot is in the map that
\* the send loop iterates over while its read loop runs, and no longer when
\* that has ended.
THEOREM Readers == Spec => []SendsToReaders
<1>1. Init => SendsToReaders
  BY DEF Init, SendsToReaders
<1>q. QED
  BY <1>1, InitTypes, NextTypes, NextReaders, PTL DEF Spec

-----------------------------------------------------------------------------
(* How far the counter is off.  The two sides of the drift are about sizes of *)
(* sets that gain or lose one connection at a time.                           *)

CountInv == TypeOK /\ SendsToReaders /\ CountDrift

\* Sizes of a set of connections with one more or less.
LEMMA Sizes ==
  ASSUME NEW S \in SUBSET Conns, NEW c \in Conns
  PROVE  /\ Cardinality(S) \in Nat
         /\ c \notin S => Cardinality(S \cup {c}) = Cardinality(S) + 1
         /\ c \in S => Cardinality(S \ {c}) = Cardinality(S) - 1
<1>1. IsFiniteSet(S)
  BY TcpAssumption, FS_Subset
<1> QED
  BY <1>1, FS_CardinalityType, FS_AddElement, FS_RemoveElement

\* The steps of a connection that move the counter: one is counted in; one that
\* was present is counted out; one that was not present any more is counted out
\* again, but then it is gone.
LEMMA CountSteps ==
  ASSUME CountInv, NEW c \in Conns, Accept(c) \/ ReadEof(c) \/ Deferred(c)
  PROVE  CountDrift'
<1> USE DEF CountInv, Goto, Lock
<1>0. /\ reader \in [Conns -> ReaderStates] /\ NumOpenTCPClients \in Int
      /\ \A d \in Conns : d # c => reader'[d] = reader[d]
      /\ conns' = conns
  BY DEF TypeOK, ReaderStates, Accept, ReadEof, Deferred
<1>1. Present \in SUBSET Conns /\ Gone \in SUBSET Conns
  BY DEF Present, Gone
<1>2. /\ Cardinality(Present) \in Nat /\ Cardinality(Gone) \in Nat
      /\ c \notin Present =>
           Cardinality(Present \cup {c}) = Cardinality(Present) + 1
      /\ c \in Present => Cardinality(Present \ {c}) = Cardinality(Present) - 1
      /\ c \notin Gone => Cardinality(Gone \cup {c}) = Cardinality(Gone) + 1
  BY <1>1, Sizes
<1>3. CASE Accept(c)
  <2>1. /\ reader[c] = "new" /\ reader'[c] = "entering"
        /\ NumOpenTCPClients' = NumOpenTCPClients + 1
    BY <1>0, <1>3 DEF Accept
  <2>2. Present' = Present \cup {c} /\ c \notin Present /\ Gone' = Gone
    BY <1>0, <2>1 DEF Present, Gone
  <2> QED BY <1>0, <1>2, <2>1, <2>2 DEF CountDrift
<1>4. CASE ReadEof(c)
  <2>1. /\ reader[c] = "reading" /\ reader'[c] = "leaving"
        /\ NumOpenTCPClients' = NumOpenTCPClients - 1
    BY <1>0, <1>4 DEF ReadEof
  <2>2. Present' = Present \ {c} /\ c \in Present /\ Gone' = Gone
    BY <1>0, <2>1 DEF Present, Gone
  <2> QED BY <1>0, <1>2, <2>1, <2>2 DEF CountDrift
<1>5. CASE Deferred(c)
  <2>1. /\ reader[c] = "returned" /\ reader'[c] = "closing"
        /\ NumOpenTCPClients' = NumOpenTCPClients - 1
    BY <1>0, <1>5 DEF Deferred
  <2>2. /\ Present' = Present \ {c}
        /\ Gone' = Gone \cup {c} /\ c \notin Gone
    BY <1>0, <2>1 DEF Present, Gone
  <2>3. /\ c \notin Present => Cardinality(Present') = Cardinality(Present)
        /\ c \in Present => Cardinality(Present') = Cardinality(Present) - 1
    <3>1. c \notin Present => Present' = Present
      BY <2>2
    <3> QED BY <1>2, <2>2, <3>1
  <2>4. Cardinality(Gone') = Cardinality(Gone) + 1
    BY <1>2, <2>2
  <2> QED BY <1>0, <1>2, <2>1, <2>3, <2>4 DEF CountDrift
<1> QED BY <1>3, <1>4, <1>5

\* The others leave the counter alone, and nobody comes or goes: a read loop ends
\* with its connection still on the map, or it has been counted out.
LEMMA OtherSteps ==
  ASSUME CountInv, UNCHANGED NumOpenTCPClients,
         reader' \in [Conns -> ReaderStates],
         \A c \in Conns :
           \/ reader'[c] = reader[c] /\ (c \in conns' <=> c \in conns)
           \/ reader[c] = "entering" /\ reader'[c] = "reading"
           \/ reader[c] = "reading" /\ reader'[c] = "returned" /\ c \in conns'
           \/ reader[c] = "leaving" /\ reader'[c] = "returned" /\ c \notin conns'
           \/ reader[c] = "closing" /\ reader'[c] = "gone"
  PROVE  CountDrift'
<1>1. Gone' = Gone
  BY DEF Gone
<1>2. Present' = Present
  BY DEF Present
<1> QED BY <1>1, <1>2 DEF CountInv, CountDrift

LEMMA NextCount == CountInv /\ [Next]_vars => CountDrift'
<1> SUFFICES ASSUME CountInv, [Next]_vars PROVE CountDrift'
  OBVIOUS
<1>1. /\ reader \in [Conns -> ReaderStates] /\ reader' \in [Conns -> ReaderStates]
      /\ conns \subseteq Conns
  BY NextTypes DEF CountInv, TypeOK, ReaderStates
<1>2. ASSUME NEW c \in Conns, ReadKick(c) \/ ReadReset(c) PROVE CountDrift'
  <2>1. /\ UNCHANGED <<conns, NumOpenTCPClients>>
        /\ reader[c] = "reading" /\ c \in conns /\ reader'[c] \in {"reading", "returned"}
        /\ \A d \in Conns : d # c => reader'[d] = reader[d]
    BY <1>1, <1>2 DEF ReadKick, ReadReset, Goto, CountInv, SendsToReaders
  <2> QED BY <1>1, <2>1, OtherSteps
<1>3. ASSUME NEW c \in Conns, Enlist(c) \/ Delist(c) PROVE CountDrift'
  <2>1. /\ UNCHANGED NumOpenTCPClients
        /\ \A d \in Conns : d # c =>
             reader'[d] = reader[d] /\ (d \in conns' <=> d \in conns)
        /\ \/ reader[c] = "entering" /\ reader'[c] = "reading"
           \/ reader[c] = "leaving" /\ reader'[c] = "returned" /\ c \notin conns'
           \/ reader[c] = "closing" /\ reader'[c] = "gone"
    BY <1>1, <1>3 DEF Enlist, Delist, Goto, WriteConns
  <2> QED BY <1>1, <2>1, OtherSteps
<1>4. ASSUME NEW c \in Conns, Leave(c) \/ Stall(c) PROVE CountDrift'
  BY <1>1, <1>4, OtherSteps DEF Leave, Stall
<1>5. CASE Emit \/ Forward \/ TakeFrame \/ NextConn \/ Write \/ UNCHANGED vars
  BY <1>1, <1>5, OtherSteps
     DEF Emit, Forward, Receive, CountRobots, Send, TakeFrame, NextConn, Write,
         vars, clients
<1> QED
  BY <1>2, <1>3, <1>4, <1>5, CountSteps DEF Next, ReadLoop

LEMMA CountInvariant == Spec => []CountInv
<1>1. Init => CountInv
  <2> SUFFICES ASSUME Init PROVE CountInv
    OBVIOUS
  <2>1. Gone = {} /\ Present = {} /\ Cardinality({}) = 0
    BY FS_EmptySet DEF Init, Gone, Present
  <2> QED BY <2>1, InitTypes DEF Init, CountInv, SendsToReaders, CountDrift
<1>2. CountInv /\ [Next]_vars => CountInv'
  BY NextTypes, NextReaders, NextCount DEF CountInv
<1> QED BY <1>1, <1>2, PTL DEF Spec

\* The counter is never above the number of open connections, and below it by
\* at most the robots that have gone, each of which may be counted out twice.
THEOREM Counting == Spec => []CountDrift
<1>1. CountInv => CountDrift
  BY DEF CountInv
<1> QED BY <1>1, CountInvariant, PTL

\* Where a connection is not on the map: before it is put there, and after it was
\* taken off.
Mapped ==
  \A c \in Conns : reader[c] \in {"new", "entering", "gone"} => c \notin conns

\* When nobody holds the lock, the map of connections is what is open: what the
\* drift is measured against is then what the counter is documented to count.
THEOREM OpenIsMapped == Spec => [](~ Locked => Present = conns)
<1>1. CountInv /\ Mapped => (~ Locked => Present = conns)
  BY DEF CountInv, Mapped, SendsToReaders, TypeOK, Locked, Present
<1>2. Init => Mapped
  BY DEF Init, Mapped
<1>3. CountInv /\ Mapped /\ [Next]_vars => Mapped'
  <2> SUFFICES ASSUME CountInv, Mapped, [Next]_vars PROVE Mapped'
    OBVIOUS
  <2> USE DEF CountInv, TypeOK, Mapped, Goto, Lock, WriteConns
  <2>1. ASSUME NEW c \in Conns, Accept(c) \/ Enlist(c) PROVE Mapped'
    BY <2>1 DEF Accept, Enlist
  <2>2. ASSUME NEW c \in Conns, ReadKick(c) \/ ReadEof(c) \/ ReadReset(c) PROVE Mapped'
    BY <2>2 DEF ReadKick, ReadEof, ReadReset
  <2>3. ASSUME NEW c \in Conns, Deferred(c) \/ Delist(c) PROVE Mapped'
    BY <2>3 DEF Deferred, Delist
  <2>4. ASSUME UNCHANGED <<reader, conns>> PROVE Mapped'
    BY <2>4
  <2>5. ASSUME NEW c \in Conns, Leave(c) \/ Stall(c) PROVE Mapped'
    BY <2>4, <2>5 DEF Leave, Stall
  <2>6. CASE Emit \/ Forward \/ TakeFrame \/ NextConn \/ Write \/ UNCHANGED vars
    BY <2>4, <2>6
       DEF Emit, Forward, Receive, CountRobots, Send, TakeFrame, NextConn, Write,
           vars, clients
  <2> QED BY <2>1, <2>2, <2>3, <2>5, <2>6 DEF Next, ReadLoop
<1> QED BY <1>1, <1>2, <1>3, CountInvariant, PTL DEF Spec

\* So the broker never decides to forward a frame when no robot is connected,
\* although it looks without the lock at a counter that may be wrong.
THEOREM Forwarding == Spec => ForwardsToSomebody
<1>1. CountInv /\ [Next]_vars =>
        [broker = "counting" /\ broker' = "sending" => Present # {}]_vars
  <2> SUFFICES ASSUME CountInv, [Next]_vars,
                      broker = "counting", broker' = "sending"
               PROVE  Present # {}
    OBVIOUS
  <2>1. NumOpenTCPClients \in Int
    BY DEF CountInv, TypeOK
  <2>2. CountRobots
    BY DEF Next, Accept, Enlist, ReadKick, ReadLoop, ReadEof, ReadReset, Deferred,
       Delist, Leave, Stall, Emit, Forward, Receive, Send, TakeFrame, NextConn,
       Write, vars, channels
  <2>3. NumOpenTCPClients > 0
    BY <2>2 DEF CountRobots
  <2>4. Cardinality({}) = 0
    BY FS_EmptySet
  <2> QED BY <2>1, <2>3, <2>4 DEF CountInv, CountDrift
<1> QED BY <1>1, CountInvariant, PTL DEF Spec, ForwardsToSomebody
=============================================================================
