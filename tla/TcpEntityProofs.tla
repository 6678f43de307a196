--------------------------- MODULE TcpEntityProofs ---------------------------
(***************************************************************************)
(* Proofs about TcpEntity: its types, the count of queued entries, the     *)
(* wake-up of the sender, the order on the wire, what Stop guarantees, and *)
(* that it implements SendChannel, for any number of threads and packets.  *)
(***************************************************************************)
EXTENDS TcpEntity, FiniteSetTheorems, TLAPS

-----------------------------------------------------------------------------
(* The parts of the inductive invariant.                                   *)

\* The sender has the event's only waiting place: the status is negative
\* exactly while it sleeps with no wake-up handed to it.
EventOfSender ==
  IF senderPC = "asleep"
    THEN \/ event.status = -1 /\ event.sema = 0
         \/ event.status \in {0, 1} /\ event.sema = 1
    ELSE event.status \in {0, 1} /\ event.sema = 0

\* While the sender goes to sleep with no signal to stop it, either there is
\* nothing to send or a producer has yet to signal.
Unsignaled == event.status # 1 /\ event.sema = 0
SleepIsSafe ==
  senderPC \in {"checkWait", "wait", "asleep"} /\ Unsignaled =>
    numQueuedEntries <= 0 \/ \E p \in Producers : producerPC[p] = "signal"

\* The sets that are counted are finite.
Finite == IsFiniteSet(queue) /\ IsFiniteSet(batch)

\* A stopped entity has no sender.
SenderGone == controlPC = "stopped" => senderPC = "done"

\* The packets on their way were sent, and no queued one precedes the one in
\* the hands of the sender.
Sent ==
  /\ \A m \in queue \cup inHand : m[2] <= sent[m[1]]
  /\ \A m \in inHand : m \notin queue /\ \A k \in queue : ~Older(k, m)

\* A written packet precedes those of its producer that are on their way.
WrittenFirst ==
  \A i \in 1 .. Len(wire) :
    /\ wire[i][2] <= sent[wire[i][1]]
    /\ \A k \in queue \cup inHand : wire[i][1] = k[1] => wire[i][2] < k[2]

-----------------------------------------------------------------------------
(* Types.                                                                  *)

USE TcpEntityAssumption DEF TcpEntityAssumption

LEMMA SignalType == \A e \in Events : Signal(e) \in Events
  BY DEF Events, Signal

LEMMA ArriveType == \A e \in Events : Arrive(e) \in Events
  BY DEF Events, Arrive

LEMMA WakeType == \A e \in Events : CanWake(e) => Wake(e) \in Events
  BY DEF Events, Wake, CanWake

LEMMA TypeInit == Init => TypeOK
<1> SUFFICES ASSUME Init PROVE TypeOK
  OBVIOUS
<1>1. event \in Events /\ wire \in Seq(Packets) /\ numQueuedEntries \in Int
  BY DEF Init, NewEvent, Events
<1>2. /\ sent \in [Producers -> 0 .. MaxSends]
      /\ producerPC \in [Producers -> {"idle", "count", "signal"}]
  BY DEF Init
<1>3. /\ senderPC \in SenderPCs /\ senderPC \notin {"count", "write"}
      /\ controlPC \in ControlPCs
  BY DEF Init, SenderPCs, ControlPCs
<1>4. flushRequested \in BOOLEAN /\ exitRequested \in BOOLEAN /\ socketOpen \in BOOLEAN
  BY DEF Init
<1>5. /\ queue \subseteq Packets /\ inHand \subseteq Packets /\ batch \subseteq Packets
      /\ dropped \subseteq Packets /\ flushed \subseteq Packets
      /\ inHand = {} /\ batch = {}
  BY DEF Init
<1>6. QED
  BY <1>1, <1>2, <1>3, <1>4, <1>5 DEF TypeOK

LEMMA TypeStep == TypeOK /\ Finite /\ [Next]_vars => TypeOK'
<1> SUFFICES ASSUME TypeOK, Finite, [Next]_vars PROVE TypeOK'
  OBVIOUS
<1>1. CASE UNCHANGED vars
  BY <1>1 DEF TypeOK, vars, threadVars
<1>2. ASSUME NEW p \in Producers, SendMsg(p) PROVE TypeOK'
  <2>1. CASE Enqueue(p)
    <3>1. <<p, sent[p] + 1>> \in Packets
      BY <2>1 DEF Enqueue, TypeOK, Packets
    <3>2. sent' \in [Producers -> 0 .. MaxSends]
      BY <2>1 DEF Enqueue, TypeOK
    <3>3. producerPC' \in [Producers -> {"idle", "count", "signal"}]
      BY <2>1 DEF Enqueue, TypeOK
    <3>4. QED
      BY <2>1, <3>1, <3>2, <3>3 DEF Enqueue, TypeOK
  <2>2. CASE Count(p)
    BY <2>2 DEF Count, TypeOK
  <2>3. CASE SignalSender(p)
    BY <2>3, SignalType DEF SignalSender, TypeOK
  <2>4. QED
    BY <1>2, <2>1, <2>2, <2>3 DEF SendMsg
<1>3. CASE SendData
  <2>1. CASE OuterLoop \/ WaitLoop \/ SendLoop
    BY <2>1 DEF OuterLoop, WaitLoop, SendLoop, SenderTests, SenderGoes,
                SenderKeeps, TypeOK, SenderPCs
  <2>2. CASE WaitArrive
    BY <2>2, ArriveType DEF WaitArrive, SenderGoes, SenderKeeps, TypeOK, SenderPCs
  <2>3. CASE WaitWake
    BY <2>3, WakeType DEF WaitWake, SenderGoes, SenderKeeps, TypeOK, SenderPCs
  <2>4. CASE Dequeue
    BY <2>4 DEF Dequeue, SenderGoes, SenderKeeps, TypeOK, SenderPCs
  <2>5. CASE CountDown
    BY <2>5 DEF CountDown, SenderGoes, SenderKeeps, TypeOK, SenderPCs
  <2>6. CASE Write
    <3> PICK m \in Packets : inHand = {m}
      BY <2>6 DEF Write, SenderGoes, TypeOK
    <3>1. wire' \in Seq(Packets)
      <4>1. wire' = Append(wire, m) \/ wire' = wire
        BY <2>6 DEF Write
      <4>2. QED
        BY <4>1 DEF TypeOK
    <3>2. dropped' \subseteq Packets
      BY <2>6 DEF Write, TypeOK
    <3>3. QED
      BY <2>6, <3>1, <3>2 DEF Write, SenderGoes, SenderKeeps, TypeOK, SenderPCs
  <2>7. QED
    BY <1>3, <2>1, <2>2, <2>3, <2>4, <2>5, <2>6 DEF SendData
<1>4. CASE FlushBegin \/ FlushEnd \/ StopBegin \/ StopJoin
  BY <1>4 DEF FlushBegin, FlushEnd, StopBegin, StopJoin, ControlGoes,
              ControlKeeps, TypeOK, ControlPCs
<1>5. CASE FlushSignal \/ StopSignal
  BY <1>5, SignalType DEF FlushSignal, StopSignal, ControlGoes, ControlKeeps,
                          TypeOK, ControlPCs
<1>6. CASE FlushDequeue
  BY <1>6 DEF FlushDequeue, ControlKeeps, TypeOK, ControlPCs
<1>7. CASE FlushCount
  <2>1. Cardinality(batch) \in Int
    BY FS_CardinalityType DEF Finite
  <2>2. QED
    BY <1>7, <2>1 DEF FlushCount, ControlGoes, ControlKeeps, TypeOK, ControlPCs
<1>8. CASE PeerChanges
  BY <1>8 DEF PeerChanges, threadVars, TypeOK
<1>9. QED
  BY <1>1, <1>2, <1>3, <1>4, <1>5, <1>6, <1>7, <1>8 DEF Next, FlushSendQueue, Stop

-----------------------------------------------------------------------------
(* The packets on their way.                                               *)

LEMMA FiniteStep == TypeOK /\ Finite /\ [Next]_vars => Finite'
<1> SUFFICES ASSUME TypeOK, Finite, [Next]_vars PROVE Finite'
  OBVIOUS
<1>1. ASSUME NEW p \in Producers, Enqueue(p) PROVE Finite'
  BY <1>1, FS_AddElement DEF Enqueue, Finite
<1>2. CASE Dequeue
  <2>1. PICK m \in queue : queue' = queue \ {m}
    BY <1>2 DEF Dequeue
  <2>2. batch' = batch
    BY <1>2 DEF Dequeue, SenderKeeps
  <2>3. QED
    BY <2>1, <2>2, FS_RemoveElement DEF Finite
<1>3. CASE FlushDequeue
  <2>1. CASE UNCHANGED <<queue, batch>>
    BY <2>1 DEF Finite
  <2>2. ASSUME NEW S \in SUBSET queue, batch' = S, queue' = queue \ S PROVE Finite'
    <3>1. queue \ S \in SUBSET queue
      OBVIOUS
    <3>2. IsFiniteSet(S) /\ IsFiniteSet(queue \ S)
      BY <3>1, FS_Subset DEF Finite
    <3>3. QED
      BY <2>2, <3>2 DEF Finite
  <2>3. QED
    BY <1>3, <2>1, <2>2 DEF FlushDequeue
<1>4. CASE FlushCount
  BY <1>4, FS_EmptySet DEF FlushCount, Finite
<1>5. CASE UNCHANGED <<queue, batch>>
  BY <1>5 DEF Finite
<1>6. (\A p \in Producers : ~Enqueue(p)) /\ ~Dequeue /\ ~FlushDequeue /\ ~FlushCount
      => UNCHANGED <<queue, batch>>
  BY DEF Next, vars, threadVars, SendMsg, Count, SignalSender, SendData,
         OuterLoop, WaitLoop, SendLoop, SenderTests, SenderKeeps, WaitArrive,
         WaitWake, CountDown, Write, FlushSendQueue, FlushBegin, FlushEnd,
         FlushSignal, Stop, StopBegin, StopSignal, StopJoin, PeerChanges
<1>7. QED
  BY <1>1, <1>2, <1>3, <1>4, <1>5, <1>6

\* What a step does to the packets on their way, and to the wire.
LEMMA OnTheirWay ==
  ASSUME TypeOK, [Next]_vars
  PROVE  \/ \E p \in Producers : Enqueue(p)
         \/ Dequeue
         \/ Write
         \/ FlushDequeue
         \/ UNCHANGED <<queue, inHand, sent, wire>>
<1> USE DEF Next, vars, threadVars
<1>1. ASSUME NEW p \in Producers, SendMsg(p)
      PROVE  Enqueue(p) \/ UNCHANGED <<queue, inHand, sent, wire>>
  BY <1>1 DEF SendMsg, Count, SignalSender
<1>2. CASE SendData
  BY <1>2 DEF SendData, OuterLoop, WaitLoop, SendLoop, SenderTests,
              SenderKeeps, WaitArrive, WaitWake, CountDown
<1>3. CASE FlushBegin \/ FlushSendQueue \/ StopBegin \/ Stop
  BY <1>3 DEF ControlKeeps, FlushSendQueue, FlushBegin, FlushCount, FlushEnd,
              FlushSignal, Stop, StopBegin, StopSignal, StopJoin
<1>4. CASE PeerChanges
  BY <1>4 DEF PeerChanges
<1>5. QED
  BY <1>1, <1>2, <1>3, <1>4

\* A new packet is the youngest of its producer.
LEMMA NewPacket ==
  ASSUME TypeOK, Sent, NEW p \in Producers, Enqueue(p)
  PROVE  /\ <<p, sent[p] + 1>> \notin queue \cup inHand
         /\ \A m \in queue \cup inHand : ~Older(<<p, sent[p] + 1>>, m)
<1> SUFFICES ASSUME NEW m \in queue \cup inHand
             PROVE  m # <<p, sent[p] + 1>> /\ ~Older(<<p, sent[p] + 1>>, m)
  OBVIOUS
<1>1. m[1] \in Producers /\ m[2] \in Nat /\ m[2] <= sent[m[1]] /\ sent[p] \in Nat
  BY DEF Sent, TypeOK, Packets
<1>2. m[1] = p => m[2] # sent[p] + 1 /\ ~(sent[p] + 1 < m[2])
  BY <1>1
<1>3. QED
  BY <1>2 DEF Older

LEMMA SentStep == TypeOK /\ Sent /\ [Next]_vars => Sent'
<1> SUFFICES ASSUME TypeOK, Sent, [Next]_vars PROVE Sent'
  OBVIOUS
<1>1. ASSUME NEW p \in Producers, Enqueue(p) PROVE Sent'
  <2> DEFINE new == <<p, sent[p] + 1>>
  <2>1. queue' = queue \cup {new} /\ inHand' = inHand
    BY <1>1 DEF Enqueue
  <2>2. \A q \in Producers : sent[q] \in Nat /\ sent'[q] \in Nat /\ sent[q] <= sent'[q]
    BY <1>1 DEF Enqueue, TypeOK
  <2>3. sent'[p] = sent[p] + 1
    BY <1>1 DEF Enqueue, TypeOK
  <2>4. ASSUME NEW m \in queue \cup inHand PROVE m[2] <= sent'[m[1]]
    <3>1. m[1] \in Producers /\ m[2] \in Nat /\ m[2] <= sent[m[1]]
      BY DEF Sent, TypeOK, Packets
    <3>2. QED
      BY <2>2, <3>1
  <2>5. new[2] <= sent'[new[1]]
    BY <2>2, <2>3
  <2>6. QED
    BY <1>1, <2>1, <2>4, <2>5, NewPacket DEF Sent
<1>2. CASE Dequeue
  <2>1. PICK m \in queue : /\ Oldest(m)
                           /\ queue' = queue \ {m} /\ inHand' = {m}
    BY <1>2 DEF Dequeue
  <2>2. sent' = sent
    BY <1>2 DEF Dequeue, SenderKeeps
  <2>3. QED
    BY <2>1, <2>2 DEF Sent, Oldest
<1>3. CASE Write
  BY <1>3 DEF Write, SenderKeeps, Sent
<1>4. CASE FlushDequeue
  BY <1>4 DEF FlushDequeue, ControlKeeps, Sent
<1>5. CASE UNCHANGED <<queue, inHand, sent, wire>>
  BY <1>5 DEF Sent
<1>6. QED
  BY <1>1, <1>2, <1>3, <1>4, <1>5, OnTheirWay

-----------------------------------------------------------------------------
(* The count of queued entries.                                            *)

Counting == {p \in Producers : producerPC[p] = "count"}

LEMMA CountingFinite == IsFiniteSet(Counting) /\ IsFiniteSet(Counting')
<1>1. Counting \in SUBSET Producers /\ Counting' \in SUBSET Producers
  BY DEF Counting
<1>2. QED
  BY <1>1, FS_Subset

\* Taking a part of the queue takes its size off the queue's.
LEMMA QueueSplit ==
  ASSUME NEW Q, IsFiniteSet(Q), NEW S \in SUBSET Q
  PROVE  /\ Cardinality(Q) = Cardinality(Q \ S) + Cardinality(S)
         /\ Cardinality(Q \ S) \in Nat /\ Cardinality(S) \in Nat
<1>1. IsFiniteSet(S) /\ IsFiniteSet(Q \ S)
  <2>1. Q \ S \in SUBSET Q
    OBVIOUS
  <2>2. QED
    BY <2>1, FS_Subset
<1>2. (Q \ S) \cup S = Q /\ (Q \ S) \cap S = {}
  OBVIOUS
<1>3. Cardinality(Q) = Cardinality(Q \ S) + Cardinality(S) - Cardinality({})
  BY <1>1, <1>2, FS_Union
<1>4. Cardinality(Q \ S) \in Nat /\ Cardinality(S) \in Nat
  BY <1>1, FS_CardinalityType
<1>5. QED
  BY <1>3, <1>4, FS_EmptySet

LEMMA CountStep ==
  TypeOK /\ Finite /\ Sent /\ CountAccurate /\ [Next]_vars => CountAccurate'
<1> SUFFICES ASSUME TypeOK, Finite, Sent, CountAccurate, [Next]_vars
             PROVE  CountAccurate'
  OBVIOUS
<1> DEFINE held == IF senderPC = "count" THEN 1 ELSE 0
<1>1. /\ numQueuedEntries = Cardinality(queue) - Cardinality(Counting) + held
                             + Cardinality(batch)
      /\ Cardinality(queue) \in Nat /\ Cardinality(Counting) \in Nat
      /\ Cardinality(batch) \in Nat /\ held \in Int
  BY CountingFinite, FS_CardinalityType DEF CountAccurate, Counting, Finite
<1> DEFINE Goal == numQueuedEntries' = Cardinality(queue') - Cardinality(Counting')
                                         + held' + Cardinality(batch')
<1>2. SUFFICES Goal
  BY DEF CountAccurate, Counting
<1>3. ASSUME NEW p \in Producers, Enqueue(p) PROVE Goal
  <2> DEFINE new == <<p, sent[p] + 1>>
  <2>1. queue' = queue \cup {new} /\ new \notin queue
    BY <1>3, NewPacket DEF Enqueue
  <2>2. Cardinality(queue') = Cardinality(queue) + 1
    BY <2>1, FS_AddElement DEF Finite
  <2>3. Counting' = Counting \cup {p} /\ p \notin Counting
    BY <1>3 DEF Enqueue, Counting, TypeOK
  <2>4. Cardinality(Counting') = Cardinality(Counting) + 1
    BY <2>3, CountingFinite, FS_AddElement
  <2>5. QED
    BY <1>1, <1>3, <2>2, <2>4 DEF Enqueue
<1>4. ASSUME NEW p \in Producers, Count(p) PROVE Goal
  <2>1. Counting' = Counting \ {p} /\ p \in Counting
    BY <1>4 DEF Count, Counting, TypeOK
  <2>2. Cardinality(Counting') = Cardinality(Counting) - 1
    BY <2>1, CountingFinite, FS_RemoveElement
  <2>3. QED
    BY <1>1, <1>4, <2>2 DEF Count
<1>5. ASSUME NEW p \in Producers, SignalSender(p) PROVE Goal
  <2>1. Counting' = Counting
    BY <1>5 DEF SignalSender, Counting, TypeOK
  <2>2. QED
    BY <1>1, <1>5, <2>1 DEF SignalSender
<1>6. CASE Dequeue
  <2>1. PICK m \in queue : queue' = queue \ {m}
    BY <1>6 DEF Dequeue
  <2>2. Cardinality(queue') = Cardinality(queue) - 1
    BY <2>1, FS_RemoveElement DEF Finite
  <2>3. Counting' = Counting
    BY <1>6 DEF Dequeue, SenderKeeps, Counting
  <2>4. QED
    BY <1>1, <1>6, <2>2, <2>3 DEF Dequeue, SenderGoes, SenderKeeps
<1>7. CASE CountDown
  <2>1. Counting' = Counting
    BY <1>7 DEF CountDown, SenderKeeps, Counting
  <2>2. QED
    BY <1>1, <1>7, <2>1 DEF CountDown, SenderGoes, SenderKeeps
<1>8. CASE FlushDequeue /\ ~UNCHANGED <<queue, batch>>
  <2>1. PICK S \in SUBSET queue : batch' = S /\ queue' = queue \ S
    BY <1>8 DEF FlushDequeue
  <2>2. Cardinality(queue) = Cardinality(queue') + Cardinality(batch')
        /\ Cardinality(queue') \in Nat /\ Cardinality(batch') \in Nat
    BY <2>1, QueueSplit DEF Finite
  <2>3. batch = {} /\ Cardinality(batch) = 0
    BY <1>8, FS_EmptySet DEF FlushDequeue, TypeOK
  <2>4. Counting' = Counting /\ held' = held /\ numQueuedEntries' = numQueuedEntries
    BY <1>8 DEF FlushDequeue, ControlKeeps, Counting
  <2>5. numQueuedEntries = Cardinality(queue') + Cardinality(batch')
                             - Cardinality(Counting) + held
    BY <1>1, <2>2, <2>3
  <2>6. QED
    BY <1>1, <2>2, <2>4, <2>5
<1>9. CASE FlushCount
  <2>1. Counting' = Counting /\ held' = held /\ queue' = queue
    BY <1>9 DEF FlushCount, ControlKeeps, Counting
  <2>2. Cardinality(batch') = 0
    BY <1>9, FS_EmptySet DEF FlushCount
  <2>3. numQueuedEntries' = numQueuedEntries - Cardinality(batch)
    BY <1>9 DEF FlushCount
  <2>4. QED
    BY <1>1, <2>1, <2>2, <2>3
<1>10. CASE UNCHANGED <<queue, numQueuedEntries, batch, producerPC>> /\ held' = held
  BY <1>1, <1>10 DEF Counting
<1>11. QED
  <2>1. ASSUME NEW p \in Producers, SendMsg(p) PROVE Goal
    BY <1>3, <1>4, <1>5, <2>1 DEF SendMsg
  <2>2. CASE SendData
    BY <1>6, <1>7, <1>10, <2>2
       DEF SendData, OuterLoop, WaitLoop, SendLoop, SenderTests, SenderGoes,
           SenderKeeps, WaitArrive, WaitWake, Write
  <2>3. CASE FlushDequeue
    BY <1>8, <1>10, <2>3 DEF FlushDequeue, ControlKeeps
  <2>4. CASE FlushBegin \/ FlushEnd \/ FlushSignal \/ StopBegin \/ Stop
    BY <1>10, <2>4 DEF FlushBegin, FlushEnd, FlushSignal, StopBegin, Stop,
                       StopSignal, StopJoin, ControlKeeps
  <2>5. CASE PeerChanges \/ UNCHANGED vars
    BY <1>10, <2>5 DEF PeerChanges, vars, threadVars
  <2>6. QED
    BY <1>9, <2>1, <2>2, <2>3, <2>4, <2>5 DEF Next, FlushSendQueue

-----------------------------------------------------------------------------
(* The event, and the sleep of the sender.                                 *)

LEMMA EventStep == TypeOK /\ EventOfSender /\ [Next]_vars => EventOfSender'
<1> SUFFICES ASSUME TypeOK, EventOfSender, [Next]_vars PROVE EventOfSender'
  OBVIOUS
<1> USE DEF EventOfSender
<1>1. ASSUME event' = Signal(event), senderPC' = senderPC PROVE EventOfSender'
  BY <1>1 DEF Signal, TypeOK, Events
<1>2. ASSUME NEW p \in Producers, SendMsg(p) PROVE EventOfSender'
  BY <1>1, <1>2 DEF SendMsg, Enqueue, Count, SignalSender
<1>3. CASE WaitArrive
  BY <1>3 DEF WaitArrive, SenderGoes, Signaled, Arrive, TypeOK, Events
<1>4. CASE WaitWake
  BY <1>4 DEF WaitWake, SenderGoes, CanWake, Wake, TypeOK, Events
<1>5. CASE SendData /\ ~WaitArrive /\ ~WaitWake
  BY <1>5 DEF SendData, OuterLoop, WaitLoop, SendLoop, SenderTests, SenderGoes,
              Dequeue, CountDown, Write
<1>6. CASE FlushSignal \/ StopSignal
  BY <1>1, <1>6 DEF FlushSignal, StopSignal, ControlKeeps
<1>7. CASE \/ FlushBegin \/ FlushDequeue \/ FlushCount \/ FlushEnd
           \/ StopBegin \/ StopJoin \/ PeerChanges \/ UNCHANGED vars
  BY <1>7 DEF FlushBegin, FlushDequeue, FlushCount, FlushEnd, StopBegin,
              StopJoin, ControlKeeps, PeerChanges, vars, threadVars
<1>8. QED
  BY <1>2, <1>3, <1>4, <1>5, <1>6, <1>7 DEF Next, FlushSendQueue, Stop

LEMMA SleepStep ==
  TypeOK /\ Finite /\ EventOfSender /\ SleepIsSafe /\ [Next]_vars => SleepIsSafe'
<1> SUFFICES ASSUME TypeOK, Finite, EventOfSender, SleepIsSafe, [Next]_vars
             PROVE  SleepIsSafe'
  OBVIOUS
<1> USE DEF SleepIsSafe, Unsignaled
<1>1. ASSUME event' = Signal(event) PROVE ~Unsignaled'
  BY <1>1 DEF Signal, EventOfSender, TypeOK, Events
<1>2. ASSUME NEW p \in Producers, SendMsg(p) PROVE SleepIsSafe'
  <2>1. CASE Enqueue(p)
    BY <2>1 DEF Enqueue, TypeOK
  <2>2. CASE Count(p)
    BY <2>2 DEF Count, TypeOK
  <2>3. CASE SignalSender(p)
    BY <1>1, <2>3 DEF SignalSender
  <2>4. QED
    BY <1>2, <2>1, <2>2, <2>3 DEF SendMsg
<1>3. CASE OuterLoop \/ WaitLoop \/ SendLoop
  BY <1>3 DEF OuterLoop, WaitLoop, SendLoop, SenderTests, SenderGoes,
              SenderKeeps, TypeOK
<1>4. CASE WaitArrive
  <2>1. CASE Signaled(event)
    BY <1>4, <2>1 DEF WaitArrive, SenderGoes
  <2>2. CASE ~Signaled(event)
    <3>1. Unsignaled /\ senderPC = "wait"
      BY <1>4, <2>2 DEF WaitArrive, SenderGoes, Signaled, EventOfSender
    <3>2. QED
      BY <1>4, <3>1 DEF WaitArrive, SenderKeeps
  <2>3. QED
    BY <2>1, <2>2
<1>5. CASE WaitWake \/ Dequeue \/ CountDown \/ Write
  BY <1>5 DEF WaitWake, Dequeue, CountDown, Write, SenderGoes
<1>6. CASE FlushCount
  <2>1. Cardinality(batch) \in Nat
    BY FS_CardinalityType DEF Finite
  <2>2. numQueuedEntries <= 0 => numQueuedEntries' <= 0
    BY <1>6, <2>1 DEF FlushCount, TypeOK
  <2>3. QED
    BY <1>6, <2>2 DEF FlushCount, ControlKeeps
<1>7. CASE FlushSignal \/ StopSignal
  BY <1>1, <1>7 DEF FlushSignal, StopSignal
<1>8. CASE \/ FlushBegin \/ FlushDequeue \/ FlushEnd
           \/ StopBegin \/ StopJoin \/ PeerChanges \/ UNCHANGED vars
  BY <1>8 DEF FlushBegin, FlushDequeue, FlushEnd, StopBegin, StopJoin,
              ControlKeeps, PeerChanges, vars, threadVars
<1>9. QED
  BY <1>2, <1>3, <1>4, <1>5, <1>6, <1>7, <1>8 DEF Next, SendData, FlushSendQueue, Stop

LEMMA GoneStep == SenderGone /\ [Next]_vars => SenderGone'
<1> SUFFICES ASSUME SenderGone, [Next]_vars PROVE SenderGone'
  OBVIOUS
<1>1. ASSUME NEW p \in Producers, SendMsg(p) PROVE SenderGone'
  BY <1>1 DEF SendMsg, Enqueue, Count, SignalSender, SenderGone
<1>2. CASE SendData
  BY <1>2 DEF SendData, OuterLoop, WaitLoop, SendLoop, SenderTests, SenderGoes,
              SenderKeeps, WaitArrive, WaitWake, Dequeue, CountDown, Write, SenderGone
<1>3. CASE FlushBegin \/ FlushSendQueue \/ StopBegin \/ Stop
  BY <1>3 DEF FlushBegin, FlushSendQueue, FlushDequeue, FlushCount, FlushEnd,
              FlushSignal, StopBegin, Stop, StopSignal, StopJoin, ControlGoes,
              ControlKeeps, SenderGone
<1>4. CASE PeerChanges \/ UNCHANGED vars
  BY <1>4 DEF PeerChanges, vars, threadVars, SenderGone
<1>5. QED
  BY <1>1, <1>2, <1>3, <1>4 DEF Next

-----------------------------------------------------------------------------
(* The order on the wire.                                                  *)

\* Write appends the packet that the sender holds, or nothing.
LEMMA WriteAppends ==
  ASSUME TypeOK, Write
  PROVE  \E m \in Packets :
           /\ inHand = {m} /\ inHand' = {} /\ queue' = queue /\ sent' = sent
           /\ \/ socketOpen /\ wire' = Append(wire, m) /\ dropped' = dropped
              \/ ~socketOpen /\ wire' = wire /\ dropped' = dropped \cup {m}
<1>1. PICK m \in Packets : inHand = {m}
  BY DEF Write, SenderGoes, TypeOK
<1>2. QED
  BY <1>1 DEF Write, SenderKeeps

LEMMA OrderStep ==
  TypeOK /\ Sent /\ WrittenFirst /\ WireInOrder /\ [Next]_vars
    => WrittenFirst' /\ WireInOrder'
<1> SUFFICES ASSUME TypeOK, Sent, WrittenFirst, WireInOrder, [Next]_vars
             PROVE  WrittenFirst' /\ WireInOrder'
  OBVIOUS
<1>1. \A i \in 1 .. Len(wire) : wire[i][1] \in Producers /\ wire[i][2] \in Nat
  <2>1. \A i \in 1 .. Len(wire) : wire[i] \in Packets
    <3>1. wire \in Seq(Packets)
      BY DEF TypeOK
    <3>2. QED
      BY ONLY <3>1
  <2>2. \A m \in Packets : m[1] \in Producers /\ m[2] \in Nat
    BY DEF Packets
  <2>3. QED
    BY ONLY <2>1, <2>2
<1>2. Len(wire) \in Nat
  BY DEF TypeOK
<1>3. ASSUME NEW p \in Producers, Enqueue(p) PROVE WrittenFirst' /\ WireInOrder'
  <2> DEFINE new == <<p, sent[p] + 1>>
  <2>1. /\ queue' = queue \cup {new} /\ inHand' = inHand /\ wire' = wire
        /\ sent'[p] = sent[p] + 1
        /\ \A q \in Producers : sent[q] \in Nat /\ sent'[q] \in Nat
                               /\ sent[q] <= sent'[q]
    BY <1>3 DEF Enqueue, TypeOK
  <2>2. ASSUME NEW i \in 1 .. Len(wire)
        PROVE  /\ wire[i][2] <= sent'[wire[i][1]]
               /\ wire[i][1] = new[1] => wire[i][2] < new[2]
    BY <1>1, <2>1, <2>2 DEF WrittenFirst
  <2>3. QED
    BY <2>1, <2>2 DEF WrittenFirst, WireInOrder
<1>4. CASE Dequeue
  <2>1. /\ queue' \cup inHand' \subseteq queue \cup inHand
        /\ wire' = wire /\ sent' = sent
    BY <1>4 DEF Dequeue, SenderKeeps
  <2>2. QED
    BY <2>1 DEF WrittenFirst, WireInOrder
<1>5. CASE Write
  <2>1. PICK m \in Packets :
           /\ inHand = {m} /\ inHand' = {} /\ queue' = queue /\ sent' = sent
           /\ wire' = Append(wire, m) \/ wire' = wire
    BY <1>5, WriteAppends
  <2>2. CASE wire' = wire
    BY <2>1, <2>2 DEF WrittenFirst, WireInOrder
  <2>3. CASE wire' = Append(wire, m)
    <3>1. /\ Len(wire') = Len(wire) + 1 /\ wire'[Len(wire) + 1] = m
          /\ \A i \in 1 .. Len(wire) : wire'[i] = wire[i]
      BY <2>3 DEF TypeOK
    <3>2. m[1] \in Producers /\ m[2] \in Nat /\ m[2] <= sent[m[1]]
      BY <2>1 DEF Packets, Sent
    <3>3. ASSUME NEW k \in queue, m[1] = k[1] PROVE m[2] < k[2]
      <4>1. /\ m \notin queue /\ ~Older(k, m)
            /\ k = <<k[1], k[2]>> /\ m = <<m[1], m[2]>> /\ k[2] \in Nat
        BY <2>1 DEF Sent, TypeOK, Packets
      <4>2. QED
        BY <3>2, <3>3, <4>1 DEF Older
    <3>4. \A i \in 1 .. Len(wire) : wire[i][1] = m[1] => wire[i][2] < m[2]
      BY <2>1 DEF WrittenFirst
    <3>5. WrittenFirst'
      BY <1>2, <2>1, <3>1, <3>2, <3>3 DEF WrittenFirst
    <3>6. WireInOrder'
      BY <1>2, <3>1, <3>4 DEF WireInOrder
    <3>7. QED
      BY <3>5, <3>6
  <2>4. QED
    BY <2>1, <2>2, <2>3
<1>6. CASE FlushDequeue
  <2>1. /\ queue' \cup inHand' \subseteq queue \cup inHand
        /\ wire' = wire /\ sent' = sent
    BY <1>6 DEF FlushDequeue, ControlKeeps
  <2>2. QED
    BY <2>1 DEF WrittenFirst, WireInOrder
<1>7. CASE UNCHANGED <<queue, inHand, sent, wire>>
  BY <1>7 DEF WrittenFirst, WireInOrder
<1>8. QED
  BY <1>3, <1>4, <1>5, <1>6, <1>7, OnTheirWay

-----------------------------------------------------------------------------
(* A packet is in one place.                                               *)

\* The packets Send was called with.
Given == {m \in Packets : m[2] <= sent[m[1]]}

\* Their places share none, and hold them all.
Apart ==
  /\ queue \cap (inHand \cup batch \cup Written \cup dropped \cup flushed) = {}
  /\ inHand \cap (batch \cup Written \cup dropped \cup flushed) = {}
  /\ batch \cap (Written \cup dropped \cup flushed) = {}
  /\ Written \cap (dropped \cup flushed) = {}
  /\ dropped \cap flushed = {}
Somewhere ==
  queue \cup inHand \cup batch \cup Written \cup dropped \cup flushed = Given

LEMMA WrittenAppend ==
  ASSUME NEW w \in Seq(Packets), NEW m \in Packets, wire = w, wire' = Append(w, m)
  PROVE  Written' = Written \cup {m}
<1>1. /\ Len(w) \in Nat /\ Len(wire') = Len(w) + 1 /\ wire'[Len(w) + 1] = m
      /\ \A i \in 1 .. Len(w) : wire'[i] = w[i]
  OBVIOUS
<1>2. 1 .. Len(wire') = (1 .. Len(w)) \cup {Len(w) + 1}
  BY <1>1
<1>3. Written' = {wire'[i] : i \in 1 .. Len(wire')}
  BY DEF Written
<1>4. QED
  BY <1>1, <1>2, <1>3 DEF Written

LEMMA PlacesStep ==
  TypeOK /\ Apart /\ Somewhere /\ [Next]_vars => Apart' /\ Somewhere'
<1> SUFFICES ASSUME TypeOK, Apart, Somewhere, [Next]_vars
             PROVE  Apart' /\ Somewhere'
  OBVIOUS
<1>1. ASSUME NEW p \in Producers, Enqueue(p) PROVE Apart' /\ Somewhere'
  <2> DEFINE new == <<p, sent[p] + 1>>
  <2>1. new \in Packets /\ new \notin Given
    BY <1>1 DEF Enqueue, TypeOK, Packets, Given
  <2>2. Given' = Given \cup {new}
    <3>1. ASSUME NEW m \in Packets
          PROVE  m[2] <= sent'[m[1]] <=> m[2] <= sent[m[1]] \/ m = new
      <4>1. m[1] \in Producers /\ m[2] \in Nat /\ m = <<m[1], m[2]>>
        BY DEF Packets
      <4>2. /\ sent[m[1]] \in Nat
            /\ sent'[m[1]] = IF m[1] = p THEN sent[p] + 1 ELSE sent[m[1]]
        BY <1>1, <4>1 DEF Enqueue, TypeOK
      <4>3. CASE m[1] = p
        <5>1. sent[p] \in Nat /\ sent'[m[1]] = sent[p] + 1
          BY <4>2, <4>3
        <5>2. m[2] <= sent[p] + 1 <=> m[2] <= sent[p] \/ m[2] = sent[p] + 1
          BY <4>1, <5>1
        <5>3. m[2] = sent[p] + 1 <=> m = new
          BY <4>1, <4>3
        <5>4. QED
          BY <4>3, <5>1, <5>2, <5>3
      <4>4. CASE m[1] # p
        BY <4>1, <4>2, <4>4
      <4>5. QED
        BY <4>3, <4>4
    <3>2. QED
      BY <2>1, <3>1 DEF Given
  <2>3. /\ queue' = queue \cup {new}
        /\ UNCHANGED <<inHand, batch, wire, dropped, flushed>>
    BY <1>1 DEF Enqueue
  <2>4. Written' = Written
    BY <2>3 DEF Written
  <2> HIDE DEF new
  <2>5. new \notin queue \cup inHand \cup batch \cup Written \cup dropped \cup flushed
    BY <2>1 DEF Somewhere
  <2>6. Apart'
    BY <2>3, <2>4, <2>5 DEF Apart
  <2>7. QED
    BY <2>2, <2>3, <2>4, <2>6 DEF Somewhere
<1>2. CASE Dequeue
  <2>1. PICK m \in queue : queue' = queue \ {m} /\ inHand' = {m} /\ inHand = {}
    BY <1>2 DEF Dequeue, SenderGoes, TypeOK
  <2>2. UNCHANGED <<batch, wire, dropped, flushed, sent>>
    BY <1>2 DEF Dequeue, SenderKeeps
  <2>3. Written' = Written /\ Given' = Given
    BY <2>2 DEF Written, Given
  <2>4. QED
    BY <2>1, <2>2, <2>3 DEF Apart, Somewhere
<1>3. CASE Write
  <2>1. PICK m \in Packets :
           /\ inHand = {m} /\ inHand' = {} /\ queue' = queue /\ sent' = sent
           /\ \/ socketOpen /\ wire' = Append(wire, m) /\ dropped' = dropped
              \/ ~socketOpen /\ wire' = wire /\ dropped' = dropped \cup {m}
    BY <1>3, WriteAppends
  <2>2. UNCHANGED <<batch, flushed>> /\ Given' = Given
    BY <1>3, <2>1 DEF Write, SenderKeeps, Given
  <2>3. \/ Written' = Written \cup {m} /\ dropped' = dropped
        \/ Written' = Written /\ dropped' = dropped \cup {m}
    <3>1. CASE wire' = Append(wire, m) /\ dropped' = dropped
      BY <3>1, WrittenAppend DEF TypeOK
    <3>2. CASE wire' = wire /\ dropped' = dropped \cup {m}
      BY <3>2 DEF Written
    <3>3. QED
      BY <2>1, <3>1, <3>2
  <2>4. QED
    BY <2>1, <2>2, <2>3 DEF Apart, Somewhere
<1>4. CASE FlushDequeue
  <2>1. PICK S \in SUBSET queue : queue' = queue \ S /\ batch' = S /\ batch = {}
    <3>1. batch = {}
      BY <1>4 DEF FlushDequeue, TypeOK
    <3>2. CASE UNCHANGED <<queue, batch>>
      BY <3>1, <3>2
    <3>3. CASE \E S \in SUBSET queue : batch' = S /\ queue' = queue \ S
      BY <3>1, <3>3
    <3>4. QED
      BY <1>4, <3>2, <3>3 DEF FlushDequeue
  <2>2. UNCHANGED <<inHand, wire, dropped, flushed, sent>>
    BY <1>4 DEF FlushDequeue, ControlKeeps
  <2>3. Written' = Written /\ Given' = Given
    BY <2>2 DEF Written, Given
  <2>4. QED
    BY <2>1, <2>2, <2>3 DEF Apart, Somewhere
<1>5. CASE FlushCount
  <2>1. /\ flushed' = flushed \cup batch /\ batch' = {}
        /\ UNCHANGED <<queue, inHand, wire, dropped, sent>>
    BY <1>5 DEF FlushCount, ControlKeeps
  <2>2. Written' = Written /\ Given' = Given
    BY <2>1 DEF Written, Given
  <2>3. QED
    BY <2>1, <2>2 DEF Apart, Somewhere
<1>6. CASE UNCHANGED <<queue, inHand, batch, wire, dropped, flushed, sent>>
  <2>1. Written' = Written /\ Given' = Given
    BY <1>6 DEF Written, Given
  <2>2. QED
    BY <1>6, <2>1 DEF Apart, Somewhere
<1>7. ASSUME NEW p \in Producers, Count(p) \/ SignalSender(p)
      PROVE  UNCHANGED <<queue, inHand, batch, wire, dropped, flushed, sent>>
  BY <1>7 DEF Count, SignalSender
<1>8. CASE OuterLoop \/ WaitLoop \/ SendLoop \/ WaitArrive \/ WaitWake \/ CountDown
  BY <1>6, <1>8 DEF OuterLoop, WaitLoop, SendLoop, WaitArrive, WaitWake,
                    CountDown, SenderTests, SenderKeeps
<1>9. CASE FlushBegin \/ FlushEnd \/ FlushSignal \/ StopBegin \/ StopSignal \/ StopJoin
  BY <1>6, <1>9 DEF FlushBegin, FlushEnd, FlushSignal, StopBegin, StopSignal,
                    StopJoin, ControlKeeps
<1>10. CASE PeerChanges \/ UNCHANGED vars
  BY <1>6, <1>10 DEF PeerChanges, vars, threadVars
<1>11. QED
  BY <1>1, <1>2, <1>3, <1>4, <1>5, <1>6, <1>7, <1>8, <1>9, <1>10
     DEF Next, SendMsg, SendData, FlushSendQueue, Stop

-----------------------------------------------------------------------------
(* The invariant, and what follows from it.                                *)

IInv == /\ TypeOK /\ Finite /\ Sent /\ CountAccurate
        /\ EventOfSender /\ SleepIsSafe /\ SenderGone
        /\ WrittenFirst /\ WireInOrder /\ Apart /\ Somewhere

LEMMA IInvInit == Init => IInv
<1> SUFFICES ASSUME Init PROVE IInv
  OBVIOUS
<1>1. TypeOK
  BY TypeInit
<1>2. Finite /\ Sent /\ SenderGone /\ SleepIsSafe
  BY FS_EmptySet DEF Init, Finite, Sent, SenderGone, SleepIsSafe
<1>3. EventOfSender
  BY DEF Init, EventOfSender, NewEvent
<1>4. {p \in Producers : producerPC[p] = "count"} = {}
  BY DEF Init
<1>5. CountAccurate
  <2>1. queue = {} /\ batch = {} /\ senderPC = "outer" /\ numQueuedEntries = 0
    BY DEF Init
  <2>2. QED
    BY <1>4, <2>1, FS_EmptySet DEF CountAccurate
<1>6. WrittenFirst /\ WireInOrder
  BY DEF Init, WrittenFirst, WireInOrder
<1>7. Apart /\ Somewhere
  <2>1. Written = {}
    BY DEF Init, Written
  <2>2. Given = {}
    BY DEF Init, Given, Packets
  <2>3. QED
    BY <2>1, <2>2 DEF Init, Apart, Somewhere
<1>8. QED
  BY <1>1, <1>2, <1>3, <1>5, <1>6, <1>7 DEF IInv

LEMMA IInvStep == IInv /\ [Next]_vars => IInv'
  BY TypeStep, FiniteStep, SentStep, CountStep, EventStep, SleepStep, GoneStep,
     OrderStep, PlacesStep DEF IInv

THEOREM Invariance == Spec => []IInv
  BY IInvInit, IInvStep, PTL DEF Spec

\* Every variable keeps its type; the threads hold packets where they should.
THEOREM TypeCorrect == Spec => []TypeOK
<1>1. IInv => TypeOK
  BY DEF IInv
<1>2. QED
  BY <1>1, Invariance, PTL

\* m_NumQueuedEntries is the length of the queue, up to the steps in flight.
THEOREM CountCorrect == Spec => []CountAccurate
<1>1. IInv => CountAccurate
  BY DEF IInv
<1>2. QED
  BY <1>1, Invariance, PTL

\* SendData never sleeps on a queue with packets in it once the calls of
\* SendMsg and FlushSendQueue have returned, for any number of senders.
THEOREM NoLostWakeups == Spec => []NoLostWakeup
<1>1. ASSUME IInv, Quiet, SenderAsleep PROVE queue = {}
  <2>1. numQueuedEntries <= 0
    BY <1>1 DEF IInv, EventOfSender, SleepIsSafe, Unsignaled, Quiet, SenderAsleep,
                CanWake, TypeOK
  <2>2. batch = {} /\ {p \in Producers : producerPC[p] = "count"} = {}
    BY <1>1 DEF IInv, TypeOK, Quiet
  <2>3. numQueuedEntries = Cardinality(queue) - 0 + 0 + 0
    BY <1>1, <2>2, FS_EmptySet DEF IInv, CountAccurate, SenderAsleep
  <2>4. IsFiniteSet(queue) /\ Cardinality(queue) \in Nat
    BY <1>1, FS_CardinalityType DEF IInv, Finite
  <2>5. Cardinality(queue) = 0
    BY <2>1, <2>3, <2>4
  <2>6. QED
    BY <2>4, <2>5, FS_EmptySet
<1>2. IInv => NoLostWakeup
  BY <1>1 DEF NoLostWakeup
<1>3. QED
  BY <1>2, Invariance, PTL

\* The packets of a thread are written in the order it sent them, none twice.
THEOREM WireOrdered == Spec => []WireInOrder
<1>1. IInv => WireInOrder
  BY DEF IInv
<1>2. QED
  BY <1>1, Invariance, PTL

\* A packet is in exactly one place, from Send to the socket, the log of
\* dropped packets or a flush.
THEOREM OnePlace == Spec => []EachPacketOnce
<1>1. ASSUME Apart, Somewhere PROVE EachPacketOnce
  <2>1. /\ Places[1] = queue /\ Places[2] = inHand /\ Places[3] = batch
        /\ Places[4] = Written /\ Places[5] = dropped /\ Places[6] = flushed
    BY DEF Places
  <2>2. 1 .. 6 = {1, 2, 3, 4, 5, 6}
    OBVIOUS
  <2>3. \A i, j \in {1, 2, 3, 4, 5, 6} : i # j => Places[i] \cap Places[j] = {}
    BY <1>1, <2>1 DEF Apart
  <2>4. UNION {Places[i] : i \in {1, 2, 3, 4, 5, 6}} = Given
    BY <1>1, <2>1 DEF Somewhere
  <2>5. QED
    BY <2>2, <2>3, <2>4 DEF EachPacketOnce, Given
<1>2. IInv => EachPacketOnce
  BY <1>1 DEF IInv
<1>3. QED
  BY <1>2, Invariance, PTL

\* Nothing is written any more once Stop has returned.
THEOREM StopIsFinal == Spec => NothingAfterStop
<1>1. ASSUME IInv, [Next]_vars, controlPC = "stopped"
      PROVE  UNCHANGED <<wire, dropped>>
  <2>1. senderPC = "done"
    BY <1>1 DEF IInv, SenderGone
  <2>2. ASSUME NEW p \in Producers, SendMsg(p) PROVE UNCHANGED <<wire, dropped>>
    BY <2>2 DEF SendMsg, Enqueue, Count, SignalSender
  <2>3. ~SendData
    BY <2>1 DEF SendData, OuterLoop, WaitLoop, SendLoop, SenderTests, SenderGoes,
                WaitArrive, WaitWake, Dequeue, CountDown, Write
  <2>4. CASE \/ FlushBegin \/ FlushSendQueue \/ StopBegin \/ Stop
             \/ PeerChanges \/ UNCHANGED vars
    BY <2>4 DEF FlushBegin, FlushSendQueue, FlushDequeue, FlushCount, FlushEnd,
                FlushSignal, StopBegin, Stop, StopSignal, StopJoin, ControlKeeps,
                PeerChanges, vars, threadVars
  <2>5. QED
    BY <1>1, <2>2, <2>3, <2>4 DEF Next
<1>2. IInv /\ [Next]_vars => [controlPC = "stopped" => UNCHANGED <<wire, dropped>>]_vars
  BY <1>1
<1>3. QED
  BY <1>2, Invariance, PTL DEF Spec, NothingAfterStop

-----------------------------------------------------------------------------
(* TcpEntity implements SendChannel.                                       *)

LEMMA ChannelInit == Init => Channel!Init
  BY DEF Init, Channel!Init

\* Each step of TcpEntity is one of SendChannel, or changes nothing there.
LEMMA ChannelStep == IInv /\ [Next]_vars => [Channel!Next]_(Channel!vars)
<1> SUFFICES ASSUME IInv, [Next]_vars PROVE [Channel!Next]_(Channel!vars)
  OBVIOUS
<1> USE DEF Channel!vars
<1>1. ASSUME NEW p \in Producers, Enqueue(p) PROVE Channel!Submit(p)
  BY <1>1 DEF Enqueue, Channel!Submit
<1>2. ASSUME NEW p \in Producers, Count(p) \/ SignalSender(p)
      PROVE  UNCHANGED Channel!vars
  BY <1>2 DEF Count, SignalSender
<1>3. CASE Dequeue
  <2>1. inHand = {}
    BY <1>3 DEF Dequeue, SenderGoes, IInv, TypeOK
  <2>2. queue' \cup inHand' = queue \cup inHand
    BY <1>3, <2>1 DEF Dequeue
  <2>3. QED
    BY <1>3, <2>2 DEF Dequeue, SenderKeeps
<1>4. CASE Write
  <2>1. PICK m \in Packets :
           /\ inHand = {m} /\ inHand' = {} /\ queue' = queue /\ sent' = sent
           /\ \/ socketOpen /\ wire' = Append(wire, m) /\ dropped' = dropped
              \/ ~socketOpen /\ wire' = wire /\ dropped' = dropped \cup {m}
    BY <1>4, WriteAppends DEF IInv
  <2>2. /\ controlPC # "stopped" /\ controlPC' = controlPC
        /\ batch' = batch /\ flushed' = flushed
    BY <1>4 DEF Write, SenderGoes, SenderKeeps, IInv, SenderGone
  <2>3. m \notin queue /\ \A k \in queue : ~Older(k, m)
    BY <2>1 DEF IInv, Sent
  <2>4. queue' \cup inHand' = (queue \cup inHand) \ {m}
    BY <2>1, <2>3
  <2>5. CASE socketOpen
    <3>1. m[2] \in Nat
      BY DEF Packets
    <3>2. ~Older(m, m)
      BY <3>1 DEF Older
    <3>3. Channel!Deliver(m)
      BY <2>1, <2>2, <2>3, <2>4, <2>5, <3>2 DEF Channel!Deliver, Channel!Older, Older
    <3>4. QED
      BY <2>1, <3>3 DEF Channel!Next
  <2>6. CASE ~socketOpen
    <3>1. Channel!Lose({m})
      BY <2>1, <2>2, <2>4, <2>6 DEF Channel!Lose
    <3>2. QED
      BY <2>1, <3>1 DEF Channel!Next
  <2>7. QED
    BY <2>5, <2>6
<1>5. CASE SendData /\ ~Dequeue /\ ~Write
  BY <1>5 DEF SendData, OuterLoop, WaitLoop, SendLoop, SenderTests, SenderKeeps,
              WaitArrive, WaitWake, CountDown
<1>6. CASE FlushDequeue /\ UNCHANGED <<queue, batch>>
  BY <1>6 DEF FlushDequeue, ControlKeeps
<1>7. CASE FlushDequeue /\ ~UNCHANGED <<queue, batch>>
  <2>1. PICK S \in SUBSET queue : batch' = S /\ queue' = queue \ S
    BY <1>7 DEF FlushDequeue
  <2>2. /\ controlPC = "flush" /\ controlPC' = "flushCount" /\ batch = {}
        /\ inHand' = inHand /\ UNCHANGED <<sent, wire, dropped, flushed>>
    BY <1>7 DEF FlushDequeue, ControlKeeps, IInv, TypeOK
  <2>3. S \cap inHand = {}
    BY DEF IInv, Sent
  <2>4. queue' \cup inHand' = (queue \cup inHand) \ S
    BY <2>1, <2>2, <2>3
  <2>5. dropped' \cup flushed' \cup batch' = (dropped \cup flushed \cup batch) \cup S
    BY <2>1, <2>2
  <2>6. Channel!Lose(S)
    BY <2>2, <2>4, <2>5 DEF Channel!Lose
  <2>7. QED
    BY <2>6 DEF Channel!Next
<1>8. CASE FlushCount
  <2>1. dropped' \cup flushed' \cup batch' = dropped \cup flushed \cup batch
    BY <1>8 DEF FlushCount, ControlKeeps
  <2>2. QED
    BY <1>8, <2>1 DEF FlushCount, ControlGoes, ControlKeeps
<1>9. CASE StopJoin
  <2>1. Channel!Close
    BY <1>9 DEF StopJoin, ControlGoes, ControlKeeps, Channel!Close
  <2>2. QED
    BY <2>1 DEF Channel!Next
<1>10. CASE FlushBegin \/ FlushEnd \/ FlushSignal \/ StopBegin \/ StopSignal
  BY <1>10 DEF FlushBegin, FlushEnd, FlushSignal, StopBegin, StopSignal,
               ControlGoes, ControlKeeps
<1>11. CASE PeerChanges \/ UNCHANGED vars
  BY <1>11 DEF PeerChanges, vars, threadVars
<1>12. QED
  BY <1>1, <1>2, <1>3, <1>4, <1>5, <1>6, <1>7, <1>8, <1>9, <1>10, <1>11
     DEF Next, SendMsg, FlushSendQueue, Stop, Channel!Next

\* TcpEntity keeps the promise of SendChannel to any number of senders.
THEOREM Refinement == Spec => ImplementsChannel
  BY ChannelInit, ChannelStep, Invariance, PTL DEF Spec, ImplementsChannel, Channel!Spec

=============================================================================
