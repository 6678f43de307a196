------------------------------ MODULE TcpEntity ------------------------------
(***************************************************************************)
(* The send side of a connection between Orbit and the process it          *)
(* profiles: OrbitCore/TcpEntity.cpp.  Both ends are TcpEntities, the      *)
(* TcpServer of the Orbit user interface and the TcpClient of the library  *)
(* injected in the target.                                                 *)
(*                                                                         *)
(* Any thread may call SendMsg; the packet goes to a lock-free queue, the  *)
(* count of queued entries is incremented and the sender thread signaled,  *)
(* in three separate steps.  The sender thread, SendData, sleeps while the *)
(* count is not positive, then writes every packet it can dequeue.  One    *)
(* control thread calls FlushSendQueue, which throws away what is queued,  *)
(* and finally Stop.                                                       *)
(*                                                                         *)
(* The lock-free queue (moodycamel) keeps the order of one producer's      *)
(* packets but none between producers, so it is a set of packets, each     *)
(* named by its producer and its rank, of which any producer's oldest may  *)
(* be dequeued.                                                            *)
(***************************************************************************)
EXTENDS Integers, Sequences, FiniteSets, AutoResetEvent

CONSTANTS Producers,   \* the threads that call Send
          MaxSends     \* bound: the calls of Send by each of them

ASSUME TcpEntityAssumption ==
  /\ IsFiniteSet(Producers)
  /\ MaxSends \in Nat

Packets == Producers \X (1 .. MaxSends)

VARIABLES
  queue,             \* m_SendQueue
  numQueuedEntries,  \* m_NumQueuedEntries, an atomic int
  event,             \* m_ConditionVariable
  flushRequested,    \* m_FlushRequested
  exitRequested,     \* m_ExitRequested
  socketOpen,        \* GetSocket() returns an open socket
  sent,              \* how many packets each producer has enqueued
  producerPC,        \* where each producer is in SendMsg
  senderPC, inHand,  \* where the sender is in SendData, the packet it holds
  controlPC, batch,  \* where the control thread is, the packets it holds
  wire,              \* what has been written to the socket, in order
  dropped, flushed   \* packets lost to a closed socket, to FlushSendQueue

threadVars == <<sent, producerPC, senderPC, inHand, controlPC, batch>>
vars == <<queue, numQueuedEntries, event, flushRequested, exitRequested,
          socketOpen, threadVars, wire, dropped, flushed>>

Init ==
  /\ queue = {}
  /\ numQueuedEntries = 0
  /\ event = NewEvent
  /\ flushRequested = FALSE
  /\ exitRequested = FALSE
  /\ socketOpen \in BOOLEAN
  /\ sent = [p \in Producers |-> 0]
  /\ producerPC = [p \in Producers |-> "idle"]
  /\ senderPC = "outer"
  /\ inHand = {}
  /\ controlPC = "idle"
  /\ batch = {}
  /\ wire = <<>>
  /\ dropped = {}
  /\ flushed = {}

-----------------------------------------------------------------------------
(* The queue: what try_dequeue and try_dequeue_bulk may return.            *)

Older(k, m) == k[1] = m[1] /\ k[2] < m[2]

\* A packet that no queued packet of the same producer precedes.
Oldest(m) == m \in queue /\ \A k \in queue : ~Older(k, m)

\* A non-empty set of packets that precede, producer by producer, all those
\* it leaves in the queue.
Bulk(S) == S # {} /\ S \subseteq queue
           /\ \A m \in S : \A k \in queue : Older(k, m) => k \in S

-----------------------------------------------------------------------------
(* SendMsg: enqueue, count, signal.                                        *)

Enqueue(p) ==
  /\ producerPC[p] = "idle"
  /\ sent[p] < MaxSends
  /\ sent' = [sent EXCEPT ![p] = sent[p] + 1]
  /\ queue' = queue \cup {<<p, sent[p] + 1>>}
  /\ producerPC' = [producerPC EXCEPT ![p] = "count"]
  /\ UNCHANGED <<numQueuedEntries, event, flushRequested, exitRequested,
                 socketOpen, senderPC, inHand, controlPC, batch, wire,
                 dropped, flushed>>

Count(p) ==
  /\ producerPC[p] = "count"
  /\ numQueuedEntries' = numQueuedEntries + 1
  /\ producerPC' = [producerPC EXCEPT ![p] = "signal"]
  /\ UNCHANGED <<queue, event, flushRequested, exitRequested, socketOpen,
                 sent, senderPC, inHand, controlPC, batch, wire, dropped,
                 flushed>>

\* Mutant: SendMsg does not signal.
MutSignalSender(p) ==
  /\ producerPC[p] = "signal"
  /\ producerPC' = [producerPC EXCEPT ![p] = "idle"]
  /\ UNCHANGED <<queue, numQueuedEntries, event, flushRequested, exitRequested,
                 socketOpen, sent, senderPC, inHand, controlPC, batch, wire,
                 dropped, flushed>>

SignalSender(p) ==
  /\ producerPC[p] = "signal"
  /\ event' = Signal(event)
  /\ producerPC' = [producerPC EXCEPT ![p] = "idle"]
  /\ UNCHANGED <<queue, numQueuedEntries, flushRequested, exitRequested,
                 socketOpen, sent, senderPC, inHand, controlPC, batch, wire,
                 dropped, flushed>>

SendMsg(p) == Enqueue(p) \/ Count(p) \/ SignalSender(p)

-----------------------------------------------------------------------------
(* SendData: the sender thread.                                            *)

SenderKeeps == UNCHANGED <<flushRequested, exitRequested, socketOpen, sent,
                           producerPC, controlPC, batch, flushed>>

SenderGoes(from, to) == senderPC = from /\ senderPC' = to

\* A test of the loops: nothing changes but where the thread is.
SenderTests(from, to) ==
  /\ SenderGoes(from, to)
  /\ SenderKeeps
  /\ UNCHANGED <<queue, numQueuedEntries, event, inHand, wire, dropped>>

\* while( !m_ExitRequested )
OuterLoop ==
  \/ ~exitRequested /\ SenderTests("outer", "checkCount")
  \/ exitRequested  /\ SenderTests("outer", "done")

\* while( m_NumQueuedEntries <= 0 && !m_ExitRequested )
WaitLoop ==
  \/ numQueuedEntries > 0  /\ SenderTests("checkCount", "checkExit")
  \/ numQueuedEntries <= 0 /\ SenderTests("checkCount", "checkWait")
  \/ exitRequested  /\ SenderTests("checkWait", "checkExit")
  \/ ~exitRequested /\ SenderTests("checkWait", "wait")

\* m_ConditionVariable.wait()
WaitArrive ==
  /\ SenderGoes("wait", IF Signaled(event) THEN "checkCount" ELSE "asleep")
  /\ event' = Arrive(event)
  /\ SenderKeeps
  /\ UNCHANGED <<queue, numQueuedEntries, inHand, wire, dropped>>

WaitWake ==
  /\ CanWake(event)
  /\ SenderGoes("asleep", "checkCount")
  /\ event' = Wake(event)
  /\ SenderKeeps
  /\ UNCHANGED <<queue, numQueuedEntries, inHand, wire, dropped>>

\* while( !m_ExitRequested && !m_FlushRequested && try_dequeue(buffer) )
SendLoop ==
  \/ exitRequested   /\ SenderTests("checkExit", "outer")
  \/ ~exitRequested  /\ SenderTests("checkExit", "checkFlush")
  \/ flushRequested  /\ SenderTests("checkFlush", "outer")
  \/ ~flushRequested /\ SenderTests("checkFlush", "dequeue")
  \/ queue = {}      /\ SenderTests("dequeue", "outer")

\* Mutant: the packet stays in the queue.
MutDequeue ==
  /\ SenderGoes("dequeue", "count")
  /\ \E m \in queue :
       /\ Oldest(m)
       /\ queue' = queue
       /\ inHand' = {m}
  /\ SenderKeeps
  /\ UNCHANGED <<numQueuedEntries, event, wire, dropped>>

Dequeue ==
  /\ SenderGoes("dequeue", "count")
  /\ \E m \in queue :
       /\ Oldest(m)
       /\ queue' = queue \ {m}
       /\ inHand' = {m}
  /\ SenderKeeps
  /\ UNCHANGED <<numQueuedEntries, event, wire, dropped>>

\* Mutant: the sender forgets to count down.
MutCountDown ==
  /\ SenderGoes("count", "write")
  /\ numQueuedEntries' = numQueuedEntries
  /\ SenderKeeps
  /\ UNCHANGED <<queue, event, inHand, wire, dropped>>

CountDown ==
  /\ SenderGoes("count", "write")
  /\ numQueuedEntries' = numQueuedEntries - 1
  /\ SenderKeeps
  /\ UNCHANGED <<queue, event, inHand, wire, dropped>>

\* Mutant: a packet that found no open socket goes back to the queue.
MutWrite ==
  /\ SenderGoes("write", "checkExit")
  /\ inHand' = {}
  /\ IF socketOpen
       THEN /\ \E m \in inHand : wire' = Append(wire, m)
            /\ UNCHANGED <<dropped, queue>>
       ELSE /\ dropped' = dropped \cup inHand
            /\ queue' = queue \cup inHand
            /\ UNCHANGED wire
  /\ SenderKeeps
  /\ UNCHANGED <<numQueuedEntries, event>>

\* The packet is written when the socket is open, otherwise only reported.
Write ==
  /\ SenderGoes("write", "checkExit")
  /\ inHand' = {}
  /\ IF socketOpen
       THEN /\ \E m \in inHand : wire' = Append(wire, m)
            /\ UNCHANGED dropped
       ELSE /\ dropped' = dropped \cup inHand
            /\ UNCHANGED wire
  /\ SenderKeeps
  /\ UNCHANGED <<queue, numQueuedEntries, event>>

SendData == OuterLoop \/ WaitLoop \/ WaitArrive \/ WaitWake \/ SendLoop
            \/ Dequeue \/ CountDown \/ Write

-----------------------------------------------------------------------------
(* The control thread: FlushSendQueue any number of times, then Stop.      *)

ControlKeeps == UNCHANGED <<sent, producerPC, senderPC, inHand, wire, dropped>>
ControlGoes(from, to) == controlPC = from /\ controlPC' = to

FlushBegin ==
  /\ ControlGoes("idle", "flush")
  /\ flushRequested' = TRUE
  /\ ControlKeeps
  /\ UNCHANGED <<queue, numQueuedEntries, event, exitRequested, socketOpen,
                 batch, flushed>>

\* try_dequeue_bulk returns a batch, or nothing and the loop ends.
FlushDequeue ==
  /\ controlPC = "flush"
  /\ \/ /\ queue # {} /\ ~exitRequested
        /\ controlPC' = "flushCount"
        /\ \E S \in SUBSET queue :
             /\ Bulk(S)
             /\ batch' = S
             /\ queue' = queue \ S
     \/ /\ queue = {} \/ exitRequested
        /\ controlPC' = "flushEnd"
        /\ UNCHANGED <<queue, batch>>
  /\ ControlKeeps
  /\ UNCHANGED <<numQueuedEntries, event, flushRequested, exitRequested,
                 socketOpen, flushed>>

FlushCount ==
  /\ ControlGoes("flushCount", "flush")
  /\ numQueuedEntries' = numQueuedEntries - Cardinality(batch)
  /\ flushed' = flushed \cup batch
  /\ batch' = {}
  /\ ControlKeeps
  /\ UNCHANGED <<queue, event, flushRequested, exitRequested, socketOpen>>

FlushEnd ==
  /\ ControlGoes("flushEnd", "flushSignal")
  /\ flushRequested' = FALSE
  /\ ControlKeeps
  /\ UNCHANGED <<queue, numQueuedEntries, event, exitRequested, socketOpen,
                 batch, flushed>>

FlushSignal ==
  /\ ControlGoes("flushSignal", "idle")
  /\ event' = Signal(event)
  /\ ControlKeeps
  /\ UNCHANGED <<queue, numQueuedEntries, flushRequested, exitRequested,
                 socketOpen, batch, flushed>>

FlushSendQueue == FlushDequeue \/ FlushCount \/ FlushEnd \/ FlushSignal

StopBegin ==
  /\ ControlGoes("idle", "stopSignal")
  /\ exitRequested' = TRUE
  /\ ControlKeeps
  /\ UNCHANGED <<queue, numQueuedEntries, event, flushRequested, socketOpen,
                 batch, flushed>>

\* Mutant: Stop does not signal.
MutStopSignal ==
  /\ ControlGoes("stopSignal", "join")
  /\ event' = event
  /\ ControlKeeps
  /\ UNCHANGED <<queue, numQueuedEntries, flushRequested, exitRequested,
                 socketOpen, batch, flushed>>

StopSignal ==
  /\ ControlGoes("stopSignal", "join")
  /\ event' = Signal(event)
  /\ ControlKeeps
  /\ UNCHANGED <<queue, numQueuedEntries, flushRequested, exitRequested,
                 socketOpen, batch, flushed>>

\* Mutant: Stop does not wait for the sender.
MutStopJoin ==
  /\ ControlGoes("join", "stopped")
  /\ socketOpen' = FALSE
  /\ ControlKeeps
  /\ UNCHANGED <<queue, numQueuedEntries, event, flushRequested,
                 exitRequested, batch, flushed>>

\* m_SenderThread->join(), then the socket is closed.
StopJoin ==
  /\ senderPC = "done"
  /\ ControlGoes("join", "stopped")
  /\ socketOpen' = FALSE
  /\ ControlKeeps
  /\ UNCHANGED <<queue, numQueuedEntries, event, flushRequested,
                 exitRequested, batch, flushed>>

Stop == StopSignal \/ StopJoin

-----------------------------------------------------------------------------
(* The peer connects or goes away.                                         *)

PeerChanges ==
  /\ controlPC # "stopped"
  /\ socketOpen' = ~socketOpen
  /\ UNCHANGED <<queue, numQueuedEntries, event, flushRequested,
                 exitRequested, threadVars, wire, dropped, flushed>>

Next == \/ \E p \in Producers : SendMsg(p)
        \/ SendData
        \/ FlushBegin \/ FlushSendQueue
        \/ StopBegin \/ Stop
        \/ PeerChanges

Spec == Init /\ [][Next]_vars

\* Every thread that can run does: producers finish a call of SendMsg they
\* began, the control thread the flush or the stop it began; nobody has to
\* begin one.
Fairness ==
  /\ WF_vars(SendData)
  /\ WF_vars(FlushSendQueue)
  /\ WF_vars(Stop)
  /\ \A p \in Producers : WF_vars(Count(p) \/ SignalSender(p))

FairSpec == Spec /\ Fairness

-----------------------------------------------------------------------------
(* Properties.                                                             *)

SenderPCs  == {"outer", "checkCount", "checkWait", "wait", "asleep",
               "checkExit", "checkFlush", "dequeue", "count", "write", "done"}
ControlPCs == {"idle", "flush", "flushCount", "flushEnd", "flushSignal",
               "stopSignal", "join", "stopped"}

\* Every variable keeps its type; the sender holds a packet exactly between
\* try_dequeue and the write, the flusher a batch exactly until it is counted.
TypeOK ==
  /\ queue \subseteq Packets
  /\ numQueuedEntries \in Int
  /\ event \in Events
  /\ flushRequested \in BOOLEAN /\ exitRequested \in BOOLEAN
  /\ socketOpen \in BOOLEAN
  /\ sent \in [Producers -> 0 .. MaxSends]
  /\ producerPC \in [Producers -> {"idle", "count", "signal"}]
  /\ senderPC \in SenderPCs /\ controlPC \in ControlPCs
  /\ inHand \subseteq Packets /\ batch \subseteq Packets
  /\ IF senderPC \in {"count", "write"} THEN \E m \in Packets : inHand = {m}
                                        ELSE inHand = {}
  /\ controlPC # "flushCount" => batch = {}
  /\ wire \in Seq(Packets)
  /\ dropped \subseteq Packets /\ flushed \subseteq Packets

\* m_NumQueuedEntries is the length of the queue, corrected by the steps in
\* flight: packets enqueued and not yet counted by SendMsg, dequeued and not
\* yet counted by SendData or FlushSendQueue.  It can be negative.
CountAccurate ==
  numQueuedEntries =
    Cardinality(queue)
      - Cardinality({p \in Producers : producerPC[p] = "count"})
      + (IF senderPC = "count" THEN 1 ELSE 0)
      + Cardinality(batch)

\* "Wait for non-empty queue": once every call of SendMsg and FlushSendQueue
\* has returned, SendData does not sleep while a packet is queued.
SenderAsleep == senderPC = "asleep" /\ ~CanWake(event)
Quiet == controlPC = "idle" /\ \A p \in Producers : producerPC[p] = "idle"
NoLostWakeup == Quiet /\ SenderAsleep => queue = {}

\* The socket carries the packets of each thread in the order it sent them,
\* and none twice, whatever was flushed or dropped in between.
WireInOrder ==
  \A i, j \in 1 .. Len(wire) :
    i < j /\ wire[i][1] = wire[j][1] => wire[i][2] < wire[j][2]

\* A packet that Send was called with is in exactly one place: queued, in the
\* hands of a thread, on the wire, dropped or flushed.
Written == {wire[i] : i \in 1 .. Len(wire)}
Places == <<queue, inHand, batch, Written, dropped, flushed>>
EachPacketOnce ==
  /\ \A i, j \in 1 .. 6 : i # j => Places[i] \cap Places[j] = {}
  /\ UNION {Places[i] : i \in 1 .. 6}
       = {m \in Packets : m[2] <= sent[m[1]]}

\* Stop returns only once the sender is out of the way: after it nothing is
\* written to the socket it closed.
NothingAfterStop == [][controlPC = "stopped" => UNCHANGED <<wire, dropped>>]_vars

\* What a thread has queued does not stay queued, unless the entity is being
\* stopped.
HasQueued(p) == \E m \in queue : m[1] = p
QueueDrains ==
  \A p \in Producers : HasQueued(p) ~> (~HasQueued(p) \/ exitRequested)

\* A call of Stop returns: the signal it sends cannot be missed by a sender
\* about to sleep, and join does not wait forever.
StopReturns == controlPC = "stopSignal" ~> controlPC = "stopped"

\* TcpEntity implements SendChannel: what is queued or in the hands of the
\* sender is on its way, what the flusher took is lost, and a packet leaves the
\* hands of the sender only for the socket or for want of one.
Channel == INSTANCE SendChannel WITH
             pending <- queue \cup inHand,
             lost    <- dropped \cup flushed \cup batch,
             closed  <- controlPC = "stopped"
ImplementsChannel == Channel!Spec

=============================================================================
