----------------------------- MODULE TimerManager -----------------------------
(***************************************************************************)
(* The queue of function timers, OrbitCore/TimerManager.cpp, in its two    *)
(* roles.  In the Orbit user interface (IsClient = FALSE) the threads that *)
(* receive timers and context switches Add them, and ConsumeTimers hands   *)
(* the timers of the current session to the time graph.  In the target     *)
(* process (IsClient = TRUE) every instrumented thread Adds its timers and *)
(* SendTimers ships them, a batch at a time.                               *)
(*                                                                         *)
(* One control thread (the main thread of the user interface, the network  *)
(* thread of the target) starts sessions, starts and stops the recording   *)
(* and finally stops the manager.                                          *)
(*                                                                         *)
(* A timer is <<its thread, its rank in the thread, the session it was     *)
(* started in>>.  The field that carries the session is an int8_t; the     *)
(* model keeps the width as a constant.                                    *)
(*                                                                         *)
(* m_LockFreeMessageQueue is left out: nothing in the program calls        *)
(* Add(const Message&), so the loop that drains it finds it empty.         *)
(***************************************************************************)
EXTENDS Integers, FiniteSets, AutoResetEvent

CONSTANTS IsClient,       \* the role
          Producers,      \* the threads that call Add
          MaxTimers,      \* bound: the timers each of them makes
          MaxSessions,    \* bound: the sessions started
          SessionValues   \* 2^8, the number of values of Timer::m_SessionID

ASSUME TimerManagerAssumption ==
  /\ IsClient \in BOOLEAN
  /\ IsFiniteSet(Producers)
  /\ MaxTimers \in Nat /\ MaxSessions \in Nat
  /\ SessionValues \in Nat \ {0} /\ SessionValues % 2 = 0

Sessions == 0 .. MaxSessions
Timers == Producers \X (1 .. MaxTimers) \X Sessions

\* Timer::m_SessionID: the conversion of GSessionID, an int, to int8_t.
SessionField(s) ==
  LET half == SessionValues \div 2
  IN  ((s + half) % SessionValues) - half

VARIABLES
  sessionID,          \* Message::GSessionID
  queue,              \* m_LockFreeQueue
  numQueuedEntries,   \* m_NumQueuedEntries
  numQueuedTimers,    \* m_NumQueuedTimers
  event,              \* m_ConditionVariable
  isRecording, flushRequested, exitRequested,
  made, producerPC, timing,   \* each producer: its timers, where it is in
                              \* Add, the session of its current timer
  consumerPC, inHand,         \* m_ConsumerThread and the timers it holds
  header,                     \* the session stamped on the message SendTimers
                              \* fills (meaningful when IsClient)
  controlPC, batch,           \* the control thread and the timers it flushes
  out,         \* timers handed on: the time graph, or the send queue
  rejected,    \* <<timer, GSessionID>> of those ConsumeTimers refused
  flushed      \* timers FlushQueue threw away

producerVars == <<made, producerPC, timing>>
consumerVars == <<consumerPC, inHand, header, rejected>>
controlVars  == <<sessionID, isRecording, flushRequested, exitRequested,
                  controlPC, batch, flushed>>
vars == <<queue, numQueuedEntries, numQueuedTimers, event, out,
          producerVars, consumerVars, controlVars>>

\* The constructor; a client starts its consumer thread at once.
Init ==
  /\ sessionID = 0
  /\ queue = {} /\ numQueuedEntries = 0 /\ numQueuedTimers = 0
  /\ event = NewEvent
  /\ isRecording = FALSE /\ flushRequested = FALSE /\ exitRequested = FALSE
  /\ made = [p \in Producers |-> 0]
  /\ producerPC = [p \in Producers |-> "idle"]
  /\ timing = [p \in Producers |-> 0]
  /\ consumerPC = IF IsClient THEN "outer" ELSE "none"
  /\ inHand = {} /\ header = 0
  /\ controlPC = "idle" /\ batch = {}
  /\ out = {} /\ rejected = {} /\ flushed = {}

-----------------------------------------------------------------------------
(* The queue: order is kept among the timers of one thread only.           *)

Older(k, t) == k[1] = t[1] /\ k[2] < t[2]
Oldest(t) == t \in queue /\ \A k \in queue : ~Older(k, t)
Bulk(S) == S \subseteq queue
           /\ \A t \in S : \A k \in queue : Older(k, t) => k \in S

-----------------------------------------------------------------------------
(* A producer: a timer is started, later stopped, then Added.              *)

ProducerGoes(p, from, to) ==
  /\ producerPC[p] = from
  /\ producerPC' = [producerPC EXCEPT ![p] = to]
  /\ UNCHANGED <<consumerVars, controlVars, out>>

\* Timer::Start reads the session.  In the target no function is hooked before
\* the first session.
StartTimer(p) ==
  /\ made[p] < MaxTimers
  /\ IsClient => sessionID > 0
  /\ ProducerGoes(p, "idle", "timing")
  /\ made' = [made EXCEPT ![p] = made[p] + 1]
  /\ timing' = [timing EXCEPT ![p] = sessionID]
  /\ UNCHANGED <<queue, numQueuedEntries, numQueuedTimers, event>>

\* if( m_IsRecording ), then the four statements of Add.
AddTests(p) ==
  /\ ProducerGoes(p, "timing", IF isRecording THEN "enqueue" ELSE "idle")
  /\ UNCHANGED <<made, timing, queue, numQueuedEntries, numQueuedTimers, event>>

AddEnqueues(p) ==
  /\ ProducerGoes(p, "enqueue", "signal")
  /\ queue' = queue \cup {<<p, made[p], timing[p]>>}
  /\ UNCHANGED <<made, timing, numQueuedEntries, numQueuedTimers, event>>

\* Mutant: Add does not signal.
MutAddSignals(p) ==
  /\ ProducerGoes(p, "signal", "countEntry")
  /\ event' = event
  /\ UNCHANGED <<made, timing, queue, numQueuedEntries, numQueuedTimers>>

AddSignals(p) ==
  /\ ProducerGoes(p, "signal", "countEntry")
  /\ event' = Signal(event)
  /\ UNCHANGED <<made, timing, queue, numQueuedEntries, numQueuedTimers>>

AddCountsEntry(p) ==
  /\ ProducerGoes(p, "countEntry", "countTimer")
  /\ numQueuedEntries' = numQueuedEntries + 1
  /\ UNCHANGED <<made, timing, queue, numQueuedTimers, event>>

AddCountsTimer(p) ==
  /\ ProducerGoes(p, "countTimer", "idle")
  /\ numQueuedTimers' = numQueuedTimers + 1
  /\ UNCHANGED <<made, timing, queue, numQueuedEntries, event>>

Add(p) == AddTests(p) \/ AddEnqueues(p) \/ AddSignals(p)
          \/ AddCountsEntry(p) \/ AddCountsTimer(p)

-----------------------------------------------------------------------------
(* The consumer thread, what both roles share.                             *)

ConsumerGoes(from, to) ==
  /\ consumerPC = from /\ consumerPC' = to
  /\ UNCHANGED <<producerVars, controlVars>>

\* A test of the loops: nothing changes but where the thread is.
ConsumerTests(from, to) ==
  /\ ConsumerGoes(from, to)
  /\ UNCHANGED <<queue, numQueuedEntries, numQueuedTimers, event, inHand,
                 header, out, rejected>>

\* m_ConditionVariable.wait(), which returns to `to'.
WaitArrive(to) ==
  /\ ConsumerGoes("wait", IF Signaled(event) THEN to ELSE "asleep")
  /\ event' = Arrive(event)
  /\ UNCHANGED <<queue, numQueuedEntries, numQueuedTimers, inHand, header,
                 out, rejected>>

WaitWake(to) ==
  /\ CanWake(event)
  /\ ConsumerGoes("asleep", to)
  /\ event' = Wake(event)
  /\ UNCHANGED <<queue, numQueuedEntries, numQueuedTimers, inHand, header,
                 out, rejected>>

CountDownEntries(to) ==
  /\ ConsumerGoes("countEntries", to)
  /\ numQueuedEntries' = numQueuedEntries - Cardinality(inHand)
  /\ UNCHANGED <<queue, numQueuedTimers, event, inHand, header, out, rejected>>

\* Mutant: the consumer does not count the timers down.
MutCountDownTimers(to) ==
  /\ ConsumerGoes("countTimers", to)
  /\ numQueuedTimers' = numQueuedTimers
  /\ UNCHANGED <<queue, numQueuedEntries, event, inHand, header, out, rejected>>

CountDownTimers(to) ==
  /\ ConsumerGoes("countTimers", to)
  /\ numQueuedTimers' = numQueuedTimers - Cardinality(inHand)
  /\ UNCHANGED <<queue, numQueuedEntries, event, inHand, header, out, rejected>>

-----------------------------------------------------------------------------
(* ConsumeTimers: the user interface.                                      *)

\* while( !m_ExitRequested ) m_ConditionVariable.wait()
ConsumeOuter ==
  \/ ~exitRequested /\ ConsumerTests("outer", "wait")
  \/ exitRequested  /\ ConsumerTests("outer", "done")

\* while( !m_ExitRequested && !m_FlushRequested && try_dequeue(Timer) )
ConsumeLoop ==
  \/ exitRequested   /\ ConsumerTests("checkExit", "outer")
  \/ ~exitRequested  /\ ConsumerTests("checkExit", "checkFlush")
  \/ flushRequested  /\ ConsumerTests("checkFlush", "outer")
  \/ ~flushRequested /\ ConsumerTests("checkFlush", "dequeue")
  \/ queue = {}      /\ ConsumerTests("dequeue", "outer")

\* Mutant: the timer stays in the queue.
MutConsumeDequeue ==
  /\ ConsumerGoes("dequeue", "countEntries")
  /\ \E t \in queue :
       /\ Oldest(t)
       /\ queue' = queue
       /\ inHand' = {t}
  /\ UNCHANGED <<numQueuedEntries, numQueuedTimers, event, header, out, rejected>>

ConsumeDequeue ==
  /\ ConsumerGoes("dequeue", "countEntries")
  /\ \E t \in queue :
       /\ Oldest(t)
       /\ queue' = queue \ {t}
       /\ inHand' = {t}
  /\ UNCHANGED <<numQueuedEntries, numQueuedTimers, event, header, out, rejected>>

\* Mutant: timers of any session are accepted.
MutConsumeAll ==
  \E t \in inHand :
    IF TRUE
      THEN ConsumerTests("checkSession", "callback")
      ELSE /\ ConsumerGoes("checkSession", "checkExit")
           /\ rejected' = rejected \cup {<<t, sessionID>>}
           /\ inHand' = {}
           /\ UNCHANGED <<queue, numQueuedEntries, numQueuedTimers, event,
                          header, out>>

\* Mutant: the comparison is inverted.
MutConsumeOthers ==
  \E t \in inHand :
    IF SessionField(t[3]) # sessionID
      THEN ConsumerTests("checkSession", "callback")
      ELSE /\ ConsumerGoes("checkSession", "checkExit")
           /\ rejected' = rejected \cup {<<t, sessionID>>}
           /\ inHand' = {}
           /\ UNCHANGED <<queue, numQueuedEntries, numQueuedTimers, event,
                          header, out>>

\* A timer of another session is counted in m_NumTimersFromPreviousSession.
ConsumeChecks ==
  \E t \in inHand :
    IF SessionField(t[3]) = sessionID
      THEN ConsumerTests("checkSession", "callback")
      ELSE /\ ConsumerGoes("checkSession", "checkExit")
           /\ rejected' = rejected \cup {<<t, sessionID>>}
           /\ inHand' = {}
           /\ UNCHANGED <<queue, numQueuedEntries, numQueuedTimers, event,
                          header, out>>

\* The callbacks: CaptureWindow::OnTimerAdded adds it to the time graph.
ConsumeCallback ==
  /\ ConsumerGoes("callback", "checkExit")
  /\ out' = out \cup inHand
  /\ inHand' = {}
  /\ UNCHANGED <<queue, numQueuedEntries, numQueuedTimers, event, header, rejected>>

ConsumeTimers ==
  /\ ~IsClient
  /\ \/ ConsumeOuter
     \/ WaitArrive("checkExit") \/ WaitWake("checkExit")
     \/ ConsumeLoop \/ ConsumeDequeue
     \/ CountDownEntries("countTimers") \/ CountDownTimers("checkSession")
     \/ ConsumeChecks \/ ConsumeCallback

-----------------------------------------------------------------------------
(* SendTimers: the target.                                                 *)

\* while( !m_ExitRequested ) { Message Msg(Msg_Timer); the constructor stamps
\* the message with the session, before the wait.
SendOuter ==
  \/ exitRequested /\ ConsumerTests("outer", "done")
  \/ /\ ~exitRequested
     /\ ConsumerGoes("outer", "checkCount")
     /\ header' = sessionID
     /\ UNCHANGED <<queue, numQueuedEntries, numQueuedTimers, event, inHand,
                    out, rejected>>

\* while( m_NumQueuedEntries <= 0 && !m_ExitRequested )
SendWaitLoop ==
  \/ numQueuedEntries > 0  /\ ConsumerTests("checkCount", "dequeue")
  \/ numQueuedEntries <= 0 /\ ConsumerTests("checkCount", "checkWait")
  \/ exitRequested  /\ ConsumerTests("checkWait", "dequeue")
  \/ ~exitRequested /\ ConsumerTests("checkWait", "wait")

\* try_dequeue_bulk; an empty batch goes the same way.
SendDequeue ==
  /\ ConsumerGoes("dequeue", "countEntries")
  /\ \E S \in SUBSET queue :
       /\ Bulk(S)
       /\ S = {} => queue = {}
       /\ queue' = queue \ S
       /\ inHand' = S
  /\ UNCHANGED <<numQueuedEntries, numQueuedTimers, event, header, out, rejected>>

\* GTcpClient->Send( Msg, Timers ).
SendBatch ==
  /\ ConsumerGoes("send", "outer")
  /\ out' = out \cup inHand
  /\ inHand' = {}
  /\ UNCHANGED <<queue, numQueuedEntries, numQueuedTimers, event, header, rejected>>

SendTimers ==
  /\ IsClient
  /\ \/ SendOuter \/ SendWaitLoop
     \/ WaitArrive("checkCount") \/ WaitWake("checkCount")
     \/ SendDequeue
     \/ CountDownEntries("countTimers") \/ CountDownTimers("send")
     \/ SendBatch

-----------------------------------------------------------------------------
(* The control thread.                                                     *)

ControlGoes(from, to) == /\ controlPC = from /\ controlPC' = to
                         /\ UNCHANGED <<producerVars, inHand, header, rejected,
                                        numQueuedTimers>>

\* Capture::StartCapture, or Msg_NewSession and Msg_StartCapture in the
\* target: a new session, then the recording starts.
NewSession ==
  /\ sessionID < MaxSessions
  /\ ControlGoes("idle", "start")
  /\ sessionID' = sessionID + 1
  /\ UNCHANGED <<queue, numQueuedEntries, event, isRecording, flushRequested,
                 exitRequested, consumerPC, batch, out, flushed>>

\* StartRecording creates the consumer thread the first time; StartClient.
StartRecording ==
  /\ ControlGoes("start", IF IsClient THEN "idle" ELSE "clear")
  /\ isRecording' = TRUE
  /\ consumerPC' = IF consumerPC = "none" THEN "outer" ELSE consumerPC
  /\ UNCHANGED <<sessionID, queue, numQueuedEntries, event, flushRequested,
                 exitRequested, batch, out, flushed>>

\* Capture::StartSampling records without a new session or a new graph.
StartSampling ==
  /\ ~IsClient
  /\ ControlGoes("idle", "idle")
  /\ isRecording' = TRUE
  /\ consumerPC' = IF consumerPC = "none" THEN "outer" ELSE consumerPC
  /\ UNCHANGED <<sessionID, queue, numQueuedEntries, event, flushRequested,
                 exitRequested, batch, out, flushed>>

\* StartCapture goes on to Capture::GClearCaptureDataFunc.
ClearTimeGraph ==
  /\ ControlGoes("clear", "idle")
  /\ out' = {}
  /\ UNCHANGED <<sessionID, queue, numQueuedEntries, event, isRecording,
                 flushRequested, exitRequested, consumerPC, batch, flushed>>

\* StopRecording, StopClient: no more timers, then FlushQueue.
StopRecording ==
  /\ ControlGoes("idle", "flushBegin")
  /\ isRecording' = FALSE
  /\ UNCHANGED <<sessionID, queue, numQueuedEntries, event, flushRequested,
                 exitRequested, consumerPC, batch, out, flushed>>

FlushBegin ==
  /\ ControlGoes("flushBegin", "flush")
  /\ flushRequested' = TRUE
  /\ UNCHANGED <<sessionID, queue, numQueuedEntries, event, isRecording,
                 exitRequested, consumerPC, batch, out, flushed>>

FlushDequeue ==
  /\ \E S \in SUBSET queue :
       /\ Bulk(S)
       /\ S = {} => queue = {}
       /\ ControlGoes("flush", IF S = {} THEN "flushEnd" ELSE "flushCount")
       /\ batch' = S
       /\ queue' = queue \ S
  /\ UNCHANGED <<sessionID, numQueuedEntries, event, isRecording,
                 flushRequested, exitRequested, consumerPC, out, flushed>>

\* Mutant: FlushQueue does not count the entries down.
MutFlushCount ==
  /\ ControlGoes("flushCount", "flush")
  /\ numQueuedEntries' = numQueuedEntries
  /\ flushed' = flushed \cup batch
  /\ batch' = {}
  /\ UNCHANGED <<sessionID, queue, event, isRecording, flushRequested,
                 exitRequested, consumerPC, out>>

\* m_NumQueuedEntries goes down, m_NumQueuedTimers does not.
FlushCount ==
  /\ ControlGoes("flushCount", "flush")
  /\ numQueuedEntries' = numQueuedEntries - Cardinality(batch)
  /\ flushed' = flushed \cup batch
  /\ batch' = {}
  /\ UNCHANGED <<sessionID, queue, event, isRecording, flushRequested,
                 exitRequested, consumerPC, out>>

FlushEnd ==
  /\ ControlGoes("flushEnd", "flushSignal")
  /\ flushRequested' = FALSE
  /\ UNCHANGED <<sessionID, queue, numQueuedEntries, event, isRecording,
                 exitRequested, consumerPC, batch, out, flushed>>

FlushSignal ==
  /\ ControlGoes("flushSignal", "idle")
  /\ event' = Signal(event)
  /\ UNCHANGED <<sessionID, queue, numQueuedEntries, isRecording,
                 flushRequested, exitRequested, consumerPC, batch, out, flushed>>

FlushQueue == FlushBegin \/ FlushDequeue \/ FlushCount \/ FlushEnd \/ FlushSignal

StopBegin ==
  /\ ControlGoes("idle", "stopSignal")
  /\ isRecording' = FALSE
  /\ exitRequested' = TRUE
  /\ UNCHANGED <<sessionID, queue, numQueuedEntries, event, flushRequested,
                 consumerPC, batch, out, flushed>>

\* Mutant: Stop does not signal.
MutStopSignal ==
  /\ ControlGoes("stopSignal", "join")
  /\ event' = event
  /\ UNCHANGED <<sessionID, queue, numQueuedEntries, isRecording,
                 flushRequested, exitRequested, consumerPC, batch, out, flushed>>

StopSignal ==
  /\ ControlGoes("stopSignal", "join")
  /\ event' = Signal(event)
  /\ UNCHANGED <<sessionID, queue, numQueuedEntries, isRecording,
                 flushRequested, exitRequested, consumerPC, batch, out, flushed>>

\* if( m_ConsumerThread ) m_ConsumerThread->join()
StopJoin ==
  /\ consumerPC \in {"none", "done"}
  /\ ControlGoes("join", "stopped")
  /\ UNCHANGED <<sessionID, queue, numQueuedEntries, event, isRecording,
                 flushRequested, exitRequested, consumerPC, batch, out, flushed>>

Stop == StopSignal \/ StopJoin

Control == NewSession \/ StartRecording \/ StartSampling \/ ClearTimeGraph
           \/ StopRecording \/ FlushQueue \/ StopBegin \/ Stop

Next == \/ \E p \in Producers : StartTimer(p) \/ Add(p)
        \/ ConsumeTimers \/ SendTimers
        \/ Control

Spec == Init /\ [][Next]_vars

\* The threads that can run do; nobody has to start a timer, a session, a
\* flush or the stop.
Fairness ==
  /\ WF_vars(ConsumeTimers) /\ WF_vars(SendTimers)
  /\ WF_vars(StartRecording \/ ClearTimeGraph \/ FlushQueue \/ Stop)
  /\ \A p \in Producers : WF_vars(Add(p))

FairSpec == Spec /\ Fairness

-----------------------------------------------------------------------------
(* Properties.                                                             *)

ProducerPCs == {"idle", "timing", "enqueue", "signal", "countEntry", "countTimer"}
ConsumerPCs == {"none", "outer", "checkCount", "checkWait", "wait", "asleep",
                "checkExit", "checkFlush", "dequeue", "countEntries",
                "countTimers", "checkSession", "callback", "send", "done"}
ControlPCs  == {"idle", "start", "clear", "flushBegin", "flush", "flushCount",
                "flushEnd", "flushSignal", "stopSignal", "join", "stopped"}

\* Every variable keeps its type; the threads hold timers only between a
\* dequeue and the step that disposes of them.
TypeOK ==
  /\ sessionID \in Sessions
  /\ queue \subseteq Timers
  /\ numQueuedEntries \in Int /\ numQueuedTimers \in Int
  /\ event \in Events
  /\ isRecording \in BOOLEAN /\ flushRequested \in BOOLEAN
  /\ exitRequested \in BOOLEAN
  /\ made \in [Producers -> 0 .. MaxTimers]
  /\ producerPC \in [Producers -> ProducerPCs]
  /\ timing \in [Producers -> Sessions]
  /\ consumerPC \in ConsumerPCs /\ controlPC \in ControlPCs
  /\ inHand \subseteq Timers /\ batch \subseteq Timers
  /\ inHand # {} => consumerPC \in {"countEntries", "countTimers",
                                    "checkSession", "callback", "send"}
  /\ batch # {} => controlPC = "flushCount"
  /\ header \in Sessions
  /\ out \subseteq Timers /\ rejected \subseteq Timers \X Sessions
  /\ flushed \subseteq Timers

At(pcs) == Cardinality({p \in Producers : producerPC[p] \in pcs})

\* m_NumQueuedEntries is the length of the queue, corrected by the steps in
\* flight: timers enqueued and not yet counted by Add, dequeued and not yet
\* counted by the consumer or by FlushQueue.
EntriesAccurate ==
  numQueuedEntries =
    Cardinality(queue) - At({"signal", "countEntry"})
      + Cardinality(batch)
      + (IF consumerPC = "countEntries" THEN Cardinality(inHand) ELSE 0)

\* m_NumQueuedTimers, the "queued timers" of the statistics window, drifts:
\* it never forgets a timer that FlushQueue threw away.
TimersDrift ==
  numQueuedTimers =
    Cardinality(queue) - At({"signal", "countEntry", "countTimer"})
      + Cardinality(batch) + Cardinality(flushed)
      + (IF consumerPC \in {"countEntries", "countTimers"}
           THEN Cardinality(inHand) ELSE 0)

\* The consumer does not sleep on a queue with timers in it once every call of
\* Add and FlushQueue has returned.  ConsumeTimers waits before it looks at
\* the queue; SendTimers says "Wait for non-empty queue".
ConsumerAsleep == consumerPC = "asleep" /\ ~CanWake(event)
Quiet == controlPC = "idle" /\ \A p \in Producers : producerPC[p] = "idle"
NoLostWakeup == Quiet /\ ConsumerAsleep => queue = {}

\* What SendTimers can sleep on, since Add signals before it counts, is no more
\* timers than there are threads: it found a count of zero, and each thread may
\* then have been between its signal and its count once.
FewStranded == Quiet /\ ConsumerAsleep => Cardinality(queue) <= Cardinality(Producers)

\* A recorded timer goes one way: queued, held, flushed, refused, or handed on
\* (in the user interface the time graph forgets; there, not twice).
Refused == {r[1] : r \in rejected}
EachTimerOnce ==
  LET places == <<queue, inHand, batch, out, Refused, flushed>>
  IN  \A i, j \in 1 .. 6 : i # j => places[i] \cap places[j] = {}

\* Two captures do not mix: once StartCapture has cleared the time graph, the
\* graph shows timers of the session alone, but for one timer at most that
\* ConsumeTimers had compared with the session before it changed.
Stale == {t \in out : t[3] # sessionID}
AtMostOneStale == controlPC \notin {"start", "clear"} => Cardinality(Stale) <= 1

\* m_NumTimersFromPreviousSession counts what it says, as long as the session
\* fits in Timer::m_SessionID; past that every timer of the session is refused
\* and the graph shows none.
FirstUnfit == SessionValues \div 2
RefusedOnlyStale ==
  /\ \A r \in rejected : r[2] < FirstUnfit => r[1][3] # r[2]
  /\ sessionID >= FirstUnfit /\ controlPC = "idle" =>
       \A t \in out : t[3] < FirstUnfit

\* A timer queued in the user interface does not stay queued.
Queued(p, i) == \E s \in Sessions : <<p, i, s>> \in queue
QueueDrains ==
  \A p \in Producers, i \in 1 .. MaxTimers :
    Queued(p, i) ~> (~Queued(p, i) \/ exitRequested)

\* Stop returns: its signal is kept for a consumer that has yet to wait.
StopReturns == controlPC = "stopSignal" ~> controlPC = "stopped"

=============================================================================
