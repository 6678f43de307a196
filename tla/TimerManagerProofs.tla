-------------------------- MODULE TimerManagerProofs --------------------------
(***************************************************************************)
(* Proofs about TimerManager, in both roles and for any number of threads, *)
(* timers, sessions and values of the session field: its types, the two    *)
(* counts, the one way every timer goes, and, in the user interface, what  *)
(* the time graph shows, what is refused, and that no timer is left in the *)
(* queue by a consumer that sleeps.                                        *)
(***************************************************************************)
EXTENDS TimerManager, FiniteSetTheorems, TLAPS

-----------------------------------------------------------------------------
(* The parts of the inductive invariant.                                   *)

\* The sets that are counted are finite.
Finite == /\ IsFiniteSet(queue) /\ IsFiniteSet(inHand)
          /\ IsFiniteSet(batch) /\ IsFiniteSet(flushed)

\* Every timer recorded so far was made before the one its thread is about to
\* Add, which is therefore nowhere yet.
Recorded == queue \cup inHand \cup batch \cup out \cup Refused \cup flushed
Ranked ==
  /\ \A p \in Producers : producerPC[p] \in {"timing", "enqueue"} => made[p] > 0
  /\ \A t \in Recorded :
       /\ t[2] <= made[t[1]]
       /\ producerPC[t[1]] \in {"timing", "enqueue"} => t[2] < made[t[1]]

\* The six places of a timer share none.
Apart ==
  /\ queue \cap (inHand \cup batch \cup out \cup Refused \cup flushed) = {}
  /\ inHand \cap (batch \cup out \cup Refused \cup flushed) = {}
  /\ batch \cap (out \cup Refused \cup flushed) = {}
  /\ out \cap (Refused \cup flushed) = {}
  /\ Refused \cap flushed = {}

\* No timer is of a session to come.
Recent ==
  /\ \A p \in Producers : timing[p] <= sessionID
  /\ \A t \in queue \cup inHand : t[3] <= sessionID

\* The timers ConsumeTimers accepted: one at a time, of a session that fits.
Accepted ==
  ~IsClient =>
    /\ \A s, t \in inHand : s = t
    /\ consumerPC = "callback" => \A t \in inHand : t[3] < FirstUnfit
    /\ \A t \in out : t[3] < FirstUnfit

\* Of the graph and the timer about to join it, one is stale at most.
Late == IF consumerPC = "callback" THEN {t \in inHand : t[3] # sessionID} ELSE {}
FewStale ==
  ~IsClient /\ controlPC \notin {"start", "clear"} =>
    \A s, t \in Stale \cup Late : s = t

RefusedStale == \A r \in rejected : r[2] < FirstUnfit => r[1][3] # r[2]

\* The consumer has the event's only waiting place: the status is negative
\* exactly while it sleeps with no wake-up handed to it.
EventOfConsumer ==
  IF consumerPC = "asleep"
    THEN \/ event.status = -1 /\ event.sema = 0
         \/ event.status \in {0, 1} /\ event.sema = 1
    ELSE event.status \in {0, 1} /\ event.sema = 0

\* What sends the consumer of the user interface back to its wait: a flush
\* that has still to signal, or the stop.
Flushing == {"flush", "flushCount", "flushEnd"}
Stopping == {"stopSignal", "join", "stopped"}
Requests == /\ flushRequested => controlPC \in Flushing
            /\ exitRequested  => controlPC \in Stopping

\* Nothing is recorded before there is a consumer.
NotBegun ==
  ~IsClient /\ consumerPC = "none" =>
    /\ ~isRecording /\ queue = {}
    /\ \A p \in Producers : producerPC[p] \in {"idle", "timing"}

\* While the consumer of the user interface goes to sleep with no signal to
\* stop it, either there is nothing in the queue or one is still to come.
Unsignaled == event.status # 1 /\ event.sema = 0
Promised == \/ controlPC \in Flushing \cup Stopping \cup {"flushSignal"}
            \/ \E p \in Producers : producerPC[p] = "signal"
SleepIsSafe ==
  ~IsClient /\ consumerPC \in {"none", "outer", "wait", "asleep"} /\ Unsignaled
    => queue = {} \/ Promised

\* While SendTimers goes to sleep with no signal to stop it, the queue holds as
\* many timers as the count can have been short of, which is one for each
\* thread, and those that are about to be signaled.
GoingToSleep == IsClient /\ consumerPC \in {"checkWait", "wait", "asleep"} /\ Unsignaled
Stranding ==
  GoingToSleep => Cardinality(queue) <= Cardinality(Producers) + At({"signal"})

-----------------------------------------------------------------------------
(* The session field.                                                      *)

USE TimerManagerAssumption DEF TimerManagerAssumption

LEMMA HalfType ==
  /\ FirstUnfit \in Nat /\ SessionValues = 2 * FirstUnfit /\ FirstUnfit > 0
BY DEF FirstUnfit

\* The remainder that wraps the field.
LEMMA Wrap ==
  ASSUME NEW x \in Nat, NEW n \in Nat \ {0}
  PROVE  /\ x % n \in 0 .. n - 1
         /\ x % n <= x
         /\ x < n => x % n = x
OBVIOUS

\* A session that fits keeps its number; no field is above its session nor
\* past the width.
LEMMA Field ==
  ASSUME NEW s \in Nat
  PROVE  /\ SessionField(s) \in Int
         /\ SessionField(s) < FirstUnfit
         /\ SessionField(s) <= s
         /\ s < FirstUnfit => SessionField(s) = s
<1>1. /\ SessionField(s) = ((s + FirstUnfit) % SessionValues) - FirstUnfit
      /\ s + FirstUnfit \in Nat
  BY HalfType DEF SessionField, FirstUnfit
<1> DEFINE x == s + FirstUnfit
           r == x % SessionValues
<1>2. /\ r \in 0 .. SessionValues - 1 /\ r <= x
      /\ x < SessionValues => r = x
  BY <1>1, Wrap
<1>3. SessionField(s) = r - FirstUnfit
  BY <1>1
<1> HIDE DEF r
<1> QED BY <1>2, <1>3, HalfType

LEMMA SignalType == \A e \in Events : Signal(e) \in Events
  BY DEF Events, Signal

LEMMA ArriveType == \A e \in Events : Arrive(e) \in Events
  BY DEF Events, Arrive

LEMMA WakeType == \A e \in Events : CanWake(e) => Wake(e) \in Events
  BY DEF Events, Wake, CanWake

-----------------------------------------------------------------------------
(* Types.                                                                  *)

LEMMA TypeInit == Init => TypeOK
<1> SUFFICES ASSUME Init PROVE TypeOK
  OBVIOUS
<1>1. event \in Events /\ numQueuedEntries \in Int /\ numQueuedTimers \in Int
  BY DEF Init, NewEvent, Events
<1>2. /\ made \in [Producers -> 0 .. MaxTimers]
      /\ timing \in [Producers -> Sessions]
      /\ sessionID \in Sessions /\ header \in Sessions
  BY DEF Init, Sessions
<1>3. producerPC \in [Producers -> ProducerPCs]
  BY DEF Init, ProducerPCs
<1>4. consumerPC \in ConsumerPCs /\ controlPC \in ControlPCs
  BY DEF Init, ConsumerPCs, ControlPCs
<1>5. isRecording \in BOOLEAN /\ flushRequested \in BOOLEAN
  BY DEF Init
<1>6. exitRequested \in BOOLEAN
  BY DEF Init
<1>7. /\ queue \subseteq Timers /\ inHand \subseteq Timers /\ batch \subseteq Timers
      /\ out \subseteq Timers /\ rejected \subseteq Timers \X Sessions
      /\ flushed \subseteq Timers /\ inHand = {} /\ batch = {}
  BY DEF Init
<1> QED BY <1>1, <1>2, <1>3, <1>4, <1>5, <1>6, <1>7 DEF TypeOK

LEMMA SizesType ==
  ASSUME Finite
  PROVE  /\ Cardinality(queue) \in Nat /\ Cardinality(inHand) \in Nat
         /\ Cardinality(batch) \in Nat /\ Cardinality(flushed) \in Nat
BY FS_CardinalityType DEF Finite

LEMMA TypeStep == TypeOK /\ Finite /\ Ranked /\ [Next]_vars => TypeOK'
<1> SUFFICES ASSUME TypeOK, Finite, Ranked, [Next]_vars PROVE TypeOK'
  OBVIOUS
<1>1. CASE UNCHANGED vars
  BY <1>1 DEF TypeOK, vars, producerVars, consumerVars, controlVars
<1>2. ASSUME NEW p \in Producers, StartTimer(p) \/ Add(p) PROVE TypeOK'
  <2> USE DEF ProducerGoes, consumerVars, controlVars
  <2>1. CASE StartTimer(p)
    <3>1. /\ made' \in [Producers -> 0 .. MaxTimers]
          /\ timing' \in [Producers -> Sessions]
      BY <2>1 DEF StartTimer, TypeOK
    <3>2. producerPC' \in [Producers -> ProducerPCs]
      BY <2>1 DEF StartTimer, TypeOK, ProducerPCs
    <3> QED BY <2>1, <3>1, <3>2 DEF StartTimer, TypeOK
  <2>2. CASE AddTests(p)
    <3>1. producerPC' \in [Producers -> ProducerPCs]
      BY <2>2 DEF AddTests, TypeOK, ProducerPCs
    <3> QED BY <2>2, <3>1 DEF AddTests, TypeOK
  <2>3. CASE AddEnqueues(p)
    <3>1. producerPC' \in [Producers -> ProducerPCs]
      BY <2>3 DEF AddEnqueues, TypeOK, ProducerPCs
    <3>2. <<p, made[p], timing[p]>> \in Timers
      <4>1. made[p] \in 1 .. MaxTimers
        BY <2>3 DEF AddEnqueues, ProducerGoes, Ranked, TypeOK
      <4> QED BY <4>1 DEF TypeOK, Timers
    <3> QED BY <2>3, <3>1, <3>2 DEF AddEnqueues, TypeOK
  <2>4. CASE AddSignals(p)
    <3>1. producerPC' \in [Producers -> ProducerPCs]
      BY <2>4 DEF AddSignals, TypeOK, ProducerPCs
    <3> QED BY <2>4, <3>1, SignalType DEF AddSignals, TypeOK
  <2>5. CASE AddCountsEntry(p) \/ AddCountsTimer(p)
    <3>1. producerPC' \in [Producers -> ProducerPCs]
      BY <2>5 DEF AddCountsEntry, AddCountsTimer, TypeOK, ProducerPCs
    <3> QED BY <2>5, <3>1 DEF AddCountsEntry, AddCountsTimer, TypeOK
  <2> QED BY <1>2, <2>1, <2>2, <2>3, <2>4, <2>5 DEF Add
<1> USE DEF ConsumerGoes, ConsumerTests, producerVars, controlVars
<1>3. CASE ConsumeTimers
  <2>1. CASE ConsumeOuter \/ ConsumeLoop
    BY <2>1 DEF ConsumeOuter, ConsumeLoop, TypeOK, ConsumerPCs
  <2>2. CASE WaitArrive("checkExit") \/ WaitWake("checkExit")
    BY <2>2, ArriveType, WakeType DEF WaitArrive, WaitWake, TypeOK, ConsumerPCs
  <2>3. CASE ConsumeDequeue
    BY <2>3 DEF ConsumeDequeue, TypeOK, ConsumerPCs
  <2>4. CASE CountDownEntries("countTimers") \/ CountDownTimers("checkSession")
    BY <2>4, SizesType DEF CountDownEntries, CountDownTimers, TypeOK, ConsumerPCs
  <2>5. CASE ConsumeChecks
    <3> PICK t \in inHand :
          IF SessionField(t[3]) = sessionID
            THEN ConsumerTests("checkSession", "callback")
            ELSE /\ ConsumerGoes("checkSession", "checkExit")
                 /\ rejected' = rejected \cup {<<t, sessionID>>}
                 /\ inHand' = {}
                 /\ UNCHANGED <<queue, numQueuedEntries, numQueuedTimers,
                                event, header, out>>
      BY <2>5 DEF ConsumeChecks
    <3>1. CASE SessionField(t[3]) = sessionID
      BY <3>1 DEF TypeOK, ConsumerPCs
    <3>2. CASE SessionField(t[3]) # sessionID
      <4>1. rejected' \subseteq Timers \X Sessions
        BY <3>2 DEF TypeOK
      <4> QED BY <3>2, <4>1 DEF TypeOK, ConsumerPCs
    <3> QED BY <3>1, <3>2
  <2>6. CASE ConsumeCallback
    BY <2>6 DEF ConsumeCallback, TypeOK, ConsumerPCs
  <2> QED BY <1>3, <2>1, <2>2, <2>3, <2>4, <2>5, <2>6 DEF ConsumeTimers
<1>4. CASE SendTimers
  <2>1. CASE SendOuter \/ SendWaitLoop
    BY <2>1 DEF SendOuter, SendWaitLoop, TypeOK, ConsumerPCs
  <2>2. CASE WaitArrive("checkCount") \/ WaitWake("checkCount")
    BY <2>2, ArriveType, WakeType DEF WaitArrive, WaitWake, TypeOK, ConsumerPCs
  <2>3. CASE SendDequeue
    BY <2>3 DEF SendDequeue, TypeOK, ConsumerPCs
  <2>4. CASE CountDownEntries("countTimers") \/ CountDownTimers("send")
    BY <2>4, SizesType DEF CountDownEntries, CountDownTimers, TypeOK, ConsumerPCs
  <2>5. CASE SendBatch
    BY <2>5 DEF SendBatch, TypeOK, ConsumerPCs
  <2> QED BY <1>4, <2>1, <2>2, <2>3, <2>4, <2>5 DEF SendTimers
<1>5. CASE Control
  <2> USE DEF ControlGoes
  <2>1. CASE NewSession
    <3>1. sessionID' \in Sessions
      BY <2>1 DEF NewSession, TypeOK, Sessions
    <3> QED BY <2>1, <3>1 DEF NewSession, TypeOK, ControlPCs
  <2>2. CASE StartRecording \/ StartSampling
    BY <2>2 DEF StartRecording, StartSampling, TypeOK, ControlPCs, ConsumerPCs
  <2>3. CASE ClearTimeGraph \/ StopRecording \/ StopBegin \/ StopJoin
    BY <2>3 DEF ClearTimeGraph, StopRecording, StopBegin, StopJoin, TypeOK,
                ControlPCs
  <2>4. CASE FlushBegin \/ FlushEnd \/ FlushDequeue
    BY <2>4 DEF FlushBegin, FlushEnd, FlushDequeue, TypeOK, ControlPCs
  <2>5. CASE FlushSignal \/ StopSignal
    BY <2>5, SignalType DEF FlushSignal, StopSignal, TypeOK, ControlPCs
  <2>6. CASE FlushCount
    BY <2>6, SizesType DEF FlushCount, TypeOK, ControlPCs
  <2> QED BY <1>5, <2>1, <2>2, <2>3, <2>4, <2>5, <2>6
        DEF Control, FlushQueue, Stop
<1> QED BY <1>1, <1>2, <1>3, <1>4, <1>5 DEF Next

-----------------------------------------------------------------------------
(* What the steps of the consumer and of the control thread do to the      *)
(* timers.                                                                 *)

counts == <<numQueuedEntries, numQueuedTimers>>
places == <<queue, inHand, batch, out, rejected, flushed>>
counting == {"countEntries", "countTimers"}

Takes ==
  /\ consumerPC = "dequeue" /\ consumerPC' = "countEntries"
  /\ inHand = {} /\ inHand' \in SUBSET queue /\ queue' = queue \ inHand'
  /\ ~IsClient => \A s, t \in inHand' : s = t
  /\ UNCHANGED <<producerVars, controlVars, counts, out, rejected>>

CountsEntries ==
  /\ consumerPC = "countEntries" /\ consumerPC' = "countTimers"
  /\ numQueuedEntries' = numQueuedEntries - Cardinality(inHand)
  /\ UNCHANGED <<producerVars, controlVars, places, numQueuedTimers>>

CountsTimers ==
  /\ consumerPC = "countTimers" /\ consumerPC' \in {"checkSession", "send"}
  /\ numQueuedTimers' = numQueuedTimers - Cardinality(inHand)
  /\ UNCHANGED <<producerVars, controlVars, places, numQueuedEntries>>

Accepts ==
  /\ consumerPC = "checkSession" /\ consumerPC' = "callback"
  /\ \E t \in inHand : SessionField(t[3]) = sessionID
  /\ UNCHANGED <<producerVars, controlVars, places, counts>>

Refuses ==
  /\ consumerPC = "checkSession" /\ consumerPC' = "checkExit"
  /\ \E t \in inHand : /\ SessionField(t[3]) # sessionID
                        /\ rejected' = rejected \cup {<<t, sessionID>>}
  /\ inHand' = {}
  /\ UNCHANGED <<producerVars, controlVars, counts, queue, out>>

HandsOn ==
  /\ (consumerPC = "send" /\ IsClient) \/ consumerPC = "callback"
  /\ consumerPC' \in {"outer", "checkExit"}
  /\ out' = out \cup inHand /\ inHand' = {}
  /\ UNCHANGED <<producerVars, controlVars, counts, queue, rejected>>

Moves ==
  /\ consumerPC \notin counting \cup {"callback"}
  /\ consumerPC' \notin counting \cup {"callback"}
  /\ UNCHANGED <<producerVars, controlVars, counts, places>>

LEMMA ConsumerKinds ==
  ASSUME TypeOK, ConsumeTimers \/ SendTimers
  PROVE  Takes \/ CountsEntries \/ CountsTimers \/ Accepts \/ Refuses
           \/ HandsOn \/ Moves
<1> USE DEF ConsumerGoes, ConsumerTests, producerVars, controlVars, counts,
            places, counting
<1>1. CASE ConsumeTimers
  <2>1. CASE \/ ConsumeOuter \/ ConsumeLoop
             \/ WaitArrive("checkExit") \/ WaitWake("checkExit")
    <3>1. Moves
      BY <2>1 DEF ConsumeOuter, ConsumeLoop, WaitArrive, WaitWake, Moves
    <3> QED BY <3>1
  <2>2. CASE ConsumeDequeue
    <3>1. inHand = {}
      BY <2>2 DEF ConsumeDequeue, TypeOK
    <3>2. Takes
      BY <2>2, <3>1 DEF ConsumeDequeue, Takes
    <3> QED BY <3>2
  <2>3. CASE CountDownEntries("countTimers")
    <3>1. CountsEntries
      BY <2>3 DEF CountDownEntries, CountsEntries
    <3> QED BY <3>1
  <2>4. CASE CountDownTimers("checkSession")
    <3>1. CountsTimers
      BY <2>4 DEF CountDownTimers, CountsTimers
    <3> QED BY <3>1
  <2>5. CASE ConsumeChecks
    <3>1. Accepts \/ Refuses
      BY <2>5 DEF ConsumeChecks, Accepts, Refuses
    <3> QED BY <3>1
  <2>6. CASE ConsumeCallback
    <3>1. HandsOn
      BY <2>6 DEF ConsumeCallback, HandsOn
    <3> QED BY <3>1
  <2> QED BY <1>1, <2>1, <2>2, <2>3, <2>4, <2>5, <2>6 DEF ConsumeTimers
<1>2. CASE SendTimers
  <2>1. CASE \/ SendOuter \/ SendWaitLoop
             \/ WaitArrive("checkCount") \/ WaitWake("checkCount")
    <3>1. Moves
      BY <2>1 DEF SendOuter, SendWaitLoop, WaitArrive, WaitWake, Moves
    <3> QED BY <3>1
  <2>2. CASE SendDequeue
    <3>1. inHand = {} /\ IsClient
      BY <1>2, <2>2 DEF SendDequeue, SendTimers, TypeOK
    <3>2. Takes
      BY <2>2, <3>1 DEF SendDequeue, Takes
    <3> QED BY <3>2
  <2>3. CASE CountDownEntries("countTimers")
    <3>1. CountsEntries
      BY <2>3 DEF CountDownEntries, CountsEntries
    <3> QED BY <3>1
  <2>4. CASE CountDownTimers("send")
    <3>1. CountsTimers
      BY <2>4 DEF CountDownTimers, CountsTimers
    <3> QED BY <3>1
  <2>5. CASE SendBatch
    <3>1. HandsOn
      BY <1>2, <2>5 DEF SendBatch, SendTimers, HandsOn
    <3> QED BY <3>1
  <2> QED BY <1>2, <2>1, <2>2, <2>3, <2>4, <2>5 DEF SendTimers
<1> QED BY <1>1, <1>2

FlushTakes ==
  /\ controlPC = "flush" /\ controlPC' \in {"flushEnd", "flushCount"}
  /\ batch = {} /\ batch' \in SUBSET queue /\ queue' = queue \ batch'
  /\ UNCHANGED <<producerVars, consumerVars, counts, out, flushed, sessionID>>

FlushCounts ==
  /\ controlPC = "flushCount" /\ controlPC' = "flush"
  /\ numQueuedEntries' = numQueuedEntries - Cardinality(batch)
  /\ flushed' = flushed \cup batch /\ batch' = {}
  /\ UNCHANGED <<producerVars, consumerVars, numQueuedTimers, queue, out,
                 sessionID>>

Clears ==
  /\ controlPC = "clear" /\ controlPC' = "idle"
  /\ out' = {}
  /\ UNCHANGED <<producerVars, consumerVars, counts, queue, batch, flushed,
                 sessionID>>

NextSession ==
  /\ controlPC = "idle" /\ controlPC' = "start"
  /\ sessionID' = sessionID + 1
  /\ UNCHANGED <<producerVars, consumerVars, counts, places>>

Commands ==
  /\ ~IsClient /\ controlPC \in {"start", "clear"} => controlPC' = "clear"
  /\ consumerPC' = consumerPC \/ (consumerPC = "none" /\ consumerPC' = "outer")
  /\ UNCHANGED <<producerVars, counts, places, sessionID>>

LEMMA ControlKinds ==
  ASSUME TypeOK, Control
  PROVE  FlushTakes \/ FlushCounts \/ Clears \/ NextSession \/ Commands
<1> USE DEF ControlGoes, producerVars, consumerVars, counts, places
<1>1. CASE FlushDequeue
  <2>1. batch = {}
    BY <1>1 DEF FlushDequeue, TypeOK
  <2>2. FlushTakes
    BY <1>1, <2>1 DEF FlushDequeue, FlushTakes
  <2> QED BY <2>2
<1>2. CASE FlushCount
  <2>1. FlushCounts
    BY <1>2 DEF FlushCount, FlushCounts
  <2> QED BY <2>1
<1>3. CASE ClearTimeGraph
  <2>1. Clears
    BY <1>3 DEF ClearTimeGraph, Clears
  <2> QED BY <2>1
<1>4. CASE NewSession
  <2>1. NextSession
    BY <1>4 DEF NewSession, NextSession
  <2> QED BY <2>1
<1>5. CASE \/ StartRecording \/ StartSampling \/ StopRecording \/ FlushBegin
           \/ FlushEnd \/ FlushSignal \/ StopBegin \/ StopSignal \/ StopJoin
  <2>1. Commands
    BY <1>5 DEF StartRecording, StartSampling, StopRecording, FlushBegin,
                FlushEnd, FlushSignal, StopBegin, StopSignal, StopJoin, Commands
  <2> QED BY <2>1
<1> QED BY <1>1, <1>2, <1>3, <1>4, <1>5 DEF Control, FlushQueue, Stop

\* Everything a step can be.
LEMMA Kinds ==
  ASSUME TypeOK, [Next]_vars
  PROVE  \/ \E p \in Producers : StartTimer(p) \/ Add(p)
         \/ Takes \/ CountsEntries \/ CountsTimers \/ Accepts \/ Refuses
         \/ HandsOn \/ Moves
         \/ FlushTakes \/ FlushCounts \/ Clears \/ NextSession \/ Commands
         \/ UNCHANGED vars
BY ConsumerKinds, ControlKinds DEF Next

-----------------------------------------------------------------------------
(* Where the timers are.                                                   *)

LEMMA FiniteStep == TypeOK /\ Finite /\ [Next]_vars => Finite'
<1> SUFFICES ASSUME TypeOK, Finite, [Next]_vars PROVE Finite'
  OBVIOUS
<1> USE DEF producerVars, consumerVars, controlVars, places, Finite
<1>1. ASSUME NEW p \in Producers, StartTimer(p) \/ Add(p) PROVE Finite'
  <2>1. CASE AddEnqueues(p)
    BY <2>1, FS_AddElement DEF AddEnqueues, ProducerGoes
  <2>2. CASE ~AddEnqueues(p)
    BY <1>1, <2>2 DEF StartTimer, Add, AddTests, AddSignals, AddCountsEntry,
                      AddCountsTimer, ProducerGoes
  <2> QED BY <2>1, <2>2
<1>2. CASE Takes
  <2>1. queue' \in SUBSET queue /\ inHand' \in SUBSET queue
    BY <1>2 DEF Takes
  <2> QED BY <1>2, <2>1, FS_Subset DEF Takes
<1>3. CASE FlushTakes
  <2>1. queue' \in SUBSET queue /\ batch' \in SUBSET queue
    BY <1>3 DEF FlushTakes
  <2> QED BY <1>3, <2>1, FS_Subset DEF FlushTakes
<1>4. CASE FlushCounts
  BY <1>4, FS_EmptySet, FS_Union DEF FlushCounts
<1>5. CASE Refuses \/ HandsOn
  BY <1>5, FS_EmptySet DEF Refuses, HandsOn
<1>6. CASE \/ CountsEntries \/ CountsTimers \/ Accepts \/ Moves
           \/ Clears \/ NextSession \/ Commands \/ UNCHANGED vars
  BY <1>6 DEF CountsEntries, CountsTimers, Accepts, Moves, Clears, NextSession,
              Commands, vars
<1> QED BY <1>1, <1>2, <1>3, <1>4, <1>5, <1>6, Kinds

\* The timer a producer enqueues is nowhere yet.
LEMMA NewTimer ==
  ASSUME TypeOK, Ranked, NEW p \in Producers, AddEnqueues(p)
  PROVE  <<p, made[p], timing[p]>> \notin Recorded
BY DEF AddEnqueues, ProducerGoes, Ranked, TypeOK

LEMMA RecordedType == TypeOK => Recorded \subseteq Timers
BY DEF TypeOK, Recorded, Refused

LEMMA RefusedMore ==
  ASSUME NEW t, rejected' = rejected \cup {<<t, sessionID>>}
  PROVE  Refused' = Refused \cup {t}
<1> DEFINE r == <<t, sessionID>>
<1>1. r[1] = t /\ rejected' = rejected \cup {r}
  OBVIOUS
<1> HIDE DEF r
<1>2. ASSUME NEW x PROVE x \in Refused' <=> x \in Refused \/ x = t
  BY <1>1 DEF Refused
<1> QED BY <1>2

\* Only Add records a timer.
LEMMA RecordedStep ==
  ASSUME TypeOK, [Next]_vars
  PROVE  \/ \E p \in Producers : StartTimer(p) \/ Add(p)
         \/ Recorded' \in SUBSET Recorded /\ UNCHANGED producerVars
<1> USE DEF producerVars, consumerVars, controlVars, places, Recorded
<1>1. CASE Takes
  BY <1>1 DEF Takes, Refused
<1>2. CASE FlushTakes
  BY <1>2 DEF FlushTakes, Refused
<1>3. CASE FlushCounts
  BY <1>3 DEF FlushCounts, Refused
<1>4. CASE Refuses
  <2>1. PICK t \in inHand : rejected' = rejected \cup {<<t, sessionID>>}
    BY <1>4 DEF Refuses
  <2>2. Refused' = Refused \cup {t}
    BY <2>1, RefusedMore
  <2> QED BY <1>4, <2>2 DEF Refuses
<1>5. CASE HandsOn
  BY <1>5 DEF HandsOn, Refused
<1>6. CASE \/ CountsEntries \/ CountsTimers \/ Accepts \/ Moves
           \/ Clears \/ NextSession \/ Commands \/ UNCHANGED vars
  BY <1>6 DEF CountsEntries, CountsTimers, Accepts, Moves, Clears, NextSession,
              Commands, vars, Refused
<1> QED BY <1>1, <1>2, <1>3, <1>4, <1>5, <1>6, Kinds

LEMMA RankedStep == TypeOK /\ Ranked /\ [Next]_vars => Ranked'
<1> SUFFICES ASSUME TypeOK, Ranked, [Next]_vars PROVE Ranked'
  OBVIOUS
<1>1. ASSUME NEW p \in Producers, StartTimer(p) \/ Add(p) PROVE Ranked'
  <2> USE DEF ProducerGoes, consumerVars, controlVars
  <2>1. CASE StartTimer(p)
    <3>1. Recorded' = Recorded
      BY <2>1 DEF StartTimer, Recorded, Refused
    <3>2. ASSUME NEW t \in Recorded
          PROVE  /\ t[2] <= made'[t[1]]
                 /\ producerPC'[t[1]] \in {"timing", "enqueue"}
                      => t[2] < made'[t[1]]
      <4>1. t[1] \in Producers /\ t[2] \in Nat /\ t[2] <= made[t[1]]
        BY RecordedType DEF Timers, Ranked
      <4>2. CASE t[1] = p
        BY <2>1, <4>1, <4>2 DEF StartTimer, TypeOK
      <4>3. CASE t[1] # p
        BY <2>1, <4>1, <4>3 DEF StartTimer, TypeOK, Ranked
      <4> QED BY <4>2, <4>3
    <3>3. \A q \in Producers :
            producerPC'[q] \in {"timing", "enqueue"} => made'[q] > 0
      BY <2>1 DEF StartTimer, TypeOK, Ranked
    <3> QED BY <3>1, <3>2, <3>3 DEF Ranked
  <2>2. CASE AddEnqueues(p)
    <3> DEFINE new == <<p, made[p], timing[p]>>
    <3>1. Recorded' = Recorded \cup {new} /\ made' = made
      BY <2>2 DEF AddEnqueues, Recorded, Refused
    <3>2. \A t \in Recorded : t[1] \in Producers
      BY RecordedType DEF Timers
    <3>3. producerPC' = [producerPC EXCEPT ![p] = "signal"]
      BY <2>2 DEF AddEnqueues
    <3>4. new[2] = made[p] /\ new[1] = p /\ made[p] \in Nat
      BY DEF TypeOK
    <3>5. ASSUME NEW t \in Recorded
          PROVE  /\ t[2] <= made[t[1]]
                 /\ producerPC'[t[1]] \in {"timing", "enqueue"}
                      => t[2] < made[t[1]]
      BY <3>2, <3>3 DEF Ranked, TypeOK
    <3>6. producerPC'[p] = "signal"
      BY <3>3 DEF TypeOK
    <3>7. \A q \in Producers :
            producerPC'[q] \in {"timing", "enqueue"} => made'[q] > 0
      BY <3>1, <3>3 DEF TypeOK, Ranked
    <3>8. /\ new[2] <= made[new[1]]
          /\ producerPC'[new[1]] \in {"timing", "enqueue"} => new[2] < made[new[1]]
      BY <3>4, <3>6
    <3> HIDE DEF new
    <3> QED BY <3>1, <3>5, <3>7, <3>8 DEF Ranked
  <2>3. CASE AddTests(p) \/ AddSignals(p) \/ AddCountsEntry(p) \/ AddCountsTimer(p)
    <3>1. Recorded' = Recorded /\ made' = made
      BY <2>3 DEF AddTests, AddSignals, AddCountsEntry, AddCountsTimer, Recorded,
                  Refused
    <3>2. \A t \in Recorded : t[1] \in Producers
      BY RecordedType DEF Timers
    <3>3. \A q \in Producers : producerPC'[q] \in {"timing", "enqueue"}
                               => producerPC[q] \in {"timing", "enqueue"}
      BY <2>3 DEF AddTests, AddSignals, AddCountsEntry, AddCountsTimer, TypeOK
    <3> QED BY <3>1, <3>2, <3>3 DEF Ranked
  <2> QED BY <1>1, <2>1, <2>2, <2>3 DEF Add
<1>2. CASE Recorded' \in SUBSET Recorded /\ UNCHANGED producerVars
  BY <1>2 DEF Ranked, producerVars
<1> QED BY <1>1, <1>2, RecordedStep

LEMMA ApartStep == TypeOK /\ Ranked /\ Apart /\ [Next]_vars => Apart'
<1> SUFFICES ASSUME TypeOK, Ranked, Apart, [Next]_vars PROVE Apart'
  OBVIOUS
<1> USE DEF producerVars, consumerVars, controlVars, places
<1>1. ASSUME NEW p \in Producers, StartTimer(p) \/ Add(p) PROVE Apart'
  <2>1. CASE AddEnqueues(p)
    <3> DEFINE new == <<p, made[p], timing[p]>>
    <3>1. /\ queue' = queue \cup {new}
          /\ UNCHANGED <<inHand, batch, out, Refused, flushed>>
      BY <2>1 DEF AddEnqueues, ProducerGoes, Refused
    <3>2. new \notin Recorded
      BY <2>1, NewTimer
    <3> HIDE DEF new
    <3> QED BY <3>1, <3>2 DEF Apart, Recorded
  <2>2. CASE ~AddEnqueues(p)
    BY <1>1, <2>2 DEF StartTimer, Add, AddTests, AddSignals, AddCountsEntry,
                      AddCountsTimer, ProducerGoes, Apart, Refused
  <2> QED BY <2>1, <2>2
<1>2. CASE Takes
  BY <1>2 DEF Takes, Apart, Refused
<1>3. CASE FlushTakes
  BY <1>3 DEF FlushTakes, Apart, Refused
<1>4. CASE FlushCounts
  BY <1>4 DEF FlushCounts, Apart, Refused
<1>5. CASE Refuses
  <2>1. PICK t \in inHand : rejected' = rejected \cup {<<t, sessionID>>}
    BY <1>5 DEF Refuses
  <2>2. Refused' = Refused \cup {t}
    BY <2>1, RefusedMore
  <2> QED BY <1>5, <2>2 DEF Refuses, Apart
<1>6. CASE HandsOn
  BY <1>6 DEF HandsOn, Apart, Refused
<1>7. CASE Clears
  BY <1>7 DEF Clears, Apart, Refused
<1>8. CASE \/ CountsEntries \/ CountsTimers \/ Accepts \/ Moves
           \/ NextSession \/ Commands \/ UNCHANGED vars
  BY <1>8 DEF CountsEntries, CountsTimers, Accepts, Moves, NextSession,
              Commands, vars, Apart, Refused
<1> QED BY <1>1, <1>2, <1>3, <1>4, <1>5, <1>6, <1>7, <1>8, Kinds

-----------------------------------------------------------------------------
(* The two counts.                                                         *)

\* An element more or less.
LEMMA OneMore ==
  ASSUME NEW Q, IsFiniteSet(Q), NEW x, x \notin Q
  PROVE  Cardinality(Q \cup {x}) = Cardinality(Q) + 1
BY FS_AddElement

LEMMA OneLess ==
  ASSUME NEW Q, IsFiniteSet(Q), NEW x \in Q
  PROVE  Cardinality(Q \ {x}) = Cardinality(Q) - 1
BY FS_RemoveElement

\* A producer that goes on enters the steps in flight, or leaves them.
LEMMA AtGoes ==
  ASSUME TypeOK, NEW p \in Producers, NEW pcs, NEW to,
         producerPC' = [producerPC EXCEPT ![p] = to]
  PROVE  /\ At(pcs) \in Nat
         /\ producerPC[p] \notin pcs /\ to \in pcs => At(pcs)' = At(pcs) + 1
         /\ producerPC[p] \in pcs /\ to \notin pcs => At(pcs)' = At(pcs) - 1
         /\ (producerPC[p] \in pcs <=> to \in pcs) => At(pcs)' = At(pcs)
<1> DEFINE Set == {q \in Producers : producerPC[q] \in pcs}
<1>1. IsFiniteSet(Set)
  <2>1. Set \in SUBSET Producers
    OBVIOUS
  <2> QED BY <2>1, FS_Subset
<1>2. At(pcs) = Cardinality(Set) /\ At(pcs)' = Cardinality(Set')
  BY DEF At
<1>3. At(pcs) \in Nat
  BY <1>1, <1>2, FS_CardinalityType
<1>4. CASE producerPC[p] \notin pcs /\ to \in pcs
  <2>1. Set' = Set \cup {p} /\ p \notin Set
    BY <1>4 DEF TypeOK
  <2>2. Cardinality(Set') = Cardinality(Set) + 1
    BY <1>1, <2>1, OneMore, Zenon
  <2> QED BY <1>2, <1>3, <1>4, <2>2
<1>5. CASE producerPC[p] \in pcs /\ to \notin pcs
  <2>1. Set' = Set \ {p} /\ p \in Set
    BY <1>5 DEF TypeOK
  <2>2. Cardinality(Set') = Cardinality(Set) - 1
    BY <1>1, <2>1, OneLess, Zenon
  <2> QED BY <1>2, <1>3, <1>5, <2>2
<1>6. CASE producerPC[p] \in pcs <=> to \in pcs
  <2>1. Set' = Set
    BY <1>6 DEF TypeOK
  <2> QED BY <1>2, <1>3, <1>6, <2>1
<1> QED BY <1>4, <1>5, <1>6

LEMMA AtType == \A pcs : At(pcs) \in Nat
<1> SUFFICES ASSUME NEW pcs PROVE At(pcs) \in Nat
  OBVIOUS
<1>1. {p \in Producers : producerPC[p] \in pcs} \in SUBSET Producers
  OBVIOUS
<1> QED BY <1>1, FS_Subset, FS_CardinalityType DEF At

\* Taking a part of the queue takes its size off the queue's.
LEMMA QueueSplit ==
  ASSUME NEW Q, IsFiniteSet(Q), NEW S \in SUBSET Q
  PROVE  /\ Cardinality(Q) = Cardinality(Q \ S) + Cardinality(S)
         /\ Cardinality(Q \ S) \in Nat /\ Cardinality(S) \in Nat
<1>1. Q \ S \in SUBSET Q /\ (Q \ S) \cup S = Q /\ (Q \ S) \cap S = {}
  OBVIOUS
<1>2. IsFiniteSet(S) /\ IsFiniteSet(Q \ S)
  BY <1>1, FS_Subset
<1>3. Cardinality(Q) = Cardinality(Q \ S) + Cardinality(S) - Cardinality({})
  BY <1>1, <1>2, FS_Union
<1>4. Cardinality(Q \ S) \in Nat /\ Cardinality(S) \in Nat
  BY <1>2, FS_CardinalityType
<1> QED BY <1>3, <1>4, FS_EmptySet

Uncounted == {"signal", "countEntry"}
UncountedTimer == {"signal", "countEntry", "countTimer"}
HeldEntries == IF consumerPC = "countEntries" THEN Cardinality(inHand) ELSE 0
HeldTimers == IF consumerPC \in counting THEN Cardinality(inHand) ELSE 0

\* Both counts, as one formula.
Counted ==
  /\ numQueuedEntries =
       Cardinality(queue) - At(Uncounted) + Cardinality(batch) + HeldEntries
  /\ numQueuedTimers =
       Cardinality(queue) - At(UncountedTimer) + Cardinality(batch)
         + Cardinality(flushed) + HeldTimers

LEMMA CountedBoth == Counted <=> EntriesAccurate /\ TimersDrift
BY DEF Counted, EntriesAccurate, TimersDrift, Uncounted, UncountedTimer,
       HeldEntries, HeldTimers, counting

LEMMA CountStep ==
  TypeOK /\ Finite /\ Ranked /\ Apart /\ Counted /\ [Next]_vars => Counted'
<1> SUFFICES ASSUME TypeOK, Finite, Ranked, Apart, Counted, [Next]_vars
             PROVE  Counted'
  OBVIOUS
<1> USE DEF Counted
<1>1. /\ Cardinality(queue) \in Nat /\ Cardinality(inHand) \in Nat
      /\ Cardinality(batch) \in Nat /\ Cardinality(flushed) \in Nat
      /\ At(Uncounted) \in Nat /\ At(UncountedTimer) \in Nat
      /\ HeldEntries \in Nat /\ HeldTimers \in Nat
      /\ Cardinality({}) = 0
  BY SizesType, AtType, FS_EmptySet DEF HeldEntries, HeldTimers
<1>2. ASSUME NEW p \in Producers, StartTimer(p) \/ Add(p) PROVE Counted'
  <2> USE DEF ProducerGoes, consumerVars, controlVars
  <2>1. UNCHANGED <<HeldEntries, HeldTimers, batch, flushed>>
    BY <1>2 DEF StartTimer, Add, AddTests, AddEnqueues, AddSignals,
                AddCountsEntry, AddCountsTimer, HeldEntries, HeldTimers
  <2>2. CASE StartTimer(p) \/ AddTests(p) \/ AddSignals(p)
    <3>1. UNCHANGED <<queue, numQueuedEntries, numQueuedTimers>>
      BY <2>2 DEF StartTimer, AddTests, AddSignals
    <3>2. PICK to : /\ producerPC' = [producerPC EXCEPT ![p] = to]
                    /\ producerPC[p] \in Uncounted <=> to \in Uncounted
                    /\ producerPC[p] \in UncountedTimer <=> to \in UncountedTimer
      <4> DEFINE Goes(to) ==
                   /\ producerPC' = [producerPC EXCEPT ![p] = to]
                   /\ producerPC[p] \in Uncounted <=> to \in Uncounted
                   /\ producerPC[p] \in UncountedTimer <=> to \in UncountedTimer
      <4>1. CASE StartTimer(p)
        <5>1. Goes("timing")
          BY <4>1 DEF StartTimer, Uncounted, UncountedTimer
        <5> QED BY <5>1
      <4>2. CASE AddTests(p)
        <5>1. Goes("enqueue") \/ Goes("idle")
          BY <4>2 DEF AddTests, Uncounted, UncountedTimer
        <5> QED BY <5>1
      <4>3. CASE AddSignals(p)
        <5>1. Goes("countEntry")
          BY <4>3 DEF AddSignals, Uncounted, UncountedTimer
        <5> QED BY <5>1
      <4> QED BY <2>2, <4>1, <4>2, <4>3
    <3>3. At(Uncounted)' = At(Uncounted) /\ At(UncountedTimer)' = At(UncountedTimer)
      BY <3>2, AtGoes
    <3> QED BY <2>1, <3>1, <3>3
  <2>3. CASE AddEnqueues(p)
    <3>1. Cardinality(queue') = Cardinality(queue) + 1
      <4>1. <<p, made[p], timing[p]>> \notin queue
        BY <2>3, NewTimer DEF Recorded
      <4>2. queue' = queue \cup {<<p, made[p], timing[p]>>}
        BY <2>3 DEF AddEnqueues
      <4> QED BY <4>1, <4>2, FS_AddElement DEF Finite
    <3>2. /\ producerPC' = [producerPC EXCEPT ![p] = "signal"]
          /\ producerPC[p] = "enqueue"
          /\ UNCHANGED <<numQueuedEntries, numQueuedTimers>>
      BY <2>3 DEF AddEnqueues
    <3>3. /\ At(Uncounted)' = At(Uncounted) + 1
          /\ At(UncountedTimer)' = At(UncountedTimer) + 1
      BY <3>2, AtGoes DEF Uncounted, UncountedTimer
    <3> QED BY <1>1, <2>1, <3>1, <3>2, <3>3
  <2>4. CASE AddCountsEntry(p)
    <3>1. /\ producerPC' = [producerPC EXCEPT ![p] = "countTimer"]
          /\ producerPC[p] = "countEntry"
          /\ numQueuedEntries' = numQueuedEntries + 1
          /\ UNCHANGED <<queue, numQueuedTimers>>
      BY <2>4 DEF AddCountsEntry
    <3>a. /\ "countEntry" \in Uncounted /\ "countTimer" \notin Uncounted
          /\ "countEntry" \in UncountedTimer /\ "countTimer" \in UncountedTimer
      BY DEF Uncounted, UncountedTimer
    <3>2. /\ At(Uncounted)' = At(Uncounted) - 1
          /\ At(UncountedTimer)' = At(UncountedTimer)
      BY <3>1, <3>a, AtGoes
    <3> QED BY <1>1, <2>1, <3>1, <3>2
  <2>5. CASE AddCountsTimer(p)
    <3>1. /\ producerPC' = [producerPC EXCEPT ![p] = "idle"]
          /\ producerPC[p] = "countTimer"
          /\ numQueuedTimers' = numQueuedTimers + 1
          /\ UNCHANGED <<queue, numQueuedEntries>>
      BY <2>5 DEF AddCountsTimer
    <3>a. /\ "countTimer" \notin Uncounted /\ "idle" \notin Uncounted
          /\ "countTimer" \in UncountedTimer /\ "idle" \notin UncountedTimer
      BY DEF Uncounted, UncountedTimer
    <3>2. /\ At(Uncounted)' = At(Uncounted)
          /\ At(UncountedTimer)' = At(UncountedTimer) - 1
      BY <3>1, <3>a, AtGoes
    <3> QED BY <1>1, <2>1, <3>1, <3>2
  <2> QED BY <1>2, <2>2, <2>3, <2>4, <2>5 DEF Add
<1> USE DEF producerVars, consumerVars, controlVars, places, counts
<1>3. UNCHANGED producerVars => UNCHANGED <<At(Uncounted), At(UncountedTimer)>>
  BY DEF At
<1>4. CASE Takes
  <2>1. /\ Cardinality(queue) = Cardinality(queue') + Cardinality(inHand')
        /\ Cardinality(queue') \in Nat /\ Cardinality(inHand') \in Nat
    BY <1>4, QueueSplit DEF Takes, Finite
  <2>2. /\ HeldEntries = 0 /\ HeldEntries' = Cardinality(inHand')
        /\ HeldTimers = 0 /\ HeldTimers' = Cardinality(inHand')
    BY <1>4 DEF Takes, HeldEntries, HeldTimers, counting
  <2>3. UNCHANGED <<numQueuedEntries, numQueuedTimers, batch, flushed,
                    At(Uncounted), At(UncountedTimer)>>
    BY <1>3, <1>4 DEF Takes
  <2> QED BY <1>1, <2>1, <2>2, <2>3
<1>5. CASE CountsEntries
  <2>1. /\ HeldEntries = Cardinality(inHand) /\ HeldEntries' = 0
        /\ HeldTimers' = HeldTimers
    BY <1>5 DEF CountsEntries, HeldEntries, HeldTimers, counting
  <2>2. UNCHANGED <<numQueuedTimers, queue, batch, flushed,
                    At(Uncounted), At(UncountedTimer)>>
    BY <1>3, <1>5 DEF CountsEntries
  <2>3. numQueuedEntries' = numQueuedEntries - Cardinality(inHand)
    BY <1>5 DEF CountsEntries
  <2> QED BY <1>1, <2>1, <2>2, <2>3
<1>6. CASE CountsTimers
  <2>1. /\ HeldTimers = Cardinality(inHand) /\ HeldTimers' = 0
        /\ HeldEntries' = HeldEntries
    BY <1>6 DEF CountsTimers, HeldEntries, HeldTimers, counting
  <2>2. UNCHANGED <<numQueuedEntries, queue, batch, flushed,
                    At(Uncounted), At(UncountedTimer)>>
    BY <1>3, <1>6 DEF CountsTimers
  <2>3. numQueuedTimers' = numQueuedTimers - Cardinality(inHand)
    BY <1>6 DEF CountsTimers
  <2> QED BY <1>1, <2>1, <2>2, <2>3
<1>7. CASE Accepts \/ Refuses \/ HandsOn \/ Moves
  <2>1. UNCHANGED <<HeldEntries, HeldTimers>>
    BY <1>7 DEF Accepts, Refuses, HandsOn, Moves, HeldEntries, HeldTimers, counting
  <2>2. UNCHANGED <<numQueuedEntries, numQueuedTimers, queue, batch, flushed,
                    At(Uncounted), At(UncountedTimer)>>
    BY <1>3, <1>7 DEF Accepts, Refuses, HandsOn, Moves
  <2> QED BY <2>1, <2>2
<1>8. CASE FlushTakes
  <2>1. /\ Cardinality(queue) = Cardinality(queue') + Cardinality(batch')
        /\ Cardinality(queue') \in Nat /\ Cardinality(batch') \in Nat
    BY <1>8, QueueSplit DEF FlushTakes, Finite
  <2>2. Cardinality(batch) = 0
    BY <1>1, <1>8 DEF FlushTakes
  <2>3. UNCHANGED <<numQueuedEntries, numQueuedTimers, flushed, HeldEntries,
                    HeldTimers, At(Uncounted), At(UncountedTimer)>>
    BY <1>3, <1>8 DEF FlushTakes, HeldEntries, HeldTimers
  <2> QED BY <1>1, <2>1, <2>2, <2>3
<1>9. CASE FlushCounts
  <2>1. Cardinality(flushed') = Cardinality(flushed) + Cardinality(batch)
    <3>1. flushed \cap batch = {} /\ flushed' = flushed \cup batch
      BY <1>9 DEF FlushCounts, Apart
    <3>2. Cardinality(flushed') = Cardinality(flushed) + Cardinality(batch)
                                    - Cardinality({})
      BY <3>1, FS_Union DEF Finite
    <3> QED BY <1>1, <3>2
  <2>2. Cardinality(batch') = 0
    BY <1>1, <1>9 DEF FlushCounts
  <2>3. UNCHANGED <<numQueuedTimers, queue, HeldEntries, HeldTimers,
                    At(Uncounted), At(UncountedTimer)>>
    BY <1>3, <1>9 DEF FlushCounts, HeldEntries, HeldTimers
  <2>4. numQueuedEntries' = numQueuedEntries - Cardinality(batch)
    BY <1>9 DEF FlushCounts
  <2> QED BY <1>1, <2>1, <2>2, <2>3, <2>4
<1>10. CASE Clears \/ NextSession \/ Commands \/ UNCHANGED vars
  <2>1. UNCHANGED <<numQueuedEntries, numQueuedTimers, queue, batch, flushed,
                    At(Uncounted), At(UncountedTimer)>>
    BY <1>3, <1>10 DEF Clears, NextSession, Commands, vars
  <2>2. UNCHANGED <<HeldEntries, HeldTimers>>
    BY <1>10 DEF Clears, NextSession, Commands, vars, HeldEntries, HeldTimers,
                 counting
  <2> QED BY <2>1, <2>2
<1> QED BY <1>2, <1>4, <1>5, <1>6, <1>7, <1>8, <1>9, <1>10, Kinds

-----------------------------------------------------------------------------
(* The sessions of the timers, in the user interface.                      *)

\* What producers leave alone.
LEMMA ProducerKeeps ==
  ASSUME NEW p \in Producers, StartTimer(p) \/ Add(p)
  PROVE  UNCHANGED <<consumerVars, controlVars, out>>
BY DEF StartTimer, Add, AddTests, AddEnqueues, AddSignals, AddCountsEntry,
       AddCountsTimer, ProducerGoes

LEMMA RecentStep == TypeOK /\ Recent /\ [Next]_vars => Recent'
<1> SUFFICES ASSUME TypeOK, Recent, [Next]_vars PROVE Recent'
  OBVIOUS
<1> USE DEF producerVars, consumerVars, controlVars, places
<1>1. ASSUME NEW p \in Producers, StartTimer(p) \/ Add(p) PROVE Recent'
  <2>1. sessionID' = sessionID /\ inHand' = inHand /\ sessionID \in Nat
    BY <1>1, ProducerKeeps DEF TypeOK, Sessions
  <2>2. \A q \in Producers : timing'[q] <= sessionID
    BY <1>1, <2>1 DEF StartTimer, Add, AddTests, AddEnqueues, AddSignals,
                      AddCountsEntry, AddCountsTimer, Recent, TypeOK
  <2>3. \A t \in queue' : t[3] <= sessionID
    <3>1. CASE AddEnqueues(p)
      <4> DEFINE new == <<p, made[p], timing[p]>>
      <4>1. queue' = queue \cup {new} /\ new[3] = timing[p]
        BY <3>1 DEF AddEnqueues
      <4> HIDE DEF new
      <4> QED BY <4>1 DEF Recent
    <3>2. CASE queue' = queue
      BY <3>2 DEF Recent
    <3> QED BY <1>1, <3>1, <3>2 DEF StartTimer, Add, AddTests, AddSignals,
                AddCountsEntry, AddCountsTimer
  <2> QED BY <2>1, <2>2, <2>3 DEF Recent
<1>2. CASE Takes \/ FlushTakes
  BY <1>2 DEF Takes, FlushTakes, Recent
<1>3. CASE Refuses \/ HandsOn
  BY <1>3 DEF Refuses, HandsOn, Recent
<1>4. CASE \/ CountsEntries \/ CountsTimers \/ Accepts \/ Moves
           \/ FlushCounts \/ Clears \/ Commands \/ UNCHANGED vars
  BY <1>4 DEF CountsEntries, CountsTimers, Accepts, Moves, FlushCounts, Clears,
              Commands, vars, Recent
<1>5. CASE NextSession
  <2>1. sessionID \in Nat /\ sessionID' = sessionID + 1
    BY <1>5 DEF NextSession, TypeOK, Sessions
  <2>2. ASSUME NEW p \in Producers PROVE timing[p] <= sessionID + 1
    BY <2>1 DEF Recent, TypeOK, Sessions
  <2>3. ASSUME NEW t \in queue \cup inHand PROVE t[3] <= sessionID + 1
    <3>1. t[3] \in Nat /\ t[3] <= sessionID
      BY DEF Recent, TypeOK, Timers, Sessions
    <3> QED BY <2>1, <3>1
  <2> QED BY <1>5, <2>1, <2>2, <2>3 DEF NextSession, Recent
<1> QED BY <1>1, <1>2, <1>3, <1>4, <1>5, Kinds

\* An accepted timer is of the current session, and fits.
LEMMA AcceptedNow ==
  ASSUME TypeOK, Recent, NEW t \in inHand, SessionField(t[3]) = sessionID
  PROVE  t[3] = sessionID /\ t[3] < FirstUnfit
<1>1. t[3] \in Nat /\ sessionID \in Nat /\ t[3] <= sessionID
  BY DEF Recent, TypeOK, Timers, Sessions
<1>2. SessionField(t[3]) <= t[3] /\ SessionField(t[3]) < FirstUnfit
  BY <1>1, Field
<1> QED BY <1>1, <1>2, HalfType

LEMMA AcceptedStep ==
  TypeOK /\ Recent /\ Accepted /\ [Next]_vars => Accepted'
<1> SUFFICES ASSUME TypeOK, Recent, Accepted, [Next]_vars, ~IsClient
             PROVE  Accepted'
  BY DEF Accepted
<1> USE DEF consumerVars, controlVars, places
<1>1. ASSUME NEW p \in Producers, StartTimer(p) \/ Add(p) PROVE Accepted'
  BY <1>1, ProducerKeeps DEF Accepted
<1>2. CASE Takes
  BY <1>2 DEF Takes, Accepted
<1>3. CASE Accepts
  <2>1. \A t \in inHand : t[3] < FirstUnfit
    BY <1>3, AcceptedNow DEF Accepts, Accepted
  <2> QED BY <1>3, <2>1 DEF Accepts, Accepted, FirstUnfit
<1>4. CASE HandsOn
  BY <1>4 DEF HandsOn, Accepted, FirstUnfit
<1>5. CASE Refuses \/ Clears
  BY <1>5 DEF Refuses, Clears, Accepted
<1>6. CASE \/ CountsEntries \/ CountsTimers \/ Moves \/ FlushTakes
           \/ FlushCounts \/ NextSession \/ Commands \/ UNCHANGED vars
  BY <1>6 DEF CountsEntries, CountsTimers, Moves, FlushTakes, FlushCounts,
              NextSession, Commands, vars, counting, Accepted
<1> QED BY <1>1, <1>2, <1>3, <1>4, <1>5, <1>6, Kinds

LEMMA FewStaleStep ==
  TypeOK /\ Recent /\ Accepted /\ FewStale /\ [Next]_vars => FewStale'
<1> SUFFICES ASSUME TypeOK, Recent, Accepted, FewStale, [Next]_vars, ~IsClient,
                    controlPC' \notin {"start", "clear"}
             PROVE  \A s, t \in (Stale \cup Late)' : s = t
  BY DEF FewStale
<1> USE DEF consumerVars, controlVars, places
<1>1. CASE controlPC \notin {"start", "clear"} /\ (Stale \cup Late)' \subseteq Stale \cup Late
  BY <1>1 DEF FewStale
<1>2. ASSUME NEW p \in Producers, StartTimer(p) \/ Add(p)
      PROVE  \A s, t \in (Stale \cup Late)' : s = t
  BY <1>1, <1>2, ProducerKeeps DEF Stale, Late
<1>3. CASE Takes \/ CountsEntries \/ CountsTimers \/ Refuses \/ Moves
  BY <1>1, <1>3 DEF Takes, CountsEntries, CountsTimers, Refuses, Moves, counting,
                    Stale, Late
<1>4. CASE Accepts
  <2>1. \A t \in inHand : t[3] = sessionID
    BY <1>4, AcceptedNow DEF Accepts, Accepted
  <2> QED BY <1>1, <1>4, <2>1 DEF Accepts, Stale, Late
<1>5. CASE HandsOn
  BY <1>1, <1>5 DEF HandsOn, Stale, Late
<1>6. CASE Clears
  <2>1. Stale' = {}
    BY <1>6 DEF Clears, Stale
  <2>2. \A s, t \in Late' : s = t
    BY <1>6 DEF Clears, Late, Accepted
  <2> QED BY <2>1, <2>2
<1>7. CASE FlushTakes \/ FlushCounts
  BY <1>1, <1>7 DEF FlushTakes, FlushCounts, Stale, Late
<1>8. CASE Commands \/ UNCHANGED vars
  BY <1>1, <1>8 DEF Commands, vars, Stale, Late
<1>9. CASE NextSession
  BY <1>9 DEF NextSession
<1> QED BY <1>2, <1>3, <1>4, <1>5, <1>6, <1>7, <1>8, <1>9, Kinds

LEMMA RefusedStep == TypeOK /\ RefusedStale /\ [Next]_vars => RefusedStale'
<1> SUFFICES ASSUME TypeOK, RefusedStale, [Next]_vars PROVE RefusedStale'
  OBVIOUS
<1> USE DEF consumerVars, controlVars, places
<1>1. CASE Refuses
  <2> PICK t \in inHand : /\ SessionField(t[3]) # sessionID
                         /\ rejected' = rejected \cup {<<t, sessionID>>}
    BY <1>1 DEF Refuses
  <2>1. sessionID < FirstUnfit => t[3] # sessionID
    <3>1. t[3] \in Nat
      BY DEF TypeOK, Timers, Sessions
    <3> QED BY <3>1, Field
  <2> DEFINE r == <<t, sessionID>>
  <2>2. r[1] = t /\ r[2] = sessionID /\ rejected' = rejected \cup {r}
    OBVIOUS
  <2> HIDE DEF r
  <2> QED BY <2>1, <2>2 DEF RefusedStale, FirstUnfit
<1>2. CASE rejected' = rejected
  BY <1>2 DEF RefusedStale, FirstUnfit
<1>3. ASSUME NEW p \in Producers, StartTimer(p) \/ Add(p) PROVE rejected' = rejected
  BY <1>3, ProducerKeeps
<1>4. CASE \/ Takes \/ CountsEntries \/ CountsTimers \/ Accepts \/ HandsOn \/ Moves
           \/ FlushTakes \/ FlushCounts \/ Clears \/ NextSession \/ Commands
           \/ UNCHANGED vars
  BY <1>2, <1>4 DEF Takes, CountsEntries, CountsTimers, Accepts, HandsOn, Moves,
       FlushTakes, FlushCounts, Clears, NextSession, Commands, vars
<1> QED BY <1>1, <1>2, <1>3, <1>4, Kinds

-----------------------------------------------------------------------------
(* The event, and the sleep of the consumer.                               *)

LEMMA EventStep == TypeOK /\ EventOfConsumer /\ [Next]_vars => EventOfConsumer'
<1> SUFFICES ASSUME TypeOK, EventOfConsumer, [Next]_vars PROVE EventOfConsumer'
  OBVIOUS
<1> USE DEF EventOfConsumer, consumerVars
<1>1. ASSUME event' = Signal(event), consumerPC' = consumerPC
      PROVE  EventOfConsumer'
  BY <1>1 DEF Signal, TypeOK, Events
<1>2. ASSUME NEW p \in Producers, StartTimer(p) \/ Add(p) PROVE EventOfConsumer'
  BY <1>1, <1>2 DEF StartTimer, Add, AddTests, AddEnqueues, AddSignals,
                    AddCountsEntry, AddCountsTimer, ProducerGoes
<1>3. ASSUME NEW to \in {"checkExit", "checkCount"}, WaitArrive(to) \/ WaitWake(to)
      PROVE  EventOfConsumer'
  <2>1. CASE WaitArrive(to)
    BY <2>1 DEF WaitArrive, ConsumerGoes, Signaled, Arrive, TypeOK, Events
  <2>2. CASE WaitWake(to)
    BY <2>2 DEF WaitWake, ConsumerGoes, CanWake, Wake, TypeOK, Events
  <2> QED BY <1>3, <2>1, <2>2
<1>4. ASSUME consumerPC # "asleep", consumerPC' # "asleep", event' = event
      PROVE  EventOfConsumer'
  BY <1>4
<1>5. CASE ConsumeTimers
  <2>1. CASE ConsumeOuter \/ ConsumeLoop \/ ConsumeDequeue \/ ConsumeChecks
               \/ ConsumeCallback
    BY <1>4, <2>1 DEF ConsumeOuter, ConsumeLoop, ConsumeDequeue, ConsumeChecks,
       ConsumeCallback, ConsumerTests, ConsumerGoes
  <2>2. CASE CountDownEntries("countTimers") \/ CountDownTimers("checkSession")
    BY <1>4, <2>2 DEF CountDownEntries, CountDownTimers, ConsumerGoes
  <2> QED BY <1>3, <1>5, <2>1, <2>2 DEF ConsumeTimers
<1>6. CASE SendTimers
  <2>1. CASE SendOuter \/ SendWaitLoop \/ SendDequeue \/ SendBatch
    BY <1>4, <2>1 DEF SendOuter, SendWaitLoop, SendDequeue, SendBatch,
       ConsumerTests, ConsumerGoes
  <2>2. CASE CountDownEntries("countTimers") \/ CountDownTimers("send")
    BY <1>4, <2>2 DEF CountDownEntries, CountDownTimers, ConsumerGoes
  <2> QED BY <1>3, <1>6, <2>1, <2>2 DEF SendTimers
<1>7. CASE FlushSignal \/ StopSignal
  BY <1>1, <1>7 DEF FlushSignal, StopSignal
<1>8. CASE StartRecording \/ StartSampling
  BY <1>8 DEF StartRecording, StartSampling
<1>9. CASE \/ NewSession \/ ClearTimeGraph \/ StopRecording \/ FlushBegin
           \/ FlushDequeue \/ FlushCount \/ FlushEnd \/ StopBegin \/ StopJoin
           \/ UNCHANGED vars
  BY <1>9 DEF NewSession, ClearTimeGraph, StopRecording, FlushBegin, FlushDequeue,
     FlushCount, FlushEnd, StopBegin, StopJoin, vars
<1> QED BY <1>2, <1>5, <1>6, <1>7, <1>8, <1>9 DEF Next, Control, FlushQueue, Stop

LEMMA RequestsStep == TypeOK /\ Requests /\ [Next]_vars => Requests'
<1> SUFFICES ASSUME TypeOK, Requests, [Next]_vars PROVE Requests'
  OBVIOUS
<1> USE DEF Requests, Flushing, Stopping
<1>1. ASSUME UNCHANGED controlVars PROVE Requests'
  BY <1>1 DEF controlVars
<1>2. ASSUME NEW p \in Producers, StartTimer(p) \/ Add(p) PROVE Requests'
  BY <1>1, <1>2, ProducerKeeps
<1>3. CASE ConsumeTimers \/ SendTimers
  BY <1>1, <1>3, ConsumerKinds DEF Takes, CountsEntries, CountsTimers, Accepts,
     Refuses, HandsOn, Moves
<1>4. CASE Control
  BY <1>4 DEF Control, NewSession, StartRecording, StartSampling, ClearTimeGraph,
     StopRecording, FlushQueue, FlushBegin, FlushDequeue, FlushCount, FlushEnd,
     FlushSignal, StopBegin, Stop, StopSignal, StopJoin, ControlGoes
<1> QED BY <1>1, <1>2, <1>3, <1>4 DEF Next, vars, controlVars

LEMMA NotBegunStep == TypeOK /\ NotBegun /\ [Next]_vars => NotBegun'
<1> SUFFICES ASSUME TypeOK, NotBegun, [Next]_vars, ~IsClient,
                    consumerPC' = "none"
             PROVE  /\ ~isRecording' /\ queue' = {}
                    /\ \A p \in Producers : producerPC'[p] \in {"idle", "timing"}
  BY DEF NotBegun
<1>1. consumerPC = "none" => /\ ~isRecording /\ queue = {}
                             /\ \A p \in Producers : producerPC[p] \in {"idle", "timing"}
  BY DEF NotBegun
<1>2. ASSUME NEW p \in Producers, StartTimer(p) \/ Add(p) PROVE NotBegun'
  <2>1. consumerPC = "none" /\ UNCHANGED isRecording
    BY <1>2, ProducerKeeps DEF consumerVars, controlVars
  <2>2. producerPC[p] \in {"idle", "timing"}
    BY <1>1, <2>1
  <2>3. StartTimer(p) \/ AddTests(p)
    BY <1>2, <2>2 DEF Add, AddEnqueues, AddSignals, AddCountsEntry, AddCountsTimer,
                      ProducerGoes
  <2>4. queue' = queue /\ \A q \in Producers : producerPC'[q] \in {"idle", "timing"}
    BY <1>1, <2>1, <2>3 DEF StartTimer, AddTests, ProducerGoes, TypeOK
  <2> QED BY <1>1, <2>1, <2>4 DEF NotBegun
<1>3. CASE ConsumeTimers \/ SendTimers
  BY <1>3 DEF ConsumeTimers, SendTimers, ConsumeOuter, WaitArrive, WaitWake,
     ConsumeLoop, ConsumeDequeue, CountDownEntries, CountDownTimers, ConsumeChecks,
     ConsumeCallback, ConsumerTests, ConsumerGoes
<1>4. CASE StartRecording \/ StartSampling
  BY <1>4 DEF StartRecording, StartSampling
<1>5. CASE \/ NewSession \/ ClearTimeGraph \/ StopRecording \/ FlushBegin
           \/ FlushDequeue \/ FlushCount \/ FlushEnd \/ FlushSignal \/ StopBegin
           \/ StopSignal \/ StopJoin \/ UNCHANGED vars
  <2>1. consumerPC' = consumerPC /\ producerPC' = producerPC
    BY <1>5 DEF NewSession, ClearTimeGraph, StopRecording, FlushBegin, FlushDequeue,
       FlushCount, FlushEnd, FlushSignal, StopBegin, StopSignal, StopJoin,
       ControlGoes, vars, producerVars, consumerVars
  <2>2. isRecording' => isRecording
    BY <1>5 DEF NewSession, ClearTimeGraph, StopRecording, FlushBegin, FlushDequeue,
       FlushCount, FlushEnd, FlushSignal, StopBegin, StopSignal, StopJoin, vars,
       controlVars
  <2>3. queue' \subseteq queue
    BY <1>5 DEF NewSession, ClearTimeGraph, StopRecording, FlushBegin, FlushDequeue,
       FlushCount, FlushEnd, FlushSignal, StopBegin, StopSignal, StopJoin, vars
  <2> QED BY <1>1, <2>1, <2>2, <2>3
<1> QED BY <1>2, <1>3, <1>4, <1>5 DEF Next, Control, FlushQueue, Stop, NotBegun

LEMMA SleepStep ==
  TypeOK /\ EventOfConsumer /\ Requests /\ NotBegun /\ SleepIsSafe /\ [Next]_vars
    => SleepIsSafe'
<1> SUFFICES ASSUME TypeOK, EventOfConsumer, Requests, NotBegun, SleepIsSafe,
                    [Next]_vars, ~IsClient
             PROVE  SleepIsSafe'
  BY DEF SleepIsSafe
<1> USE DEF SleepIsSafe, Unsignaled, Promised
<1>1. ASSUME event' = Signal(event) PROVE ~Unsignaled'
  BY <1>1 DEF Signal, EventOfConsumer, TypeOK, Events
<1>2. ASSUME NEW p \in Producers, StartTimer(p) \/ Add(p) PROVE SleepIsSafe'
  <2>1. UNCHANGED <<consumerPC, controlPC>>
    BY <1>2, ProducerKeeps DEF consumerVars, controlVars
  <2>2. CASE AddEnqueues(p)
    BY <2>2 DEF AddEnqueues, ProducerGoes, TypeOK
  <2>3. CASE AddSignals(p)
    BY <1>1, <2>3 DEF AddSignals
  <2>4. CASE StartTimer(p) \/ AddTests(p) \/ AddCountsEntry(p) \/ AddCountsTimer(p)
    <3>1. UNCHANGED <<queue, event>>
      BY <2>4 DEF StartTimer, AddTests, AddCountsEntry, AddCountsTimer
    <3>2. \A q \in Producers : producerPC[q] = "signal" => producerPC'[q] = "signal"
      BY <2>4 DEF StartTimer, AddTests, AddCountsEntry, AddCountsTimer,
                  ProducerGoes, TypeOK
    <3> QED BY <2>1, <3>1, <3>2
  <2> QED BY <1>2, <2>2, <2>3, <2>4 DEF Add
<1>3. CASE ConsumeTimers
  <2>1. CASE ConsumeOuter
    BY <2>1 DEF ConsumeOuter, ConsumerTests, ConsumerGoes, producerVars, controlVars
  <2>2. CASE WaitArrive("checkExit")
    <3>1. CASE Signaled(event)
      BY <2>2, <3>1 DEF WaitArrive, ConsumerGoes
    <3>2. CASE ~Signaled(event)
      <4>1. Unsignaled /\ consumerPC = "wait"
        BY <2>2, <3>2 DEF WaitArrive, ConsumerGoes, Signaled, EventOfConsumer
      <4> QED BY <2>2, <4>1 DEF WaitArrive, ConsumerGoes, producerVars, controlVars
    <3> QED BY <3>1, <3>2
  <2>3. CASE ConsumeLoop
    <3>1. UNCHANGED <<queue, controlPC, producerPC>>
      BY <2>3 DEF ConsumeLoop, ConsumerTests, ConsumerGoes, producerVars, controlVars
    <3>2. consumerPC' \in {"none", "outer", "wait", "asleep"} =>
            flushRequested \/ exitRequested \/ queue = {}
      BY <2>3 DEF ConsumeLoop, ConsumerTests, ConsumerGoes
    <3> QED BY <3>1, <3>2 DEF Requests
  <2>4. CASE \/ WaitWake("checkExit") \/ ConsumeDequeue \/ ConsumeChecks
             \/ ConsumeCallback \/ CountDownEntries("countTimers")
             \/ CountDownTimers("checkSession")
    BY <2>4 DEF WaitWake, ConsumeDequeue, ConsumeChecks, ConsumeCallback,
       CountDownEntries, CountDownTimers, ConsumerTests, ConsumerGoes
  <2> QED BY <1>3, <2>1, <2>2, <2>3, <2>4 DEF ConsumeTimers
<1>4. CASE SendTimers
  BY <1>4 DEF SendTimers
<1>5. CASE FlushSignal \/ StopSignal
  BY <1>1, <1>5 DEF FlushSignal, StopSignal
<1>6. CASE StartRecording \/ StartSampling
  BY <1>6 DEF StartRecording, StartSampling, ControlGoes, producerVars, Flushing,
     Stopping
<1>7. CASE NewSession \/ ClearTimeGraph \/ StopRecording \/ UNCHANGED vars
  BY <1>7 DEF NewSession, ClearTimeGraph, StopRecording, ControlGoes, vars,
     producerVars, consumerVars, controlVars, Flushing, Stopping
<1>8. CASE \/ FlushBegin \/ FlushDequeue \/ FlushCount \/ FlushEnd
           \/ StopBegin \/ StopJoin
  <2>1. controlPC' \in Flushing \cup Stopping \cup {"flushSignal"}
    BY <1>8 DEF FlushBegin, FlushDequeue, FlushCount, FlushEnd, StopBegin, StopJoin,
       ControlGoes, Flushing, Stopping
  <2> QED BY <2>1
<1> QED BY <1>2, <1>3, <1>4, <1>5, <1>6, <1>7, <1>8
        DEF Next, Control, FlushQueue, Stop

-----------------------------------------------------------------------------
(* What a sleep of SendTimers can strand.                                  *)

LEMMA SignalWakes ==
  ASSUME TypeOK, EventOfConsumer, event' = Signal(event)
  PROVE  ~Unsignaled'
BY DEF Signal, EventOfConsumer, TypeOK, Events, Unsignaled

\* A step that makes nothing longer and sends nobody to sleep.
LEMMA StrandKeeps ==
  ASSUME Finite, Stranding, queue' \subseteq queue, At({"signal"})' = At({"signal"}),
         GoingToSleep' => GoingToSleep, At({"signal"}) \in Nat
  PROVE  Stranding'
<1>1. /\ Cardinality(queue) \in Nat /\ Cardinality(queue') \in Nat
      /\ Cardinality(queue') <= Cardinality(queue)
  BY FS_Subset, FS_CardinalityType DEF Finite
<1>2. Cardinality(Producers) \in Nat
  BY FS_CardinalityType
<1> HIDE DEF GoingToSleep
<1> QED BY <1>1, <1>2 DEF Stranding

\* The steps in flight are no more than the threads.
LEMMA AtMost == \A pcs : At(pcs) <= Cardinality(Producers) /\ Cardinality(Producers) \in Nat
<1> SUFFICES ASSUME NEW pcs
             PROVE  At(pcs) <= Cardinality(Producers) /\ Cardinality(Producers) \in Nat
  OBVIOUS
<1>1. {p \in Producers : producerPC[p] \in pcs} \in SUBSET Producers
  OBVIOUS
<1> QED BY <1>1, FS_Subset, FS_CardinalityType DEF At

LEMMA StrandStep ==
  TypeOK /\ Finite /\ Counted /\ EventOfConsumer /\ Stranding /\ [Next]_vars
    => Stranding'
<1> SUFFICES ASSUME TypeOK, Finite, Counted, EventOfConsumer, Stranding, [Next]_vars
             PROVE  Stranding'
  OBVIOUS
<1>a. At({"signal"}) \in Nat
  BY AtType
<1>1. ASSUME event' = Signal(event) PROVE Stranding'
  BY <1>1, SignalWakes DEF Stranding, GoingToSleep
<1>2. ASSUME NEW p \in Producers, StartTimer(p) \/ Add(p) PROVE Stranding'
  <2>1. consumerPC' = consumerPC
    BY <1>2, ProducerKeeps DEF consumerVars
  <2>2. CASE AddEnqueues(p)
    <3> DEFINE new == <<p, made[p], timing[p]>>
    <3>1. queue' = queue \cup {new} /\ event' = event
      BY <2>2 DEF AddEnqueues
    <3> HIDE DEF new
    <3>2. /\ Cardinality(queue) \in Nat /\ Cardinality(queue') \in Nat
          /\ Cardinality(queue') <= Cardinality(queue) + 1
      <4>1. IsFiniteSet(queue) /\ Cardinality(queue) \in Nat
        BY FS_CardinalityType DEF Finite
      <4>2. Cardinality(queue \cup {new}) =
              IF new \in queue THEN Cardinality(queue) ELSE Cardinality(queue) + 1
        BY <4>1, FS_AddElement, Zenon
      <4> QED BY <3>1, <4>1, <4>2
    <3>3. At({"signal"})' = At({"signal"}) + 1
      <4>1. /\ producerPC[p] \notin {"signal"} /\ "signal" \in {"signal"}
            /\ producerPC' = [producerPC EXCEPT ![p] = "signal"]
        BY <2>2 DEF AddEnqueues, ProducerGoes
      <4> QED BY <4>1, AtGoes
    <3>4. GoingToSleep' => GoingToSleep
      BY <2>1, <3>1 DEF GoingToSleep, Unsignaled
    <3> QED BY <1>a, <3>2, <3>3, <3>4, AtMost DEF Stranding
  <2>3. CASE AddSignals(p)
    BY <1>1, <2>3 DEF AddSignals
  <2>4. CASE StartTimer(p) \/ AddTests(p) \/ AddCountsEntry(p) \/ AddCountsTimer(p)
    <3>1. UNCHANGED <<queue, event>>
      BY <2>4 DEF StartTimer, AddTests, AddCountsEntry, AddCountsTimer
    <3>2. At({"signal"})' = At({"signal"})
      <4>1. \E to : /\ producerPC' = [producerPC EXCEPT ![p] = to]
                    /\ to \notin {"signal"} /\ producerPC[p] \notin {"signal"}
        <5> DEFINE Goes(to) == /\ producerPC' = [producerPC EXCEPT ![p] = to]
                               /\ to \notin {"signal"} /\ producerPC[p] \notin {"signal"}
        <5>1. Goes("timing") \/ Goes("enqueue") \/ Goes("idle") \/ Goes("countTimer")
          BY <2>4 DEF StartTimer, AddTests, AddCountsEntry, AddCountsTimer, ProducerGoes
        <5> QED BY <5>1
      <4> QED BY <4>1, AtGoes
    <3>3. GoingToSleep' => GoingToSleep
      BY <2>1, <3>1 DEF GoingToSleep, Unsignaled
    <3> QED BY <1>a, <3>1, <3>2, <3>3, StrandKeeps
  <2> QED BY <1>2, <2>2, <2>3, <2>4 DEF Add
<1>3. CASE ConsumeTimers
  BY <1>3 DEF ConsumeTimers, Stranding, GoingToSleep
<1>4. CASE SendTimers
  <2>1. queue' \subseteq queue /\ producerPC' = producerPC
    BY <1>4 DEF SendTimers, SendOuter, SendWaitLoop, WaitArrive, WaitWake,
       SendDequeue, CountDownEntries, CountDownTimers, SendBatch, ConsumerTests,
       ConsumerGoes, producerVars
  <2>2. At({"signal"})' = At({"signal"})
    BY <2>1 DEF At
  <2>3. CASE consumerPC = "checkCount" /\ consumerPC' = "checkWait"
    <3>1. numQueuedEntries <= 0 /\ queue' = queue
      BY <1>4, <2>3 DEF SendTimers, SendOuter, SendWaitLoop, WaitArrive, WaitWake,
         SendDequeue, CountDownEntries, CountDownTimers, SendBatch, ConsumerTests,
         ConsumerGoes
    <3>2. /\ HeldEntries = 0 /\ Cardinality(batch) \in Nat
          /\ Cardinality(queue) \in Nat
      BY <2>3, FS_CardinalityType DEF HeldEntries, Finite
    <3>3. /\ At(Uncounted) \in Nat /\ At(Uncounted) <= Cardinality(Producers)
          /\ Cardinality(Producers) \in Nat
      BY AtType, AtMost
    <3>4. Cardinality(queue) <= Cardinality(Producers)
      BY <3>1, <3>2, <3>3 DEF Counted
    <3> QED BY <1>a, <2>2, <3>1, <3>2, <3>3, <3>4 DEF Stranding
  <2>4. CASE ~(consumerPC = "checkCount" /\ consumerPC' = "checkWait")
    <3>1. GoingToSleep' => GoingToSleep
      <4>1. CASE WaitArrive("checkCount")
        <5>1. CASE Signaled(event)
          BY <4>1, <5>1 DEF WaitArrive, ConsumerGoes, GoingToSleep
        <5>2. CASE ~Signaled(event)
          BY <4>1, <5>2 DEF WaitArrive, ConsumerGoes, GoingToSleep, Signaled,
             EventOfConsumer, Unsignaled
        <5> QED BY <5>1, <5>2
      <4>2. CASE SendWaitLoop
        BY <2>4, <4>2 DEF SendWaitLoop, ConsumerTests, ConsumerGoes, GoingToSleep,
           Unsignaled
      <4>3. CASE \/ SendOuter \/ WaitWake("checkCount") \/ SendDequeue \/ SendBatch
                 \/ CountDownEntries("countTimers") \/ CountDownTimers("send")
        BY <4>3 DEF SendOuter, WaitWake, SendDequeue, SendBatch, CountDownEntries,
           CountDownTimers, ConsumerTests, ConsumerGoes, GoingToSleep
      <4> QED BY <1>4, <4>1, <4>2, <4>3 DEF SendTimers
    <3> QED BY <1>a, <2>1, <2>2, <3>1, StrandKeeps
  <2> QED BY <2>3, <2>4
<1>5. CASE FlushSignal \/ StopSignal
  BY <1>1, <1>5 DEF FlushSignal, StopSignal
<1>6. CASE \/ NewSession \/ StartRecording \/ StartSampling \/ ClearTimeGraph
           \/ StopRecording \/ FlushBegin \/ FlushDequeue \/ FlushCount \/ FlushEnd
           \/ StopBegin \/ StopJoin \/ UNCHANGED vars
  <2>1. queue' \subseteq queue
    BY <1>6 DEF NewSession, StartRecording, StartSampling, ClearTimeGraph,
       StopRecording, FlushBegin, FlushDequeue, FlushCount, FlushEnd, StopBegin,
       StopJoin, vars
  <2>2. event' = event
    BY <1>6 DEF NewSession, StartRecording, StartSampling, ClearTimeGraph,
       StopRecording, FlushBegin, FlushDequeue, FlushCount, FlushEnd, StopBegin,
       StopJoin, vars
  <2>3. producerPC' = producerPC
    BY <1>6 DEF NewSession, StartRecording, StartSampling, ClearTimeGraph,
       StopRecording, FlushBegin, FlushDequeue, FlushCount, FlushEnd, StopBegin,
       StopJoin, ControlGoes, producerVars, vars
  <2>4. consumerPC' \in {consumerPC, "outer"}
    BY <1>6 DEF NewSession, StartRecording, StartSampling, ClearTimeGraph,
       StopRecording, FlushBegin, FlushDequeue, FlushCount, FlushEnd, StopBegin,
       StopJoin, consumerVars, vars
  <2>5. At({"signal"})' = At({"signal"})
    BY <2>3 DEF At
  <2>6. GoingToSleep' => GoingToSleep
    BY <2>2, <2>4 DEF GoingToSleep, Unsignaled
  <2> QED BY <1>a, <2>1, <2>5, <2>6, StrandKeeps
<1> QED BY <1>2, <1>3, <1>4, <1>5, <1>6 DEF Next, Control, FlushQueue, Stop

-----------------------------------------------------------------------------
(* The invariant and the theorems.                                         *)

IInv == TypeOK /\ Finite /\ Ranked /\ Apart /\ Counted /\ Recent /\ Accepted
          /\ FewStale /\ RefusedStale
          /\ EventOfConsumer /\ Requests /\ NotBegun /\ SleepIsSafe /\ Stranding

LEMMA Initially == Init => IInv
<1> SUFFICES ASSUME Init PROVE IInv
  OBVIOUS
<1>1. TypeOK
  BY TypeInit
<1>2. /\ queue = {} /\ inHand = {} /\ batch = {} /\ out = {} /\ flushed = {}
      /\ rejected = {} /\ Refused = {}
  BY DEF Init, Refused
<1>3. Finite
  BY <1>2, FS_EmptySet DEF Finite
<1>4. Ranked /\ Apart
  BY <1>2 DEF Init, Ranked, Apart, Recorded
<1>5. Counted
  <2>1. At(Uncounted) = 0 /\ At(UncountedTimer) = 0
    <3>1. /\ {p \in Producers : producerPC[p] \in Uncounted} = {}
          /\ {p \in Producers : producerPC[p] \in UncountedTimer} = {}
      BY DEF Init, Uncounted, UncountedTimer
    <3> QED BY <3>1, FS_EmptySet DEF At
  <2>2. HeldEntries = 0 /\ HeldTimers = 0
    BY <1>2, FS_EmptySet DEF HeldEntries, HeldTimers
  <2>3. numQueuedEntries = 0 /\ numQueuedTimers = 0
    BY DEF Init
  <2> QED BY <1>2, <2>1, <2>2, <2>3, FS_EmptySet DEF Counted
<1>6. Recent
  BY <1>2 DEF Init, Recent
<1>7. Accepted /\ FewStale /\ RefusedStale
  BY <1>2 DEF Accepted, FewStale, Stale, Late, RefusedStale
<1>8. EventOfConsumer /\ Requests /\ NotBegun /\ SleepIsSafe
  BY <1>2 DEF Init, NewEvent, EventOfConsumer, Requests, NotBegun, SleepIsSafe
<1>9. Stranding
  BY DEF Init, Stranding, GoingToSleep
<1> QED BY <1>1, <1>3, <1>4, <1>5, <1>6, <1>7, <1>8, <1>9 DEF IInv

LEMMA Inductive == IInv /\ [Next]_vars => IInv'
BY TypeStep, FiniteStep, RankedStep, ApartStep, CountStep, RecentStep,
   AcceptedStep, FewStaleStep, RefusedStep, EventStep, RequestsStep, NotBegunStep,
   SleepStep, StrandStep DEF IInv

\* The invariant holds of every behaviour.
THEOREM Invariant == Spec => []IInv
BY Initially, Inductive, PTL DEF Spec

\* Every variable keeps its type, and the threads hold timers only where they
\* should.
THEOREM TypeCorrect == Spec => []TypeOK
<1>1. IInv => TypeOK
  BY DEF IInv
<1> QED BY <1>1, Invariant, PTL

\* m_NumQueuedEntries is the length of the queue up to the steps in flight, in
\* both roles.
THEOREM EntriesCorrect == Spec => []EntriesAccurate
<1>1. IInv => EntriesAccurate
  BY CountedBoth DEF IInv
<1> QED BY <1>1, Invariant, PTL

\* m_NumQueuedTimers is off by the timers that were ever flushed.
THEOREM TimersOff == Spec => []TimersDrift
<1>1. IInv => TimersDrift
  BY CountedBoth DEF IInv
<1> QED BY <1>1, Invariant, PTL

\* A recorded timer is in one place: no flush, refusal or dequeue of two
\* threads duplicates it.
THEOREM OneWay == Spec => []EachTimerOnce
<1>1. IInv => EachTimerOnce
  <2> SUFFICES ASSUME Apart PROVE EachTimerOnce
    BY DEF IInv
  <2> QED BY DEF Apart, EachTimerOnce
<1> QED BY <1>1, Invariant, PTL

\* The time graph shows one stale timer at most, once it was cleared.
THEOREM OneStale == ASSUME ~IsClient PROVE Spec => []AtMostOneStale
<1>1. IInv => AtMostOneStale
  <2> SUFFICES ASSUME FewStale, controlPC \notin {"start", "clear"}
               PROVE  Cardinality(Stale) <= 1
    BY DEF IInv, AtMostOneStale
  <2>1. \A s, t \in Stale : s = t
    BY DEF FewStale
  <2>2. CASE Stale = {}
    BY <2>2, FS_EmptySet
  <2>3. CASE Stale # {}
    <3>1. PICK t \in Stale : Stale = {t}
      BY <2>1, <2>3
    <3> QED BY <3>1, FS_Singleton
  <2> QED BY <2>2, <2>3
<1> QED BY <1>1, Invariant, PTL

\* The consumer of the user interface never sleeps on a queue with timers in
\* it once every Add and FlushQueue returned: it waits before it looks, and
\* each of them signals last.
THEOREM NoneLost == ASSUME ~IsClient PROVE Spec => []NoLostWakeup
<1>1. IInv => NoLostWakeup
  <2> SUFFICES ASSUME EventOfConsumer, SleepIsSafe, TypeOK, Quiet, ConsumerAsleep
               PROVE  queue = {}
    BY DEF IInv, NoLostWakeup
  <2>1. Unsignaled /\ consumerPC = "asleep"
    BY DEF ConsumerAsleep, CanWake, EventOfConsumer, Unsignaled, TypeOK, Events
  <2>2. ~Promised
    BY DEF Quiet, Promised, Flushing, Stopping
  <2> QED BY <2>1, <2>2 DEF SleepIsSafe
<1> QED BY <1>1, Invariant, PTL

\* In both roles a consumer that sleeps while every Add and FlushQueue returned
\* leaves no more timers in the queue than there are threads; the wake-up that
\* SendTimers can lose (TimerManager.cpp:205) delays no more.
THEOREM StrandsFew == Spec => []FewStranded
<1>1. ASSUME IInv PROVE FewStranded
  <2> SUFFICES ASSUME Quiet, ConsumerAsleep
               PROVE  Cardinality(queue) <= Cardinality(Producers)
    BY DEF FewStranded
  <2>1. TypeOK /\ EventOfConsumer /\ SleepIsSafe /\ Stranding
    BY <1>1 DEF IInv
  <2>2. Unsignaled /\ consumerPC = "asleep"
    BY <2>1 DEF ConsumerAsleep, CanWake, EventOfConsumer, Unsignaled, TypeOK, Events
  <2>3. Cardinality(Producers) \in Nat
    BY FS_CardinalityType
  <2>4. CASE IsClient
    <3>1. {p \in Producers : producerPC[p] \in {"signal"}} = {}
      BY DEF Quiet
    <3>2. At({"signal"}) = 0
      BY <3>1, FS_EmptySet DEF At
    <3> QED BY <2>1, <2>2, <2>3, <2>4, <3>2 DEF Stranding, GoingToSleep
  <2>5. CASE ~IsClient
    <3>1. ~Promised
      BY DEF Quiet, Promised, Flushing, Stopping
    <3>2. queue = {}
      BY <2>1, <2>2, <2>5, <3>1 DEF SleepIsSafe
    <3> QED BY <2>3, <3>2, FS_EmptySet
  <2> QED BY <2>4, <2>5
<1> QED BY <1>1, Invariant, PTL

\* What ConsumeTimers refuses is of another session while sessions fit in
\* their field; past its width the graph shows none of theirs.
THEOREM RefusedRightly == ASSUME ~IsClient PROVE Spec => []RefusedOnlyStale
<1>1. IInv => RefusedOnlyStale
  BY DEF IInv, RefusedStale, Accepted, RefusedOnlyStale
<1> QED BY <1>1, Invariant, PTL
===============================================================================
