---------------------------- MODULE CaptureSession ----------------------------
(***************************************************************************)
(* A capture from end to end.  The main thread of the Orbit user interface *)
(* starts and stops captures (OrbitCore/Capture.cpp); its messages reach   *)
(* the network thread of the library injected in the target               *)
(* (TcpClient.cpp, OrbitLib.cpp), which switches the instrumentation.  The *)
(* instrumented threads (Hijacking.cpp) send their call stacks, SendTimers *)
(* (TimerManager.cpp) their timers, and TcpServer::Receive drops what is   *)
(* not stamped with the session of the user interface.                     *)
(*                                                                         *)
(* The two ends stay connected.  The queues that TcpEntity and             *)
(* TimerManager model step by step are taken here by what they promise: a  *)
(* thread's packets are sent in order, a flush empties the queue.          *)
(***************************************************************************)
EXTENDS Integers, Sequences, FiniteSets

CONSTANTS Threads,      \* the instrumented threads of the target
          Functions,    \* the hooked functions, each with one call stack
          MaxCalls,     \* bound: the calls by each thread
          MaxSessions   \* bound: the captures started

ASSUME CaptureSessionAssumption ==
  /\ "timers" \notin Threads
  /\ MaxCalls \in Nat /\ MaxSessions \in Nat

Sessions == 0 .. MaxSessions
Senders  == Threads \cup {"timers"}   \* who calls Send in the target

VARIABLES
  \* the user interface
  hostSession,    \* Message::GSessionID
  hostPC,         \* where the main thread is in StartCapture, StopCapture
  hostRecording,  \* GTimerManager->m_IsRecording
  received,       \* the message Receive let through, not yet used
  hostQueue,      \* the timers ConsumeTimers has not seen
  callstacks,     \* GCallstacks
  graph,          \* the timers of the time graph
  disregarded,    \* <<timer, GSessionID>> for those Receive dropped
  \* the connection
  down,           \* messages to the target: queued or on the wire
  sendQueue,      \* messages to the user interface in the queue, by sender
  wire,           \* messages to the user interface on the wire
  \* the target
  session,        \* Message::GSessionID
  netPC,          \* where the network thread is in Orbit::Stop
  recording,      \* GTimerManager->m_IsRecording
  hooked,         \* the hooks are enabled
  threadPC, calls, calling,   \* each thread: where it is, calls, function
  tlsSession, sentCallstacks, \* each thread: TlsData
  timerSession,               \* each thread: its timer
  timerQueue,     \* GTimerManager->m_LockFreeQueue
  senderPC, header, batch     \* SendTimers

hostVars   == <<hostSession, hostPC, hostRecording, received, hostQueue,
                callstacks, graph, disregarded>>
netVars    == <<session, netPC, recording, hooked>>
threadVars == <<threadPC, calls, calling, tlsSession, sentCallstacks, timerSession>>
senderVars == <<senderPC, header, batch>>
vars == <<hostVars, down, sendQueue, wire, netVars, threadVars, timerQueue, senderVars>>

Init ==
  /\ hostSession = 0 /\ hostPC = "idle" /\ hostRecording = FALSE
  /\ received = <<>> /\ hostQueue = {} /\ callstacks = {} /\ graph = {}
  /\ disregarded = {}
  /\ down = <<>> /\ sendQueue = [s \in Senders |-> <<>>] /\ wire = <<>>
  /\ session = 0 /\ netPC = "idle" /\ recording = FALSE /\ hooked = FALSE
  /\ threadPC = [t \in Threads |-> "out"] /\ calls = [t \in Threads |-> 0]
  /\ calling \in [Threads -> Functions]
  /\ tlsSession = [t \in Threads |-> -1]
  /\ sentCallstacks = [t \in Threads |-> {}]
  /\ timerSession = [t \in Threads |-> 0]
  /\ timerQueue = {}
  /\ senderPC = "top" /\ header = 0 /\ batch = {}

-----------------------------------------------------------------------------
(* The main thread of the user interface: ToggleCapture.                   *)

HostGoes(from, to) ==
  /\ hostPC = from /\ hostPC' = to
  /\ UNCHANGED <<received, callstacks, disregarded, sendQueue, wire, netVars,
                 threadVars, timerQueue, senderVars>>

\* StartCapture: ++Message::GSessionID, Send( Msg_NewSession ).
StartCapture ==
  /\ ~hostRecording /\ hostSession < MaxSessions
  /\ HostGoes("idle", "record")
  /\ hostSession' = hostSession + 1
  /\ down' = Append(down, [type |-> "NewSession", session |-> hostSession + 1])
  /\ UNCHANGED <<hostRecording, hostQueue, graph>>

StartRecording ==
  /\ HostGoes("record", "clear")
  /\ hostRecording' = TRUE
  /\ UNCHANGED <<hostSession, hostQueue, graph, down>>

ClearTimeGraph ==
  /\ HostGoes("clear", "hooks")
  /\ graph' = {}
  /\ UNCHANGED <<hostSession, hostRecording, hostQueue, down>>

\* SendFunctionHooks: Send( Msg_StartCapture ), then the hooks.
SendFunctionHooks ==
  /\ HostGoes("hooks", "idle")
  /\ down' = down \o <<[type |-> "StartCapture", session |-> hostSession],
                       [type |-> "FunctionHook", session |-> hostSession]>>
  /\ UNCHANGED <<hostSession, hostRecording, hostQueue, graph>>

\* StopCapture, which does nothing before the library is injected; loading a
\* saved capture calls it whether or not one is running.  Bound: a capture that
\* is not running is stopped again only when the target has caught up.
StopCapture ==
  /\ hostSession > 0
  /\ hostRecording \/ down = <<>>
  /\ HostGoes("idle", "stop")
  /\ down' = Append(down, [type |-> "StopCapture", session |-> hostSession])
  /\ UNCHANGED <<hostSession, hostRecording, hostQueue, graph>>

StopRecording ==
  /\ HostGoes("stop", "idle")
  /\ hostRecording' = FALSE
  /\ hostQueue' = {}
  /\ UNCHANGED <<hostSession, graph, down>>

MainThread == StartCapture \/ StartRecording \/ ClearTimeGraph
              \/ SendFunctionHooks \/ StopCapture \/ StopRecording

-----------------------------------------------------------------------------
(* The other threads of the user interface.                                *)

HostKeeps == UNCHANGED <<hostSession, hostPC, hostRecording, down, sendQueue,
                         netVars, threadVars, timerQueue, senderVars>>

\* TcpServer::Receive: "Disregard messages from previous session".
Receive ==
  /\ wire # <<>> /\ received = <<>>
  /\ wire' = Tail(wire)
  /\ IF Head(wire).session = hostSession
       THEN /\ received' = <<Head(wire)>>
            /\ UNCHANGED disregarded
       ELSE /\ disregarded' = disregarded
                 \cup {<<t, hostSession>> : t \in Head(wire).timers}
            /\ UNCHANGED received
  /\ HostKeeps
  /\ UNCHANGED <<hostQueue, callstacks, graph>>

\* The switch of Receive: AddCallstack, or GTimerManager->Add.
ReceiveUses ==
  /\ received # <<>>
  /\ received' = <<>>
  /\ callstacks' = callstacks \cup received[1].stacks
  /\ hostQueue' = IF hostRecording THEN hostQueue \cup received[1].timers
                                   ELSE hostQueue
  /\ HostKeeps
  /\ UNCHANGED <<wire, graph, disregarded>>

\* Mutant: the session of the timer is not tested.
MutConsume ==
  /\ \E t \in hostQueue :
       /\ hostQueue' = hostQueue \ {t}
       /\ graph' = graph \cup {t}
  /\ HostKeeps
  /\ UNCHANGED <<received, wire, callstacks, disregarded>>

\* ConsumeTimers: a timer of another session is refused.
Consume ==
  /\ \E t \in hostQueue :
       /\ hostQueue' = hostQueue \ {t}
       /\ graph' = IF t.session = hostSession THEN graph \cup {t} ELSE graph
  /\ HostKeeps
  /\ UNCHANGED <<received, wire, callstacks, disregarded>>

-----------------------------------------------------------------------------
(* The network thread of the target: TcpClient::DecodeMessage.             *)

NetGoes(from, to) ==
  /\ netPC = from /\ netPC' = to
  /\ UNCHANGED <<hostVars, wire, threadVars, senderVars>>

Decodes(type) ==
  /\ down # <<>> /\ Head(down).type = type
  /\ down' = Tail(down)

\* Mutant: the target counts one too many.
MutDecodeNewSession ==
  /\ NetGoes("idle", "idle") /\ Decodes("NewSession")
  /\ session' = Head(down).session + 1
  /\ UNCHANGED <<sendQueue, recording, hooked, timerQueue>>

DecodeNewSession ==
  /\ NetGoes("idle", "idle") /\ Decodes("NewSession")
  /\ session' = Head(down).session
  /\ UNCHANGED <<sendQueue, recording, hooked, timerQueue>>

OrbitStart ==
  /\ NetGoes("idle", "idle") /\ Decodes("StartCapture")
  /\ recording' = TRUE
  /\ UNCHANGED <<sendQueue, session, hooked, timerQueue>>

EnableHooks ==
  /\ NetGoes("idle", "idle") /\ Decodes("FunctionHook")
  /\ hooked' = TRUE
  /\ UNCHANGED <<sendQueue, session, recording, timerQueue>>

\* Orbit::Stop: StopClient, with FlushQueue and FlushSendQueue, then
\* DisableAllHooks.
OrbitStop ==
  /\ NetGoes("idle", "flush") /\ Decodes("StopCapture")
  /\ recording' = FALSE
  /\ UNCHANGED <<sendQueue, session, hooked, timerQueue>>

FlushQueue ==
  /\ NetGoes("flush", "flushSend")
  /\ timerQueue' = {}
  /\ UNCHANGED <<down, sendQueue, session, recording, hooked>>

FlushSendQueue ==
  /\ NetGoes("flushSend", "disable")
  /\ sendQueue' = [s \in Senders |-> <<>>]
  /\ UNCHANGED <<down, session, recording, hooked, timerQueue>>

\* Mutant: the hooks stay.
MutDisableAllHooks ==
  /\ NetGoes("disable", "idle")
  /\ hooked' = hooked
  /\ UNCHANGED <<down, sendQueue, session, recording, timerQueue>>

DisableAllHooks ==
  /\ NetGoes("disable", "idle")
  /\ hooked' = FALSE
  /\ UNCHANGED <<down, sendQueue, session, recording, timerQueue>>

NetworkThread == DecodeNewSession \/ OrbitStart \/ EnableHooks \/ OrbitStop
                 \/ FlushQueue \/ FlushSendQueue \/ DisableAllHooks

-----------------------------------------------------------------------------
(* An instrumented thread: Prolog, the function, Epilog.                   *)

ThreadGoes(t, from, to) ==
  /\ threadPC[t] = from /\ threadPC' = [threadPC EXCEPT ![t] = to]
  /\ UNCHANGED <<hostVars, down, wire, netVars, senderVars>>

\* Mutant: m_SentCallstacks survives the session.
MutCheckTls(t, f) ==
  /\ hooked /\ calls[t] < MaxCalls
  /\ ThreadGoes(t, "out", "callstack")
  /\ calls' = [calls EXCEPT ![t] = calls[t] + 1]
  /\ calling' = [calling EXCEPT ![t] = f]
  /\ tlsSession' = [tlsSession EXCEPT ![t] = session]
  /\ sentCallstacks' = sentCallstacks
  /\ UNCHANGED <<timerSession, timerQueue, sendQueue>>

\* CheckTls, with CheckSessionId.
CheckTls(t, f) ==
  /\ hooked /\ calls[t] < MaxCalls
  /\ ThreadGoes(t, "out", "callstack")
  /\ calls' = [calls EXCEPT ![t] = calls[t] + 1]
  /\ calling' = [calling EXCEPT ![t] = f]
  /\ tlsSession' = [tlsSession EXCEPT ![t] = session]
  /\ sentCallstacks' = IF tlsSession[t] # session
                         THEN [sentCallstacks EXCEPT ![t] = {}]
                         ELSE sentCallstacks
  /\ UNCHANGED <<timerSession, timerQueue, sendQueue>>

\* "Send callstack once (*per thread* for now ...)"
SendCallstack(t) ==
  /\ ThreadGoes(t, "callstack", "start")
  /\ IF calling[t] \in sentCallstacks[t]
       THEN UNCHANGED <<sentCallstacks, sendQueue>>
       ELSE /\ sentCallstacks' =
                 [sentCallstacks EXCEPT ![t] = sentCallstacks[t] \cup {calling[t]}]
            /\ sendQueue' = [sendQueue EXCEPT ![t] =
                 Append(sendQueue[t], [session |-> session, timers |-> {},
                                       stacks |-> {calling[t]}])]
  /\ UNCHANGED <<calls, calling, tlsSession, timerSession, timerQueue>>

\* Timer::Start stores the session in the timer.
TimerStart(t) ==
  /\ ThreadGoes(t, "start", "in")
  /\ timerSession' = [timerSession EXCEPT ![t] = session]
  /\ UNCHANGED <<calls, calling, tlsSession, sentCallstacks, timerQueue, sendQueue>>

\* Epilog: GTimerManager->Add tests m_IsRecording, then enqueues.
AddTests(t) ==
  /\ ThreadGoes(t, "in", IF recording THEN "add" ELSE "out")
  /\ UNCHANGED <<calls, calling, tlsSession, sentCallstacks, timerSession,
                 timerQueue, sendQueue>>

AddEnqueues(t) ==
  /\ ThreadGoes(t, "add", "out")
  /\ timerQueue' = timerQueue \cup {[thread |-> t, call |-> calls[t],
                                     session |-> timerSession[t]]}
  /\ UNCHANGED <<calls, calling, tlsSession, sentCallstacks, timerSession, sendQueue>>

Instrumented(t) == (\E f \in Functions : CheckTls(t, f)) \/ SendCallstack(t)
                   \/ TimerStart(t) \/ AddTests(t) \/ AddEnqueues(t)

-----------------------------------------------------------------------------
(* SendTimers, and the sender thread of the TcpClient.                     *)

SenderGoes(from, to) ==
  /\ senderPC = from /\ senderPC' = to
  /\ UNCHANGED <<hostVars, down, wire, netVars, threadVars>>

\* Message Msg(Msg_Timer), constructed before the wait.
SendTimersTop ==
  /\ SenderGoes("top", "wait")
  /\ header' = session
  /\ UNCHANGED <<batch, timerQueue, sendQueue>>

\* The wait for a non-empty queue ends; try_dequeue_bulk.
SendTimersDequeues ==
  /\ SenderGoes("wait", "send")
  /\ \E S \in SUBSET timerQueue :
       /\ S # {}
       /\ batch' = S
       /\ timerQueue' = timerQueue \ S
  /\ UNCHANGED <<header, sendQueue>>

SendTimersSends ==
  /\ SenderGoes("send", "top")
  /\ sendQueue' = [sendQueue EXCEPT !["timers"] =
       Append(sendQueue["timers"], [session |-> header, timers |-> batch,
                                    stacks |-> {}])]
  /\ batch' = {}
  /\ UNCHANGED <<header, timerQueue>>

SendTimers == SendTimersTop \/ SendTimersDequeues \/ SendTimersSends

\* TcpEntity::SendData writes the oldest packet of some sender.
SendData ==
  /\ \E s \in Senders :
       /\ sendQueue[s] # <<>>
       /\ sendQueue' = [sendQueue EXCEPT ![s] = Tail(sendQueue[s])]
       /\ wire' = Append(wire, Head(sendQueue[s]))
  /\ UNCHANGED <<hostVars, down, netVars, threadVars, timerQueue, senderVars>>

-----------------------------------------------------------------------------
Next == \/ MainThread
        \/ Receive \/ ReceiveUses \/ Consume
        \/ NetworkThread
        \/ \E t \in Threads : Instrumented(t)
        \/ SendTimers \/ SendData

Spec == Init /\ [][Next]_vars

\* The threads run; nobody has to start or stop a capture, but what the main
\* thread began it finishes.
Fairness ==
  /\ WF_vars(StartRecording \/ ClearTimeGraph \/ SendFunctionHooks \/ StopRecording)
  /\ WF_vars(NetworkThread)

FairSpec == Spec /\ Fairness

-----------------------------------------------------------------------------
(* Properties.                                                             *)

\* The two ends agree whenever nothing is under way between them: the target
\* is in the session of the user interface, and it is instrumented and records
\* exactly while the user interface does.
Settled == hostPC = "idle" /\ down = <<>> /\ netPC = "idle"
EndsAgree ==
  Settled => /\ session = hostSession
             /\ recording = hostRecording
             /\ hooked = hostRecording

\* Once StartCapture has cleared the time graph it shows timers of the session
\* alone, although the target may still send timers started in an earlier one.
\* (ConsumeTimers compares and hands on in one step here; see TimerManager.)
GraphOfSession ==
  hostPC \notin {"record", "clear"} => \A t \in graph : t.session = hostSession

\* A thread does not believe the user interface has a call stack that it will
\* never have: in a running capture, what m_SentCallstacks holds for the
\* session was received, or is on its way with the stamp of the session.
InFlight ==
  {wire[i] : i \in 1 .. Len(wire)} \cup {received[i] : i \in 1 .. Len(received)}
    \cup UNION {{sendQueue[s][i] : i \in 1 .. Len(sendQueue[s])} : s \in Senders}
CallstacksNotForgotten ==
  recording /\ session = hostSession =>
    \A t \in Threads : tlsSession[t] = session =>
      \A f \in sentCallstacks[t] :
        f \in callstacks \/ \E m \in InFlight : f \in m.stacks /\ m.session = session

\* "Disregard messages from previous session": a timer that Receive drops
\* belongs to another session than the one the user interface is in.
DisregardOnlyPrevious == \A d \in disregarded : d[1].session # d[2]

\* A capture that was stopped stops in the target, unless another one starts:
\* nothing is left hooked.
Stopped == hostPC = "idle" /\ ~hostRecording
StopReachesTarget ==
  Stopped ~> (~hooked /\ ~recording /\ down = <<>>) \/ hostPC = "record"

=============================================================================
