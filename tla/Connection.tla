------------------------------ MODULE Connection ------------------------------
(***************************************************************************)
(* The connections between Orbit and the libraries in its targets: the     *)
(* accepted sockets and the one current connection of tcp_server (Tcp.cpp),*)
(* injection and target changes on the main thread (Capture.cpp), the      *)
(* start of the library in a target (OrbitLib.cpp, TcpClient.cpp), and     *)
(* targets that exit.                                                      *)
(*                                                                         *)
(* Every process has at most one library and hence one connection, named   *)
(* by the process.  A disconnected target keeps both: Msg_Unload only      *)
(* stops its hooks, when it arrives at all, and the next message the       *)
(* target sends makes its connection the current one again.                *)
(***************************************************************************)
EXTENDS Integers, Sequences

CONSTANTS Local, Remote,  \* processes: on this machine, on another one
          Nobody,         \* no process
          MaxCaptures, MaxTimers, MaxSelects  \* bounds: what is done in a run

Processes == Local \cup Remote

VARIABLES
  target, injected, connection,  \* GTargetProcess, GInjected, m_Connection
  session, recording,  \* GSessionID of Orbit, m_IsRecording
  mainPC, next,        \* where the main thread is; the target to select
  sendQueue,           \* of the sender thread
  socketOpen, seen,    \* processes: socket accepted and open; heard of
  down, up,            \* each connection: messages under way
  library,             \* each process: how far its library is, or "gone"
  libSession, capturing,   \* each library: its GSessionID, StartClient was
  accepted,    \* history: <<session, process>> of the timers received
  retargeted,  \* history: the target was changed during the recording
  crashed,     \* the sender thread terminated Orbit
  selects, timers  \* counters for the bounds

mainVars == <<target, injected, session, recording, mainPC, next>>
netVars  == <<socketOpen, down, up>>
libVars  == <<library, libSession, capturing>>
pastVars == <<accepted, retargeted>>
vars == <<mainVars, connection, sendQueue, netVars, seen, libVars, pastVars,
          crashed, selects, timers>>

Init ==
  /\ target = Nobody /\ injected = FALSE /\ connection = Nobody
  /\ session = 0 /\ recording = FALSE /\ mainPC = "idle" /\ next = Nobody
  /\ sendQueue = <<>> /\ socketOpen = {} /\ seen = {}
  /\ down = [p \in Processes |-> <<>>] /\ up = [p \in Processes |-> <<>>]
  /\ library = [p \in Processes |->
       IF p \in Remote THEN "loading" ELSE "absent"]
  /\ libSession = [p \in Processes |-> 0]
  /\ capturing = {} /\ accepted = {}
  /\ retargeted = FALSE /\ crashed = FALSE
  /\ selects = 0 /\ timers = 0

-----------------------------------------------------------------------------
(* The main thread of Orbit.                                               *)

Main(from, to) ==
  /\ ~crashed
  /\ mainPC = from /\ mainPC' = to
  /\ UNCHANGED <<netVars, seen, libSession, capturing, accepted, crashed,
                 timers>>

Send(messages) == sendQueue' = sendQueue \o messages

\* SetTargetProcess, up to Disconnect
SelectTarget(p) ==
  /\ selects < MaxSelects /\ p # target
  /\ p \in Remote => p \in seen
  /\ Main("idle", IF p \in Local THEN "disconnect" ELSE "select")
  /\ injected' = FALSE
  /\ next' = p
  /\ selects' = selects + 1
  /\ retargeted' = (retargeted \/ recording)
  /\ UNCHANGED <<target, connection, session, recording, sendQueue, library>>

\* tcp_server::Disconnect: Msg_Unload, then m_Connection = nullptr
DisconnectSends ==
  /\ Main("disconnect", "drop")
  /\ Send(IF connection = Nobody THEN <<>> ELSE <<[type |-> "Unload"]>>)
  /\ UNCHANGED <<target, injected, connection, session, recording, next,
                 library, retargeted, selects>>

DisconnectClears ==
  /\ Main("drop", IF next = target THEN "inject" ELSE "select")
  /\ connection' = Nobody
  /\ UNCHANGED <<target, injected, session, recording, next, sendQueue,
                 library, retargeted, selects>>

SetTargetProcess ==
  /\ Main("select", "idle")
  /\ target' = next
  /\ UNCHANGED <<injected, connection, session, recording, next, sendQueue,
                 library, retargeted, selects>>

\* ToggleCapture while nothing is recorded; Connect injects if need be.
ToggleOn ==
  /\ target # Nobody /\ ~recording /\ session < MaxCaptures
  /\ LET connects == target \in Local /\ ~injected
     IN  /\ connects => library[target] \in {"absent", "gone"}
         /\ Main("idle", IF connects THEN "disconnect" ELSE "start")
  /\ next' = target
  /\ UNCHANGED <<target, injected, connection, session, recording, sendQueue,
                 library, retargeted, selects>>

\* Injection::Inject starts OrbitInit in the target, or fails.
Inject ==
  /\ Main("inject", "wait")
  /\ \/ /\ library[target] = "absent"
        /\ library' = [library EXCEPT ![target] = "loading"]
     \/ UNCHANGED library
  /\ injected' = (library'[target] = "loading")
  /\ UNCHANGED <<target, connection, session, recording, next, sendQueue,
                 retargeted, selects>>

\* HasConnection within the fifty tries, or never
InjectWaits ==
  /\ \/ Main("wait", "start") /\ connection # Nobody /\ injected
     \/ Main("wait", "idle")
  /\ injected' = (mainPC' = "start")
  /\ UNCHANGED <<target, connection, session, recording, next, sendQueue,
                 library, retargeted, selects>>

\* The rest of StartCapture
StartCapture ==
  /\ Main("start", "idle")
  /\ injected' = TRUE
  /\ session' = session + 1
  /\ recording' = TRUE /\ retargeted' = FALSE
  /\ Send(<<[type |-> "NewSession", session |-> session'],
            [type |-> "StartCapture"]>>)
  /\ UNCHANGED <<target, connection, next, library, selects>>

\* Capture::StopCapture
StopCapture ==
  IF injected THEN recording' = FALSE /\ Send(<<[type |-> "StopCapture"]>>)
              ELSE UNCHANGED <<recording, sendQueue>>

\* ToggleCapture during a recording
ToggleOff ==
  /\ recording
  /\ Main("idle", "idle")
  /\ injected \* the early return changes nothing
  /\ StopCapture
  /\ UNCHANGED <<target, injected, connection, session, next, library,
                 retargeted, selects>>

\* Mutant: GInjected is cleared before the capture is stopped.
MutUpdate ==
  /\ Main("idle", "tick")
  /\ injected' = (injected /\ connection # Nobody)
  /\ UNCHANGED <<target, connection, session, recording, next, sendQueue,
                 library, retargeted, selects>>

\* Capture::Update of a frame
Update ==
  /\ Main("idle", "tick")
  /\ IF injected /\ connection = Nobody
       THEN StopCapture /\ injected' = FALSE
       ELSE UNCHANGED <<injected, recording, sendQueue>>
  /\ UNCHANGED <<target, connection, session, next, library, retargeted,
                 selects>>

Gone == connection \notin socketOpen

\* Mutant: a connection is taken for an open one.
MutSocketGone == connection = Nobody

\* socket == nullptr || !socket->m_Socket->is_open()
SocketGone == Gone

\* TcpServer::MainThreadTick, after it
MainThreadTick ==
  /\ Main("tick", "idle")
  /\ IF injected /\ recording /\ SocketGone
       THEN StopCapture
       ELSE UNCHANGED <<recording, sendQueue>>
  /\ UNCHANGED <<target, injected, connection, session, next, library,
                 retargeted, selects>>

-----------------------------------------------------------------------------
(* The sender thread and the network thread of Orbit.                      *)

\* SendData: a packet without an open socket is dropped; a write to a target
\* that has exited is lost, or throws, and Orbit terminates.
SendData ==
  /\ ~crashed /\ sendQueue # <<>>
  /\ sendQueue' = Tail(sendQueue)
  /\ IF Gone THEN UNCHANGED <<down, crashed>>
     ELSE IF library[connection] = "gone"
     THEN crashed' \in BOOLEAN /\ UNCHANGED down
     ELSE /\ down' = [down EXCEPT ![connection] = Append(@, Head(sendQueue))]
          /\ UNCHANGED crashed
  /\ UNCHANGED <<mainVars, connection, socketOpen, up, seen, libVars,
                 pastVars, selects, timers>>

NetworkKeeps ==
  /\ ~crashed
  /\ UNCHANGED <<mainVars, sendQueue, down, libVars, retargeted, crashed,
                 selects, timers>>

\* Mutant: the session is not compared.
MutAccepts(m) == m.type = "Timer"

\* TcpServer::Receive lets a timer of the current session through.
Accepts(m) == m.type = "Timer" /\ m.session = session

\* DecodeMessage: whoever sent it is the current connection.
Receive(p) ==
  /\ p \in socketOpen /\ up[p] # <<>>
  /\ connection' = p
  /\ seen' = seen \cup {p}
  /\ up' = [up EXCEPT ![p] = Tail(@)]
  /\ accepted' = IF Accepts(Head(up[p])) THEN accepted \cup {<<session, p>>}
                                         ELSE accepted
  /\ UNCHANGED socketOpen
  /\ NetworkKeeps

\* ReadMessage fails: the socket is closed; m_Connection stays.
ReadFails(p) ==
  /\ p \in socketOpen /\ library[p] = "gone"
  /\ socketOpen' = socketOpen \ {p}
  /\ up' = [up EXCEPT ![p] = <<>>]
  /\ UNCHANGED <<connection, seen, accepted>>
  /\ NetworkKeeps

-----------------------------------------------------------------------------
(* The library in a target.                                                *)

Library(p, from, to) ==
  /\ ~crashed
  /\ library[p] = from /\ library' = [library EXCEPT ![p] = to]
  /\ UNCHANGED <<mainVars, connection, sendQueue, seen, pastVars, crashed,
                 selects>>

\* Orbit::Init: the TcpClient connects, whether or not it is waited for.
Connect(p) ==
  /\ Library(p, "loading", "starting")
  /\ socketOpen' = socketOpen \cup {p}
  /\ UNCHANGED <<down, up, libSession, capturing, timers>>

\* TcpClient::Start: the first message; messages are read from now on.
Start(p) ==
  /\ Library(p, "starting", "reading")
  /\ up' = [up EXCEPT ![p] = Append(@, [type |-> "String", session |-> 0])]
  /\ UNCHANGED <<socketOpen, down, libSession, capturing, timers>>

\* GTimerManager = new TimerManager
CreateTimerManager(p) ==
  /\ Library(p, "reading", "ready")
  /\ UNCHANGED <<netVars, libSession, capturing, timers>>

\* Without a timer manager a start is ignored and a stop is a null pointer.
Decode(p) ==
  /\ library[p] \in {"reading", "ready"} /\ down[p] # <<>>
  /\ LET m == Head(down[p])
         stops == m.type \in {"StopCapture", "Unload"}
     IN  /\ Library(p, library[p],
              IF stops /\ library[p] = "reading" THEN "gone" ELSE library[p])
         /\ libSession' = IF m.type = "NewSession"
              THEN [libSession EXCEPT ![p] = m.session] ELSE libSession
         /\ capturing' = CASE stops -> capturing \ {p}
              [] m.type = "StartCapture" /\ library[p] = "ready"
                   -> capturing \cup {p}
              [] OTHER -> capturing
  /\ down' = [down EXCEPT ![p] = Tail(@)]
  /\ UNCHANGED <<socketOpen, up, timers>>

\* A timer, in a message with the session of the library
SendTimer(p) ==
  /\ p \in capturing /\ timers < MaxTimers
  /\ Library(p, "ready", "ready")
  /\ timers' = timers + 1
  /\ up' = [up EXCEPT ![p] =
              Append(@, [type |-> "Timer", session |-> libSession[p]])]
  /\ UNCHANGED <<socketOpen, down, libSession, capturing>>

\* The target exits, whatever it is doing.
Exit(p) ==
  /\ library[p] # "gone"
  /\ Library(p, library[p], "gone")
  /\ capturing' = capturing \ {p}
  /\ down' = [down EXCEPT ![p] = <<>>]
  /\ UNCHANGED <<socketOpen, up, libSession, timers>>

-----------------------------------------------------------------------------
MainThread == \/ DisconnectSends \/ DisconnectClears \/ SetTargetProcess
              \/ Inject \/ InjectWaits \/ StartCapture
              \/ Update \/ MainThreadTick

User == ToggleOn \/ ToggleOff \/ \E p \in Processes : SelectTarget(p)

Network(p) == Receive(p) \/ ReadFails(p)

Target(p) == \/ Connect(p) \/ Start(p) \/ CreateTimerManager(p)
             \/ Decode(p) \/ SendTimer(p) \/ Exit(p)

Next == \/ User \/ MainThread \/ SendData
        \/ \E p \in Processes : Network(p) \/ Target(p)

\* The frame timer drives the main thread, the io_service the network
\* thread; neither the user nor a target has to do anything.
Spec == Init /\ [][Next]_vars
FairSpec == /\ Spec /\ WF_vars(MainThread) /\ WF_vars(SendData)
            /\ \A p \in Processes : WF_vars(Network(p))

-----------------------------------------------------------------------------
(* Properties.                                                             *)

\* Targets that were left behind keep sending, and their messages make their
\* connection the current one; a Msg_NewSession may go to any of them.  Still
\* the timers of one capture come from one process: each session is
\* announced once, and timers of other sessions are refused
\* (Tcp.cpp:337-341, TcpServer.cpp:98-103, Capture.cpp:185-186).
OneProcessPerCapture ==
  \A a, b \in accepted : a[1] = b[1] /\ a[1] > 0 => a[2] = b[2]

\* The user can stop a recording, StopCapture does not return early for it,
\* unless the target was changed since it began: no other path clears
\* GInjected and leaves m_IsRecording set
\* (Capture.cpp:134, Capture.cpp:213, Capture.cpp:459-463).
StopWorks == recording /\ ~injected => retargeted

\* A recording whose connection is gone for good is stopped, whether the
\* connection was closed or dropped; only a recording whose target was
\* changed may last, since StopCapture returns early then
\* (Capture.cpp:459-463, TcpServer.cpp:225-232, Capture.cpp:213).
CaptureStops ==
  (recording /\ Gone) ~> (~recording \/ ~Gone \/ retargeted \/ crashed)
=============================================================================
