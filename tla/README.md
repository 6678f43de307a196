# Formal models of Orbit

Orbit (`src/`) is a profiler for native programs. A user interface (`OrbitGl`, `OrbitQt`) injects a
library (`OrbitDll`, `OrbitCore`, `OrbitAsm`) in a running process, hooks functions in it and draws
the timers, call stacks and samples the library sends back over TCP. This directory models its core
logic in TLA+: the path of a function timer from the hooked call to the time graph, the targets that
come and go at the other end of a connection, sampling, and the loading of symbols. TLC checks the
models on small instances; TLAPS proves every safety property that a passing run checks for every
value of the constants.

## Inventory

| Component | State | Operations | What is hard | What makes it correct |
|---|---|---|---|---|
| **TcpEntity** (`OrbitCore/TcpEntity.cpp`), base of TcpServer and TcpClient | lock-free send queue, its atomic count, an auto-reset event, two request flags, a sender thread, a socket | `SendMsg` from any thread; `SendData` (the sender thread); `FlushSendQueue`; `Stop` | enqueue, count and signal are three steps; two threads dequeue; the count goes negative; stop against sleep | no packet is duplicated, forgotten or reordered within a thread; no sleep on a full queue; `Stop` returns and is final |
| **AutoResetEvent** (vendored) | status, semaphore | `signal`, `wait` | preemption between the status and the semaphore | a signal is kept for the next waiter |
| **TimerManager** (`OrbitCore/TimerManager.cpp`) | lock-free queue of timers, counts of entries and of timers, event, recording, flush and exit flags, a consumer thread | `Add`; `ConsumeTimers` (user interface) or `SendTimers` (target); start and stop of the recording; `FlushQueue`; `Stop` | `Add` signals before it counts; the session changes between a test and its use; the session field of a timer has 8 bits | timers go one way, captures do not mix, counts are right, `Stop` returns |
| **Hijacking** (`OrbitCore/Hijacking.cpp`, `OrbitAsm`) | per thread: return addresses, timers, contexts, zone stack, session, depth; hooks of MinHook | prologs and epilogs of eight kinds of hook; enabling and disabling hooks | hooks change while threads are inside hooked functions; several hooks share a return slot; a zone may be hooked on one side only | functions return to their callers; the stack walk sees the true stack; epilogs find what they pop; timers measure what they claim |
| **Capture** (`OrbitCore/Capture.cpp`, `TcpServer.cpp`, `TcpClient.cpp`, `OrbitLib.cpp`) | session numbers on both sides, recording flags, hooks, call stacks received | `StartCapture`, `StopCapture`; decoding of the messages; the filter on sessions | two processes and four queues that learn of a new session at different times | the ends agree once settled; the graph shows one session; no call stack is forgotten; a stop reaches the target |
| **Connections** (`OrbitCore/Tcp.cpp`) | accepted sockets, the current connection | accept, `RegisterConnection`, `Disconnect`, read loop, websocket adapter | any message re-registers its connection; `Disconnect` queues a message for the socket it forgets; a target exits | the timers of a capture come from one process; a recording without a connection ends |
| **Injection** (`OrbitCore/Injection.cpp`, `Capture::Inject`) | `GInjected`, the library in the target | inject, poll for a connection | a connection after the poll gave up; messages read before the library is ready | a recording can always be stopped |
| **Time graph** (`OrbitGl/TimeGraph.cpp`, `BlockChain.h`, `MemoryTracker.cpp`) | chains of timer blocks, context switches by core, live allocations | add, clear, look up, draw, pair switches | read and trimmed while it grows; block boundaries; half of a run never told, or told late by the thread of an older trace | an iteration sees all items in order; what was added is found at its index; boxes of a core are its runs |
| **Sampling and ETW** (`SamplingProfiler.cpp`, `EventTracer.cpp`, `EventCallbacks.cpp`) | state of each profiler, call stacks and their counts | start, stop, sample, process, report, select | nothing joins any thread; a profiler is replaced while threads hold it | a report misses almost nothing and is shown once; sampling ends |
| **Modules** (`ModuleManager.cpp`, `Pdb.cpp`, `App.cpp`) | two queues of modules to load, one current Pdb, loading threads | commands, load, completion callback, presets | the callback starts the next load, then runs on; an early callback | every module asked for is loaded; presets meet a loaded Pdb; the window comes back |
| **Debugger launch** (`OrbitGl/Debugger.cpp`) | frozen start address | launch, debug events | Win32 debug events | the start address is restored |
| **Symbols and types** (`DiaParser.cpp`, `TypeInfo.cpp`, `OrbitType.cpp`) | parsed data | parsing | formats | data without a protocol |
| **User interface** (`App.cpp`, `CaptureWindow.cpp`, `orbitmainwindow.cpp`) | views, the enabled window | commands, one frame after another, drawing | the frame polls what other threads do | commands are answered |

How they interact: the main thread of the user interface calls `Capture`, which changes the session,
the `TimerManager` of its process and sends messages through `TcpServer` (a TcpEntity). In the
target the network thread of `TcpClient` decodes them and calls `Orbit::Start`, `Orbit::Stop` and
`Hijacking`. Instrumented threads run prologs and epilogs, which call `TcpClient::Send` (call
stacks) and `TimerManager::Add` (timers). `SendTimers` moves timers to the send queue. In the user
interface `TcpServer::Receive` filters by session and calls `TimerManager::Add`; `ConsumeTimers`
calls back `CaptureWindow::OnTimerAdded`, which fills the `TimeGraph`. Which target is at the other
end is up to `tcp_server`; the thread of `ProcessTrace` that each trace starts, and nobody joins,
feeds the current `SamplingProfiler` with call stacks and the time graph with context switches. Once per frame the main thread runs
`Capture::Update`, `TcpServer::MainThreadTick` and `Pdb::Update`, which notice what the other
threads did.

## Modules

| Module | Models | Properties by |
|---|---|---|
| `AutoResetEvent` | the event; a library of operators | its users |
| `SendChannel` | abstract: what the send path promises | |
| `TcpEntity`, `TcpEntityProofs` | the send path | TLC, TLAPS |
| `TimerManager`, `TimerManagerProofs` | the timer queue in both roles | TLC, TLAPS |
| `Hijacking`, `MCHijacking`, `HijackingProofs` | prologs and epilogs of one thread | TLC, TLAPS |
| `CaptureSession`, `CaptureSessionProofs` | captures from end to end, over one connection | TLC, TLAPS |
| `Connection`, `ConnectionProofs` | targets, injection, connections, and the loss of each | TLC, TLAPS |
| `Sampling`, `SamplingProofs` | profilers, event tracing, processing, reports, selections | TLC, TLAPS |
| `SymbolLoading`, `SymbolLoadingProofs` | commands, queues and threads that load symbols | TLC, TLAPS |
| `BlockChain` | the chain of blocks of the time graph, the batcher and the profiler | `MCTimeGraph` |
| `CoreActivity` | the core time line of the time graph | `MCTimeGraph` |
| `MCTimeGraph`, `TimeGraphProofs` | both parts of the time graph for one run, and the proofs about both | TLC, TLAPS |

### TcpEntity

Every shared access is an action: `Enqueue`, `Count`, `SignalSender` are the three statements of
`SendMsg`; the tests of `SendData`'s loops (`OuterLoop`, `WaitLoop`, `SendLoop`) each read one
atomic; `wait()` is two actions because the thread can be preempted between `fetch_sub` and the
semaphore. `senderPC`, `producerPC` and `controlPC` say where each thread is. The queue of
moodycamel orders the packets of one producer only, so it is a set from which some producer's oldest
packet is taken (`Oldest`), or a batch closed under that order (`Bulk`). It is linearizable here: an
empty answer means an empty queue. Packets are `<<producer, rank>>`; their bytes are abstracted. A
write to an open socket succeeds; an exception of `asio::write`, which ends the process, is not
modelled. Flushes and `Stop` are called by one control thread, as in the program. `dropped`,
`flushed` and `wire` record where a packet went.

`SendChannel` hides all that: a set of pending packets that are delivered in the order of each
sender or lost, and nothing more once closed. `Channel` is the refinement mapping: what is queued or
held by the sender is pending, a batch the flusher dequeued is lost at once.

### TimerManager

One module for both roles, as in the code: `IsClient` chooses `SendTimers` or `ConsumeTimers`. The
four statements of `Add` are four actions in the code's order, signal before count. The control
thread is the main thread of the user interface (new session, `StartRecording`, clear of the time
graph, `StartSampling`, `StopRecording` with `FlushQueue`, `Stop`) or the network thread of the
target. `SessionField` is the conversion of the session, an int, to the `int8_t` of
`Timer::m_SessionID`, with the number of values as a constant. `m_LockFreeMessageQueue` is left out:
no code calls `Add(const Message&)`.

### Hijacking

A frame of the stack holds its return slot as it is in memory. A prolog is two actions, entering
(`CheckTls`, `PushContext`, `PushReturnAddress`) and the body (stack walk, `Timer::Start`, and the
stub writing its epilog in the slot), so the network thread may start a session between them. An
epilog stops the timer, pops and goes to the original address, possibly the epilog of a stub that
had jumped to the function. `Writes`, `OriginalAddress` and `OverridenAddress` define what the loops
of `SetOriginalReturnAddresses` and `SetOverridenReturnAddresses` leave in memory, including the
rule that a slot just written is skipped. Hooks are enabled one kind at a time, in the order of
`Function::OrbitType`, as the messages do. `site`, `acts`, `zones`, `closes`, `sent`, `landed`,
`torn` and `base` are history: no action's guard of the code depends on them. The instrumented
program calls and returns at will, pairs `OrbitStart` and `OrbitStop` as `ORBIT_SCOPE` does, and
jumps from stubs. One thread suffices: the state is thread-local but for session, recording and
hooks, and the network thread changes those.

### CaptureSession

Two processes: main, receiving and consuming threads of the user interface; network, instrumented,
`SendTimers` and sender threads of the target. The queues modelled step by step above are taken here
by what they promise (order per thread, flush empties). Messages carry the session stamped when they
were constructed: `SendTimersTop` stamps before the wait, as line 172 does.

### Connection

`CaptureSession` takes the connection for granted; `Connection` takes the capture for granted and
asks who is at the other end. It keeps every accepted socket, the one `m_Connection`, the messages
under way each way, and how far the library of every process is (`absent`, `loading`, `starting`,
`reading`, `ready`, `gone`). A process has one connection at most, named by the process. The main
thread goes step by step through `SetTargetProcess`, `Disconnect`, `Inject` and its wait,
`StartCapture`, and the two checks of a frame, `Update` and `MainThreadTick`; the sender and network
threads and the targets interleave with all of it. Faults: an injection that fails; a wait that
gives up although the library connects later; a target that exits at any step, so that the write to
it is lost or throws in the sender thread (`crashed`: nothing catches it); a stop that reaches a
library before its timer manager exists, which ends that target.

`Receive` makes the connection of whoever sent the message the current one, as `DecodeMessage` does:
a target that was left behind comes back with its next message. A target on another machine loads
its library by itself. `accepted` and `retargeted` are history.

Left out: the websocket side; a second `OrbitInit` in a process whose library is already there (it
replaces the `TcpClient` under its own threads, which is undefined behaviour: `ToggleOn` is
guarded); what a stopped library does, since `Msg_Unload` only calls `Orbit::Stop` and the library
stays loaded and connected.

### Sampling

Profilers are numbered in the order they are made and keep everything a thread may still hold of
them after they were replaced. Each trace has a thread of `ProcessTrace` that tests the state of the
profiler it found current, then pushes; each profiler has a thread that processes its samples; the
main thread starts, stops, changes the target, toggles the two options behind `IsTrackingEvents`,
selects call stacks and polls `Update`. All call stacks are one, so `m_UniqueCallstacks` has one
entry or none, or the null one a selection leaves. Two uses are outside what the code supports and
are recorded (`misused`): selecting another target while threads of a capture run, and selecting
call stacks before they are processed; `CrashOnlyByRace` says that without them one race is left.

### SymbolLoading

The module list and the session list put modules in the application's queue, or names in
`ModuleManager`'s; one load at a time begins, in a thread of its own; the frame (`Pdb::Update`, then
the messages to the window) finds it finished, runs the callback, which starts the next load,
applies the presets, resets `m_FinishedLoading` and works off the messages. One field of a record,
`q`, holds the queues and the current Pdb. A command given during a load makes the model remember
`overlapped`: such a command can abandon loads, since it replaces the callback and the current Pdb,
and the properties exempt it. The early callback of `ModuleManager.cpp:135`, which runs before the
last module of a session is loaded, is part of the model; without an overlapping command it does no
harm, and that is what `QuietMeansDone` shows. Deadlock is checked here: the frame never stops.

### BlockChain

A chain in two roles. In the time graph the consumer of timers adds without a lock, one action per
shared access of `Block::Add`, while the main thread iterates (`operator*`, `++` and `!=` each in
its steps), calls `keep`, and clears. In the batcher the main thread does all: it fills, resets and
looks up by index. Blocks and items are numbered. `clear` during a `push_back` frees the block under
the writer: the model notes it (`raced`) and says nothing of what follows.

### CoreActivity

Cores run threads of the one target or `Nobody`. A switch of a core, while the kernel logger runs,
is an event in the buffers of its trace. Each trace has a thread of `ProcessTrace`, which
`EventTracer::Start` detaches and nothing joins: `Stop` closes the trace, the thread goes on to
deliver what is buffered, and when the next capture records it passes the test of `Callback` again,
beside the thread of the new trace. So each trace has one event in hand at most, the traces
interleave, and the events of a trace come in any order, or never, since the code does not say that
they are sorted (`TimeGraph.cpp:313`). `ProcessContextSwitch` handles an event in two steps, In of
the new thread and Out of the old one, each if the thread is known to belong to the target then;
`AddContextSwitch` pairs an Out with the newest switch of the core if that is an In, and inserts the
switch in a map that holds one per time. Threads become known when a trace lists them, which may be
after they ran, and are forgotten when they end or `EventTracing::Reset` clears the map. The main
thread starts and stops the recording and the trace in steps of their own: a recording may have no
trace, when events are not tracked, and a trace may be started while another is open, which it
stops. `boxes` are the timers given to `TimerManager::Add`; what `FlushQueue` then discards, and
what the consumer draws, is the concern of `TimerManager` and `CaptureSession`. `told` and `ran` are
history: what `AddContextSwitch` was called with, and the runs whose end it was told.

Neither the maps of `AddContextSwitch` nor `GThreadToProcessMap` have a lock. `Collide` is the step
where two threads may be at them at once; it notes so (`collided`), and nothing is said of what
follows. All that the threads do one after the other, in every order, is checked. A thread event,
from its test to the map, is one step. `m_ContextSwitchesMap`, which is written and never read, is
left out.

`MCTimeGraph` puts the two parts in one run. They share no variable, so each behaviour explores one.

## Runs

Each run takes at most about three minutes with two workers. Deadlock is checked in `symbols`, and
off elsewhere because the systems stop: after `Stop`, or when the bounds on calls, packets and
sessions are used up.

| Run | Bounds | What it shows |
|---|---|---|
| `tcp` | 2 threads x 2 packets; fair | counts exact up to the steps in flight; no lost wake-up; order and uniqueness on the wire; refinement of `SendChannel`; a queued packet leaves the queue; `Stop` returns |
| `timers_host` | 2 threads x 1 timer, 2 captures, 4 session values (-2..1, so the second capture does not fit); fair | counts; the drift of `m_NumQueuedTimers`; no lost wake-up; timers go one way; at most one stale timer per graph; refusals, before and past the width; queued timers are consumed |
| `timers_client` | 2 threads x 2 timers, 1 capture, 256 session values; fair | a lost wake-up strands no more timers than there are threads that add; `Stop` returns |
| `timers_lost_wakeup` | 2 threads x 1 timer | **violated**, see Findings |
| `hijack` | 3 frames, 4 calls, 2 captures; five kinds of hook | functions return to their callers; epilogs find what they pop, and leave nothing behind once all have run; timers are faithful; depth; the stack walk sees the true stack |
| `capture` | 1 thread x 2 calls, 1 function, 2 captures; fair main and network threads | the ends agree; one session in the graph; call stacks are not forgotten; a stop reaches the target |
| `capture_stamp` | 1 thread x 1 call, 1 capture | **violated**, see Findings |
| `connection` | 1 local and 1 remote target, 2 captures, 2 timers, 3 changes of target; fair main, sender and network threads | one process per capture; a recording can be stopped unless its target was changed; it ends when the connection is gone |
| `sampling` | 2 profilers after the first, 2 samples; fair polling and processing | a report misses one sample per event thread at most; it is shown once; one race left; sampling ends |
| `sampling_selection` | 1 profiler, 1 sample | **violated**, see Findings |
| `symbols` | 2 modules and a name no module has, 2 commands; fair frame and loading threads | every module asked for is loaded, sessions are applied; presets meet a loaded Pdb; the window comes back |
| `time_graph` | blocks of 2, at most 1 timer kept beyond a block, 9 items; 2 cores, 2 threads, 4 switches, 2 captures, 2 traces | `keep` spares the writer's block; an iteration sees everything in order; lookups; boxes are the runs that were told in time and are disjoint, whatever trace thread tells them and in whatever order |

Why the bounds are enough. Two producers are what it takes for one to be between its steps while
another completes a call, and two packets from each for order to mean something; the sender, the
flusher and the stopper are one thread each in the program. Two captures give every stale session;
four values of the session field give one that fits and one that does not, at the cost of 2 captures
where the program needs 128. A nested zone takes two frames; two hooks on a slot take two, and their
walk a third. In `connection` a target of each kind is one that stays behind and one that is
current, and three changes leave one, come back and leave again. In `sampling` two profilers are the
one that is processed and the one that replaced it, two samples one before and one after the stop.
In `symbols` two modules are what it takes for a load to begin in the callback of another, and the
second command is the one that overlaps. Nine items in blocks of two fill four blocks, of which
`keep` and a reset leave some. Four switches are two runs of each core, or on one core a run in the
buffers of each of two traces, a run cut by the end of a capture, and a hand-over; two traces are the
one that drains and the one that records. Cores and threads are symmetric, and only invariants are
checked there. The state spaces are complete within the bounds, up to five million states.

Fairness is weak fairness on each thread's own steps: the operating system runs a thread that can
run. Nobody is obliged to call `Send`, to start, stop or flush, to select or to exit; what was begun
is finished. In `tcp` the sender gets it as a whole (`WF_vars(SendData)`), each producer for the
rest of a call, the control thread for the rest of a flush or a stop; in the timer runs the consumer
and each `Add` likewise. In `capture` only the main thread, once it began, and the network thread
are fair: TCP delivers in order while the ends stay connected. In `connection` the frame timer
drives the main thread, the sender thread runs, and the network thread of Orbit reads what arrived
or finds the socket broken; no target has to do anything. In `sampling` the frame polls `Update` and
the processing threads run; no event has to arrive and no trace thread has to end. In `symbols` the
frame and the loading threads run.

## Proofs

Eight modules prove the safety properties that the runs check for every value of the constants. No
property below is inductive alone; each module builds an invariant `IInv`, model-checked before it
was proved, gives every conjunct a lemma for its step and joins them in the theorem.

| Module | Theorem | States |
|---|---|---|
| `TcpEntityProofs` | `TypeCorrect`, `CountCorrect` | `[]TypeOK`, `[]CountAccurate` |
| | `NoLostWakeups` | `[]NoLostWakeup` |
| | `WireOrdered`, `OnePlace` | `[]WireInOrder`, `[]EachPacketOnce` |
| | `StopIsFinal` | `NothingAfterStop` |
| | `Refinement` | `Spec => Channel!Spec`, with `SendChannel` |
| `TimerManagerProofs` | `TypeCorrect`, `EntriesCorrect`, `TimersOff` | `[]TypeOK`, `[]EntriesAccurate`, `[]TimersDrift` |
| | `OneWay` | `[]EachTimerOnce` |
| | `OneStale`, `RefusedRightly` | `[]AtMostOneStale`, `[]RefusedOnlyStale`, in the user interface |
| | `NoneLost` | `[]NoLostWakeup`, in the user interface |
| | `StrandsFew` | `[]FewStranded`, in both roles |
| `HijackingProofs` | `ReturnsRight`, `WalksRight` | `[]ReturnsToCaller`, `[]WalkSeesCallers` |
| | `PopsFind`, `PushesPopped` | `[]NeverPopsEmpty`, `[]PushesMatchPops` |
| | `DepthNests` | `[]DepthIsNesting` |
| | `SentRight` | `[]SentFaithful` |
| `CaptureSessionProofs` | `Agreement`, `OneSession` | `[]EndsAgree`, `[]GraphOfSession` |
| | `NothingForgotten` | `[]CallstacksNotForgotten` |
| | `SessionsGrow` | `SessionGrows`: a target never goes back to a session |
| `ConnectionProofs` | `OneProcess` | `[]OneProcessPerCapture` |
| | `StopDoesWork` | `[]StopWorks` |
| | `KnownToOne` | `[]OneKnowsEach`: no two targets bear the same session |
| `TimeGraphProofs` | `TypeCorrect`, `CurrentSpared` | `[]TypeOK`, `[]KeepSparesCurrent` |
| | `AllSeenInOrder`, `Picks` | `[]SeesAllInOrder`, `[]PicksWhatWasDrawn` |
| | `RunsBoth` | `MCSpec => Spec /\ ActivitySpec`: the parts are used as they are |
| | `Disjoint`, `Runs` | `[]BoxesDisjoint`, `[]BoxesAreRuns` |
| `SamplingProofs` | `TypeCorrect` | `[]TypeOK` |
| | `MissesOneEach`, `OneReport` | `[]SamplesCounted`, `[]ReportedOnce` |
| | `OneCrash` | `[]CrashOnlyByRace` |
| `SymbolLoadingProofs` | `TypeCorrect` | `[]TypeOK` |
| | `AllDone`, `PresetsSafe` | `[]QuietMeansDone`, `PresetsOnLoaded` |

**TcpEntityProofs**, for every finite set of producers and every number of packets
(`TcpEntityAssumption`). `IInv` adds: `Finite` (queue and batch are finite sets, so that their
cardinalities are numbers); `Sent` (whatever is queued or held has a rank its producer has reached,
so the next packet is new); `EventOfSender` (the event's status and semaphore as functions of where
the sender is: only one thread ever waits); `SleepIsSafe` (a sender that is about to sleep, or
asleep, without a signal pending has a non-positive count, unless some thread is about to signal),
which with `CountAccurate` gives `NoLostWakeup`; `SenderGone` (past the join the sender is done);
`WrittenFirst` (a packet on the wire precedes the queued packets of its producer), which carries
`WireInOrder` over a write; `Apart` and `Somewhere` (the six places of a packet share none, and hold
every packet given to `Send`).

**TimerManagerProofs**, for every set of producers, number of timers and sessions, even number of
session values and both roles (`TimerManagerAssumption`). `Ranked` says that the timer a thread is
about to add is nowhere yet, so adding it makes the queue one longer; `Apart` that the six places of
a timer share none; with them, `Counted` follows the two counts through every step. Most actions
move timers between two places or count, so lemmas for those kinds of step serve many actions. For
the graph: `Recent` (no timer is of a session to come), `Accepted` (the consumer holds one timer,
whose session fits its field), `FewStale` (of the graph and the timer about to join it, one is stale
at most), `RefusedStale`. For `NoneLost`: `EventOfConsumer` (the event as a function of where the
consumer is), `Requests` and `NotBegun` (when its two requests can be pending), and `SleepIsSafe` (a
consumer about to sleep without a signal has an empty queue, unless some thread is about to signal).
The theorem is about the user interface alone: in the target the property is false, as the first
finding shows. `StrandsFew` says how far it is wrong there. `Stranding` counts: when the consumer
finds its count at zero, the queue is no longer than the number of threads between their enqueue
and their count; from then on, until a signal wakes the consumer, the
queue can only grow by timers whose threads have yet to signal. When nobody is between its steps and
the consumer sleeps, what is left is one timer a thread at most.

**HijackingProofs**, for any kinds of hook, depth of the stack and number of calls and captures
(`HijackingAssumption`). `Placed` (the records lie in the order of their frames), `Chained` (the first
record of a frame holds its caller's address, each other one the stub of the record before) and
`Held` (a slot holds the stub of its last record) give `ReturnsToCaller`: an epilog leaves a frame
with its first record, whose address is the caller's. `Rooted` (each chain has a first record) makes
that record the one the walk writes, hence `WalkSeesCallers`. `Enough` counts: open timers cover the
records whose epilogs pop one and the zones `OrbitStop` will close, so nothing empty is popped; and
when no hooked function is left on the stack, `Placed` and `Faithful` leave no return address and no
timer of the session behind, the other half of `PushesMatchPops`.
`SentRight` needs to know which call each open timer is of. `Nested` orders the calls along the
stack: what a frame has open is older than what the frames above it have, and an `OrbitStop` closes
the newest zone of its caller. `Linked` gives each frame one record per hooked function, so an epilog
ends the newest one. `Ordered` puts the timers in the order of their calls and sessions: if the last
one is not of the session, none is. `Faithful` compares the two sides while nothing is torn: no timer
of the session is left behind, every function opened after the first of them has one, and the zones
that `m_ZoneStack` counts are the innermost open ones. `Noticed` says that an `OrbitStop` in progress
has seen the session, so that the count it tests is of it. The last timer is then that of the newest
call or zone that is open, which is what the epilog ends.

**CaptureSessionProofs**, for any number of threads, calls and captures. `SessionAgrees`,
`RecordingAgrees` and `HooksAgree` each follow one variable of the target: the last message under
way that sets it leaves it as the user interface wants it (`Capturing`), and without such a message
it is so already, or `Orbit::Stop` has begun and not yet unhooked. With no message under way and both
threads idle they say `EndsAgree`. `NothingForgotten` needs more: `Ordered` (the sessions of the
messages on the way down only grow, so a `Msg_NewSession` is new to the target, which is
`SessionsGrow`) and `StopsLast` (a
session that was stopped is not started again, so the flush of `Orbit::Stop` cannot hit one that is
still to record). With them `Believed` holds from the time a session reaches the target: what a
thread sent for it was received, or is in a queue with the session's stamp.

**ConnectionProofs**, for any sets of targets and any bounds. `Owned` follows a session number. It
is announced by one message; while that message waits in Orbit's queue no target bears the number;
when it is sent, to whatever connection is current then, that process alone bears it, in its queue,
its library, what it sends, or what was accepted from it. `Stopped` (nothing is recorded while a
target is being injected) gives `StopWorks`.

**TimeGraphProofs**, for every block size, limit and number of items (`BlockChainAssumption`).
`Filled` (blocks before the current one are full, blocks after it empty), `Writing` (where the
writer may be in which block) and `Counted` (the counters) give `KeepSparesCurrent`; `Placed` gives
every item its number by counting back from the last one, so an iterator that leaves a full block
finds the next number in the next, and `Reading` says that one that leaves a block it found partly
filled has seen all it has to. `Picks` is arithmetic on top: `Division` (quotient and remainder of
the index by the block size are unique), `StopsAt` (the block where the walk of `SlowAt` stops) and
`ItemAt` (the item at an offset of a block, by `Placed`) say which item the lookup answers.

Of the core time line, for any cores, threads and bounds. `Apart` says that the runs of a core follow
each other, and `Past` that none ends later than the core's last switch. `Gaps` is what replaces an
order of delivery: whatever was told of a core lies outside every run whose end is still to be told,
but for the In of the next thread at its end, which the first half of the event puts there. `Mapped`
says what the map of a core knows of what was told: a time each, and every In. So when an end is told
and nothing later was (`StartsFrom`), the newest switch of the map is the In of the next thread at
that time, or else the beginning of the run if that was told, and otherwise older than the run; if
something later was told, the box starts there and is upside down. `Ended` (no box ends after the
newest switch of its core) makes a new box, which starts at that switch, disjoint from all others,
although the map survives from one capture to the next.
`RunsBoth` carries both results to the time graph as it is model-checked.

**SamplingProofs**, for any number of profilers and samples (`SamplingAssumption`). `Processed` reads
the state of a profiler from where its processing thread is: none of its samples is counted before
the walk, and afterwards the chain holds at most those that came later. `Missed` counts: the samples
the walk missed, and those about to be added, are no more than the event threads there were, because
each of them tested the state once before the walk. `Untouched` and `Unmade` keep a profiler to one
processing; `Guarded` (what a thread holds is current or kept) excludes every crash but the race.

**SymbolLoadingProofs**, for any modules and any number of commands (`SymbolLoadingAssumption`: the
values for no Pdb and for an unknown name are not modules). `TypeCorrect` holds of every behaviour.
The properties exempt commands given during a load, so the invariant `Order` is claimed only while
there was none. `Pending` holds the loads that have begun and whose report has not, and `OneLoad` says
there is at most one, that of the current Pdb, so that replacing `GPdbDbg` abandons none. `Waiting`
says that what is queued is neither loaded nor pending, which is why the queue of the application
never meets a module it has to skip and stops there; `GoesOn`, that whoever could take the next load
is still to run. `Asked` accounts for every module asked for and every preset, in a queue, pending or
done, and `Window` for the last message. Each action that starts a load does so when nothing is
pending (`OnlyOne`). The queue of names is taken from its last known name, and that this is the
largest index (`Largest`) follows from the well-foundedness of the naturals.

Only model-checked: liveness under fairness (`QueueDrains`, `StopReturns`, `StopReachesTarget`,
`SamplingEnds`, `WindowReturns`, `CaptureStops`), which is outside the prover's reach. Every other
property of a passing run is stated by a theorem.

## Findings

1. `timers_lost_wakeup`: `TimerManager::Add` signals (`TimerManager.cpp:205`) before it counts
   (`:206`). `SendTimers`, which is to "Wait for non-empty queue" (`:174`) and does so by the count,
   can take the signal, read a count of zero and sleep on a queue that holds the timer; it stays
   there until the next timer. No more timers can be left so than there are threads that add
   (`FewStranded`). `TcpEntity::SendMsg` has the right order and its theorem.
2. `capture_stamp`: `SendTimers` constructs its message, stamped with the session, before the wait
   (`TimerManager.cpp:172`). The first batch of a new capture carries the previous session, and
   `TcpServer::Receive`, which means to "Disregard messages from previous session"
   (`TcpServer.cpp:98`), drops timers of the current one.
3. `sampling_selection`: the manual says "You can select sections of the per-thread sampling event
   section to get a sampling report of your selection" (`README.md:60`). The selection looks its
   call stacks up in `m_UniqueCallstacks` of the current profiler (`TimeGraph.cpp:707`), which is
   filled when the capture has been processed: a selection made before that gives no report, and
   leaves a null call stack that the processing then dereferences.

Stated as they are, and checked:

- `m_NumQueuedTimers` grows by every flushed timer (`TimersDrift`).
- From the 128th session on every timer is refused (`RefusedOnlyStale`).
- A thread that was inside hooked functions when a capture began counts its depth from there and
  goes below zero (`DepthIsNesting`); a zone hooked on one side only can mistake a timer for another
  (`torn` in `SentFaithful`).
- Changing the target during a recording clears `GInjected` but not `m_IsRecording`: `StopCapture`
  then returns early, and the "press 'X' again" of `README.md:58` does nothing (`retargeted` in
  `StopWorks` and `CaptureStops`).
- `SlowAt` finds the first item of a block in the block before it (`PicksWhatWasDrawn`).
- When a core goes from one thread of the target to another, the box of the leaving thread has no
  length, and a capture that ended during a run leaves an In in the core map which the next
  capture's first Out may be paired with (`BoxesAreRuns`).
- A trace thread that is still draining when the next capture records tells it of old switches: the
  runs become boxes of the new capture, and if the new trace told of a later switch of the core
  first, the Out is paired with that and the box ends before it starts (`late` in `BoxesAreRuns`).
  The two threads use the maps of the time graph, and `GThreadToProcessMap`, without a lock.
- The report of a capture may miss a sample per event thread; an event thread that adds while the
  samples are cleared is a data race (`SamplesCounted`, `CrashOnlyByRace`).

## Not modelled

- Debugger launch (`Debugger.cpp`): one thread, almost every step a call of Win32.
- Symbols, types and variables (`DiaParser.cpp`, `TypeInfo.cpp`, `OrbitType.cpp`, the headers of
  DIA): parsing, data without a protocol.
- The user interface but for its commands, its frame and the window: views, panels, drawing, and the
  vendored property browser and the files Qt generates, which are most of the lines of the
  repository.
- `MemoryTracker`: a sequential map of a few lines.
- Within the modelled components: arguments and registers, Unreal names, messages that carry
  statistics, remote memory and the watched variables, the bytes of packets, trampolines and ETW
  events, the websocket, weak memory (the atomics used are sequentially consistent but for the
  event's own, whose acquire and release order what it is used for). `SymbolLoading` takes `AddPdb`
  to find its module and a session to be one selection for an unchanged target; `Connection` has
  the injection of `StartCapture` only, not the commands of the window that inject or connect;
  `Sampling` makes and starts a profiler in one step; `CoreActivity` has one target.

`PROJECT.json` lists, with the reason, the hazards no property covers: a message read before the
library has its timer manager (`OrbitLib.cpp:51`), and a clear during a `push_back`
(`TimeGraph.cpp:61`), which is undefined behaviour, as is what follows `Collide`.

## Left to do

A composition of `Connection` with the send path through `SendChannel`, whose state space is beyond
the present bounds.
