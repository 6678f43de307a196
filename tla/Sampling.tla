------------------------------- MODULE Sampling -------------------------------
(***************************************************************************)
(* Sampling: OrbitCore/EventTracer.cpp, EventCallbacks.cpp,                *)
(* SamplingProfiler.cpp and the commands of Capture.cpp that use them.     *)
(*                                                                         *)
(* EventTracer::Start makes a SamplingProfiler and a thread that runs      *)
(* ProcessTrace; for every event that thread calls back and adds the call  *)
(* stack to the profiler that is current then.  EventTracer::Stop starts a *)
(* thread that processes the samples of the current profiler, and          *)
(* Capture::Update, which the main thread polls, shows the report when it  *)
(* finds the processing done.  Nothing joins any of these threads.         *)
(*                                                                         *)
(* Profilers are numbered in the order they are made; GSamplingProfiler is *)
(* always the last one.  All call stacks are one call stack, so that       *)
(* m_UniqueCallstacks holds at most one entry.                             *)
(***************************************************************************)
EXTENDS Integers, FiniteSets

CONSTANTS MaxProfilers,  \* bound: the profilers made after the first
          MaxSamples     \* bound: the events delivered

ASSUME SamplingAssumption == MaxProfilers \in Nat /\ MaxSamples \in Nat

Profilers == 0 .. MaxProfilers

VARIABLES
  current,       \* GSamplingProfiler
  kept,          \* GOldSamplingProfilers
  state,         \* each profiler: m_State
  callstacks,    \* each profiler: the length of m_Callstacks
  counted,       \* each profiler: the samples in its m_ThreadSampleData
  unique,        \* each profiler: the entry of m_UniqueCallstacks
  worker,        \* each profiler: where the thread of ProcessSamples is
  isSampling,    \* GIsSampling
  isTracing,     \* GEventTracer.m_IsTracing
  isRecording,   \* GTimerManager->m_IsRecording
  injected,      \* GInjected
  tracking,      \* IsTrackingEvents, two options of the user interface
  tracer, held,  \* each thread of ProcessTrace, by the profiler made for it:
                 \* where it is, the profiler its callback has in hand
  delivered,     \* events delivered so far
  hasEvents,     \* GEventTracer.GetEventBuffer() holds call stacks
  pushed,        \* each profiler: samples ever added
  reports,       \* each profiler: the times its report was shown
  selection,     \* what the last selection of call stacks gave
  crashed,       \* the program used a null or a destroyed object
  misused        \* the user did what the code does not guard against

profilerVars == <<state, callstacks, counted, unique>>
tracerVars   == <<tracer, held, delivered, pushed>>
commandVars  == <<current, kept, isSampling, isTracing, isRecording, injected>>
vars == <<profilerVars, worker, tracerVars, commandVars, tracking, hasEvents,
          reports, selection, crashed, misused>>

\* Capture::Init; the first profiler is made with the first target.
Init ==
  /\ current = 0 /\ kept = {}
  /\ state = [p \in Profilers |-> "idle"]
  /\ callstacks = [p \in Profilers |-> 0]
  /\ counted = [p \in Profilers |-> 0]
  /\ unique = [p \in Profilers |-> "none"]
  /\ worker = [p \in Profilers |-> "none"]
  /\ isSampling = FALSE /\ isTracing = FALSE /\ isRecording = FALSE
  /\ injected = FALSE /\ tracking = TRUE
  /\ tracer = [p \in Profilers |-> "none"]
  /\ held = [p \in Profilers |-> 0]
  /\ delivered = 0 /\ hasEvents = FALSE
  /\ pushed = [p \in Profilers |-> 0]
  /\ reports = [p \in Profilers |-> 0]
  /\ selection = "none" /\ crashed = FALSE /\ misused = FALSE

\* Nobody refers to profiler p any more; a report keeps the one it shows.
Destroyed(p) == p < current /\ p \notin kept /\ reports[p] = 0

-----------------------------------------------------------------------------
(* The event tracer, called by the commands of the main thread.            *)

\* Mutant: the profiler that was current is not kept.
MutNewSamplingProfiler == current' = current + 1 /\ kept' = kept

NewSamplingProfiler == current' = current + 1 /\ kept' = kept \cup {current}

\* EventTracer::Start; the thread is not created when StartTrace or OpenTrace
\* fails.
TraceStart ==
  /\ current < MaxProfilers
  /\ NewSamplingProfiler
  /\ state' = [state EXCEPT ![current + 1] = "sampling"]
  /\ isSampling' = TRUE /\ isTracing' = TRUE
  /\ \E opened \in BOOLEAN :
       tracer' = [tracer EXCEPT ![current + 1] = IF opened THEN "idle" ELSE @]
  /\ UNCHANGED <<callstacks, counted, unique, worker, held, delivered, pushed>>

\* EventTracer::Stop, with CleanupTrace: the trace closes but its thread drains
\* what was buffered.
TraceStop ==
  /\ isTracing' = FALSE
  /\ IF isTracing
       THEN /\ state' = [state EXCEPT ![current] = "pendingStop"]
            /\ worker' = [worker EXCEPT ![current] = "start"]
       ELSE UNCHANGED <<state, worker>>

-----------------------------------------------------------------------------
(* The commands of the main thread.                                        *)

\* ToggleCapture finds no recording: Capture::StartCapture.  Connect injects
\* the library, which may fail.
StartCapture ==
  /\ ~isRecording
  /\ \E connected \in {TRUE, injected} :
       /\ injected' = connected
       /\ isRecording' = connected
       /\ hasEvents' = (hasEvents /\ ~connected)
       /\ IF connected /\ tracking
            THEN TraceStart
            ELSE UNCHANGED <<current, kept, isSampling, isTracing, profilerVars,
                             worker, tracerVars>>
  /\ UNCHANGED <<tracking, reports, selection, crashed, misused>>

StopTracing ==
  /\ IF tracking THEN TraceStop ELSE UNCHANGED <<isTracing, state, worker>>
  /\ UNCHANGED <<current, kept, callstacks, counted, unique, tracerVars>>

\* Capture::StopCapture; it returns early when nothing is injected.
StopCapture ==
  /\ StopTracing
  /\ isRecording' = (isRecording /\ ~injected)

\* ToggleCapture finds a recording.
StopRecording ==
  /\ isRecording
  /\ StopCapture
  /\ UNCHANGED <<isSampling, injected, tracking, hasEvents, reports, selection,
                 crashed, misused>>

\* Capture::StartSampling, by the button of the thread view or a key.
StartSampling ==
  /\ ~isSampling /\ tracking
  /\ isRecording' = TRUE
  /\ TraceStart
  /\ UNCHANGED <<injected, tracking, hasEvents, reports, selection,
                 crashed, misused>>

StopSampling ==
  /\ isSampling
  /\ StopTracing
  /\ isRecording' = FALSE
  /\ UNCHANGED <<isSampling, injected, tracking, hasEvents, reports, selection,
                 crashed, misused>>

\* Mutant: sampling is not over with the report.
MutReport ==
  IF isSampling /\ state[current] = "done"
    THEN /\ reports' = [reports EXCEPT ![current] = reports[current] + 1]
         /\ isSampling' = isSampling
    ELSE UNCHANGED <<reports, isSampling>>

\* Mutant: the report waits for the end of the recording.
MutReportLate ==
  IF isSampling /\ state[current] = "done" /\ ~isRecording
    THEN /\ reports' = [reports EXCEPT ![current] = reports[current] + 1]
         /\ isSampling' = FALSE
    ELSE UNCHANGED <<reports, isSampling>>

\* What Update does of the profiler: ShouldStop never holds, the sample time
\* is not bounded.
Report ==
  IF isSampling /\ state[current] = "done"
    THEN /\ reports' = [reports EXCEPT ![current] = reports[current] + 1]
         /\ isSampling' = FALSE
    ELSE UNCHANGED <<reports, isSampling>>

\* Capture::Update, which also finds that the connection to the target is gone.
Update ==
  /\ Report
  /\ \/ injected /\ StopCapture /\ injected' = FALSE
     \/ UNCHANGED <<current, kept, isTracing, isRecording, injected,
                    profilerVars, worker, tracerVars>>
  /\ UNCHANGED <<tracking, hasEvents, selection, crashed, misused>>

Working(p) == worker[p] \in {"start", "walk", "clear"}
Running(t) == tracer[t] \in {"idle", "test", "push"}
Busy == \E p \in Profilers : Working(p) \/ Running(p)

\* Capture::SetTargetProcess with another process.
SetTargetProcess ==
  /\ current < MaxProfilers
  /\ current' = current + 1
  /\ injected' = FALSE
  /\ misused' = (misused \/ Busy)
  /\ UNCHANGED <<kept, isSampling, isTracing, isRecording, profilerVars, worker,
                 tracerVars, tracking, hasEvents, reports, selection, crashed>>

\* The options of the user interface.
ToggleTracking ==
  /\ tracking' = ~tracking
  /\ UNCHANGED <<profilerVars, worker, tracerVars, commandVars, hasEvents,
                 reports, selection, crashed, misused>>

\* TimeGraph::SelectEvents of the call stacks in the event buffer.  GetCallStack
\* indexes m_UniqueCallstacks: an entry that is missing is made, and is null;
\* the map may be in use by ProcessSamples.
SelectEvents ==
  /\ hasEvents
  /\ selection' = IF unique[current] = "stack" THEN "report" ELSE "nothing"
  /\ unique' = [unique EXCEPT ![current] =
                  IF unique[current] = "none" THEN "null" ELSE unique[current]]
  /\ misused' = (misused \/ state[current] # "done")
  /\ crashed' \in {FALSE, worker[current] = "walk"}
  /\ UNCHANGED <<state, callstacks, counted, worker, tracerVars, commandVars,
                 tracking, hasEvents, reports>>

Commands == StartCapture \/ StopRecording \/ StartSampling \/ StopSampling
            \/ SetTargetProcess \/ ToggleTracking \/ SelectEvents

-----------------------------------------------------------------------------
(* The thread of ProcessTrace started with profiler t.                     *)

TracerKeeps == UNCHANGED <<state, counted, unique, worker, commandVars,
                           tracking, reports, selection, misused>>

\* EventTracing::Callback; an event that finds no recording is ignored.
Callback(t) ==
  /\ tracer[t] = "idle" /\ isRecording /\ delivered < MaxSamples
  /\ delivered' = delivered + 1
  /\ tracer' = [tracer EXCEPT ![t] = "test"]
  /\ held' = [held EXCEPT ![t] = current]
  /\ TracerKeeps
  /\ UNCHANGED <<callstacks, pushed, hasEvents, crashed>>

\* Mutant: AddCallStack does not test m_State.
MutAddCallStackTests(t) ==
  /\ tracer[t] = "test"
  /\ tracer' = [tracer EXCEPT ![t] = "push"]
  /\ UNCHANGED hasEvents
  /\ TracerKeeps
  /\ UNCHANGED <<callstacks, held, delivered, pushed, crashed>>

\* if( m_State == Sampling ); otherwise only the event buffer gets the stack.
AddCallStackTests(t) ==
  /\ tracer[t] = "test"
  /\ IF state[held[t]] = "sampling"
       THEN tracer' = [tracer EXCEPT ![t] = "push"] /\ UNCHANGED hasEvents
       ELSE tracer' = [tracer EXCEPT ![t] = "idle"] /\ hasEvents' = TRUE
  /\ crashed' \in {FALSE, Destroyed(held[t])}
  /\ TracerKeeps
  /\ UNCHANGED <<callstacks, held, delivered, pushed>>

\* m_Callstacks.push_back, then AddCallstackEvent.  The chain of blocks can be
\* walked while it grows; while ProcessSamples clears it, or when the profiler
\* is gone, anything may happen.
AddCallStackPushes(t) ==
  /\ tracer[t] = "push"
  /\ \/ /\ tracer' = [tracer EXCEPT ![t] = "idle"]
        /\ callstacks' = [callstacks EXCEPT ![held[t]] = @ + 1]
        /\ pushed' = [pushed EXCEPT ![held[t]] = @ + 1]
        /\ hasEvents' = TRUE
        /\ UNCHANGED crashed
     \/ /\ Destroyed(held[t]) \/ worker[held[t]] = "clear"
        /\ crashed' = TRUE
        /\ UNCHANGED <<tracer, callstacks, pushed, hasEvents>>
  /\ TracerKeeps
  /\ UNCHANGED <<held, delivered>>

\* ProcessTrace returns: the trace was closed and is drained, or it failed.
TracerEnds(t) ==
  /\ tracer[t] = "idle"
  /\ tracer' = [tracer EXCEPT ![t] = "ended"]
  /\ TracerKeeps
  /\ UNCHANGED <<callstacks, held, delivered, pushed, hasEvents, crashed>>

EventTracerThread(t) == Callback(t) \/ AddCallStackTests(t)
                        \/ AddCallStackPushes(t) \/ TracerEnds(t)

-----------------------------------------------------------------------------
(* The thread of ProcessSamples for profiler p.                            *)

WorkerGoes(p, from, to) ==
  /\ worker[p] = from /\ worker' = [worker EXCEPT ![p] = to]
  /\ UNCHANGED <<tracerVars, commandVars, tracking, hasEvents, reports,
                 selection, misused>>

ProcessBegins(p) ==
  /\ WorkerGoes(p, "start", "walk")
  /\ state' = [state EXCEPT ![p] = "processing"]
  /\ UNCHANGED <<callstacks, counted, unique, crashed>>

\* The loop over m_Callstacks, then ProcessAddresses, which dereferences every
\* entry of m_UniqueCallstacks.
ProcessWalks(p) ==
  /\ WorkerGoes(p, "walk", "clear")
  /\ counted' = [counted EXCEPT ![p] = counted[p] + callstacks[p]]
  /\ unique' = IF unique[p] = "none" /\ callstacks[p] > 0
                 THEN [unique EXCEPT ![p] = "stack"] ELSE unique
  /\ crashed' = (unique[p] = "null")
  /\ UNCHANGED <<state, callstacks>>

ProcessFinishes(p) ==
  /\ WorkerGoes(p, "clear", "ended")
  /\ callstacks' = [callstacks EXCEPT ![p] = 0]
  /\ state' = [state EXCEPT ![p] = "done"]
  /\ UNCHANGED <<counted, unique, crashed>>

\* The profiler was destroyed while the thread uses it.
ProcessFails(p) ==
  /\ Working(p) /\ Destroyed(p)
  /\ crashed' = TRUE
  /\ UNCHANGED <<profilerVars, worker, tracerVars, commandVars, tracking,
                 hasEvents, reports, selection, misused>>

ProcessSamples(p) == ProcessBegins(p) \/ ProcessWalks(p) \/ ProcessFinishes(p)
                     \/ ProcessFails(p)

-----------------------------------------------------------------------------
Next == /\ ~crashed
        /\ \/ Commands \/ Update
           \/ \E t \in Profilers : EventTracerThread(t)
           \/ \E p \in Profilers : ProcessSamples(p)

Spec == Init /\ [][Next]_vars

\* The main thread polls Update, and the processing threads run.
Fairness == /\ WF_vars(~crashed /\ Update)
            /\ \A p \in Profilers : WF_vars(~crashed /\ ProcessSamples(p))

FairSpec == Spec /\ Fairness

-----------------------------------------------------------------------------
(* Properties.                                                             *)

\* Nothing waits for the event threads when the samples are processed, yet the
\* report misses at most one sample for each of them: the one it had found the
\* profiler sampling for and was about to add.
SamplesCounted ==
  \A p \in Profilers :
    state[p] = "done" =>
      /\ counted[p] <= pushed[p]
      /\ pushed[p] - counted[p]
           <= Cardinality({t \in 0 .. p : tracer[t] # "none"})

\* A report is shown once, and only of a profiler that was processed: Stop can
\* be called twice, and a capture can start while the last one is processed.
ReportedOnce ==
  \A p \in Profilers :
    /\ reports[p] <= 1
    /\ reports[p] = 1 => /\ worker[p] = "ended"
                         /\ callstacks[p] <= pushed[p] - counted[p]

\* "To prevent destruction while processing data": a capture begun while the
\* last one is processed, or drained, is safe.  As long as the user selects no
\* other target while threads of a capture run, and no call stacks before they
\* are processed, the program crashes in one case only: an event thread adds a
\* sample to the chain that is being cleared.
CrashOnlyByRace ==
  crashed /\ ~misused =>
    \E t \in Profilers : tracer[t] = "push" /\ worker[held[t]] = "clear"

\* Sampling ends once the tracing stopped, unless another target took the place
\* of the profiler to wait for.
SamplingEnds ==
  isSampling /\ ~isTracing ~>
    ~isSampling \/ isTracing \/ crashed \/ state[current] = "idle"

\* "You can select sections of the per-thread sampling event section to get a
\* sampling report of your selection."
SelectionReported == selection # "nothing"

===============================================================================
