----------------------------- MODULE CoreActivity -----------------------------
(***************************************************************************)
(* The core time line of the time graph: EventCallbacks.cpp, which turns   *)
(* the context switches and thread events that ETW delivers into switches  *)
(* In and Out of the threads of the target, and TimeGraph.cpp, which makes *)
(* a box of an Out and the newest switch of its core.                      *)
(*                                                                         *)
(* A core runs one thread at a time; threads of other processes, and none  *)
(* at all, are Nobody.  Each trace has a thread of ProcessTrace of its     *)
(* own, which is detached and joined by nobody: when the trace is stopped  *)
(* it goes on to deliver what is buffered, and what is left when the next  *)
(* capture records goes to that capture, beside the events of its trace.   *)
(* The code leaves open whether the events of a trace come sorted by time  *)
(* (TimeGraph.cpp:313), so they may come in any order.                     *)
(***************************************************************************)
EXTENDS Integers

CONSTANTS Cores, Threads,  \* Threads of the target
          Nobody,
          MaxTime,         \* bound: the switches
          MaxCaptures,     \* bound: the recordings
          MaxTraces        \* bound: the traces

\* The idle thread and those of other processes are none of the target's.
ASSUME NobodyAssumption == Nobody \notin Threads

VARIABLES
  running, since,  \* each core: its thread, and the time it was switched in
  clock,
  tracing, traces, \* the kernel logger runs; the traces begun
  isRecording, captures,
  events,          \* CSwitch events of all traces: buffered, or in
                   \* ProcessContextSwitch with its In or its Out to come
  known,           \* GThreadToProcessMap: threads that map to the target
  utilization,     \* m_CoreUtilizationMap: each core: switches by time
  boxes,           \* the CORE_ACTIVITY timers the capture gave to
                   \* TimerManager::Add while it recorded
  collided,        \* two threads used the maps at once
  told,            \* history: what AddContextSwitch was called with
  ran              \* history: the runs whose end it was told in the capture

world == <<running, since, clock>>
control == <<tracing, traces, isRecording, captures>>
graph == <<utilization, boxes, told, ran>>
activityVars == <<world, control, events, known, graph, collided>>

ActivityInit ==
  /\ running \in [Cores -> {Nobody}] /\ since = [c \in Cores |-> 0]
  /\ clock = 0
  /\ tracing = FALSE /\ traces = 0 /\ isRecording = FALSE /\ captures = 0
  /\ events = {} /\ known = {}
  /\ utilization = [c \in Cores |-> {}]
  /\ boxes = {} /\ told = {} /\ ran = {} /\ collided = FALSE

-----------------------------------------------------------------------------
(* The cores and threads of the machine, and the kernel logger.            *)

Switch(c, new) ==
  /\ clock < MaxTime
  /\ new # running[c] /\ (new = Nobody \/ \A d \in Cores : running[d] # new)
  /\ events' = events \cup
       IF tracing
         THEN {[trace |-> traces, step |-> "buffered", core |-> c,
                old |-> running[c], new |-> new, since |-> since[c],
                time |-> clock + 1]}
         ELSE {}
  /\ clock' = clock + 1
  /\ running' = [running EXCEPT ![c] = new]
  /\ since' = [since EXCEPT ![c] = clock + 1]
  /\ UNCHANGED <<control, known, graph, collided>>

-----------------------------------------------------------------------------
(* The threads of ProcessTrace, one for each trace.                        *)

Busy(t) == \E e \in events : e.trace = t /\ e.step # "buffered"

\* The event goes on to another step, or is done with.
Goes(e, steps) ==
  events' = (events \ {e}) \cup {[e EXCEPT !.step = s] : s \in steps}

\* EventTracing::Callback: an event that finds no recording is ignored.
Callback(e) ==
  /\ e.step = "buffered" /\ ~Busy(e.trace)
  /\ Goes(e, IF isRecording THEN {"in"} ELSE {})
  /\ UNCHANGED <<world, control, known, graph, collided>>

\* CallbackThread: a thread starts or is listed, ends or is listed at the end.
ThreadEvent(t) ==
  /\ isRecording /\ \E k \in 1 .. traces : ~Busy(k)
  /\ known' \in {known \cup {t}, known \ {t}}
  /\ UNCHANGED <<world, control, events, graph, collided>>

\* Mutant: a switch replaces one with the same time.
MutInsert(map, s) == {r \in map : r.time # s.time} \cup {s}

\* std::map::insert, by time
Insert(map, s) == IF \E r \in map : r.time = s.time THEN map ELSE map \cup {s}

\* Mutant: the Out is paired with the first switch of the map, begin().
MutNewest(map) == {r \in map : \A s \in map : r.time <= s.time}

\* rbegin()
Newest(map) == {r \in map : \A s \in map : s.time <= r.time}

\* AddContextSwitch, but for the box, is told of a switch of the core of e.
InsertSwitch(e, type) ==
  /\ utilization' = [utilization EXCEPT ![e.core] =
                       Insert(@, [time |-> e.time, type |-> type])]
  /\ told' = told \cup {[core |-> e.core, time |-> e.time, type |-> type]}

\* ProcessContextSwitch, of the new thread
AddSwitchIn(e) ==
  /\ e.step = "in"
  /\ Goes(e, {"out"})
  /\ IF e.new \in known THEN InsertSwitch(e, "In")
                        ELSE UNCHANGED <<utilization, told>>
  /\ UNCHANGED <<world, control, known, boxes, ran, collided>>

\* The run that e ended: whether its beginning was told before, the next thread
\* at its end, and a later switch of the core before that.
IsTold(c, t) == [core |-> c, time |-> t, type |-> "In"] \in told
Run(e) ==
  [core |-> e.core, thread |-> e.old, in |-> e.since, out |-> e.time,
   begun |-> IsTold(e.core, e.since), handed |-> IsTold(e.core, e.time),
   late |-> \E s \in told : s.core = e.core /\ s.time > e.time,
   recorded |-> isRecording]

\* The timer of a switch Out and a switch In
BoxFrom(e, s) ==
  [core |-> e.core, start |-> s.time, end |-> e.time, thread |-> e.old]

\* ProcessContextSwitch, of the old thread, and AddContextSwitch; Add refuses
\* the box when the recording has stopped.
AddSwitchOut(e) ==
  /\ e.step = "out"
  /\ Goes(e, {})
  /\ IF e.old \in known
       THEN /\ boxes' = boxes \cup
                 {BoxFrom(e, s) : s \in {r \in Newest(utilization[e.core]) :
                                           r.type = "In" /\ isRecording}}
            /\ InsertSwitch(e, "Out")
            /\ ran' = ran \cup {Run(e)}
       ELSE UNCHANGED graph
  /\ UNCHANGED <<world, control, known, collided>>

\* A thread in ProcessContextSwitch uses GThreadToProcessMap and the maps of
\* AddContextSwitch without a lock, beside that of another trace, in the same
\* place or with a thread event, or beside Reset; that is undefined behaviour,
\* and nothing is said of what follows.
Collide ==
  /\ \E t \in 1 .. traces :
       /\ Busy(t)
       /\ isRecording \/ \E k \in (1 .. traces) \ {t} : Busy(k)
  /\ collided' = TRUE
  /\ UNCHANGED <<world, control, events, known, graph>>

-----------------------------------------------------------------------------
(* The main thread.                                                        *)

\* TimerManager::StartRecording, by StartCapture or StartSampling.  What the
\* threads of ProcessTrace have in hand, and the core map, stay.
StartRecording ==
  /\ ~isRecording /\ captures < MaxCaptures
  /\ isRecording' = TRUE /\ captures' = captures + 1
  /\ boxes' = {} /\ ran' = {}
  /\ UNCHANGED <<world, tracing, traces, events, known, utilization, told,
                 collided>>

\* EventTracer::Start, with EventTracing::Reset, if events are tracked; it
\* stops a trace that is still open.
StartTrace ==
  /\ isRecording /\ traces < MaxTraces
  /\ tracing' = TRUE /\ traces' = traces + 1
  /\ known' = {}
  /\ UNCHANGED <<world, isRecording, captures, events, graph, collided>>

\* EventTracer::Stop
StopTrace ==
  /\ tracing
  /\ tracing' = FALSE
  /\ UNCHANGED <<world, traces, isRecording, captures, events, known, graph,
                 collided>>

\* TimerManager::StopRecording
StopRecording ==
  /\ isRecording
  /\ isRecording' = FALSE
  /\ UNCHANGED <<world, tracing, traces, captures, events, known, graph,
                 collided>>

ActivityNext ==
  /\ ~collided
  /\ \/ \E c \in Cores, new \in Threads \cup {Nobody} : Switch(c, new)
     \/ \E t \in Threads : ThreadEvent(t)
     \/ \E e \in events : Callback(e) \/ AddSwitchIn(e) \/ AddSwitchOut(e)
     \/ Collide
     \/ StartRecording \/ StartTrace \/ StopTrace \/ StopRecording

ActivitySpec == ActivityInit /\ [][ActivityNext]_activityVars

-----------------------------------------------------------------------------
(* Properties.                                                             *)

\* Whatever was not told, by whatever thread and in whatever order: a run whose
\* two ends were told in a recording, and its end before any later switch of
\* the core, is given to the timer queue as the box it was, but for a thread
\* that hands its core to another one of the target, whose box has no length.
\* Every other box ends with a run as well.  It starts before it, when the
\* beginning was not told, as after a capture that ended during a run; or it is
\* upside down, when a later switch was told first, as by the thread of the
\* trace before (TimeGraph.cpp:270-316, EventTracer.cpp:165-166).
BoxesAreRuns ==
  /\ \A r \in ran : r.recorded /\ r.begun /\ ~r.late =>
       [core |-> r.core, thread |-> r.thread, end |-> r.out,
        start |-> IF r.handed THEN r.out ELSE r.in] \in boxes
  /\ \A b \in boxes : \E r \in ran :
       /\ r.core = b.core /\ r.thread = b.thread /\ r.out = b.end
       /\ \/ b.start = IF r.handed THEN r.out ELSE r.in
          \/ b.start < r.in /\ ~r.begun
          \/ b.start > r.out /\ r.late

\* The boxes of a core do not overlap, whatever the graph was not told of or
\* told late, and whichever captures and traces the switches are of; a box that
\* is upside down covers no time (TimeGraph.cpp:270-316).
BoxesDisjoint ==
  \A a, b \in {d \in boxes : d.start <= d.end} : a.core = b.core /\ a # b =>
    a.end <= b.start \/ b.end <= a.start
===============================================================================
