---------------------------- MODULE SamplingProofs ----------------------------
(***************************************************************************)
(* Proofs about Sampling, for any number of profilers and of samples: a    *)
(* report misses one sample of each event thread at most, it is shown      *)
(* once, and the one crash a user who follows the rules can meet is the    *)
(* race between the last samples and the clearing of their chain.          *)
(*                                                                         *)
(* The argument follows a profiler through its life: m_State and the       *)
(* lengths of its chain tell where the thread of ProcessSamples is, and    *)
(* an event thread adds to the profiler only if it found it sampling,      *)
(* which is before that thread was started.                                *)
(***************************************************************************)
EXTENDS Sampling, FiniteSetTheorems, TLAPS

States == {"idle", "sampling", "pendingStop", "processing", "done"}

TypeOK ==
  /\ current \in Profilers /\ kept \subseteq Profilers
  /\ state \in [Profilers -> States]
  /\ callstacks \in [Profilers -> Nat]
  /\ counted \in [Profilers -> Nat]
  /\ pushed \in [Profilers -> Nat]
  /\ unique \in [Profilers -> {"none", "null", "stack"}]
  /\ worker \in [Profilers -> {"none", "start", "walk", "clear", "ended"}]
  /\ tracer \in [Profilers -> {"none", "idle", "test", "push", "ended"}]
  /\ held \in [Profilers -> Profilers]
  /\ reports \in [Profilers -> {0, 1}]
  /\ isSampling \in BOOLEAN /\ isTracing \in BOOLEAN
  /\ crashed \in BOOLEAN /\ misused \in BOOLEAN

\* A profiler that is still to be made is as Init has it.
Fresh(p) ==
  /\ state[p] = "idle" /\ worker[p] = "none" /\ tracer[p] = "none"
  /\ callstacks[p] = 0 /\ counted[p] = 0 /\ pushed[p] = 0
  /\ reports[p] = 0
Unmade == \A p \in Profilers : p > current => Fresh(p)

\* Where an event thread is: it was made with a profiler, and the callback has
\* that one or a later one in hand.
InCallback(t) == tracer[t] \in {"test", "push"}
Handed ==
  \A t \in Profilers :
    /\ InCallback(t) => t <= held[t]
    /\ held[t] <= current

\* The samples of a profiler by where its processing is.  Until the walk none
\* is counted; after it those that came later are in the chain, or were
\* cleared with it.
Processed ==
  \A p \in Profilers :
    CASE worker[p] = "none"  -> /\ state[p] \in {"idle", "sampling"}
                                /\ counted[p] = 0 /\ callstacks[p] = pushed[p]
      [] worker[p] = "start" -> /\ state[p] = "pendingStop"
                                /\ counted[p] = 0 /\ callstacks[p] = pushed[p]
      [] worker[p] = "walk"  -> /\ state[p] = "processing"
                                /\ counted[p] = 0 /\ callstacks[p] = pushed[p]
      [] worker[p] = "clear" -> state[p] = "processing"
      [] worker[p] = "ended" -> /\ state[p] = "done"
                                /\ callstacks[p] <= pushed[p] - counted[p]

\* A profiler is processed once: the tracing that Stop ends is its own.
Untouched == isTracing => worker[current] = "none"

\* What the walk missed, with what is about to be added, is no more than one
\* sample for each event thread there was.
Adding(p)  == {t \in Profilers : tracer[t] = "push" /\ held[t] = p}
Started(p) == {t \in 0 .. p : tracer[t] # "none"}
Walked(p)  == worker[p] \in {"clear", "ended"}
MissesFew(p) ==
  /\ counted[p] <= pushed[p]
  /\ pushed[p] - counted[p] + Cardinality(Adding(p)) <= Cardinality(Started(p))
Missed == \A p \in Profilers : Walked(p) => MissesFew(p)

\* A report was of a profiler that is done, and is not due again.
Reported ==
  /\ \A p \in Profilers : reports[p] = 1 => state[p] = "done"
  /\ isSampling => reports[current] = 0

\* What a thread uses is not destroyed, and the entry that SelectEvents makes
\* is never dereferenced, as long as nothing was misused.
InUse(p) == p = current \/ p \in kept
Guarded ==
  ~misused =>
    /\ \A t \in Profilers : InCallback(t) => InUse(held[t])
    /\ \A p \in Profilers : Working(p) => InUse(p)
    /\ \A p \in Profilers : unique[p] = "null" => state[p] = "done"

IInv == TypeOK /\ Unmade /\ Handed /\ Processed /\ Untouched /\ Missed
          /\ Reported /\ Guarded /\ CrashOnlyByRace

-----------------------------------------------------------------------------
(* The steps, by what they do to the state the invariant is about.         *)

Reporting == Report \/ UNCHANGED <<reports, isSampling>>

Starts == TraceStart /\ UNCHANGED <<reports, crashed, misused>>

Stops == /\ isTracing /\ TraceStop
         /\ Reporting
         /\ UNCHANGED <<current, kept, callstacks, counted, unique, tracerVars,
                        crashed, misused>>

Reports == /\ Reporting
           /\ UNCHANGED <<current, kept, isTracing, profilerVars, worker,
                          tracerVars, crashed, misused>>

LEMMA Stopping ==
  ASSUME TypeOK, StopTracing, Reporting, UNCHANGED <<crashed, misused>>
  PROVE  Stops \/ Reports
<1>1. CASE tracking /\ isTracing
  BY <1>1 DEF StopTracing, Stops
<1>2. CASE ~(tracking /\ isTracing)
  BY <1>2 DEF TypeOK, StopTracing, TraceStop, Reports, profilerVars
<1> QED BY <1>1, <1>2

LEMMA Kinds ==
  ASSUME TypeOK, [Next]_vars
  PROVE  \/ Starts \/ Stops \/ Reports \/ SetTargetProcess \/ SelectEvents
         \/ \E t \in Profilers : EventTracerThread(t)
         \/ \E p \in Profilers : ProcessSamples(p)
<1>1. CASE UNCHANGED vars
  BY <1>1 DEF vars, commandVars, Reports, Reporting
<1>2. CASE StartCapture
  BY <1>2 DEF StartCapture, Starts, Reports, Reporting
<1>3. CASE StopRecording
  <2>1. StopTracing /\ Reporting /\ UNCHANGED <<crashed, misused>>
    BY <1>3 DEF StopRecording, StopCapture, Reporting
  <2> QED BY <2>1, Stopping
<1>4. CASE StartSampling
  BY <1>4 DEF StartSampling, Starts
<1>5. CASE StopSampling
  <2>1. StopTracing /\ Reporting /\ UNCHANGED <<crashed, misused>>
    BY <1>5 DEF StopSampling, Reporting
  <2> QED BY <2>1, Stopping
<1>6. CASE Update
  <2>1. CASE StopTracing /\ Reporting /\ UNCHANGED <<crashed, misused>>
    BY <2>1, Stopping
  <2>2. CASE UNCHANGED <<current, kept, isTracing, profilerVars, worker, tracerVars>>
    BY <1>6, <2>2 DEF Update, Reports, Reporting
  <2> QED BY <1>6, <2>1, <2>2 DEF Update, StopCapture, Reporting
<1>7. CASE ToggleTracking
  BY <1>7 DEF ToggleTracking, commandVars, Reports, Reporting
<1> QED BY <1>1, <1>2, <1>3, <1>4, <1>5, <1>6, <1>7 DEF Next, Commands

\* The tracing starts with a profiler that is as Init has it.
LEMMA StartsFresh ==
  ASSUME TypeOK, Unmade, TraceStart
  PROVE  /\ current + 1 \in Profilers /\ current' = current + 1
         /\ Fresh(current + 1) /\ current \in Profilers
         /\ state' = [state EXCEPT ![current + 1] = "sampling"]
         /\ \E where \in {"none", "idle"} :
              tracer' = [tracer EXCEPT ![current + 1] = where]
         /\ UNCHANGED <<callstacks, counted, unique, worker, held, pushed>>
<1>1. current + 1 \in Profilers /\ current' = current + 1 /\ current + 1 > current
  BY SamplingAssumption DEF TraceStart, NewSamplingProfiler, TypeOK, Profilers
<1>2. Fresh(current + 1)
  BY <1>1 DEF Unmade
<1>3. \E where \in {"none", "idle"} :
        tracer' = [tracer EXCEPT ![current + 1] = where]
  BY <1>2 DEF TraceStart, Fresh
<1> QED BY <1>1, <1>2, <1>3 DEF TraceStart, TypeOK

\* It stops with the profiler it started, which nothing has processed.
LEMMA StopsUntouched ==
  ASSUME TypeOK, Processed, Untouched, Stops
  PROVE  /\ current \in Profilers /\ worker[current] = "none" /\ ~isTracing'
         /\ state[current] \in {"idle", "sampling"}
         /\ state' = [state EXCEPT ![current] = "pendingStop"]
         /\ worker' = [worker EXCEPT ![current] = "start"]
         /\ UNCHANGED <<current, kept, callstacks, counted, unique, tracer, held,
                        pushed, reports, crashed, misused>>
<1>1. current \in Profilers /\ worker[current] = "none"
  BY DEF Stops, TypeOK, Untouched
<1>2. state[current] \in {"idle", "sampling"}
  BY <1>1 DEF Processed
<1>3. UNCHANGED reports
  BY <1>2 DEF Stops, Reporting, Report
<1> QED BY <1>1, <1>2, <1>3 DEF Stops, TraceStop, tracerVars

-----------------------------------------------------------------------------
(* The conjuncts of the invariant, one at a time.                          *)

Threads == \/ \E t \in Profilers : EventTracerThread(t)
           \/ \E p \in Profilers : ProcessSamples(p)

LEMMA OneMore ==
  ASSUME NEW f \in [Profilers -> Nat], NEW p \in Profilers
  PROVE  [f EXCEPT ![p] = f[p] + 1] \in [Profilers -> Nat]
OBVIOUS

LEMMA TypeStep ==
  TypeOK /\ Reported /\ [Next]_vars => TypeOK'
<1> SUFFICES ASSUME TypeOK, Reported, [Next]_vars PROVE TypeOK'
  OBVIOUS
<1> USE DEF TypeOK, States, profilerVars, tracerVars, commandVars
<1>0. ASSUME Reporting
      PROVE  reports' \in [Profilers -> {0, 1}] /\ isSampling' \in BOOLEAN
  <2>1. CASE UNCHANGED <<reports, isSampling>>
    BY <2>1
  <2>2. CASE ~UNCHANGED <<reports, isSampling>>
    <3>1. /\ reports[current] = 0 /\ isSampling' = FALSE
          /\ reports' = [reports EXCEPT ![current] = reports[current] + 1]
      BY <1>0, <2>2 DEF Reporting, Report, Reported
    <3>2. reports' = [reports EXCEPT ![current] = 1] /\ current \in Profilers
      BY <3>1
    <3> QED BY <3>1, <3>2
  <2> QED BY <2>1, <2>2
<1>1. CASE Starts
  <2>1. current + 1 \in Profilers /\ current' = current + 1
    BY <1>1, SamplingAssumption DEF Starts, TraceStart, NewSamplingProfiler, Profilers
  <2>2. tracer' \in [Profilers -> {"none", "idle", "test", "push", "ended"}]
    BY <1>1, <2>1 DEF Starts, TraceStart
  <2>3. kept' \subseteq Profilers
    BY <1>1 DEF Starts, TraceStart, NewSamplingProfiler
  <2> QED BY <1>1, <2>1, <2>2, <2>3 DEF Starts, TraceStart
<1>2. CASE Stops
  BY <1>0, <1>2 DEF Stops, TraceStop
<1>3. CASE Reports
  BY <1>0, <1>3 DEF Reports
<1>4. CASE SetTargetProcess
  <2>1. current' \in Profilers
    BY <1>4, SamplingAssumption DEF SetTargetProcess, Profilers
  <2>2. misused' \in BOOLEAN
    BY <1>4 DEF SetTargetProcess, Busy
  <2> QED BY <1>4, <2>1, <2>2 DEF SetTargetProcess
<1>5. CASE SelectEvents
  <2>1. unique' \in [Profilers -> {"none", "null", "stack"}]
    BY <1>5 DEF SelectEvents
  <2>2. crashed' \in BOOLEAN /\ misused' \in BOOLEAN
    BY <1>5 DEF SelectEvents
  <2> QED BY <1>5, <2>1, <2>2 DEF SelectEvents
<1>6. ASSUME NEW t \in Profilers, EventTracerThread(t) PROVE TypeOK'
  <2>1. CASE Callback(t)
    BY <2>1 DEF Callback, TracerKeeps
  <2>2. CASE AddCallStackTests(t)
    BY <2>2 DEF AddCallStackTests, TracerKeeps, Destroyed
  <2>3. CASE AddCallStackPushes(t)
    <3>1. held[t] \in Profilers
      OBVIOUS
    <3> DEFINE h == held[t]
    <3>2. \/ UNCHANGED <<callstacks, pushed>>
          \/ /\ callstacks' = [callstacks EXCEPT ![h] = callstacks[h] + 1]
             /\ pushed' = [pushed EXCEPT ![h] = pushed[h] + 1]
      BY <2>3 DEF AddCallStackPushes
    <3>3. callstacks' \in [Profilers -> Nat] /\ pushed' \in [Profilers -> Nat]
      <4>1. /\ [callstacks EXCEPT ![h] = callstacks[h] + 1] \in [Profilers -> Nat]
            /\ [pushed EXCEPT ![h] = pushed[h] + 1] \in [Profilers -> Nat]
        BY <3>1, OneMore
      <4> QED BY <3>2, <4>1
    <3> HIDE DEF h
    <3>4. tracer' \in [Profilers -> {"none", "idle", "test", "push", "ended"}]
      <4>1. tracer' = [tracer EXCEPT ![t] = "idle"] \/ UNCHANGED tracer
        BY <2>3 DEF AddCallStackPushes
      <4> QED BY <4>1
    <3>5. crashed' \in BOOLEAN
      BY <2>3 DEF AddCallStackPushes
    <3> QED BY <2>3, <3>3, <3>4, <3>5 DEF AddCallStackPushes, TracerKeeps
  <2>4. CASE TracerEnds(t)
    BY <2>4 DEF TracerEnds, TracerKeeps
  <2> QED BY <1>6, <2>1, <2>2, <2>3, <2>4 DEF EventTracerThread
<1>7. ASSUME NEW p \in Profilers, ProcessSamples(p) PROVE TypeOK'
  <2>1. CASE ProcessBegins(p)
    BY <2>1 DEF ProcessBegins, WorkerGoes
  <2>2. CASE ProcessWalks(p)
    <3>1. counted' \in [Profilers -> Nat]
      BY <2>2 DEF ProcessWalks
    <3>2. unique' \in [Profilers -> {"none", "null", "stack"}]
      BY <2>2 DEF ProcessWalks
    <3> QED BY <2>2, <3>1, <3>2 DEF ProcessWalks, WorkerGoes
  <2>3. CASE ProcessFinishes(p)
    BY <2>3 DEF ProcessFinishes, WorkerGoes
  <2>4. CASE ProcessFails(p)
    BY <2>4 DEF ProcessFails
  <2> QED BY <1>7, <2>1, <2>2, <2>3, <2>4 DEF ProcessSamples
<1> QED BY <1>1, <1>2, <1>3, <1>4, <1>5, <1>6, <1>7, Kinds

\* What the threads leave alone.
LEMMA TracerKept ==
  ASSUME NEW t \in Profilers, EventTracerThread(t)
  PROVE  UNCHANGED <<state, counted, unique, worker, current, kept, isSampling,
                     isTracing, reports, misused>>
BY DEF EventTracerThread, Callback, AddCallStackTests, AddCallStackPushes,
       TracerEnds, TracerKeeps, commandVars

LEMMA WorkerKept ==
  ASSUME NEW p \in Profilers, ProcessSamples(p)
  PROVE  UNCHANGED <<tracer, held, pushed, current, kept, isSampling, isTracing,
                     reports, misused>>
BY DEF ProcessSamples, ProcessBegins, ProcessWalks, ProcessFinishes, ProcessFails,
       WorkerGoes, tracerVars, commandVars

LEMMA UnmadeStep ==
  TypeOK /\ Unmade /\ Handed /\ Processed /\ Untouched /\ [Next]_vars => Unmade'
<1> SUFFICES ASSUME TypeOK, Unmade, Handed, Processed, Untouched, [Next]_vars,
                    NEW p \in Profilers, p > current'
             PROVE  Fresh(p)'
  BY DEF Unmade
<1> USE DEF Fresh, TypeOK, Profilers
<1>0. ASSUME current' = current PROVE Fresh(p) /\ p # current
  BY <1>0 DEF Unmade
<1>1. CASE Starts
  <2>1. current' = current + 1 /\ TraceStart /\ Unmade
    BY <1>1, StartsFresh DEF Starts
  <2>2. p > current /\ p # current + 1
    BY <2>1
  <2>3. Fresh(p)
    BY <2>2 DEF Unmade
  <2> QED BY <1>1, <2>1, <2>2, <2>3, StartsFresh DEF Starts
<1>2. CASE Stops
  BY <1>0, <1>2, StopsUntouched
<1>3. CASE Reports
  BY <1>0, <1>3 DEF Reports, Reporting, Report, profilerVars, tracerVars
<1>4. CASE SetTargetProcess
  <2>1. p > current
    BY <1>4 DEF SetTargetProcess
  <2> QED BY <1>4, <2>1 DEF SetTargetProcess, Unmade, profilerVars, tracerVars
<1>5. CASE SelectEvents
  BY <1>0, <1>5 DEF SelectEvents, commandVars, tracerVars
<1>6. ASSUME NEW t \in Profilers, EventTracerThread(t) PROVE Fresh(p)'
  <2>1. Fresh(p) /\ p # current /\ held[t] # p
    BY <1>0, <1>6, TracerKept DEF Handed
  <2> QED BY <1>6, <2>1, TracerKept DEF EventTracerThread, Callback,
        AddCallStackTests, AddCallStackPushes, TracerEnds
<1>7. ASSUME NEW q \in Profilers, ProcessSamples(q) PROVE Fresh(p)'
  <2>1. Fresh(p) /\ UNCHANGED <<tracer, pushed, reports>>
    BY <1>0, <1>7, WorkerKept
  <2> QED BY <1>7, <2>1 DEF ProcessSamples, ProcessBegins, ProcessWalks,
        ProcessFinishes, ProcessFails, WorkerGoes, profilerVars
<1> QED BY <1>1, <1>2, <1>3, <1>4, <1>5, <1>6, <1>7, Kinds

LEMMA HandedStep == TypeOK /\ Unmade /\ Handed /\ Processed /\ Untouched
                      /\ [Next]_vars => Handed'
<1> SUFFICES ASSUME TypeOK, Unmade, Handed, Processed, Untouched, [Next]_vars,
                    NEW t \in Profilers
             PROVE  /\ InCallback(t)' => t <= held'[t]
                    /\ held'[t] <= current'
  BY DEF Handed
<1> USE DEF InCallback, TypeOK, Profilers
<1>0. (InCallback(t) => t <= held[t]) /\ held[t] <= current
  BY DEF Handed
<1>1. CASE Starts
  <2>1. /\ current' = current + 1 /\ held' = held
        /\ \E where \in {"none", "idle"} :
             tracer' = [tracer EXCEPT ![current + 1] = where]
    BY <1>1, StartsFresh DEF Starts
  <2> QED BY <1>0, <2>1
<1>2. CASE Stops \/ Reports \/ SelectEvents
  BY <1>0, <1>2, StopsUntouched DEF Reports, SelectEvents, tracerVars, commandVars
<1>3. CASE SetTargetProcess
  <2>1. current' = current + 1 /\ held' = held /\ tracer' = tracer
    BY <1>3 DEF SetTargetProcess, tracerVars
  <2>2. current + 1 \in Int /\ held[t] <= current + 1
    BY <1>0
  <2> QED BY <1>0, <2>1, <2>2
<1>4. ASSUME NEW s \in Profilers, EventTracerThread(s)
      PROVE  /\ InCallback(t)' => t <= held'[t]
             /\ held'[t] <= current'
  <2>1. current' = current
    BY <1>4, TracerKept
  <2>2. CASE Callback(s)
    <3>1. s <= current
      BY <2>2 DEF Callback, Unmade, Fresh
    <3> QED BY <1>0, <2>1, <2>2, <3>1 DEF Callback
  <2>3. CASE AddCallStackTests(s) \/ AddCallStackPushes(s) \/ TracerEnds(s)
    BY <1>0, <2>1, <2>3 DEF AddCallStackTests, AddCallStackPushes, TracerEnds
  <2> QED BY <1>4, <2>2, <2>3 DEF EventTracerThread
<1>5. ASSUME NEW p \in Profilers, ProcessSamples(p)
      PROVE  /\ InCallback(t)' => t <= held'[t]
             /\ held'[t] <= current'
  BY <1>0, <1>5, WorkerKept
<1> QED BY <1>1, <1>2, <1>3, <1>4, <1>5, Kinds

LEMMA UntouchedStep ==
  TypeOK /\ Unmade /\ Processed /\ Untouched /\ [Next]_vars => Untouched'
<1> SUFFICES ASSUME TypeOK, Unmade, Processed, Untouched, [Next]_vars, isTracing'
             PROVE  worker'[current'] = "none"
  BY DEF Untouched
<1> USE DEF TypeOK, Untouched
<1>1. CASE Starts
  BY <1>1, StartsFresh DEF Starts, Fresh
<1>2. CASE Stops
  BY <1>2, StopsUntouched
<1>3. CASE Reports
  BY <1>3 DEF Reports
<1>4. CASE SetTargetProcess
  <2>1. current + 1 \in Profilers /\ current + 1 > current
    BY <1>4, SamplingAssumption DEF SetTargetProcess, Profilers
  <2> QED BY <1>4, <2>1 DEF SetTargetProcess, Unmade, Fresh
<1>5. CASE SelectEvents
  BY <1>5 DEF SelectEvents, commandVars
<1>6. ASSUME NEW t \in Profilers, EventTracerThread(t)
      PROVE  worker'[current'] = "none"
  BY <1>6, TracerKept
<1>7. ASSUME NEW p \in Profilers, ProcessSamples(p)
      PROVE  worker'[current'] = "none"
  <2>1. current' = current /\ worker[current] = "none"
    BY <1>7, WorkerKept
  <2> QED BY <1>7, <2>1 DEF ProcessSamples, ProcessBegins, ProcessWalks,
        ProcessFinishes, ProcessFails, WorkerGoes
<1> QED BY <1>1, <1>2, <1>3, <1>4, <1>5, <1>6, <1>7, Kinds

\* What Processed says of one profiler
Life(p, s, w, calls, cnt, psh) ==
  \/ w = "none"  /\ s \in {"idle", "sampling"} /\ cnt = 0 /\ calls = psh
  \/ w = "start" /\ s = "pendingStop" /\ cnt = 0 /\ calls = psh
  \/ w = "walk"  /\ s = "processing" /\ cnt = 0 /\ calls = psh
  \/ w = "clear" /\ s = "processing"
  \/ w = "ended" /\ s = "done" /\ calls <= psh - cnt

LEMMA ProcessedStep ==
  TypeOK /\ TypeOK' /\ Unmade /\ Missed /\ Processed /\ Untouched /\ [Next]_vars
    => Processed'
<1> SUFFICES ASSUME TypeOK, TypeOK', Unmade, Missed, Processed, Untouched,
                    [Next]_vars, NEW p \in Profilers
             PROVE  Life(p, state[p], worker[p], callstacks[p], counted[p], pushed[p])'
  BY DEF Processed, Life, TypeOK
<1> DEFINE Now == Life(p, state[p], worker[p], callstacks[p], counted[p], pushed[p])
           Then == Life(p, state'[p], worker'[p], callstacks'[p], counted'[p], pushed'[p])
<1> SUFFICES Then
  BY DEF Life
<1>0. Now
  BY DEF Processed, Life, TypeOK
<1>t. /\ callstacks[p] \in Nat /\ counted[p] \in Nat /\ pushed[p] \in Nat
      /\ callstacks'[p] \in Nat /\ counted'[p] \in Nat /\ pushed'[p] \in Nat
      /\ state[p] \in States /\ callstacks \in [Profilers -> Nat]
      /\ counted \in [Profilers -> Nat] /\ pushed \in [Profilers -> Nat]
      /\ state \in [Profilers -> States]
      /\ worker \in [Profilers -> {"none", "start", "walk", "clear", "ended"}]
      /\ held \in [Profilers -> Profilers]
  BY DEF TypeOK
<1>1. CASE Starts
  <2>1. /\ state' = [state EXCEPT ![current + 1] = "sampling"]
        /\ Fresh(current + 1)
        /\ UNCHANGED <<callstacks, counted, worker, pushed>>
    BY <1>1, StartsFresh DEF Starts
  <2> QED BY <1>0, <1>t, <2>1 DEF Life, Fresh
<1>2. CASE Stops
  <2>1. /\ state' = [state EXCEPT ![current] = "pendingStop"]
        /\ worker' = [worker EXCEPT ![current] = "start"]
        /\ worker[current] = "none"
        /\ UNCHANGED <<callstacks, counted, pushed>>
    BY <1>2, StopsUntouched
  <2> QED BY <1>0, <1>t, <2>1 DEF Life
<1>3. CASE Reports \/ SetTargetProcess \/ SelectEvents
  <2>1. UNCHANGED <<state, worker, callstacks, counted, pushed>>
    BY <1>3 DEF Reports, SetTargetProcess, SelectEvents, profilerVars, tracerVars
  <2> QED BY <1>0, <2>1
<1>4. ASSUME NEW t \in Profilers, EventTracerThread(t) PROVE Then
  <2>1. UNCHANGED <<state, worker, counted>>
    BY <1>4, TracerKept
  <2>2. CASE UNCHANGED <<callstacks, pushed>>
    BY <1>0, <2>1, <2>2
  <2>3. CASE ~UNCHANGED <<callstacks, pushed>>
    <3>1. /\ callstacks' = [callstacks EXCEPT ![held[t]] = @ + 1]
          /\ pushed' = [pushed EXCEPT ![held[t]] = @ + 1]
      BY <1>4, <2>3 DEF EventTracerThread, Callback, AddCallStackTests,
                        AddCallStackPushes, TracerEnds
    <3>2. \/ callstacks'[p] = callstacks[p] + 1 /\ pushed'[p] = pushed[p] + 1
          \/ callstacks'[p] = callstacks[p] /\ pushed'[p] = pushed[p]
      BY <1>t, <3>1
    <3>3. UNCHANGED <<state[p], worker[p], counted[p]>>
      BY <2>1
    <3> QED BY <1>0, <1>t, <3>2, <3>3 DEF Life
  <2> QED BY <2>2, <2>3
<1>5. ASSUME NEW q \in Profilers, ProcessSamples(q) PROVE Then
  <2>1. pushed' = pushed
    BY <1>5, WorkerKept
  <2>2. CASE ProcessBegins(q)
    BY <1>0, <1>t, <2>1, <2>2 DEF ProcessBegins, WorkerGoes, Life
  <2>3. CASE ProcessWalks(q)
    BY <1>0, <1>t, <2>1, <2>3 DEF ProcessWalks, WorkerGoes, Life
  <2>4. CASE ProcessFinishes(q)
    <3>1. worker[q] = "clear" => counted[q] <= pushed[q]
      BY DEF Missed, MissesFew, Walked
    <3> QED BY <1>0, <1>t, <2>1, <2>4, <3>1 DEF ProcessFinishes, WorkerGoes, Life
  <2>5. CASE ProcessFails(q)
    BY <1>0, <2>1, <2>5 DEF ProcessFails, profilerVars
  <2> QED BY <1>5, <2>2, <2>3, <2>4, <2>5 DEF ProcessSamples
<1> QED BY <1>1, <1>2, <1>3, <1>4, <1>5, Kinds

LEMMA ReportedStep ==
  TypeOK /\ Unmade /\ Processed /\ Untouched /\ Reported /\ [Next]_vars => Reported'
<1> SUFFICES ASSUME TypeOK, Unmade, Processed, Untouched, Reported, [Next]_vars
             PROVE  /\ \A p \in Profilers : reports'[p] = 1 => state'[p] = "done"
                    /\ isSampling' => reports'[current'] = 0
  BY DEF Reported
<1> USE DEF TypeOK
<1>1. CASE Starts
  BY <1>1, StartsFresh DEF Starts, Fresh, Reported
<1>2. CASE Stops
  <2>1. isSampling' => isSampling
    BY <1>2 DEF Stops, Reporting, Report
  <2> QED BY <1>2, <2>1, StopsUntouched DEF Reported
<1>3. CASE Reports
  <2>1. state' = state /\ current' = current
    BY <1>3 DEF Reports, profilerVars
  <2>2. CASE UNCHANGED <<reports, isSampling>>
    BY <2>1, <2>2 DEF Reported
  <2>3. CASE ~UNCHANGED <<reports, isSampling>>
    <3>1. /\ state[current] = "done" /\ isSampling' = FALSE
          /\ reports' = [reports EXCEPT ![current] = reports[current] + 1]
      BY <1>3, <2>3 DEF Reports, Reporting, Report
    <3> QED BY <2>1, <3>1 DEF Reported
  <2> QED BY <2>2, <2>3
<1>4. CASE SetTargetProcess
  <2>1. current + 1 \in Profilers /\ current + 1 > current
    BY <1>4, SamplingAssumption DEF SetTargetProcess, Profilers
  <2> QED BY <1>4, <2>1 DEF SetTargetProcess, Unmade, Fresh, Reported, profilerVars
<1>5. CASE SelectEvents
  BY <1>5 DEF SelectEvents, commandVars, Reported
<1>6. ASSUME NEW t \in Profilers, EventTracerThread(t) PROVE Reported'
  BY <1>6, TracerKept DEF Reported
<1>7. ASSUME NEW q \in Profilers, ProcessSamples(q) PROVE Reported'
  <2>1. UNCHANGED <<reports, isSampling, current>>
    BY <1>7, WorkerKept
  <2>2. state[q] = "done" => state'[q] = "done"
    BY <1>7 DEF ProcessSamples, ProcessBegins, ProcessWalks, ProcessFinishes,
                ProcessFails, WorkerGoes, Processed, profilerVars
  <2>3. \A p \in Profilers \ {q} : state'[p] = state[p]
    BY <1>7 DEF ProcessSamples, ProcessBegins, ProcessWalks, ProcessFinishes,
                ProcessFails, profilerVars
  <2> QED BY <2>1, <2>2, <2>3 DEF Reported
<1> QED BY <1>1, <1>2, <1>3, <1>4, <1>5, <1>6, <1>7, Kinds DEF Reported

\* Sets of event threads are finite.
LEMMA Finitely ==
  ASSUME NEW p \in Profilers
  PROVE  IsFiniteSet(Profilers) /\ IsFiniteSet(Adding(p)) /\ IsFiniteSet(Started(p))
<1>1. IsFiniteSet(Profilers) /\ IsFiniteSet(0 .. p)
  BY SamplingAssumption, FS_Interval DEF Profilers
<1>2. Adding(p) \in SUBSET Profilers /\ Started(p) \in SUBSET (0 .. p)
  BY DEF Adding, Started
<1> QED BY <1>1, <1>2, FS_Subset

\* A thread that adds to a profiler is one of those made before or with it.
LEMMA AddingStarted ==
  ASSUME TypeOK, Handed, NEW p \in Profilers
  PROVE  /\ Adding(p) \in SUBSET Started(p)
         /\ Cardinality(Adding(p)) \in Nat /\ Cardinality(Started(p)) \in Nat
         /\ Cardinality(Adding(p)) <= Cardinality(Started(p))
<1>1. Adding(p) \in SUBSET Started(p)
  BY DEF Adding, Started, Handed, InCallback, Profilers
<1> QED BY <1>1, Finitely, FS_Subset, FS_CardinalityType

\* As threads are made and end, those that were made remain so; what they add
\* to a profiler that was walked can only be what they found it sampling for.
LEMMA MissedKept ==
  ASSUME TypeOK, TypeOK', Missed, NEW p \in Profilers, Walked(p),
         \A t \in 0 .. p : tracer[t] # "none" => tracer'[t] # "none",
         Adding(p)' \in SUBSET Adding(p),
         UNCHANGED <<counted[p], pushed[p]>>
  PROVE  /\ counted'[p] <= pushed'[p]
         /\ pushed'[p] - counted'[p] + Cardinality(Adding(p)')
              <= Cardinality(Started(p)')
<1> DEFINE a == Cardinality(Adding(p))   aa == Cardinality(Adding(p)')
           s == Cardinality(Started(p))  ss == Cardinality(Started(p)')
<1>1. IsFiniteSet(Adding(p)) /\ IsFiniteSet(Started(p))
  BY Finitely
<1>2. IsFiniteSet(Started(p)')
  <2>1. Started(p)' \in SUBSET (0 .. p)
    BY DEF Started
  <2>2. IsFiniteSet(0 .. p)
    BY FS_Interval, SamplingAssumption DEF Profilers
  <2> QED BY <2>1, <2>2, FS_Subset
<1>3. Started(p) \in SUBSET Started(p)'
  BY DEF Started
<1>4. aa <= a /\ s <= ss /\ a \in Nat /\ aa \in Nat /\ s \in Nat /\ ss \in Nat
  BY <1>1, <1>2, <1>3, FS_Subset, FS_CardinalityType
<1>5. counted[p] <= pushed[p] /\ pushed[p] - counted[p] + a <= s
  BY DEF Missed, MissesFew
<1>6. counted[p] \in Nat /\ pushed[p] \in Nat
  BY DEF TypeOK
<1> HIDE DEF a, aa, s, ss
<1>7. counted'[p] <= pushed'[p] /\ pushed'[p] - counted'[p] + aa <= ss
  BY <1>4, <1>5, <1>6
<1> QED BY <1>7 DEF aa, ss

LEMMA MissedStep ==
  TypeOK /\ TypeOK' /\ Unmade /\ Handed /\ Processed /\ Untouched /\ Missed
    /\ [Next]_vars => Missed'
<1> SUFFICES ASSUME TypeOK, TypeOK', Unmade, Handed, Processed, Untouched, Missed,
                    [Next]_vars, NEW p \in Profilers, Walked(p)'
             PROVE  MissesFew(p)'
  BY DEF Missed
<1> DEFINE Goal == /\ counted'[p] <= pushed'[p]
                   /\ pushed'[p] - counted'[p] + Cardinality(Adding(p)')
                        <= Cardinality(Started(p)')
<1> SUFFICES Goal
  BY DEF MissesFew
<1>a. \A t \in 0 .. p : t \in Profilers
  BY SamplingAssumption DEF Profilers
<1>1. CASE Starts
  <2>1. /\ UNCHANGED <<counted, pushed, worker, held>>
        /\ Fresh(current + 1) /\ current + 1 \in Profilers
        /\ \E where \in {"none", "idle"} :
             tracer' = [tracer EXCEPT ![current + 1] = where]
    BY <1>1, StartsFresh DEF Starts
  <2>2. Walked(p)
    BY <2>1 DEF Walked
  <2>3. Adding(p)' \in SUBSET Adding(p)
    BY <2>1 DEF Adding, TypeOK
  <2>4. \A t \in 0 .. p : tracer[t] # "none" => tracer'[t] # "none"
    BY <1>a, <2>1 DEF Fresh, TypeOK
  <2> QED BY <2>1, <2>2, <2>3, <2>4, MissedKept
<1>2. CASE Stops
  <2>1. /\ UNCHANGED <<counted, pushed, tracer, held>>
        /\ worker' = [worker EXCEPT ![current] = "start"]
    BY <1>2, StopsUntouched
  <2>2. Walked(p)
    BY <2>1 DEF Walked, TypeOK
  <2> QED BY <2>1, <2>2, MissedKept DEF Adding
<1>3. CASE Reports \/ SetTargetProcess \/ SelectEvents
  <2>1. UNCHANGED <<counted, pushed, tracer, held, worker>>
    BY <1>3 DEF Reports, SetTargetProcess, SelectEvents, profilerVars, tracerVars
  <2>2. Walked(p)
    BY <2>1 DEF Walked
  <2> QED BY <2>1, <2>2, MissedKept DEF Adding
<1>4. ASSUME NEW t \in Profilers, EventTracerThread(t) PROVE Goal
  <2>1. UNCHANGED <<state, worker, counted>>
    BY <1>4, TracerKept
  <2>2. Walked(p)
    BY <2>1 DEF Walked
  <2>3. \A u \in 0 .. p : tracer[u] # "none" => tracer'[u] # "none"
    <3>1. tracer' = tracer
            \/ \E where \in {"idle", "test", "push", "ended"} :
                 tracer' = [tracer EXCEPT ![t] = where]
      <4>1. CASE Callback(t) \/ TracerEnds(t)
        BY <4>1 DEF Callback, TracerEnds
      <4>2. CASE AddCallStackTests(t)
        BY <4>2 DEF AddCallStackTests
      <4>3. CASE AddCallStackPushes(t)
        BY <4>3 DEF AddCallStackPushes
      <4> QED BY <1>4, <4>1, <4>2, <4>3 DEF EventTracerThread
    <3> QED BY <1>a, <3>1 DEF TypeOK
  <2>4. CASE Callback(t) \/ AddCallStackTests(t) \/ TracerEnds(t)
    <3>1. UNCHANGED pushed
      BY <2>4 DEF Callback, AddCallStackTests, TracerEnds
    <3>2. state[p] # "sampling"
      BY <2>2 DEF Processed, Walked
    <3>3. Adding(p)' \in SUBSET Adding(p)
      <4>1. CASE Callback(t)
        BY <4>1 DEF Callback, Adding, TypeOK
      <4>2. CASE AddCallStackTests(t)
        BY <3>2, <4>2 DEF AddCallStackTests, Adding, TypeOK
      <4>3. CASE TracerEnds(t)
        BY <4>3 DEF TracerEnds, Adding, TypeOK
      <4> QED BY <2>4, <4>1, <4>2, <4>3
    <3> QED BY <2>1, <2>2, <2>3, <3>1, <3>3, MissedKept
  <2>5. CASE AddCallStackPushes(t) /\ UNCHANGED <<tracer, held, pushed>>
    BY <2>1, <2>2, <2>3, <2>5, MissedKept DEF Adding
  <2>6. CASE AddCallStackPushes(t) /\ ~UNCHANGED <<tracer, held, pushed>>
    <3>1. /\ tracer[t] = "push" /\ tracer' = [tracer EXCEPT ![t] = "idle"]
          /\ held' = held
          /\ pushed' = [pushed EXCEPT ![held[t]] = pushed[held[t]] + 1]
      BY <2>6 DEF AddCallStackPushes
    <3>2. held[t] \in Profilers
      BY DEF TypeOK
    <3>3. CASE held[t] # p
      <4>1. pushed'[p] = pushed[p]
        BY <3>1, <3>3 DEF TypeOK
      <4>2. Adding(p)' \in SUBSET Adding(p)
        BY <3>1 DEF Adding, TypeOK
      <4> QED BY <2>1, <2>2, <2>3, <4>1, <4>2, MissedKept
    <3>4. CASE held[t] = p
      <4> DEFINE a == Cardinality(Adding(p))   aa == Cardinality(Adding(p)')
                 s == Cardinality(Started(p))  ss == Cardinality(Started(p)')
      <4>1. pushed'[p] = pushed[p] + 1 /\ counted'[p] = counted[p]
        BY <2>1, <3>1, <3>2, <3>4 DEF TypeOK
      <4>2. Adding(p)' = Adding(p) \ {t} /\ t \in Adding(p)
        BY <3>1, <3>4 DEF Adding, TypeOK
      <4>3. aa = a - 1
        BY <4>2, Finitely, FS_RemoveElement
      <4>4. Started(p)' = Started(p)
        BY <1>a, <3>1 DEF Started, TypeOK
      <4>5. counted[p] <= pushed[p] /\ pushed[p] - counted[p] + a <= s
        BY <2>2 DEF Missed, MissesFew
      <4>6. counted[p] \in Nat /\ pushed[p] \in Nat /\ a \in Nat /\ s \in Nat /\ ss = s
        BY <4>4, AddingStarted DEF TypeOK
      <4> HIDE DEF a, aa, s, ss
      <4>7. counted'[p] <= pushed'[p] /\ pushed'[p] - counted'[p] + aa <= ss
        BY <4>1, <4>3, <4>5, <4>6
      <4> QED BY <4>7 DEF aa, ss
    <3> QED BY <3>3, <3>4
  <2> QED BY <1>4, <2>4, <2>5, <2>6 DEF EventTracerThread
<1>5. ASSUME NEW q \in Profilers, ProcessSamples(q) PROVE Goal
  <2>1. UNCHANGED <<tracer, held, pushed>>
    BY <1>5, WorkerKept
  <2>2. Adding(p)' = Adding(p) /\ Started(p)' = Started(p)
    BY <2>1 DEF Adding, Started
  <2>3. CASE Walked(p) /\ UNCHANGED counted[p]
    BY <2>1, <2>2, <2>3, MissedKept
  <2>4. CASE ~(Walked(p) /\ UNCHANGED counted[p])
    <3>1. /\ q = p /\ worker[p] = "walk"
          /\ counted' = [counted EXCEPT ![p] = counted[p] + callstacks[p]]
      BY <1>5, <2>4 DEF ProcessSamples, ProcessBegins, ProcessWalks,
         ProcessFinishes, ProcessFails, WorkerGoes, Walked, TypeOK, profilerVars
    <3>2. counted[p] = 0 /\ callstacks[p] = pushed[p] /\ pushed[p] \in Nat
      BY <3>1 DEF Processed, TypeOK
    <3>3. counted'[p] = pushed'[p] /\ pushed'[p] \in Nat /\ pushed'[p] - counted'[p] = 0
      BY <2>1, <3>1, <3>2 DEF TypeOK
    <3> DEFINE a == Cardinality(Adding(p)) s == Cardinality(Started(p))
    <3>4. a \in Nat /\ s \in Nat /\ a <= s
      BY AddingStarted
    <3>5. pushed'[p] - counted'[p] + a <= s
      <4> HIDE DEF a, s
      <4> QED BY <3>3, <3>4
    <3> QED BY <2>2, <3>3, <3>5
  <2> QED BY <2>3, <2>4
<1> QED BY <1>1, <1>2, <1>3, <1>4, <1>5, Kinds

\* A profiler stays in use when the next one is made.
LEMMA GuardedStep ==
  TypeOK /\ Unmade /\ Handed /\ Processed /\ Untouched /\ Guarded
    /\ [Next]_vars => Guarded'
<1> SUFFICES ASSUME TypeOK, Unmade, Handed, Processed, Untouched, Guarded,
                    [Next]_vars, ~misused'
             PROVE  Guarded'
  BY DEF Guarded
<1> USE DEF InCallback, InUse, Working, TypeOK
<1>1. CASE Starts
  <2>1. ~misused /\ kept' = kept \cup {current} /\ current' = current + 1
    BY <1>1 DEF Starts, TraceStart, NewSamplingProfiler
  <2>2. /\ state' = [state EXCEPT ![current + 1] = "sampling"]
        /\ Fresh(current + 1)
        /\ \E where \in {"none", "idle"} :
             tracer' = [tracer EXCEPT ![current + 1] = where]
        /\ UNCHANGED <<unique, worker, held>>
    BY <1>1, StartsFresh DEF Starts
  <2>3. \A t \in Profilers : InCallback(t)' => InUse(held[t])'
    BY <2>1, <2>2 DEF Guarded
  <2>4. \A p \in Profilers : Working(p)' => InUse(p)'
    BY <2>1, <2>2 DEF Guarded
  <2>5. \A p \in Profilers : unique'[p] = "null" => state'[p] = "done"
    BY <2>1, <2>2 DEF Guarded, Fresh
  <2> QED BY <2>3, <2>4, <2>5 DEF Guarded
<1>2. CASE Stops
  <2>1. /\ ~misused /\ UNCHANGED <<unique, tracer, held, current, kept>>
        /\ state[current] \in {"idle", "sampling"}
        /\ state' = [state EXCEPT ![current] = "pendingStop"]
        /\ worker' = [worker EXCEPT ![current] = "start"]
    BY <1>2, StopsUntouched
  <2>2. \A p \in Profilers : unique'[p] = "null" => state'[p] = "done"
    BY <2>1 DEF Guarded
  <2>3. \A p \in Profilers : Working(p)' => InUse(p)'
    BY <2>1 DEF Guarded
  <2> QED BY <2>1, <2>2, <2>3 DEF Guarded
<1>3. CASE Reports
  BY <1>3 DEF Reports, profilerVars, tracerVars, Guarded
<1>4. CASE SetTargetProcess
  <2>1. ~misused /\ ~Busy /\ UNCHANGED <<kept, unique, state, worker, tracer, held>>
    BY <1>4 DEF SetTargetProcess, profilerVars, tracerVars
  <2>2. \A p \in Profilers : ~Working(p) /\ ~InCallback(p)
    BY <2>1 DEF Busy, Running
  <2> QED BY <2>1, <2>2 DEF Guarded
<1>5. CASE SelectEvents
  <2>1. /\ ~misused /\ state[current] = "done"
        /\ UNCHANGED <<current, kept, state, worker, tracer, held>>
    BY <1>5 DEF SelectEvents, tracerVars, commandVars
  <2>2. \A p \in Profilers : unique'[p] = "null" => state'[p] = "done"
    BY <1>5, <2>1 DEF SelectEvents, Guarded
  <2> QED BY <2>1, <2>2 DEF Guarded
<1>6. ASSUME NEW t \in Profilers, EventTracerThread(t) PROVE Guarded'
  <2>1. ~misused /\ UNCHANGED <<state, unique, worker, current, kept>>
    BY <1>6, TracerKept
  <2>2. CASE Callback(t)
    BY <2>1, <2>2 DEF Callback, Guarded
  <2>3. CASE AddCallStackTests(t) \/ TracerEnds(t)
    <3>1. /\ held' = held
          /\ \A u \in Profilers : InCallback(u)' => InCallback(u)
      <4>1. CASE AddCallStackTests(t)
        BY <4>1 DEF AddCallStackTests
      <4>2. CASE TracerEnds(t)
        BY <4>2 DEF TracerEnds
      <4> QED BY <2>3, <4>1, <4>2
    <3> QED BY <2>1, <3>1 DEF Guarded
  <2>4. CASE AddCallStackPushes(t)
    <3>1. held' = held /\ \A u \in Profilers : InCallback(u)' => InCallback(u)
      BY <2>4 DEF AddCallStackPushes
    <3> QED BY <2>1, <3>1 DEF Guarded
  <2> QED BY <1>6, <2>2, <2>3, <2>4 DEF EventTracerThread
<1>7. ASSUME NEW q \in Profilers, ProcessSamples(q) PROVE Guarded'
  <2>1. ~misused /\ UNCHANGED <<tracer, held, current, kept>>
    BY <1>7, WorkerKept
  <2>2. CASE ProcessBegins(q)
    BY <2>1, <2>2 DEF ProcessBegins, WorkerGoes, Guarded, Processed
  <2>3. CASE ProcessWalks(q)
    BY <2>1, <2>3 DEF ProcessWalks, WorkerGoes, Guarded
  <2>4. CASE ProcessFinishes(q)
    BY <2>1, <2>4 DEF ProcessFinishes, WorkerGoes, Guarded
  <2>5. CASE ProcessFails(q)
    BY <2>1, <2>5 DEF ProcessFails, profilerVars, Guarded
  <2> QED BY <1>7, <2>2, <2>3, <2>4, <2>5 DEF ProcessSamples
<1> QED BY <1>1, <1>2, <1>3, <1>4, <1>5, <1>6, <1>7, Kinds DEF Guarded

\* What is in use is not destroyed.
LEMMA InUseStays ==
  ASSUME TypeOK, NEW p, InUse(p)
  PROVE  ~Destroyed(p)
<1>1. CASE p = current
  <2>1. ~(current < current)
    BY DEF TypeOK, Profilers
  <2> QED BY <1>1, <2>1 DEF Destroyed
<1>2. CASE p \in kept
  BY <1>2 DEF Destroyed
<1> QED BY <1>1, <1>2 DEF InUse

LEMMA CrashStep ==
  TypeOK /\ Processed /\ Guarded /\ CrashOnlyByRace /\ [Next]_vars
    => CrashOnlyByRace'
<1> SUFFICES ASSUME TypeOK, Processed, Guarded, CrashOnlyByRace, [Next]_vars,
                    crashed', ~misused'
             PROVE  \E t \in Profilers : tracer'[t] = "push" /\ worker'[held'[t]] = "clear"
  BY DEF CrashOnlyByRace
<1>1. CASE UNCHANGED vars
  BY <1>1 DEF vars, tracerVars, CrashOnlyByRace
<1>2. CASE ~UNCHANGED vars
  <2>1. ~crashed
    BY <1>2 DEF Next
  <2>2. CASE Starts \/ Stops \/ Reports \/ SetTargetProcess
    BY <2>1, <2>2 DEF Starts, Stops, Reports, SetTargetProcess, TypeOK
  <2>3. CASE SelectEvents
    <3>1. worker[current] = "walk" /\ state[current] = "done"
      BY <2>3 DEF SelectEvents
    <3> QED BY <3>1 DEF Processed, TypeOK
  <2>4. ASSUME NEW t \in Profilers, EventTracerThread(t)
        PROVE  \E u \in Profilers : tracer'[u] = "push" /\ worker'[held'[u]] = "clear"
    <3>1. ~misused /\ worker' = worker
      BY <2>4, TracerKept
    <3>2. InCallback(t) => ~Destroyed(held[t])
      BY <3>1, InUseStays DEF Guarded
    <3>3. CASE AddCallStackPushes(t)
      BY <2>1, <3>1, <3>2, <3>3 DEF AddCallStackPushes, InCallback
    <3>4. CASE Callback(t) \/ AddCallStackTests(t) \/ TracerEnds(t)
      BY <2>1, <3>2, <3>4 DEF Callback, AddCallStackTests, TracerEnds, InCallback
    <3> QED BY <2>4, <3>3, <3>4 DEF EventTracerThread
  <2>5. ASSUME NEW p \in Profilers, ProcessSamples(p) PROVE FALSE
    <3>1. ~misused
      BY <2>5, WorkerKept
    <3>2. Working(p) => ~Destroyed(p)
      BY <3>1, InUseStays DEF Guarded
    <3>3. CASE ProcessBegins(p) \/ ProcessFinishes(p)
      BY <2>1, <3>3 DEF ProcessBegins, ProcessFinishes
    <3>4. CASE ProcessWalks(p)
      BY <3>1, <3>4 DEF ProcessWalks, WorkerGoes, Guarded, Processed
    <3>5. CASE ProcessFails(p)
      BY <3>2, <3>5 DEF ProcessFails
    <3> QED BY <2>5, <3>3, <3>4, <3>5 DEF ProcessSamples
  <2> QED BY <2>2, <2>3, <2>4, <2>5, Kinds
<1> QED BY <1>1, <1>2

-----------------------------------------------------------------------------
(* The theorems.                                                           *)

LEMMA Initially == Init => IInv
<1> SUFFICES ASSUME Init PROVE IInv
  OBVIOUS
<1>1. TypeOK
  <2>1. 0 \in Profilers
    BY SamplingAssumption DEF Profilers
  <2>2. /\ 0 \in Nat /\ "idle" \in States
        /\ current = 0 /\ kept = {}
        /\ isSampling = FALSE /\ isTracing = FALSE /\ crashed = FALSE /\ misused = FALSE
    BY DEF Init, States
  <2>3. /\ state \in [Profilers -> States]
        /\ callstacks \in [Profilers -> Nat] /\ counted \in [Profilers -> Nat]
        /\ pushed \in [Profilers -> Nat] /\ held \in [Profilers -> Profilers]
        /\ reports \in [Profilers -> {0, 1}]
    BY <2>1, <2>2 DEF Init
  <2>4. /\ unique \in [Profilers -> {"none", "null", "stack"}]
        /\ worker \in [Profilers -> {"none", "start", "walk", "clear", "ended"}]
        /\ tracer \in [Profilers -> {"none", "idle", "test", "push", "ended"}]
    BY DEF Init
  <2> QED BY <2>1, <2>2, <2>3, <2>4 DEF TypeOK
<1>2. Unmade /\ Handed /\ Processed /\ Untouched
  BY DEF Init, Unmade, Fresh, Handed, InCallback, Processed, Untouched
<1>3. Missed /\ Reported /\ Guarded /\ CrashOnlyByRace
  BY DEF Init, Missed, Walked, Reported, Guarded, InCallback, Working,
         CrashOnlyByRace, Profilers
<1> QED BY <1>1, <1>2, <1>3 DEF IInv

LEMMA Inductive == IInv /\ [Next]_vars => IInv'
BY TypeStep, UnmadeStep, HandedStep, UntouchedStep, ProcessedStep, MissedStep,
   ReportedStep, GuardedStep, CrashStep DEF IInv

\* The invariant holds of every behaviour.
THEOREM Invariant == Spec => []IInv
BY Initially, Inductive, PTL DEF Spec

\* The variables keep their types.
THEOREM TypeCorrect == Spec => []TypeOK
<1>1. IInv => TypeOK
  BY DEF IInv
<1> QED BY <1>1, Invariant, PTL

\* Although nothing joins the event threads, a report misses at most the one
\* sample that each of them was about to add when the tracing stopped.
THEOREM MissesOneEach == Spec => []SamplesCounted
<1>1. IInv => SamplesCounted
  <2> SUFFICES ASSUME IInv, NEW p \in Profilers, state[p] = "done"
               PROVE  /\ counted[p] <= pushed[p]
                      /\ pushed[p] - counted[p]
                           <= Cardinality({t \in 0 .. p : tracer[t] # "none"})
    BY DEF SamplesCounted
  <2>1. Walked(p)
    BY DEF IInv, TypeOK, Processed, Walked
  <2>2. MissesFew(p)
    BY <2>1 DEF IInv, Missed
  <2> DEFINE a == Cardinality(Adding(p)) s == Cardinality(Started(p))
  <2>3. a \in Nat /\ s \in Nat /\ counted[p] \in Nat /\ pushed[p] \in Nat
    BY AddingStarted DEF IInv, TypeOK
  <2>4. counted[p] <= pushed[p] /\ pushed[p] - counted[p] + a <= s
    BY <2>2 DEF MissesFew
  <2> HIDE DEF a, s
  <2>5. counted[p] <= pushed[p] /\ pushed[p] - counted[p] <= s
    BY <2>3, <2>4
  <2> QED BY <2>5 DEF s, Started
<1> QED BY <1>1, Invariant, PTL

\* A report is shown once, of a profiler whose samples were processed.
THEOREM OneReport == Spec => []ReportedOnce
<1>1. IInv => ReportedOnce
  <2> SUFFICES ASSUME IInv, NEW p \in Profilers
               PROVE  /\ reports[p] <= 1
                      /\ reports[p] = 1 => /\ worker[p] = "ended"
                                           /\ callstacks[p] <= pushed[p] - counted[p]
    BY DEF ReportedOnce
  <2>1. reports[p] \in {0, 1} /\ (reports[p] = 1 => state[p] = "done")
    BY DEF IInv, TypeOK, Reported
  <2>2. CASE reports[p] = 0
    BY <2>2
  <2>3. CASE reports[p] = 1
    <3>1. state[p] = "done"
      BY <2>1, <2>3
    <3>2. worker[p] = "ended" /\ callstacks[p] <= pushed[p] - counted[p]
      BY <3>1 DEF IInv, TypeOK, Processed
    <3> QED BY <2>3, <3>2
  <2> QED BY <2>1, <2>2, <2>3
<1> QED BY <1>1, Invariant, PTL

\* A user who changes no target under running threads and selects no call
\* stacks before they are processed meets one crash only: a sample is added to
\* the chain that is being cleared.
THEOREM OneCrash == Spec => []CrashOnlyByRace
<1>1. IInv => CrashOnlyByRace
  BY DEF IInv
<1> QED BY <1>1, Invariant, PTL
===============================================================================
