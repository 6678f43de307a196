------------------------- MODULE CaptureSessionProofs -------------------------
(***************************************************************************)
(* Proofs about CaptureSession, for any number of threads, calls and       *)
(* captures: the two ends agree when nothing is under way between them,    *)
(* the time graph shows one session, and no call stack is forgotten.       *)
(*                                                                         *)
(* The ends agree because the last message under way that bears on a       *)
(* variable of the target leaves it as the user interface wants it, and    *)
(* without such a message it is so already.                                *)
(***************************************************************************)
EXTENDS CaptureSession, TLAPS

Types == {"NewSession", "StartCapture", "FunctionHook", "StopCapture"}
Messages == [type : Types, session : Nat]

\* The variables the theorems are about keep their types.
TypeOK ==
  /\ hostSession \in Nat /\ session \in Nat
  /\ hostPC \in {"idle", "record", "clear", "hooks", "stop"}
  /\ netPC \in {"idle", "flush", "flushSend", "disable"}
  /\ hostRecording \in BOOLEAN /\ recording \in BOOLEAN /\ hooked \in BOOLEAN
  /\ down \in Seq(Messages)

\* The last message of a queue that has one of the types, and its absence
LastOf(q, types, i) ==
  /\ i \in 1 .. Len(q) /\ q[i].type \in types
  /\ \A j \in 1 .. Len(q) : j > i => q[j].type \notin types
None(q, types) == \A i \in 1 .. Len(q) : q[i].type \notin types

\* What the user interface wants of the target, or will have asked for
Capturing == hostPC = "idle" /\ hostRecording

Records == {"StartCapture", "StopCapture"}
Hooks   == {"FunctionHook", "StopCapture"}

SessionAgrees ==
  /\ \A i : LastOf(down, {"NewSession"}, i) => down[i].session = hostSession
  /\ None(down, {"NewSession"}) => session = hostSession

RecordingAgrees ==
  /\ \A i : LastOf(down, Records, i) =>
       (down[i].type = "StartCapture" <=> Capturing)
  /\ None(down, Records) => (recording <=> Capturing)

HooksAgree ==
  /\ \A i : LastOf(down, Hooks, i) =>
       (down[i].type = "FunctionHook" <=> Capturing)
  /\ None(down, Hooks) => IF netPC = "idle" THEN hooked <=> Capturing
                                            ELSE ~Capturing

Starting == hostPC \in {"clear", "hooks"} => hostRecording

\* What the target sends, and the variables it is made from.
Timers  == [thread : Threads, call : Nat, session : Nat]
Packets == [session : Nat, timers : SUBSET Timers, stacks : SUBSET Functions]
WayUp ==
  /\ calls \in [Threads -> Nat] /\ calling \in [Threads -> Functions]
  /\ tlsSession \in [Threads -> Int]
  /\ sentCallstacks \in [Threads -> SUBSET Functions]
  /\ timerSession \in [Threads -> Nat]
  /\ timerQueue \subseteq Timers /\ batch \subseteq Timers /\ header \in Nat
  /\ sendQueue \in [Senders -> Seq(Packets)]
  /\ wire \in Seq(Packets) /\ received \in Seq(Packets) /\ Len(received) <= 1

\* Sessions only grow on the way down, and each is new to the target when its
\* Msg_NewSession arrives.
Is(i, type) == down[i].type = type
Ordered ==
  /\ \A i, j \in 1 .. Len(down) : i < j =>
       /\ down[i].session <= down[j].session
       /\ Is(j, "NewSession") => down[i].session < down[j].session
  /\ \A i \in 1 .. Len(down) :
       /\ session <= down[i].session /\ down[i].session <= hostSession
       /\ Is(i, "NewSession") => session < down[i].session
  /\ session <= hostSession
  /\ \A t \in Threads : tlsSession[t] <= session

\* A session is not started again once it was stopped.
StartsNow == hostPC \in {"record", "clear", "hooks"}
StopsLast ==
  /\ \A i, j \in 1 .. Len(down) :
       i < j /\ Is(i, "StopCapture") /\ Is(j, "StartCapture")
         => down[i].session < down[j].session
  /\ StartsNow => \A i \in 1 .. Len(down) :
                    Is(i, "StopCapture") => down[i].session < hostSession
  /\ recording => netPC = "idle"
  /\ netPC # "idle" /\ session = hostSession =>
       ~StartsNow /\ \A i \in 1 .. Len(down) : ~Is(i, "StartCapture")

\* A thread's call stacks are known or on their way from the time the session
\* reaches the target, which is before it records.
Live == recording \/ StartsNow \/ \E i \in 1 .. Len(down) : Is(i, "StartCapture")
Comes(f) == f \in callstacks
            \/ \E m \in InFlight : f \in m.stacks /\ m.session = hostSession
Believed ==
  Live /\ session = hostSession =>
    \A t \in Threads : tlsSession[t] = session =>
      \A f \in sentCallstacks[t] : Comes(f)

IInv == /\ TypeOK /\ Starting /\ SessionAgrees /\ RecordingAgrees /\ HooksAgree
        /\ GraphOfSession
        /\ WayUp /\ Ordered /\ StopsLast /\ Believed

-----------------------------------------------------------------------------
(* The last message.                                                       *)

LEMMA AppendOther ==
  ASSUME NEW q \in Seq(Messages), NEW m \in Messages, NEW T, m.type \notin T
  PROVE  /\ \A i : LastOf(Append(q, m), T, i) =>
              LastOf(q, T, i) /\ Append(q, m)[i] = q[i]
         /\ None(Append(q, m), T) => None(q, T)
<1> DEFINE r == Append(q, m)
<1>1. /\ Len(q) \in Nat /\ Len(r) = Len(q) + 1 /\ r[Len(q) + 1] = m
      /\ \A i \in 1 .. Len(q) : r[i] = q[i]
  OBVIOUS
<1> HIDE DEF r
<1>2. 1 .. Len(r) = 1 .. Len(q) \cup {Len(q) + 1}
  BY <1>1
<1>3. /\ \A i : LastOf(r, T, i) => LastOf(q, T, i) /\ r[i] = q[i]
      /\ None(r, T) => None(q, T)
  BY <1>1, <1>2 DEF LastOf, None
<1> QED BY <1>3 DEF r

LEMMA AppendOne ==
  ASSUME NEW q \in Seq(Messages), NEW m \in Messages, NEW T, m.type \in T
  PROVE  /\ \A i : LastOf(Append(q, m), T, i) => Append(q, m)[i] = m
         /\ ~None(Append(q, m), T)
<1> DEFINE r == Append(q, m)
<1>1. /\ Len(q) \in Nat /\ Len(r) = Len(q) + 1 /\ r[Len(q) + 1] = m
  OBVIOUS
<1> HIDE DEF r
<1>2. \A i \in 1 .. Len(r) : i = Len(r) \/ Len(r) > i
  BY <1>1
<1>3. Len(r) \in 1 .. Len(r) /\ r[Len(r)] = m
  BY <1>1
<1>4. /\ \A i : LastOf(r, T, i) => r[i] = m
      /\ ~None(r, T)
  BY <1>2, <1>3 DEF LastOf, None
<1> QED BY <1>4 DEF r

LEMMA AppendTwo ==
  ASSUME NEW q \in Seq(Messages), NEW a \in Messages, NEW b \in Messages
  PROVE  q \o <<a, b>> = Append(Append(q, a), b)
OBVIOUS

LEMMA TailLast ==
  ASSUME NEW q \in Seq(Messages), q # <<>>, NEW T
  PROVE  /\ Tail(q) \in Seq(Messages) /\ Head(q) \in Messages
         /\ \A i : LastOf(Tail(q), T, i) =>
              LastOf(q, T, i + 1) /\ Tail(q)[i] = q[i + 1]
         /\ None(Tail(q), T) /\ Head(q).type \notin T => None(q, T)
         /\ None(Tail(q), T) /\ Head(q).type \in T =>
              LastOf(q, T, 1) /\ q[1] = Head(q)
<1> DEFINE r == Tail(q)
<1>1. /\ Len(q) \in Nat \ {0} /\ Len(r) = Len(q) - 1 /\ Head(q) = q[1]
      /\ \A i \in 1 .. Len(r) : r[i] = q[i + 1]
      /\ q[1] \in Messages /\ r \in Seq(Messages)
  OBVIOUS
<1> HIDE DEF r
<1>2. \A j \in 1 .. Len(q) : j = 1 \/ (j - 1 \in 1 .. Len(r) /\ q[j] = r[j - 1])
  <2> TAKE j \in 1 .. Len(q)
  <2>1. j = 1 \/ (j - 1 \in 1 .. Len(r) /\ (j - 1) + 1 = j)
    BY <1>1
  <2> QED BY <1>1, <2>1
<1>3. ASSUME NEW i, LastOf(r, T, i)
      PROVE  LastOf(q, T, i + 1) /\ r[i] = q[i + 1]
  <2>1. i \in 1 .. Len(r) /\ r[i].type \in T /\ i + 1 \in 1 .. Len(q)
    BY <1>1, <1>3 DEF LastOf
  <2>2. ASSUME NEW j \in 1 .. Len(q), j > i + 1 PROVE q[j].type \notin T
    <3>1. j - 1 \in 1 .. Len(r) /\ q[j] = r[j - 1] /\ j - 1 > i
      BY <1>2, <2>1, <2>2
    <3> QED BY <1>3, <3>1 DEF LastOf
  <2> QED BY <1>1, <2>1, <2>2 DEF LastOf
<1>4. None(r, T) /\ Head(q).type \notin T => None(q, T)
  BY <1>1, <1>2 DEF None
<1>5. None(r, T) /\ Head(q).type \in T => LastOf(q, T, 1) /\ q[1] = Head(q)
  <2>1. \A j \in 1 .. Len(q) : j > 1 => j # 1
    BY <1>1
  <2> QED BY <1>1, <1>2, <2>1 DEF None, LastOf
<1> QED BY <1>1, <1>3, <1>4, <1>5 DEF r

-----------------------------------------------------------------------------
LEMMA Initially == Init => IInv
<1> SUFFICES ASSUME Init PROVE IInv
  OBVIOUS
<1>1. TypeOK /\ Starting
  <2>1. down \in Seq(Messages)
    BY DEF Init
  <2>2. /\ hostSession = 0 /\ hostPC = "idle" /\ hostRecording = FALSE
        /\ session = 0 /\ netPC = "idle" /\ recording = FALSE /\ hooked = FALSE
    BY DEF Init
  <2> QED BY <2>1, <2>2 DEF TypeOK, Starting
<1>2. \A T : None(down, T) /\ \A i : ~LastOf(down, T, i)
  BY DEF Init, None, LastOf
<1>3. SessionAgrees /\ RecordingAgrees /\ HooksAgree
  BY <1>2 DEF Init, SessionAgrees, RecordingAgrees, HooksAgree, Capturing
<1>4. GraphOfSession
  BY DEF Init, GraphOfSession
<1>5. WayUp
  <2>1. /\ wire \in Seq(Packets) /\ received \in Seq(Packets) /\ Len(received) <= 1
        /\ sendQueue \in [Senders -> Seq(Packets)]
    BY DEF Init
  <2>2. /\ calls \in [Threads -> Nat] /\ calling \in [Threads -> Functions]
        /\ tlsSession \in [Threads -> Int]
        /\ sentCallstacks \in [Threads -> SUBSET Functions]
        /\ timerSession \in [Threads -> Nat]
    BY DEF Init
  <2> QED BY <2>1, <2>2 DEF Init, WayUp
<1>6. Ordered /\ StopsLast /\ Believed
  BY DEF Init, Ordered, StopsLast, StartsNow, Believed
<1> QED BY <1>1, <1>3, <1>4, <1>5, <1>6 DEF IInv

\* What the rest of the system does.
Elsewhere == UNCHANGED <<hostSession, hostPC, hostRecording, down, netVars>>

LEMMA OthersElsewhere ==
  ASSUME \/ Receive \/ ReceiveUses \/ Consume \/ SendTimers \/ SendData
         \/ \E t \in Threads : Instrumented(t)
         \/ UNCHANGED vars
  PROVE  Elsewhere
<1> USE DEF Elsewhere, hostVars, netVars
<1>1. CASE Receive \/ ReceiveUses \/ Consume
  BY <1>1 DEF Receive, ReceiveUses, Consume, HostKeeps
<1>2. CASE SendTimers
  BY <1>2 DEF SendTimers, SendTimersTop, SendTimersDequeues, SendTimersSends,
              SenderGoes
<1>3. CASE SendData
  BY <1>3 DEF SendData
<1>4. ASSUME NEW t \in Threads, Instrumented(t) PROVE Elsewhere
  <2>1. CASE \E f \in Functions : CheckTls(t, f)
    BY <2>1 DEF CheckTls, ThreadGoes
  <2>2. CASE SendCallstack(t) \/ TimerStart(t)
    BY <2>2 DEF SendCallstack, TimerStart, ThreadGoes
  <2>3. CASE AddTests(t) \/ AddEnqueues(t)
    BY <2>3 DEF AddTests, AddEnqueues, ThreadGoes
  <2> QED BY <1>4, <2>1, <2>2, <2>3 DEF Instrumented
<1>5. CASE UNCHANGED vars
  BY <1>5 DEF vars
<1> QED BY <1>1, <1>2, <1>3, <1>4, <1>5

-----------------------------------------------------------------------------
(* The main thread sends.                                                  *)

Parts == TypeOK /\ Starting /\ SessionAgrees /\ RecordingAgrees /\ HooksAgree

LEMMA StartCaptureKeeps == Parts /\ StartCapture => Parts'
<1> SUFFICES ASSUME Parts, StartCapture PROVE Parts'
  OBVIOUS
<1> DEFINE m == [type |-> "NewSession", session |-> hostSession + 1]
<1> USE DEF Parts
<1>1. /\ hostSession' = hostSession + 1 /\ down' = Append(down, m)
      /\ hostPC = "idle" /\ hostPC' = "record" /\ ~hostRecording
      /\ UNCHANGED <<hostRecording, session, netPC, recording, hooked>>
  BY DEF StartCapture, HostGoes, netVars
<1>2. m \in Messages /\ m.type = "NewSession" /\ m.session = hostSession + 1
  BY DEF TypeOK, Messages, Types
<1> HIDE DEF m
<1>3. TypeOK' /\ Starting'
  BY <1>1, <1>2 DEF TypeOK, Starting
<1>4. down \in Seq(Messages) /\ ~Capturing /\ ~Capturing'
  BY <1>1 DEF TypeOK, Capturing
<1>5. SessionAgrees'
  <2>1. /\ \A i : LastOf(down', {"NewSession"}, i) => down'[i] = m
        /\ ~None(down', {"NewSession"})
    BY <1>1, <1>2, <1>4, AppendOne
  <2> QED BY <1>1, <1>2, <2>1 DEF SessionAgrees
<1>6. RecordingAgrees'
  <2>2. down' = Append(down, m) /\ m \in Messages /\ m.type \notin Records
    BY <1>1, <1>2 DEF Records
  <2>3. /\ \A i : LastOf(Append(down, m), Records, i) =>
              LastOf(down, Records, i) /\ Append(down, m)[i] = down[i]
        /\ None(Append(down, m), Records) => None(down, Records)
    BY <1>4, <2>2, AppendOther, Zenon
  <2>1. /\ \A i : LastOf(down', Records, i) =>
              LastOf(down, Records, i) /\ down'[i] = down[i]
        /\ None(down', Records) => None(down, Records)
    BY <2>2, <2>3, Zenon
  <2> QED BY <1>1, <1>4, <2>1 DEF RecordingAgrees
<1>7. HooksAgree'
  <2>2. down' = Append(down, m) /\ m \in Messages /\ m.type \notin Hooks
    BY <1>1, <1>2 DEF Hooks
  <2>3. /\ \A i : LastOf(Append(down, m), Hooks, i) =>
              LastOf(down, Hooks, i) /\ Append(down, m)[i] = down[i]
        /\ None(Append(down, m), Hooks) => None(down, Hooks)
    BY <1>4, <2>2, AppendOther, Zenon
  <2>1. /\ \A i : LastOf(down', Hooks, i) =>
              LastOf(down, Hooks, i) /\ down'[i] = down[i]
        /\ None(down', Hooks) => None(down, Hooks)
    BY <2>2, <2>3, Zenon
  <2> QED BY <1>1, <1>4, <2>1 DEF HooksAgree
<1> QED BY <1>3, <1>5, <1>6, <1>7

LEMMA SendFunctionHooksKeeps == Parts /\ SendFunctionHooks => Parts'
<1> SUFFICES ASSUME Parts, SendFunctionHooks PROVE Parts'
  OBVIOUS
<1> DEFINE a == [type |-> "StartCapture", session |-> hostSession]
           b == [type |-> "FunctionHook", session |-> hostSession]
           q == Append(down, a)
<1> USE DEF Parts
<1>1. /\ down' = down \o <<a, b>>
      /\ hostPC = "hooks" /\ hostPC' = "idle"
      /\ UNCHANGED <<hostSession, hostRecording, session, netPC, recording, hooked>>
  BY DEF SendFunctionHooks, HostGoes, netVars
<1>2. /\ a \in Messages /\ a.type = "StartCapture"
      /\ b \in Messages /\ b.type = "FunctionHook"
  BY DEF TypeOK, Messages, Types
<1> HIDE DEF a, b
<1>3. down \in Seq(Messages) /\ q \in Seq(Messages) /\ down' = Append(q, b)
  BY <1>1, <1>2, AppendTwo DEF TypeOK
<1> HIDE DEF q
<1>4. TypeOK' /\ Starting'
  <2>1. down' \in Seq(Messages)
    BY <1>2, <1>3
  <2> QED BY <1>1, <2>1 DEF TypeOK, Starting
<1>5. Capturing' /\ ~Capturing
  BY <1>1 DEF Capturing, Starting
<1>6. SessionAgrees'
  <2>3. q \in Seq(Messages) /\ b \in Messages /\ b.type \notin {"NewSession"}
    BY <1>2, <1>3
  <2>4. /\ \A i : LastOf(Append(q, b), {"NewSession"}, i) =>
              LastOf(q, {"NewSession"}, i) /\ Append(q, b)[i] = q[i]
        /\ None(Append(q, b), {"NewSession"}) => None(q, {"NewSession"})
    BY <2>3, AppendOther, Zenon
  <2>1. /\ \A i : LastOf(down', {"NewSession"}, i) =>
              LastOf(q, {"NewSession"}, i) /\ down'[i] = q[i]
        /\ None(down', {"NewSession"}) => None(q, {"NewSession"})
    BY <1>3, <2>4, Zenon
  <2>2. /\ \A i : LastOf(q, {"NewSession"}, i) =>
              LastOf(down, {"NewSession"}, i) /\ q[i] = down[i]
        /\ None(q, {"NewSession"}) => None(down, {"NewSession"})
    BY <1>2, <1>3, AppendOther DEF q
  <2> QED BY <1>1, <2>1, <2>2 DEF SessionAgrees
<1>7. RecordingAgrees'
  <2>3. q \in Seq(Messages) /\ b \in Messages /\ b.type \notin Records
    BY <1>2, <1>3 DEF Records
  <2>4. /\ \A i : LastOf(Append(q, b), Records, i) =>
              LastOf(q, Records, i) /\ Append(q, b)[i] = q[i]
        /\ None(Append(q, b), Records) => None(q, Records)
    BY <2>3, AppendOther, Zenon
  <2>1. /\ \A i : LastOf(down', Records, i) =>
              LastOf(q, Records, i) /\ down'[i] = q[i]
        /\ None(down', Records) => None(q, Records)
    BY <1>3, <2>4, Zenon
  <2>2. /\ \A i : LastOf(q, Records, i) => q[i] = a
        /\ ~None(q, Records)
    BY <1>2, <1>3, AppendOne DEF q, Records
  <2> QED BY <1>2, <1>5, <2>1, <2>2 DEF RecordingAgrees
<1>8. HooksAgree'
  <2>1. /\ \A i : LastOf(down', Hooks, i) => down'[i] = b
        /\ ~None(down', Hooks)
    BY <1>2, <1>3, AppendOne DEF Hooks
  <2> QED BY <1>2, <1>5, <2>1 DEF HooksAgree
<1> QED BY <1>4, <1>6, <1>7, <1>8

LEMMA StopCaptureKeeps == Parts /\ StopCapture => Parts'
<1> SUFFICES ASSUME Parts, StopCapture PROVE Parts'
  OBVIOUS
<1> DEFINE m == [type |-> "StopCapture", session |-> hostSession]
<1> USE DEF Parts
<1>1. /\ down' = Append(down, m)
      /\ hostPC' = "stop"
      /\ UNCHANGED <<hostSession, hostRecording, session, netPC, recording, hooked>>
  BY DEF StopCapture, HostGoes, netVars
<1>2. m \in Messages /\ m.type = "StopCapture"
  BY DEF TypeOK, Messages, Types
<1> HIDE DEF m
<1>3. TypeOK' /\ Starting'
  BY <1>1, <1>2 DEF TypeOK, Starting
<1>4. down \in Seq(Messages) /\ ~Capturing'
  BY <1>1 DEF TypeOK, Capturing
<1>5. SessionAgrees'
  <2>2. down' = Append(down, m) /\ m \in Messages /\ m.type \notin {"NewSession"}
    BY <1>1, <1>2
  <2>3. /\ \A i : LastOf(Append(down, m), {"NewSession"}, i) =>
              LastOf(down, {"NewSession"}, i) /\ Append(down, m)[i] = down[i]
        /\ None(Append(down, m), {"NewSession"}) => None(down, {"NewSession"})
    BY <1>4, <2>2, AppendOther, Zenon
  <2>1. /\ \A i : LastOf(down', {"NewSession"}, i) =>
              LastOf(down, {"NewSession"}, i) /\ down'[i] = down[i]
        /\ None(down', {"NewSession"}) => None(down, {"NewSession"})
    BY <2>2, <2>3, Zenon
  <2> QED BY <1>1, <2>1 DEF SessionAgrees
<1>6. RecordingAgrees'
  <2>1. /\ \A i : LastOf(down', Records, i) => down'[i] = m
        /\ ~None(down', Records)
    BY <1>1, <1>2, <1>4, AppendOne DEF Records
  <2> QED BY <1>2, <1>4, <2>1 DEF RecordingAgrees
<1>7. HooksAgree'
  <2>1. /\ \A i : LastOf(down', Hooks, i) => down'[i] = m
        /\ ~None(down', Hooks)
    BY <1>1, <1>2, <1>4, AppendOne DEF Hooks
  <2> QED BY <1>2, <1>4, <2>1 DEF HooksAgree
<1> QED BY <1>3, <1>5, <1>6, <1>7

\* Steps of the main thread that send nothing
LEMMA QuietKeeps ==
  Parts /\ (StartRecording \/ ClearTimeGraph \/ StopRecording) => Parts'
<1> SUFFICES ASSUME Parts, StartRecording \/ ClearTimeGraph \/ StopRecording
             PROVE  Parts'
  OBVIOUS
<1> USE DEF Parts
<1>1. UNCHANGED <<hostSession, down, session, netPC, recording, hooked>>
  BY DEF StartRecording, ClearTimeGraph, StopRecording, HostGoes, netVars
<1>2. /\ ~Capturing /\ ~Capturing'
      /\ hostPC' \in {"idle", "clear", "hooks"} /\ hostRecording' \in BOOLEAN
      /\ Starting'
  BY DEF StartRecording, ClearTimeGraph, StopRecording, HostGoes, Capturing,
         Starting, TypeOK
<1>3. TypeOK'
  BY <1>1, <1>2 DEF TypeOK
<1> QED BY <1>1, <1>2, <1>3 DEF SessionAgrees, RecordingAgrees, HooksAgree

-----------------------------------------------------------------------------
(* The network thread decodes.                                             *)

LEMMA DecodeKeeps ==
  Parts /\ (DecodeNewSession \/ OrbitStart \/ EnableHooks \/ OrbitStop) => Parts'
<1> SUFFICES ASSUME Parts,
                    DecodeNewSession \/ OrbitStart \/ EnableHooks \/ OrbitStop
             PROVE  Parts'
  OBVIOUS
<1> DEFINE m == Head(down)
<1> USE DEF Parts
<1>1. /\ down # <<>> /\ down' = Tail(down) /\ netPC = "idle"
      /\ UNCHANGED <<hostSession, hostPC, hostRecording>>
  BY DEF DecodeNewSession, OrbitStart, EnableHooks, OrbitStop, NetGoes, Decodes,
         hostVars
<1>2. /\ down \in Seq(Messages) /\ m \in Messages /\ down' \in Seq(Messages)
  BY <1>1, TailLast DEF TypeOK
<1>3. \/ m.type = "NewSession" /\ session' = m.session
           /\ UNCHANGED <<netPC, recording, hooked>>
      \/ m.type = "StartCapture" /\ recording' = TRUE
           /\ UNCHANGED <<netPC, session, hooked>>
      \/ m.type = "FunctionHook" /\ hooked' = TRUE
           /\ UNCHANGED <<netPC, session, recording>>
      \/ m.type = "StopCapture" /\ recording' = FALSE /\ netPC' = "flush"
           /\ UNCHANGED <<session, hooked>>
  BY DEF DecodeNewSession, OrbitStart, EnableHooks, OrbitStop, NetGoes, Decodes
<1> HIDE DEF m
<1>4. TypeOK' /\ Starting'
  <2>1. m.session \in Nat
    BY <1>2 DEF Messages
  <2> QED BY <1>1, <1>2, <1>3, <2>1 DEF TypeOK, Starting
<1>5. Capturing' <=> Capturing
  BY <1>1 DEF Capturing
<1>6. \A T : /\ \A i : LastOf(down', T, i) =>
                     LastOf(down, T, i + 1) /\ down'[i] = down[i + 1]
             /\ None(down', T) /\ m.type \notin T => None(down, T)
             /\ None(down', T) /\ m.type \in T => LastOf(down, T, 1) /\ down[1] = m
  BY <1>1, <1>2, TailLast DEF m
<1>7. SessionAgrees'
  <2> DEFINE T == {"NewSession"}
  <2>1. /\ \A i : LastOf(down', T, i) =>
              LastOf(down, T, i + 1) /\ down'[i] = down[i + 1]
        /\ None(down', T) /\ m.type \notin T => None(down, T)
        /\ None(down', T) /\ m.type \in T => LastOf(down, T, 1) /\ down[1] = m
    BY <1>6
  <2>2. IF m.type \in T THEN session' = m.session ELSE session' = session
    BY <1>3
  <2> QED BY <1>1, <2>1, <2>2 DEF SessionAgrees
<1>8. RecordingAgrees'
  <2>1. /\ \A i : LastOf(down', Records, i) =>
              LastOf(down, Records, i + 1) /\ down'[i] = down[i + 1]
        /\ None(down', Records) /\ m.type \notin Records => None(down, Records)
        /\ None(down', Records) /\ m.type \in Records =>
              LastOf(down, Records, 1) /\ down[1] = m
    BY <1>6
  <2>2. IF m.type \in Records THEN recording' <=> m.type = "StartCapture"
                              ELSE recording' = recording
    BY <1>3 DEF Records
  <2> QED BY <1>5, <2>1, <2>2 DEF RecordingAgrees
<1>9. HooksAgree'
  <2>1. /\ \A i : LastOf(down', Hooks, i) =>
              LastOf(down, Hooks, i + 1) /\ down'[i] = down[i + 1]
        /\ None(down', Hooks) /\ m.type \notin Hooks => None(down, Hooks)
        /\ None(down', Hooks) /\ m.type \in Hooks =>
              LastOf(down, Hooks, 1) /\ down[1] = m
    BY <1>6
  <2>2. /\ m.type \notin Hooks => hooked' = hooked /\ netPC' = "idle"
        /\ m.type = "FunctionHook" => hooked' = TRUE /\ netPC' = "idle"
        /\ m.type = "StopCapture" => netPC' = "flush"
    BY <1>1, <1>3 DEF Hooks
  <2>3. m.type \in Hooks => m.type \in {"FunctionHook", "StopCapture"}
    BY DEF Hooks
  <2>4. ASSUME NEW i, LastOf(down', Hooks, i)
        PROVE  down'[i].type = "FunctionHook" <=> Capturing'
    BY <1>5, <2>1, <2>4 DEF HooksAgree
  <2>5. ASSUME None(down', Hooks)
        PROVE  IF netPC' = "idle" THEN hooked' <=> Capturing' ELSE ~Capturing'
    <3>1. CASE m.type \notin Hooks
      BY <1>1, <1>5, <2>1, <2>2, <2>5, <3>1 DEF HooksAgree
    <3>2. CASE m.type \in Hooks
      <4>1. m.type = "FunctionHook" <=> Capturing
        BY <2>1, <2>5, <3>2 DEF HooksAgree
      <4>2. CASE m.type = "FunctionHook"
        BY <1>5, <2>2, <4>1, <4>2
      <4>3. CASE m.type = "StopCapture"
        BY <1>5, <2>2, <4>1, <4>3
      <4> QED BY <2>3, <3>2, <4>2, <4>3
    <3> QED BY <3>1, <3>2
  <2> QED BY <2>4, <2>5 DEF HooksAgree
<1> QED BY <1>4, <1>7, <1>8, <1>9

\* The rest of Orbit::Stop
LEMMA StopKeeps ==
  Parts /\ (FlushQueue \/ FlushSendQueue \/ DisableAllHooks) => Parts'
<1> SUFFICES ASSUME Parts, FlushQueue \/ FlushSendQueue \/ DisableAllHooks
             PROVE  Parts'
  OBVIOUS
<1> USE DEF Parts
<1>1. /\ netPC # "idle"
      /\ UNCHANGED <<hostSession, hostPC, hostRecording, down, session, recording>>
      /\ \/ netPC' \in {"flushSend", "disable"} /\ hooked' = hooked
         \/ netPC' = "idle" /\ hooked' = FALSE
  BY DEF FlushQueue, FlushSendQueue, DisableAllHooks, NetGoes, hostVars
<1>2. TypeOK' /\ Starting'
  BY <1>1 DEF TypeOK, Starting
<1>3. Capturing' <=> Capturing
  BY <1>1 DEF Capturing
<1>4. SessionAgrees' /\ RecordingAgrees'
  BY <1>1, <1>3 DEF SessionAgrees, RecordingAgrees
<1>5. HooksAgree'
  BY <1>1, <1>3 DEF HooksAgree
<1> QED BY <1>2, <1>4, <1>5

LEMMA ElsewhereKeeps == Parts /\ Elsewhere => Parts'
<1> SUFFICES ASSUME Parts, Elsewhere PROVE Parts'
  OBVIOUS
<1>1. UNCHANGED <<hostSession, hostPC, hostRecording, down, session, netPC,
                  recording, hooked>>
  BY DEF Elsewhere, netVars
<1>2. Capturing' <=> Capturing
  BY <1>1 DEF Capturing
<1> QED BY <1>1, <1>2 DEF Parts, TypeOK, Starting, SessionAgrees,
                          RecordingAgrees, HooksAgree

LEMMA PartsStep == Parts /\ [Next]_vars => Parts'
BY StartCaptureKeeps, SendFunctionHooksKeeps, StopCaptureKeeps, QuietKeeps,
   DecodeKeeps, StopKeeps, OthersElsewhere, ElsewhereKeeps
   DEF Next, MainThread, NetworkThread

-----------------------------------------------------------------------------
(* The time graph.                                                         *)

LEMMA GraphStep == GraphOfSession /\ [Next]_vars => GraphOfSession'
<1> SUFFICES ASSUME GraphOfSession, [Next]_vars PROVE GraphOfSession'
  OBVIOUS
<1> USE DEF GraphOfSession
<1>1. CASE StartCapture \/ StartRecording \/ ClearTimeGraph
  BY <1>1 DEF StartCapture, StartRecording, ClearTimeGraph, HostGoes
<1>2. CASE SendFunctionHooks \/ StopCapture \/ StopRecording
  BY <1>2 DEF SendFunctionHooks, StopCapture, StopRecording, HostGoes
<1>3. CASE Consume
  BY <1>3 DEF Consume, HostKeeps
<1>4. CASE UNCHANGED <<hostSession, hostPC, graph>>
  BY <1>4
<1>5. ASSUME Receive \/ ReceiveUses
      PROVE  UNCHANGED <<hostSession, hostPC, graph>>
  BY <1>5 DEF Receive, ReceiveUses, HostKeeps
<1>6. ASSUME NetworkThread PROVE UNCHANGED <<hostSession, hostPC, graph>>
  BY <1>6 DEF NetworkThread, DecodeNewSession, OrbitStart, EnableHooks, OrbitStop,
              FlushQueue, FlushSendQueue, DisableAllHooks, NetGoes, hostVars
<1>7. ASSUME NEW t \in Threads, Instrumented(t)
      PROVE  UNCHANGED <<hostSession, hostPC, graph>>
  <2>1. CASE \E f \in Functions : CheckTls(t, f)
    BY <2>1 DEF CheckTls, ThreadGoes, hostVars
  <2>2. CASE SendCallstack(t) \/ TimerStart(t) \/ AddTests(t) \/ AddEnqueues(t)
    BY <2>2 DEF SendCallstack, TimerStart, AddTests, AddEnqueues, ThreadGoes,
                hostVars
  <2> QED BY <1>7, <2>1, <2>2 DEF Instrumented
<1>8. ASSUME SendTimers \/ SendData \/ UNCHANGED vars
      PROVE  UNCHANGED <<hostSession, hostPC, graph>>
  BY <1>8 DEF SendTimers, SendTimersTop, SendTimersDequeues, SendTimersSends,
              SenderGoes, SendData, vars, hostVars
<1> QED BY <1>1, <1>2, <1>3, <1>4, <1>5, <1>6, <1>7, <1>8 DEF Next, MainThread

-----------------------------------------------------------------------------
(* The packets on the way up.                                              *)

Elements(q) == {q[i] : i \in 1 .. Len(q)}

LEMMA AppendElements ==
  ASSUME NEW S, NEW q \in Seq(S), NEW x \in S
  PROVE  /\ Append(q, x) \in Seq(S)
         /\ Elements(Append(q, x)) = Elements(q) \cup {x}
<1> DEFINE r == Append(q, x)
<1>1. /\ Len(q) \in Nat /\ Len(r) = Len(q) + 1 /\ r[Len(q) + 1] = x
      /\ \A i \in 1 .. Len(q) : r[i] = q[i]
      /\ r \in Seq(S)
  OBVIOUS
<1> HIDE DEF r
<1>2. 1 .. Len(r) = 1 .. Len(q) \cup {Len(q) + 1}
  BY <1>1
<1>3. Elements(r) = Elements(q) \cup {x}
  BY <1>1, <1>2 DEF Elements
<1> QED BY <1>1, <1>3 DEF r

LEMMA AppendGrows ==
  ASSUME NEW S, NEW q \in Seq(S), NEW x
  PROVE  Elements(q) \subseteq Elements(Append(q, x))
<1> DEFINE r == Append(q, x)
<1>1. /\ Len(q) \in Nat /\ Len(r) = Len(q) + 1
      /\ \A i \in 1 .. Len(q) : r[i] = q[i]
  OBVIOUS
<1> HIDE DEF r
<1>2. 1 .. Len(q) \subseteq 1 .. Len(r)
  BY <1>1
<1>3. Elements(q) \subseteq Elements(r)
  BY <1>1, <1>2 DEF Elements
<1> QED BY <1>3 DEF r

LEMMA TailElements ==
  ASSUME NEW S, NEW q \in Seq(S), q # <<>>
  PROVE  /\ Tail(q) \in Seq(S) /\ Head(q) \in S /\ Head(q) = q[1]
         /\ Len(Tail(q)) = Len(q) - 1
         /\ Elements(q) = Elements(Tail(q)) \cup {Head(q)}
<1> DEFINE r == Tail(q)
<1>1. /\ Len(q) \in Nat \ {0} /\ Len(r) = Len(q) - 1 /\ Head(q) = q[1]
      /\ \A i \in 1 .. Len(r) : r[i] = q[i + 1]
      /\ q[1] \in S /\ r \in Seq(S)
  OBVIOUS
<1> HIDE DEF r
<1>2. \A j \in 1 .. Len(q) : j = 1 \/ (j - 1 \in 1 .. Len(r) /\ q[j] = r[j - 1])
  <2> TAKE j \in 1 .. Len(q)
  <2>1. j = 1 \/ (j - 1 \in 1 .. Len(r) /\ (j - 1) + 1 = j)
    BY <1>1
  <2> QED BY <1>1, <2>1
<1>3. 1 \in 1 .. Len(q) /\ \A i \in 1 .. Len(r) : i + 1 \in 1 .. Len(q)
  BY <1>1
<1>4. Elements(q) \subseteq Elements(r) \cup {q[1]}
  <2>1. ASSUME NEW j \in 1 .. Len(q) PROVE q[j] \in Elements(r) \cup {q[1]}
    <3>1. CASE j = 1
      BY <3>1
    <3>2. CASE j - 1 \in 1 .. Len(r) /\ q[j] = r[j - 1]
      BY <3>2 DEF Elements
    <3> QED BY <1>2, <3>1, <3>2
  <2> QED BY <2>1 DEF Elements
<1>5. q[1] \in Elements(q)
  BY <1>3 DEF Elements
<1>6. ASSUME NEW i \in 1 .. Len(r) PROVE r[i] \in Elements(q)
  <2>1. r[i] = q[i + 1] /\ i + 1 \in 1 .. Len(q)
    BY <1>1, <1>3
  <2> QED BY <2>1 DEF Elements
<1>7. Elements(r) \subseteq Elements(q)
  BY <1>6 DEF Elements
<1> QED BY <1>1, <1>4, <1>5, <1>7 DEF r

LEMMA InFlightIs ==
  \A m : m \in InFlight <=> \/ m \in Elements(wire) \/ m \in Elements(received)
                            \/ \E s \in Senders : m \in Elements(sendQueue[s])
BY DEF InFlight, Elements

LEMMA WayUpStep == TypeOK /\ WayUp /\ [Next]_vars => WayUp'
<1> SUFFICES ASSUME TypeOK, WayUp, [Next]_vars PROVE WayUp'
  OBVIOUS
<1> DEFINE Carries == UNCHANGED <<sendQueue, wire, received>>
           Makes == UNCHANGED <<calls, calling, tlsSession, sentCallstacks,
                                timerSession, timerQueue, batch, header>>
<1>0. CASE Carries /\ Makes
  BY <1>0 DEF WayUp
<1>1. CASE MainThread
  <2>1. Carries /\ Makes
    BY <1>1 DEF MainThread, StartCapture, StartRecording, ClearTimeGraph,
       SendFunctionHooks, StopCapture, StopRecording, HostGoes, threadVars, senderVars
  <2> QED BY <1>0, <2>1
<1>2. CASE Receive \/ ReceiveUses \/ Consume
  <2>1. Makes /\ UNCHANGED sendQueue
    BY <1>2 DEF Receive, ReceiveUses, Consume, HostKeeps, threadVars, senderVars
  <2>2. CASE Receive
    <3>1. wire \in Seq(Packets) /\ wire # <<>> /\ wire' = Tail(wire)
      BY <2>2 DEF Receive, WayUp
    <3>2. wire' \in Seq(Packets) /\ Head(wire) \in Packets
      BY <3>1, TailElements
    <3>3. received' = received \/ received' = <<Head(wire)>>
      BY <2>2 DEF Receive
    <3>4. received' \in Seq(Packets) /\ Len(received') <= 1
      <4>1. received \in Seq(Packets) /\ Len(received) <= 1
        BY DEF WayUp
      <4>2. ASSUME NEW p \in Packets PROVE <<p>> \in Seq(Packets) /\ Len(<<p>>) <= 1
        <5> HIDE DEF Packets
        <5> QED OBVIOUS
      <4> QED BY <3>2, <3>3, <4>1, <4>2
    <3> QED BY <2>1, <3>2, <3>4 DEF WayUp
  <2>3. CASE ReceiveUses
    <3>1. received' = <<>> /\ wire' = wire
      BY <2>3 DEF ReceiveUses
    <3>2. received' \in Seq(Packets) /\ Len(received') <= 1
      BY <3>1
    <3> QED BY <2>1, <3>1, <3>2 DEF WayUp
  <2>4. CASE Consume
    BY <2>1, <2>4 DEF Consume, WayUp
  <2> QED BY <1>2, <2>2, <2>3, <2>4
<1>3. CASE NetworkThread
  <2>1. UNCHANGED <<wire, received, calls, calling, tlsSession, sentCallstacks,
                    timerSession, batch, header>>
    BY <1>3 DEF NetworkThread, DecodeNewSession, OrbitStart, EnableHooks, OrbitStop,
       FlushQueue, FlushSendQueue, DisableAllHooks, NetGoes, hostVars, threadVars,
       senderVars
  <2>2. /\ timerQueue' \in {timerQueue, {}}
        /\ sendQueue' \in {sendQueue, [s \in Senders |-> <<>>]}
    BY <1>3 DEF NetworkThread, DecodeNewSession, OrbitStart, EnableHooks, OrbitStop,
       FlushQueue, FlushSendQueue, DisableAllHooks
  <2>3. [s \in Senders |-> <<>>] \in [Senders -> Seq(Packets)]
    OBVIOUS
  <2> QED BY <2>1, <2>2, <2>3 DEF WayUp
<1>4. ASSUME NEW t \in Threads, Instrumented(t) PROVE WayUp'
  <2>1. UNCHANGED <<wire, received, batch, header>>
    BY <1>4 DEF Instrumented, CheckTls, SendCallstack, TimerStart, AddTests,
       AddEnqueues, ThreadGoes, hostVars, senderVars
  <2>2. ASSUME NEW f \in Functions, CheckTls(t, f) PROVE WayUp'
    <3>1. /\ calls' = [calls EXCEPT ![t] = calls[t] + 1]
          /\ calling' = [calling EXCEPT ![t] = f]
          /\ tlsSession' = [tlsSession EXCEPT ![t] = session]
          /\ sentCallstacks' \in {sentCallstacks, [sentCallstacks EXCEPT ![t] = {}]}
          /\ UNCHANGED <<timerSession, timerQueue, sendQueue>>
      BY <2>2 DEF CheckTls
    <3>2. calls[t] + 1 \in Nat /\ session \in Int
      BY DEF WayUp, TypeOK
    <3> QED BY <2>1, <3>1, <3>2 DEF WayUp
  <2>3. CASE SendCallstack(t)
    <3> DEFINE m == [session |-> session, timers |-> {}, stacks |-> {calling[t]}]
    <3>1. /\ UNCHANGED <<calls, calling, tlsSession, timerSession, timerQueue>>
          /\ \/ UNCHANGED <<sentCallstacks, sendQueue>>
             \/ /\ sentCallstacks' =
                     [sentCallstacks EXCEPT ![t] = sentCallstacks[t] \cup {calling[t]}]
                /\ sendQueue' = [sendQueue EXCEPT ![t] = Append(sendQueue[t], m)]
      BY <2>3 DEF SendCallstack
    <3>2. m \in Packets /\ calling[t] \in Functions /\ t \in Senders
      BY DEF WayUp, TypeOK, Packets, Senders
    <3> HIDE DEF m
    <3>3. Append(sendQueue[t], m) \in Seq(Packets)
      <4>1. sendQueue[t] \in Seq(Packets)
        BY <3>2 DEF WayUp
      <4> QED BY <3>2, <4>1, AppendElements
    <3>4. sentCallstacks' \in [Threads -> SUBSET Functions]
      <4> DEFINE c == sentCallstacks[t] \cup {calling[t]}
      <4>1. /\ sentCallstacks \in [Threads -> SUBSET Functions]
            /\ c \in SUBSET Functions
        BY <3>2 DEF WayUp
      <4>2. \/ sentCallstacks' = sentCallstacks
            \/ sentCallstacks' = [sentCallstacks EXCEPT ![t] = c]
        BY <3>1
      <4> HIDE DEF c
      <4> QED BY <4>1, <4>2
    <3>5. sendQueue' \in [Senders -> Seq(Packets)]
      <4> DEFINE q == Append(sendQueue[t], m)
      <4>1. sendQueue \in [Senders -> Seq(Packets)]
        BY DEF WayUp
      <4>2. q \in Seq(Packets)
        BY <3>3
      <4>3. sendQueue' = sendQueue \/ sendQueue' = [sendQueue EXCEPT ![t] = q]
        BY <3>1
      <4> HIDE DEF q
      <4> QED BY <3>2, <4>1, <4>2, <4>3
    <3> QED BY <2>1, <3>1, <3>4, <3>5 DEF WayUp
  <2>4. CASE TimerStart(t)
    <3>1. /\ timerSession' = [timerSession EXCEPT ![t] = session]
          /\ UNCHANGED <<calls, calling, tlsSession, sentCallstacks, timerQueue,
                         sendQueue>>
      BY <2>4 DEF TimerStart
    <3> QED BY <2>1, <3>1 DEF WayUp, TypeOK
  <2>5. CASE AddTests(t)
    BY <2>1, <2>5 DEF AddTests, WayUp
  <2>6. CASE AddEnqueues(t)
    <3>1. [thread |-> t, call |-> calls[t], session |-> timerSession[t]] \in Timers
      BY DEF WayUp, Timers
    <3> QED BY <2>1, <2>6, <3>1 DEF AddEnqueues, WayUp
  <2> QED BY <1>4, <2>2, <2>3, <2>4, <2>5, <2>6 DEF Instrumented
<1>5. CASE SendTimers
  <2>1. UNCHANGED <<wire, received, calls, calling, tlsSession, sentCallstacks,
                    timerSession>>
    BY <1>5 DEF SendTimers, SendTimersTop, SendTimersDequeues, SendTimersSends,
       SenderGoes, hostVars, threadVars
  <2>2. CASE SendTimersTop \/ SendTimersDequeues
    BY <2>1, <2>2 DEF SendTimersTop, SendTimersDequeues, WayUp, TypeOK
  <2>3. CASE SendTimersSends
    <3> DEFINE m == [session |-> header, timers |-> batch, stacks |-> {}]
    <3>1. sendQueue' = [sendQueue EXCEPT !["timers"] = Append(sendQueue["timers"], m)]
      BY <2>3 DEF SendTimersSends
    <3>2. m \in Packets /\ "timers" \in Senders
      BY DEF WayUp, Packets, Senders
    <3> HIDE DEF m
    <3>3. sendQueue' \in [Senders -> Seq(Packets)]
      <4>1. /\ sendQueue["timers"] \in Seq(Packets)
            /\ sendQueue \in [Senders -> Seq(Packets)]
        BY <3>2 DEF WayUp
      <4> DEFINE q == Append(sendQueue["timers"], m)
      <4>2. q \in Seq(Packets)
        BY <3>2, <4>1, AppendElements
      <4>3. sendQueue' = [sendQueue EXCEPT !["timers"] = q]
        BY <3>1
      <4> HIDE DEF q
      <4> QED BY <3>2, <4>1, <4>2, <4>3
    <3> QED BY <2>1, <2>3, <3>3 DEF SendTimersSends, WayUp
  <2> QED BY <1>5, <2>2, <2>3 DEF SendTimers
<1>6. CASE SendData
  <2>1. Makes /\ UNCHANGED received
    BY <1>6 DEF SendData, hostVars, threadVars, senderVars
  <2> PICK s \in Senders :
        /\ sendQueue[s] # <<>>
        /\ sendQueue' = [sendQueue EXCEPT ![s] = Tail(sendQueue[s])]
        /\ wire' = Append(wire, Head(sendQueue[s]))
    BY <1>6 DEF SendData
  <2>2. sendQueue[s] \in Seq(Packets) /\ wire \in Seq(Packets)
    BY DEF WayUp
  <2>3. Tail(sendQueue[s]) \in Seq(Packets) /\ Head(sendQueue[s]) \in Packets
    BY <2>2, TailElements
  <2>4. wire' \in Seq(Packets)
    BY <2>2, <2>3, AppendElements
  <2>5. sendQueue' \in [Senders -> Seq(Packets)]
    BY <2>3 DEF WayUp
  <2> QED BY <2>1, <2>4, <2>5 DEF WayUp
<1>7. CASE UNCHANGED vars
  BY <1>0, <1>7 DEF vars, hostVars, threadVars, senderVars
<1> QED BY <1>1, <1>2, <1>3, <1>4, <1>5, <1>6, <1>7 DEF Next

\* What is under way arrives, unless the target flushes its send queue.
FlightKept ==
  /\ callstacks \subseteq callstacks'
  /\ \A m \in InFlight :
       m.session = hostSession => m \in InFlight' \/ m.stacks \subseteq callstacks'

LEMMA FlightStep ==
  ASSUME WayUp, [Next]_vars, ~FlushSendQueue
  PROVE  FlightKept
<1> DEFINE Same == UNCHANGED <<callstacks, received, wire>>
<1>0. ASSUME Same, \A s \in Senders : Elements(sendQueue[s]) \subseteq Elements(sendQueue'[s])
      PROVE  FlightKept
  <2>1. ASSUME NEW m \in InFlight PROVE m \in InFlight'
    <3>1. \/ m \in Elements(wire') \/ m \in Elements(received')
          \/ \E s \in Senders : m \in Elements(sendQueue'[s])
      BY <1>0, InFlightIs
    <3>2. m \in InFlight' <=> \/ m \in Elements(wire') \/ m \in Elements(received')
                              \/ \E s \in Senders : m \in Elements(sendQueue'[s])
      BY DEF InFlight, Elements
    <3> QED BY <3>1, <3>2
  <2> QED BY <1>0, <2>1 DEF FlightKept
<1>1. CASE Same /\ UNCHANGED sendQueue
  BY <1>0, <1>1
<1>2. CASE MainThread
  BY <1>1, <1>2 DEF MainThread, StartCapture, StartRecording, ClearTimeGraph,
     SendFunctionHooks, StopCapture, StopRecording, HostGoes
<1>3. CASE Receive
  <2>1. /\ wire # <<>> /\ wire' = Tail(wire) /\ UNCHANGED <<callstacks, sendQueue>>
        /\ received = <<>>
        /\ Head(wire).session = hostSession => received' = <<Head(wire)>>
    BY <1>3 DEF Receive, HostKeeps
  <2>2. Elements(wire) = Elements(wire') \cup {Head(wire)}
    BY <2>1, TailElements DEF WayUp
  <2>3. Head(wire).session = hostSession => Head(wire) \in Elements(received')
    BY <2>1 DEF Elements
  <2>4. Elements(received) = {}
    BY <2>1 DEF Elements
  <2>5. \A m \in InFlight : m.session = hostSession => m \in InFlight'
    <3> TAKE m \in InFlight
    <3>1. \/ m \in Elements(wire') \/ m = Head(wire)
          \/ \E s \in Senders : m \in Elements(sendQueue'[s])
      BY <2>1, <2>2, <2>4, InFlightIs
    <3>2. m \in InFlight' <=> \/ m \in Elements(wire') \/ m \in Elements(received')
                              \/ \E s \in Senders : m \in Elements(sendQueue'[s])
      BY DEF InFlight, Elements
    <3> QED BY <2>3, <3>1, <3>2
  <2> QED BY <2>1, <2>5 DEF FlightKept
<1>4. CASE ReceiveUses
  <2>1. /\ callstacks' = callstacks \cup received[1].stacks
        /\ UNCHANGED <<wire, sendQueue>>
    BY <1>4 DEF ReceiveUses, HostKeeps
  <2>2. Elements(received) \subseteq {received[1]}
    <3>1. Len(received) \in Nat /\ Len(received) <= 1
      BY DEF WayUp
    <3>2. \A i \in 1 .. Len(received) : i = 1
      BY <3>1
    <3> QED BY <3>2 DEF Elements
  <2>3. \A m \in InFlight : m \in InFlight' \/ m.stacks \subseteq callstacks'
    <3> TAKE m \in InFlight
    <3>1. \/ m \in Elements(wire') \/ m = received[1]
          \/ \E s \in Senders : m \in Elements(sendQueue'[s])
      BY <2>1, <2>2, InFlightIs
    <3>2. m \in InFlight' <=> \/ m \in Elements(wire') \/ m \in Elements(received')
                              \/ \E s \in Senders : m \in Elements(sendQueue'[s])
      BY DEF InFlight, Elements
    <3> QED BY <2>1, <3>1, <3>2
  <2> QED BY <2>1, <2>3 DEF FlightKept
<1>5. CASE Consume
  BY <1>1, <1>5 DEF Consume, HostKeeps
<1>6. CASE NetworkThread
  BY <1>1, <1>6 DEF NetworkThread, DecodeNewSession, OrbitStart, EnableHooks,
     OrbitStop, FlushQueue, DisableAllHooks, NetGoes, hostVars
<1>7. ASSUME NEW t \in Threads, Instrumented(t) PROVE FlightKept
  <2>1. Same
    BY <1>7 DEF Instrumented, CheckTls, SendCallstack, TimerStart, AddTests,
       AddEnqueues, ThreadGoes, hostVars
  <2>2. CASE SendCallstack(t) /\ ~UNCHANGED sendQueue
    <3> DEFINE m == [session |-> session, timers |-> {}, stacks |-> {calling[t]}]
    <3>1. sendQueue' = [sendQueue EXCEPT ![t] = Append(sendQueue[t], m)]
      BY <2>2 DEF SendCallstack
    <3> HIDE DEF m
    <3>2. \A s \in Senders : Elements(sendQueue[s]) \subseteq Elements(sendQueue'[s])
      <4> TAKE s \in Senders
      <4>1. CASE s = t
        <5>1. Elements(sendQueue[s]) \subseteq Elements(Append(sendQueue[s], m))
          <6>1. sendQueue[s] \in Seq(Packets)
            BY DEF WayUp
          <6> HIDE DEF Elements
          <6> QED BY <6>1, AppendGrows
        <5> QED BY <3>1, <4>1, <5>1 DEF WayUp
      <4>2. CASE s # t
        BY <3>1, <4>2 DEF WayUp
      <4> QED BY <4>1, <4>2
    <3> QED BY <1>0, <2>1, <3>2
  <2>3. CASE UNCHANGED sendQueue
    BY <1>1, <2>1, <2>3
  <2> QED BY <1>7, <2>2, <2>3 DEF Instrumented, CheckTls, TimerStart, AddTests,
        AddEnqueues
<1>8. CASE SendTimersTop \/ SendTimersDequeues
  BY <1>1, <1>8 DEF SendTimersTop, SendTimersDequeues, SenderGoes, hostVars
<1>9. CASE SendTimersSends
  <2> DEFINE m == [session |-> header, timers |-> batch, stacks |-> {}]
  <2>1. /\ sendQueue' = [sendQueue EXCEPT !["timers"] = Append(sendQueue["timers"], m)]
        /\ Same
    BY <1>9 DEF SendTimersSends, SenderGoes, hostVars
  <2> HIDE DEF m
  <2>2. \A s \in Senders : Elements(sendQueue[s]) \subseteq Elements(sendQueue'[s])
    <3> TAKE s \in Senders
    <3>1. sendQueue[s] \in Seq(Packets)
      BY DEF WayUp
    <3>2. CASE s = "timers"
      <4>1. Elements(sendQueue[s]) \subseteq Elements(Append(sendQueue[s], m))
        BY <3>1, AppendGrows
      <4> QED BY <2>1, <3>2, <4>1 DEF WayUp
    <3>3. CASE s # "timers"
      BY <2>1, <3>3 DEF WayUp
    <3> QED BY <3>2, <3>3
  <2> QED BY <1>0, <2>1, <2>2
<1>10. CASE SendData
  <2>1. UNCHANGED <<callstacks, received>>
    BY <1>10 DEF SendData, hostVars
  <2> PICK s \in Senders :
        /\ sendQueue[s] # <<>>
        /\ sendQueue' = [sendQueue EXCEPT ![s] = Tail(sendQueue[s])]
        /\ wire' = Append(wire, Head(sendQueue[s]))
    BY <1>10 DEF SendData
  <2>2. sendQueue[s] \in Seq(Packets) /\ wire \in Seq(Packets)
        /\ sendQueue \in [Senders -> Seq(Packets)]
    BY DEF WayUp
  <2>3. /\ Head(sendQueue[s]) \in Packets
        /\ Elements(sendQueue[s]) = Elements(sendQueue'[s]) \cup {Head(sendQueue[s])}
    BY <2>2, TailElements
  <2>4. Elements(wire') = Elements(wire) \cup {Head(sendQueue[s])}
    BY <2>2, <2>3, AppendElements
  <2>5. \A u \in Senders : u # s => sendQueue'[u] = sendQueue[u]
    BY <2>2
  <2>6. \A m \in InFlight : m \in InFlight'
    <3> TAKE m \in InFlight
    <3>1. \/ m \in Elements(wire) \/ m \in Elements(received)
          \/ \E u \in Senders : m \in Elements(sendQueue[u])
      BY InFlightIs
    <3>2. m \in InFlight' <=> \/ m \in Elements(wire') \/ m \in Elements(received')
                              \/ \E u \in Senders : m \in Elements(sendQueue'[u])
      BY DEF InFlight, Elements
    <3> QED BY <2>1, <2>3, <2>4, <2>5, <3>1, <3>2
  <2> QED BY <2>1, <2>6 DEF FlightKept
<1>11. CASE UNCHANGED vars
  BY <1>1, <1>11 DEF vars, hostVars
<1> QED BY <1>2, <1>3, <1>4, <1>5, <1>6, <1>7, <1>8, <1>9, <1>10, <1>11
        DEF Next, SendTimers

-----------------------------------------------------------------------------
(* The sessions on the way down.                                           *)

\* What the main thread sends: messages of its session, a Msg_NewSession when
\* the session is new, a Msg_StartCapture first, before the hooks.
Says ==
  LET n == Len(down)
  IN  /\ n <= Len(down') /\ down' \in Seq(Messages)
      /\ \A i \in 1 .. n : down'[i] = down[i]
      /\ \A i \in 1 .. Len(down') : i > n =>
           /\ down'[i].session = hostSession'
           /\ down'[i].type = "NewSession" =>
                i = n + 1 /\ hostSession' = hostSession + 1
           /\ down'[i].type = "StartCapture" => i = n + 1 /\ StartsNow
           /\ down'[i].type = "StopCapture" => ~StartsNow'
      /\ hostSession' \in {hostSession, hostSession + 1}
      /\ hostSession' = hostSession => (StartsNow' => StartsNow)
      /\ UNCHANGED netVars /\ UNCHANGED threadVars

LEMMA MainSays == ASSUME TypeOK, MainThread PROVE Says
<1> USE DEF StartsNow
<1>0. down \in Seq(Messages) /\ Len(down) \in Nat
  BY DEF TypeOK
<1>1. CASE StartCapture
  <2> DEFINE m == [type |-> "NewSession", session |-> hostSession + 1]
  <2>1. /\ down' = Append(down, m) /\ hostSession' = hostSession + 1
        /\ UNCHANGED <<netVars, threadVars>>
    BY <1>1 DEF StartCapture, HostGoes
  <2>2. m \in Messages /\ m.type = "NewSession" /\ m.session = hostSession + 1
    BY DEF TypeOK, Messages, Types
  <2> HIDE DEF m
  <2>3. /\ down' \in Seq(Messages) /\ Len(down') = Len(down) + 1
        /\ down'[Len(down) + 1] = m
        /\ \A i \in 1 .. Len(down) : down'[i] = down[i]
    BY <1>0, <2>1, <2>2
  <2>4. \A i \in 1 .. Len(down') : i > Len(down) => i = Len(down) + 1
    BY <1>0, <2>3
  <2>5. hostSession' # hostSession
    BY <2>1 DEF TypeOK
  <2> QED BY <1>0, <2>1, <2>2, <2>3, <2>4, <2>5 DEF Says
<1>2. CASE SendFunctionHooks
  <2> DEFINE a == [type |-> "StartCapture", session |-> hostSession]
             b == [type |-> "FunctionHook", session |-> hostSession]
  <2>1. /\ down' = down \o <<a, b>> /\ hostSession' = hostSession
        /\ StartsNow /\ ~StartsNow'
        /\ UNCHANGED <<netVars, threadVars>>
    BY <1>2 DEF SendFunctionHooks, HostGoes
  <2>2. /\ a \in Messages /\ a.type = "StartCapture" /\ a.session = hostSession
        /\ b \in Messages /\ b.type = "FunctionHook" /\ b.session = hostSession
    BY DEF TypeOK, Messages, Types
  <2> HIDE DEF a, b
  <2>3. /\ down' \in Seq(Messages) /\ Len(down') = Len(down) + 2
        /\ down'[Len(down) + 1] = a /\ down'[Len(down) + 2] = b
        /\ \A i \in 1 .. Len(down) : down'[i] = down[i]
    BY <1>0, <2>1, <2>2
  <2>4. \A i \in 1 .. Len(down') : i > Len(down) =>
          i = Len(down) + 1 \/ i = Len(down) + 2
    BY <1>0, <2>3
  <2>5. \A i \in 1 .. Len(down') : i > Len(down) =>
           /\ down'[i].session = hostSession'
           /\ down'[i].type = "NewSession" =>
                i = Len(down) + 1 /\ hostSession' = hostSession + 1
           /\ down'[i].type = "StartCapture" => i = Len(down) + 1 /\ StartsNow
           /\ down'[i].type = "StopCapture" => ~StartsNow'
    BY <2>1, <2>2, <2>3, <2>4
  <2>6. /\ Len(down) <= Len(down') /\ hostSession' \in {hostSession, hostSession + 1}
        /\ StartsNow' => StartsNow
    BY <1>0, <2>1, <2>3
  <2>7. \A i \in 1 .. Len(down) : down'[i] = down[i]
    BY <2>3
  <2> QED BY <2>1, <2>3, <2>5, <2>6, <2>7, Zenon DEF Says
<1>3. CASE StopCapture
  <2> DEFINE m == [type |-> "StopCapture", session |-> hostSession]
  <2>1. /\ down' = Append(down, m) /\ hostSession' = hostSession
        /\ ~StartsNow' /\ UNCHANGED <<netVars, threadVars>>
    BY <1>3 DEF StopCapture, HostGoes
  <2>2. m \in Messages /\ m.type = "StopCapture" /\ m.session = hostSession
    BY DEF TypeOK, Messages, Types
  <2> HIDE DEF m
  <2>3. /\ down' \in Seq(Messages) /\ Len(down') = Len(down) + 1
        /\ down'[Len(down) + 1] = m
        /\ \A i \in 1 .. Len(down) : down'[i] = down[i]
    BY <1>0, <2>1, <2>2
  <2>4. \A i \in 1 .. Len(down') : i > Len(down) => i = Len(down) + 1
    BY <1>0, <2>3
  <2> QED BY <1>0, <2>1, <2>2, <2>3, <2>4 DEF Says
<1>4. CASE StartRecording \/ ClearTimeGraph \/ StopRecording
  <2>1. /\ down' = down /\ hostSession' = hostSession /\ (StartsNow' => StartsNow)
        /\ UNCHANGED <<netVars, threadVars>>
    BY <1>4 DEF StartRecording, ClearTimeGraph, StopRecording, HostGoes
  <2>2. \A i \in 1 .. Len(down') : ~(i > Len(down))
    BY <1>0, <2>1
  <2> QED BY <1>0, <2>1, <2>2 DEF Says
<1> QED BY <1>1, <1>2, <1>3, <1>4 DEF MainThread

\* What the network thread takes, the oldest message
Takes ==
  /\ down # <<>> /\ Len(down) \in Nat /\ Len(down) = Len(down') + 1
  /\ Len(down') \in Nat
  /\ \A i \in 1 .. Len(down') : i + 1 \in 1 .. Len(down) /\ down'[i] = down[i + 1]
  /\ 1 \in 1 .. Len(down)
  /\ netPC = "idle" /\ UNCHANGED <<hostSession, hostPC, threadVars>>
  /\ \/ down[1].type = "NewSession" /\ session' = down[1].session
          /\ UNCHANGED <<netPC, recording>>
     \/ down[1].type = "StartCapture" /\ UNCHANGED <<netPC, session>>
     \/ down[1].type = "FunctionHook" /\ UNCHANGED <<netPC, session, recording>>
     \/ down[1].type = "StopCapture" /\ recording' = FALSE /\ netPC' = "flush"
          /\ UNCHANGED session

LEMMA DecodeTakes ==
  ASSUME TypeOK, DecodeNewSession \/ OrbitStart \/ EnableHooks \/ OrbitStop
  PROVE  Takes
<1>1. /\ down \in Seq(Messages) /\ down # <<>> /\ down' = Tail(down)
  BY DEF DecodeNewSession, OrbitStart, EnableHooks, OrbitStop, Decodes, TypeOK
<1>2. /\ Len(down) \in Nat /\ Len(down) = Len(down') + 1 /\ Len(down') \in Nat
      /\ Head(down) = down[1]
      /\ \A i \in 1 .. Len(down') : i + 1 \in 1 .. Len(down) /\ down'[i] = down[i + 1]
      /\ 1 \in 1 .. Len(down)
  BY <1>1
<1>3. /\ \/ down[1].type = "NewSession" /\ session' = down[1].session
              /\ UNCHANGED <<netPC, recording>>
         \/ down[1].type = "StartCapture" /\ UNCHANGED <<netPC, session>>
         \/ down[1].type = "FunctionHook" /\ UNCHANGED <<netPC, session, recording>>
         \/ down[1].type = "StopCapture" /\ recording' = FALSE /\ netPC' = "flush"
              /\ UNCHANGED session
      /\ netPC = "idle" /\ UNCHANGED <<hostSession, hostPC, threadVars>>
  BY <1>2 DEF DecodeNewSession, OrbitStart, EnableHooks, OrbitStop, Decodes,
     NetGoes, hostVars
<1> QED BY <1>1, <1>2, <1>3 DEF Takes

\* The rest of Orbit::Stop
Stops == /\ netPC # "idle"
         /\ UNCHANGED <<hostSession, hostPC, down, session, recording, threadVars>>

\* Everyone else
Others == /\ UNCHANGED <<hostSession, hostPC, down, session, netPC, recording>>
          /\ \A t \in Threads : tlsSession'[t] \in {tlsSession[t], session}

LEMMA Ways ==
  ASSUME TypeOK, WayUp, [Next]_vars
  PROVE  Says \/ Takes \/ Stops \/ Others
<1>1. CASE MainThread
  BY <1>1, MainSays
<1>2. CASE DecodeNewSession \/ OrbitStart \/ EnableHooks \/ OrbitStop
  BY <1>2, DecodeTakes
<1>3. CASE FlushQueue \/ FlushSendQueue \/ DisableAllHooks
  BY <1>3 DEF FlushQueue, FlushSendQueue, DisableAllHooks, NetGoes, hostVars, Stops
<1>4. ASSUME NEW t \in Threads, Instrumented(t) PROVE Others
  <2>1. Elsewhere
    BY <1>4, OthersElsewhere
  <2>2. tlsSession' \in {tlsSession, [tlsSession EXCEPT ![t] = session]}
    BY <1>4 DEF Instrumented, CheckTls, SendCallstack, TimerStart, AddTests, AddEnqueues
  <2> QED BY <2>1, <2>2 DEF Elsewhere, netVars, Others, WayUp
<1>5. CASE \/ Receive \/ ReceiveUses \/ Consume \/ SendTimers \/ SendData
           \/ UNCHANGED vars
  <2>1. Elsewhere
    BY <1>5, OthersElsewhere
  <2>2. UNCHANGED threadVars
    BY <1>5 DEF Receive, ReceiveUses, Consume, HostKeeps, SendTimers, SendTimersTop,
       SendTimersDequeues, SendTimersSends, SenderGoes, SendData, vars
  <2> QED BY <2>1, <2>2 DEF Elsewhere, netVars, threadVars, Others
<1> QED BY <1>1, <1>2, <1>3, <1>4, <1>5 DEF Next, NetworkThread

\* The sessions of the messages are numbers.
LEMMA SessionsType ==
  ASSUME TypeOK
  PROVE  /\ Len(down) \in Nat
         /\ \A i \in 1 .. Len(down) : down[i].session \in Nat
<1>1. down \in Seq(Messages)
  BY DEF TypeOK
<1>2. \A m \in Messages : m.session \in Nat
  BY DEF Messages
<1> HIDE DEF Messages
<1>3. Len(down) \in Nat /\ \A i \in 1 .. Len(down) : down[i] \in Messages
  BY <1>1
<1> QED BY <1>2, <1>3

LEMMA OrderedStep ==
  TypeOK /\ TypeOK' /\ WayUp /\ Ordered /\ [Next]_vars => Ordered'
<1> SUFFICES ASSUME TypeOK, TypeOK', WayUp, Ordered, [Next]_vars PROVE Ordered'
  OBVIOUS
<1> USE DEF Is
<1>a. /\ session \in Nat /\ hostSession \in Nat /\ session <= hostSession
      /\ session' \in Nat /\ hostSession' \in Nat
      /\ \A t \in Threads : tlsSession[t] \in Int /\ tlsSession[t] <= session
  BY DEF TypeOK, WayUp, Ordered
<1>b. /\ Len(down) \in Nat /\ \A i \in 1 .. Len(down) : down[i].session \in Nat
  BY SessionsType
<1>c. /\ \A i, j \in 1 .. Len(down) : i < j =>
           /\ down[i].session <= down[j].session
           /\ down[j].type = "NewSession" => down[i].session < down[j].session
      /\ \A i \in 1 .. Len(down) :
           /\ session <= down[i].session /\ down[i].session <= hostSession
           /\ down[i].type = "NewSession" => session < down[i].session
  BY DEF Ordered
<1>1. CASE Says
  <2>1. /\ Len(down') \in Nat /\ UNCHANGED <<session, tlsSession>>
        /\ hostSession <= hostSession'
    BY <1>1, <1>a DEF Says, netVars, threadVars
  <2>2. \A i \in 1 .. Len(down') : i <= Len(down) =>
          i \in 1 .. Len(down) /\ down'[i] = down[i]
    BY <1>1, <1>b, <2>1 DEF Says
  <2>3. \A i \in 1 .. Len(down') : i > Len(down) =>
          /\ down'[i].session = hostSession'
          /\ down'[i].type = "NewSession" =>
               i = Len(down) + 1 /\ hostSession' = hostSession + 1
    BY <1>1 DEF Says
  <2>4. ASSUME NEW i \in 1 .. Len(down'), NEW j \in 1 .. Len(down'), i < j
        PROVE  /\ down'[i].session <= down'[j].session
               /\ down'[j].type = "NewSession" => down'[i].session < down'[j].session
    <3>1. CASE j <= Len(down)
      <4>1. i <= Len(down)
        BY <1>b, <2>1, <2>4, <3>1
      <4> QED BY <1>c, <2>2, <2>4, <3>1, <4>1
    <3>2. CASE j > Len(down) /\ i <= Len(down)
      BY <1>a, <1>b, <1>c, <2>1, <2>2, <2>3, <3>2
    <3>3. CASE j > Len(down) /\ i > Len(down)
      <4>1. j # Len(down) + 1
        BY <1>b, <2>1, <2>4, <3>3
      <4> QED BY <1>a, <2>3, <3>3, <4>1
    <3> QED BY <1>b, <2>1, <3>1, <3>2, <3>3
  <2>5. ASSUME NEW i \in 1 .. Len(down')
        PROVE  /\ session' <= down'[i].session /\ down'[i].session <= hostSession'
               /\ down'[i].type = "NewSession" => session' < down'[i].session
    <3>1. CASE i <= Len(down)
      BY <1>a, <1>b, <1>c, <2>1, <2>2, <3>1
    <3>2. CASE i > Len(down)
      BY <1>a, <2>1, <2>3, <3>2
    <3> QED BY <1>b, <2>1, <3>1, <3>2
  <2> QED BY <1>a, <2>1, <2>4, <2>5 DEF Ordered
<1>2. CASE Takes
  <2>1. /\ Len(down') \in Nat /\ hostSession' = hostSession /\ tlsSession' = tlsSession
        /\ 1 \in 1 .. Len(down)
        /\ \A i \in 1 .. Len(down') : /\ i + 1 \in 1 .. Len(down)
                                      /\ down'[i] = down[i + 1] /\ 1 < i + 1
    BY <1>2 DEF Takes, threadVars
  <2>2. \/ session' = session
        \/ session' = down[1].session /\ down[1].type = "NewSession"
    BY <1>2 DEF Takes
  <2>3. session <= session' /\ session' <= down[1].session
    BY <1>a, <1>b, <1>c, <2>1, <2>2
  <2>4. ASSUME NEW i \in 1 .. Len(down'), NEW j \in 1 .. Len(down'), i < j
        PROVE  /\ down'[i].session <= down'[j].session
               /\ down'[j].type = "NewSession" => down'[i].session < down'[j].session
    <3>1. i + 1 < j + 1
      BY <2>1, <2>4
    <3> QED BY <1>c, <2>1, <3>1
  <2>5. ASSUME NEW i \in 1 .. Len(down')
        PROVE  /\ session' <= down'[i].session /\ down'[i].session <= hostSession'
               /\ down'[i].type = "NewSession" => session' < down'[i].session
    <3>1. /\ down[1].session <= down[i + 1].session
          /\ down[i + 1].type = "NewSession" => down[1].session < down[i + 1].session
          /\ down[i + 1].session <= hostSession
      BY <1>c, <2>1
    <3>2. /\ down[1].session \in Nat /\ down[i + 1].session \in Nat
          /\ down'[i] = down[i + 1]
      BY <1>b, <2>1
    <3> QED BY <1>a, <2>1, <2>3, <3>1, <3>2
  <2>6. session' <= hostSession'
    BY <1>a, <1>b, <1>c, <2>1, <2>3
  <2>7. \A t \in Threads : tlsSession'[t] <= session'
    BY <1>a, <2>1, <2>3
  <2> QED BY <2>4, <2>5, <2>6, <2>7 DEF Ordered
<1>3. CASE Stops \/ Others
  <2>1. UNCHANGED <<hostSession, down, session>>
    BY <1>3 DEF Stops, Others
  <2>2. \A t \in Threads : tlsSession'[t] <= session'
    BY <1>3, <1>a DEF Stops, Others, threadVars
  <2> QED BY <1>a, <1>c, <2>1, <2>2 DEF Ordered
<1> QED BY <1>1, <1>2, <1>3, Ways

LEMMA StopsLastStep ==
  TypeOK /\ TypeOK' /\ WayUp /\ Ordered /\ StopsLast /\ [Next]_vars => StopsLast'
<1> SUFFICES ASSUME TypeOK, TypeOK', WayUp, Ordered, StopsLast, [Next]_vars
             PROVE  StopsLast'
  OBVIOUS
<1> USE DEF Is
<1>a. /\ session \in Nat /\ hostSession \in Nat /\ session <= hostSession
      /\ session' \in Nat /\ hostSession' \in Nat
  BY DEF TypeOK, Ordered
<1>b. /\ Len(down) \in Nat /\ \A i \in 1 .. Len(down) : down[i].session \in Nat
      /\ \A i \in 1 .. Len(down) :
           session <= down[i].session /\ down[i].session <= hostSession
  BY SessionsType DEF Ordered
<1>c. /\ \A i, j \in 1 .. Len(down) :
           i < j /\ down[i].type = "StopCapture" /\ down[j].type = "StartCapture"
             => down[i].session < down[j].session
      /\ StartsNow => \A i \in 1 .. Len(down) :
                        down[i].type = "StopCapture" => down[i].session < hostSession
      /\ recording => netPC = "idle"
      /\ netPC # "idle" /\ session = hostSession =>
           ~StartsNow /\ \A i \in 1 .. Len(down) : down[i].type # "StartCapture"
  BY DEF StopsLast
<1>1. CASE Says
  <2>1. /\ Len(down') \in Nat /\ UNCHANGED <<session, netPC, recording>>
        /\ hostSession' \in {hostSession, hostSession + 1}
        /\ hostSession' = hostSession => (StartsNow' => StartsNow)
    BY <1>1, <1>a DEF Says, netVars
  <2>2. \A i \in 1 .. Len(down') : i <= Len(down) =>
          i \in 1 .. Len(down) /\ down'[i] = down[i]
    BY <1>1, <1>b, <2>1 DEF Says
  <2>3. \A i \in 1 .. Len(down') : i > Len(down) =>
          /\ down'[i].session = hostSession'
          /\ down'[i].type = "StartCapture" => i = Len(down) + 1 /\ StartsNow
          /\ down'[i].type = "StopCapture" => ~StartsNow'
    BY <1>1 DEF Says
  <2>4. ASSUME NEW i \in 1 .. Len(down'), NEW j \in 1 .. Len(down'), i < j,
               down'[i].type = "StopCapture", down'[j].type = "StartCapture"
        PROVE  down'[i].session < down'[j].session
    <3>1. CASE j <= Len(down)
      <4>1. i <= Len(down)
        BY <1>b, <2>1, <2>4, <3>1
      <4> QED BY <1>c, <2>2, <2>4, <3>1, <4>1
    <3>2. CASE j > Len(down)
      <4>1. j = Len(down) + 1 /\ StartsNow /\ down'[j].session = hostSession'
        BY <2>3, <2>4, <3>2
      <4>2. i <= Len(down)
        BY <1>b, <2>1, <2>4, <4>1
      <4>3. i \in 1 .. Len(down) /\ down'[i] = down[i]
        BY <2>2, <4>2
      <4>4. down[i].session < hostSession /\ down[i].session \in Nat
        BY <1>b, <1>c, <2>4, <4>1, <4>3
      <4> QED BY <1>a, <2>1, <4>1, <4>3, <4>4
    <3> QED BY <1>b, <2>1, <3>1, <3>2
  <2>5. ASSUME StartsNow', NEW i \in 1 .. Len(down'), down'[i].type = "StopCapture"
        PROVE  down'[i].session < hostSession'
    <3>1. i <= Len(down)
      BY <1>b, <2>1, <2>3, <2>5
    <3>2. i \in 1 .. Len(down) /\ down'[i] = down[i]
      BY <2>2, <3>1
    <3>3. CASE hostSession' = hostSession
      BY <1>c, <2>1, <2>5, <3>2, <3>3
    <3>4. CASE hostSession' = hostSession + 1
      BY <1>a, <1>b, <3>2, <3>4
    <3> QED BY <2>1, <3>3, <3>4
  <2>6. ASSUME netPC' # "idle", session' = hostSession'
        PROVE  ~StartsNow' /\ \A i \in 1 .. Len(down') : down'[i].type # "StartCapture"
    <3>1. hostSession' = hostSession /\ session = hostSession /\ netPC # "idle"
      BY <1>a, <2>1, <2>6
    <3>2. ~StartsNow /\ \A i \in 1 .. Len(down) : down[i].type # "StartCapture"
      BY <1>c, <3>1
    <3>3. \A i \in 1 .. Len(down') : i <= Len(down) \/ i > Len(down)
      BY <1>b, <2>1
    <3> QED BY <2>1, <2>2, <2>3, <3>1, <3>2, <3>3
  <2>7. recording' => netPC' = "idle"
    BY <1>c, <2>1
  <2> QED BY <2>4, <2>5, <2>6, <2>7 DEF StopsLast
<1>2. CASE Takes
  <2>1. /\ Len(down') \in Nat /\ UNCHANGED <<hostSession, hostPC>> /\ netPC = "idle"
        /\ 1 \in 1 .. Len(down)
        /\ \A i \in 1 .. Len(down') : /\ i + 1 \in 1 .. Len(down)
                                      /\ down'[i] = down[i + 1] /\ 1 < i + 1
    BY <1>2 DEF Takes
  <2>2. StartsNow' = StartsNow
    BY <2>1 DEF StartsNow
  <2>3. ASSUME NEW i \in 1 .. Len(down'), NEW j \in 1 .. Len(down'), i < j,
               down'[i].type = "StopCapture", down'[j].type = "StartCapture"
        PROVE  down'[i].session < down'[j].session
    <3>1. i + 1 < j + 1
      BY <2>1, <2>3
    <3> QED BY <1>c, <2>1, <2>3, <3>1
  <2>4. ASSUME StartsNow', NEW i \in 1 .. Len(down'), down'[i].type = "StopCapture"
        PROVE  down'[i].session < hostSession'
    BY <1>c, <2>1, <2>2, <2>4
  <2>5. recording' => netPC' = "idle"
    BY <1>2, <2>1 DEF Takes
  <2>6. ASSUME netPC' # "idle", session' = hostSession'
        PROVE  ~StartsNow' /\ \A i \in 1 .. Len(down') : down'[i].type # "StartCapture"
    <3>1. down[1].type = "StopCapture" /\ session = hostSession
      BY <1>2, <2>1, <2>6 DEF Takes
    <3>2. down[1].session = hostSession
      BY <1>a, <1>b, <2>1, <3>1
    <3>3. ~StartsNow
      BY <1>a, <1>c, <2>1, <3>1, <3>2
    <3>4. ASSUME NEW i \in 1 .. Len(down'), down'[i].type = "StartCapture" PROVE FALSE
      <4>1. down[1].session < down[i + 1].session
        BY <1>c, <2>1, <3>1, <3>4
      <4>2. down[i + 1].session <= hostSession /\ down[i + 1].session \in Nat
        BY <1>b, <2>1
      <4> QED BY <1>a, <3>2, <4>1, <4>2
    <3> QED BY <2>2, <3>3, <3>4
  <2> QED BY <2>3, <2>4, <2>5, <2>6 DEF StopsLast
<1>3. CASE Stops \/ Others
  <2>1. UNCHANGED <<hostSession, hostPC, down, session, recording>>
        /\ (netPC' # "idle" => netPC # "idle") /\ (recording => netPC' = "idle")
    BY <1>3, <1>c DEF Stops, Others
  <2> QED BY <1>c, <2>1 DEF StopsLast, StartsNow
<1> QED BY <1>1, <1>2, <1>3, Ways

-----------------------------------------------------------------------------
(* What the threads believe the user interface has.                        *)

LEMMA ComesStays ==
  ASSUME FlightKept, hostSession' = hostSession, NEW f, Comes(f)
  PROVE  Comes(f)'
BY DEF FlightKept, Comes

\* A thread's call stacks and session change in two steps of its own.
LEMMA TlsStep ==
  ASSUME WayUp, [Next]_vars, NEW t \in Threads
  PROVE  \/ UNCHANGED <<tlsSession[t], sentCallstacks[t]>>
         \/ \E f \in Functions : CheckTls(t, f)
         \/ SendCallstack(t)
<1>1. CASE MainThread
  BY <1>1 DEF MainThread, StartCapture, StartRecording, ClearTimeGraph,
     SendFunctionHooks, StopCapture, StopRecording, HostGoes, threadVars
<1>2. CASE Receive \/ ReceiveUses \/ Consume \/ UNCHANGED vars
  BY <1>2 DEF Receive, ReceiveUses, Consume, HostKeeps, vars, threadVars
<1>3. CASE NetworkThread
  BY <1>3 DEF NetworkThread, DecodeNewSession, OrbitStart, EnableHooks,
     OrbitStop, FlushQueue, FlushSendQueue, DisableAllHooks, NetGoes, threadVars
<1>4. CASE SendTimers \/ SendData
  BY <1>4 DEF SendTimers, SendTimersTop, SendTimersDequeues, SendTimersSends,
     SenderGoes, SendData, threadVars
<1>5. ASSUME NEW u \in Threads, Instrumented(u)
      PROVE  \/ UNCHANGED <<tlsSession[t], sentCallstacks[t]>>
             \/ \E f \in Functions : CheckTls(t, f)
             \/ SendCallstack(t)
  <2>1. CASE u = t
    BY <1>5, <2>1 DEF Instrumented, TimerStart, AddTests, AddEnqueues
  <2>2. CASE u # t
    BY <1>5, <2>2 DEF Instrumented, CheckTls, SendCallstack, TimerStart, AddTests,
       AddEnqueues, WayUp
  <2> QED BY <2>1, <2>2
<1> QED BY <1>1, <1>2, <1>3, <1>4, <1>5 DEF Next

LEMMA BelievedStep ==
  TypeOK /\ WayUp /\ Ordered /\ StopsLast /\ Believed /\ [Next]_vars => Believed'
<1> SUFFICES ASSUME TypeOK, WayUp, Ordered, StopsLast, Believed, [Next]_vars,
                    Live', session' = hostSession',
                    NEW t \in Threads, tlsSession'[t] = session',
                    NEW f \in sentCallstacks'[t]
             PROVE  Comes(f)'
  BY DEF Believed
<1>a. /\ session \in Nat /\ hostSession \in Nat /\ session <= hostSession
      /\ tlsSession[t] \in Int /\ tlsSession[t] <= session
  BY DEF TypeOK, WayUp, Ordered
\* The session is not new to either end: a thread of a new one has still to
\* enter it.
<1>1. hostSession' = hostSession
  <2>1. CASE Says
    BY <1>a, <2>1 DEF Says, netVars
  <2>2. CASE Takes \/ Stops \/ Others
    BY <2>2 DEF Takes, Stops, Others
  <2> QED BY <2>1, <2>2, Ways
<1>2. session' = session
  <2>1. CASE Says \/ Stops \/ Others
    BY <2>1 DEF Says, netVars, Stops, Others
  <2>2. CASE Takes
    <3>1. CASE session' # session
      <4>1. /\ session' = down[1].session /\ down[1].type = "NewSession"
            /\ 1 \in 1 .. Len(down) /\ UNCHANGED threadVars
        BY <2>2, <3>1 DEF Takes
      <4>2. session < session' /\ session' \in Nat
        BY <4>1, SessionsType DEF Ordered, Is
      <4> QED BY <1>a, <4>1, <4>2 DEF threadVars
    <3> QED BY <3>1
  <2> QED BY <2>1, <2>2, Ways
<1>3. Live
  <2>1. CASE Says
    <3>1. StartsNow' => StartsNow
      BY <1>1, <2>1 DEF Says
    <3>2. Len(down) \in Nat /\ Len(down') \in Nat
      BY <2>1 DEF TypeOK, Says
    <3>3. ASSUME NEW i \in 1 .. Len(down'), Is(i, "StartCapture")' PROVE Live
      <4>1. CASE i > Len(down)
        BY <2>1, <3>3, <4>1 DEF Says, Is, Live
      <4>2. CASE ~(i > Len(down))
        <5>1. i \in 1 .. Len(down)
          BY <3>2, <4>2
        <5> QED BY <2>1, <3>3, <5>1 DEF Says, Is, Live
      <4> QED BY <4>1, <4>2
    <3>4. recording' = recording
      BY <2>1 DEF Says, netVars
    <3> QED BY <3>1, <3>3, <3>4 DEF Live
  <2>2. CASE Takes
    <3>1. StartsNow' => StartsNow
      BY <2>2 DEF Takes, StartsNow
    <3>2. \A i \in 1 .. Len(down') : Is(i, "StartCapture")' => Live
      BY <2>2 DEF Takes, Is, Live
    <3>3. recording' => recording \/ down[1].type = "StartCapture"
      BY <2>2 DEF Takes
    <3>4. 1 \in 1 .. Len(down)
      BY <2>2 DEF Takes
    <3> QED BY <3>1, <3>2, <3>3, <3>4 DEF Live, Is
  <2>3. CASE Stops \/ Others
    BY <2>3 DEF Stops, Others, Live, StartsNow, Is
  <2> QED BY <2>1, <2>2, <2>3, Ways
<1>4. ~FlushSendQueue
  <2> SUFFICES ASSUME FlushSendQueue PROVE FALSE
    OBVIOUS
  <2>1. netPC # "idle"
    BY DEF FlushSendQueue, NetGoes
  <2> QED BY <1>1, <1>2, <1>3, <2>1 DEF StopsLast, Live
<1>5. FlightKept
  BY <1>4, FlightStep
<1>6. tlsSession[t] = session => \A g \in sentCallstacks[t] : Comes(g)
  BY <1>1, <1>2, <1>3 DEF Believed
<1>7. CASE UNCHANGED <<tlsSession[t], sentCallstacks[t]>>
  BY <1>1, <1>2, <1>5, <1>6, <1>7, ComesStays
<1>8. ASSUME NEW g \in Functions, CheckTls(t, g) PROVE Comes(f)'
  <2>1. tlsSession[t] = session /\ sentCallstacks' = sentCallstacks
    BY <1>8 DEF CheckTls, WayUp
  <2> QED BY <1>1, <1>5, <1>6, <2>1, ComesStays
<1>9. CASE SendCallstack(t)
  <2>1. tlsSession' = tlsSession
    BY <1>9 DEF SendCallstack
  <2>2. CASE f \in sentCallstacks[t]
    BY <1>1, <1>2, <1>5, <1>6, <2>1, <2>2, ComesStays
  <2>3. CASE f \notin sentCallstacks[t]
    <3> DEFINE m == [session |-> session, timers |-> {}, stacks |-> {calling[t]}]
               q == sendQueue[t]
    <3>1. f = calling[t] /\ sendQueue' = [sendQueue EXCEPT ![t] = Append(q, m)]
      BY <1>9, <2>3 DEF SendCallstack, WayUp
    <3>2. q \in Seq(Packets) /\ m \in Packets /\ t \in Senders
          /\ sendQueue \in [Senders -> Seq(Packets)]
      BY DEF WayUp, TypeOK, Packets, Senders
    <3>3. m.session = session /\ f \in m.stacks
      BY <3>1
    <3> HIDE DEF m, q
    <3>4. sendQueue'[t] = Append(q, m)
      BY <3>1, <3>2
    <3>5. m \in Elements(sendQueue'[t])
      BY <3>2, <3>4, AppendElements
    <3>6. m \in InFlight' <=> \/ m \in Elements(wire') \/ m \in Elements(received')
                              \/ \E s \in Senders : m \in Elements(sendQueue'[s])
      BY DEF InFlight, Elements
    <3>7. m \in InFlight'
      BY <3>2, <3>5, <3>6
    <3> QED BY <1>2, <3>3, <3>7 DEF Comes
  <2> QED BY <2>2, <2>3
<1> QED BY <1>7, <1>8, <1>9, TlsStep

-----------------------------------------------------------------------------
(* The theorems.                                                           *)

\* The invariant holds of every behaviour.
THEOREM Invariant == Spec => []IInv
<1>1. IInv /\ [Next]_vars => IInv'
  BY PartsStep, GraphStep, WayUpStep, OrderedStep, StopsLastStep, BelievedStep
     DEF IInv, Parts
<1> QED BY Initially, <1>1, PTL DEF Spec

\* Once nothing is under way the target is in the session of the user
\* interface, and records and is hooked exactly while the interface records,
\* however many captures were started and stopped (Capture.cpp:184-220).
THEOREM Agreement == Spec => []EndsAgree
<1>1. ASSUME IInv, Settled
      PROVE  session = hostSession /\ recording = hostRecording
             /\ hooked = hostRecording
  <2>1. \A T : None(down, T)
    BY <1>1 DEF Settled, None
  <2>2. /\ session = hostSession
        /\ recording <=> Capturing
        /\ hooked <=> Capturing
    BY <1>1, <2>1 DEF IInv, SessionAgrees, RecordingAgrees, HooksAgree, Settled
  <2>3. Capturing <=> hostRecording
    BY <1>1 DEF Settled, Capturing
  <2> QED BY <1>1, <2>2, <2>3 DEF IInv, TypeOK
<1>2. IInv => EndsAgree
  BY <1>1 DEF EndsAgree
<1> QED BY <1>2, Invariant, PTL

\* Once it was cleared, the time graph shows timers of the session alone, for
\* any number of threads and captures (TimerManager.cpp:147).
THEOREM OneSession == Spec => []GraphOfSession
<1>1. IInv => GraphOfSession
  BY DEF IInv
<1> QED BY <1>1, Invariant, PTL

\* In a running capture no thread wrongly believes that the user interface has
\* a call stack: what it sent for the session was received or is under way
\* with the stamp of the session, although stopping a capture throws the send
\* queue away (TcpClient.cpp, Hijacking.cpp).
THEOREM NothingForgotten == Spec => []CallstacksNotForgotten
<1>1. IInv => CallstacksNotForgotten
  BY DEF IInv, Believed, Live, Comes, CallstacksNotForgotten
<1> QED BY <1>1, Invariant, PTL

\* The target never goes back to a session it has left, nor meets one twice:
\* a Msg_NewSession that arrives is newer than all before it, so that what a
\* thread or a filter compares with the session cannot become current again
\* (Capture.cpp:185-186, TcpClient.cpp:194, Hijacking.cpp).
SessionGrows == [][session' > session]_session

THEOREM SessionsGrow == Spec => SessionGrows
<1>1. IInv /\ [Next]_vars => [session' > session]_session
  <2> SUFFICES ASSUME IInv, [Next]_vars, session' # session
               PROVE  session' > session
    OBVIOUS
  <2>1. Says \/ Takes \/ Stops \/ Others
    BY Ways DEF IInv
  <2>2. Takes
    BY <2>1 DEF Says, Stops, Others, netVars
  <2>3. 1 \in 1 .. Len(down) /\ Is(1, "NewSession") /\ session' = down[1].session
    BY <2>2 DEF Takes, Is
  <2>4. session < down[1].session
    BY <2>3 DEF IInv, Ordered
  <2>5. session \in Nat /\ down[1].session \in Nat
    BY <2>3, SessionsType DEF IInv, TypeOK
  <2> QED BY <2>3, <2>4, <2>5
<1> QED BY <1>1, Invariant, PTL DEF SessionGrows, Spec
===============================================================================
