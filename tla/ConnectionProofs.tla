--------------------------- MODULE ConnectionProofs ---------------------------
(***************************************************************************)
(* Proofs about Connection, for any set of targets and any number of       *)
(* captures and of changes of the target: the timers of a capture come     *)
(* from one process, and a recording can be stopped unless its target was  *)
(* changed.                                                                *)
(*                                                                         *)
(* The first rests on where a session number can be.  It is announced by   *)
(* one message; while that waits in Orbit no target knows of the session,  *)
(* and it goes to one connection, whoever the current one then is.  What a *)
(* target knows it can only keep, forget or send back.                     *)
(***************************************************************************)
EXTENDS Connection, TLAPS

\* Messages to a target, and from one.
Downward == [type : {"Unload", "StartCapture", "StopCapture"}]
              \cup [type : {"NewSession"}, session : Nat]
Upward   == [type : {"String", "Timer"}, session : Nat]

MainPCs == {"idle", "disconnect", "drop", "select", "inject", "wait", "start",
            "tick"}

\* The variables the theorems are about keep their types.
TypeOK ==
  /\ injected \in BOOLEAN /\ recording \in BOOLEAN /\ retargeted \in BOOLEAN
  /\ mainPC \in MainPCs
  /\ session \in Nat
  /\ sendQueue \in Seq(Downward)
  /\ socketOpen \subseteq Processes
  /\ down \in [Processes -> Seq(Downward)]
  /\ up \in [Processes -> Seq(Upward)]
  /\ libSession \in [Processes -> Nat]
  /\ accepted \subseteq Nat \X Processes

-----------------------------------------------------------------------------
(* The sessions that messages announce or carry.                           *)

Announced(q) == {q[i].session : i \in {j \in 1 .. Len(q) :
                                          q[j].type = "NewSession"}}
Carried(q) == {q[i].session : i \in 1 .. Len(q)}

\* No session is announced twice.
Once(q) ==
  \A i, j \in 1 .. Len(q) :
    /\ q[i].type = "NewSession" /\ q[j].type = "NewSession"
    /\ q[i].session = q[j].session
    => i = j

\* The sessions target p knows of, or is known by.
Borne(p) == {libSession[p]} \cup Announced(down[p]) \cup Carried(up[p])
              \cup {s \in {a[1] : a \in accepted} : <<s, p>> \in accepted}

Owned ==
  /\ Announced(sendQueue) \subseteq 1 .. session
  /\ Once(sendQueue)
  /\ \A p \in Processes :
       /\ Borne(p) \subseteq 0 .. session
       /\ Borne(p) \cap Announced(sendQueue) = {}
  /\ \A p, r \in Processes : p # r => Borne(p) \cap Borne(r) \subseteq {0}

\* Nothing is recorded while a target is being injected.
Stopped ==
  /\ mainPC \in {"inject", "wait"} => ~recording
  /\ mainPC \in {"disconnect", "drop"} /\ next = target => ~recording

IInv == TypeOK /\ Owned /\ Stopped /\ StopWorks

-----------------------------------------------------------------------------
LEMMA AnnouncedAppend ==
  ASSUME NEW q \in Seq(Downward), NEW m \in Downward
  PROVE  /\ m.type # "NewSession" => Announced(Append(q, m)) = Announced(q)
         /\ m.type = "NewSession" =>
              Announced(Append(q, m)) = Announced(q) \cup {m.session}
<1> DEFINE r == Append(q, m)
<1>1. /\ Len(q) \in Nat /\ Len(r) = Len(q) + 1 /\ r[Len(q) + 1] = m
      /\ \A i \in 1 .. Len(q) : r[i] = q[i]
  OBVIOUS
<1> HIDE DEF r
<1>2. ASSUME NEW s PROVE s \in Announced(r) <=>
        s \in Announced(q) \/ (m.type = "NewSession" /\ s = m.session)
  <2>1. 1 .. Len(r) = 1 .. Len(q) \cup {Len(q) + 1}
    BY <1>1
  <2> QED BY <1>1, <2>1 DEF Announced
<1>3. r = Append(q, m)
  BY DEF r
<1> QED BY <1>2, <1>3

LEMMA AnnouncedTail ==
  ASSUME NEW q \in Seq(Downward), q # <<>>
  PROVE  /\ Announced(Tail(q)) \subseteq Announced(q)
         /\ Head(q) \in Downward /\ Tail(q) \in Seq(Downward)
         /\ Once(q) => Once(Tail(q))
         /\ Head(q).type = "NewSession" =>
              /\ Head(q).session \in Announced(q)
              /\ Once(q) => Head(q).session \notin Announced(Tail(q))
<1> DEFINE r == Tail(q)
<1>1. /\ Len(q) \in Nat \ {0} /\ Len(r) = Len(q) - 1 /\ Head(q) = q[1]
      /\ \A i \in 1 .. Len(r) : r[i] = q[i + 1]
      /\ q[1] \in Downward /\ r \in Seq(Downward)
  OBVIOUS
<1> HIDE DEF r
<1>2. \A i \in 1 .. Len(r) : i + 1 \in 1 .. Len(q) /\ i + 1 # 1
  BY <1>1
<1>3. 1 \in 1 .. Len(q)
  BY <1>1
<1>4. Announced(r) \subseteq Announced(q)
  BY <1>1, <1>2 DEF Announced
<1>5. Once(q) => Once(r)
  <2> SUFFICES ASSUME Once(q), NEW i \in 1 .. Len(r), NEW j \in 1 .. Len(r),
                      r[i].type = "NewSession", r[j].type = "NewSession",
                      r[i].session = r[j].session
               PROVE  i = j
    BY DEF Once
  <2>1. i + 1 = j + 1
    BY <1>1, <1>2 DEF Once
  <2> QED BY <2>1
<1>6. ASSUME Head(q).type = "NewSession"
      PROVE  /\ Head(q).session \in Announced(q)
             /\ Once(q) => Head(q).session \notin Announced(r)
  <2>1. Head(q).session \in Announced(q)
    BY <1>1, <1>3, <1>6 DEF Announced
  <2>2. ASSUME Once(q), Head(q).session \in Announced(r) PROVE FALSE
    <3>1. PICK i \in 1 .. Len(r) : r[i].type = "NewSession"
                                   /\ r[i].session = Head(q).session
      BY <2>2 DEF Announced
    <3> QED BY <1>1, <1>2, <1>3, <1>6, <2>2, <3>1 DEF Once
  <2> QED BY <2>1, <2>2
<1>7. r = Tail(q)
  BY DEF r
<1> QED BY <1>1, <1>4, <1>5, <1>6, <1>7

\* The two messages of StartCapture, and one that announces nothing.
LEMMA OnceAppend ==
  ASSUME NEW q \in Seq(Downward), NEW m \in Downward, Once(q),
         m.type = "NewSession" => m.session \notin Announced(q)
  PROVE  Once(Append(q, m))
<1> DEFINE r == Append(q, m)
<1>1. /\ Len(q) \in Nat /\ Len(r) = Len(q) + 1 /\ r[Len(q) + 1] = m
      /\ \A i \in 1 .. Len(q) : r[i] = q[i]
  OBVIOUS
<1> HIDE DEF r
<1> SUFFICES ASSUME NEW i \in 1 .. Len(r), NEW j \in 1 .. Len(r), i < j,
                    r[i].type = "NewSession", r[j].type = "NewSession",
                    r[i].session = r[j].session
             PROVE  FALSE
  <2>1. Once(r) BY <1>1 DEF Once
  <2> QED BY <2>1 DEF r
<1>2. i \in 1 .. Len(q) /\ q[i].type = "NewSession"
  BY <1>1
<1>3. CASE j \in 1 .. Len(q)
  BY <1>1, <1>2, <1>3 DEF Once
<1>4. CASE j = Len(q) + 1
  BY <1>1, <1>2, <1>4 DEF Announced
<1> QED BY <1>1, <1>3, <1>4

LEMMA CarriedAppend ==
  ASSUME NEW q \in Seq(Upward), NEW m \in Upward
  PROVE  Carried(Append(q, m)) = Carried(q) \cup {m.session}
<1> DEFINE r == Append(q, m)
<1>1. /\ Len(q) \in Nat /\ Len(r) = Len(q) + 1 /\ r[Len(q) + 1] = m
      /\ \A i \in 1 .. Len(q) : r[i] = q[i]
  OBVIOUS
<1> HIDE DEF r
<1>2. 1 .. Len(r) = 1 .. Len(q) \cup {Len(q) + 1}
  BY <1>1
<1>3. Carried(r) = Carried(q) \cup {m.session}
  BY <1>1, <1>2 DEF Carried
<1> QED BY <1>3 DEF r

LEMMA CarriedTail ==
  ASSUME NEW q \in Seq(Upward), q # <<>>
  PROVE  /\ Carried(Tail(q)) \subseteq Carried(q)
         /\ Head(q) \in Upward /\ Tail(q) \in Seq(Upward)
         /\ Head(q).session \in Carried(q)
<1> DEFINE r == Tail(q)
<1>1. /\ Len(q) \in Nat \ {0} /\ Len(r) = Len(q) - 1 /\ Head(q) = q[1]
      /\ \A i \in 1 .. Len(r) : r[i] = q[i + 1]
      /\ q[1] \in Upward /\ r \in Seq(Upward)
  OBVIOUS
<1> HIDE DEF r
<1>2. \A i \in 1 .. Len(r) : i + 1 \in 1 .. Len(q)
  BY <1>1
<1>3. 1 \in 1 .. Len(q)
  BY <1>1
<1>4. Carried(r) \subseteq Carried(q)
  <2> SUFFICES ASSUME NEW i \in 1 .. Len(r) PROVE r[i].session \in Carried(q)
    BY DEF Carried
  <2> QED BY <1>1, <1>2 DEF Carried
<1>5. Head(q).session \in Carried(q)
  BY <1>1, <1>3 DEF Carried
<1> QED BY <1>1, <1>4, <1>5 DEF r

LEMMA EmptyQueues == Announced(<<>>) = {} /\ Carried(<<>>) = {} /\ Once(<<>>)
BY DEF Announced, Carried, Once

-----------------------------------------------------------------------------
(* What a step does.                                                       *)

\* Orbit's main thread may send messages that announce no session.
Sends == \/ UNCHANGED sendQueue
         \/ \E m \in Downward : m.type # "NewSession"
                                /\ sendQueue' = Append(sendQueue, m)
Commands ==
  /\ Sends
  /\ UNCHANGED <<session, socketOpen, down, up, libSession, accepted>>

\* The send of StartCapture.
Announces ==
  /\ session' = session + 1
  /\ sendQueue' = Append(Append(sendQueue, [type |-> "NewSession",
                                            session |-> session + 1]),
                         [type |-> "StartCapture"])
  /\ UNCHANGED <<socketOpen, down, up, libSession, accepted>>

\* A packet leaves Orbit for a target, or is lost.
Ships ==
  /\ sendQueue # <<>> /\ sendQueue' = Tail(sendQueue)
  /\ \/ UNCHANGED down
     \/ \E p \in Processes :
          down' = [down EXCEPT ![p] = Append(@, Head(sendQueue))]
  /\ UNCHANGED <<session, socketOpen, up, libSession, accepted>>

\* A message comes to Orbit from p; those of an exited target are lost.
Hears(p) ==
  /\ up[p] # <<>> /\ up' = [up EXCEPT ![p] = Tail(@)]
  /\ accepted' = accepted \/ accepted' = accepted \cup {<<Head(up[p]).session, p>>}
  /\ UNCHANGED <<session, sendQueue, socketOpen, down, libSession>>
Loses(p) ==
  /\ socketOpen' \subseteq socketOpen
  /\ \/ up' = [up EXCEPT ![p] = <<>>] /\ UNCHANGED down
     \/ down' = [down EXCEPT ![p] = <<>>] /\ UNCHANGED up
  /\ UNCHANGED <<session, sendQueue, libSession, accepted>>

\* A target connects, says something, or takes a message.
Connects(p) ==
  /\ socketOpen' = socketOpen \cup {p}
  /\ UNCHANGED <<session, sendQueue, down, up, libSession, accepted>>
Says(p) ==
  /\ \E m \in Upward : /\ m.session \in {0, libSession[p]}
                       /\ up' = [up EXCEPT ![p] = Append(@, m)]
  /\ UNCHANGED <<session, sendQueue, socketOpen, down, libSession, accepted>>
Takes(p) ==
  /\ down[p] # <<>> /\ down' = [down EXCEPT ![p] = Tail(@)]
  /\ \/ UNCHANGED libSession
     \/ /\ Head(down[p]).type = "NewSession"
        /\ libSession' = [libSession EXCEPT ![p] = Head(down[p]).session]
  /\ UNCHANGED <<session, sendQueue, socketOpen, up, accepted>>

\* The messages that Send is given.
LEMMA SendOne ==
  ASSUME TypeOK, NEW m \in Downward, m.type # "NewSession", Send(<<m>>)
  PROVE  Sends
<1>1. sendQueue \o <<m>> = Append(sendQueue, m)
  BY DEF TypeOK
<1> QED BY <1>1 DEF Send, Sends

LEMMA StopCaptureSends == ASSUME TypeOK, StopCapture PROVE Sends
<1> DEFINE m == [type |-> "StopCapture"]
<1>1. m \in Downward /\ m.type # "NewSession"
  BY DEF Downward
<1>2. Send(<<m>>) \/ UNCHANGED sendQueue
  BY DEF StopCapture
<1> HIDE DEF m
<1> QED BY <1>1, <1>2, SendOne DEF Sends

LEMMA MainKinds ==
  ASSUME TypeOK, User \/ MainThread
  PROVE  Commands \/ Announces
<1> USE DEF Main, netVars
<1>1. CASE \/ \E p \in Processes : SelectTarget(p)
           \/ DisconnectClears \/ SetTargetProcess \/ ToggleOn \/ Inject
           \/ InjectWaits
  BY <1>1 DEF SelectTarget, DisconnectClears, SetTargetProcess, ToggleOn,
              Inject, InjectWaits, Commands, Sends
<1>2. CASE DisconnectSends
  <2> DEFINE m == [type |-> "Unload"]
  <2>1. m \in Downward /\ m.type # "NewSession"
    BY DEF Downward
  <2>2. Send(<<m>>) \/ Send(<<>>)
    BY <1>2 DEF DisconnectSends
  <2>3. Send(<<>>) => UNCHANGED sendQueue
    BY DEF Send, TypeOK
  <2> HIDE DEF m
  <2>4. Sends
    BY <2>1, <2>2, <2>3, SendOne DEF Sends
  <2> QED BY <1>2, <2>4 DEF DisconnectSends, Commands
<1>3. CASE ToggleOff \/ Update \/ MainThreadTick
  <2>1. Sends
    BY <1>3, StopCaptureSends DEF ToggleOff, Update, MainThreadTick, Sends
  <2>2. UNCHANGED session
    BY <1>3 DEF ToggleOff, Update, MainThreadTick
  <2> QED BY <1>3, <2>1, <2>2 DEF ToggleOff, Update, MainThreadTick, Commands
<1>4. CASE StartCapture
  <2> DEFINE a == [type |-> "NewSession", session |-> session + 1]
             b == [type |-> "StartCapture"]
  <2>1. session' = session + 1 /\ sendQueue' = sendQueue \o <<a, b>>
    BY <1>4 DEF StartCapture, Send
  <2>2. a \in Downward /\ b \in Downward
    BY DEF Downward, TypeOK
  <2> HIDE DEF a, b
  <2>3. sendQueue \o <<a, b>> = Append(Append(sendQueue, a), b)
    BY <2>2 DEF TypeOK
  <2>4. sendQueue' = Append(Append(sendQueue, a), b)
    BY <2>1, <2>3
  <2> USE DEF a, b
  <2> QED BY <1>4, <2>1, <2>4 DEF StartCapture, Announces
<1> QED BY <1>1, <1>2, <1>3, <1>4 DEF User, MainThread

LEMMA Kinds ==
  ASSUME TypeOK, [Next]_vars
  PROVE  \/ Commands \/ Announces \/ Ships
         \/ \E p \in Processes : \/ Hears(p) \/ Loses(p) \/ Connects(p)
                                 \/ Says(p) \/ Takes(p)
<1> USE DEF mainVars, netVars, libVars, pastVars
<1>1. CASE UNCHANGED vars
  BY <1>1 DEF vars, Commands, Sends
<1>2. CASE User \/ MainThread
  BY <1>2, MainKinds
<1>3. CASE SendData
  <2>1. Ships
    BY <1>3 DEF SendData, Ships, Gone, TypeOK
  <2> QED BY <2>1
<1>4. ASSUME NEW p \in Processes, Network(p)
      PROVE  Hears(p) \/ Loses(p)
  <2>1. ASSUME Receive(p) PROVE Hears(p)
    <3>1. accepted' = accepted
            \/ accepted' = accepted \cup {<<Head(up[p]).session, p>>}
      BY <2>1 DEF Receive, Accepts
    <3> QED BY <2>1, <3>1 DEF Receive, NetworkKeeps, Hears
  <2>2. ASSUME ReadFails(p) PROVE Loses(p)
    BY <2>2 DEF ReadFails, NetworkKeeps, Loses
  <2> QED BY <1>4, <2>1, <2>2 DEF Network
<1>5. ASSUME NEW p \in Processes, Target(p)
      PROVE  Commands \/ Loses(p) \/ Connects(p) \/ Says(p) \/ Takes(p)
  <2> USE DEF Library
  <2>1. ASSUME Connect(p) PROVE Connects(p)
    BY <2>1 DEF Connect, Connects
  <2>2. ASSUME Start(p) PROVE Says(p)
    <3> DEFINE m == [type |-> "String", session |-> 0]
    <3>1. m \in Upward /\ m.session = 0
      BY DEF Upward
    <3>2. up' = [up EXCEPT ![p] = Append(@, m)]
      BY <2>2 DEF Start
    <3> HIDE DEF m
    <3> QED BY <2>2, <3>1, <3>2 DEF Start, Says
  <2>3. ASSUME SendTimer(p) PROVE Says(p)
    <3> DEFINE m == [type |-> "Timer", session |-> libSession[p]]
    <3>1. m \in Upward /\ m.session = libSession[p]
      BY DEF Upward, TypeOK
    <3>2. up' = [up EXCEPT ![p] = Append(@, m)]
      BY <2>3 DEF SendTimer
    <3> HIDE DEF m
    <3> QED BY <2>3, <3>1, <3>2 DEF SendTimer, Says
  <2>4. ASSUME CreateTimerManager(p) PROVE Commands
    BY <2>4 DEF CreateTimerManager, Commands, Sends
  <2>5. ASSUME Decode(p) PROVE Takes(p)
    BY <2>5 DEF Decode, Takes
  <2>6. ASSUME Exit(p) PROVE Loses(p)
    BY <2>6 DEF Exit, Loses
  <2> QED BY <1>5, <2>1, <2>2, <2>3, <2>4, <2>5, <2>6 DEF Target
<1> QED BY <1>1, <1>2, <1>3, <1>4, <1>5 DEF Next

-----------------------------------------------------------------------------
(* Types.                                                                  *)

Controls == /\ injected \in BOOLEAN /\ recording \in BOOLEAN
            /\ retargeted \in BOOLEAN /\ mainPC \in MainPCs

LEMMA ControlsStep == TypeOK /\ [Next]_vars => Controls'
<1> SUFFICES ASSUME TypeOK, [Next]_vars PROVE Controls'
  OBVIOUS
<1> USE DEF TypeOK, Controls, mainVars, netVars, libVars, pastVars
<1>1. CASE UNCHANGED vars
  BY <1>1 DEF vars
<1>2. CASE User
  BY <1>2 DEF User, SelectTarget, ToggleOn, ToggleOff, StopCapture, Main, MainPCs
<1>3. CASE MainThread
  <2>1. mainPC' \in MainPCs
    BY <1>3 DEF MainThread, DisconnectSends, DisconnectClears, SetTargetProcess,
         Inject, InjectWaits, StartCapture, Update, MainThreadTick, Main, MainPCs
  <2>2. injected' \in BOOLEAN
    BY <1>3 DEF MainThread, DisconnectSends, DisconnectClears, SetTargetProcess,
         Inject, InjectWaits, StartCapture, Update, MainThreadTick
  <2>3. recording' \in BOOLEAN /\ retargeted' \in BOOLEAN
    BY <1>3 DEF MainThread, DisconnectSends, DisconnectClears, SetTargetProcess,
         Inject, InjectWaits, StartCapture, Update, MainThreadTick, StopCapture
  <2> QED BY <2>1, <2>2, <2>3
<1>4. CASE SendData
  BY <1>4 DEF SendData
<1>5. ASSUME NEW p \in Processes, Network(p) PROVE Controls'
  BY <1>5 DEF Network, Receive, ReadFails, NetworkKeeps
<1>6. ASSUME NEW p \in Processes, Target(p) PROVE Controls'
  BY <1>6 DEF Target, Connect, Start, CreateTimerManager, Decode, SendTimer,
              Exit, Library
<1> QED BY <1>1, <1>2, <1>3, <1>4, <1>5, <1>6 DEF Next

LEMMA AppendType ==
  /\ \A q \in Seq(Downward), m \in Downward : Append(q, m) \in Seq(Downward)
  /\ \A q \in Seq(Upward), m \in Upward : Append(q, m) \in Seq(Upward)
OBVIOUS

LEMMA TypeStep == TypeOK /\ [Next]_vars => TypeOK'
<1> SUFFICES ASSUME TypeOK, [Next]_vars PROVE TypeOK'
  OBVIOUS
<1>1. Controls'
  BY ControlsStep
<1> USE <1>1 DEF TypeOK, Controls
<1>2. CASE Commands
  BY <1>2, AppendType DEF Commands, Sends
<1>3. CASE Announces
  <2> DEFINE a == [type |-> "NewSession", session |-> session + 1]
             b == [type |-> "StartCapture"]
  <2>1. a \in Downward /\ b \in Downward
    BY DEF Downward
  <2>2. sendQueue' = Append(Append(sendQueue, a), b)
    BY <1>3 DEF Announces
  <2> HIDE DEF a, b
  <2>3. sendQueue' \in Seq(Downward)
    BY <2>1, <2>2, AppendType
  <2> QED BY <1>3, <2>3 DEF Announces
<1>4. CASE Ships
  <2>1. Head(sendQueue) \in Downward /\ Tail(sendQueue) \in Seq(Downward)
    BY <1>4, AnnouncedTail DEF Ships
  <2>2. down' \in [Processes -> Seq(Downward)]
    <3>1. \A p \in Processes : Append(down[p], Head(sendQueue)) \in Seq(Downward)
      BY <2>1, AppendType
    <3> QED BY <1>4, <3>1 DEF Ships
  <2> QED BY <1>4, <2>1, <2>2 DEF Ships
<1>5. ASSUME NEW p \in Processes, Hears(p) PROVE TypeOK'
  <2>1. Head(up[p]) \in Upward /\ Tail(up[p]) \in Seq(Upward)
    BY <1>5, CarriedTail DEF Hears
  <2>2. Head(up[p]).session \in Nat
    BY <2>1 DEF Upward
  <2> QED BY <1>5, <2>1, <2>2 DEF Hears
<1>6. ASSUME NEW p \in Processes, Loses(p) PROVE TypeOK'
  <2>1. <<>> \in Seq(Downward) /\ <<>> \in Seq(Upward)
    OBVIOUS
  <2>2. /\ [up EXCEPT ![p] = <<>>] \in [Processes -> Seq(Upward)]
        /\ [down EXCEPT ![p] = <<>>] \in [Processes -> Seq(Downward)]
    BY <2>1
  <2> QED BY <1>6, <2>2 DEF Loses
<1>7. ASSUME NEW p \in Processes, Connects(p) PROVE TypeOK'
  BY <1>7 DEF Connects
<1>8. ASSUME NEW p \in Processes, Says(p) PROVE TypeOK'
  BY <1>8, AppendType DEF Says
<1>9. ASSUME NEW p \in Processes, Takes(p) PROVE TypeOK'
  <2>1. Head(down[p]) \in Downward /\ Tail(down[p]) \in Seq(Downward)
    BY <1>9, AnnouncedTail DEF Takes
  <2>2. Head(down[p]).type = "NewSession" => Head(down[p]).session \in Nat
    BY <2>1 DEF Downward
  <2> QED BY <1>9, <2>1, <2>2 DEF Takes
<1> QED BY <1>2, <1>3, <1>4, <1>5, <1>6, <1>7, <1>8, <1>9, Kinds

-----------------------------------------------------------------------------
(* Where the sessions are.                                                 *)

\* A step of the targets or of the network shows no target a new session.
LEMMA NothingNew ==
  ASSUME TypeOK, Owned, UNCHANGED <<session, sendQueue>>,
         \A p \in Processes : Borne(p)' \subseteq Borne(p) \cup {0}
  PROVE  Owned'
<1>1. ASSUME NEW p \in Processes
      PROVE  Borne(p)' \subseteq 0 .. session
             /\ Borne(p)' \cap Announced(sendQueue) = {}
  BY DEF Owned, TypeOK
<1>2. ASSUME NEW p \in Processes, NEW r \in Processes, p # r
      PROVE  Borne(p)' \cap Borne(r)' \subseteq {0}
  <2>1. /\ Borne(p)' \subseteq Borne(p) \cup {0}
        /\ Borne(r)' \subseteq Borne(r) \cup {0}
        /\ Borne(p) \cap Borne(r) \subseteq {0}
    BY <1>2 DEF Owned
  <2> QED BY <2>1
<1>3. Announced(sendQueue)' \subseteq 1 .. session' /\ Once(sendQueue)'
  BY DEF Owned
<1> QED BY <1>1, <1>2, <1>3 DEF Owned

LEMMA OwnedStep == TypeOK /\ Owned /\ [Next]_vars => Owned'
<1> SUFFICES ASSUME TypeOK, Owned, [Next]_vars PROVE Owned'
  OBVIOUS
<1>1. CASE Commands
  <2>1. \A p \in Processes : Borne(p)' = Borne(p)
    BY <1>1 DEF Commands, Borne
  <2>2. Announced(sendQueue)' = Announced(sendQueue) /\ Once(sendQueue)'
    <3>1. CASE UNCHANGED sendQueue
      BY <3>1 DEF Owned
    <3>2. ASSUME NEW m \in Downward, m.type # "NewSession",
                 sendQueue' = Append(sendQueue, m)
          PROVE  Announced(sendQueue)' = Announced(sendQueue) /\ Once(sendQueue)'
      BY <3>2, AnnouncedAppend, OnceAppend DEF Owned, TypeOK
    <3> QED BY <1>1, <3>1, <3>2 DEF Commands, Sends
  <2>3. session' = session
    BY <1>1 DEF Commands
  <2> QED BY <2>1, <2>2, <2>3 DEF Owned
<1>2. CASE Announces
  <2> DEFINE a == [type |-> "NewSession", session |-> session + 1]
             b == [type |-> "StartCapture"]
  <2>1. /\ a \in Downward /\ a.type = "NewSession" /\ a.session = session + 1
        /\ b \in Downward /\ b.type # "NewSession"
    BY DEF Downward, TypeOK
  <2>2. sendQueue' = Append(Append(sendQueue, a), b)
    BY <1>2 DEF Announces
  <2>3. session' = session + 1 /\ session \in Nat
    BY <1>2 DEF Announces, TypeOK
  <2> HIDE DEF a, b
  <2>4. /\ Append(sendQueue, a) \in Seq(Downward)
        /\ Announced(Append(sendQueue, a)) = Announced(sendQueue) \cup {session + 1}
        /\ Once(Append(sendQueue, a))
    <3>1. session + 1 \notin Announced(sendQueue)
      BY <2>3 DEF Owned
    <3> QED BY <2>1, <3>1, AppendType, AnnouncedAppend, OnceAppend DEF Owned, TypeOK
  <2>5. /\ Announced(sendQueue)' = Announced(sendQueue) \cup {session + 1}
        /\ Once(sendQueue)'
    BY <2>1, <2>2, <2>4, AnnouncedAppend, OnceAppend
  <2>6. \A p \in Processes : Borne(p)' = Borne(p)
    BY <1>2 DEF Announces, Borne
  <2>7. \A p \in Processes : session + 1 \notin Borne(p)
    BY <2>3 DEF Owned
  <2>8. /\ 1 .. session \subseteq 1 .. session + 1
        /\ session + 1 \in 1 .. session + 1
        /\ 0 .. session \subseteq 0 .. session + 1
    BY <2>3
  <2> QED BY <2>3, <2>5, <2>6, <2>7, <2>8 DEF Owned
<1>3. CASE Ships
  <2> DEFINE h == Head(sendQueue)
  <2>1. /\ h \in Downward
        /\ Announced(sendQueue)' \subseteq Announced(sendQueue)
        /\ Once(sendQueue)'
        /\ h.type = "NewSession" => /\ h.session \in Announced(sendQueue)
                                    /\ h.session \notin Announced(sendQueue)'
    BY <1>3, AnnouncedTail DEF Ships, Owned, TypeOK
  <2>2. session' = session /\ session \in Nat
    BY <1>3 DEF Ships, TypeOK
  <2>3. CASE UNCHANGED down
    <3>1. \A p \in Processes : Borne(p)' = Borne(p)
      BY <1>3, <2>3 DEF Ships, Borne
    <3> QED BY <2>1, <2>2, <3>1 DEF Owned
  <2>4. ASSUME NEW p \in Processes, down' = [down EXCEPT ![p] = Append(@, h)]
        PROVE  Owned'
    <3> HIDE DEF h
    <3>1. \A r \in Processes : r # p => Borne(r)' = Borne(r)
      BY <1>3, <2>4 DEF Ships, Borne, TypeOK
    <3>2. /\ h.type # "NewSession" => Borne(p)' = Borne(p)
          /\ h.type = "NewSession" => Borne(p)' = Borne(p) \cup {h.session}
      <4>1. /\ down'[p] = Append(down[p], h)
            /\ h.type # "NewSession" => Announced(down'[p]) = Announced(down[p])
            /\ h.type = "NewSession" =>
                 Announced(down'[p]) = Announced(down[p]) \cup {h.session}
        BY <2>1, <2>4, AnnouncedAppend DEF TypeOK
      <4> QED BY <1>3, <4>1 DEF Ships, Borne
    <3>3. CASE h.type # "NewSession"
      BY <2>1, <2>2, <3>1, <3>2, <3>3 DEF Owned
    <3>4. CASE h.type = "NewSession"
      <4>1. \A r \in Processes : h.session \notin Borne(r)
        BY <2>1, <3>4 DEF Owned
      <4>2. h.session \in 1 .. session
        BY <2>1, <3>4 DEF Owned
      <4>3. ASSUME NEW r \in Processes
            PROVE  /\ Borne(r)' \subseteq 0 .. session
                   /\ Borne(r)' \cap Announced(sendQueue)' = {}
        <5>1. Borne(r)' \subseteq Borne(r) \cup {h.session}
          BY <3>1, <3>2, <3>4
        <5>2. /\ Borne(r) \subseteq 0 .. session
              /\ Borne(r) \cap Announced(sendQueue) = {}
          BY DEF Owned
        <5> QED BY <2>1, <2>2, <3>4, <4>2, <5>1, <5>2
      <4>4. ASSUME NEW q \in Processes, NEW r \in Processes, q # r
            PROVE  Borne(q)' \cap Borne(r)' \subseteq {0}
        <5>1. Borne(q) \cap Borne(r) \subseteq {0}
          BY <4>4 DEF Owned
        <5> QED BY <3>1, <3>2, <3>4, <4>1, <4>4, <5>1
      <4>5. Announced(sendQueue)' \subseteq 1 .. session
        BY <2>1 DEF Owned
      <4> QED BY <2>1, <2>2, <4>3, <4>4, <4>5 DEF Owned
    <3> QED BY <3>3, <3>4
  <2> QED BY <1>3, <2>3, <2>4 DEF Ships
<1>4. ASSUME NEW p \in Processes, Hears(p) PROVE Owned'
  <2>1. /\ Carried(Tail(up[p])) \subseteq Carried(up[p])
        /\ Head(up[p]).session \in Carried(up[p])
    BY <1>4, CarriedTail DEF Hears, TypeOK
  <2>2. \A r \in Processes : Borne(r)' \subseteq Borne(r)
    <3>1. Borne(p)' \subseteq Borne(p)
      <4>1. up'[p] = Tail(up[p])
        BY <1>4 DEF Hears, TypeOK
      <4>2. \A s : <<s, p>> \in accepted' => <<s, p>> \in accepted
                                             \/ s \in Carried(up[p])
        BY <1>4, <2>1 DEF Hears
      <4> QED BY <1>4, <2>1, <4>1, <4>2 DEF Hears, Borne
    <3>2. \A r \in Processes : r # p => Borne(r)' \subseteq Borne(r)
      BY <1>4 DEF Hears, Borne, TypeOK
    <3> QED BY <3>1, <3>2
  <2> QED BY <1>4, <2>2, NothingNew DEF Hears
<1>5. ASSUME NEW p \in Processes, Loses(p) PROVE Owned'
  <2>1. \A r \in Processes : Borne(r)' \subseteq Borne(r)
    BY <1>5, EmptyQueues DEF Loses, Borne, TypeOK
  <2> QED BY <1>5, <2>1, NothingNew DEF Loses
<1>6. ASSUME NEW p \in Processes, Connects(p) PROVE Owned'
  BY <1>6, NothingNew DEF Connects, Borne
<1>7. ASSUME NEW p \in Processes, Says(p) PROVE Owned'
  <2> PICK m \in Upward : /\ m.session \in {0, libSession[p]}
                          /\ up' = [up EXCEPT ![p] = Append(@, m)]
    BY <1>7 DEF Says
  <2>1. Carried(up'[p]) = Carried(up[p]) \cup {m.session}
    BY CarriedAppend DEF TypeOK
  <2>2. \A r \in Processes : Borne(r)' \subseteq Borne(r) \cup {0}
    <3>1. Borne(p)' \subseteq Borne(p) \cup {0}
      BY <1>7, <2>1 DEF Says, Borne
    <3>2. \A r \in Processes : r # p => Borne(r)' = Borne(r)
      BY <1>7 DEF Says, Borne, TypeOK
    <3> QED BY <3>1, <3>2
  <2> QED BY <1>7, <2>2, NothingNew DEF Says
<1>8. ASSUME NEW p \in Processes, Takes(p) PROVE Owned'
  <2>1. /\ Announced(Tail(down[p])) \subseteq Announced(down[p])
        /\ Head(down[p]).type = "NewSession" =>
             Head(down[p]).session \in Announced(down[p])
    BY <1>8, AnnouncedTail DEF Takes, TypeOK
  <2>2. \A r \in Processes : Borne(r)' \subseteq Borne(r)
    <3>1. Borne(p)' \subseteq Borne(p)
      <4>1. down'[p] = Tail(down[p])
        BY <1>8 DEF Takes, TypeOK
      <4>2. libSession'[p] \in {libSession[p]} \cup Announced(down[p])
        BY <1>8, <2>1 DEF Takes, TypeOK
      <4> QED BY <1>8, <2>1, <4>1, <4>2 DEF Takes, Borne
    <3>2. \A r \in Processes : r # p => Borne(r)' = Borne(r)
      BY <1>8 DEF Takes, Borne, TypeOK
    <3> QED BY <3>1, <3>2
  <2> QED BY <1>8, <2>2, NothingNew DEF Takes
<1> QED BY <1>1, <1>2, <1>3, <1>4, <1>5, <1>6, <1>7, <1>8, Kinds

-----------------------------------------------------------------------------
(* A recording can be stopped.                                             *)

LEMMA StoppedStep ==
  TypeOK /\ Stopped /\ StopWorks /\ [Next]_vars => Stopped' /\ StopWorks'
<1> SUFFICES ASSUME TypeOK, Stopped, StopWorks, [Next]_vars
             PROVE  Stopped' /\ StopWorks'
  OBVIOUS
<1> USE DEF TypeOK, Stopped, StopWorks, mainVars, netVars, libVars, pastVars
<1>1. CASE UNCHANGED vars
  BY <1>1 DEF vars
<1>2. CASE User
  <2>1. ASSUME NEW p \in Processes, SelectTarget(p) PROVE Stopped' /\ StopWorks'
    BY <2>1 DEF SelectTarget, Main
  <2>2. CASE ToggleOn
    BY <2>2 DEF ToggleOn, Main
  <2>3. CASE ToggleOff
    BY <2>3 DEF ToggleOff, StopCapture, Main
  <2> QED BY <1>2, <2>1, <2>2, <2>3 DEF User
<1>3. CASE MainThread
  <2>1. CASE DisconnectSends \/ DisconnectClears \/ SetTargetProcess
    BY <2>1 DEF DisconnectSends, DisconnectClears, SetTargetProcess, Main
  <2>2. CASE Inject \/ InjectWaits \/ StartCapture
    BY <2>2 DEF Inject, InjectWaits, StartCapture, Main
  <2>3. CASE Update \/ MainThreadTick
    BY <2>3 DEF Update, MainThreadTick, StopCapture, Main
  <2> QED BY <1>3, <2>1, <2>2, <2>3 DEF MainThread
<1>4. CASE SendData
  BY <1>4 DEF SendData
<1>5. ASSUME NEW p \in Processes, Network(p) PROVE Stopped' /\ StopWorks'
  BY <1>5 DEF Network, Receive, ReadFails, NetworkKeeps
<1>6. ASSUME NEW p \in Processes, Target(p) PROVE Stopped' /\ StopWorks'
  BY <1>6 DEF Target, Connect, Start, CreateTimerManager, Decode, SendTimer,
              Exit, Library
<1> QED BY <1>1, <1>2, <1>3, <1>4, <1>5, <1>6 DEF Next

-----------------------------------------------------------------------------
(* The theorems.                                                           *)

LEMMA Initially == Init => IInv
<1> SUFFICES ASSUME Init PROVE IInv
  OBVIOUS
<1>1. <<>> \in Seq(Downward) /\ <<>> \in Seq(Upward)
  OBVIOUS
<1>2. TypeOK
  BY <1>1 DEF Init, TypeOK, MainPCs
<1>3. ASSUME NEW p \in Processes PROVE Borne(p) = {0}
  BY <1>3, EmptyQueues DEF Init, Borne
<1>4. Owned
  BY <1>3, EmptyQueues DEF Init, Owned
<1>5. Stopped /\ StopWorks
  BY DEF Init, Stopped, StopWorks
<1> QED BY <1>2, <1>4, <1>5 DEF IInv

\* The invariant holds of every behaviour.
THEOREM Invariant == Spec => []IInv
<1>1. IInv /\ [Next]_vars => IInv'
  BY TypeStep, OwnedStep, StoppedStep DEF IInv
<1> QED BY <1>1, Initially, PTL DEF Spec

\* All timers that Orbit lets through for one capture come from one process,
\* although the targets it left behind keep sending and take the connection
\* back (Tcp.cpp:337-341, TcpServer.cpp:98-103).
THEOREM OneProcess == Spec => []OneProcessPerCapture
<1>1. IInv => OneProcessPerCapture
  <2> SUFFICES ASSUME IInv, NEW a \in accepted, NEW b \in accepted,
                      a[1] = b[1], a[1] > 0, a[2] # b[2]
               PROVE  FALSE
    BY DEF OneProcessPerCapture
  <2>1. /\ a[1] \in Nat /\ a[2] \in Processes /\ <<a[1], a[2]>> \in accepted
        /\ b[1] \in Nat /\ b[2] \in Processes /\ <<b[1], b[2]>> \in accepted
    <3>1. a \in Nat \X Processes /\ b \in Nat \X Processes
      BY DEF IInv, TypeOK
    <3>2. a = <<a[1], a[2]>> /\ b = <<b[1], b[2]>>
      BY <3>1
    <3> QED BY <3>1, <3>2
  <2>2. a[1] \in Borne(a[2]) /\ a[1] \in Borne(b[2])
    BY <2>1 DEF Borne
  <2>3. a[1] \in {0}
    BY <2>1, <2>2 DEF IInv, Owned
  <2> QED BY <2>1, <2>3
<1> QED BY <1>1, Invariant, PTL

\* StopCapture does its work for every recording whose target was not changed
\* (Capture.cpp:213, Capture.cpp:459-463).
THEOREM StopDoesWork == Spec => []StopWorks
<1>1. IInv => StopWorks
  BY DEF IInv
<1> QED BY <1>1, Invariant, PTL

\* No two targets ever have the same session: a Msg_NewSession goes to whatever
\* connection is the current one then, and to that one alone, however often the
\* connections change (Tcp.cpp:337-341, TcpEntity.cpp:106-110, TcpClient.cpp:194).
OneKnowsEach ==
  \A p, r \in Processes :
    p # r => libSession[p] # libSession[r] \/ libSession[p] = 0

THEOREM KnownToOne == Spec => []OneKnowsEach
<1>1. IInv => OneKnowsEach
  <2> SUFFICES ASSUME IInv, NEW p \in Processes, NEW r \in Processes, p # r,
                      libSession[p] = libSession[r]
               PROVE  libSession[p] = 0
    BY DEF OneKnowsEach
  <2>1. libSession[p] \in Borne(p) /\ libSession[p] \in Borne(r)
    BY DEF Borne
  <2>2. libSession[p] \in {0}
    BY <2>1 DEF IInv, Owned
  <2> QED BY <2>2
<1> QED BY <1>1, Invariant, PTL
===============================================================================
