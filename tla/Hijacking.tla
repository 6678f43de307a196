------------------------------ MODULE Hijacking ------------------------------
(***************************************************************************)
(* Dynamic instrumentation, OrbitCore/Hijacking.cpp with the stubs of      *)
(* OrbitAsm: one thread of the target process running hooked functions     *)
(* while the network thread of the injected library starts and stops       *)
(* captures.                                                               *)
(*                                                                         *)
(* Entering a hooked function runs its prolog, which records the return    *)
(* address in m_ReturnAdresses and, for most kinds of hook, a Timer in     *)
(* m_Timers; the stub then overwrites the return address with its epilog.  *)
(* When the function returns, control goes to the epilog, which undoes all *)
(* that and answers where the function really had to return.               *)
(*                                                                         *)
(* An address is a pair: Code(n) is the place the n-th call returns to     *)
(* (every call has its own, which is the most a hook could confuse),       *)
(* Stub(k) the epilog stub of hooks of kind k.  A frame of the stack holds *)
(* `ret', its return address slot as it is in memory, and facts about the  *)
(* run no code looks at: `site' (the call that made it), `acts' (the       *)
(* hooked functions running in it, more than one after a jmp from a stub), *)
(* `zones' (its open ORBIT_SCOPEs) and `closes' (the zone an OrbitStop     *)
(* closes).                                                                *)
(***************************************************************************)
EXTENDS Integers, Sequences, FiniteSets

CONSTANTS Kinds,         \* the kinds of hook a capture installs
          MaxFrames,     \* bound: depth of the stack
          MaxCalls,      \* bound: calls made
          MaxSessions    \* bound: captures started

\* In the order of Function::OrbitType, in which the hooks are installed.
AllKinds == <<"Func", "ZoneStart", "ZoneStop", "OutputDbg", "UnrealActor",
              "Alloc", "Free", "SendData">>
KindSet  == {AllKinds[i] : i \in 1 .. 8}

ASSUME HijackingAssumption ==
  /\ Kinds \subseteq KindSet
  /\ MaxFrames \in Nat /\ MaxCalls \in Nat /\ MaxSessions \in Nat

\* Which prolog starts a timer, which epilog stops the last one.
TimedKinds == {"Func", "ZoneStart", "UnrealActor", "Alloc", "Free"}
PopsTimer  == {"Func", "UnrealActor", "Alloc", "Free"}

\* OrbitStart, OrbitStop, OrbitSendData and OutputDebugString call nothing
\* that is hooked.
LeafKinds  == {"ZoneStart", "ZoneStop", "OutputDbg", "SendData"}

Code(n) == <<"code", n>>
Stub(k) == <<k, 0>>

Front(s) == SubSeq(s, 1, Len(s) - 1)
Last(s)  == s[Len(s)]

VARIABLES
  stack,         \* the frames of the thread
  calls,         \* calls made so far
  ctl,           \* "run", "prolog" and "prologBody" (in a prolog), "epilog"
  target,        \* in "epilog", the stub control is in
  rets,          \* TlsData->m_ReturnAdresses
  timers,        \* TlsData->m_Timers
  contexts,      \* TlsData->m_Contexts, each the call whose stack it points to
  zoneStack,     \* TlsData->m_ZoneStack
  tlsSession,    \* TlsData->m_SessionID
  depth,         \* CurrentDepth
  sessionID,     \* Message::GSessionID
  phase,         \* what the network thread has done of a capture
  enabled,       \* the kinds whose hooks are enabled
  isRecording,   \* GTimerManager->m_IsRecording
  sent,          \* the last timer Added, and what really ended
  landed,        \* the last return: where it went, where it should have
  torn,          \* sessions of timers open around a zone hooked on one side
  base           \* timers open when the depth was last reset

threadVars  == <<stack, calls, ctl, target>>
tlsVars     == <<rets, timers, contexts, zoneStack, tlsSession, depth>>
captureVars == <<sessionID, phase, enabled, isRecording>>
ghostVars   == <<sent, landed, torn, base>>
vars == <<threadVars, tlsVars, captureVars, ghostVars>>

Init ==
  /\ stack = <<>> /\ calls = 0 /\ ctl = "run" /\ target = Code(0)
  /\ rets = <<>> /\ timers = <<>> /\ contexts = <<>>
  /\ zoneStack = 0 /\ tlsSession = -1 /\ depth = 0
  /\ sessionID = 0 /\ phase = "idle" /\ enabled = {} /\ isRecording = FALSE
  /\ sent = [timer |-> 0, ended |-> 0, session |-> 0]
  /\ landed = [at |-> 0, site |-> 0]
  /\ torn = {} /\ base = 0

-----------------------------------------------------------------------------
(* The stack walk: SetOriginalReturnAddresses writes the recorded return   *)
(* addresses back to memory, SetOverridenReturnAddresses undoes it.  Both  *)
(* skip a record of the slot they wrote last.                              *)

\* Mutant: every record is written.
MutWrites(i) == TRUE

Writes(i) == i = 1 \/ rets[i].slot # rets[i - 1].slot

\* The records written to slot s, and what the walk finds in each slot.
WritersOf(s) == {i \in 1 .. Len(rets) : rets[i].slot = s /\ Writes(i)}
LastOf(S) == CHOOSE i \in S : \A j \in S : j <= i
OriginalAddress(s) ==
  IF WritersOf(s) = {} THEN stack[s].ret ELSE rets[LastOf(WritersOf(s))].orig

\* m_EpilogAddress: what record i saw in its slot before it wrote there.
EpilogAddress(i) ==
  LET before == {j \in WritersOf(rets[i].slot) : j < i}
  IN  IF before = {} THEN stack[rets[i].slot].ret ELSE rets[LastOf(before)].orig
OverridenAddress(s) ==
  IF WritersOf(s) = {} THEN stack[s].ret ELSE EpilogAddress(LastOf(WritersOf(s)))

\* The stack after the walk.
Walked == [s \in 1 .. Len(stack) |-> [stack[s] EXCEPT !.ret = OverridenAddress(s)]]

-----------------------------------------------------------------------------
(* The thread runs its own code.                                           *)

NewFrame(k, closes) ==
  [ret |-> Code(calls + 1), site |-> calls + 1, kind |-> k,
   acts |-> IF k \in enabled THEN <<calls + 1>> ELSE <<>>,
   zones |-> <<>>, closes |-> closes]

\* The caller's open zones after it calls a function of kind k.
ZonesAfter(k, zones) ==
  IF k = "ZoneStart" THEN Append(zones, calls + 1)
  ELSE IF k = "ZoneStop" THEN Front(zones) ELSE zones

\* An OrbitStop that is not hooked leaves behind the timer of its zone; one
\* whose OrbitStart was not hooked stops the timer of the zone around it.
Torn(k, c) ==
  IF k = "ZoneStop"
    THEN {timers[i].session : i \in {j \in 1 .. Len(timers) : timers[j].call = c}}
  ELSE IF k = "ZoneStart" /\ zoneStack > 0
    THEN {timers[i].session : i \in 1 .. Len(timers)}
  ELSE {}

\* A call; "Plain" functions are never hooked.  ORBIT_SCOPE pairs the calls of
\* OrbitStart and OrbitStop in a frame.
Call(k) ==
  /\ ctl = "run" /\ calls < MaxCalls /\ Len(stack) < MaxFrames
  /\ IF stack = <<>> THEN k \notin {"ZoneStart", "ZoneStop"}
                     ELSE Last(stack).kind \notin LeafKinds
  /\ k = "ZoneStop" => Last(stack).zones # <<>>
  /\ LET closes == IF k = "ZoneStop" THEN Last(Last(stack).zones) ELSE 0
         caller == IF stack = <<>> THEN <<>>
                   ELSE [stack EXCEPT ![Len(stack)].zones =
                           ZonesAfter(k, Last(stack).zones)]
     IN  /\ stack' = Append(caller, NewFrame(k, closes))
         /\ torn' = IF k \in enabled THEN torn ELSE torn \cup Torn(k, closes)
  /\ calls' = calls + 1
  /\ ctl' = IF k \in enabled THEN "prolog" ELSE "run"
  /\ UNCHANGED <<target, tlsVars, captureVars, sent, landed, base>>

\* A small stub that redirects to a hooked function with a jmp: the function
\* finds the return address slot of the stub.
Jump(k) ==
  /\ ctl = "run" /\ calls < MaxCalls
  /\ k \in enabled \cap PopsTimer
  /\ stack # <<>>
  /\ Last(stack).zones = <<>> /\ Last(stack).kind \notin LeafKinds
  /\ stack' = [stack EXCEPT ![Len(stack)].kind = k,
                            ![Len(stack)].acts = Append(Last(stack).acts, calls + 1)]
  /\ calls' = calls + 1
  /\ ctl' = "prolog"
  /\ UNCHANGED <<target, tlsVars, captureVars, ghostVars>>

\* ret: control goes to what the slot holds.
Return ==
  /\ ctl = "run" /\ stack # <<>>
  /\ Last(stack).zones = <<>>
  /\ LET frame == Last(stack)
     IN  IF frame.ret[1] = "code"
           THEN /\ landed' = [at |-> frame.ret[2], site |-> frame.site]
                /\ stack' = Front(stack)
                /\ UNCHANGED <<ctl, target>>
           ELSE /\ ctl' = "epilog"
                /\ target' = frame.ret
                /\ UNCHANGED <<stack, landed>>
  /\ UNCHANGED <<calls, tlsVars, captureVars, sent, torn, base>>

-----------------------------------------------------------------------------
(* The prologs.                                                            *)

CurrentCall == Last(Last(stack).acts)
CurrentKind == Last(stack).kind

\* CheckTls, with CheckSessionId; PushContext; PushReturnAddress.
PrologEnter ==
  /\ ctl = "prolog" /\ ctl' = "prologBody"
  /\ tlsSession' = sessionID
  /\ IF tlsSession # sessionID
       THEN depth' = 0 /\ zoneStack' = 0 /\ base' = Len(timers)
       ELSE UNCHANGED <<depth, zoneStack, base>>
  /\ contexts' = IF CurrentKind \in TimedKinds THEN Append(contexts, CurrentCall)
                                               ELSE contexts
  /\ rets' = Append(rets, [slot |-> Len(stack), orig |-> Last(stack).ret,
                           kind |-> CurrentKind])
  /\ UNCHANGED <<stack, calls, target, timers, captureVars, sent, landed, torn>>

\* The timer, SendCallstack (in every prolog but OrbitStop's), Timer::Start;
\* back in the stub the return address is overwritten with the epilog.
PrologBody ==
  /\ ctl = "prologBody" /\ ctl' = "run"
  /\ zoneStack' = IF CurrentKind = "ZoneStart" THEN zoneStack + 1 ELSE zoneStack
  /\ IF CurrentKind \in TimedKinds
       THEN /\ timers' = Append(timers, [call |-> CurrentCall, depth |-> depth,
                                         session |-> sessionID])
            /\ depth' = depth + 1
       ELSE UNCHANGED <<timers, depth>>
  /\ LET walked == IF CurrentKind = "ZoneStop" THEN stack ELSE Walked
     IN  stack' = [walked EXCEPT ![Len(stack)].ret = Stub(CurrentKind)]
  /\ UNCHANGED <<calls, target, rets, contexts, tlsSession, captureVars, ghostVars>>

-----------------------------------------------------------------------------
(* The epilogs.                                                            *)

\* Mutant: Timer::Stop leaves the depth.
MutStopTimer(ended) ==
  /\ timers # <<>> /\ contexts # <<>>
  /\ depth' = depth
  /\ sent' = IF isRecording THEN [timer |-> Last(timers).call, ended |-> ended,
                                  session |-> Last(timers).session]
                            ELSE sent
  /\ timers' = Front(timers)
  /\ contexts' = Front(contexts)

\* timer.Stop, GTimerManager->Add, and the timer and its context are popped.
\* `ended' is the call that really ended.
StopTimer(ended) ==
  /\ timers # <<>> /\ contexts # <<>>
  /\ depth' = depth - 1
  /\ sent' = IF isRecording THEN [timer |-> Last(timers).call, ended |-> ended,
                                  session |-> Last(timers).session]
                            ELSE sent
  /\ timers' = Front(timers)
  /\ contexts' = Front(contexts)

\* Mutant: the oldest address is taken.
MutReturnTo ==
  /\ rets' = Front(rets)
  /\ LET address == rets[1].orig
         acts == Last(stack).acts
     IN  IF address[1] = "code"
           THEN /\ landed' = [at |-> address[2], site |-> Last(stack).site]
                /\ stack' = Front(stack)
                /\ ctl' = "run"
                /\ UNCHANGED target
           ELSE /\ target' = address
                /\ stack' = [stack EXCEPT ![Len(stack)].acts = Front(acts)]
                /\ UNCHANGED <<ctl, landed>>
  /\ UNCHANGED <<calls, tlsSession, captureVars, base>>

\* The original return address is popped, and control goes there: to the
\* caller, or to the epilog of the stub that jumped here.
ReturnTo ==
  /\ rets' = Front(rets)
  /\ LET address == Last(rets).orig
         acts == Last(stack).acts
     IN  IF address[1] = "code"
           THEN /\ landed' = [at |-> address[2], site |-> Last(stack).site]
                /\ stack' = Front(stack)
                /\ ctl' = "run"
                /\ UNCHANGED target
           ELSE /\ target' = address
                /\ stack' = [stack EXCEPT ![Len(stack)].acts = Front(acts)]
                /\ UNCHANGED <<ctl, landed>>
  /\ UNCHANGED <<calls, tlsSession, captureVars, base>>

\* Epilog and EpilogAlloc.
Epilog ==
  /\ ctl = "epilog" /\ rets # <<>> /\ target[1] \in PopsTimer
  /\ StopTimer(CurrentCall)
  /\ ReturnTo
  /\ UNCHANGED <<zoneStack, torn>>

\* Mutant: the epilog of OrbitStart stops the timer.
MutEpilogEmpty ==
  /\ ctl = "epilog" /\ rets # <<>>
  /\ target[1] \in {"ZoneStart", "OutputDbg", "SendData"}
  /\ IF target[1] = "ZoneStart" THEN StopTimer(CurrentCall)
                                ELSE UNCHANGED <<timers, contexts, depth, sent>>
  /\ ReturnTo
  /\ UNCHANGED <<zoneStack, torn>>

\* The epilog of OrbitStart leaves the timer for OrbitStop.
EpilogEmpty ==
  /\ ctl = "epilog" /\ rets # <<>>
  /\ target[1] \in {"ZoneStart", "OutputDbg", "SendData"}
  /\ ReturnTo
  /\ UNCHANGED <<timers, contexts, zoneStack, depth, sent, torn>>

\* Mutant: m_ZoneStack is not tested.
MutZoneStackIgnored ==
  /\ ctl = "epilog" /\ rets # <<>> /\ target[1] = "ZoneStop"
  /\ IF timers # <<>>
       THEN /\ StopTimer(Last(stack).closes)
            /\ zoneStack' = zoneStack - 1
            /\ UNCHANGED torn
       ELSE /\ torn' = torn \cup Torn("ZoneStop", Last(stack).closes)
            /\ UNCHANGED <<timers, contexts, zoneStack, depth, sent>>
  /\ ReturnTo

EpilogZoneStop ==
  /\ ctl = "epilog" /\ rets # <<>> /\ target[1] = "ZoneStop"
  /\ IF zoneStack > 0
       THEN /\ StopTimer(Last(stack).closes)
            /\ zoneStack' = zoneStack - 1
            /\ UNCHANGED torn
       ELSE /\ torn' = torn \cup Torn("ZoneStop", Last(stack).closes)
            /\ UNCHANGED <<timers, contexts, zoneStack, depth, sent>>
  /\ ReturnTo

-----------------------------------------------------------------------------
(* The network thread: Msg_NewSession, Msg_StartCapture, the hooks kind by *)
(* kind, Msg_StopCapture.                                                  *)

CaptureGoes(from, to) == phase = from /\ phase' = to
                         /\ UNCHANGED <<threadVars, tlsVars, ghostVars>>

NewSession ==
  /\ sessionID < MaxSessions
  /\ CaptureGoes("idle", "new")
  /\ sessionID' = sessionID + 1
  /\ UNCHANGED <<enabled, isRecording>>

OrbitStart ==
  /\ CaptureGoes("new", "capture")
  /\ isRecording' = TRUE
  /\ UNCHANGED <<sessionID, enabled>>

\* CreateHook and EnableHooks for one kind, after those before it.
EnableHooks(k) ==
  /\ CaptureGoes("capture", "capture")
  /\ k \in Kinds \ enabled
  /\ \A i, j \in 1 .. 8 :
       AllKinds[i] \in Kinds /\ AllKinds[j] = k /\ i < j => AllKinds[i] \in enabled
  /\ enabled' = enabled \cup {k}
  /\ UNCHANGED <<sessionID, isRecording>>

\* Orbit::Stop: StopClient, then DisableAllHooks.
OrbitStop ==
  /\ CaptureGoes("capture", "stopping")
  /\ isRecording' = FALSE
  /\ UNCHANGED <<sessionID, enabled>>

DisableAllHooks ==
  /\ CaptureGoes("stopping", "idle")
  /\ enabled' = {}
  /\ UNCHANGED <<sessionID, isRecording>>

Thread == \/ \E k \in Kinds \cup {"Plain"} : Call(k)
          \/ \E k \in Kinds : Jump(k)
          \/ Return
          \/ PrologEnter \/ PrologBody
          \/ Epilog \/ EpilogEmpty \/ EpilogZoneStop

Network == NewSession \/ OrbitStart \/ (\E k \in Kinds : EnableHooks(k))
           \/ OrbitStop \/ DisableAllHooks

Next == Thread \/ Network

Spec == Init /\ [][Next]_vars

-----------------------------------------------------------------------------
(* Properties.                                                             *)

\* A hooked function returns to its caller, however hooks, stubs, zones and
\* captures interleave with its calls.
ReturnsToCaller == landed.at = landed.site

\* While SendCallstack walks the stack, every frame of the thread shows its
\* true return address, and afterwards the memory is as before.
WalkSeesCallers ==
  ctl = "prologBody" =>
    \A s \in 1 .. Len(stack) : /\ OriginalAddress(s) = Code(stack[s].site)
                               /\ OverridenAddress(s) = stack[s].ret

\* An epilog finds what it pops; m_Timers and m_Contexts, popped together,
\* hold the same calls.
NeverPopsEmpty ==
  /\ ctl = "epilog" => rets # <<>>
  /\ ctl = "epilog" /\ target[1] \in PopsTimer => timers # <<>>
  /\ ctl = "epilog" /\ target[1] = "ZoneStop" /\ zoneStack > 0 => timers # <<>>
  /\ ctl # "prologBody" => contexts = [i \in 1 .. Len(timers) |-> timers[i].call]

\* A thread that has left all functions has no return address on record and,
\* unless a zone of the session was hooked on one side, neither a timer of the
\* session nor a zone that m_ZoneStack still counts.
LeavesNothing ==
  stack = <<>> =>
    /\ rets = <<>>
    /\ sessionID \notin torn =>
         /\ \A i \in 1 .. Len(timers) : timers[i].session # sessionID
         /\ tlsSession = sessionID => zoneStack = 0

\* What prologs push is what epilogs pop.
PushesMatchPops == NeverPopsEmpty /\ LeavesNothing

\* A timer that the user interface will accept, because its session is the
\* current one, measures the call or the zone that really ended, unless a
\* zone was open in that session of whose OrbitStart and OrbitStop, or of an
\* inner zone's, only one was hooked (the hooks come and go one kind at a time).
SentFaithful ==
  sent.session = sessionID /\ sent.session \notin torn => sent.timer = sent.ended

\* CurrentDepth is the nesting of the open timers for a thread that had none
\* open when the session was noticed; otherwise it is that much too small.
DepthIsNesting ==
  /\ depth = Len(timers) - base
  /\ base = 0 => \A i \in 1 .. Len(timers) : timers[i].depth = i - 1

=============================================================================
