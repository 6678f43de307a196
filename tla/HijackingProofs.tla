--------------------------- MODULE HijackingProofs ---------------------------
(***************************************************************************)
(* Proofs about Hijacking, for any kinds of hook, depth of the stack and   *)
(* number of calls and captures: hooked functions return to their callers, *)
(* the stack walk sees the true stack, epilogs find what they pop, the     *)
(* depth of a timer is its nesting, and a timer measures the call or the   *)
(* zone that really ended.                                                 *)
(*                                                                         *)
(* The records lie in the order of their frames.  Those of one frame form  *)
(* a chain from the address the caller left in the return address slot,    *)
(* through the epilog stubs of the hooks that ran in it, to the stub the   *)
(* slot holds now.  The calls and zones that are open nest along the       *)
(* stack, and the timers of the session are those of the newest of them;   *)
(* so the last timer is of what an epilog ends.                            *)
(***************************************************************************)
EXTENDS Hijacking, FiniteSetTheorems, SequenceTheorems, TLAPS

(* The state.                                                              *)

Addresses == ({"code"} \X Nat) \cup (KindSet \X {0})
Frames == [ret : Addresses, site : Nat, kind : KindSet \cup {"Plain"},
           acts : Seq(Nat), zones : Seq(Nat), closes : Nat]
Records == [slot : Nat, orig : Addresses, kind : KindSet]

TypeOK ==
  /\ stack \in Seq(Frames) /\ calls \in Nat
  /\ ctl \in {"run", "prolog", "prologBody", "epilog"}
  /\ rets \in Seq(Records) /\ contexts \in Seq(Nat)
  /\ timers \in Seq([call : Nat, depth : Int, session : Nat])
  /\ zoneStack \in Nat /\ depth \in Int /\ base \in Nat
  /\ sessionID \in Nat /\ enabled \subseteq Kinds

\* A prolog runs in a hooked function.
Entering == ctl \in {"prolog", "prologBody"} =>
  stack # <<>> /\ Last(stack).acts # <<>> /\ Last(stack).kind \in KindSet

\* The records are of frames of the stack, oldest frame first.
Placed ==
  /\ \A i \in 1 .. Len(rets) : rets[i].slot \in 1 .. Len(stack)
  /\ \A i, j \in 1 .. Len(rets) : i <= j => rets[i].slot <= rets[j].slot

\* The records of a frame form a chain: the first holds the address its caller
\* left, each other one the epilog stub of the one before.
Chained == \A i \in 1 .. Len(rets) :
  rets[i].orig = IF Writes(i) THEN Code(stack[rets[i].slot].site)
                              ELSE Stub(rets[i - 1].kind)

\* Each chain has such a first record.
Rooted == \A i \in 1 .. Len(rets) :
  \E j \in 1 .. i : rets[j].slot = rets[i].slot /\ Writes(j)

\* The slot of a frame without records is as its caller left it; that of
\* another holds the stub of its last record.  Between the two halves of a
\* prolog and in an epilog the top slot is behind.
Held == \A s \in 1 .. Len(stack) : ctl \in {"run", "prolog"} \/ s # Len(stack) =>
  /\ (\A i \in 1 .. Len(rets) : rets[i].slot # s) => stack[s].ret = Code(stack[s].site)
  /\ \A i \in 1 .. Len(rets) :
       rets[i].slot = s /\ (i = Len(rets) \/ rets[i + 1].slot # s) =>
         stack[s].ret = Stub(rets[i].kind)

\* What the record on top says while a prolog or an epilog runs
AtTop ==
  /\ ctl = "prologBody" =>
       /\ rets # <<>> /\ Last(rets).slot = Len(stack)
       /\ Last(rets).orig = Last(stack).ret /\ Last(rets).kind = Last(stack).kind
  /\ ctl = "epilog" =>
       rets # <<>> /\ Last(rets).slot = Len(stack) /\ target = Stub(Last(rets).kind)

\* Every open record whose epilog will pop a timer has one, and every zone
\* that OrbitStop will close.
Popping == {i \in 1 .. Len(rets) : rets[i].kind \in PopsTimer}
Pushing == IF ctl = "prologBody" /\ Last(rets).kind \in PopsTimer THEN 1 ELSE 0
Enough  == Len(timers) + Pushing >= Cardinality(Popping) + zoneStack

\* m_Contexts is pushed in the first half of a prolog, m_Timers in the second.
CallsOf(q) == [i \in 1 .. Len(q) |-> q[i].call]
InStep ==
  contexts = IF ctl = "prologBody" /\ Last(rets).kind \in TimedKinds
               THEN Append(CallsOf(timers), CurrentCall) ELSE CallsOf(timers)

Chain == Placed /\ Chained /\ Rooted /\ Held /\ AtTop

IInv == /\ TypeOK /\ Entering /\ Chain
        /\ Enough /\ InStep /\ ReturnsToCaller /\ DepthIsNesting

-----------------------------------------------------------------------------
(* Sequences and addresses.                                                *)

LEMMA KindNames ==
  /\ KindSet = {"Func", "ZoneStart", "ZoneStop", "OutputDbg", "UnrealActor",
                "Alloc", "Free", "SendData"}
  /\ "code" \notin KindSet
<1>1. AllKinds = <<"Func", "ZoneStart", "ZoneStop", "OutputDbg", "UnrealActor",
                   "Alloc", "Free", "SendData">>
  BY DEF AllKinds
<1>2. /\ AllKinds[1] = "Func" /\ AllKinds[2] = "ZoneStart"
      /\ AllKinds[3] = "ZoneStop" /\ AllKinds[4] = "OutputDbg"
      /\ AllKinds[5] = "UnrealActor" /\ AllKinds[6] = "Alloc"
      /\ AllKinds[7] = "Free" /\ AllKinds[8] = "SendData"
  BY <1>1
<1>3. 1 .. 8 = {1, 2, 3, 4, 5, 6, 7, 8}
  OBVIOUS
<1>4. KindSet = {AllKinds[1], AllKinds[2], AllKinds[3], AllKinds[4], AllKinds[5],
                 AllKinds[6], AllKinds[7], AllKinds[8]}
  BY <1>3 DEF KindSet
<1> QED BY <1>2, <1>4

LEMMA FrontKeeps ==
  ASSUME NEW S, NEW q \in Seq(S)
  PROVE  Front(q) \in Seq(S)
BY DEF Front

LEMMA FrontFacts ==
  ASSUME NEW S, NEW q \in Seq(S), q # <<>>
  PROVE  /\ Front(q) \in Seq(S) /\ Len(q) \in Nat \ {0} /\ Last(q) \in S
         /\ Len(Front(q)) = Len(q) - 1
         /\ \A i \in 1 .. Len(q) - 1 : Front(q)[i] = q[i]
<1>1. Len(q) \in Nat \ {0} /\ Last(q) \in S
  BY DEF Last
<1>2. Front(q) \in Seq(S)
  BY FrontKeeps
<1>3. Len(Front(q)) = Len(q) - 1
  <2>1. Len(q) - 1 \in Int /\ \A i \in 1 .. Len(q) - 1 : q[i] \in S
    BY <1>1
  <2>2. Len(SubSeq(q, 1, Len(q) - 1)) =
          IF 1 <= Len(q) - 1 THEN (Len(q) - 1) - 1 + 1 ELSE 0
    BY <2>1, SubSeqProperties
  <2>3. \A n \in Nat \ {0} : (IF 1 <= n - 1 THEN (n - 1) - 1 + 1 ELSE 0) = n - 1
    OBVIOUS
  <2> QED BY <1>1, <2>2, <2>3, Zenon DEF Front
<1>4. ASSUME NEW i \in 1 .. Len(q) - 1 PROVE Front(q)[i] = q[i]
  BY <1>1 DEF Front
<1> QED BY <1>1, <1>2, <1>3, <1>4

LEMMA StubFacts ==
  ASSUME NEW k \in KindSet
  PROVE  Stub(k) \in Addresses /\ Stub(k)[1] = k /\ Stub(k)[1] # "code"
BY KindNames DEF Addresses, Stub

LEMMA CodeFacts ==
  ASSUME NEW n \in Nat
  PROVE  Code(n) \in Addresses /\ Code(n)[1] = "code" /\ Code(n)[2] = n
BY DEF Addresses, Code

-----------------------------------------------------------------------------
(* The chain of the records.                                               *)

LEMMA RecordFacts ==
  ASSUME TypeOK
  PROVE  /\ Len(rets) \in Nat /\ Len(stack) \in Nat
         /\ \A i \in 1 .. Len(rets) : /\ rets[i] \in Records /\ rets[i].slot \in Nat
                                       /\ rets[i].orig \in Addresses
                                       /\ rets[i].kind \in KindSet
         /\ \A s \in 1 .. Len(stack) : /\ stack[s] \in Frames /\ stack[s].site \in Nat
                                        /\ stack[s].ret \in Addresses
<1>1. rets \in Seq(Records) /\ stack \in Seq(Frames)
  BY DEF TypeOK
<1>2. /\ \A i \in 1 .. Len(rets) : rets[i] \in Records
      /\ \A s \in 1 .. Len(stack) : stack[s] \in Frames
      /\ Len(rets) \in Nat /\ Len(stack) \in Nat
  BY <1>1
<1>3. \A r \in Records : r.slot \in Nat /\ r.orig \in Addresses /\ r.kind \in KindSet
  BY DEF Records
<1>4. \A f \in Frames : f.site \in Nat /\ f.ret \in Addresses
  BY DEF Frames
<1> QED BY <1>2, <1>3, <1>4

\* Frames join, or the top one changes its function: Call and Jump.
LEMMA GrowKeeps ==
  ASSUME TypeOK, Chain, ctl = "run", ctl' \in {"run", "prolog"}, rets' = rets,
         Len(stack') \in Nat, Len(stack') >= Len(stack),
         \A s \in 1 .. Len(stack) :
           stack'[s].ret = stack[s].ret /\ stack'[s].site = stack[s].site,
         \A s \in 1 .. Len(stack') :
           s \notin 1 .. Len(stack) => stack'[s].ret = Code(stack'[s].site)
  PROVE  Chain'
<1>1. Len(rets) \in Nat /\ Len(stack) \in Nat
  BY RecordFacts
<1>2. 1 .. Len(stack) \subseteq 1 .. Len(stack')
  BY <1>1
<1>3. Placed'
  BY <1>1, <1>2 DEF Chain, Placed
<1>4. Chained'
  BY <1>2 DEF Chain, Placed, Chained, Writes
<1>7. Rooted'
  BY DEF Chain, Rooted, Writes
<1>5. Held'
  BY <1>2 DEF Chain, Placed, Held
<1>6. AtTop'
  BY DEF AtTop
<1> QED BY <1>3, <1>4, <1>5, <1>6, <1>7 DEF Chain

\* The newest record is of the top frame, or that frame has none.
LEMMA TopRecord ==
  ASSUME TypeOK, Chain, stack # <<>>
  PROVE  \/ /\ rets # <<>> /\ Len(rets) \in 1 .. Len(rets)
            /\ rets[Len(rets)].slot = Len(stack)
         \/ \A i \in 1 .. Len(rets) : rets[i].slot \in 1 .. Len(stack) - 1
<1>1. Len(rets) \in Nat /\ Len(stack) \in Nat
  BY RecordFacts
<1>2. ASSUME NEW i \in 1 .. Len(rets), rets[i].slot = Len(stack)
      PROVE  /\ rets # <<>> /\ Len(rets) \in 1 .. Len(rets)
             /\ rets[Len(rets)].slot = Len(stack)
  <2>1. Len(rets) \in 1 .. Len(rets) /\ i <= Len(rets)
    BY <1>1
  <2>2. rets[i].slot <= rets[Len(rets)].slot /\ rets[Len(rets)].slot \in 1 .. Len(stack)
    BY <2>1 DEF Chain, Placed
  <2>3. rets # <<>>
    BY <2>1
  <2> QED BY <1>1, <1>2, <2>1, <2>2, <2>3
<1>3. \A i \in 1 .. Len(rets) : rets[i].slot \in 1 .. Len(stack)
  BY DEF Chain, Placed
<1> QED BY <1>1, <1>2, <1>3

\* What the walk finds: each frame has one record that is written.
LEMMA WalkFinds ==
  ASSUME TypeOK, Chain, NEW s \in 1 .. Len(stack)
  PROVE  \/ /\ WritersOf(s) = {}
            /\ \A i \in 1 .. Len(rets) : rets[i].slot # s
         \/ \E i \in 1 .. Len(rets) :
              /\ WritersOf(s) = {i} /\ rets[i].slot = s
              /\ rets[i].orig = Code(stack[s].site)
<1>1. /\ Len(rets) \in Nat
      /\ \A i \in 1 .. Len(rets) : rets[i].slot \in Nat
  BY RecordFacts
<1>2. ASSUME NEW i \in 1 .. Len(rets), rets[i].slot = s
      PROVE  \E j \in 1 .. Len(rets) : rets[j].slot = s /\ Writes(j)
  <2>1. PICK j \in 1 .. i : rets[j].slot = s /\ Writes(j)
    BY <1>2 DEF Chain, Rooted
  <2> QED BY <1>1, <2>1
<1>3. ASSUME NEW i \in WritersOf(s), NEW j \in WritersOf(s), i < j
      PROVE  FALSE
  <2>1. /\ i \in 1 .. Len(rets) /\ j \in 1 .. Len(rets) /\ rets[i].slot = s
        /\ rets[j].slot = s /\ rets[j].slot # rets[j - 1].slot
    BY <1>3 DEF WritersOf, Writes
  <2>2. j - 1 \in 1 .. Len(rets) /\ i <= j - 1 /\ j - 1 <= j
    BY <1>1, <1>3, <2>1
  <2>3. rets[i].slot <= rets[j - 1].slot /\ rets[j - 1].slot <= rets[j].slot
    BY <2>1, <2>2 DEF Chain, Placed
  <2> QED BY <1>1, <2>1, <2>2, <2>3
<1>4. \A i, j \in WritersOf(s) : i = j
  <2>1. WritersOf(s) \subseteq Nat
    BY <1>1 DEF WritersOf
  <2> QED BY <1>3, <2>1
<1>5. \A i \in WritersOf(s) : /\ i \in 1 .. Len(rets) /\ rets[i].slot = s
                               /\ rets[i].orig = Code(stack[s].site)
  BY DEF WritersOf, Chain, Chained
<1>6. CASE WritersOf(s) = {}
  BY <1>2, <1>6 DEF WritersOf
<1>7. ASSUME NEW i \in WritersOf(s) PROVE WritersOf(s) = {i}
  BY <1>4
<1> QED BY <1>5, <1>6, <1>7

\* PrologEnter records what the slot holds.
LEMMA PushKeeps ==
  ASSUME TypeOK, Chain, stack # <<>>, ctl = "prolog", ctl' = "prologBody",
         stack' = stack, Last(stack).kind \in KindSet,
         rets' = Append(rets, [slot |-> Len(stack), orig |-> Last(stack).ret,
                               kind |-> Last(stack).kind])
  PROVE  Chain'
<1> DEFINE n == Len(rets)
           L == Len(stack)
           W(i) == i = 1 \/ rets'[i].slot # rets'[i - 1].slot
<1>1. /\ n \in Nat /\ L \in Nat \ {0} /\ L \in 1 .. L
      /\ \A i \in 1 .. n : rets[i].slot \in 1 .. L
      /\ \A i, j \in 1 .. n : i <= j => rets[i].slot <= rets[j].slot
  BY RecordFacts DEF Chain, Placed
<1>2. /\ Len(rets') = n + 1
      /\ \A i \in 1 .. n : rets'[i] = rets[i]
      /\ rets'[n + 1].slot = L /\ rets'[n + 1].orig = stack[L].ret
      /\ rets'[n + 1].kind = stack[L].kind
  <2> DEFINE r == [slot |-> L, orig |-> Last(stack).ret, kind |-> Last(stack).kind]
  <2>1. rets \in Seq(Records) /\ rets' = Append(rets, r)
    BY DEF TypeOK
  <2>2. r.slot = L /\ r.orig = stack[L].ret /\ r.kind = stack[L].kind
    BY DEF Last
  <2> HIDE DEF r, L
  <2>3. Len(rets') = n + 1 /\ rets'[n + 1] = r /\ \A i \in 1 .. n : rets'[i] = rets[i]
    BY <2>1
  <2> QED BY <2>2, <2>3
<1>3. /\ 1 .. Len(rets') = 1 .. n \cup {n + 1} /\ n + 1 \in Nat
      /\ \A i \in 1 .. n : i <= n /\ ~(n + 1 <= i) /\ i # n + 1
      /\ \A i \in 1 .. n : i # 1 => i - 1 \in 1 .. n
  BY <1>1, <1>2
<1> HIDE DEF n, L
<1>4. \A i \in 1 .. n : W(i) <=> Writes(i)
  BY <1>2, <1>3 DEF Writes
<1>5. W(n + 1) <=> n = 0 \/ rets[n].slot # L
  <2>1. (n + 1) - 1 = n /\ (n + 1 = 1 <=> n = 0) /\ (n # 0 => n \in 1 .. n)
    BY <1>1
  <2>2. W(n + 1) <=> n + 1 = 1 \/ L # rets'[n].slot
    BY <1>2, <2>1
  <2> QED BY <1>2, <2>1, <2>2
<1> HIDE DEF W
<1>6. Placed'
  BY <1>1, <1>2, <1>3 DEF Placed, L
<1>7. Chained'
  <2>1. ASSUME NEW i \in 1 .. n
        PROVE  rets'[i].orig = IF W(i) THEN Code(stack'[rets'[i].slot].site)
                                             ELSE Stub(rets'[i - 1].kind)
    <3>1. ~Writes(i) => i - 1 \in 1 .. n
      BY <1>3 DEF Writes
    <3> QED BY <1>2, <1>4, <3>1 DEF Chain, Chained, n
  <2>2. CASE n = 0 \/ rets[n].slot # L
    <3>1. \A i \in 1 .. n : rets[i].slot # L
      BY <1>1, <1>3, <2>2, TopRecord DEF n, L
    <3>2. stack[L].ret = Code(stack[L].site)
      BY <1>1, <3>1 DEF Chain, Held, n, L
    <3>3. rets'[n + 1].orig = Code(stack'[rets'[n + 1].slot].site) /\ W(n + 1)
      BY <1>2, <1>5, <2>2, <3>2
    <3> QED BY <1>3, <2>1, <3>3 DEF Chained, Writes, W
  <2>3. CASE n # 0 /\ rets[n].slot = L
    <3>1. n \in 1 .. n /\ (n + 1) - 1 = n
      BY <1>1, <2>3
    <3>2. stack[L].ret = Stub(rets[n].kind)
      BY <1>1, <2>3, <3>1 DEF Chain, Held, n, L
    <3>3. rets'[n + 1].orig = Stub(rets'[(n + 1) - 1].kind) /\ ~W(n + 1)
      BY <1>2, <1>5, <2>3, <3>1, <3>2
    <3> QED BY <1>3, <2>1, <3>3 DEF Chained, Writes, W
  <2> QED BY <2>2, <2>3
<1>8. Rooted'
  <2>1. ASSUME NEW i \in 1 .. n
        PROVE  \E j \in 1 .. i : rets'[j].slot = rets'[i].slot /\ W(j)
    <3>1. PICK j \in 1 .. i : rets[j].slot = rets[i].slot /\ Writes(j)
      BY DEF Chain, Rooted, n
    <3>2. j \in 1 .. n
      BY <1>1
    <3> QED BY <1>2, <1>4, <3>1, <3>2
  <2>2. \E j \in 1 .. n + 1 : rets'[j].slot = rets'[n + 1].slot /\ W(j)
    <3>1. CASE n = 0 \/ rets[n].slot # L
      <4>1. n + 1 \in 1 .. n + 1
        BY <1>1
      <4>2. W(n + 1)
        BY <1>5, <3>1
      <4> QED BY <4>1, <4>2
    <3>2. CASE n # 0 /\ rets[n].slot = L
      <4>1. n \in 1 .. n /\ 1 .. n \subseteq 1 .. n + 1
        BY <1>1, <3>2
      <4>2. PICK j \in 1 .. n : rets'[j].slot = rets'[n].slot /\ W(j)
        BY <2>1, <4>1
      <4> QED BY <1>2, <3>2, <4>1, <4>2
    <3> QED BY <3>1, <3>2
  <2> QED BY <1>3, <2>1, <2>2 DEF Rooted, Writes, W
<1>9. Held'
  <2> SUFFICES ASSUME NEW s \in 1 .. L, s # L
               PROVE  /\ (\A i \in 1 .. n + 1 : rets'[i].slot # s) =>
                            stack[s].ret = Code(stack[s].site)
                      /\ \A i \in 1 .. n + 1 :
                           rets'[i].slot = s /\ (i = n + 1 \/ rets'[i + 1].slot # s) =>
                             stack[s].ret = Stub(rets'[i].kind)
    BY <1>2 DEF Held, L
  <2>1. (\A i \in 1 .. n + 1 : rets'[i].slot # s) => stack[s].ret = Code(stack[s].site)
    BY <1>1, <1>2, <1>3 DEF Chain, Held, n, L
  <2>2. ASSUME NEW i \in 1 .. n + 1, rets'[i].slot = s,
               i = n + 1 \/ rets'[i + 1].slot # s
        PROVE  stack[s].ret = Stub(rets'[i].kind)
    <3>1. i \in 1 .. n
      BY <1>2, <1>3, <2>2
    <3>2. i # n => i + 1 \in 1 .. n
      BY <1>1, <3>1
    <3> QED BY <1>2, <2>2, <3>1, <3>2 DEF Chain, Held, n, L
  <2> QED BY <2>1, <2>2
<1>10. AtTop'
  <2>1. rets' # <<>> /\ Last(rets)' = rets'[n + 1] /\ Last(stack) = stack[L]
    BY <1>1, <1>2 DEF Last, L
  <2> QED BY <1>2, <2>1 DEF AtTop, L, Last
<1> QED BY <1>6, <1>7, <1>8, <1>9, <1>10 DEF Chain

\* Only the top slot changes: PrologBody and a Return that finds a stub.
LEMMA TopKeeps ==
  ASSUME TypeOK, Chain, stack # <<>>, rets' = rets, Len(stack') = Len(stack),
         \A s \in 1 .. Len(stack) : stack'[s].site = stack[s].site,
         \A s \in 1 .. Len(stack) : s # Len(stack) => stack'[s].ret = stack[s].ret,
         rets # <<>>, rets[Len(rets)].slot = Len(stack),
         \/ ctl' = "run" /\ stack'[Len(stack)].ret = Stub(rets[Len(rets)].kind)
         \/ ctl' = "epilog" /\ target' = Stub(rets[Len(rets)].kind)
  PROVE  Chain'
<1> DEFINE n == Len(rets)
           L == Len(stack)
<1>1. /\ n \in Nat /\ L \in Nat
      /\ \A i \in 1 .. n : rets[i].slot \in 1 .. L
      /\ \A i, j \in 1 .. n : i <= j => rets[i].slot <= rets[j].slot
  BY RecordFacts DEF Chain, Placed
<1>2. \A i \in 1 .. n : rets[i].slot = L => i = n \/ rets[i + 1].slot = L
  <2> HIDE DEF n, L
  <2> TAKE i \in 1 .. n
  <2>1. i # n => i + 1 \in 1 .. n /\ i <= i + 1
    BY <1>1
  <2> QED BY <1>1, <2>1
<1>3. Placed' /\ Chained' /\ Rooted'
  BY DEF Chain, Placed, Chained, Rooted, Writes
<1>4. Held'
  <2>1. ASSUME NEW s \in 1 .. L, s # L
        PROVE  /\ (\A i \in 1 .. n : rets[i].slot # s) => stack[s].ret = Code(stack[s].site)
               /\ \A i \in 1 .. n : rets[i].slot = s /\ (i = n \/ rets[i + 1].slot # s) =>
                    stack[s].ret = Stub(rets[i].kind)
    BY <2>1 DEF Chain, Held
  <2>2. n \in 1 .. n
    BY <1>1
  <2>3. CASE ctl' = "epilog"
    BY <2>1, <2>3 DEF Held
  <2>4. CASE ctl' = "run"
    <3>1. stack'[L].ret = Stub(rets[n].kind)
      BY <2>4
    <3>2. \A i \in 1 .. n : rets[i].slot = L /\ (i = n \/ rets[i + 1].slot # L) => i = n
      BY <1>2
    <3>3. ~\A i \in 1 .. n : rets[i].slot # L
      BY <2>2
    <3> QED BY <2>1, <3>1, <3>2, <3>3 DEF Held
  <2> QED BY <2>3, <2>4
<1>5. AtTop'
  BY DEF AtTop, Last
<1> QED BY <1>3, <1>4, <1>5 DEF Chain

\* A frame without a record is left.
LEMMA LeaveKeeps ==
  ASSUME TypeOK, Chain, stack # <<>>, ctl = "run", ctl' = "run", rets' = rets,
         \A i \in 1 .. Len(rets) : rets[i].slot \in 1 .. Len(stack) - 1,
         stack' = Front(stack)
  PROVE  Chain'
<1>1. /\ Len(stack) \in Nat \ {0} /\ Len(stack') = Len(stack) - 1
      /\ \A s \in 1 .. Len(stack) - 1 : stack'[s] = stack[s]
  BY FrontFacts DEF TypeOK
<1>2. 1 .. Len(stack) - 1 \subseteq 1 .. Len(stack)
  BY <1>1
<1>3. Placed' /\ Chained' /\ Rooted'
  <2>1. Placed'
    BY <1>1 DEF Chain, Placed
  <2>2. \A i \in 1 .. Len(rets) :
           Writes(i)' = Writes(i) /\ stack'[rets[i].slot] = stack[rets[i].slot]
    BY <1>1 DEF Writes
  <2>3. Chained'
    BY <2>2 DEF Chain, Chained
  <2>4. Rooted'
    BY DEF Chain, Rooted, Writes
  <2> QED BY <2>1, <2>3, <2>4
<1>4. Held'
  <2> SUFFICES ASSUME NEW s \in 1 .. Len(stack) - 1
               PROVE  /\ (\A i \in 1 .. Len(rets) : rets[i].slot # s) =>
                            stack[s].ret = Code(stack[s].site)
                      /\ \A i \in 1 .. Len(rets) :
                           rets[i].slot = s /\ (i = Len(rets) \/ rets[i + 1].slot # s) =>
                             stack[s].ret = Stub(rets[i].kind)
    BY <1>1 DEF Held
  <2> QED BY <1>2 DEF Chain, Held
<1>5. AtTop'
  BY DEF AtTop
<1> QED BY <1>3, <1>4, <1>5 DEF Chain

\* The record on top is popped.
LEMMA PopKeeps ==
  ASSUME TypeOK, Chain, ctl = "epilog", rets' = Front(rets),
         \/ /\ Last(rets).orig[1] = "code" /\ ctl' = "run"
            /\ stack' = Front(stack)
         \/ /\ Last(rets).orig[1] # "code" /\ ctl' = "epilog"
            /\ target' = Last(rets).orig /\ Len(stack') = Len(stack)
            /\ \A s \in 1 .. Len(stack) :
                 stack'[s].site = stack[s].site /\ stack'[s].ret = stack[s].ret
  PROVE  Chain'
<1> DEFINE n == Len(rets)
           L == Len(stack)
<1>1. /\ n \in Nat \ {0} /\ L \in Nat \ {0} /\ n \in 1 .. n
      /\ \A i \in 1 .. n : rets[i].slot \in 1 .. L
      /\ \A i, j \in 1 .. n : i <= j => rets[i].slot <= rets[j].slot
      /\ rets[n].slot = L /\ Last(rets) = rets[n]
  <2>1. rets # <<>> /\ Last(rets).slot = L
    BY DEF Chain, AtTop
  <2>2. n \in Nat \ {0} /\ n \in 1 .. n
    BY <2>1 DEF TypeOK
  <2>3. L \in Nat
    BY RecordFacts
  <2>4. \A i \in 1 .. n : rets[i].slot \in 1 .. L
    BY DEF Chain, Placed
  <2>5. L \in 1 .. L
    BY <2>1, <2>2, <2>4 DEF Last
  <2> QED BY <2>1, <2>2, <2>3, <2>4, <2>5 DEF Last, Chain, Placed
<1>2. /\ Len(rets') = n - 1
      /\ \A i \in 1 .. n - 1 : rets'[i] = rets[i]
  <2>1. rets \in Seq(Records) /\ rets # <<>>
    BY DEF TypeOK, Chain, AtTop
  <2> QED BY <2>1, FrontFacts
<1> HIDE DEF n, L
<1>3. /\ 1 .. n - 1 \subseteq 1 .. n /\ \A i \in 1 .. n - 1 : i # n
      /\ \A i \in 1 .. n - 1 : i # n - 1 => i + 1 \in 1 .. n - 1
      /\ \A i \in 1 .. n : i # n => i \in 1 .. n - 1
      /\ \A i \in 1 .. n - 1 : i # 1 => i - 1 \in 1 .. n - 1
      /\ \A i \in 1 .. n - 1 : 1 .. i \subseteq 1 .. n - 1
      /\ n # 1 => n - 1 \in 1 .. n - 1
      /\ (n - 1) + 1 = n
  BY <1>1
<1>4. /\ Writes(n) => rets[n].orig = Code(stack[L].site)
      /\ ~Writes(n) => /\ n - 1 \in 1 .. n - 1 /\ rets[n - 1].slot = L
                       /\ rets[n].orig = Stub(rets[n - 1].kind)
  BY <1>1, <1>3 DEF Chain, Chained, Writes, n
<1>5. Writes(n) <=> rets[n].orig[1] = "code"
  <2>1. stack[L].site \in Nat /\ \A i \in 1 .. n : rets[i].kind \in KindSet
    BY <1>1, RecordFacts DEF n, L
  <2>2. ~Writes(n) => rets[n - 1].kind \in KindSet
    BY <1>3, <1>4, <2>1
  <2> QED BY <1>4, <2>1, <2>2, StubFacts, CodeFacts
<1> DEFINE W(i) == i = 1 \/ rets'[i].slot # rets'[i - 1].slot
<1>6. \A i \in 1 .. n - 1 : W(i) <=> Writes(i)
  BY <1>2, <1>3 DEF Writes
<1> HIDE DEF W
<1>7. Rooted'
  <2>1. ASSUME NEW i \in 1 .. n - 1
        PROVE  \E j \in 1 .. i : rets'[j].slot = rets'[i].slot /\ W(j)
    <3>1. PICK j \in 1 .. i : rets[j].slot = rets[i].slot /\ Writes(j)
      BY <1>3 DEF Chain, Rooted, n
    <3> QED BY <1>2, <1>3, <1>6, <3>1
  <2> QED BY <1>2, <2>1 DEF Rooted, Writes, W
<1>8. ASSUME NEW s \in 1 .. L, s # L
      PROVE  /\ (\A i \in 1 .. n - 1 : rets'[i].slot # s) =>
                   stack[s].ret = Code(stack[s].site)
             /\ \A i \in 1 .. n - 1 :
                  rets'[i].slot = s /\ (i = n - 1 \/ rets'[i + 1].slot # s) =>
                    stack[s].ret = Stub(rets'[i].kind)
  <2>1. (\A i \in 1 .. n - 1 : rets[i].slot # s) => stack[s].ret = Code(stack[s].site)
    BY <1>1, <1>3, <1>8 DEF Chain, Held, n, L
  <2>2. ASSUME NEW i \in 1 .. n - 1, rets[i].slot = s,
               i = n - 1 \/ rets[i + 1].slot # s
        PROVE  stack[s].ret = Stub(rets[i].kind)
    <3>1. i \in 1 .. n /\ rets[i + 1].slot # s
      BY <1>1, <1>3, <1>8, <2>2
    <3> QED BY <1>8, <2>2, <3>1 DEF Chain, Held, n, L
  <2> QED BY <1>2, <1>3, <2>1, <2>2
<1>9. CASE Writes(n)
  <2>1. /\ ctl' = "run" /\ Len(stack') = L - 1
        /\ \A s \in 1 .. L - 1 : stack'[s] = stack[s] /\ s \in 1 .. L /\ s # L
    <3>1. ctl' = "run" /\ stack' = Front(stack)
      BY <1>1, <1>5, <1>9
    <3>2. stack \in Seq(Frames) /\ stack # <<>>
      BY <1>1 DEF TypeOK, L
    <3>3. Len(stack') = L - 1 /\ \A s \in 1 .. L - 1 : stack'[s] = stack[s]
      BY <3>1, <3>2, FrontFacts DEF L
    <3>4. \A s \in 1 .. L - 1 : s \in 1 .. L /\ s # L
      BY <1>1
    <3> QED BY <3>1, <3>3, <3>4
  <2>2. \A i \in 1 .. n - 1 : rets[i].slot \in 1 .. L - 1
    <3> TAKE i \in 1 .. n - 1
    <3>1. rets[i].slot # L
      <4> SUFFICES ASSUME rets[i].slot = L PROVE FALSE
        OBVIOUS
      <4>1. n # 1 /\ i <= n - 1 /\ n - 1 <= n /\ i \in 1 .. n /\ n - 1 \in 1 .. n
        BY <1>1
      <4>2. rets[i].slot <= rets[n - 1].slot /\ rets[n - 1].slot \in 1 .. L
        BY <1>1, <4>1
      <4>3. rets[n - 1].slot = L
        BY <1>1, <4>2
      <4> QED BY <1>1, <1>9, <4>1, <4>3 DEF Writes
    <3> QED BY <1>1, <1>3, <3>1
  <2>3. Placed'
    BY <1>1, <1>2, <1>3, <2>1, <2>2 DEF Placed
  <2>4. Chained'
    <3>1. ASSUME NEW i \in 1 .. n - 1
          PROVE  rets'[i].orig = IF W(i) THEN Code(stack'[rets'[i].slot].site)
                                         ELSE Stub(rets'[i - 1].kind)
      <4>1. ~Writes(i) => i - 1 \in 1 .. n - 1
        BY <1>3 DEF Writes
      <4>2. rets[i].orig = IF Writes(i) THEN Code(stack[rets[i].slot].site)
                                        ELSE Stub(rets[i - 1].kind)
        BY <1>3 DEF Chain, Chained, n
      <4> QED BY <1>2, <1>6, <2>1, <2>2, <4>1, <4>2
    <3> QED BY <1>2, <3>1 DEF Chained, Writes, W
  <2>5. Held'
    BY <1>2, <1>8, <2>1 DEF Held
  <2>6. AtTop'
    BY <2>1 DEF AtTop
  <2> QED BY <1>7, <2>3, <2>4, <2>5, <2>6 DEF Chain
<1>10. CASE ~Writes(n)
  <2>1. /\ ctl' = "epilog" /\ target' = rets[n].orig /\ Len(stack') = L
        /\ \A s \in 1 .. L :
             stack'[s].site = stack[s].site /\ stack'[s].ret = stack[s].ret
    BY <1>1, <1>5, <1>10 DEF L
  <2>3. Placed'
    BY <1>1, <1>2, <1>3, <2>1 DEF Placed
  <2>4. Chained'
    <3>1. ASSUME NEW i \in 1 .. n - 1
          PROVE  rets'[i].orig = IF W(i) THEN Code(stack'[rets'[i].slot].site)
                                         ELSE Stub(rets'[i - 1].kind)
      <4>1. ~Writes(i) => i - 1 \in 1 .. n - 1
        BY <1>3 DEF Writes
      <4>2. rets[i].orig = IF Writes(i) THEN Code(stack[rets[i].slot].site)
                                        ELSE Stub(rets[i - 1].kind)
        BY <1>3 DEF Chain, Chained, n
      <4> QED BY <1>1, <1>2, <1>3, <1>6, <2>1, <4>1, <4>2
    <3> QED BY <1>2, <3>1 DEF Chained, Writes, W
  <2>5. Held'
    BY <1>2, <1>8, <2>1 DEF Held
  <2>6. AtTop'
    <3>1. /\ n - 1 \in 1 .. n - 1 /\ Last(rets)' = rets[n - 1] /\ rets' # <<>>
      BY <1>2, <1>4, <1>10 DEF Last
    <3> QED BY <1>4, <1>10, <2>1, <3>1 DEF AtTop
  <2> QED BY <1>7, <2>3, <2>4, <2>5, <2>6 DEF Chain
<1> QED BY <1>9, <1>10

-----------------------------------------------------------------------------
(* The stack.                                                              *)

LEMMA ChangeTop ==
  ASSUME NEW q \in Seq(Frames), q # <<>>, NEW f \in Frames
  PROVE  LET r == [q EXCEPT ![Len(q)] = f]
         IN  /\ r \in Seq(Frames) /\ Len(r) = Len(q) /\ r[Len(q)] = f
             /\ \A s \in 1 .. Len(q) : s # Len(q) => r[s] = q[s]
OBVIOUS

LEMMA CallKeeps ==
  ASSUME TypeOK, Entering, Chain, NEW k \in Kinds \cup {"Plain"}, Call(k)
  PROVE  TypeOK' /\ Entering' /\ Chain'
<1> DEFINE closes == IF k = "ZoneStop" THEN Last(Last(stack).zones) ELSE 0
           top    == [Last(stack) EXCEPT !.zones = ZonesAfter(k, Last(stack).zones)]
           caller == IF stack = <<>> THEN <<>>
                     ELSE [stack EXCEPT ![Len(stack)].zones = ZonesAfter(k, Last(stack).zones)]
           f      == NewFrame(k, closes)
           L      == Len(stack)
<1>1. /\ ctl = "run" /\ ctl' = IF k \in enabled THEN "prolog" ELSE "run"
      /\ stack' = Append(caller, f) /\ calls' = calls + 1
      /\ k = "ZoneStop" => stack # <<>> /\ Last(stack).zones # <<>>
      /\ UNCHANGED <<rets, timers, contexts, zoneStack, depth, base, sessionID, enabled>>
  BY DEF Call, tlsVars, captureVars
<1>2. stack # <<>> =>
        /\ L \in 1 .. L /\ Last(stack) = stack[L] /\ Last(stack) \in Frames
        /\ Last(stack).zones \in Seq(Nat)
  <2>1. stack # <<>> => L \in 1 .. L /\ Last(stack) = stack[L] /\ Last(stack) \in Frames
    BY DEF TypeOK, Last
  <2> QED BY <2>1 DEF Frames
<1>3. closes \in Nat
  <2>1. ASSUME k = "ZoneStop" PROVE Last(Last(stack).zones) \in Nat
    BY <1>1, <1>2, <2>1, FrontFacts
  <2> QED BY <2>1
<1>4. k \in KindSet \cup {"Plain"}
  BY HijackingAssumption DEF HijackingAssumption
<1>5. /\ f \in Frames /\ f.ret = Code(f.site) /\ f.kind = k
      /\ k \in enabled => f.acts # <<>>
  <2>1. calls + 1 \in Nat /\ Code(calls + 1) \in Addresses
    BY CodeFacts DEF TypeOK
  <2>2. <<calls + 1>> \in Seq(Nat) /\ <<calls + 1>> # <<>> /\ <<>> \in Seq(Nat)
    BY <2>1
  <2> HIDE DEF closes
  <2> QED BY <1>3, <1>4, <2>1, <2>2 DEF NewFrame, Frames
<1>6. stack # <<>> => /\ top \in Frames /\ top.ret = stack[L].ret /\ top.site = stack[L].site
  <2> SUFFICES ASSUME stack # <<>> PROVE top \in Frames /\ top.ret = stack[L].ret
                                         /\ top.site = stack[L].site
    OBVIOUS
  <2>1. ZonesAfter(k, Last(stack).zones) \in Seq(Nat)
    <3>1. calls + 1 \in Nat
      BY DEF TypeOK
    <3>2. Append(Last(stack).zones, calls + 1) \in Seq(Nat)
      BY <1>2, <3>1
    <3> QED BY <1>2, <3>2, FrontKeeps DEF ZonesAfter
  <2> QED BY <1>2, <2>1 DEF Frames
<1>7. /\ caller \in Seq(Frames) /\ Len(caller) = L
      /\ \A s \in 1 .. L : caller[s].ret = stack[s].ret /\ caller[s].site = stack[s].site
  <2>1. CASE stack = <<>>
    BY <2>1
  <2>2. CASE stack # <<>>
    <3>1. caller = [stack EXCEPT ![L] = top]
      BY <1>2, <2>2 DEF TypeOK
    <3> HIDE DEF top, caller
    <3>2. /\ caller \in Seq(Frames) /\ Len(caller) = L /\ caller[L] = top
          /\ \A s \in 1 .. L : s # L => caller[s] = stack[s]
      BY <1>6, <2>2, <3>1, ChangeTop DEF TypeOK
    <3> QED BY <1>6, <2>2, <3>2
  <2> QED BY <2>1, <2>2
<1> HIDE DEF f, caller, top
<1>8. /\ stack' \in Seq(Frames) /\ Len(stack') = L + 1 /\ stack'[L + 1] = f /\ L \in Nat
      /\ \A s \in 1 .. L : stack'[s] = caller[s]
  BY <1>1, <1>5, <1>7
<1>9. TypeOK'
  BY <1>1, <1>8 DEF TypeOK
<1>10. Entering'
  <2>1. stack' # <<>> /\ Last(stack)' = f
    BY <1>8 DEF Last
  <2>2. k \in enabled => k \in KindSet
    BY HijackingAssumption DEF TypeOK, HijackingAssumption
  <2> QED BY <1>1, <1>5, <2>1, <2>2 DEF Entering
<1>11. Chain'
  <2>1. \A s \in 1 .. Len(stack') : s \notin 1 .. L => s = L + 1
    BY <1>8
  <2>2. \A s \in 1 .. Len(stack') : s \notin 1 .. L => stack'[s].ret = Code(stack'[s].site)
    BY <1>5, <1>8, <2>1
  <2>3. Len(stack') \in Nat /\ Len(stack') >= L
    BY <1>8
  <2> QED BY <1>1, <1>7, <1>8, <2>2, <2>3, GrowKeeps
<1> QED BY <1>9, <1>10, <1>11

LEMMA JumpKeeps ==
  ASSUME TypeOK, Entering, Chain, NEW k \in Kinds, Jump(k)
  PROVE  TypeOK' /\ Entering' /\ Chain'
<1> DEFINE top == [Last(stack) EXCEPT !.kind = k, !.acts = Append(Last(stack).acts, calls + 1)]
           L   == Len(stack)
<1>0. stack' = [stack EXCEPT ![L].kind = k, ![L].acts = Append(Last(stack).acts, calls + 1)]
  BY Zenon DEF Jump
<1>1. /\ ctl = "run" /\ ctl' = "prolog" /\ stack # <<>>
      /\ calls' = calls + 1
      /\ UNCHANGED <<rets, timers, contexts, zoneStack, depth, base, sessionID, enabled>>
  BY DEF Jump, tlsVars, captureVars, ghostVars
<1>2. k \in KindSet
  BY HijackingAssumption DEF HijackingAssumption
<1>3. L \in 1 .. L /\ Last(stack) = stack[L] /\ Last(stack) \in Frames
  BY <1>1 DEF TypeOK, Last
<1>4. /\ top \in Frames /\ top.ret = stack[L].ret /\ top.site = stack[L].site
      /\ top.kind = k /\ top.acts # <<>>
  <2>1. Last(stack).acts \in Seq(Nat) /\ calls + 1 \in Nat
    BY <1>3 DEF Frames, TypeOK
  <2>2. /\ Append(Last(stack).acts, calls + 1) \in Seq(Nat)
        /\ Append(Last(stack).acts, calls + 1) # <<>>
    BY <2>1
  <2> QED BY <1>2, <1>3, <2>2 DEF Frames
<1>5. stack' = [stack EXCEPT ![L] = top]
  BY <1>0, <1>3 DEF TypeOK
<1> HIDE DEF top
<1>6. /\ stack' \in Seq(Frames) /\ Len(stack') = L /\ stack'[L] = top
      /\ \A s \in 1 .. L : s # L => stack'[s] = stack[s]
  <2> DEFINE new == [stack EXCEPT ![L] = top]
  <2>1. stack \in Seq(Frames)
    BY DEF TypeOK
  <2>2. /\ new \in Seq(Frames) /\ Len(new) = L /\ new[L] = top
        /\ \A s \in 1 .. L : s # L => new[s] = stack[s]
    BY <1>1, <1>4, <2>1, ChangeTop
  <2> QED BY <1>5, <2>2
<1>7. TypeOK'
  BY <1>1, <1>6 DEF TypeOK
<1>8. Entering'
  <2>1. stack' # <<>> /\ Last(stack)' = top
    BY <1>1, <1>3, <1>6 DEF Last
  <2> QED BY <1>2, <1>4, <2>1 DEF Entering
<1>9. Chain'
  <2>1. \A s \in 1 .. L : stack'[s].ret = stack[s].ret /\ stack'[s].site = stack[s].site
    BY <1>4, <1>6
  <2>2. Len(stack') \in Nat /\ Len(stack') >= L
    BY <1>3, <1>6
  <2> QED BY <1>1, <1>6, <2>1, <2>2, GrowKeeps
<1> QED BY <1>7, <1>8, <1>9

LEMMA ReturnKeeps ==
  ASSUME TypeOK, Entering, Chain, ReturnsToCaller, Return
  PROVE  TypeOK' /\ Entering' /\ Chain' /\ ReturnsToCaller'
<1> DEFINE n == Len(rets)
           L == Len(stack)
<1>1. /\ ctl = "run" /\ stack # <<>>
      /\ UNCHANGED <<rets, calls, timers, contexts, zoneStack, depth, base, sessionID, enabled>>
      /\ IF Last(stack).ret[1] = "code"
           THEN /\ landed' = [at |-> Last(stack).ret[2], site |-> Last(stack).site]
                /\ stack' = Front(stack) /\ ctl' = ctl
           ELSE /\ ctl' = "epilog" /\ target' = Last(stack).ret
                /\ UNCHANGED <<stack, landed>>
  BY DEF Return, tlsVars, captureVars
<1>2. /\ L \in 1 .. L /\ Last(stack) = stack[L] /\ stack[L].ret \in Addresses
      /\ stack[L].site \in Nat
  <2>1. L \in 1 .. L /\ Last(stack) = stack[L] /\ stack[L] \in Frames
    BY <1>1 DEF TypeOK, Last
  <2> QED BY <2>1 DEF Frames
<1>3. \/ /\ rets # <<>> /\ n \in 1 .. n /\ rets[n].slot = L
         /\ stack[L].ret = Stub(rets[n].kind) /\ stack[L].ret[1] # "code"
      \/ /\ \A i \in 1 .. n : rets[i].slot \in 1 .. L - 1
         /\ stack[L].ret = Code(stack[L].site)
  <2>1. CASE rets # <<>> /\ n \in 1 .. n /\ rets[n].slot = L
    <3>1. stack[L].ret = Stub(rets[n].kind) /\ rets[n].kind \in KindSet
      BY <1>1, <1>2, <2>1, RecordFacts DEF Chain, Held
    <3> QED BY <2>1, <3>1, StubFacts
  <2>2. CASE \A i \in 1 .. n : rets[i].slot \in 1 .. L - 1
    <3>1. \A i \in 1 .. n : rets[i].slot # L
      BY <1>2, <2>2
    <3> QED BY <1>1, <1>2, <2>2, <3>1 DEF Chain, Held
  <2> QED BY <1>1, <2>1, <2>2, TopRecord
<1>4. CASE stack[L].ret[1] = "code"
  <2>1. /\ \A i \in 1 .. n : rets[i].slot \in 1 .. L - 1
        /\ stack[L].ret = Code(stack[L].site)
    BY <1>3, <1>4
  <2>2. /\ landed' = [at |-> stack[L].ret[2], site |-> stack[L].site]
        /\ stack' = Front(stack) /\ ctl' = "run"
    BY <1>1, <1>2, <1>4
  <2>3. ReturnsToCaller'
    BY <1>2, <2>1, <2>2, CodeFacts DEF ReturnsToCaller
  <2>4. TypeOK' /\ Entering'
    BY <1>1, <2>2, FrontKeeps DEF TypeOK, Entering
  <2>5. Chain'
    BY <1>1, <2>1, <2>2, LeaveKeeps
  <2> QED BY <2>3, <2>4, <2>5
<1>5. CASE stack[L].ret[1] # "code"
  <2>1. /\ rets # <<>> /\ rets[n].slot = L /\ stack[L].ret = Stub(rets[n].kind)
    BY <1>2, <1>3, <1>5, CodeFacts
  <2>2. ctl' = "epilog" /\ target' = stack[L].ret /\ UNCHANGED <<stack, landed>>
    BY <1>1, <1>2, <1>5
  <2>3. TypeOK' /\ Entering' /\ ReturnsToCaller'
    BY <1>1, <2>2 DEF TypeOK, Entering, ReturnsToCaller
  <2>4. Chain'
    BY <1>1, <2>1, <2>2, TopKeeps
  <2> QED BY <2>3, <2>4
<1> QED BY <1>4, <1>5

LEMMA EnterKeeps ==
  ASSUME TypeOK, Entering, Chain, PrologEnter
  PROVE  TypeOK' /\ Entering' /\ Chain'
<1> DEFINE r == [slot |-> Len(stack), orig |-> Last(stack).ret, kind |-> Last(stack).kind]
<1>1. /\ ctl = "prolog" /\ ctl' = "prologBody" /\ stack # <<>>
      /\ Last(stack).acts # <<>> /\ Last(stack).kind \in KindSet
      /\ rets' = Append(rets, r)
      /\ UNCHANGED <<stack, calls, timers, sessionID, enabled>>
  BY DEF PrologEnter, CurrentKind, captureVars, Entering
<1>2. /\ contexts' \in {contexts, Append(contexts, CurrentCall)}
      /\ zoneStack' \in {0, zoneStack} /\ depth' \in {0, depth}
      /\ base' \in {base, Len(timers)}
  BY DEF PrologEnter
<1>3. Last(stack) \in Frames /\ Len(stack) \in Nat
  BY <1>1 DEF TypeOK, Last
<1>4. CurrentCall \in Nat /\ r \in Records
  <2>1. Last(stack).acts \in Seq(Nat) /\ Last(stack).ret \in Addresses
    BY <1>3 DEF Frames
  <2> QED BY <1>1, <1>3, <2>1, FrontFacts DEF CurrentCall, Records
<1> HIDE DEF r
<1>5. TypeOK'
  <2>1. Append(contexts, CurrentCall) \in Seq(Nat) /\ Append(rets, r) \in Seq(Records)
    BY <1>4 DEF TypeOK
  <2>2. Len(timers) \in Nat
    BY DEF TypeOK
  <2>3. contexts' \in Seq(Nat) /\ zoneStack' \in Nat /\ depth' \in Int /\ base' \in Nat
    <3>1. contexts' \in Seq(Nat)
      BY <1>2, <2>1 DEF TypeOK
    <3>2. zoneStack' \in Nat
      BY <1>2 DEF TypeOK
    <3>3. depth' \in Int
      BY <1>2 DEF TypeOK
    <3>4. base' \in Nat
      BY <1>2, <2>2 DEF TypeOK
    <3> QED BY <3>1, <3>2, <3>3, <3>4
  <2> QED BY <1>1, <2>1, <2>3 DEF TypeOK
<1>6. Entering'
  BY <1>1 DEF Entering
<1>7. Chain'
  BY <1>1, PushKeeps DEF r
<1> QED BY <1>5, <1>6, <1>7

\* The walk leaves every slot as it was ...
LEMMA WalkRestores ==
  ASSUME TypeOK, Chain, NEW s \in 1 .. Len(stack)
  PROVE  OverridenAddress(s) = stack[s].ret
<1>1. CASE WritersOf(s) = {}
  BY <1>1 DEF OverridenAddress
<1>2. ASSUME NEW i \in 1 .. Len(rets), WritersOf(s) = {i}, rets[i].slot = s
      PROVE  OverridenAddress(s) = stack[s].ret
  <2>1. i <= i /\ ~(i < i)
    BY RecordFacts
  <2>2. LastOf(WritersOf(s)) = i
    BY <1>2, <2>1 DEF LastOf
  <2>3. {j \in WritersOf(rets[i].slot) : j < i} = {}
    BY <1>2, <2>1
  <2> QED BY <1>2, <2>2, <2>3 DEF OverridenAddress, EpilogAddress
<1> QED BY <1>1, <1>2, WalkFinds

\* ... and finds the caller of every frame.
LEMMA WalkSees ==
  ASSUME TypeOK, Chain
  PROVE  WalkSeesCallers
<1> SUFFICES ASSUME ctl = "prologBody", NEW s \in 1 .. Len(stack)
             PROVE  OriginalAddress(s) = Code(stack[s].site)
  BY WalkRestores DEF WalkSeesCallers
<1>1. CASE \A i \in 1 .. Len(rets) : rets[i].slot # s
  <2>1. Len(rets) \in 1 .. Len(rets) /\ rets[Len(rets)].slot = Len(stack)
    <3>1. rets # <<>> /\ Last(rets).slot = Len(stack)
      BY DEF Chain, AtTop
    <3> QED BY <3>1 DEF TypeOK, Last
  <2>2. s # Len(stack)
    BY <1>1, <2>1
  <2>3. WritersOf(s) = {}
    BY <1>1 DEF WritersOf
  <2> QED BY <1>1, <2>2, <2>3 DEF Chain, Held, OriginalAddress
<1>2. ASSUME NEW i \in 1 .. Len(rets), WritersOf(s) = {i},
             rets[i].orig = Code(stack[s].site)
      PROVE  OriginalAddress(s) = Code(stack[s].site)
  <2>1. LastOf(WritersOf(s)) = i
    BY <1>2, RecordFacts DEF LastOf
  <2> QED BY <1>2, <2>1 DEF OriginalAddress
<1> QED BY <1>1, <1>2, WalkFinds

LEMMA BodyKeeps ==
  ASSUME TypeOK, Entering, Chain, PrologBody
  PROVE  TypeOK' /\ Entering' /\ Chain'
<1> DEFINE n   == Len(rets)
           L   == Len(stack)
           top == [stack[L] EXCEPT !.ret = Stub(CurrentKind)]
<1>1. /\ ctl = "prologBody" /\ ctl' = "run"
      /\ zoneStack' \in {zoneStack, zoneStack + 1}
      /\ UNCHANGED <<calls, rets, contexts, sessionID, enabled, base>>
  BY DEF PrologBody, captureVars, ghostVars
<1>2. /\ timers' \in {timers, Append(timers, [call |-> CurrentCall, depth |-> depth,
                                             session |-> sessionID])}
      /\ depth' \in {depth, depth + 1}
  BY DEF PrologBody
<1>3. /\ stack # <<>> /\ stack \in Seq(Frames) /\ L \in 1 .. L /\ stack[L] \in Frames
      /\ Last(stack) = stack[L] /\ CurrentKind = stack[L].kind /\ CurrentKind \in KindSet
      /\ Last(stack).acts # <<>>
  BY <1>1 DEF TypeOK, Entering, Last, CurrentKind
<1>4. Walked = stack
  <2>1. Walked = [s \in 1 .. L |-> [stack[s] EXCEPT !.ret = stack[s].ret]]
    BY WalkRestores DEF Walked
  <2>2. \A s \in 1 .. L : [stack[s] EXCEPT !.ret = stack[s].ret] = stack[s]
    BY RecordFacts DEF Frames
  <2>3. stack = [s \in 1 .. L |-> stack[s]]
    BY <1>3
  <2> QED BY <2>1, <2>2, <2>3
<1>5. stack' = [stack EXCEPT ![L] = top]
  <2>1. stack' = [stack EXCEPT ![L].ret = Stub(CurrentKind)]
    BY <1>4 DEF PrologBody
  <2> QED BY <1>3, <2>1
<1>6. top \in Frames /\ top.ret = Stub(CurrentKind) /\ top.site = stack[L].site
  BY <1>3, StubFacts DEF Frames
<1> HIDE DEF top
<1>7. /\ stack' \in Seq(Frames) /\ Len(stack') = L /\ stack'[L] = top
      /\ \A s \in 1 .. L : s # L => stack'[s] = stack[s]
  <2> DEFINE new == [stack EXCEPT ![L] = top]
  <2>1. /\ new \in Seq(Frames) /\ Len(new) = L /\ new[L] = top
        /\ \A s \in 1 .. L : s # L => new[s] = stack[s]
    BY <1>3, <1>6, ChangeTop
  <2> QED BY <1>5, <2>1
<1>8. TypeOK'
  <2>1. CurrentCall \in Nat
    <3>1. Last(stack).acts \in Seq(Nat)
      BY <1>3 DEF Frames
    <3> QED BY <1>3, <3>1, FrontFacts DEF CurrentCall
  <2> DEFINE t == [call |-> CurrentCall, depth |-> depth, session |-> sessionID]
             Timers == [call : Nat, depth : Int, session : Nat]
  <2>2. t \in Timers
    BY <2>1 DEF TypeOK
  <2> HIDE DEF t
  <2>3. timers \in Seq(Timers) /\ Append(timers, t) \in Seq(Timers)
    BY <2>2 DEF TypeOK
  <2>4. timers' \in Seq(Timers)
    BY <1>2, <2>3 DEF t
  <2>5. depth' \in Int
    BY <1>2 DEF TypeOK
  <2>6. zoneStack' \in Nat
    BY <1>1 DEF TypeOK
  <2> QED BY <1>1, <1>7, <2>4, <2>5, <2>6 DEF TypeOK
<1>9. Chain'
  <2>1. rets # <<>> /\ rets[n].slot = L /\ rets[n].kind = CurrentKind
    <3>1. rets # <<>> /\ Last(rets).slot = L /\ Last(rets).kind = Last(stack).kind
      BY <1>1 DEF Chain, AtTop
    <3> QED BY <3>1 DEF Last, CurrentKind
  <2>2. \A s \in 1 .. L : stack'[s].site = stack[s].site
    BY <1>6, <1>7
  <2>3. \A s \in 1 .. L : s # L => stack'[s].ret = stack[s].ret
    BY <1>7
  <2>4. stack'[L].ret = Stub(rets[n].kind)
    BY <1>6, <1>7, <2>1
  <2> QED BY <1>1, <1>3, <1>7, <2>1, <2>2, <2>3, <2>4, TopKeeps
<1> QED BY <1>1, <1>8, <1>9 DEF Entering

\* The end of every epilog
LEMMA ReturnToKeeps ==
  ASSUME TypeOK, Entering, Chain, ReturnsToCaller, ctl = "epilog", ReturnTo
  PROVE  /\ stack' \in Seq(Frames) /\ rets' \in Seq(Records)
         /\ ctl' \in {"run", "epilog"} /\ rets' = Front(rets)
         /\ UNCHANGED <<calls, sessionID, enabled, base>>
         /\ Entering' /\ Chain' /\ ReturnsToCaller'
<1> DEFINE n == Len(rets)
           L == Len(stack)
           address == Last(rets).orig
           top == [stack[L] EXCEPT !.acts = Front(Last(stack).acts)]
<1>1. /\ rets' = Front(rets)
      /\ IF address[1] = "code"
           THEN /\ landed' = [at |-> address[2], site |-> Last(stack).site]
                /\ stack' = Front(stack) /\ ctl' = "run"
           ELSE /\ target' = address /\ UNCHANGED <<ctl, landed>>
                /\ stack' = [stack EXCEPT ![L].acts = Front(Last(stack).acts)]
      /\ UNCHANGED <<calls, sessionID, enabled, base>>
  BY DEF ReturnTo, captureVars
<1>2. /\ rets \in Seq(Records) /\ rets # <<>> /\ n \in 1 .. n /\ Last(rets) = rets[n]
      /\ rets[n].slot = L
  BY DEF TypeOK, Chain, AtTop, Last
<1>3. /\ stack \in Seq(Frames) /\ stack # <<>> /\ L \in 1 .. L /\ stack[L] \in Frames
      /\ Last(stack) = stack[L]
  <2>1. L \in 1 .. L
    BY <1>2 DEF Chain, Placed
  <2> QED BY <2>1 DEF TypeOK, Last
<1>4. CASE address[1] = "code"
  <2>1. address = Code(stack[L].site)
    <3>1. CASE Writes(n)
      BY <1>2, <3>1 DEF Chain, Chained
    <3>2. CASE ~Writes(n)
      <4>1. n - 1 \in 1 .. n
        <5>1. n \in Nat /\ n # 1
          BY <3>2, RecordFacts DEF Writes
        <5>2. \A m \in Nat : m \in 1 .. m /\ m # 1 => m - 1 \in 1 .. m
          OBVIOUS
        <5> QED BY <1>2, <5>1, <5>2
      <4>2. address = Stub(rets[n - 1].kind) /\ rets[n - 1].kind \in KindSet
        BY <1>2, <3>2, <4>1, RecordFacts DEF Chain, Chained
      <4> QED BY <1>4, <4>2, StubFacts
    <3> QED BY <3>1, <3>2
  <2>2. /\ landed' = [at |-> address[2], site |-> stack[L].site]
        /\ stack' = Front(stack) /\ ctl' = "run"
    BY <1>1, <1>3, <1>4
  <2>3. stack[L].site \in Nat
    BY <1>3 DEF Frames
  <2>4. ReturnsToCaller'
    BY <2>1, <2>2, <2>3, CodeFacts DEF ReturnsToCaller
  <2>5. Chain'
    BY <1>1, <1>4, <2>2, PopKeeps
  <2> QED BY <1>1, <1>2, <1>3, <2>2, <2>4, <2>5, FrontKeeps DEF Entering
<1>5. CASE address[1] # "code"
  <2>1. /\ target' = address /\ ctl' = "epilog" /\ landed' = landed
        /\ stack' = [stack EXCEPT ![L].acts = Front(Last(stack).acts)]
    BY <1>1, <1>5
  <2>2. top \in Frames /\ top.ret = stack[L].ret /\ top.site = stack[L].site
    <3>1. Front(Last(stack).acts) \in Seq(Nat)
      BY <1>3, FrontKeeps DEF Frames
    <3> QED BY <1>3, <3>1 DEF Frames
  <2>3. stack' = [stack EXCEPT ![L] = top]
    BY <1>3, <2>1
  <2> HIDE DEF top
  <2>4. /\ stack' \in Seq(Frames) /\ Len(stack') = L /\ stack'[L] = top
        /\ \A s \in 1 .. L : s # L => stack'[s] = stack[s]
    <3> DEFINE new == [stack EXCEPT ![L] = top]
    <3>1. /\ new \in Seq(Frames) /\ Len(new) = L /\ new[L] = top
          /\ \A s \in 1 .. L : s # L => new[s] = stack[s]
      BY <1>3, <2>2, ChangeTop
    <3> QED BY <2>3, <3>1
  <2>5. \A s \in 1 .. L : stack'[s].site = stack[s].site /\ stack'[s].ret = stack[s].ret
    BY <2>2, <2>4
  <2>6. Chain'
    BY <1>1, <1>5, <2>1, <2>4, <2>5, PopKeeps
  <2>7. Entering' /\ ReturnsToCaller'
    BY <2>1 DEF Entering, ReturnsToCaller
  <2> QED BY <1>1, <1>2, <2>1, <2>4, <2>6, <2>7, FrontKeeps
<1> QED BY <1>4, <1>5

LEMMA EpilogKeeps ==
  ASSUME TypeOK, Entering, Chain, ReturnsToCaller,
         Epilog \/ EpilogEmpty \/ EpilogZoneStop
  PROVE  TypeOK' /\ Entering' /\ Chain' /\ ReturnsToCaller'
<1>1. ctl = "epilog" /\ ReturnTo
  BY DEF Epilog, EpilogEmpty, EpilogZoneStop
<1>2. /\ timers' \in {timers, Front(timers)} /\ contexts' \in {contexts, Front(contexts)}
      /\ depth' \in {depth, depth - 1}
      /\ zoneStack' = zoneStack \/ (zoneStack > 0 /\ zoneStack' = zoneStack - 1)
  BY DEF Epilog, EpilogEmpty, EpilogZoneStop, StopTimer
<1>3. timers' \in Seq([call : Nat, depth : Int, session : Nat]) /\ contexts' \in Seq(Nat)
  BY <1>2, FrontKeeps DEF TypeOK
<1>4. depth' \in Int
  BY <1>2 DEF TypeOK
<1>5. zoneStack' \in Nat
  BY <1>2 DEF TypeOK
<1> QED BY <1>1, <1>3, <1>4, <1>5, ReturnToKeeps DEF TypeOK

LEMMA OthersKeep ==
  ASSUME TypeOK, Entering, Chain, ReturnsToCaller, Network \/ UNCHANGED vars
  PROVE  TypeOK' /\ Entering' /\ Chain' /\ ReturnsToCaller'
<1>1. UNCHANGED <<stack, calls, ctl, target, rets, timers, contexts, zoneStack, depth,
                  base, landed>>
  BY DEF Network, NewSession, OrbitStart, EnableHooks, OrbitStop, DisableAllHooks,
         CaptureGoes, vars, threadVars, tlsVars, ghostVars
<1>2. sessionID' \in {sessionID, sessionID + 1}
  BY DEF Network, NewSession, OrbitStart, EnableHooks, OrbitStop, DisableAllHooks,
         vars, captureVars
<1>3. enabled' \subseteq Kinds
  BY DEF Network, NewSession, OrbitStart, EnableHooks, OrbitStop, DisableAllHooks,
         vars, captureVars, TypeOK
<1>4. sessionID' \in Nat
  BY <1>2 DEF TypeOK
<1>5. TypeOK' /\ Entering' /\ ReturnsToCaller'
  BY <1>1, <1>3, <1>4 DEF TypeOK, Entering, ReturnsToCaller
<1>6. Chain'
  BY <1>1 DEF Chain, Placed, Chained, Rooted, Held, AtTop, Writes
<1> QED BY <1>5, <1>6

LEMMA ChainStep ==
  ASSUME TypeOK, Entering, Chain, ReturnsToCaller, [Next]_vars
  PROVE  TypeOK' /\ Entering' /\ Chain' /\ ReturnsToCaller'
<1>1. ASSUME NEW k \in Kinds \cup {"Plain"}, Call(k) PROVE landed' = landed
  BY <1>1 DEF Call
<1>2. ASSUME NEW k \in Kinds, Jump(k) PROVE landed' = landed
  BY <1>2 DEF Jump, ghostVars
<1>3. ASSUME PrologEnter \/ PrologBody PROVE landed' = landed
  BY <1>3 DEF PrologEnter, PrologBody, ghostVars
<1>4. landed' = landed => ReturnsToCaller'
  BY DEF ReturnsToCaller
<1>5. CASE \E k \in Kinds \cup {"Plain"} : Call(k)
  BY <1>1, <1>4, <1>5, CallKeeps
<1>6. CASE \E k \in Kinds : Jump(k)
  BY <1>2, <1>4, <1>6, JumpKeeps
<1>7. CASE PrologEnter \/ PrologBody
  BY <1>3, <1>4, <1>7, EnterKeeps, BodyKeeps
<1>8. CASE Return
  BY <1>8, ReturnKeeps
<1>9. CASE Epilog \/ EpilogEmpty \/ EpilogZoneStop
  BY <1>9, EpilogKeeps
<1>10. CASE Network \/ UNCHANGED vars
  BY <1>10, OthersKeep
<1> QED BY <1>5, <1>6, <1>7, <1>8, <1>9, <1>10 DEF Next, Thread

-----------------------------------------------------------------------------
(* Timers and contexts.                                                    *)

\* What an epilog pops has the kind of its stub.
LEMMA TopOfEpilog ==
  ASSUME TypeOK, Chain, ctl = "epilog"
  PROVE  /\ rets # <<>> /\ Len(rets) \in 1 .. Len(rets) /\ Last(rets) = rets[Len(rets)]
         /\ rets[Len(rets)].kind = target[1]
<1>1. rets # <<>> /\ target = Stub(Last(rets).kind)
  BY DEF Chain, AtTop
<1>2. Len(rets) \in 1 .. Len(rets) /\ Last(rets) = rets[Len(rets)]
  BY <1>1 DEF TypeOK, Last
<1>3. rets[Len(rets)].kind \in KindSet
  BY <1>2, RecordFacts
<1> QED BY <1>1, <1>2, <1>3, StubFacts

LEMMA Counted ==
  ASSUME TypeOK
  PROVE  IsFiniteSet(Popping) /\ Cardinality(Popping) \in Nat
<1>1. IsFiniteSet(1 .. Len(rets))
  BY RecordFacts, FS_Interval
<1>2. Popping \subseteq 1 .. Len(rets)
  BY DEF Popping
<1> QED BY <1>1, <1>2, FS_Subset, FS_CardinalityType

LEMMA PushCounts ==
  ASSUME TypeOK, NEW r, rets' = Append(rets, r)
  PROVE  Cardinality(Popping') = Cardinality(Popping)
                                 + (IF r.kind \in PopsTimer THEN 1 ELSE 0)
<1> DEFINE n == Len(rets)
<1>1. /\ n \in Nat /\ Len(rets') = n + 1 /\ rets'[n + 1] = r
      /\ \A i \in 1 .. n : rets'[i] = rets[i]
  BY DEF TypeOK
<1> HIDE DEF n
<1>2. 1 .. n + 1 = 1 .. n \cup {n + 1} /\ n + 1 \notin 1 .. n
  BY <1>1
<1>3. Popping' = IF r.kind \in PopsTimer THEN Popping \cup {n + 1} ELSE Popping
  BY <1>1, <1>2 DEF Popping, n
<1>4. n + 1 \notin Popping
  BY <1>2 DEF Popping, n
<1>5. CASE r.kind \in PopsTimer
  <2>1. Popping' = Popping \cup {n + 1}
    BY <1>3, <1>5
  <2>2. Cardinality(Popping \cup {n + 1}) = Cardinality(Popping) + 1
    BY <1>4, Counted, FS_AddElement
  <2> QED BY <1>5, <2>1, <2>2
<1>6. CASE r.kind \notin PopsTimer
  <2>1. Popping' = Popping
    BY <1>3, <1>6
  <2> QED BY <1>6, <2>1, Counted
<1> QED BY <1>5, <1>6

LEMMA PopCounts ==
  ASSUME TypeOK, rets # <<>>, rets' = Front(rets)
  PROVE  Cardinality(Popping') = Cardinality(Popping)
                                 - (IF rets[Len(rets)].kind \in PopsTimer THEN 1 ELSE 0)
<1> DEFINE n == Len(rets)
<1>1. /\ n \in Nat \ {0} /\ Len(rets') = n - 1
      /\ \A i \in 1 .. n - 1 : rets'[i] = rets[i]
  BY FrontFacts DEF TypeOK
<1> HIDE DEF n
<1>2. 1 .. n = 1 .. n - 1 \cup {n} /\ n \notin 1 .. n - 1
  BY <1>1
<1>3. Popping' = Popping \ {n}
  BY <1>1, <1>2 DEF Popping, n
<1>4. n \in Popping <=> rets[n].kind \in PopsTimer
  BY <1>2 DEF Popping, n
<1>5. CASE n \in Popping
  BY <1>3, <1>4, <1>5, Counted, FS_RemoveElement DEF n
<1>6. CASE n \notin Popping
  <2>1. Popping' = Popping
    BY <1>3, <1>6
  <2> QED BY <1>4, <1>6, <2>1, Counted DEF n
<1> QED BY <1>5, <1>6

LEMMA CallsFacts ==
  ASSUME NEW S, NEW q \in Seq(S)
  PROVE  /\ \A t \in S : CallsOf(Append(q, t)) = Append(CallsOf(q), t.call)
         /\ q # <<>> => CallsOf(Front(q)) = Front(CallsOf(q))
<1>1. ASSUME NEW t \in S PROVE CallsOf(Append(q, t)) = Append(CallsOf(q), t.call)
  BY DEF CallsOf
<1>2. ASSUME q # <<>> PROVE CallsOf(Front(q)) = Front(CallsOf(q))
  BY <1>2, FrontFacts DEF CallsOf, Front
<1> QED BY <1>1, <1>2

Timers == [call : Nat, depth : Int, session : Nat]

\* StopTimer, where it is called
LEMMA StopFacts ==
  ASSUME TypeOK, InStep, ctl = "epilog", NEW c, StopTimer(c)
  PROVE  /\ Len(timers') = Len(timers) - 1 /\ contexts' = CallsOf(timers')
         /\ \A i \in 1 .. Len(timers') : i \in 1 .. Len(timers) /\ timers'[i] = timers[i]
         /\ depth' = depth - 1
<1>1. timers # <<>> /\ timers' = Front(timers) /\ contexts' = Front(contexts) /\ depth' = depth - 1
  BY DEF StopTimer
<1>2. timers \in Seq(Timers) /\ contexts = CallsOf(timers)
  BY DEF TypeOK, InStep, Timers
<1>3. contexts' = CallsOf(timers')
  BY <1>1, <1>2, CallsFacts
<1>4. Len(timers') = Len(timers) - 1 /\ \A i \in 1 .. Len(timers) - 1 : timers'[i] = timers[i]
  BY <1>1, <1>2, FrontFacts
<1>5. \A i \in 1 .. Len(timers) - 1 : i \in 1 .. Len(timers)
  BY <1>2
<1> QED BY <1>1, <1>3, <1>4, <1>5

\* What of the step matters to the counts
Quiet == /\ UNCHANGED <<rets, timers, contexts, zoneStack, depth, base>>
         /\ \/ ctl # "prologBody" /\ ctl' # "prologBody"
            \/ UNCHANGED <<ctl, stack>>

LEMMA QuietSteps ==
  ASSUME \/ \E k \in Kinds \cup {"Plain"} : Call(k)
         \/ \E k \in Kinds : Jump(k)
         \/ Return \/ Network \/ UNCHANGED vars
  PROVE  Quiet
<1>1. ASSUME NEW k \in Kinds \cup {"Plain"}, Call(k) PROVE Quiet
  BY <1>1 DEF Call, Quiet, tlsVars
<1>2. ASSUME NEW k \in Kinds, Jump(k) PROVE Quiet
  BY <1>2 DEF Jump, Quiet, tlsVars, ghostVars
<1>3. CASE Return
  BY <1>3 DEF Return, Quiet, tlsVars
<1>4. CASE Network \/ UNCHANGED vars
  BY <1>4 DEF Network, NewSession, OrbitStart, EnableHooks, OrbitStop, DisableAllHooks,
              CaptureGoes, vars, threadVars, tlsVars, ghostVars, Quiet
<1> QED BY <1>1, <1>2, <1>3, <1>4

Paired == Enough /\ InStep /\ DepthIsNesting

LEMMA QuietKeeps ==
  ASSUME Paired, Quiet
  PROVE  Paired'
<1> USE DEF Quiet, Paired
<1>1. CallsOf(timers)' = CallsOf(timers) /\ Popping' = Popping
  BY DEF CallsOf, Popping
<1>2. Enough'
  BY <1>1 DEF Enough, Pushing
<1>3. InStep'
  BY <1>1 DEF InStep, CurrentCall
<1>4. DepthIsNesting'
  BY DEF DepthIsNesting
<1> QED BY <1>2, <1>3, <1>4

LEMMA EnterPairs ==
  ASSUME TypeOK, Paired, PrologEnter
  PROVE  Paired'
<1> USE DEF Paired
<1> DEFINE r == [slot |-> Len(stack), orig |-> Last(stack).ret, kind |-> CurrentKind]
<1>1. /\ ctl = "prolog" /\ ctl' = "prologBody" /\ UNCHANGED <<stack, timers>>
      /\ rets' = Append(rets, r) /\ r.kind = CurrentKind
      /\ contexts' = IF CurrentKind \in TimedKinds THEN Append(contexts, CurrentCall)
                                                  ELSE contexts
      /\ \/ depth' = 0 /\ zoneStack' = 0 /\ base' = Len(timers)
         \/ UNCHANGED <<depth, zoneStack, base>>
  BY DEF PrologEnter
<1> HIDE DEF r
<1>2. Last(rets)' = r
  BY <1>1 DEF Last, TypeOK
<1>3. Enough'
  <2>1. /\ Cardinality(Popping') = Cardinality(Popping) + Pushing'
        /\ Pushing = 0 /\ Pushing' \in {0, 1}
    BY <1>1, <1>2, PushCounts DEF Pushing
  <2>2. zoneStack' \in Nat /\ zoneStack' <= zoneStack /\ zoneStack \in Nat
    BY <1>1 DEF TypeOK
  <2>3. Len(timers) \in Nat /\ Cardinality(Popping) \in Nat
    BY Counted DEF TypeOK
  <2> QED BY <1>1, <2>1, <2>2, <2>3 DEF Enough
<1>4. InStep'
  <2>1. contexts = CallsOf(timers) /\ CallsOf(timers)' = CallsOf(timers)
        /\ CurrentCall' = CurrentCall
    BY <1>1 DEF InStep, CallsOf, CurrentCall
  <2> QED BY <1>1, <1>2, <2>1 DEF InStep
<1>5. DepthIsNesting'
  <2>1. Len(timers) \in Nat
    BY DEF TypeOK
  <2>2. CASE depth' = 0 /\ base' = Len(timers)
    <3>1. base' = 0 => \A i \in 1 .. Len(timers) : FALSE
      BY <2>1, <2>2
    <3> QED BY <1>1, <2>1, <2>2, <3>1 DEF DepthIsNesting
  <2>3. CASE UNCHANGED <<depth, base>>
    BY <1>1, <2>3 DEF DepthIsNesting
  <2> QED BY <1>1, <2>2, <2>3
<1> QED BY <1>3, <1>4, <1>5

LEMMA BodyPairs ==
  ASSUME TypeOK, Entering, Chain, Paired, PrologBody
  PROVE  Paired'
<1> USE DEF Paired
<1> DEFINE t == [call |-> CurrentCall, depth |-> depth, session |-> sessionID]
           k == CurrentKind
<1>1. /\ ctl = "prologBody" /\ ctl' = "run" /\ UNCHANGED <<rets, contexts, base>>
      /\ zoneStack' = IF k = "ZoneStart" THEN zoneStack + 1 ELSE zoneStack
      /\ IF k \in TimedKinds THEN timers' = Append(timers, t) /\ depth' = depth + 1
                             ELSE timers' = timers /\ depth' = depth
  BY DEF PrologBody, ghostVars
<1>2. Last(rets).kind = k
  BY <1>1 DEF Chain, AtTop, CurrentKind
<1>3. t \in Timers /\ t.call = CurrentCall /\ t.depth = depth
  <2>1. Last(stack).acts \in Seq(Nat) /\ Last(stack).acts # <<>>
    <3>1. Last(stack) \in Frames /\ Last(stack).acts # <<>>
      BY <1>1 DEF Entering, TypeOK, Last
    <3> QED BY <3>1 DEF Frames
  <2> QED BY <2>1, FrontFacts DEF TypeOK, Timers, CurrentCall
<1> HIDE DEF t, k
<1>4. timers \in Seq(Timers) /\ Len(timers) \in Nat
  BY DEF TypeOK, Timers
<1>5. k \in TimedKinds => /\ Len(timers') = Len(timers) + 1 /\ timers'[Len(timers) + 1] = t
                          /\ \A i \in 1 .. Len(timers) : timers'[i] = timers[i]
  BY <1>1, <1>3, <1>4
<1>6. Enough'
  <2>1. Cardinality(Popping') = Cardinality(Popping) /\ Cardinality(Popping) \in Nat
        /\ Pushing' = 0 /\ Pushing = IF k \in PopsTimer THEN 1 ELSE 0
    BY <1>1, <1>2, Counted DEF Popping, Pushing
  <2>2. /\ k \in PopsTimer => k \in TimedKinds /\ k # "ZoneStart"
        /\ k = "ZoneStart" => k \in TimedKinds /\ k \notin PopsTimer
    BY DEF PopsTimer, TimedKinds
  <2>3. zoneStack \in Nat
    BY DEF TypeOK
  <2>4. CASE k \in TimedKinds
    BY <1>1, <1>4, <1>5, <2>1, <2>2, <2>3, <2>4 DEF Enough
  <2>5. CASE k \notin TimedKinds
    BY <1>1, <1>4, <2>1, <2>2, <2>3, <2>5 DEF Enough
  <2> QED BY <2>4, <2>5
<1>7. InStep'
  <2>1. CASE k \in TimedKinds
    <3>1. contexts = Append(CallsOf(timers), CurrentCall) /\ timers' = Append(timers, t)
      BY <1>1, <1>2, <2>1 DEF InStep
    <3>2. CallsOf(timers') = Append(CallsOf(timers), t.call)
      BY <1>3, <1>4, <3>1, CallsFacts
    <3> QED BY <1>1, <1>3, <3>1, <3>2 DEF InStep
  <2>2. CASE k \notin TimedKinds
    <3>1. contexts = CallsOf(timers) /\ timers' = timers
      BY <1>1, <1>2, <2>2 DEF InStep
    <3> QED BY <1>1, <3>1 DEF InStep
  <2> QED BY <2>1, <2>2
<1>8. DepthIsNesting'
  <2>1. depth = Len(timers) - base /\ base \in Nat
    BY DEF DepthIsNesting, TypeOK
  <2>2. CASE k \in TimedKinds
    <3>1. depth' = Len(timers') - base'
      BY <1>1, <1>4, <1>5, <2>1, <2>2
    <3>2. ASSUME base' = 0, NEW i \in 1 .. Len(timers') PROVE timers'[i].depth = i - 1
      <4>1. i \in 1 .. Len(timers) \/ i = Len(timers) + 1
        BY <1>4, <1>5, <2>2
      <4>2. CASE i \in 1 .. Len(timers)
        BY <1>1, <1>5, <2>2, <3>2, <4>2 DEF DepthIsNesting
      <4>3. CASE i = Len(timers) + 1
        BY <1>1, <1>3, <1>4, <1>5, <2>1, <2>2, <3>2, <4>3
      <4> QED BY <4>1, <4>2, <4>3
    <3> QED BY <3>1, <3>2 DEF DepthIsNesting
  <2>3. CASE k \notin TimedKinds
    BY <1>1, <2>3 DEF DepthIsNesting
  <2> QED BY <2>2, <2>3
<1> QED BY <1>6, <1>7, <1>8

LEMMA EpilogPairs ==
  ASSUME TypeOK, Entering, Chain, ReturnsToCaller, Paired,
         Epilog \/ EpilogEmpty \/ EpilogZoneStop
  PROVE  Paired'
<1> USE DEF Paired
<1> DEFINE n == Len(rets)
<1>1. /\ ctl = "epilog" /\ ctl' \in {"run", "epilog"} /\ rets' = Front(rets) /\ base' = base
  BY ReturnToKeeps DEF Epilog, EpilogEmpty, EpilogZoneStop
<1>2. rets # <<>> /\ rets[n].kind = target[1]
  BY <1>1, TopOfEpilog
<1>3. /\ Cardinality(Popping) \in Nat
      /\ Cardinality(Popping') = Cardinality(Popping)
                                 - (IF target[1] \in PopsTimer THEN 1 ELSE 0)
      /\ Pushing = 0 /\ Pushing' = 0
  BY <1>1, <1>2, PopCounts, Counted DEF Pushing
<1>4. Len(timers) \in Nat /\ zoneStack \in Nat /\ depth \in Int /\ base \in Nat
  BY DEF TypeOK
<1>5. \/ /\ \E c : StopTimer(c)
         /\ \/ target[1] \in PopsTimer /\ zoneStack' = zoneStack
            \/ target[1] \notin PopsTimer /\ zoneStack' = zoneStack - 1
      \/ /\ UNCHANGED <<timers, contexts, zoneStack, depth>>
         /\ target[1] \notin PopsTimer
  BY DEF Epilog, EpilogEmpty, EpilogZoneStop, PopsTimer
<1>6. ASSUME NEW c, StopTimer(c),
             \/ target[1] \in PopsTimer /\ zoneStack' = zoneStack
             \/ target[1] \notin PopsTimer /\ zoneStack' = zoneStack - 1
      PROVE  Paired'
  <2>1. /\ Len(timers') = Len(timers) - 1 /\ contexts' = CallsOf(timers')
        /\ \A i \in 1 .. Len(timers') : i \in 1 .. Len(timers) /\ timers'[i] = timers[i]
        /\ depth' = depth - 1
    BY <1>1, <1>6, StopFacts
  <2>2. Enough'
    BY <1>3, <1>4, <1>6, <2>1 DEF Enough
  <2>3. InStep'
    BY <1>1, <2>1 DEF InStep
  <2>4. DepthIsNesting'
    BY <1>1, <1>4, <2>1 DEF DepthIsNesting
  <2> QED BY <2>2, <2>3, <2>4
<1>7. CASE UNCHANGED <<timers, contexts, zoneStack, depth>> /\ target[1] \notin PopsTimer
  <2>1. Enough'
    BY <1>3, <1>4, <1>7 DEF Enough
  <2>2. InStep'
    BY <1>1, <1>7 DEF InStep, CallsOf
  <2>3. DepthIsNesting'
    BY <1>1, <1>7 DEF DepthIsNesting
  <2> QED BY <2>1, <2>2, <2>3
<1> QED BY <1>5, <1>6, <1>7

-----------------------------------------------------------------------------
(* The calls and zones that are open, by the numbers of their calls.       *)

Elems(q)  == {q[i] : i \in 1 .. Len(q)}
Rising(q) == \A i, j \in 1 .. Len(q) : i < j => q[i] < q[j]

\* A frame, after c calls
FrameOK(f, c) ==
  /\ 1 <= f.site /\ f.site <= c
  /\ Rising(f.acts) /\ Rising(f.zones)
  /\ \A a \in Elems(f.acts) : f.site <= a /\ a <= c
  /\ \A z \in Elems(f.zones) : /\ f.site < z /\ z <= c
                               /\ \A a \in Elems(f.acts) : a < z
  /\ f.kind \in LeafKinds => /\ f.zones = <<>> /\ Len(f.acts) <= 1
                             /\ \A a \in Elems(f.acts) : a = f.site
  /\ f.kind = "ZoneStop" => 1 <= f.closes /\ f.closes < f.site

\* What is open in a frame f is older than what is open in a frame g above it,
\* but for the zone that an OrbitStart in g opens.
Below(f, g) ==
  /\ f.kind \notin LeafKinds
  /\ f.site < g.site
  /\ \A a \in Elems(f.acts) : a < g.site
  /\ \A z \in Elems(f.zones) : z < g.site \/ (z = g.site /\ g.kind = "ZoneStart")
  /\ g.kind = "ZoneStop" =>
       \A x \in Elems(f.acts) \cup Elems(f.zones) : x < g.closes

Nested ==
  /\ \A s \in 1 .. Len(stack) :
       /\ FrameOK(stack[s], calls)
       /\ stack[s].kind = "ZoneStart" =>
            s > 1 /\ stack[s].site \in Elems(stack[s - 1].zones)
  /\ \A s, u \in 1 .. Len(stack) : s < u => Below(stack[s], stack[u])

\* Calls whose epilog pops a timer, and zones
ActOpen(f, x)  == f.kind \notin LeafKinds /\ x \in Elems(f.acts)
ZoneOpen(f, x) == \/ x \in Elems(f.zones)
                  \/ f.kind = "ZoneStop" /\ f.acts # <<>> /\ x = f.closes
OpenActs  == {x \in 1 .. calls : \E s \in 1 .. Len(stack) : ActOpen(stack[s], x)}
OpenZones == {x \in 1 .. calls : \E s \in 1 .. Len(stack) : ZoneOpen(stack[s], x)}

\* The records of a frame are those of its hooked functions.
RecordsOf(s) == {i \in 1 .. Len(rets) : rets[i].slot = s}
Linked ==
  /\ \A s \in 1 .. Len(stack) :
       Len(stack[s].acts) =
         Cardinality(RecordsOf(s)) + (IF ctl = "prolog" /\ s = Len(stack) THEN 1 ELSE 0)
  /\ \A i \in 1 .. Len(rets) :
       IF stack[rets[i].slot].kind \in LeafKinds
         THEN rets[i].kind = stack[rets[i].slot].kind ELSE rets[i].kind \in PopsTimer

\* The call whose prolog has not pushed its timer yet
InProlog == ctl \in {"prolog", "prologBody"}
Entered  == IF InProlog THEN {calls} ELSE {}

\* The timers lie in the order of their calls and of the sessions.
Ordered ==
  /\ \A i \in 1 .. Len(timers) :
       /\ timers[i].call <= calls /\ timers[i].session <= sessionID
       /\ InProlog => timers[i].call < calls
  /\ \A i, j \in 1 .. Len(timers) : i < j =>
       timers[i].call < timers[j].call /\ timers[i].session <= timers[j].session
  /\ InProlog => CurrentCall = calls
  /\ tlsSession \in Int /\ tlsSession <= sessionID
  /\ sent.session \in Int /\ sent.session <= sessionID
  /\ ctl = "epilog" => stack # <<>> /\ Last(stack).zones = <<>>

\* The calls whose timers are of the current session
Measured == {timers[i].call : i \in {j \in 1 .. Len(timers) : timers[j].session = sessionID}}

\* With the timers of M for the acts A and the zones Z, but not yet those of E:
\* no timer is left behind, everything opened since the first of them has one,
\* and the n zones that m_ZoneStack counts are the innermost.
Since(Z, M, z) == {x \in Z \cap M : x > z}
Kept(A, Z, M, E, n, noticed) ==
  /\ M \subseteq A \cup Z
  /\ \A a \in A \ E : \A t \in M : t < a => a \in M
  /\ noticed => \A z \in {0} \cup (Z \ (M \cup E)) : n <= Cardinality(Since(Z, M, z))

Faithful == sessionID \notin torn =>
  Kept(OpenActs, OpenZones, Measured, Entered, zoneStack, tlsSession = sessionID)

\* OrbitStop has noticed the session, or no timer is of it.
Noticed ==
  LET frame == Last(stack)
  IN  stack # <<>> /\ ctl # "prolog" /\ frame.kind = "ZoneStop" /\ frame.acts # <<>>
        => tlsSession = sessionID \/ Measured = {}

Tracked == Nested /\ Linked /\ Ordered /\ Faithful /\ Noticed /\ SentFaithful

-----------------------------------------------------------------------------
(* Sequences of calls.                                                     *)

LEMMA NoElems ==
  /\ Elems(<<>>) = {} /\ Rising(<<>>)
  /\ \A q \in Seq(Nat) : Elems(q) \subseteq Nat /\ (Elems(q) = {} => q = <<>>)
<1>1. ASSUME NEW q \in Seq(Nat) PROVE Elems(q) \subseteq Nat
  BY DEF Elems
<1>2. ASSUME NEW q \in Seq(Nat), Elems(q) = {} PROVE q = <<>>
  <2>1. ASSUME Len(q) # 0 PROVE FALSE
    <3>1. 1 \in 1 .. Len(q)
      BY <2>1
    <3> QED BY <1>2, <3>1 DEF Elems
  <2> QED BY <2>1
<1>3. Elems(<<>>) = {} /\ Rising(<<>>)
  BY DEF Elems, Rising
<1> QED BY <1>1, <1>2, <1>3

LEMMA OneElem ==
  ASSUME NEW x \in Nat
  PROVE  /\ <<x>> \in Seq(Nat) /\ Elems(<<x>>) = {x} /\ Rising(<<x>>)
         /\ Len(<<x>>) = 1 /\ Last(<<x>>) = x
BY DEF Elems, Rising, Last

\* One more call is at the end.
LEMMA AppendElems ==
  ASSUME NEW q \in Seq(Nat), NEW x \in Nat
  PROVE  /\ Append(q, x) \in Seq(Nat) /\ Len(Append(q, x)) = Len(q) + 1
         /\ Elems(Append(q, x)) = Elems(q) \cup {x} /\ Last(Append(q, x)) = x
         /\ Rising(q) /\ (\A y \in Elems(q) : y < x) => Rising(Append(q, x))
<1> DEFINE n == Len(q)
           r == Append(q, x)
<1>1. /\ r \in Seq(Nat) /\ n \in Nat /\ Len(r) = n + 1 /\ r[n + 1] = x
      /\ \A i \in 1 .. n : r[i] = q[i]
  OBVIOUS
<1>2. 1 .. n + 1 = 1 .. n \cup {n + 1} /\ n + 1 \notin 1 .. n
  BY <1>1
<1>3. \A i \in 1 .. n : q[i] \in Elems(q)
  BY DEF Elems
<1>4. Elems(r) = Elems(q) \cup {x}
  <2>1. Elems(r) = {r[i] : i \in 1 .. n} \cup {r[n + 1]}
    BY <1>1, <1>2 DEF Elems
  <2>2. {r[i] : i \in 1 .. n} = {q[i] : i \in 1 .. n}
    BY <1>1
  <2> QED BY <1>1, <2>1, <2>2 DEF Elems
<1>5. ASSUME Rising(q), \A y \in Elems(q) : y < x,
             NEW i \in 1 .. n + 1, NEW j \in 1 .. n + 1, i < j
      PROVE  r[i] < r[j]
  <2>1. i \in 1 .. n
    BY <1>1, <1>5
  <2>2. CASE j \in 1 .. n
    BY <1>1, <1>5, <2>1, <2>2 DEF Rising
  <2>3. CASE j = n + 1
    BY <1>1, <1>3, <1>5, <2>1, <2>3
  <2> QED BY <1>2, <2>2, <2>3
<1>6. Last(r) = x
  BY <1>1 DEF Last
<1> HIDE DEF r
<1>7. Rising(q) /\ (\A y \in Elems(q) : y < x) => Rising(r)
  BY <1>1, <1>5 DEF Rising
<1> QED BY <1>1, <1>4, <1>6, <1>7 DEF r

\* The last of rising calls is the largest.
LEMMA FrontElems ==
  ASSUME NEW q \in Seq(Nat), q # <<>>, Rising(q)
  PROVE  /\ Front(q) \in Seq(Nat) /\ Rising(Front(q))
         /\ Last(q) \in Elems(q) /\ \A y \in Elems(q) : y <= Last(q)
         /\ Elems(Front(q)) = Elems(q) \ {Last(q)}
<1> DEFINE n == Len(q)
           r == Front(q)
<1>1. /\ n \in Nat \ {0} /\ r \in Seq(Nat) /\ Len(r) = n - 1 /\ Last(q) = q[n]
      /\ \A i \in 1 .. n - 1 : r[i] = q[i]
  BY FrontFacts DEF Last
<1>2. 1 .. n = 1 .. n - 1 \cup {n} /\ n \notin 1 .. n - 1
  BY <1>1
<1> HIDE DEF n, r
<1>3. \A i \in 1 .. n - 1 : q[i] < q[n]
  <2>1. n \in 1 .. n /\ \A i \in 1 .. n - 1 : i \in 1 .. n /\ i < n
    BY <1>1
  <2> QED BY <2>1 DEF Rising, n
<1>4. q \in [1 .. n -> Nat]
  BY DEF n
<1>5. Elems(r) = {q[i] : i \in 1 .. n - 1}
  BY <1>1 DEF Elems
<1>6. Elems(q) = {q[i] : i \in 1 .. n - 1} \cup {q[n]}
  BY <1>2 DEF Elems, n
<1>7. q[n] \notin {q[i] : i \in 1 .. n - 1} /\ q[n] \in Nat
  BY <1>1, <1>3, <1>4
<1>8. \A i \in 1 .. n - 1 : q[i] <= q[n]
  BY <1>2, <1>3, <1>4, <1>7
<1>9. Rising(r)
  BY <1>1, <1>2 DEF Rising, n
<1> QED BY <1>1, <1>5, <1>6, <1>7, <1>8, <1>9 DEF r

LEMMA FrameTypes ==
  ASSUME NEW f \in Frames
  PROVE  /\ f.acts \in Seq(Nat) /\ f.zones \in Seq(Nat) /\ f.closes \in Nat
         /\ f.site \in Nat /\ f.kind \in KindSet \cup {"Plain"}
         /\ f.acts # <<>> => Last(f.acts) \in Elems(f.acts)
BY DEF Frames, Elems, Last

LEMMA Leaves ==
  /\ LeafKinds = {"ZoneStart", "ZoneStop", "OutputDbg", "SendData"}
  /\ PopsTimer = {"Func", "UnrealActor", "Alloc", "Free"}
  /\ KindSet = LeafKinds \cup PopsTimer
  /\ \A k \in PopsTimer : k \notin LeafKinds /\ k \in TimedKinds
  /\ "Plain" \notin LeafKinds \cup PopsTimer
  /\ TimedKinds = PopsTimer \cup {"ZoneStart"}
BY KindNames DEF LeafKinds, PopsTimer, TimedKinds
-----------------------------------------------------------------------------
(* What is open on the stack.                                              *)

LEMMA StackFacts ==
  ASSUME TypeOK
  PROVE  /\ Len(stack) \in Nat
         /\ stack # <<>> => Len(stack) \in 1 .. Len(stack) /\ Last(stack) = stack[Len(stack)]
         /\ \A s \in 1 .. Len(stack) :
              /\ stack[s] \in Frames
              /\ stack[s].acts \in Seq(Nat) /\ stack[s].zones \in Seq(Nat)
              /\ stack[s].closes \in Nat /\ stack[s].site \in Nat
              /\ stack[s].kind \in KindSet \cup {"Plain"}
              /\ Elems(stack[s].acts) \subseteq Nat /\ Elems(stack[s].zones) \subseteq Nat
<1>1. Len(stack) \in Nat /\ \A s \in 1 .. Len(stack) : stack[s] \in Frames
  BY DEF TypeOK
<1>2. stack # <<>> => Len(stack) \in 1 .. Len(stack) /\ Last(stack) = stack[Len(stack)]
  BY DEF TypeOK, Last
<1> QED BY <1>1, <1>2, FrameTypes, NoElems

\* Steps that leave the calls of every frame
AsBefore(f, g) == /\ f.site = g.site /\ f.kind = g.kind /\ f.acts = g.acts
                  /\ f.zones = g.zones /\ f.closes = g.closes
Settled == /\ calls' = calls /\ Len(stack') = Len(stack)
           /\ \A s \in 1 .. Len(stack) : AsBefore(stack'[s], stack[s])

LEMMA SettledKeeps ==
  ASSUME TypeOK, Nested, Settled
  PROVE  Nested' /\ OpenActs' = OpenActs /\ OpenZones' = OpenZones
<1>1. /\ Len(stack') = Len(stack) /\ Len(stack) \in Nat /\ calls' = calls
      /\ \A s \in 1 .. Len(stack) : AsBefore(stack'[s], stack[s])
  BY StackFacts DEF Settled
<1>2. ASSUME NEW s \in 1 .. Len(stack)
      PROVE  /\ FrameOK(stack'[s], calls)
             /\ stack'[s].kind = "ZoneStart" =>
                  s > 1 /\ stack'[s].site \in Elems(stack'[s - 1].zones)
  <2>1. FrameOK(stack'[s], calls)
    BY <1>1 DEF Nested, FrameOK, AsBefore
  <2>2. ASSUME stack'[s].kind = "ZoneStart"
        PROVE  s > 1 /\ stack'[s].site \in Elems(stack'[s - 1].zones)
    <3>1. s > 1 /\ stack[s].site \in Elems(stack[s - 1].zones)
      BY <1>1, <2>2 DEF Nested, AsBefore
    <3>2. s - 1 \in 1 .. Len(stack)
      BY <1>1, <3>1
    <3> QED BY <1>1, <3>1, <3>2 DEF AsBefore
  <2> QED BY <2>1, <2>2
<1>3. ASSUME NEW s \in 1 .. Len(stack), NEW u \in 1 .. Len(stack), s < u
      PROVE  Below(stack'[s], stack'[u])
  <2>1. Below(stack[s], stack[u])
    BY <1>3 DEF Nested
  <2> QED BY <1>1, <2>1 DEF Below, AsBefore
<1>4. Nested'
  BY <1>1, <1>2, <1>3 DEF Nested
<1>5. \A s \in 1 .. Len(stack) : \A x :
        /\ ActOpen(stack'[s], x) <=> ActOpen(stack[s], x)
        /\ ZoneOpen(stack'[s], x) <=> ZoneOpen(stack[s], x)
  BY <1>1 DEF ActOpen, ZoneOpen, AsBefore
<1> QED BY <1>1, <1>4, <1>5 DEF OpenActs, OpenZones

\* What a frame has open is what it has open in a stack.
LEMMA InFrame ==
  ASSUME TypeOK, Nested, NEW s \in 1 .. Len(stack), NEW x
  PROVE  /\ ActOpen(stack[s], x) => x \in OpenActs
         /\ ZoneOpen(stack[s], x) => x \in OpenZones
<1>1. /\ FrameOK(stack[s], calls) /\ stack[s].site \in Nat /\ calls \in Nat
      /\ stack[s].closes \in Nat
      /\ Elems(stack[s].acts) \subseteq Nat /\ Elems(stack[s].zones) \subseteq Nat
  BY StackFacts DEF Nested, TypeOK
<1>2. ActOpen(stack[s], x) => x \in 1 .. calls
  BY <1>1 DEF ActOpen, FrameOK
<1>3. ZoneOpen(stack[s], x) => x \in 1 .. calls
  <2>1. x \in Elems(stack[s].zones) => x \in 1 .. calls
    BY <1>1 DEF FrameOK
  <2>2. stack[s].kind = "ZoneStop" => stack[s].closes \in 1 .. calls
    BY <1>1 DEF FrameOK
  <2> QED BY <2>1, <2>2 DEF ZoneOpen
<1> QED BY <1>2, <1>3 DEF OpenActs, OpenZones

\* In the top frame, when its own zones are closed, the newest call is open.
Newest(x) == \A y \in OpenActs \cup OpenZones : y <= x

\* What frames below the top one have open
LEMMA OpenBelow ==
  ASSUME TypeOK, Nested, NEW s \in 1 .. Len(stack), s # Len(stack), NEW x,
         ActOpen(stack[s], x) \/ ZoneOpen(stack[s], x)
  PROVE  LET top == Last(stack)
         IN  /\ x \in Nat /\ x <= top.site
             /\ x = top.site => top.kind = "ZoneStart" /\ ZoneOpen(stack[s], x)
                                /\ ~ActOpen(stack[s], x)
             /\ top.kind = "ZoneStop" => x < top.closes
<1> DEFINE f == stack[s]
           top == Last(stack)
<1>1. /\ Len(stack) \in Nat /\ Len(stack) \in 1 .. Len(stack) /\ s < Len(stack)
      /\ top = stack[Len(stack)]
  <2>1. stack # <<>> /\ s < Len(stack)
    BY StackFacts
  <2> QED BY <2>1, StackFacts
<1>2. Below(f, top)
  BY <1>1 DEF Nested
<1>3. /\ Elems(f.acts) \subseteq Nat /\ Elems(f.zones) \subseteq Nat
      /\ top.site \in Nat /\ top.closes \in Nat
  BY <1>1, StackFacts
<1> HIDE DEF f, top
<1>4. f.kind # "ZoneStop"
  BY <1>2, Leaves DEF Below
<1>5. x \in Elems(f.acts) \/ x \in Elems(f.zones)
  BY <1>4 DEF ActOpen, ZoneOpen, f
<1>6. top.kind = "ZoneStop" => x < top.closes
  BY <1>2, <1>5 DEF Below
<1>7. CASE x \in Elems(f.acts)
  BY <1>2, <1>3, <1>6, <1>7 DEF Below, top
<1>8. CASE x \in Elems(f.zones) /\ x \notin Elems(f.acts)
  <2>1. x < top.site \/ (x = top.site /\ top.kind = "ZoneStart")
    BY <1>2, <1>8 DEF Below
  <2>2. ~ActOpen(f, x) /\ ZoneOpen(f, x)
    BY <1>8 DEF ActOpen, ZoneOpen
  <2> QED BY <1>3, <1>6, <1>8, <2>1, <2>2 DEF top, f
<1> QED BY <1>5, <1>7, <1>8


\* An epilog that pops a timer is of the newest call that is open.
LEMMA TopTimer ==
  ASSUME TypeOK, Nested, stack # <<>>, Last(stack).acts # <<>>,
         Last(stack).zones = <<>>, Last(stack).kind \notin LeafKinds
  PROVE  /\ CurrentCall \in OpenActs /\ CurrentCall \notin OpenZones
         /\ Newest(CurrentCall)
<1> DEFINE L == Len(stack)
           top == Last(stack)
           c == CurrentCall
<1>1. /\ L \in 1 .. L /\ top = stack[L] /\ top.acts \in Seq(Nat) /\ top.site \in Nat
      /\ FrameOK(top, calls) /\ Elems(top.acts) \subseteq Nat
  BY StackFacts DEF Nested
<1>2. /\ c \in Elems(top.acts) /\ c \in Nat /\ top.site <= c
      /\ \A y \in Elems(top.acts) : y <= c
  BY <1>1, FrontElems DEF CurrentCall, FrameOK
<1>3. top.kind \notin {"ZoneStart", "ZoneStop"}
  BY Leaves
<1> HIDE DEF L, top, c
<1>4. \A x : /\ ActOpen(top, x) <=> x \in Elems(top.acts)
             /\ ~ZoneOpen(top, x)
  BY <1>3, NoElems DEF ActOpen, ZoneOpen, top
<1>5. c \in OpenActs
  BY <1>1, <1>2, <1>4, InFrame DEF L
<1>6. ASSUME NEW s \in 1 .. L, NEW x, ActOpen(stack[s], x) \/ ZoneOpen(stack[s], x)
      PROVE  x <= c /\ (ZoneOpen(stack[s], x) => x # c)
  <2>1. CASE s = L
    BY <1>1, <1>2, <1>4, <1>6, <2>1
  <2>2. CASE s # L
    <3>1. /\ x \in Nat /\ x <= top.site
          /\ x = top.site => top.kind = "ZoneStart"
      BY <1>6, <2>2, OpenBelow DEF top, L
    <3>2. x < top.site
      BY <1>1, <1>3, <3>1
    <3> QED BY <1>1, <1>2, <3>1, <3>2
  <2> QED BY <2>1, <2>2
<1>7. c \notin OpenZones /\ Newest(c)
  BY <1>6 DEF OpenActs, OpenZones, Newest, L
<1> QED BY <1>5, <1>7 DEF c

\* A hooked OrbitStop closes the newest zone; no call in progress is newer.
LEMMA TopZone ==
  ASSUME TypeOK, Nested, stack # <<>>, Last(stack).acts # <<>>,
         Last(stack).kind = "ZoneStop"
  PROVE  /\ Last(stack).closes \in OpenZones /\ Last(stack).closes \notin OpenActs
         /\ Last(stack).closes \in Nat \ {0} /\ Newest(Last(stack).closes)
<1> DEFINE L == Len(stack)
           top == Last(stack)
           c == Last(stack).closes
<1>1. /\ L \in 1 .. L /\ top = stack[L] /\ top.zones \in Seq(Nat) /\ FrameOK(top, calls)
      /\ top.closes \in Nat /\ top.kind \in LeafKinds
  BY StackFacts, Leaves DEF Nested
<1>2. top.zones = <<>> /\ c \in Nat \ {0}
  BY <1>1 DEF FrameOK
<1> HIDE DEF L, top
<1>4. \A x : /\ ~ActOpen(top, x)
             /\ ZoneOpen(top, x) <=> x = c
  BY <1>1, <1>2, NoElems DEF ActOpen, ZoneOpen, top
<1>5. c \in OpenZones
  BY <1>1, <1>4, InFrame DEF L
<1>6. ASSUME NEW s \in 1 .. L, NEW x, ActOpen(stack[s], x) \/ ZoneOpen(stack[s], x)
      PROVE  x <= c /\ (ActOpen(stack[s], x) => x # c)
  <2>1. CASE s = L
    BY <1>1, <1>2, <1>4, <1>6, <2>1
  <2>2. CASE s # L
    <3>1. x \in Nat /\ x < c
      BY <1>1, <1>6, <2>2, OpenBelow DEF top, L
    <3> QED BY <1>1, <1>2, <3>1
  <2> QED BY <2>1, <2>2
<1>7. c \notin OpenActs /\ Newest(c)
  BY <1>6 DEF OpenActs, OpenZones, Newest, L
<1> QED BY <1>2, <1>5, <1>7

\* What a frame that leaves takes with it
ActsOfTop  == IF Last(stack).kind \notin LeafKinds THEN Elems(Last(stack).acts) ELSE {}
ZonesOfTop == IF Last(stack).kind = "ZoneStop" /\ Last(stack).acts # <<>>
                THEN {Last(stack).closes} ELSE {}

LEMMA TopApart ==
  ASSUME TypeOK, Nested, stack # <<>>, Last(stack).zones = <<>>,
         NEW s \in 1 .. Len(stack), s # Len(stack), NEW x
  PROVE  /\ ActOpen(stack[s], x) => x \notin ActsOfTop
         /\ ZoneOpen(stack[s], x) => x \notin ZonesOfTop
<1> DEFINE top == Last(stack)
<1>1. /\ top.site \in Nat /\ FrameOK(top, calls) /\ Elems(top.acts) \subseteq Nat
      /\ top.closes \in Nat
  BY StackFacts DEF Nested
<1>2. ASSUME ActOpen(stack[s], x) PROVE x \notin ActsOfTop
  <2>1. x \in Nat /\ x < top.site
    BY <1>1, <1>2, OpenBelow
  <2>2. \A a \in Elems(top.acts) : top.site <= a
    BY <1>1 DEF FrameOK
  <2> QED BY <1>1, <2>1, <2>2 DEF ActsOfTop
<1>3. ASSUME ZoneOpen(stack[s], x) PROVE x \notin ZonesOfTop
  BY <1>1, <1>3, OpenBelow DEF ZonesOfTop
<1> QED BY <1>2, <1>3

LEMMA LeaveOpens ==
  ASSUME TypeOK, Nested, stack # <<>>, Last(stack).zones = <<>>,
         stack' = Front(stack), calls' = calls
  PROVE  /\ Nested' /\ OpenActs' = OpenActs \ ActsOfTop
         /\ OpenZones' = OpenZones \ ZonesOfTop
<1> DEFINE L == Len(stack)
           top == Last(stack)
<1>1. /\ L \in Nat \ {0} /\ Len(stack') = L - 1 /\ top = stack[L]
      /\ \A s \in 1 .. L - 1 : stack'[s] = stack[s]
  BY FrontFacts DEF TypeOK, Last
<1>2. 1 .. L = 1 .. L - 1 \cup {L} /\ L \notin 1 .. L - 1
  BY <1>1
<1>3. \A s \in 1 .. L - 1 : s > 1 => s - 1 \in 1 .. L - 1
  BY <1>1
<1>4. Nested'
  BY <1>1, <1>2, <1>3 DEF Nested
<1>5. \A x : /\ ActOpen(top, x) <=> x \in ActsOfTop
             /\ ZoneOpen(top, x) <=> x \in ZonesOfTop
  BY NoElems DEF ActOpen, ZoneOpen, ActsOfTop, ZonesOfTop
<1>6. \A s \in 1 .. L - 1 : \A x : /\ ActOpen(stack[s], x) => x \notin ActsOfTop
                                   /\ ZoneOpen(stack[s], x) => x \notin ZonesOfTop
  BY <1>1, <1>2, TopApart
<1> HIDE DEF L, top
<1>7. OpenActs' = {x \in 1 .. calls : \E s \in 1 .. L - 1 : ActOpen(stack[s], x)}
  BY <1>1 DEF OpenActs
<1>8. OpenZones' = {x \in 1 .. calls : \E s \in 1 .. L - 1 : ZoneOpen(stack[s], x)}
  BY <1>1 DEF OpenZones
<1>9. /\ OpenActs = {x \in 1 .. calls : \/ \E s \in 1 .. L - 1 : ActOpen(stack[s], x)
                                        \/ ActOpen(top, x)}
      /\ OpenZones = {x \in 1 .. calls : \/ \E s \in 1 .. L - 1 : ZoneOpen(stack[s], x)
                                         \/ ZoneOpen(top, x)}
  <2>1. \A x : /\ (\E s \in 1 .. L : ActOpen(stack[s], x)) <=>
                    \/ \E s \in 1 .. L - 1 : ActOpen(stack[s], x)
                    \/ ActOpen(top, x)
               /\ (\E s \in 1 .. L : ZoneOpen(stack[s], x)) <=>
                    \/ \E s \in 1 .. L - 1 : ZoneOpen(stack[s], x)
                    \/ ZoneOpen(top, x)
    BY <1>1, <1>2
  <2>2. /\ OpenActs = {x \in 1 .. calls : \E s \in 1 .. L : ActOpen(stack[s], x)}
        /\ OpenZones = {x \in 1 .. calls : \E s \in 1 .. L : ZoneOpen(stack[s], x)}
    BY DEF OpenActs, OpenZones, L
  <2> QED BY <2>1, <2>2
<1> QED BY <1>4, <1>5, <1>6, <1>7, <1>8, <1>9

\* An epilog that goes to the epilog of a stub ends the newest function of its
\* frame.
LEMMA DropOpens ==
  ASSUME TypeOK, Nested, stack # <<>>, Last(stack).zones = <<>>,
         Last(stack).acts # <<>>, Last(stack).kind \notin LeafKinds,
         stack' = [stack EXCEPT ![Len(stack)].acts = Front(Last(stack).acts)],
         calls' = calls
  PROVE  /\ Nested' /\ OpenActs' = OpenActs \ {CurrentCall}
         /\ OpenZones' = OpenZones
<1> DEFINE L == Len(stack)
           top == Last(stack)
           c == CurrentCall
           new == [top EXCEPT !.acts = Front(top.acts)]
<1>1. /\ L \in 1 .. L /\ L \in Nat /\ top = stack[L] /\ top \in Frames
      /\ top.acts \in Seq(Nat) /\ top.site \in Nat
      /\ FrameOK(top, calls) /\ Elems(top.acts) \subseteq Nat
  BY StackFacts DEF Nested
<1>2. /\ Front(top.acts) \in Seq(Nat) /\ Rising(Front(top.acts))
      /\ Elems(Front(top.acts)) = Elems(top.acts) \ {c} /\ c \in Elems(top.acts)
  BY <1>1, FrontElems DEF FrameOK, CurrentCall
<1>3. new \in Frames /\ new.acts = Front(top.acts)
      /\ new.site = top.site /\ new.kind = top.kind /\ new.zones = top.zones
      /\ new.closes = top.closes
  BY <1>1, <1>2 DEF Frames
<1>4. stack' = [stack EXCEPT ![Len(stack)] = new]
  BY <1>1
<1> HIDE DEF new
<1>5. Len(stack') = L /\ stack'[L] = new /\ \A s \in 1 .. L : s # L => stack'[s] = stack[s]
  <2>1. stack \in Seq(Frames)
    BY DEF TypeOK
  <2> QED BY <1>3, <1>4, <2>1, ChangeTop
<1> HIDE DEF L, top, c
<1>6. FrameOK(new, calls)
  BY <1>1, <1>2, <1>3 DEF FrameOK, top
<1>7. \A s \in 1 .. L : /\ FrameOK(stack'[s], calls)
                         /\ stack'[s].site = stack[s].site /\ stack'[s].kind = stack[s].kind
                         /\ stack'[s].zones = stack[s].zones
                         /\ stack'[s].closes = stack[s].closes
                         /\ Elems(stack'[s].acts) \subseteq Elems(stack[s].acts)
  <2>1. \A s \in 1 .. L : FrameOK(stack[s], calls)
    BY DEF Nested, L
  <2>2. /\ new.site = stack[L].site /\ new.kind = stack[L].kind
        /\ new.zones = stack[L].zones /\ new.closes = stack[L].closes
        /\ Elems(new.acts) \subseteq Elems(stack[L].acts)
    BY <1>1, <1>2, <1>3
  <2> QED BY <1>5, <1>6, <2>1, <2>2
<1>8. Nested'
  <2>1. \A s \in 1 .. L : s > 1 => s - 1 \in 1 .. L
    BY <1>1
  <2>2. \A s \in 1 .. L : stack'[s].kind = "ZoneStart" =>
          s > 1 /\ stack'[s].site \in Elems(stack'[s - 1].zones)
    BY <1>7, <2>1 DEF Nested, L
  <2>3. ASSUME NEW s \in 1 .. L, NEW u \in 1 .. L, s < u
        PROVE  Below(stack'[s], stack'[u])
    <3>1. Below(stack[s], stack[u])
      BY <2>3 DEF Nested, L
    <3> QED BY <1>7, <3>1 DEF Below
  <2> QED BY <1>5, <1>7, <2>2, <2>3 DEF Nested, L
<1>9. top.kind \notin LeafKinds /\ top.kind # "ZoneStop"
  BY Leaves DEF top
<1>10. \A x : /\ ActOpen(top, x) <=> x \in Elems(top.acts)
              /\ ActOpen(new, x) <=> x \in Elems(top.acts) \ {c}
              /\ ZoneOpen(new, x) <=> ZoneOpen(top, x)
  BY <1>2, <1>3, <1>9 DEF ActOpen, ZoneOpen
<1>11. \A s \in 1 .. L : s # L => ~ActOpen(stack[s], c)
  <2>1. c \in ActsOfTop
    BY <1>2, <1>9 DEF ActsOfTop, top
  <2> QED BY <2>1, TopApart DEF L
<1>12. \A s \in 1 .. L : \A x : /\ ActOpen(stack'[s], x) <=> ActOpen(stack[s], x) /\ x # c
                                /\ ZoneOpen(stack'[s], x) <=> ZoneOpen(stack[s], x)
  BY <1>1, <1>5, <1>10, <1>11
<1>13. OpenActs' = OpenActs \ {c}
  BY <1>5, <1>12 DEF OpenActs, L
<1>14. OpenZones' = OpenZones
  BY <1>5, <1>12 DEF OpenZones, L
<1> QED BY <1>8, <1>13, <1>14 DEF c
-----------------------------------------------------------------------------
(* What a call and a jump open.                                            *)

\* The stack after a call: the zones of the caller change, and g joins.
CallsFrom(k, g) ==
  LET L == Len(stack)
  IN  /\ L \in Nat /\ Len(stack') = L + 1 /\ stack'[L + 1] = g
      /\ g.site = calls + 1 /\ g.kind = k /\ g.zones = <<>>
      /\ g.acts = IF k \in enabled THEN <<calls + 1>> ELSE <<>>
      /\ g.closes = IF k = "ZoneStop" THEN Last(stack[L].zones) ELSE 0
      /\ \A s \in 1 .. L :
           /\ stack'[s].site = stack[s].site /\ stack'[s].kind = stack[s].kind
           /\ stack'[s].acts = stack[s].acts /\ stack'[s].closes = stack[s].closes
           /\ s # L => stack'[s].zones = stack[s].zones
           /\ s = L => stack'[s].zones = ZonesAfter(k, stack[s].zones)
                       /\ stack[s].kind \notin LeafKinds
      /\ L \notin 1 .. L => k \notin {"ZoneStart", "ZoneStop"}
      /\ k = "ZoneStop" => stack[L].zones # <<>>
      /\ calls' = calls + 1

LEMMA CallShape ==
  ASSUME TypeOK, NEW k \in Kinds \cup {"Plain"}, Call(k)
  PROVE  CallsFrom(k, stack'[Len(stack) + 1])
<1> DEFINE L      == Len(stack)
           zones  == ZonesAfter(k, stack[L].zones)
           top    == [stack[L] EXCEPT !.zones = zones]
           caller == IF stack = <<>> THEN <<>>
                     ELSE [stack EXCEPT ![Len(stack)].zones = ZonesAfter(k, Last(stack).zones)]
           closes == IF k = "ZoneStop" THEN Last(Last(stack).zones) ELSE 0
           f      == NewFrame(k, closes)
<1>1. /\ stack' = Append(caller, f) /\ calls' = calls + 1
      /\ IF stack = <<>> THEN k \notin {"ZoneStart", "ZoneStop"}
                         ELSE Last(stack).kind \notin LeafKinds
      /\ k = "ZoneStop" => Last(stack).zones # <<>>
  BY DEF Call
<1>2. /\ L \in Nat /\ (stack = <<>> <=> L \notin 1 .. L)
      /\ stack # <<>> => Last(stack) = stack[L] /\ stack[L] \in Frames
  <2>1. L \in Nat /\ (stack = <<>> <=> L = 0)
    BY DEF TypeOK
  <2> QED BY <2>1, StackFacts
<1>3. /\ Len(caller) = L /\ caller \in Seq(Frames)
      /\ \A s \in 1 .. L : s # L => caller[s] = stack[s]
      /\ stack # <<>> => caller[L] = top
  <2>1. CASE stack = <<>>
    BY <1>2, <2>1
  <2>2. CASE stack # <<>>
    <3>1. zones \in Seq(Nat)
      <4>1. calls + 1 \in Nat /\ stack[L].zones \in Seq(Nat)
        BY <1>2, <2>2, StackFacts DEF TypeOK
      <4>2. Append(stack[L].zones, calls + 1) \in Seq(Nat)
        BY <4>1
      <4> QED BY <4>1, <4>2, FrontKeeps DEF ZonesAfter
    <3>2. top \in Frames /\ caller = [stack EXCEPT ![L] = top]
      <4>1. top \in Frames
        BY <1>2, <2>2, <3>1 DEF Frames
      <4>2. caller = [stack EXCEPT ![L] = top]
        BY <1>2, <2>2
      <4> QED BY <4>1, <4>2
    <3>3. stack \in Seq(Frames)
      BY DEF TypeOK
    <3> HIDE DEF top, caller
    <3> QED BY <1>2, <2>2, <3>2, <3>3, ChangeTop
  <2> QED BY <2>1, <2>2
<1>4. /\ f.site = calls + 1 /\ f.kind = k /\ f.zones = <<>>
      /\ f.acts = IF k \in enabled THEN <<calls + 1>> ELSE <<>>
      /\ f.closes = closes
  BY DEF NewFrame
<1>5. stack # <<>> => /\ top.site = stack[L].site /\ top.kind = stack[L].kind
                      /\ top.acts = stack[L].acts /\ top.closes = stack[L].closes
                      /\ top.zones = zones
  BY <1>2 DEF Frames
<1> HIDE DEF top, caller, f
<1>6. /\ Len(stack') = L + 1 /\ stack'[L + 1] = f
      /\ \A s \in 1 .. L : stack'[s] = caller[s]
  BY <1>1, <1>3
<1>7. closes = IF k = "ZoneStop" THEN Last(stack[L].zones) ELSE 0
  BY <1>1, <1>2
<1> HIDE DEF closes
<1>8. \A s \in 1 .. L :
           /\ stack'[s].site = stack[s].site /\ stack'[s].kind = stack[s].kind
           /\ stack'[s].acts = stack[s].acts /\ stack'[s].closes = stack[s].closes
           /\ s # L => stack'[s].zones = stack[s].zones
           /\ s = L => stack'[s].zones = ZonesAfter(k, stack[s].zones)
                       /\ stack[s].kind \notin LeafKinds
  <2>1. \A s \in 1 .. L : s = L => stack # <<>>
    BY <1>2
  <2> QED BY <1>1, <1>2, <1>3, <1>5, <1>6, <2>1
<1>9. /\ L \notin 1 .. L => k \notin {"ZoneStart", "ZoneStop"}
      /\ k = "ZoneStop" => stack[L].zones # <<>>
  BY <1>1, <1>2
<1> HIDE DEF L
<1>10. /\ Len(stack') = L + 1 /\ stack'[L + 1].site = calls + 1
       /\ stack'[L + 1].kind = k /\ stack'[L + 1].zones = <<>>
       /\ stack'[L + 1].acts = IF k \in enabled THEN <<calls + 1>> ELSE <<>>
       /\ stack'[L + 1].closes = IF k = "ZoneStop" THEN Last(stack[L].zones) ELSE 0
  BY <1>4, <1>6, <1>7
<1> QED BY <1>1, <1>2, <1>8, <1>9, <1>10 DEF CallsFrom, L

\* What is open after a call
ActsCalled(k)  == IF k \in enabled /\ k \notin LeafKinds THEN {calls + 1} ELSE {}
ZonesCalled(k) == IF k = "ZoneStart" THEN OpenZones \cup {calls + 1}
                  ELSE IF k = "ZoneStop" /\ k \notin enabled
                    THEN OpenZones \ {Last(Last(stack).zones)}
                  ELSE OpenZones

\* The zones of the caller after a call
LEMMA CallerZones ==
  ASSUME TypeOK, Nested, stack # <<>>, NEW k, k = "ZoneStop" => Last(stack).zones # <<>>
  PROVE  LET q == Last(stack).zones
             r == ZonesAfter(k, q)
         IN  /\ r \in Seq(Nat) /\ Rising(r)
             /\ Elems(r) = IF k = "ZoneStart" THEN Elems(q) \cup {calls + 1}
                           ELSE IF k = "ZoneStop" THEN Elems(q) \ {Last(q)}
                           ELSE Elems(q)
             /\ k = "ZoneStop" => Last(q) \in Elems(q) /\ \A y \in Elems(q) : y <= Last(q)
<1> DEFINE q == Last(stack).zones
<1>1. q \in Seq(Nat) /\ Rising(q) /\ (\A y \in Elems(q) : y < calls + 1) /\ calls + 1 \in Nat
  <2>1. FrameOK(Last(stack), calls) /\ q \in Seq(Nat) /\ calls \in Nat /\ Elems(q) \subseteq Nat
    BY StackFacts DEF Nested, TypeOK
  <2>2. \A y \in Elems(q) : y <= calls
    BY <2>1 DEF FrameOK
  <2>3. Rising(q)
    BY <2>1 DEF FrameOK
  <2> QED BY <2>1, <2>2, <2>3
<1> HIDE DEF q
<1>2. CASE k = "ZoneStart"
  BY <1>1, <1>2, AppendElems DEF ZonesAfter, q
<1>3. CASE k = "ZoneStop"
  BY <1>1, <1>3, FrontElems DEF ZonesAfter, q
<1>4. CASE k \notin {"ZoneStart", "ZoneStop"}
  BY <1>1, <1>4 DEF ZonesAfter, q
<1> QED BY <1>2, <1>3, <1>4


LEMMA CallNests ==
  ASSUME TypeOK, Nested, NEW k, NEW g, CallsFrom(k, g)
  PROVE  Nested'
<1> DEFINE L == Len(stack)
           c == calls + 1
           q == stack[L].zones
           r == ZonesAfter(k, q)
<1>1. /\ L \in Nat /\ calls \in Nat /\ c \in Nat /\ calls' = c /\ Len(stack') = L + 1
      /\ stack'[L + 1] = g /\ 1 .. L + 1 = 1 .. L \cup {L + 1} /\ L + 1 \notin 1 .. L
      /\ \A s \in 1 .. L : s <= L /\ (s # L => s < L)
  BY DEF CallsFrom, TypeOK
<1>2. /\ g.site = c /\ g.kind = k /\ g.zones = <<>>
      /\ g.acts = (IF k \in enabled THEN <<c>> ELSE <<>>)
      /\ g.closes = IF k = "ZoneStop" THEN Last(q) ELSE 0
  BY DEF CallsFrom
<1>3. \A s \in 1 .. L :
        /\ stack'[s].site = stack[s].site /\ stack'[s].kind = stack[s].kind
        /\ stack'[s].acts = stack[s].acts /\ stack'[s].closes = stack[s].closes
        /\ s # L => stack'[s].zones = stack[s].zones
        /\ s = L => stack'[s].zones = r /\ stack[s].kind \notin LeafKinds
  BY DEF CallsFrom
<1>4. L \in 1 .. L =>
        /\ r \in Seq(Nat) /\ Rising(r)
        /\ Elems(r) = IF k = "ZoneStart" THEN Elems(q) \cup {c}
                      ELSE IF k = "ZoneStop" THEN Elems(q) \ {Last(q)}
                      ELSE Elems(q)
        /\ k = "ZoneStop" => Last(q) \in Elems(q) /\ \A y \in Elems(q) : y <= Last(q)
  <2>1. ASSUME L \in 1 .. L PROVE stack # <<>> /\ Last(stack) = stack[L]
    BY <2>1 DEF Last
  <2>2. k = "ZoneStop" => stack[L].zones # <<>>
    BY DEF CallsFrom
  <2> QED BY <2>1, <2>2, CallerZones
<1>5. \A s \in 1 .. L : /\ FrameOK(stack[s], calls) /\ stack[s].site \in Nat
                        /\ Elems(stack[s].acts) \subseteq Nat
                        /\ Elems(stack[s].zones) \subseteq Nat
  BY StackFacts DEF Nested
<1>6. /\ k \in {"ZoneStart", "ZoneStop"} => L \in 1 .. L
      /\ Elems(g.zones) = {} /\ Rising(g.zones) /\ Elems(g.acts) \subseteq {c}
      /\ Rising(g.acts) /\ Len(g.acts) <= 1
  BY <1>1, <1>2, NoElems, OneElem DEF CallsFrom
<1> HIDE DEF q, r, L
<1>0. \A x \in Nat : x <= calls => x < c
  BY <1>1
<1> HIDE DEF c
<1>7. FrameOK(g, c)
  <2>1. 1 <= c
    BY <1>1 DEF c
  <2>2. k = "ZoneStop" => 1 <= g.closes /\ g.closes < c
    <3>1. ASSUME k = "ZoneStop" PROVE Last(q) \in Elems(q)
      BY <1>4, <1>6, <3>1
    <3>2. L \in 1 .. L => \A z \in Elems(q) : z \in Nat /\ 1 <= z /\ z < c
      <4>1. ASSUME L \in 1 .. L, NEW z \in Elems(q) PROVE z \in Nat /\ 1 <= z /\ z <= calls
        <5>1. FrameOK(stack[L], calls) /\ z \in Elems(stack[L].zones) /\ z \in Nat
              /\ stack[L].site \in Nat
          BY <1>5, <4>1 DEF q
        <5> QED BY <5>1 DEF FrameOK
      <4> QED BY <1>1, <4>1 DEF c
    <3> QED BY <1>2, <1>6, <3>1, <3>2
  <2> QED BY <1>1, <1>2, <1>6, <2>1, <2>2 DEF FrameOK
<1>8. ASSUME NEW s \in 1 .. L PROVE FrameOK(stack'[s], c)
  <2>1. FrameOK(stack[s], c)
    <3>1. \A x \in Nat : x <= calls => x <= c
      BY <1>1 DEF c
    <3> QED BY <1>5, <3>1 DEF FrameOK
  <2>2. CASE s # L
    BY <1>3, <2>1, <2>2 DEF FrameOK
  <2>3. CASE s = L
    <3>1. \A z \in Elems(r) : z \in Elems(q) \/ z = c
      BY <1>4, <2>3
    <3>2. stack[s].site < c /\ \A a \in Elems(stack[s].acts) : a < c
      <4>1. stack[s].site <= calls /\ \A a \in Elems(stack[s].acts) : a <= calls
        BY <1>5 DEF FrameOK
      <4>2. stack[s].site \in Nat /\ Elems(stack[s].acts) \subseteq Nat
        BY <1>5
      <4> QED BY <1>0, <4>1, <4>2
    <3>3. \A z \in Elems(r) : /\ stack[s].site < z /\ z <= c
                              /\ \A a \in Elems(stack[s].acts) : a < z
      BY <1>1, <2>1, <2>3, <3>1, <3>2 DEF FrameOK, q
    <3>4. stack[s].kind \notin LeafKinds /\ stack[s].kind # "ZoneStop"
      BY <1>3, <2>3, Leaves
    <3> QED BY <1>3, <1>4, <2>1, <2>3, <3>3, <3>4 DEF FrameOK
  <2> QED BY <2>2, <2>3
<1>9. ASSUME NEW s \in 1 .. L, NEW u \in 1 .. L, s < u PROVE Below(stack'[s], stack'[u])
  <2>1. s # L
    BY <1>1, <1>9
  <2>2. Below(stack[s], stack[u])
    BY <1>9 DEF Nested, L
  <2> QED BY <1>3, <2>1, <2>2 DEF Below
<1>10. ASSUME NEW s \in 1 .. L PROVE Below(stack'[s], g)
  <2>1. L \in 1 .. L /\ s <= L
    BY <1>1
  <2>2. s # L => Below(stack[s], stack[L])
    BY <1>1, <2>1 DEF Nested, L
  <2>3. stack[s].kind \notin LeafKinds
    BY <1>3, <2>2 DEF Below
  <2>4. /\ stack[s].site < c
        /\ \A a \in Elems(stack[s].acts) : a < c
        /\ \A z \in Elems(stack[s].zones) : z < c
    <3>1. /\ stack[s].site <= calls
          /\ \A a \in Elems(stack[s].acts) : a <= calls
          /\ \A z \in Elems(stack[s].zones) : z <= calls
      BY <1>5 DEF FrameOK
    <3>2. /\ stack[s].site \in Nat /\ Elems(stack[s].acts) \subseteq Nat
          /\ Elems(stack[s].zones) \subseteq Nat
      BY <1>5
    <3> QED BY <1>0, <3>1, <3>2
  <2>5. \A z \in Elems(stack'[s].zones) : z < c \/ (z = c /\ k = "ZoneStart")
    <3>1. CASE s # L
      BY <1>3, <2>4, <3>1
    <3>2. CASE s = L
      BY <1>3, <1>4, <2>1, <2>4, <3>2 DEF q
    <3> QED BY <3>1, <3>2
  <2>6. k = "ZoneStop" => \A x \in Elems(stack'[s].acts) \cup Elems(stack'[s].zones) :
                             x < g.closes
    <3> SUFFICES ASSUME k = "ZoneStop", NEW x \in Elems(stack'[s].acts) \cup Elems(stack'[s].zones)
                 PROVE  x < Last(q)
      BY <1>2
    <3>1. Last(q) \in Elems(stack[L].zones) /\ Last(q) \in Nat
      BY <1>4, <1>5, <2>1 DEF q
    <3>2. stack[L].site < Last(q) /\ \A a \in Elems(stack[L].acts) : a < Last(q)
      BY <1>5, <2>1, <3>1 DEF FrameOK
    <3>3. CASE s # L
      <4>1. x \in Nat /\ x <= stack[L].site
        <5>1. x \in Elems(stack[s].acts) \/ x \in Elems(stack[s].zones)
          BY <1>3, <3>3
        <5>2. \A y \in Elems(stack[s].acts) : y < stack[L].site
          BY <2>2, <3>3 DEF Below
        <5>3. \A y \in Elems(stack[s].zones) : y <= stack[L].site
          BY <1>5, <2>1, <2>2, <3>3 DEF Below
        <5> QED BY <1>5, <2>1, <5>1, <5>2, <5>3
      <4> QED BY <1>5, <2>1, <3>1, <3>2, <4>1
    <3>4. CASE s = L
      <4>1. x \in Elems(stack[L].acts) \/ x \in Elems(q) \ {Last(q)}
        BY <1>3, <1>4, <2>1, <3>4
      <4>2. x \in Elems(q) \ {Last(q)} => x < Last(q)
        <5>1. /\ Elems(q) \subseteq Nat
              /\ \A y \in Elems(q) : y <= Last(q)
          BY <1>4, <1>5, <2>1 DEF q
        <5> QED BY <3>1, <5>1
      <4> QED BY <3>2, <4>1, <4>2
    <3> QED BY <3>3, <3>4
  <2> QED BY <1>2, <1>3, <2>3, <2>4, <2>5, <2>6 DEF Below
<1>11. ASSUME NEW s \in 1 .. L + 1, stack'[s].kind = "ZoneStart"
       PROVE  s > 1 /\ stack'[s].site \in Elems(stack'[s - 1].zones)
  <2>1. CASE s = L + 1
    <3>1. k = "ZoneStart" /\ L \in 1 .. L /\ s - 1 = L /\ s > 1
      BY <1>1, <1>2, <1>6, <1>11, <2>1
    <3> QED BY <1>1, <1>2, <1>3, <1>4, <2>1, <3>1
  <2>2. CASE s \in 1 .. L
    <3>1. s > 1 /\ stack[s].site \in Elems(stack[s - 1].zones)
      BY <1>3, <1>11, <2>2 DEF Nested, L
    <3>2. s - 1 \in 1 .. L /\ s - 1 # L
      BY <1>1, <2>2, <3>1
    <3> QED BY <1>3, <2>2, <3>1, <3>2
  <2> QED BY <1>1, <2>1, <2>2
<1>12. ASSUME NEW s \in 1 .. L + 1, NEW u \in 1 .. L + 1, s < u
       PROVE  Below(stack'[s], stack'[u])
  <2>1. s \in 1 .. L
    BY <1>1, <1>12
  <2> QED BY <1>1, <1>9, <1>10, <1>12, <2>1
<1>13. \A s \in 1 .. L + 1 : FrameOK(stack'[s], c)
  BY <1>1, <1>7, <1>8
<1> QED BY <1>1, <1>11, <1>12, <1>13 DEF Nested


\* The calls and zones of frames that were there are of calls made before.
LEMMA OpenBefore ==
  ASSUME TypeOK, Nested
  PROVE  /\ OpenActs = {x \in 1 .. calls + 1 : \E s \in 1 .. Len(stack) : ActOpen(stack[s], x)}
         /\ OpenZones = {x \in 1 .. calls + 1 : \E s \in 1 .. Len(stack) : ZoneOpen(stack[s], x)}
<1>1. \A s \in 1 .. Len(stack) : \A x : /\ ActOpen(stack[s], x) => x \in OpenActs
                                        /\ ZoneOpen(stack[s], x) => x \in OpenZones
  BY InFrame
<1>2. 1 .. calls \subseteq 1 .. calls + 1
  BY DEF TypeOK
<1> QED BY <1>1, <1>2 DEF OpenActs, OpenZones

LEMMA CallOpens ==
  ASSUME TypeOK, Nested, NEW k, NEW g, CallsFrom(k, g)
  PROVE  /\ OpenActs' = OpenActs \cup ActsCalled(k)
         /\ OpenZones' = ZonesCalled(k)
<1> DEFINE L == Len(stack)
           c == calls + 1
           q == stack[L].zones
           r == ZonesAfter(k, q)
<1>1. /\ L \in Nat /\ c \in Nat /\ c \in 1 .. c /\ calls' = c /\ Len(stack') = L + 1
      /\ stack'[L + 1] = g /\ 1 .. L + 1 = 1 .. L \cup {L + 1} /\ L + 1 \notin 1 .. L
      /\ \A s \in 1 .. L : s # L => s < L /\ L \in 1 .. L
  BY DEF CallsFrom, TypeOK
<1>2. /\ g.site = c /\ g.kind = k /\ g.zones = <<>>
      /\ g.acts = (IF k \in enabled THEN <<c>> ELSE <<>>)
      /\ g.closes = IF k = "ZoneStop" THEN Last(q) ELSE 0
  BY DEF CallsFrom
<1>3. \A s \in 1 .. L :
        /\ stack'[s].site = stack[s].site /\ stack'[s].kind = stack[s].kind
        /\ stack'[s].acts = stack[s].acts /\ stack'[s].closes = stack[s].closes
        /\ s # L => stack'[s].zones = stack[s].zones
        /\ s = L => stack'[s].zones = r /\ stack[s].kind \notin LeafKinds
  BY DEF CallsFrom
<1>4. /\ L \in 1 .. L => Last(stack) = stack[L] /\ stack # <<>>
      /\ k \in {"ZoneStart", "ZoneStop"} => L \in 1 .. L
      /\ k = "ZoneStop" => q # <<>>
  BY DEF CallsFrom, Last
<1>5. L \in 1 .. L =>
        /\ Elems(r) = IF k = "ZoneStart" THEN Elems(q) \cup {c}
                      ELSE IF k = "ZoneStop" THEN Elems(q) \ {Last(q)}
                      ELSE Elems(q)
        /\ k = "ZoneStop" => Last(q) \in Elems(q)
  BY <1>4, CallerZones
<1>6. /\ Elems(g.zones) = {}
      /\ Elems(g.acts) = IF k \in enabled THEN {c} ELSE {}
      /\ g.acts # <<>> <=> k \in enabled
  BY <1>1, <1>2, NoElems, OneElem
<1>7. k = "ZoneStop" => Last(q) \in OpenZones
  <2>1. ASSUME k = "ZoneStop" PROVE ZoneOpen(stack[L], Last(q)) /\ L \in 1 .. L
    BY <1>4, <1>5, <2>1 DEF ZoneOpen
  <2> QED BY <2>1, InFrame
<1>8. ASSUME k = "ZoneStop", NEW s \in 1 .. L, s # L PROVE ~ZoneOpen(stack[s], Last(q))
  <2>1. L \in 1 .. L /\ Last(q) \in Elems(q) /\ Last(stack) = stack[L]
    BY <1>4, <1>5, <1>8
  <2>2. ZoneOpen(stack[s], Last(q)) => Last(q) <= stack[L].site
    BY <1>8, <2>1, OpenBelow
  <2>3. FrameOK(stack[L], calls) /\ stack[L].site \in Nat /\ Elems(q) \subseteq Nat
    BY <2>1, StackFacts DEF Nested
  <2>4. stack[L].site < Last(q) /\ Last(q) \in Nat
    BY <2>1, <2>3 DEF FrameOK
  <2> QED BY <2>2, <2>3, <2>4
<1>9. /\ OpenActs = {x \in 1 .. c : \E s \in 1 .. L : ActOpen(stack[s], x)}
      /\ OpenZones = {x \in 1 .. c : \E s \in 1 .. L : ZoneOpen(stack[s], x)}
  BY OpenBefore
<1> HIDE DEF c, q, r, L
<1>10. OpenActs' = OpenActs \cup ActsCalled(k)
  <2>1. \A s \in 1 .. L : \A x : ActOpen(stack'[s], x) <=> ActOpen(stack[s], x)
    BY <1>3 DEF ActOpen
  <2>2. \A x : ActOpen(g, x) <=> x \in ActsCalled(k)
    BY <1>2, <1>6 DEF ActOpen, ActsCalled, c
  <2>3. ActsCalled(k) \subseteq {c}
    BY DEF ActsCalled, c
  <2>4. OpenActs' = {x \in 1 .. c : \E s \in 1 .. L + 1 : ActOpen(stack'[s], x)}
    BY <1>1 DEF OpenActs
  <2>5. \A x : (\E s \in 1 .. L + 1 : ActOpen(stack'[s], x)) <=>
                 \/ \E s \in 1 .. L : ActOpen(stack[s], x)
                 \/ x \in ActsCalled(k)
    BY <1>1, <2>1, <2>2
  <2> QED BY <1>1, <1>9, <2>3, <2>4, <2>5
<1>11. OpenZones' = ZonesCalled(k)
  <2>1. \A s \in 1 .. L : s # L => \A x : ZoneOpen(stack'[s], x) <=> ZoneOpen(stack[s], x)
    BY <1>3 DEF ZoneOpen
  <2>2. L \in 1 .. L => \A x : /\ ZoneOpen(stack'[L], x) <=> x \in Elems(r)
                               /\ ZoneOpen(stack[L], x) <=> x \in Elems(q)
    BY <1>3, Leaves DEF ZoneOpen, q
  <2>3. \A x : ZoneOpen(g, x) <=> k = "ZoneStop" /\ k \in enabled /\ x = Last(q)
    BY <1>2, <1>6 DEF ZoneOpen
  <2>4. OpenZones' = {x \in 1 .. c : \E s \in 1 .. L + 1 : ZoneOpen(stack'[s], x)}
    BY <1>1 DEF OpenZones
  <2>5. \A x : (\E s \in 1 .. L + 1 : ZoneOpen(stack'[s], x)) <=>
                 \/ \E s \in 1 .. L : ZoneOpen(stack'[s], x)
                 \/ ZoneOpen(g, x)
    BY <1>1
  <2>6. CASE k = "ZoneStart"
    <3>1. \A x : (\E s \in 1 .. L : ZoneOpen(stack'[s], x)) <=>
                   \/ \E s \in 1 .. L : ZoneOpen(stack[s], x)
                   \/ x = c
      BY <1>1, <1>4, <1>5, <2>1, <2>2, <2>6
    <3> QED BY <1>1, <1>9, <2>3, <2>4, <2>5, <2>6, <3>1 DEF ZonesCalled, c
  <2>7. CASE k = "ZoneStop"
    <3>1. \A x : (\E s \in 1 .. L : ZoneOpen(stack'[s], x)) <=>
                   /\ \E s \in 1 .. L : ZoneOpen(stack[s], x)
                   /\ x # Last(q)
      BY <1>1, <1>4, <1>5, <1>8, <2>1, <2>2, <2>7
    <3>2. Last(q) = Last(Last(stack).zones)
      BY <1>4, <2>7 DEF q
    <3>3. Last(q) \in 1 .. c /\ \E s \in 1 .. L : ZoneOpen(stack[s], Last(q))
      BY <1>7, <1>9, <2>7
    <3> QED BY <1>9, <2>3, <2>4, <2>5, <2>7, <3>1, <3>2, <3>3 DEF ZonesCalled
  <2>8. CASE k \notin {"ZoneStart", "ZoneStop"}
    <3>1. \A x : (\E s \in 1 .. L : ZoneOpen(stack'[s], x)) <=>
                   \E s \in 1 .. L : ZoneOpen(stack[s], x)
      BY <1>1, <1>5, <2>1, <2>2, <2>8
    <3> QED BY <1>9, <2>3, <2>4, <2>5, <2>8, <3>1 DEF ZonesCalled
  <2> QED BY <2>6, <2>7, <2>8
<1> QED BY <1>10, <1>11

\* The stack after a jump: the top frame has another function, and a new call.
JumpsTo(k) ==
  LET L == Len(stack)
      g == stack'[L]
  IN  /\ L \in Nat /\ L \in 1 .. L /\ Len(stack') = L /\ calls' = calls + 1
      /\ k \in PopsTimer /\ g.kind = k /\ g.acts = Append(stack[L].acts, calls + 1)
      /\ g.site = stack[L].site /\ g.closes = stack[L].closes
      /\ g.zones = <<>> /\ stack[L].zones = <<>> /\ stack[L].kind \notin LeafKinds
      /\ \A s \in 1 .. L : s # L => stack'[s] = stack[s]

LEMMA JumpShape ==
  ASSUME TypeOK, NEW k \in Kinds, Jump(k)
  PROVE  JumpsTo(k)
<1> DEFINE L   == Len(stack)
           top == [stack[L] EXCEPT !.kind = k, !.acts = Append(stack[L].acts, calls + 1)]
<1>0. stack' = [stack EXCEPT ![L].kind = k, ![L].acts = Append(Last(stack).acts, calls + 1)]
  BY Zenon DEF Jump
<1>1. /\ stack # <<>> /\ calls' = calls + 1 /\ k \in PopsTimer
      /\ Last(stack).zones = <<>> /\ Last(stack).kind \notin LeafKinds
  BY DEF Jump
<1>2. L \in Nat /\ L \in 1 .. L /\ Last(stack) = stack[L] /\ stack[L] \in Frames
  BY <1>1, StackFacts
<1>3. /\ top \in Frames /\ top.site = stack[L].site /\ top.closes = stack[L].closes
      /\ top.kind = k /\ top.acts = Append(stack[L].acts, calls + 1)
      /\ top.zones = stack[L].zones
  <2>1. Append(stack[L].acts, calls + 1) \in Seq(Nat)
    <3>1. stack[L].acts \in Seq(Nat) /\ calls + 1 \in Nat
      BY <1>2, StackFacts DEF TypeOK
    <3> QED BY <3>1
  <2>2. k \in KindSet
    BY <1>1, Leaves
  <2> QED BY <1>2, <2>1, <2>2 DEF Frames
<1>4. stack' = [stack EXCEPT ![L] = top]
  BY <1>0, <1>2 DEF TypeOK
<1> HIDE DEF top
<1>5. /\ Len(stack') = L /\ stack'[L] = top
      /\ \A s \in 1 .. L : s # L => stack'[s] = stack[s]
  <2>1. stack \in Seq(Frames)
    BY DEF TypeOK
  <2> QED BY <1>1, <1>3, <1>4, <2>1, ChangeTop
<1> QED BY <1>1, <1>2, <1>3, <1>5 DEF JumpsTo

LEMMA JumpOpens ==
  ASSUME TypeOK, Nested, NEW k, JumpsTo(k)
  PROVE  /\ Nested' /\ OpenActs' = OpenActs \cup {calls + 1}
         /\ OpenZones' = OpenZones
<1> DEFINE L == Len(stack)
           c == calls + 1
           f == stack[L]
           g == stack'[L]
<1>1. /\ L \in Nat /\ L \in 1 .. L /\ Len(stack') = L /\ calls' = c /\ c \in Nat
      /\ c \in 1 .. c /\ k \in PopsTimer /\ g.kind = k /\ g.acts = Append(f.acts, c)
      /\ g.site = f.site /\ g.closes = f.closes
      /\ g.zones = <<>> /\ f.zones = <<>> /\ f.kind \notin LeafKinds
      /\ \A s \in 1 .. L : s # L => stack'[s] = stack[s]
  BY DEF JumpsTo, TypeOK
<1>2. /\ \A s \in 1 .. L : /\ FrameOK(stack[s], calls) /\ stack[s].site \in Nat
                           /\ stack[s].acts \in Seq(Nat)
                           /\ Elems(stack[s].acts) \subseteq Nat
                           /\ Elems(stack[s].zones) \subseteq Nat
      /\ calls \in Nat
  BY StackFacts DEF Nested, TypeOK
<1>0. \A x \in Nat : x <= calls => x < c /\ x <= c
  BY <1>2
<1>3. k \notin LeafKinds /\ k # "ZoneStop" /\ k # "ZoneStart"
      /\ f.kind # "ZoneStop" /\ f.kind # "ZoneStart"
  BY <1>1, Leaves
<1>4. OpenActs = {x \in 1 .. c : \E s \in 1 .. L : ActOpen(stack[s], x)}
  BY OpenBefore
<1>5. OpenZones = {x \in 1 .. c : \E s \in 1 .. L : ZoneOpen(stack[s], x)}
  BY OpenBefore
<1> HIDE DEF c
<1>6. /\ Rising(g.acts) /\ Elems(g.acts) = Elems(f.acts) \cup {c}
  <2>1. Rising(f.acts) /\ \A a \in Elems(f.acts) : a < c
    BY <1>0, <1>1, <1>2 DEF FrameOK
  <2>2. f.acts \in Seq(Nat)
    BY <1>1, <1>2
  <2> QED BY <1>1, <2>1, <2>2, AppendElems
<1> HIDE DEF f, g, L
<1>7. FrameOK(g, c)
  <2>1. FrameOK(f, calls) /\ f.site \in Nat /\ Elems(f.acts) \subseteq Nat
    BY <1>1, <1>2 DEF f
  <2>2. 1 <= g.site /\ g.site <= c
    BY <1>0, <1>1, <2>1 DEF FrameOK
  <2>3. \A a \in Elems(g.acts) : g.site <= a /\ a <= c
    BY <1>0, <1>1, <1>6, <2>1, <2>2 DEF FrameOK
  <2> QED BY <1>1, <1>3, <1>6, <2>2, <2>3, NoElems DEF FrameOK
<1>8. ASSUME NEW s \in 1 .. L, s # L PROVE FrameOK(stack'[s], c)
  BY <1>0, <1>1, <1>2, <1>8 DEF FrameOK
<1>9. ASSUME NEW s \in 1 .. L, NEW u \in 1 .. L, s < u PROVE Below(stack'[s], stack'[u])
  <2>1. s # L /\ Below(stack[s], stack[u])
    BY <1>1, <1>9 DEF Nested, L
  <2>2. CASE u # L
    BY <1>1, <2>1, <2>2
  <2>3. CASE u = L
    BY <1>1, <1>3, <2>1, <2>3 DEF Below, f, g
  <2> QED BY <2>2, <2>3
<1>10. ASSUME NEW s \in 1 .. L, stack'[s].kind = "ZoneStart"
       PROVE  s > 1 /\ stack'[s].site \in Elems(stack'[s - 1].zones)
  <2>1. s # L
    BY <1>1, <1>3, <1>10 DEF g
  <2>2. s > 1 /\ stack[s].site \in Elems(stack[s - 1].zones)
    BY <1>1, <1>10, <2>1 DEF Nested, L
  <2>3. s - 1 \in 1 .. L /\ s - 1 # L
    BY <1>1, <2>2
  <2> QED BY <1>1, <2>1, <2>2, <2>3
<1>11. Nested'
  <2>1. \A s \in 1 .. L : FrameOK(stack'[s], c)
    BY <1>7, <1>8 DEF g
  <2> QED BY <1>1, <1>9, <1>10, <2>1 DEF Nested
<1>12. \A s \in 1 .. L : \A x :
         /\ ActOpen(stack'[s], x) <=> ActOpen(stack[s], x) \/ (s = L /\ x = c)
         /\ ZoneOpen(stack'[s], x) <=> ZoneOpen(stack[s], x)
  <2>1. \A x : /\ ActOpen(g, x) <=> ActOpen(f, x) \/ x = c
               /\ ZoneOpen(g, x) <=> ZoneOpen(f, x)
    BY <1>1, <1>3, <1>6 DEF ActOpen, ZoneOpen
  <2> QED BY <1>1, <2>1 DEF f, g
<1>13. OpenActs' = OpenActs \cup {c}
  <2>1. OpenActs' = {x \in 1 .. c : \E s \in 1 .. L : ActOpen(stack'[s], x)}
    BY <1>1 DEF OpenActs
  <2>2. \A x : (\E s \in 1 .. L : ActOpen(stack'[s], x)) <=>
                 (\E s \in 1 .. L : ActOpen(stack[s], x)) \/ x = c
    BY <1>1, <1>12
  <2> QED BY <1>1, <1>4, <2>1, <2>2
<1>14. OpenZones' = OpenZones
  <2>1. OpenZones' = {x \in 1 .. c : \E s \in 1 .. L : ZoneOpen(stack'[s], x)}
    BY <1>1 DEF OpenZones
  <2> QED BY <1>5, <1>12, <2>1
<1> QED BY <1>11, <1>13, <1>14 DEF c
-----------------------------------------------------------------------------
(* The timers of the session, and what they measure.                       *)

TimerSeq == timers \in Seq(Timers) /\ calls \in Nat /\ sessionID \in Nat

LEMMA TimerFacts ==
  ASSUME TypeOK
  PROVE  /\ TimerSeq /\ Len(timers) \in Nat
         /\ \A i \in 1 .. Len(timers) : /\ timers[i] \in Timers
                                         /\ timers[i].call \in Nat /\ timers[i].session \in Nat
         /\ Measured \subseteq Nat
<1>1. TimerSeq
  BY DEF TypeOK, TimerSeq, Timers
<1>3. Len(timers) \in Nat /\ \A i \in 1 .. Len(timers) : timers[i] \in Timers
  <2>1. timers \in Seq(Timers)
    BY <1>1 DEF TimerSeq
  <2> QED BY <2>1
<1>2. \A t \in Timers : t.call \in Nat /\ t.session \in Nat
  BY DEF Timers
<1> QED BY <1>1, <1>2, <1>3 DEF Measured

LEMMA MeasuredOld ==
  ASSUME TypeOK, Ordered
  PROVE  \A m \in Measured : m \in Nat /\ m <= calls /\ (InProlog => m < calls)
BY TimerFacts DEF Ordered, Measured

\* The last timer is of the newest call; if it is not of the session, none is.
LEMMA LastTimer ==
  ASSUME TypeOK, Ordered, timers # <<>>, timers' = Front(timers), sessionID' = sessionID
  PROVE  LET t == Last(timers)
         IN  /\ t.call \in Nat /\ t.session \in Nat /\ t.session <= sessionID
             /\ t.session = sessionID =>
                  /\ t.call \in Measured /\ \A m \in Measured : m <= t.call
                  /\ Measured' = Measured \ {t.call}
             /\ t.session # sessionID => Measured = {} /\ Measured' = {}
<1> DEFINE n == Len(timers)
           t == Last(timers)
<1>1. /\ n \in Nat \ {0} /\ n \in 1 .. n /\ Len(timers') = n - 1 /\ t = timers[n]
      /\ \A i \in 1 .. n - 1 : timers'[i] = timers[i]
      /\ 1 .. n = 1 .. n - 1 \cup {n} /\ n \notin 1 .. n - 1
      /\ \A i \in 1 .. n - 1 : i < n
  <2>1. timers \in Seq(Timers)
    BY TimerFacts DEF TimerSeq
  <2>2. /\ n \in Nat \ {0} /\ Len(timers') = n - 1 /\ t = timers[n]
        /\ \A i \in 1 .. n - 1 : timers'[i] = timers[i]
    BY <2>1, FrontFacts DEF Last
  <2> QED BY <2>2
<1>2. /\ \A i \in 1 .. n : /\ timers[i].call \in Nat /\ timers[i].session \in Nat
                           /\ timers[i].session <= sessionID
      /\ sessionID \in Nat
  BY TimerFacts DEF Ordered, TimerSeq
<1>3. \A i \in 1 .. n - 1 : timers[i].call < t.call /\ timers[i].session <= t.session
  BY <1>1 DEF Ordered
<1> HIDE DEF n, t
<1>4. /\ Measured = {timers[i].call : i \in {j \in 1 .. n : timers[j].session = sessionID}}
      /\ Measured' = {timers[i].call : i \in {j \in 1 .. n - 1 : timers[j].session = sessionID}}
  <2>1. Measured' = {timers'[i].call : i \in {j \in 1 .. n - 1 : timers'[j].session = sessionID}}
    BY <1>1 DEF Measured
  <2>2. {j \in 1 .. n - 1 : timers'[j].session = sessionID}
          = {j \in 1 .. n - 1 : timers[j].session = sessionID}
    BY <1>1
  <2>3. \A i \in {j \in 1 .. n - 1 : timers[j].session = sessionID} : timers'[i] = timers[i]
    BY <1>1
  <2>4. Measured' = {timers[i].call : i \in {j \in 1 .. n - 1 : timers[j].session = sessionID}}
    BY <2>1, <2>2, <2>3
  <2> QED BY <2>4 DEF Measured, n
<1>5. CASE t.session = sessionID
  <2>1. t.call \in Measured
    BY <1>1, <1>4, <1>5
  <2>2. \A i \in 1 .. n : timers[i].call <= t.call
    <3> SUFFICES ASSUME NEW i \in 1 .. n PROVE timers[i].call <= t.call
      OBVIOUS
    <3>1. timers[i].call \in Nat /\ t.call \in Nat
      BY <1>1, <1>2
    <3>2. CASE i = n
      BY <1>1, <3>1, <3>2
    <3>3. CASE i # n
      <4>1. i \in 1 .. n - 1
        BY <1>1, <3>3
      <4> QED BY <1>3, <3>1, <4>1
    <3> QED BY <3>2, <3>3
  <2>3. \A m \in Measured : m <= t.call
    BY <1>4, <2>2
  <2>4. \A m \in Measured' : m \in Measured /\ m # t.call
    <3>1. \A i \in 1 .. n - 1 : timers[i].call # t.call
      BY <1>1, <1>2, <1>3
    <3> QED BY <1>1, <1>4, <3>1
  <2>5. \A m \in Measured : m # t.call => m \in Measured'
    BY <1>1, <1>4
  <2> QED BY <1>1, <1>2, <1>5, <2>1, <2>3, <2>4, <2>5 DEF t
<1>6. CASE t.session # sessionID
  <2>1. \A i \in 1 .. n : timers[i].session # sessionID
    <3>1. t.session <= sessionID /\ t.session \in Nat
      BY <1>1, <1>2
    <3>2. \A i \in 1 .. n - 1 : timers[i].session # sessionID
      BY <1>1, <1>2, <1>3, <1>6, <3>1
    <3> QED BY <1>1, <1>6, <3>2
  <2>2. Measured = {} /\ Measured' = {}
    BY <1>1, <1>4, <2>1
  <2> QED BY <1>1, <1>2, <1>6, <2>2 DEF t
<1> QED BY <1>5, <1>6

LEMMA NewTimer ==
  ASSUME TypeOK, NEW t \in Timers, timers' = Append(timers, t),
         t.session = sessionID, sessionID' = sessionID
  PROVE  Measured' = Measured \cup {t.call}
<1> DEFINE n == Len(timers)
<1>1. /\ n \in Nat /\ Len(timers') = n + 1 /\ timers'[n + 1] = t
      /\ \A i \in 1 .. n : timers'[i] = timers[i]
      /\ 1 .. n + 1 = 1 .. n \cup {n + 1}
  BY TimerFacts DEF TimerSeq
<1> HIDE DEF n
<1>2. {j \in 1 .. n + 1 : timers'[j].session = sessionID}
        = {j \in 1 .. n : timers[j].session = sessionID} \cup {n + 1}
  BY <1>1
<1>3. Measured' = {timers'[i].call : i \in {j \in 1 .. n + 1 : timers'[j].session = sessionID}}
  BY <1>1 DEF Measured
<1>4. Measured = {timers[i].call : i \in {j \in 1 .. n : timers[j].session = sessionID}}
  BY DEF Measured, n
<1> QED BY <1>1, <1>2, <1>3, <1>4

\* Zones are counted by finite sets.
LEMMA SinceFinite ==
  ASSUME NEW N \in Nat, NEW Z \in SUBSET (1 .. N), NEW M, NEW z
  PROVE  IsFiniteSet(Since(Z, M, z)) /\ Cardinality(Since(Z, M, z)) \in Nat
<1>1. IsFiniteSet(1 .. N)
  BY FS_Interval
<1>2. Since(Z, M, z) \subseteq 1 .. N
  BY DEF Since
<1> QED BY <1>1, <1>2, FS_Subset, FS_CardinalityType

LEMMA SinceGrows ==
  ASSUME NEW N \in Nat, NEW Z \in SUBSET (1 .. N), NEW M, NEW z, NEW P, M \subseteq P
  PROVE  Cardinality(Since(Z, M, z)) <= Cardinality(Since(Z, P, z))
<1>1. Since(Z, M, z) \subseteq Since(Z, P, z)
  BY DEF Since
<1> QED BY <1>1, SinceFinite, FS_Subset

\* A function or a zone opens, and is hooked.
LEMMA KeptOpens ==
  ASSUME NEW A, NEW Z, NEW M, NEW n, NEW noticed, Kept(A, Z, M, {}, n, noticed),
         NEW c, c \notin M, NEW S \in SUBSET {c}, NEW R \in SUBSET {c}
  PROVE  Kept(A \cup S, Z \cup R, M, {c}, n, noticed)
<1>1. \A z : Since(Z \cup R, M, z) = Since(Z, M, z)
  BY DEF Since
<1>2. (Z \cup R) \ (M \cup {c}) \subseteq Z \ (M \cup {})
  OBVIOUS
<1> QED BY <1>1, <1>2 DEF Kept

\* A zone opens that is not hooked, and none is counted.
LEMMA KeptSkips ==
  ASSUME NEW N \in Nat, NEW Z \in SUBSET (1 .. N), NEW A, NEW M, NEW n \in Nat, NEW noticed,
         Kept(A, Z, M, {}, n, noticed), NEW c, c \notin M, noticed => n = 0
  PROVE  Kept(A, Z \cup {c}, M, {}, n, noticed)
<1>1. \A z : /\ Since(Z \cup {c}, M, z) = Since(Z, M, z)
             /\ Cardinality(Since(Z, M, z)) \in Nat
  BY SinceFinite DEF Since
<1> QED BY <1>1 DEF Kept

\* A zone without a timer closes.
LEMMA KeptCloses ==
  ASSUME NEW A, NEW Z, NEW M, NEW n, NEW noticed, Kept(A, Z, M, {}, n, noticed),
         NEW c, c \notin M
  PROVE  Kept(A, Z \ {c}, M, {}, n, noticed)
<1>1. \A z : Since(Z \ {c}, M, z) = Since(Z, M, z)
  BY DEF Since
<1> QED BY <1>1 DEF Kept

\* The timer of the call c starts, of a function or of a zone.
LEMMA KeptStarts ==
  ASSUME NEW N \in Nat, NEW Z \in SUBSET (1 .. N), NEW A \in SUBSET (1 .. N), NEW M,
         NEW n \in Nat, NEW noticed, NEW c \in Nat, Kept(A, Z, M, {c}, n, noticed),
         c \in A \cup Z, c \notin M, \A x \in A \cup Z : x <= c, NEW m \in Nat,
         \/ c \notin Z /\ m = n
         \/ c \in Z /\ m = n + 1
  PROVE  Kept(A, Z, M \cup {c}, {}, m, noticed)
<1>1. M \cup {c} \subseteq A \cup Z
  BY DEF Kept
<1>2. ASSUME NEW a \in A, NEW t \in M \cup {c}, t < a PROVE a \in M \cup {c}
  <2>1. t # c
    <3>1. a <= c /\ a \in Nat
      OBVIOUS
    <3> QED BY <1>2, <3>1
  <2> QED BY <1>2, <2>1 DEF Kept
<1>3. ASSUME noticed, NEW z \in {0} \cup (Z \ (M \cup {c}))
      PROVE  m <= Cardinality(Since(Z, M \cup {c}, z))
  <2>1. n <= Cardinality(Since(Z, M, z))
    BY <1>3 DEF Kept
  <2>2. /\ IsFiniteSet(Since(Z, M, z)) /\ Cardinality(Since(Z, M, z)) \in Nat
        /\ Cardinality(Since(Z, M \cup {c}, z)) \in Nat
    BY SinceFinite
  <2>3. CASE m = n
    <3>1. Cardinality(Since(Z, M, z)) <= Cardinality(Since(Z, M \cup {c}, z))
      BY SinceGrows
    <3> QED BY <2>1, <2>2, <2>3, <3>1
  <2>4. CASE c \in Z /\ m = n + 1
    <3>1. z < c
      BY <1>3, <2>4
    <3>2. Since(Z, M \cup {c}, z) = Since(Z, M, z) \cup {c} /\ c \notin Since(Z, M, z)
      BY <2>4, <3>1 DEF Since
    <3>3. Cardinality(Since(Z, M \cup {c}, z)) = Cardinality(Since(Z, M, z)) + 1
      BY <2>2, <3>2, FS_AddElement
    <3> QED BY <2>1, <2>2, <2>4, <3>3
  <2> QED BY <2>3, <2>4
<1> QED BY <1>1, <1>2, <1>3 DEF Kept

\* The timer of the newest function stops.
LEMMA KeptStops ==
  ASSUME NEW A, NEW Z, NEW M, NEW n, NEW noticed, Kept(A, Z, M, {}, n, noticed),
         NEW c, c \notin Z
  PROVE  Kept(A \ {c}, Z, M \ {c}, {}, n, noticed)
<1>1. \A z : Since(Z, M \ {c}, z) = Since(Z, M, z)
  BY DEF Since
<1>2. Z \ ((M \ {c}) \cup {}) = Z \ (M \cup {})
  OBVIOUS
<1> QED BY <1>1, <1>2 DEF Kept

\* The timer of the newest zone stops.
LEMMA KeptEnds ==
  ASSUME NEW N \in Nat, NEW Z \in SUBSET (1 .. N), NEW A, NEW M, NEW n \in Nat, NEW noticed,
         Kept(A, Z, M, {}, n, noticed), NEW c \in Z, c \in M, c \notin A,
         \A x \in Z : x <= c, NEW m \in Int, m = n - 1
  PROVE  Kept(A, Z \ {c}, M \ {c}, {}, m, noticed)
<1>1. M \ {c} \subseteq A \cup (Z \ {c})
  BY DEF Kept
<1>2. \A a \in A \ {} : \A t \in M \ {c} : t < a => a \in M \ {c}
  BY DEF Kept
<1>3. ASSUME noticed, NEW z \in {0} \cup ((Z \ {c}) \ (M \ {c}))
      PROVE  m <= Cardinality(Since(Z \ {c}, M \ {c}, z))
  <2>1. n <= Cardinality(Since(Z, M, z))
    BY <1>3 DEF Kept
  <2>2. z < c
    BY <1>3
  <2>3. IsFiniteSet(Since(Z, M, z)) /\ Cardinality(Since(Z, M, z)) \in Nat
    BY SinceFinite
  <2>4. /\ Since(Z \ {c}, M \ {c}, z) = Since(Z, M, z) \ {c}
        /\ c \in Since(Z, M, z)
    BY <2>2 DEF Since
  <2>5. Cardinality(Since(Z \ {c}, M \ {c}, z)) = Cardinality(Since(Z, M, z)) - 1
    BY <2>3, <2>4, FS_RemoveElement
  <2> QED BY <2>1, <2>3, <2>5
<1> QED BY <1>1, <1>2, <1>3 DEF Kept
-----------------------------------------------------------------------------
(* The records of the hooked functions of a frame.                         *)

LEMMA RecordsFinite ==
  ASSUME TypeOK, NEW s
  PROVE  /\ IsFiniteSet(RecordsOf(s)) /\ Cardinality(RecordsOf(s)) \in Nat
         /\ RecordsOf(s) \subseteq 1 .. Len(rets) /\ Len(rets) + 1 \notin RecordsOf(s)
<1>1. Len(rets) \in Nat
  BY RecordFacts
<1>2. IsFiniteSet(1 .. Len(rets))
  BY <1>1, FS_Interval
<1>3. RecordsOf(s) \subseteq 1 .. Len(rets)
  BY DEF RecordsOf
<1>4. IsFiniteSet(RecordsOf(s))
  BY <1>2, <1>3, FS_Subset
<1> QED BY <1>1, <1>3, <1>4, FS_CardinalityType

LEMMA SettledLinks ==
  ASSUME TypeOK, Chain, Linked, Settled, rets' = rets, ctl' = "prolog" <=> ctl = "prolog"
  PROVE  Linked'
<1>1. /\ Len(stack') = Len(stack)
      /\ \A s \in 1 .. Len(stack) : stack'[s].acts = stack[s].acts /\ stack'[s].kind = stack[s].kind
  BY DEF Settled, AsBefore
<1>2. \A s : RecordsOf(s)' = RecordsOf(s)
  BY DEF RecordsOf
<1>3. \A i \in 1 .. Len(rets) : rets[i].slot \in 1 .. Len(stack)
  BY DEF Chain, Placed
<1> QED BY <1>1, <1>2, <1>3 DEF Linked

LEMMA CallLinks ==
  ASSUME TypeOK, Chain, Linked, NEW k, NEW g, CallsFrom(k, g), ctl = "run", rets' = rets,
         ctl' = IF k \in enabled THEN "prolog" ELSE "run"
  PROVE  Linked'
<1> DEFINE L == Len(stack)
<1>1. /\ L \in Nat /\ Len(stack') = L + 1 /\ stack'[L + 1] = g
      /\ g.acts = IF k \in enabled THEN <<calls + 1>> ELSE <<>>
      /\ \A s \in 1 .. L : stack'[s].acts = stack[s].acts /\ stack'[s].kind = stack[s].kind
  BY DEF CallsFrom
<1>2. \A s : RecordsOf(s)' = RecordsOf(s)
  BY DEF RecordsOf
<1>3. \A i \in 1 .. Len(rets) : rets[i].slot \in 1 .. L
  BY DEF Chain, Placed
<1> HIDE DEF L
<1>4. 1 .. L + 1 = 1 .. L \cup {L + 1} /\ L + 1 \notin 1 .. L
  BY <1>1
<1>5. \A s \in 1 .. L : Len(stack[s].acts) = Cardinality(RecordsOf(s))
  <2>1. \A s \in 1 .. L : Len(stack[s].acts) = Cardinality(RecordsOf(s)) + 0
    BY DEF Linked, L
  <2> QED BY <2>1, RecordsFinite
<1>6. Len(g.acts) = Cardinality(RecordsOf(L + 1)) + (IF ctl' = "prolog" THEN 1 ELSE 0)
  <2>1. RecordsOf(L + 1) = {}
    BY <1>3, <1>4 DEF RecordsOf
  <2>2. Len(g.acts) = IF k \in enabled THEN 1 ELSE 0
    BY <1>1
  <2> QED BY <2>1, <2>2, FS_EmptySet
<1>7. \A s \in 1 .. L + 1 :
        Len(stack'[s].acts) = Cardinality(RecordsOf(s))
                              + (IF ctl' = "prolog" /\ s = L + 1 THEN 1 ELSE 0)
  <2>1. \A s \in 1 .. L : Cardinality(RecordsOf(s)) + 0 = Cardinality(RecordsOf(s))
    BY RecordsFinite
  <2> QED BY <1>1, <1>4, <1>5, <1>6, <2>1
<1> QED BY <1>1, <1>2, <1>3, <1>7 DEF Linked, L

LEMMA JumpLinks ==
  ASSUME TypeOK, Chain, Linked, NEW k, JumpsTo(k), ctl = "run", ctl' = "prolog", rets' = rets
  PROVE  Linked'
<1> DEFINE L == Len(stack)
           g == stack'[L]
<1>1. /\ L \in 1 .. L /\ Len(stack') = L /\ g.kind = k /\ k \in PopsTimer
      /\ g.acts = Append(stack[L].acts, calls + 1) /\ stack[L].kind \notin LeafKinds
      /\ \A s \in 1 .. L : s # L => stack'[s] = stack[s]
  BY DEF JumpsTo
<1>2. \A s : RecordsOf(s)' = RecordsOf(s)
  BY DEF RecordsOf
<1>3. \A i \in 1 .. Len(rets) : rets[i].slot \in 1 .. L
  BY DEF Chain, Placed
<1>4. Len(g.acts) = Len(stack[L].acts) + 1 /\ Len(stack[L].acts) \in Nat
  <2>1. stack[L].acts \in Seq(Nat) /\ calls + 1 \in Nat
    BY <1>1, StackFacts DEF TypeOK
  <2> QED BY <1>1, <2>1
<1> HIDE DEF L, g
<1>5. \A s \in 1 .. L : Len(stack[s].acts) = Cardinality(RecordsOf(s)) + 0
  BY DEF Linked, L
<1>6. \A s \in 1 .. L :
        Len(stack'[s].acts) = Cardinality(RecordsOf(s)) + (IF s = L THEN 1 ELSE 0)
  <2> SUFFICES ASSUME NEW s \in 1 .. L
               PROVE  Len(stack'[s].acts) =
                        Cardinality(RecordsOf(s)) + (IF s = L THEN 1 ELSE 0)
    OBVIOUS
  <2>1. CASE s = L
    BY <1>1, <1>4, <1>5, <2>1, RecordsFinite DEF g
  <2>2. CASE s # L
    <3>1. stack'[s] = stack[s]
      BY <1>1, <2>2
    <3> QED BY <1>5, <2>2, <3>1
  <2> QED BY <2>1, <2>2
<1>7. ASSUME NEW i \in 1 .. Len(rets)
      PROVE  IF stack'[rets[i].slot].kind \in LeafKinds
               THEN rets[i].kind = stack'[rets[i].slot].kind ELSE rets[i].kind \in PopsTimer
  <2>1. CASE rets[i].slot = L
    <3>1. rets[i].kind \in PopsTimer
      BY <1>1, <2>1 DEF Linked
    <3> QED BY <1>1, <2>1, <3>1, Leaves DEF g
  <2>2. CASE rets[i].slot # L
    BY <1>1, <1>3, <2>2 DEF Linked
  <2> QED BY <2>1, <2>2
<1> QED BY <1>1, <1>2, <1>6, <1>7 DEF Linked

LEMMA EnterLinks ==
  ASSUME TypeOK, Entering, Chain, Linked, PrologEnter
  PROVE  Linked'
<1> DEFINE n == Len(rets)
           L == Len(stack)
           r == [slot |-> L, orig |-> Last(stack).ret, kind |-> CurrentKind]
<1>1. /\ ctl = "prolog" /\ ctl' = "prologBody" /\ stack' = stack /\ rets' = Append(rets, r)
      /\ r.slot = L /\ r.kind = CurrentKind /\ CurrentKind = Last(stack).kind
  BY DEF PrologEnter, CurrentKind
<1>2. L \in 1 .. L /\ Last(stack) = stack[L] /\ stack[L].kind \in KindSet
  BY <1>1, StackFacts DEF Entering
<1> HIDE DEF r
<1>3. /\ n \in Nat /\ Len(rets') = n + 1 /\ rets'[n + 1] = r
      /\ \A i \in 1 .. n : rets'[i] = rets[i]
  BY <1>1 DEF TypeOK
<1> HIDE DEF n, L
<1>4. 1 .. n + 1 = 1 .. n \cup {n + 1} /\ n + 1 \notin 1 .. n
  BY <1>3
<1>5. \A s : RecordsOf(s)' = RecordsOf(s) \cup (IF s = L THEN {n + 1} ELSE {})
  BY <1>1, <1>3, <1>4 DEF RecordsOf, n
<1>6. ASSUME NEW s \in 1 .. L
      PROVE  Len(stack[s].acts) = Cardinality(RecordsOf(s)') + 0
  <2>1. /\ Len(stack[s].acts) = Cardinality(RecordsOf(s)) + (IF s = L THEN 1 ELSE 0)
        /\ IsFiniteSet(RecordsOf(s)) /\ Cardinality(RecordsOf(s)) \in Nat
        /\ n + 1 \notin RecordsOf(s)
    BY <1>1, RecordsFinite DEF Linked, L, n
  <2>2. CASE s = L
    <3>1. Cardinality(RecordsOf(s) \cup {n + 1}) = Cardinality(RecordsOf(s)) + 1
      BY <2>1, FS_AddElement
    <3>2. RecordsOf(s)' = RecordsOf(s) \cup {n + 1}
      BY <1>5, <2>2
    <3> QED BY <2>1, <2>2, <3>1, <3>2
  <2>3. CASE s # L
    <3>1. RecordsOf(s)' = RecordsOf(s)
      BY <1>5, <2>3
    <3> QED BY <2>1, <2>3, <3>1
  <2> QED BY <2>2, <2>3
<1>7. ASSUME NEW i \in 1 .. n + 1
      PROVE  IF stack[rets'[i].slot].kind \in LeafKinds
               THEN rets'[i].kind = stack[rets'[i].slot].kind ELSE rets'[i].kind \in PopsTimer
  <2>1. CASE i \in 1 .. n
    BY <1>3, <2>1 DEF Linked, n
  <2>2. CASE i = n + 1
    <3>1. rets'[i].slot = L /\ rets'[i].kind = stack[L].kind
      BY <1>1, <1>2, <1>3, <2>2
    <3> QED BY <1>2, <3>1, Leaves
  <2> QED BY <1>4, <2>1, <2>2
<1> QED BY <1>1, <1>3, <1>6, <1>7 DEF Linked, L

\* A return the epilogs do not see: the frame has no record.
LEMMA PlainReturn ==
  ASSUME TypeOK, Chain, Linked, stack # <<>>, ctl = "run", Last(stack).ret[1] = "code"
  PROVE  /\ Last(stack).acts = <<>>
         /\ \A i \in 1 .. Len(rets) : rets[i].slot \in 1 .. Len(stack) - 1
<1> DEFINE n == Len(rets)
           L == Len(stack)
<1>1. L \in 1 .. L /\ Last(stack) = stack[L] /\ stack[L].acts \in Seq(Nat)
  BY StackFacts
<1>2. ASSUME rets # <<>>, n \in 1 .. n, rets[n].slot = L PROVE FALSE
  <2>1. stack[L].ret = Stub(rets[n].kind) /\ rets[n].kind \in KindSet
    BY <1>1, <1>2, RecordFacts DEF Chain, Held
  <2> QED BY <1>1, <2>1, StubFacts
<1>3. \A i \in 1 .. n : rets[i].slot \in 1 .. L - 1
  BY <1>2, TopRecord
<1>4. L \notin 1 .. L - 1
  BY <1>1
<1>5. RecordsOf(L) = {}
  BY <1>3, <1>4 DEF RecordsOf
<1>6. Len(stack[L].acts) = 0
  <2>1. Len(stack[L].acts) = Cardinality(RecordsOf(L)) + 0
    BY <1>1 DEF Linked
  <2> QED BY <1>5, <2>1, FS_EmptySet
<1> QED BY <1>1, <1>3, <1>6

LEMMA LeaveLinks ==
  ASSUME TypeOK, Linked, stack # <<>>, ctl = "run", ctl' = "run", rets' = rets,
         stack' = Front(stack),
         \A i \in 1 .. Len(rets) : rets[i].slot \in 1 .. Len(stack) - 1
  PROVE  Linked'
<1> DEFINE L == Len(stack)
<1>1. /\ L \in Nat \ {0} /\ Len(stack') = L - 1
      /\ \A s \in 1 .. L - 1 : s \in 1 .. L /\ stack'[s] = stack[s]
  <2>1. /\ L \in Nat \ {0} /\ Len(stack') = L - 1
        /\ \A s \in 1 .. L - 1 : stack'[s] = stack[s]
    BY FrontFacts DEF TypeOK
  <2> QED BY <2>1
<1>2. \A s : RecordsOf(s)' = RecordsOf(s)
  BY DEF RecordsOf
<1> QED BY <1>1, <1>2 DEF Linked


\* In an epilog the newest record is of the top frame; it is the only one
\* exactly if it holds the caller's address.
LEMMA EpilogRecords ==
  ASSUME TypeOK, Chain, ctl = "epilog"
  PROVE  LET n == Len(rets)
             L == Len(stack)
         IN  /\ n \in Nat \ {0} /\ L \in 1 .. L /\ n \in RecordsOf(L)
             /\ target[1] = rets[n].kind
             /\ Last(rets).orig[1] = "code" => RecordsOf(L) = {n}
             /\ Last(rets).orig[1] # "code" => n - 1 \in RecordsOf(L)
<1> DEFINE n == Len(rets)
           L == Len(stack)
<1>1. /\ n \in 1 .. n /\ Last(rets) = rets[n] /\ rets[n].kind = target[1]
      /\ rets[n].slot = L
  <2>1. Last(rets).slot = Len(stack)
    BY DEF Chain, AtTop
  <2> QED BY <2>1, TopOfEpilog
<1>2. /\ n \in Nat \ {0} /\ L \in 1 .. L
      /\ \A i \in 1 .. n : rets[i].slot \in 1 .. L /\ rets[i].slot \in Nat
      /\ \A i, j \in 1 .. n : i <= j => rets[i].slot <= rets[j].slot
  BY <1>1, RecordFacts DEF Chain, Placed
<1>0. \A m \in Nat \ {0} : m # 1 => m - 1 \in 1 .. m
  OBVIOUS
<1>3. /\ n \in RecordsOf(L)
      /\ rets[n].orig = IF Writes(n) THEN Code(stack[L].site) ELSE Stub(rets[n - 1].kind)
  BY <1>1 DEF RecordsOf, Chain, Chained
<1>4. ASSUME rets[n].orig[1] = "code" PROVE RecordsOf(L) = {n}
  <2>1. Writes(n)
    <3>1. ASSUME ~Writes(n) PROVE FALSE
      <4>3. n # 1
        BY <3>1 DEF Writes
      <4>1. n - 1 \in 1 .. n
        BY <1>0, <1>2, <4>3
      <4>2. rets[n - 1].kind \in KindSet
        BY <4>1, RecordFacts
      <4> QED BY <1>3, <1>4, <3>1, <4>2, StubFacts
    <3> QED BY <3>1
  <2>2. ASSUME NEW i \in 1 .. n, rets[i].slot = L, i # n PROVE FALSE
    <3>1. n - 1 \in 1 .. n /\ i <= n - 1 /\ n - 1 <= n /\ n # 1
      BY <1>2, <2>2
    <3>2. rets[n - 1].slot # L
      BY <1>1, <2>1, <3>1 DEF Writes
    <3>3. rets[n - 1].slot >= L /\ rets[n - 1].slot \in 1 .. L
      BY <1>1, <1>2, <2>2, <3>1
    <3> QED BY <1>2, <3>2, <3>3
  <2> QED BY <1>3, <2>2 DEF RecordsOf
<1>5. ASSUME rets[n].orig[1] # "code" PROVE n - 1 \in RecordsOf(L)
  <2>1. ~Writes(n)
    <3>1. stack[L].site \in Nat
      BY <1>2, RecordFacts
    <3>2. Code(stack[L].site)[1] = "code"
      BY <3>1, CodeFacts
    <3> QED BY <1>3, <1>5, <3>2
  <2>2. n # 1 /\ rets[n - 1].slot = L
    BY <1>1, <2>1 DEF Writes
  <2>3. n - 1 \in 1 .. n
    BY <1>0, <1>2, <2>2
  <2> QED BY <2>2, <2>3 DEF RecordsOf
<1> QED BY <1>1, <1>2, <1>3, <1>4, <1>5

\* The frame in an epilog: which epilog it is, and how many functions it has.
LEMMA EpilogFrame ==
  ASSUME TypeOK, Chain, Linked, Ordered, Nested, ctl = "epilog"
  PROVE  LET top == Last(stack)
         IN  /\ stack # <<>> /\ top.acts # <<>> /\ top.zones = <<>>
             /\ target[1] = top.kind \/ (target[1] \in PopsTimer /\ top.kind \notin LeafKinds)
             /\ top.kind \in LeafKinds => target[1] = top.kind
             /\ Last(rets).orig[1] = "code" => Len(top.acts) = 1
             /\ Last(rets).orig[1] # "code" => Len(top.acts) >= 2 /\ top.kind \notin LeafKinds
<1> DEFINE n == Len(rets)
           L == Len(stack)
           top == Last(stack)
<1>1. /\ n \in Nat \ {0} /\ n \in 1 .. n /\ L \in 1 .. L /\ n \in RecordsOf(L)
      /\ target[1] = rets[n].kind
      /\ Last(rets).orig[1] = "code" => RecordsOf(L) = {n}
      /\ Last(rets).orig[1] # "code" => n - 1 \in RecordsOf(L)
  BY EpilogRecords
<1>2. /\ stack # <<>> /\ top = stack[L] /\ top.zones = <<>> /\ top.acts \in Seq(Nat)
      /\ top.kind \in KindSet \cup {"Plain"} /\ FrameOK(top, calls)
  BY <1>1, StackFacts DEF Ordered, Nested
<1>3. /\ Len(top.acts) = Cardinality(RecordsOf(L)) + 0
      /\ IsFiniteSet(RecordsOf(L)) /\ Cardinality(RecordsOf(L)) \in Nat
      /\ rets[n].slot = L
  BY <1>1, <1>2, RecordsFinite DEF Linked, RecordsOf
<1> HIDE DEF n, L, top
<1>4. IF top.kind \in LeafKinds THEN target[1] = top.kind ELSE target[1] \in PopsTimer
  BY <1>1, <1>2, <1>3 DEF Linked, n
<1>5. Last(rets).orig[1] = "code" => Len(top.acts) = 1
  <2>1. Cardinality({n}) = 1
    BY FS_Singleton
  <2>2. ASSUME Last(rets).orig[1] = "code" PROVE Len(top.acts) = 1 + 0
    BY <1>1, <1>3, <2>1, <2>2
  <2> QED BY <2>2
<1>6. ASSUME Last(rets).orig[1] # "code"
      PROVE  Len(top.acts) >= 2 /\ top.kind \notin LeafKinds
  <2>1. n - 1 \in RecordsOf(L) /\ n - 1 # n
    BY <1>1, <1>6
  <2>2. Cardinality(RecordsOf(L)) >= 2
    <3>1. IsFiniteSet({n - 1}) /\ Cardinality({n - 1}) = 1
      BY FS_Singleton
    <3>2. Cardinality({n - 1} \cup {n}) = 2
      BY <2>1, <3>1, FS_AddElement
    <3>3. Cardinality({n - 1} \cup {n}) <= Cardinality(RecordsOf(L))
      BY <1>1, <1>3, <2>1, FS_Subset
    <3> QED BY <1>3, <3>2, <3>3
  <2> QED BY <1>2, <1>3, <2>2 DEF FrameOK
<1>7. top.acts # <<>>
  <2>1. Len(top.acts) # 0
    BY <1>5, <1>6
  <2> QED BY <2>1
<1> QED BY <1>2, <1>4, <1>5, <1>6, <1>7 DEF top

LEMMA ReturnToOpens ==
  ASSUME TypeOK, Chain, Linked, Ordered, Nested, ctl = "epilog", ReturnTo
  PROVE  /\ Nested' /\ calls' = calls
         /\ OpenActs' = OpenActs \ (IF target[1] \in PopsTimer THEN {CurrentCall} ELSE {})
         /\ OpenZones' = OpenZones \ (IF target[1] = "ZoneStop" THEN {Last(stack).closes}
                                                                ELSE {})
<1> DEFINE top == Last(stack)
<1>1. /\ stack # <<>> /\ top.acts # <<>> /\ top.zones = <<>>
      /\ target[1] = top.kind \/ (target[1] \in PopsTimer /\ top.kind \notin LeafKinds)
      /\ top.kind \in LeafKinds => target[1] = top.kind
      /\ Last(rets).orig[1] = "code" => Len(top.acts) = 1
      /\ Last(rets).orig[1] # "code" => Len(top.acts) >= 2 /\ top.kind \notin LeafKinds
  BY EpilogFrame
<1>2. calls' = calls /\ top.acts \in Seq(Nat) /\ top.kind \in KindSet \cup {"Plain"}
  BY <1>1, StackFacts DEF ReturnTo
<1>3. /\ (target[1] \in PopsTimer <=> top.kind \notin LeafKinds)
      /\ (target[1] = "ZoneStop" <=> top.kind = "ZoneStop")
  <2> HIDE DEF top
  <2>1. target[1] = top.kind => (target[1] \in PopsTimer <=> top.kind \notin LeafKinds)
    <3>1. target[1] \in KindSet
      BY TopOfEpilog, RecordFacts
    <3> QED BY <3>1, Leaves
  <2>2. target[1] \in PopsTimer => target[1] # "ZoneStop"
    BY Leaves
  <2>3. top.kind = "ZoneStop" => top.kind \in LeafKinds
    BY Leaves
  <2> QED BY <1>1, <2>1, <2>2, <2>3
<1>4. CASE Last(rets).orig[1] = "code"
  <2>1. stack' = Front(stack)
    BY <1>4 DEF ReturnTo
  <2>2. Nested' /\ OpenActs' = OpenActs \ ActsOfTop /\ OpenZones' = OpenZones \ ZonesOfTop
    BY <1>1, <1>2, <2>1, LeaveOpens
  <2>3. Elems(top.acts) = {CurrentCall}
    <3>1. Len(top.acts) = 1 /\ CurrentCall = top.acts[1] /\ 1 .. 1 = {1}
      BY <1>1, <1>4 DEF CurrentCall, Last
    <3> QED BY <3>1 DEF Elems
  <2>4. ActsOfTop = IF target[1] \in PopsTimer THEN {CurrentCall} ELSE {}
    BY <1>3, <2>3 DEF ActsOfTop
  <2>5. ZonesOfTop = IF target[1] = "ZoneStop" THEN {top.closes} ELSE {}
    BY <1>1, <1>3 DEF ZonesOfTop
  <2> QED BY <1>2, <2>2, <2>4, <2>5
<1>5. CASE Last(rets).orig[1] # "code"
  <2>1. stack' = [stack EXCEPT ![Len(stack)].acts = Front(Last(stack).acts)]
    BY <1>5 DEF ReturnTo
  <2>2. Nested' /\ OpenActs' = OpenActs \ {CurrentCall} /\ OpenZones' = OpenZones
    BY <1>1, <1>2, <1>5, <2>1, DropOpens
  <2>3. target[1] \in PopsTimer /\ target[1] # "ZoneStop"
    BY <1>1, <1>3, <1>5, Leaves
  <2> QED BY <1>2, <2>2, <2>3
<1> QED BY <1>4, <1>5

LEMMA ReturnToLinks ==
  ASSUME TypeOK, Chain, Linked, Ordered, Nested, ctl = "epilog", ReturnTo
  PROVE  /\ Linked' /\ ctl' \in {"run", "epilog"}
         /\ ctl' = "epilog" => stack' # <<>> /\ Last(stack').zones = <<>>
         /\ stack' # <<>> => Last(stack').kind \notin LeafKinds
<1> DEFINE n == Len(rets)
           L == Len(stack)
           top == Last(stack)
<1>1. /\ L \in 1 .. L /\ top = stack[L] /\ L \in Nat /\ stack \in Seq(Frames)
      /\ top.acts \in Seq(Nat) /\ top \in Frames
      /\ top.acts # <<>> /\ top.zones = <<>> /\ stack # <<>>
      /\ Last(rets).orig[1] # "code" => Len(top.acts) >= 2 /\ top.kind \notin LeafKinds
  BY EpilogFrame, StackFacts DEF TypeOK
<1>2. /\ n \in Nat \ {0} /\ n \in 1 .. n /\ n \in RecordsOf(L) /\ rets[n].slot = L
      /\ Last(rets).orig[1] = "code" => RecordsOf(L) = {n}
  BY EpilogRecords DEF RecordsOf
<1>3. /\ Len(rets') = n - 1 /\ \A i \in 1 .. n - 1 : i \in 1 .. n /\ i # n /\ rets'[i] = rets[i]
  <2>1. rets \in Seq(Records) /\ rets # <<>> /\ rets' = Front(rets)
    BY <1>2 DEF TypeOK, ReturnTo
  <2>2. Len(rets') = n - 1 /\ \A i \in 1 .. n - 1 : rets'[i] = rets[i]
    BY <2>1, FrontFacts
  <2> QED BY <1>2, <2>2
<1>4. \A i \in 1 .. n : rets[i].slot \in 1 .. L
  BY DEF Chain, Placed
<1> HIDE DEF n, L, top
<1>5. \A s : RecordsOf(s)' = RecordsOf(s) \ (IF s = L THEN {n} ELSE {})
  <2>1. 1 .. n = 1 .. n - 1 \cup {n}
    BY <1>2
  <2>2. \A s : RecordsOf(s)' = {i \in 1 .. n - 1 : rets[i].slot = s}
    BY <1>3 DEF RecordsOf
  <2>3. \A s : RecordsOf(s) = {i \in 1 .. n : rets[i].slot = s}
    BY DEF RecordsOf, n
  <2> QED BY <1>2, <1>3, <2>1, <2>2, <2>3
<1>6. \A s \in 1 .. L : Len(stack[s].acts) = Cardinality(RecordsOf(s)) + 0
  BY DEF Linked, L
<1>7. \A s \in 1 .. L : s # L => Below(stack[s], top)
  <2>1. \A s \in 1 .. L : s # L => s < L
    BY <1>1
  <2> QED BY <1>1, <2>1 DEF Nested, L
<1>8. CASE Last(rets).orig[1] = "code"
  <2>1. ctl' = "run" /\ stack' = Front(stack)
    BY <1>8 DEF ReturnTo
  <2>2. /\ Len(stack') = L - 1
        /\ \A s \in 1 .. L - 1 : s \in 1 .. L /\ s # L /\ stack'[s] = stack[s]
    <3>1. Len(stack') = L - 1 /\ \A s \in 1 .. L - 1 : stack'[s] = stack[s]
      BY <1>1, <2>1, FrontFacts DEF L
    <3> QED BY <1>1, <3>1
  <2>3. \A s \in 1 .. L - 1 : Len(stack'[s].acts) = Cardinality(RecordsOf(s)') + 0
    BY <1>5, <1>6, <2>2
  <2>4. ASSUME NEW i \in 1 .. n - 1
        PROVE  IF stack'[rets'[i].slot].kind \in LeafKinds
                 THEN rets'[i].kind = stack'[rets'[i].slot].kind ELSE rets'[i].kind \in PopsTimer
    <3>1. i \in 1 .. n /\ i # n /\ rets'[i] = rets[i]
      BY <1>3
    <3>2. rets[i].slot # L
      BY <1>2, <1>8, <3>1 DEF RecordsOf, n
    <3>3. rets[i].slot \in 1 .. L - 1
      BY <1>1, <1>4, <3>1, <3>2
    <3> QED BY <2>2, <3>1, <3>3 DEF Linked, n
  <2>5. Linked'
    BY <1>3, <2>1, <2>2, <2>3, <2>4 DEF Linked
  <2>6. stack' # <<>> => Last(stack').kind \notin LeafKinds
    <3>1. ASSUME stack' # <<>> PROVE L - 1 \in 1 .. L - 1 /\ Last(stack') = stack'[L - 1]
      <4>1. stack' \in Seq(Frames)
        BY <1>1, <2>1, FrontFacts
      <4>2. Len(stack') # 0
        BY <3>1, <4>1
      <4> QED BY <1>1, <2>2, <4>2 DEF Last
    <3> QED BY <1>7, <2>2, <3>1 DEF Below
  <2> QED BY <2>1, <2>5, <2>6
<1>9. CASE Last(rets).orig[1] # "code"
  <2> DEFINE new == [top EXCEPT !.acts = Front(top.acts)]
  <2>1. ctl' = "epilog" /\ stack' = [stack EXCEPT ![Len(stack)] = new]
    BY <1>1, <1>9 DEF ReturnTo, top, L
  <2>2. Front(top.acts) \in Seq(Nat) /\ Len(Front(top.acts)) = Len(top.acts) - 1
    BY <1>1, FrontFacts
  <2>3. /\ new \in Frames /\ new.kind = top.kind /\ new.zones = <<>>
        /\ new.acts = Front(top.acts)
    BY <1>1, <2>2 DEF Frames
  <2> HIDE DEF new
  <2>4. /\ stack' \in Seq(Frames) /\ Len(stack') = L /\ stack'[L] = new
        /\ \A s \in 1 .. L : s # L => stack'[s] = stack[s]
    <3> DEFINE r == [stack EXCEPT ![Len(stack)] = new]
    <3>1. /\ r \in Seq(Frames) /\ Len(r) = L /\ r[L] = new
          /\ \A s \in 1 .. L : s # L => r[s] = stack[s]
      BY <1>1, <2>3, ChangeTop DEF L
    <3> QED BY <2>1, <3>1
  <2>5. Last(stack') = new /\ stack' # <<>>
    BY <1>1, <2>4 DEF Last
  <2>6. ASSUME NEW s \in 1 .. L PROVE Len(stack'[s].acts) = Cardinality(RecordsOf(s)') + 0
    <3>1. CASE s = L
      <4>1. RecordsOf(s)' = RecordsOf(s) \ {n} /\ n \in RecordsOf(s)
        BY <1>2, <1>5, <3>1
      <4>2. Cardinality(RecordsOf(s) \ {n}) = Cardinality(RecordsOf(s)) - 1
            /\ Cardinality(RecordsOf(s)) \in Nat
        BY <4>1, RecordsFinite, FS_RemoveElement
      <4>3. Len(top.acts) = Cardinality(RecordsOf(s)) + 0
        BY <1>1, <1>6, <3>1
      <4> QED BY <2>2, <2>3, <2>4, <3>1, <4>1, <4>2, <4>3
    <3>2. CASE s # L
      BY <1>5, <1>6, <2>4, <3>2
    <3> QED BY <3>1, <3>2
  <2>7. ASSUME NEW i \in 1 .. n - 1
        PROVE  IF stack'[rets'[i].slot].kind \in LeafKinds
                 THEN rets'[i].kind = stack'[rets'[i].slot].kind ELSE rets'[i].kind \in PopsTimer
    <3>1. i \in 1 .. n /\ rets'[i] = rets[i] /\ rets[i].slot \in 1 .. L
      BY <1>3, <1>4
    <3>2. stack'[rets[i].slot].kind = stack[rets[i].slot].kind
      BY <1>1, <2>3, <2>4, <3>1
    <3> QED BY <3>1, <3>2 DEF Linked, n
  <2>8. Linked'
    BY <1>3, <2>1, <2>4, <2>6, <2>7 DEF Linked
  <2> QED BY <1>1, <1>9, <2>1, <2>3, <2>5, <2>8
<1> QED BY <1>8, <1>9
-----------------------------------------------------------------------------
(* The order of the timers.                                                *)

LEMMA OrderKeeps ==
  ASSUME TypeOK, Ordered, timers' = timers, sent' = sent,
         calls' \in Nat, calls <= calls', sessionID' \in Nat, sessionID <= sessionID',
         tlsSession' \in {tlsSession, sessionID},
         InProlog' => CurrentCall' = calls' /\ (InProlog \/ calls < calls'),
         ctl' = "epilog" => stack' # <<>> /\ Last(stack').zones = <<>>
  PROVE  Ordered'
<1>1. /\ calls \in Nat /\ sessionID \in Nat /\ Len(timers) \in Nat
      /\ \A i \in 1 .. Len(timers) : timers[i].call \in Nat /\ timers[i].session \in Nat
  BY TimerFacts DEF TimerSeq
<1>2. ASSUME NEW i \in 1 .. Len(timers)
      PROVE  /\ timers[i].call <= calls' /\ timers[i].session <= sessionID'
             /\ InProlog' => timers[i].call < calls'
  <2>1. /\ timers[i].call <= calls /\ timers[i].session <= sessionID
        /\ InProlog => timers[i].call < calls
    BY DEF Ordered
  <2> QED BY <1>1, <2>1
<1>3. /\ tlsSession' \in Int /\ tlsSession' <= sessionID'
      /\ sent.session \in Int /\ sent.session <= sessionID'
  BY <1>1 DEF Ordered
<1>4. \A i, j \in 1 .. Len(timers) : i < j =>
        timers[i].call < timers[j].call /\ timers[i].session <= timers[j].session
  BY DEF Ordered
<1> QED BY <1>2, <1>3, <1>4 DEF Ordered

LEMMA OrderPushes ==
  ASSUME TypeOK, Ordered, InProlog, NEW t \in Timers, timers' = Append(timers, t),
         t.call = calls, t.session = sessionID, ~InProlog', ctl' # "epilog",
         UNCHANGED <<calls, sessionID, tlsSession, sent>>
  PROVE  Ordered'
<1> DEFINE n == Len(timers)
<1>1. /\ n \in Nat /\ Len(timers') = n + 1 /\ timers'[n + 1] = t
      /\ \A i \in 1 .. n : timers'[i] = timers[i]
      /\ 1 .. n + 1 = 1 .. n \cup {n + 1}
      /\ \A i, j \in 1 .. n + 1 : i < j => i \in 1 .. n
  BY TimerFacts DEF TimerSeq
<1>2. /\ calls \in Nat /\ sessionID \in Nat
      /\ \A i \in 1 .. n : timers[i].call \in Nat /\ timers[i].session \in Nat
  BY TimerFacts DEF TimerSeq
<1>3. \A i \in 1 .. n : timers[i].call < calls /\ timers[i].session <= sessionID
  BY DEF Ordered
<1>4. \A i, j \in 1 .. n : i < j =>
        timers[i].call < timers[j].call /\ timers[i].session <= timers[j].session
  BY DEF Ordered
<1> HIDE DEF n
<1>5. \A i \in 1 .. n + 1 : timers'[i].call <= calls /\ timers'[i].session <= sessionID
  BY <1>1, <1>2, <1>3
<1>6. ASSUME NEW i \in 1 .. n + 1, NEW j \in 1 .. n + 1, i < j
      PROVE  timers'[i].call < timers'[j].call /\ timers'[i].session <= timers'[j].session
  <2>1. i \in 1 .. n
    BY <1>1, <1>6
  <2>2. CASE j \in 1 .. n
    BY <1>1, <1>4, <1>6, <2>1, <2>2
  <2>3. CASE j = n + 1
    BY <1>1, <1>3, <2>1, <2>3
  <2> QED BY <1>1, <2>2, <2>3
<1> QED BY <1>1, <1>5, <1>6 DEF Ordered

LEMMA OrderPops ==
  ASSUME TypeOK, Ordered, timers # <<>>, timers' = Front(timers), ~InProlog',
         UNCHANGED <<calls, sessionID, tlsSession>>,
         sent' = sent \/ sent'.session = Last(timers).session,
         ctl' = "epilog" => stack' # <<>> /\ Last(stack').zones = <<>>
  PROVE  Ordered'
<1> DEFINE n == Len(timers)
<1>1. /\ n \in Nat \ {0} /\ n \in 1 .. n /\ Len(timers') = n - 1 /\ Last(timers) = timers[n]
      /\ \A i \in 1 .. n - 1 : i \in 1 .. n /\ timers'[i] = timers[i]
  <2>1. timers \in Seq(Timers)
    BY TimerFacts DEF TimerSeq
  <2>2. /\ n \in Nat \ {0} /\ Len(timers') = n - 1 /\ Last(timers) = timers[n]
        /\ \A i \in 1 .. n - 1 : timers'[i] = timers[i]
    BY <2>1, FrontFacts DEF Last
  <2> QED BY <2>2
<1>2. /\ sessionID \in Nat /\ \A i \in 1 .. n : timers[i].session \in Nat
      /\ \A i \in 1 .. n : timers[i].call <= calls /\ timers[i].session <= sessionID
      /\ \A i, j \in 1 .. n : i < j =>
           timers[i].call < timers[j].call /\ timers[i].session <= timers[j].session
  BY TimerFacts DEF Ordered, TimerSeq
<1> HIDE DEF n
<1>3. /\ \A i \in 1 .. n - 1 : timers'[i].call <= calls /\ timers'[i].session <= sessionID
      /\ \A i, j \in 1 .. n - 1 : i < j =>
           timers'[i].call < timers'[j].call /\ timers'[i].session <= timers'[j].session
  BY <1>1, <1>2
<1>4. sent'.session \in Int /\ sent'.session <= sessionID
  BY <1>1, <1>2 DEF Ordered
<1>5. tlsSession \in Int /\ tlsSession <= sessionID
  BY DEF Ordered
<1> QED BY <1>1, <1>3, <1>4, <1>5 DEF Ordered
-----------------------------------------------------------------------------
(* What each step does to the timers and to what is open.                  *)

LEMMA Bounds ==
  ASSUME TypeOK
  PROVE  /\ OpenActs \in SUBSET (1 .. calls) /\ OpenZones \in SUBSET (1 .. calls)
         /\ calls \in Nat /\ zoneStack \in Nat /\ sessionID \in Nat
BY DEF TypeOK, OpenActs, OpenZones

\* Steps of the thread that stop no timer
LEMMA SentKeeps ==
  ASSUME SentFaithful, UNCHANGED <<sent, sessionID>>, torn \subseteq torn'
  PROVE  SentFaithful'
BY DEF SentFaithful

LEMMA MeasuredSame ==
  ASSUME UNCHANGED <<timers, sessionID>>
  PROVE  Measured' = Measured
BY DEF Measured

\* What a zone hooked on one side tears
LEMMA TornFacts ==
  ASSUME TypeOK, NEW k, NEW c, sessionID \notin Torn(k, c)
  PROVE  /\ k = "ZoneStop" => c \notin Measured
         /\ k = "ZoneStart" /\ zoneStack > 0 => Measured = {}
<1>1. ASSUME k = "ZoneStop", c \in Measured PROVE FALSE
  <2>1. PICK i \in 1 .. Len(timers) : timers[i].session = sessionID /\ timers[i].call = c
    BY <1>1 DEF Measured
  <2> QED BY <1>1, <2>1 DEF Torn
<1>2. ASSUME k = "ZoneStart", zoneStack > 0, Measured # {} PROVE FALSE
  <2>1. PICK i \in 1 .. Len(timers) : timers[i].session = sessionID
    BY <1>2 DEF Measured
  <2> QED BY <1>2, <2>1 DEF Torn
<1> QED BY <1>1, <1>2

\* Without timers no zone is counted.
LEMMA KeptNone ==
  ASSUME NEW A, NEW Z, NEW E, NEW n \in Nat, NEW noticed, Kept(A, Z, {}, E, n, noticed), noticed
  PROVE  n = 0
<1>1. n <= Cardinality(Since(Z, {}, 0))
  BY DEF Kept
<1>2. Since(Z, {}, 0) = {}
  BY DEF Since
<1> QED BY <1>1, <1>2, FS_EmptySet

LEMMA CallTracks ==
  ASSUME TypeOK, TypeOK', Entering, Chain, Tracked, NEW k \in Kinds \cup {"Plain"}, Call(k)
  PROVE  Tracked'
<1> DEFINE g == stack'[Len(stack) + 1]
<1>0. Nested /\ Linked /\ Ordered /\ Faithful /\ SentFaithful
  BY DEF Tracked
<1>1. CallsFrom(k, g)
  BY CallShape
<1>2. /\ ctl = "run" /\ ctl' = IF k \in enabled THEN "prolog" ELSE "run"
      /\ calls' = calls + 1 /\ calls \in Nat
      /\ UNCHANGED <<rets, timers, zoneStack, tlsSession, sessionID, sent>>
  BY DEF Call, TypeOK, tlsVars, captureVars
<1>3. torn \subseteq torn' /\ (k \notin enabled /\ k = "ZoneStop" =>
                                 Torn(k, Last(Last(stack).zones)) \subseteq torn')
      /\ (k \notin enabled /\ k = "ZoneStart" => Torn(k, 0) \subseteq torn')
  BY DEF Call
<1>4. Len(stack') = Len(stack) + 1 /\ Len(stack) \in Nat
      /\ g.acts = IF k \in enabled THEN <<calls + 1>> ELSE <<>>
  BY <1>1 DEF CallsFrom
<1>5. Last(stack') = g /\ (k \in enabled => CurrentCall' = calls')
  <2>1. Last(stack') = g
    BY <1>4 DEF Last
  <2>2. Last(<<calls + 1>>) = calls + 1
    BY DEF Last
  <2> QED BY <1>2, <1>4, <2>1, <2>2 DEF CurrentCall
<1>6. Nested' /\ OpenActs' = OpenActs \cup ActsCalled(k) /\ OpenZones' = ZonesCalled(k)
  BY <1>0, <1>1, CallNests, CallOpens
<1>7. Linked'
  BY <1>0, <1>1, <1>2, CallLinks
<1>8. Ordered'
  <2>1. InProlog' => CurrentCall' = calls' /\ calls < calls'
    BY <1>2, <1>5 DEF InProlog
  <2>2. sessionID' \in Nat /\ sessionID <= sessionID' /\ calls' \in Nat /\ calls <= calls'
    BY <1>2 DEF TypeOK
  <2> HIDE DEF g
  <2> QED BY <1>0, <1>2, <2>1, <2>2, OrderKeeps
<1>9. Faithful'
  <2> SUFFICES ASSUME sessionID \notin torn'
               PROVE  Kept(OpenActs', OpenZones', Measured, Entered', zoneStack,
                           tlsSession = sessionID)
    BY <1>2, MeasuredSame DEF Faithful
  <2> DEFINE noticed == tlsSession = sessionID
  <2>1. Kept(OpenActs, OpenZones, Measured, {}, zoneStack, noticed)
    <3>1. Entered = {} /\ sessionID \notin torn
      BY <1>2, <1>3 DEF Entered, InProlog
    <3> QED BY <1>0, <3>1 DEF Faithful
  <2>2. calls + 1 \notin Measured
    BY <1>0, <1>2, MeasuredOld
  <2>3. CASE k \in enabled
    <3>1. Entered' = {calls + 1}
      BY <1>2, <2>3 DEF Entered, InProlog
    <3>2. PICK S \in SUBSET {calls + 1} : OpenActs' = OpenActs \cup S
      BY <1>6 DEF ActsCalled
    <3>3. PICK R \in SUBSET {calls + 1} : OpenZones' = OpenZones \cup R
      <4>1. OpenZones' = OpenZones \cup (IF k = "ZoneStart" THEN {calls + 1} ELSE {})
        BY <1>6, <2>3 DEF ZonesCalled
      <4> QED BY <4>1
    <3> HIDE DEF noticed
    <3>4. Kept(OpenActs \cup S, OpenZones \cup R, Measured, {calls + 1}, zoneStack, noticed)
      BY <2>1, <2>2, KeptOpens
    <3> QED BY <3>1, <3>2, <3>3, <3>4 DEF noticed
  <2>4. CASE k \notin enabled
    <3>1. Entered' = {} /\ OpenActs' = OpenActs
      BY <1>2, <1>6, <2>4 DEF Entered, InProlog, ActsCalled
    <3>2. CASE k = "ZoneStart"
      <4>1. OpenZones' = OpenZones \cup {calls + 1}
        BY <1>6, <3>2 DEF ZonesCalled
      <4>2. zoneStack > 0 => Measured = {}
        BY <1>3, <2>4, <3>2, TornFacts
      <4> HIDE DEF noticed
      <4>3. noticed => zoneStack = 0
        <5>1. ASSUME noticed, zoneStack > 0 PROVE FALSE
          <6>1. Kept(OpenActs, OpenZones, {}, {}, zoneStack, noticed)
            BY <2>1, <4>2, <5>1
          <6>2. zoneStack = 0
            BY <5>1, <6>1, KeptNone, Bounds
          <6> QED BY <5>1, <6>2
        <5> QED BY <5>1, Bounds
      <4>4. Kept(OpenActs, OpenZones \cup {calls + 1}, Measured, {}, zoneStack, noticed)
        BY <2>1, <2>2, <4>3, KeptSkips, Bounds
      <4> QED BY <3>1, <4>1, <4>4 DEF noticed
    <3>3. CASE k = "ZoneStop"
      <4>1. OpenZones' = OpenZones \ {Last(Last(stack).zones)}
        BY <1>6, <2>4, <3>3 DEF ZonesCalled
      <4>2. Last(Last(stack).zones) \notin Measured
        BY <1>3, <2>4, <3>3, TornFacts
      <4> HIDE DEF noticed
      <4>3. Kept(OpenActs, OpenZones \ {Last(Last(stack).zones)}, Measured, {}, zoneStack, noticed)
        BY <2>1, <4>2, KeptCloses
      <4> QED BY <3>1, <4>1, <4>3 DEF noticed
    <3>4. CASE k \notin {"ZoneStart", "ZoneStop"}
      BY <1>6, <2>1, <3>1, <3>4 DEF ZonesCalled
    <3> QED BY <3>2, <3>3, <3>4
  <2> QED BY <2>3, <2>4
<1>10. Noticed'
  BY <1>2, <1>4, <1>5 DEF Noticed
<1>11. SentFaithful'
  BY <1>0, <1>2, <1>3, SentKeeps
<1> QED BY <1>6, <1>7, <1>8, <1>9, <1>10, <1>11 DEF Tracked

LEMMA JumpTracks ==
  ASSUME TypeOK, TypeOK', Entering, Chain, Tracked, NEW k \in Kinds, Jump(k)
  PROVE  Tracked'
<1>0. Nested /\ Linked /\ Ordered /\ Faithful /\ SentFaithful
  BY DEF Tracked
<1>1. JumpsTo(k)
  BY JumpShape
<1>2. /\ ctl = "run" /\ ctl' = "prolog" /\ calls' = calls + 1 /\ calls \in Nat
      /\ UNCHANGED <<rets, timers, zoneStack, tlsSession, sessionID, sent, torn>>
  BY DEF Jump, TypeOK, tlsVars, captureVars, ghostVars
<1>3. CurrentCall' = calls'
  <2>1. /\ Last(stack').acts = Append(stack[Len(stack)].acts, calls + 1)
        /\ stack[Len(stack)].acts \in Seq(Nat) /\ calls + 1 \in Nat
    BY <1>1, <1>2, StackFacts DEF JumpsTo, Last
  <2> QED BY <1>2, <2>1, AppendElems DEF CurrentCall
<1>4. Nested' /\ OpenActs' = OpenActs \cup {calls + 1} /\ OpenZones' = OpenZones
  BY <1>0, <1>1, JumpOpens
<1>5. Linked'
  BY <1>0, <1>1, <1>2, JumpLinks
<1>6. Ordered'
  <2>1. InProlog' => CurrentCall' = calls' /\ calls < calls'
    BY <1>2, <1>3
  <2>2. sessionID' \in Nat /\ sessionID <= sessionID' /\ calls' \in Nat /\ calls <= calls'
    BY <1>2 DEF TypeOK
  <2> QED BY <1>0, <1>2, <2>1, <2>2, OrderKeeps
<1>7. Faithful'
  <2> SUFFICES ASSUME sessionID \notin torn
               PROVE  Kept(OpenActs', OpenZones', Measured, Entered', zoneStack,
                           tlsSession = sessionID)
    BY <1>2, MeasuredSame DEF Faithful
  <2> DEFINE noticed == tlsSession = sessionID
  <2>1. Kept(OpenActs, OpenZones, Measured, {}, zoneStack, noticed)
    <3>1. Entered = {}
      BY <1>2 DEF Entered, InProlog
    <3> QED BY <1>0, <3>1 DEF Faithful
  <2>2. calls + 1 \notin Measured
    BY <1>0, <1>2, MeasuredOld
  <2>3. Entered' = {calls + 1}
    BY <1>2 DEF Entered, InProlog
  <2> HIDE DEF noticed
  <2>4. Kept(OpenActs \cup {calls + 1}, OpenZones \cup {}, Measured, {calls + 1},
             zoneStack, noticed)
    BY <2>1, <2>2, KeptOpens
  <2> QED BY <1>4, <2>3, <2>4 DEF noticed
<1>8. Noticed'
  BY <1>2 DEF Noticed
<1>9. SentFaithful'
  BY <1>0, <1>2, SentKeeps
<1> QED BY <1>4, <1>5, <1>6, <1>7, <1>8, <1>9 DEF Tracked


LEMMA ReturnTracks ==
  ASSUME TypeOK, TypeOK', Entering, Chain, Tracked, Return
  PROVE  Tracked'
<1> DEFINE L == Len(stack)
           top == Last(stack)
<1>0. Nested /\ Linked /\ Ordered /\ Faithful /\ Noticed /\ SentFaithful
  BY DEF Tracked
<1>1. /\ ctl = "run" /\ stack # <<>> /\ top.zones = <<>>
      /\ UNCHANGED <<calls, rets, timers, zoneStack, tlsSession, sessionID, sent, torn>>
      /\ \/ top.ret[1] = "code" /\ stack' = Front(stack) /\ ctl' = "run"
         \/ stack' = stack /\ ctl' = "epilog"
  BY DEF Return, tlsVars, captureVars
<1>2. Entered = {} /\ Entered' = {} /\ ~InProlog'
  BY <1>1 DEF Entered, InProlog
<1>3. Ordered'
  <2>1. sessionID' \in Nat /\ sessionID <= sessionID' /\ calls' \in Nat /\ calls <= calls'
    BY <1>1 DEF TypeOK
  <2>2. ctl' = "epilog" => stack' # <<>> /\ Last(stack').zones = <<>>
    BY <1>1
  <2> QED BY <1>0, <1>1, <1>2, <2>1, <2>2, OrderKeeps
<1>4. SentFaithful'
  BY <1>0, <1>1, SentKeeps
<1>5. ASSUME OpenActs' = OpenActs, OpenZones' = OpenZones PROVE Faithful'
  <2>1. Measured' = Measured
    BY <1>1, MeasuredSame
  <2> QED BY <1>0, <1>1, <1>2, <1>5, <2>1 DEF Faithful
<1>6. CASE top.ret[1] = "code" /\ stack' = Front(stack) /\ ctl' = "run"
  <2>1. /\ top.acts = <<>>
        /\ \A i \in 1 .. Len(rets) : rets[i].slot \in 1 .. L - 1
    BY <1>0, <1>1, <1>6, PlainReturn
  <2>2. ActsOfTop = {} /\ ZonesOfTop = {}
    BY <2>1, NoElems DEF ActsOfTop, ZonesOfTop
  <2>3. Nested' /\ OpenActs' = OpenActs /\ OpenZones' = OpenZones
    <3>1. Nested' /\ OpenActs' = OpenActs \ ActsOfTop /\ OpenZones' = OpenZones \ ZonesOfTop
      BY <1>0, <1>1, <1>6, LeaveOpens
    <3> QED BY <2>2, <3>1
  <2>4. Linked'
    BY <1>0, <1>1, <1>6, <2>1, LeaveLinks
  <2>5. Noticed'
    <3>1. ASSUME stack' # <<>> PROVE Last(stack').kind \notin LeafKinds
      <4>1. /\ L \in 1 .. L /\ L \in Nat /\ stack \in Seq(Frames) /\ top = stack[L]
        BY <1>1, StackFacts DEF TypeOK
      <4>2. /\ stack' \in Seq(Frames) /\ Len(stack') = L - 1
            /\ \A s \in 1 .. L - 1 : stack'[s] = stack[s]
        BY <1>1, <1>6, <4>1, FrontFacts
      <4>3. Len(stack') # 0
        BY <3>1, <4>2
      <4>4. L - 1 \in 1 .. L - 1 /\ L - 1 \in 1 .. L /\ L - 1 < L
        BY <4>1, <4>2, <4>3
      <4>5. Last(stack') = stack[L - 1] /\ Below(stack[L - 1], stack[L])
        BY <1>0, <4>1, <4>2, <4>4 DEF Last, Nested
      <4> QED BY <4>5 DEF Below
    <3> QED BY <3>1, Leaves DEF Noticed
  <2> QED BY <1>3, <1>4, <1>5, <2>3, <2>4, <2>5 DEF Tracked
<1>7. CASE stack' = stack /\ ctl' = "epilog"
  <2>1. Settled
    BY <1>1, <1>7 DEF Settled, AsBefore
  <2>2. Nested' /\ OpenActs' = OpenActs /\ OpenZones' = OpenZones
    BY <1>0, <2>1, SettledKeeps
  <2>3. Linked'
    BY <1>0, <1>1, <1>7, <2>1, SettledLinks
  <2>4. Noticed'
    <3>1. Measured' = Measured
      BY <1>1, MeasuredSame
    <3> QED BY <1>0, <1>1, <1>7, <3>1 DEF Noticed
  <2> QED BY <1>3, <1>4, <1>5, <2>2, <2>3, <2>4 DEF Tracked
<1> QED BY <1>1, <1>6, <1>7

LEMMA EnterTracks ==
  ASSUME TypeOK, TypeOK', Entering, Chain, Tracked, PrologEnter
  PROVE  Tracked'
<1>0. Nested /\ Linked /\ Ordered /\ Faithful /\ SentFaithful
  BY DEF Tracked
<1>1. /\ ctl = "prolog" /\ ctl' = "prologBody" /\ tlsSession' = sessionID
      /\ zoneStack' = IF tlsSession # sessionID THEN 0 ELSE zoneStack
      /\ UNCHANGED <<stack, calls, timers, sessionID, sent, torn>>
  BY DEF PrologEnter, captureVars
<1>2. Settled
  BY <1>1 DEF Settled, AsBefore
<1>3. Nested' /\ OpenActs' = OpenActs /\ OpenZones' = OpenZones
  BY <1>0, <1>2, SettledKeeps
<1>4. Linked'
  BY <1>0, EnterLinks
<1>5. Entered' = Entered /\ InProlog /\ Measured' = Measured
  BY <1>1, MeasuredSame DEF Entered, InProlog
<1>6. Ordered'
  <2>1. CurrentCall' = calls'
    BY <1>0, <1>1, <1>5 DEF Ordered, CurrentCall
  <2>2. sessionID' \in Nat /\ sessionID <= sessionID' /\ calls' \in Nat /\ calls <= calls'
    BY <1>1 DEF TypeOK
  <2> QED BY <1>0, <1>1, <1>5, <2>1, <2>2, OrderKeeps
<1>7. Faithful'
  <2> SUFFICES ASSUME sessionID \notin torn
               PROVE  Kept(OpenActs, OpenZones, Measured, Entered, zoneStack', TRUE)
    BY <1>1, <1>3, <1>5 DEF Faithful
  <2>1. Kept(OpenActs, OpenZones, Measured, Entered, zoneStack, tlsSession = sessionID)
    BY <1>0 DEF Faithful
  <2>2. CASE tlsSession = sessionID
    BY <1>1, <2>1, <2>2 DEF Kept
  <2>3. CASE tlsSession # sessionID
    <3>1. \A z : 0 <= Cardinality(Since(OpenZones, Measured, z))
      <4>1. \A z : Cardinality(Since(OpenZones, Measured, z)) \in Nat
        BY Bounds, SinceFinite
      <4> QED BY <4>1
    <3> QED BY <1>1, <2>1, <2>3, <3>1 DEF Kept
  <2> QED BY <2>2, <2>3
<1>8. Noticed'
  BY <1>1 DEF Noticed
<1>9. SentFaithful'
  BY <1>0, <1>1, SentKeeps
<1> QED BY <1>3, <1>4, <1>6, <1>7, <1>8, <1>9 DEF Tracked


LEMMA BodySettles ==
  ASSUME TypeOK, Entering, Chain, PrologBody
  PROVE  Settled
<1> DEFINE L == Len(stack)
           walked == IF CurrentKind = "ZoneStop" THEN stack ELSE Walked
<1>1. /\ stack' = [walked EXCEPT ![L].ret = Stub(CurrentKind)] /\ calls' = calls
  BY DEF PrologBody
<1>2. /\ L \in Nat /\ L \in 1 .. L /\ stack \in Seq(Frames)
      /\ \A s \in 1 .. L : stack[s] \in Frames
  <2>1. stack # <<>>
    BY DEF Entering, PrologBody
  <2> QED BY <2>1, StackFacts DEF TypeOK
<1>3. walked \in Seq(Frames) /\ Len(walked) = L /\ \A s \in 1 .. L : AsBefore(walked[s], stack[s])
  <2>1. \A s \in 1 .. L : [stack[s] EXCEPT !.ret = OverridenAddress(s)] = stack[s]
    BY <1>2, WalkRestores DEF Frames
  <2>2. Walked = [s \in 1 .. L |-> stack[s]]
    BY <2>1 DEF Walked
  <2>3. [s \in 1 .. L |-> stack[s]] = stack
    BY <1>2
  <2> QED BY <1>2, <2>2, <2>3 DEF AsBefore
<1> HIDE DEF walked, L
<1>4. /\ Len(stack') = L
      /\ \A s \in 1 .. L : stack'[s] = walked[s] \/ stack'[s] = [walked[s] EXCEPT !.ret = Stub(CurrentKind)]
  BY <1>1, <1>2, <1>3
<1>5. \A s \in 1 .. L : AsBefore(stack'[s], walked[s])
  <2> SUFFICES ASSUME NEW s \in 1 .. L PROVE AsBefore(stack'[s], walked[s])
    OBVIOUS
  <2>1. walked[s] \in Frames
    BY <1>3
  <2>2. CASE stack'[s] = walked[s]
    BY <2>2 DEF AsBefore
  <2>3. CASE stack'[s] = [walked[s] EXCEPT !.ret = Stub(CurrentKind)]
    BY <2>1, <2>3 DEF AsBefore, Frames
  <2> QED BY <1>4, <2>2, <2>3
<1> QED BY <1>1, <1>3, <1>4, <1>5 DEF Settled, AsBefore, L

\* The call of a prolog is the newest; whether it is open and as what is known
\* by its kind.
LEMMA PrologCall ==
  ASSUME TypeOK, Entering, Nested, Ordered, ctl = "prologBody"
  PROVE  /\ calls \in Nat /\ CurrentCall = calls
         /\ CurrentKind \in PopsTimer => calls \in OpenActs /\ calls \notin OpenZones
         /\ CurrentKind = "ZoneStart" => calls \in OpenZones
         /\ CurrentKind \notin TimedKinds => calls \notin OpenActs /\ calls \notin OpenZones
<1> DEFINE L == Len(stack)
           top == Last(stack)
           c == calls
<1>1. /\ L \in Nat /\ L \in 1 .. L /\ top = stack[L] /\ top.acts \in Seq(Nat) /\ top.site \in Nat
      /\ top.zones \in Seq(Nat) /\ top.closes \in Nat /\ c \in Nat
      /\ FrameOK(top, c) /\ Elems(top.acts) \subseteq Nat /\ Elems(top.zones) \subseteq Nat
      /\ stack # <<>> /\ top.acts # <<>> /\ top.kind \in KindSet /\ CurrentKind = top.kind
  <2>1. stack # <<>> /\ top.acts # <<>> /\ top.kind \in KindSet
    BY DEF Entering
  <2> QED BY <2>1, StackFacts DEF Nested, CurrentKind, TypeOK
<1>2. CurrentCall = c
  BY DEF Ordered, InProlog
<1>3. c \in Elems(top.acts)
  BY <1>1, <1>2, FrontElems DEF CurrentCall, FrameOK
<1> HIDE DEF L, top, c
<1>4. top.zones = <<>>
  <2>1. \A z \in Elems(top.zones) : c < z /\ z <= c
    BY <1>1, <1>3 DEF FrameOK
  <2>2. Elems(top.zones) = {}
    BY <1>1, <2>1
  <2> QED BY <1>1, <2>2, NoElems
<1>5. CASE top.kind \in PopsTimer
  <2>1. top.kind \notin LeafKinds /\ top.kind # "ZoneStart"
    BY <1>5, Leaves
  <2>2. CurrentCall \in OpenActs /\ CurrentCall \notin OpenZones
    BY <1>1, <1>4, <2>1, TopTimer DEF top
  <2> QED BY <1>1, <1>2, <1>5, <2>1, <2>2, Leaves DEF c
<1>6. ASSUME top.kind \in LeafKinds PROVE c = top.site
  BY <1>1, <1>3, <1>6 DEF FrameOK
<1>7. CASE top.kind = "ZoneStart"
  <2>1. L > 1 /\ c \in Elems(stack[L - 1].zones)
    BY <1>1, <1>6, <1>7, Leaves DEF Nested, L
  <2>2. L - 1 \in 1 .. L
    BY <1>1, <2>1
  <2>3. c \in OpenZones
    BY <2>1, <2>2, InFrame DEF ZoneOpen, L
  <2> QED BY <1>1, <1>2, <1>7, <2>3, Leaves DEF c
<1>8. CASE top.kind \notin TimedKinds
  <2>1. top.kind \in LeafKinds /\ top.kind # "ZoneStart" /\ top.kind \notin PopsTimer
    BY <1>1, <1>8, Leaves
  <2>2. c = top.site
    BY <1>6, <2>1
  <2>3. ASSUME NEW s \in 1 .. L PROVE ~ActOpen(stack[s], c) /\ ~ZoneOpen(stack[s], c)
    <3>1. CASE s = L
      <4>1. top.kind = "ZoneStop" => top.closes < c
        BY <1>1, <2>2 DEF FrameOK
      <4>2. top.closes # c \/ top.kind # "ZoneStop"
        BY <1>1, <4>1
      <4> QED BY <1>1, <1>4, <2>1, <3>1, <4>2, NoElems DEF ActOpen, ZoneOpen
    <3>2. CASE s # L
      BY <2>1, <2>2, <3>2, OpenBelow DEF L, top
    <3> QED BY <3>1, <3>2
  <2>4. c \notin OpenActs /\ c \notin OpenZones
    BY <2>3 DEF OpenActs, OpenZones, L
  <2> QED BY <1>1, <1>2, <1>8, <2>1, <2>4 DEF c
<1> QED BY <1>1, <1>5, <1>7, <1>8, Leaves

LEMMA BodyTracks ==
  ASSUME TypeOK, TypeOK', Entering, Chain, Tracked, PrologBody
  PROVE  Tracked'
<1>0. Nested /\ Linked /\ Ordered /\ Faithful /\ Noticed /\ SentFaithful
  BY DEF Tracked
<1>1. /\ ctl = "prologBody" /\ ctl' = "run"
      /\ UNCHANGED <<calls, rets, tlsSession, sessionID, sent, torn>>
  BY DEF PrologBody, captureVars, ghostVars
<1>2. Settled
  BY BodySettles
<1>3. Nested' /\ OpenActs' = OpenActs /\ OpenZones' = OpenZones
  BY <1>0, <1>2, SettledKeeps
<1>4. Linked'
  BY <1>0, <1>1, <1>2, SettledLinks
<1>5. SentFaithful'
  BY <1>0, <1>1, SentKeeps
<1>6. Entered = {calls} /\ Entered' = {} /\ InProlog /\ ~InProlog'
  BY <1>1 DEF Entered, InProlog
<1>7. /\ calls \in Nat /\ CurrentCall = calls /\ calls \notin Measured
      /\ CurrentKind \in PopsTimer => calls \in OpenActs /\ calls \notin OpenZones
      /\ CurrentKind = "ZoneStart" => calls \in OpenZones
      /\ CurrentKind \notin TimedKinds => calls \notin OpenActs /\ calls \notin OpenZones
  BY <1>0, <1>1, <1>6, PrologCall, MeasuredOld
<1>8. /\ AsBefore(Last(stack'), Last(stack)) /\ (stack' # <<>> => stack # <<>>)
  <2>1. stack # <<>>
    BY <1>1 DEF Entering
  <2>2. Len(stack) \in 1 .. Len(stack)
    BY <2>1, StackFacts
  <2> QED BY <1>2, <2>1, <2>2 DEF Settled, Last
<1>9. CASE CurrentKind \in TimedKinds
  <2> DEFINE t == [call |-> CurrentCall, depth |-> depth, session |-> sessionID]
  <2>1. /\ timers' = Append(timers, t) /\ t \in Timers /\ t.call = calls /\ t.session = sessionID
        /\ zoneStack' = IF CurrentKind = "ZoneStart" THEN zoneStack + 1 ELSE zoneStack
    BY <1>7, <1>9 DEF PrologBody, Timers, TypeOK
  <2> HIDE DEF t
  <2>2. Ordered'
    BY <1>0, <1>1, <1>6, <2>1, OrderPushes
  <2>3. Measured' = Measured \cup {calls}
    BY <1>1, <2>1, NewTimer
  <2>4. Noticed'
    <3>1. Last(stack').kind # "ZoneStop"
      BY <1>8, <1>9, Leaves DEF AsBefore, CurrentKind
    <3> QED BY <3>1 DEF Noticed
  <2>5. Faithful'
    <3> DEFINE noticed == tlsSession = sessionID
    <3> SUFFICES ASSUME sessionID \notin torn
                 PROVE  Kept(OpenActs, OpenZones, Measured \cup {calls}, {}, zoneStack', noticed)
      BY <1>1, <1>3, <1>6, <2>3 DEF Faithful
    <3>1. Kept(OpenActs, OpenZones, Measured, {calls}, zoneStack, noticed)
      BY <1>0, <1>6 DEF Faithful
    <3> HIDE DEF noticed
    <3>2. /\ calls \in OpenActs \cup OpenZones
          /\ \/ calls \notin OpenZones /\ zoneStack' = zoneStack
             \/ calls \in OpenZones /\ zoneStack' = zoneStack + 1
      BY <1>7, <1>9, <2>1, Leaves
    <3>3. /\ \A x \in OpenActs \cup OpenZones : x <= calls
          /\ zoneStack \in Nat /\ zoneStack' \in Nat
          /\ OpenActs \in SUBSET (1 .. calls) /\ OpenZones \in SUBSET (1 .. calls)
      BY Bounds DEF TypeOK
    <3> QED BY <1>7, <3>1, <3>2, <3>3, KeptStarts
  <2> QED BY <1>3, <1>4, <1>5, <2>2, <2>4, <2>5 DEF Tracked
<1>10. CASE CurrentKind \notin TimedKinds
  <2>1. timers' = timers /\ zoneStack' = zoneStack
    BY <1>10, Leaves DEF PrologBody
  <2>2. Measured' = Measured
    BY <1>1, <2>1, MeasuredSame
  <2>3. Ordered'
    <3>1. sessionID' \in Nat /\ sessionID <= sessionID' /\ calls' \in Nat /\ calls <= calls'
      BY <1>1 DEF TypeOK
    <3> QED BY <1>0, <1>1, <1>6, <2>1, <3>1, OrderKeeps
  <2>4. Noticed'
    BY <1>0, <1>1, <1>8, <2>2 DEF Noticed, AsBefore
  <2>5. Faithful'
    <3> SUFFICES ASSUME sessionID \notin torn
                 PROVE  Kept(OpenActs, OpenZones, Measured, {}, zoneStack, tlsSession = sessionID)
      BY <1>1, <1>3, <1>6, <2>1, <2>2 DEF Faithful
    <3>1. Kept(OpenActs, OpenZones, Measured, {calls}, zoneStack, tlsSession = sessionID)
      BY <1>0, <1>6 DEF Faithful
    <3>2. /\ OpenActs \ {calls} = OpenActs \ {}
          /\ OpenZones \ (Measured \cup {calls}) = OpenZones \ (Measured \cup {})
      BY <1>7, <1>10
    <3> QED BY <3>1, <3>2 DEF Kept
  <2> QED BY <1>3, <1>4, <1>5, <2>3, <2>4, <2>5 DEF Tracked
<1> QED BY <1>9, <1>10


\* What every epilog does, whatever it pops
LEMMA EpilogShape ==
  ASSUME TypeOK, Chain, Nested, Linked, Ordered, ctl = "epilog", ReturnTo
  PROVE  /\ Nested' /\ Linked' /\ Noticed'
         /\ Entered = {} /\ Entered' = {} /\ ~InProlog'
         /\ ctl' = "epilog" => stack' # <<>> /\ Last(stack').zones = <<>>
         /\ UNCHANGED <<calls, sessionID, tlsSession>>
         /\ OpenActs' = OpenActs \ (IF target[1] \in PopsTimer THEN {CurrentCall} ELSE {})
         /\ OpenZones' = OpenZones \ (IF target[1] = "ZoneStop" THEN {Last(stack).closes}
                                                                ELSE {})
<1>1. UNCHANGED <<calls, sessionID, tlsSession>>
  BY DEF ReturnTo, captureVars
<1>2. /\ ctl' \in {"run", "epilog"}
      /\ ctl' = "epilog" => stack' # <<>> /\ Last(stack').zones = <<>>
      /\ stack' # <<>> => Last(stack').kind \notin LeafKinds
      /\ Linked'
  BY ReturnToLinks
<1>3. Noticed'
  BY <1>2, Leaves DEF Noticed
<1>4. Entered = {} /\ Entered' = {} /\ ~InProlog'
  BY <1>2 DEF Entered, InProlog
<1> QED BY <1>1, <1>2, <1>3, <1>4, ReturnToOpens

LEMMA EpilogTracks ==
  ASSUME TypeOK, TypeOK', Entering, Chain, Tracked, Epilog
  PROVE  Tracked'
<1> DEFINE t == Last(timers)
           c == CurrentCall
<1>0. Nested /\ Linked /\ Ordered /\ Faithful /\ SentFaithful
  BY DEF Tracked
<1>1. /\ ctl = "epilog" /\ ReturnTo /\ target[1] \in PopsTimer
      /\ timers # <<>> /\ timers' = Front(timers) /\ zoneStack' = zoneStack /\ torn' = torn
      /\ sent' = sent \/ sent' = [timer |-> t.call, ended |-> c, session |-> t.session]
  BY DEF Epilog, StopTimer
<1>2. /\ Nested' /\ Linked' /\ Noticed' /\ Entered = {} /\ Entered' = {} /\ ~InProlog'
      /\ ctl' = "epilog" => stack' # <<>> /\ Last(stack').zones = <<>>
      /\ UNCHANGED <<calls, sessionID, tlsSession>>
      /\ OpenActs' = OpenActs \ {c} /\ OpenZones' = OpenZones
  <2>1. target[1] # "ZoneStop"
    BY <1>1, Leaves
  <2> QED BY <1>0, <1>1, <2>1, EpilogShape
<1>3. Ordered'
  BY <1>0, <1>1, <1>2, OrderPops
<1>4. c \in OpenActs /\ c \notin OpenZones /\ Newest(c)
  <2>1. /\ stack # <<>> /\ Last(stack).acts # <<>> /\ Last(stack).zones = <<>>
        /\ Last(stack).kind \notin LeafKinds
    BY <1>0, <1>1, EpilogFrame, Leaves
  <2> QED BY <1>0, <2>1, TopTimer
<1>5. /\ t.call \in Nat /\ t.session \in Nat
      /\ t.session = sessionID => /\ t.call \in Measured /\ \A m \in Measured : m <= t.call
                                  /\ Measured' = Measured \ {t.call}
      /\ t.session # sessionID => Measured = {} /\ Measured' = {}
  BY <1>0, <1>1, <1>2, LastTimer
<1> HIDE DEF t, c
<1>6. ASSUME sessionID \notin torn
      PROVE  Kept(OpenActs, OpenZones, Measured, {}, zoneStack, tlsSession = sessionID)
  BY <1>0, <1>2, <1>6 DEF Faithful
<1>7. ASSUME sessionID \notin torn, t.session = sessionID PROVE t.call = c
  <2>1. t.call \in OpenActs \cup OpenZones
    BY <1>5, <1>6, <1>7 DEF Kept
  <2>2. t.call <= c /\ c \in Nat
    BY <1>4, <2>1, Bounds DEF Newest
  <2>3. t.call < c => c \in Measured
    BY <1>4, <1>5, <1>6, <1>7 DEF Kept
  <2>4. t.call < c => c <= t.call
    BY <1>5, <1>7, <2>3
  <2> QED BY <1>5, <2>2, <2>4
<1>8. Faithful'
  <2> DEFINE noticed == tlsSession = sessionID
  <2> SUFFICES ASSUME sessionID \notin torn
               PROVE  Kept(OpenActs \ {c}, OpenZones, Measured', {}, zoneStack, noticed)
    BY <1>1, <1>2 DEF Faithful
  <2>1. Kept(OpenActs, OpenZones, Measured, {}, zoneStack, noticed)
    BY <1>6
  <2>2. Measured' = Measured \ {c}
    BY <1>5, <1>7
  <2> HIDE DEF noticed
  <2>3. Kept(OpenActs \ {c}, OpenZones, Measured \ {c}, {}, zoneStack, noticed)
    BY <1>4, <2>1, KeptStops
  <2> QED BY <2>2, <2>3
<1>9. SentFaithful'
  <2>1. CASE sent' = sent
    BY <1>0, <1>1, <1>2, <2>1, SentKeeps
  <2>2. CASE sent' = [timer |-> t.call, ended |-> c, session |-> t.session]
    BY <1>1, <1>2, <1>7, <2>2 DEF SentFaithful
  <2> QED BY <1>1, <2>1, <2>2 DEF t, c
<1> QED BY <1>2, <1>3, <1>8, <1>9 DEF Tracked

LEMMA EmptyTracks ==
  ASSUME TypeOK, TypeOK', Entering, Chain, Tracked, EpilogEmpty
  PROVE  Tracked'
<1>0. Nested /\ Linked /\ Ordered /\ Faithful /\ SentFaithful
  BY DEF Tracked
<1>1. /\ ctl = "epilog" /\ ReturnTo /\ target[1] \in {"ZoneStart", "OutputDbg", "SendData"}
      /\ UNCHANGED <<timers, zoneStack, sent, torn>>
  BY DEF EpilogEmpty
<1>2. /\ Nested' /\ Linked' /\ Noticed' /\ Entered = {} /\ Entered' = {} /\ ~InProlog'
      /\ ctl' = "epilog" => stack' # <<>> /\ Last(stack').zones = <<>>
      /\ UNCHANGED <<calls, sessionID, tlsSession>>
      /\ OpenActs' = OpenActs /\ OpenZones' = OpenZones
  <2>1. target[1] \notin PopsTimer /\ target[1] # "ZoneStop"
    BY <1>1, Leaves
  <2> QED BY <1>0, <1>1, <2>1, EpilogShape
<1>3. Ordered'
  <2>1. sessionID' \in Nat /\ sessionID <= sessionID' /\ calls' \in Nat /\ calls <= calls'
    BY <1>2 DEF TypeOK
  <2> QED BY <1>0, <1>1, <1>2, <2>1, OrderKeeps
<1>4. Faithful'
  <2>1. Measured' = Measured
    BY <1>1, <1>2, MeasuredSame
  <2> QED BY <1>0, <1>1, <1>2, <2>1 DEF Faithful
<1>5. SentFaithful'
  BY <1>0, <1>1, <1>2, SentKeeps
<1> QED BY <1>2, <1>3, <1>4, <1>5 DEF Tracked

LEMMA ZoneStopTracks ==
  ASSUME TypeOK, TypeOK', Entering, Chain, Tracked, EpilogZoneStop
  PROVE  Tracked'
<1> DEFINE t == Last(timers)
           c == Last(stack).closes
<1>0. Nested /\ Linked /\ Ordered /\ Faithful /\ Noticed /\ SentFaithful
  BY DEF Tracked
<1>1. ctl = "epilog" /\ ReturnTo /\ target[1] = "ZoneStop"
  BY DEF EpilogZoneStop
<1>2. /\ Nested' /\ Linked' /\ Noticed' /\ Entered = {} /\ Entered' = {} /\ ~InProlog'
      /\ ctl' = "epilog" => stack' # <<>> /\ Last(stack').zones = <<>>
      /\ UNCHANGED <<calls, sessionID, tlsSession>>
      /\ OpenActs' = OpenActs /\ OpenZones' = OpenZones \ {c}
  <2>1. target[1] \notin PopsTimer
    BY <1>1, Leaves
  <2> QED BY <1>0, <1>1, <2>1, EpilogShape
<1>3. /\ stack # <<>> /\ Last(stack).acts # <<>> /\ Last(stack).kind = "ZoneStop"
      /\ c \in OpenZones /\ c \notin OpenActs /\ c \in Nat \ {0} /\ Newest(c)
  <2>1. stack # <<>> /\ Last(stack).acts # <<>> /\ Last(stack).kind = "ZoneStop"
    BY <1>0, <1>1, EpilogFrame, Leaves
  <2> QED BY <1>0, <2>1, TopZone
<1>4. tlsSession = sessionID \/ Measured = {}
  BY <1>0, <1>1, <1>3 DEF Noticed
<1>5. ASSUME sessionID \notin torn
      PROVE  Kept(OpenActs, OpenZones, Measured, {}, zoneStack, tlsSession = sessionID)
  BY <1>0, <1>2, <1>5 DEF Faithful
<1> HIDE DEF c
<1>6. CASE zoneStack > 0
  <2>1. /\ timers # <<>> /\ timers' = Front(timers) /\ zoneStack' = zoneStack - 1
        /\ torn' = torn
        /\ sent' = sent \/ sent' = [timer |-> t.call, ended |-> c, session |-> t.session]
    BY <1>6 DEF EpilogZoneStop, StopTimer, c
  <2>2. Ordered'
    BY <1>0, <1>2, <2>1, OrderPops
  <2>3. /\ t.call \in Nat /\ t.session \in Nat
        /\ t.session = sessionID => /\ t.call \in Measured /\ \A m \in Measured : m <= t.call
                                    /\ Measured' = Measured \ {t.call}
        /\ t.session # sessionID => Measured = {} /\ Measured' = {}
    BY <1>0, <1>2, <2>1, LastTimer
  <2> HIDE DEF t
  <2>4. ASSUME sessionID \notin torn, t.session = sessionID
        PROVE  t.call = c /\ c \in Measured
    <3>1. /\ tlsSession = sessionID /\ t.call \in Measured
          /\ Kept(OpenActs, OpenZones, Measured, {}, zoneStack, tlsSession = sessionID)
      BY <1>4, <1>5, <2>3, <2>4
    <3>2. c \in Measured
      <4> SUFFICES ASSUME c \notin Measured PROVE FALSE
        OBVIOUS
      <4>1. zoneStack <= Cardinality(Since(OpenZones, Measured, c))
        BY <1>3, <3>1 DEF Kept
      <4>2. Since(OpenZones, Measured, c) = {}
        <5>1. \A x \in OpenZones : x \in Nat /\ x <= c
          BY <1>3, Bounds DEF Newest
        <5>2. \A x \in OpenZones : ~(x > c)
          BY <1>3, <5>1
        <5> QED BY <5>2 DEF Since
      <4> QED BY <1>6, <4>1, <4>2, Bounds, FS_EmptySet
    <3>3. t.call \in OpenActs \cup OpenZones
      BY <3>1 DEF Kept
    <3>4. t.call <= c /\ c <= t.call
      BY <1>3, <2>3, <2>4, <3>2, <3>3 DEF Newest
    <3> QED BY <1>3, <2>3, <3>2, <3>4
  <2>5. Faithful'
    <3> DEFINE noticed == tlsSession = sessionID
    <3> SUFFICES ASSUME sessionID \notin torn
                 PROVE  Kept(OpenActs, OpenZones \ {c}, Measured', {}, zoneStack - 1, noticed)
      BY <1>2, <2>1 DEF Faithful
    <3>1. Kept(OpenActs, OpenZones, Measured, {}, zoneStack, noticed)
      BY <1>5
    <3> HIDE DEF noticed
    <3>2. CASE t.session = sessionID
      <4>1. Measured' = Measured \ {c} /\ c \in Measured
        BY <2>3, <2>4, <3>2
      <4>2. /\ c \in OpenZones /\ c \notin OpenActs /\ \A x \in OpenZones : x <= c
            /\ zoneStack \in Nat /\ OpenZones \in SUBSET (1 .. calls) /\ calls \in Nat
        BY <1>3, Bounds DEF Newest
      <4>3. Kept(OpenActs, OpenZones \ {c}, Measured \ {c}, {}, zoneStack - 1, noticed)
        BY <3>1, <4>1, <4>2, KeptEnds
      <4> QED BY <4>1, <4>3
    <3>3. CASE t.session # sessionID
      <4>1. Measured = {} /\ Measured' = {}
        BY <2>3, <3>3
      <4>2. Kept(OpenActs, OpenZones, {}, {}, zoneStack, noticed)
        BY <3>1, <4>1
      <4>3. ~noticed
        BY <1>6, <4>2, KeptNone, Bounds
      <4> QED BY <4>1, <4>3 DEF Kept
    <3> QED BY <3>2, <3>3
  <2>6. SentFaithful'
    <3>1. CASE sent' = sent
      BY <1>0, <1>2, <2>1, <3>1, SentKeeps
    <3>2. CASE sent' = [timer |-> t.call, ended |-> c, session |-> t.session]
      BY <1>2, <2>1, <2>4, <3>2 DEF SentFaithful
    <3> QED BY <2>1, <3>1, <3>2 DEF t
  <2> QED BY <1>2, <2>2, <2>5, <2>6 DEF Tracked
<1>7. CASE ~(zoneStack > 0)
  <2>1. /\ UNCHANGED <<timers, zoneStack, sent>>
        /\ torn' = torn \cup Torn("ZoneStop", c)
    BY <1>7 DEF EpilogZoneStop, c
  <2>2. Ordered'
    <3>1. sessionID' \in Nat /\ sessionID <= sessionID' /\ calls' \in Nat /\ calls <= calls'
      BY <1>2 DEF TypeOK
    <3> QED BY <1>0, <1>2, <2>1, <3>1, OrderKeeps
  <2>3. Faithful'
    <3> DEFINE noticed == tlsSession = sessionID
    <3> SUFFICES ASSUME sessionID \notin torn'
                 PROVE  Kept(OpenActs, OpenZones \ {c}, Measured, {}, zoneStack, noticed)
      BY <1>2, <2>1, MeasuredSame DEF Faithful
    <3>1. Kept(OpenActs, OpenZones, Measured, {}, zoneStack, noticed)
      BY <1>5, <2>1
    <3>2. c \notin Measured
      BY <2>1, TornFacts
    <3> HIDE DEF noticed
    <3> QED BY <3>1, <3>2, KeptCloses
  <2>4. SentFaithful'
    BY <1>0, <1>2, <2>1, SentKeeps
  <2> QED BY <1>2, <2>2, <2>3, <2>4 DEF Tracked
<1> QED BY <1>6, <1>7

\* The network thread only moves the session.
LEMMA NetworkTracks ==
  ASSUME TypeOK, TypeOK', Entering, Chain, Tracked, Network \/ UNCHANGED vars
  PROVE  Tracked'
<1>0. Nested /\ Linked /\ Ordered /\ Faithful /\ Noticed /\ SentFaithful
  BY DEF Tracked
<1>1. /\ UNCHANGED <<threadVars, tlsVars, ghostVars>>
      /\ sessionID' = sessionID \/ sessionID' = sessionID + 1
  BY DEF Network, NewSession, OrbitStart, EnableHooks, OrbitStop, DisableAllHooks,
         CaptureGoes, vars, captureVars
<1>2. UNCHANGED <<stack, calls, ctl, rets, timers, zoneStack, tlsSession, sent, torn>>
  BY <1>1 DEF threadVars, tlsVars, ghostVars
<1>3. Settled
  BY <1>2 DEF Settled, AsBefore
<1>4. Nested' /\ OpenActs' = OpenActs /\ OpenZones' = OpenZones
  BY <1>0, <1>3, SettledKeeps
<1>5. Linked'
  BY <1>0, <1>2, <1>3, SettledLinks
<1>6. Entered' = Entered /\ (InProlog' <=> InProlog) /\ CurrentCall' = CurrentCall
  BY <1>2 DEF Entered, InProlog, CurrentCall
<1>7. Ordered'
  <2>1. /\ sessionID' \in Nat /\ sessionID <= sessionID' /\ calls' \in Nat /\ calls <= calls'
    BY <1>1, <1>2 DEF TypeOK
  <2>2. InProlog' => CurrentCall' = calls' /\ InProlog
    BY <1>0, <1>2, <1>6 DEF Ordered
  <2>3. ctl' = "epilog" => stack' # <<>> /\ Last(stack').zones = <<>>
    BY <1>0, <1>2 DEF Ordered
  <2> QED BY <1>0, <1>2, <2>1, <2>2, <2>3, OrderKeeps
<1>8. CASE sessionID' = sessionID
  <2>1. Measured' = Measured
    BY <1>2, <1>8, MeasuredSame
  <2>2. Faithful' /\ Noticed'
    BY <1>0, <1>2, <1>4, <1>6, <1>8, <2>1 DEF Faithful, Noticed
  <2>3. SentFaithful'
    BY <1>0, <1>2, <1>8, SentKeeps
  <2> QED BY <1>4, <1>5, <1>7, <2>2, <2>3 DEF Tracked
<1>9. CASE sessionID' = sessionID + 1
  <2>1. \A x \in Int : x <= sessionID => x # sessionID'
    BY <1>9 DEF TypeOK
  <2>2. Measured' = {}
    <3>1. ASSUME NEW i \in 1 .. Len(timers) PROVE timers[i].session # sessionID'
      <4>1. timers[i].session \in Nat /\ timers[i].session <= sessionID
        BY <1>0, TimerFacts DEF Ordered
      <4> QED BY <2>1, <4>1
    <3> QED BY <1>2, <3>1 DEF Measured
  <2>3. tlsSession' # sessionID' /\ sent'.session # sessionID'
    BY <1>0, <1>2, <2>1 DEF Ordered
  <2>4. Faithful' /\ Noticed' /\ SentFaithful'
    BY <2>2, <2>3 DEF Faithful, Kept, Noticed, SentFaithful
  <2> QED BY <1>4, <1>5, <1>7, <2>4 DEF Tracked
<1> QED BY <1>1, <1>8, <1>9

LEMMA TrackedStep ==
  ASSUME TypeOK, TypeOK', Entering, Chain, Tracked, [Next]_vars
  PROVE  Tracked'
<1>1. ASSUME NEW k \in Kinds \cup {"Plain"}, Call(k) PROVE Tracked'
  BY <1>1, CallTracks
<1>2. ASSUME NEW k \in Kinds, Jump(k) PROVE Tracked'
  BY <1>2, JumpTracks
<1>3. CASE Return
  BY <1>3, ReturnTracks
<1>4. CASE PrologEnter
  BY <1>4, EnterTracks
<1>5. CASE PrologBody
  BY <1>5, BodyTracks
<1>6. CASE Epilog
  BY <1>6, EpilogTracks
<1>7. CASE EpilogEmpty
  BY <1>7, EmptyTracks
<1>8. CASE EpilogZoneStop
  BY <1>8, ZoneStopTracks
<1>9. CASE Network \/ UNCHANGED vars
  BY <1>9, NetworkTracks
<1> QED BY <1>1, <1>2, <1>3, <1>4, <1>5, <1>6, <1>7, <1>8, <1>9 DEF Next, Thread

LEMMA TrackedInitially == Init => Tracked
<1> SUFFICES ASSUME Init PROVE Tracked
  OBVIOUS
<1>1. /\ stack = <<>> /\ rets = <<>> /\ timers = <<>> /\ ctl = "run" /\ calls = 0
      /\ zoneStack = 0 /\ sessionID = 0 /\ tlsSession = -1 /\ torn = {}
      /\ sent.session = 0 /\ sent.timer = 0 /\ sent.ended = 0
  BY DEF Init
<1>2. Nested /\ Linked /\ Noticed /\ SentFaithful
  BY <1>1 DEF Nested, Linked, Noticed, SentFaithful
<1>3. Ordered
  BY <1>1 DEF Ordered, InProlog
<1>4. Faithful
  <2>1. Measured = {} /\ OpenActs = {} /\ tlsSession # sessionID
    BY <1>1 DEF Measured, OpenActs
  <2> QED BY <2>1 DEF Faithful, Kept
<1> QED BY <1>2, <1>3, <1>4 DEF Tracked
-----------------------------------------------------------------------------
(* The theorems.                                                           *)

LEMMA Initially == Init => IInv
<1> SUFFICES ASSUME Init PROVE IInv
  OBVIOUS
<1>1. /\ stack = <<>> /\ rets = <<>> /\ timers = <<>> /\ contexts = <<>>
      /\ ctl = "run" /\ calls = 0 /\ zoneStack = 0 /\ depth = 0 /\ base = 0
      /\ sessionID = 0 /\ enabled = {} /\ landed.at = 0 /\ landed.site = 0
  BY DEF Init
<1>2. TypeOK /\ Entering
  BY <1>1 DEF TypeOK, Entering
<1>3. Chain
  BY <1>1 DEF Chain, Placed, Chained, Rooted, Held, AtTop
<1>4. Enough
  <2>1. Popping = {}
    BY <1>1 DEF Popping
  <2> QED BY <1>1, <2>1, FS_EmptySet DEF Enough, Pushing
<1>5. InStep /\ ReturnsToCaller /\ DepthIsNesting
  BY <1>1 DEF InStep, CallsOf, ReturnsToCaller, DepthIsNesting
<1> QED BY <1>2, <1>3, <1>4, <1>5 DEF IInv

\* The invariant holds of every behaviour.
THEOREM Invariant == Spec => []IInv
<1>1. ASSUME IInv, [Next]_vars PROVE IInv'
  <2>1. TypeOK /\ Entering /\ Chain /\ ReturnsToCaller /\ Paired
    BY <1>1 DEF IInv, Paired
  <2>2. TypeOK' /\ Entering' /\ Chain' /\ ReturnsToCaller'
    BY <1>1, <2>1, ChainStep
  <2>3. Paired'
    <3>1. CASE Quiet
      BY <2>1, <3>1, QuietKeeps
    <3>2. CASE PrologEnter
      BY <2>1, <3>2, EnterPairs
    <3>3. CASE PrologBody
      BY <2>1, <3>3, BodyPairs
    <3>4. CASE Epilog \/ EpilogEmpty \/ EpilogZoneStop
      BY <2>1, <3>4, EpilogPairs
    <3> QED BY <1>1, <3>1, <3>2, <3>3, <3>4, QuietSteps DEF Next, Thread
  <2> QED BY <2>2, <2>3 DEF IInv, Paired
<1> QED BY Initially, <1>1, PTL DEF Spec

\* Every variable keeps its type, and a prolog runs in a hooked function.
THEOREM TypeCorrect == Spec => [](TypeOK /\ Entering)
<1>1. IInv => TypeOK /\ Entering
  BY DEF IInv
<1> QED BY <1>1, Invariant, PTL

\* A hooked function returns to its caller, for any depth of the stack, any
\* number of calls and captures and any kinds of hook, through the epilogs of
\* as many hooks as share its return address (Hijacking.cpp:394).
THEOREM ReturnsRight == Spec => []ReturnsToCaller
<1>1. IInv => ReturnsToCaller
  BY DEF IInv
<1> QED BY <1>1, Invariant, PTL

\* The stack walk of a prolog finds the true caller of every frame and leaves
\* the return addresses as they were (Hijacking.cpp:337-371).
THEOREM WalksRight == Spec => []WalkSeesCallers
<1>1. IInv => WalkSeesCallers
  BY WalkSees DEF IInv
<1> QED BY <1>1, Invariant, PTL

\* An epilog finds the return address, the timer and the context it pops
\* (Hijacking.cpp:374-397, 409-458).
THEOREM PopsFind == Spec => []NeverPopsEmpty
<1>1. ASSUME IInv, ctl = "epilog"
      PROVE  /\ rets # <<>>
             /\ target[1] \in PopsTimer \/ zoneStack > 0 => timers # <<>>
  <2>1. /\ rets # <<>> /\ Len(rets) \in 1 .. Len(rets)
        /\ rets[Len(rets)].kind = target[1]
    BY <1>1, TopOfEpilog DEF IInv
  <2>2. /\ IsFiniteSet(Popping) /\ Cardinality(Popping) \in Nat /\ zoneStack \in Nat
        /\ Len(timers) \in Nat /\ Len(timers) >= Cardinality(Popping) + zoneStack
    <3>1. Pushing = 0
      BY <1>1 DEF Pushing
    <3>2. TypeOK /\ Enough
      BY <1>1 DEF IInv
    <3>3. zoneStack \in Nat /\ Len(timers) \in Nat
      BY <3>2 DEF TypeOK
    <3> QED BY <3>1, <3>2, <3>3, Counted DEF Enough
  <2>3. target[1] \in PopsTimer => Cardinality(Popping) # 0
    <3>1. target[1] \in PopsTimer => Len(rets) \in Popping
      BY <2>1 DEF Popping
    <3> QED BY <2>2, <3>1, FS_EmptySet
  <2>4. target[1] \in PopsTimer \/ zoneStack > 0 => Len(timers) # 0
    BY <2>2, <2>3
  <2> QED BY <2>1, <2>4
<1>2. ASSUME IInv, ctl # "prologBody" PROVE contexts = [i \in 1 .. Len(timers) |-> timers[i].call]
  BY <1>2 DEF IInv, InStep, CallsOf
<1>3. IInv => NeverPopsEmpty
  BY <1>1, <1>2 DEF NeverPopsEmpty
<1> QED BY <1>3, Invariant, PTL

\* CurrentDepth is the nesting of the open timers, or too small by those open
\* when it was reset (Hijacking.cpp:57-68).
THEOREM DepthNests == Spec => []DepthIsNesting
<1>1. IInv => DepthIsNesting
  BY DEF IInv
<1> QED BY <1>1, Invariant, PTL

\* What is known of the calls that the open timers are of holds of every
\* behaviour.
THEOREM TrackedInvariant == Spec => []Tracked
<1>1. Init => IInv /\ Tracked
  BY Initially, TrackedInitially
<1>2. ASSUME IInv, IInv', Tracked, [Next]_vars PROVE Tracked'
  <2>1. TypeOK /\ Entering /\ Chain /\ TypeOK'
    BY <1>2 DEF IInv
  <2> QED BY <1>2, <2>1, TrackedStep
<1> QED BY <1>1, <1>2, Invariant, PTL DEF Spec

\* A timer of the session on show measures the call or the zone that really
\* ended when its epilog stopped it, for any depth of the stack, any calls and
\* any number of captures that start and stop meanwhile (Hijacking.cpp:374-397,
\* 409-458), unless a zone of that session was hooked on one side only.
THEOREM SentRight == Spec => []SentFaithful
<1>1. Tracked => SentFaithful
  BY DEF Tracked
<1> QED BY <1>1, TrackedInvariant, PTL

\* A thread that has returned from all functions has no return address left, and
\* no timer or zone of the session, for any depth of the stack, any calls and
\* any captures that start and stop meanwhile, unless a zone of the session was
\* hooked on one side only; with PopsFind, what prologs push is what epilogs pop
\* (Hijacking.cpp:159-201, 374-458).
THEOREM PushesPopped == Spec => []PushesMatchPops
<1>1. ASSUME IInv, Tracked PROVE LeavesNothing
  <2> SUFFICES ASSUME stack = <<>>
               PROVE  /\ rets = <<>>
                      /\ sessionID \notin torn =>
                           /\ \A i \in 1 .. Len(timers) : timers[i].session # sessionID
                           /\ tlsSession = sessionID => zoneStack = 0
    BY DEF LeavesNothing
  <2>1. TypeOK /\ Placed /\ Faithful
    BY <1>1 DEF IInv, Chain, Tracked
  <2>2. Len(stack) = 0 /\ 1 .. Len(stack) = {}
    OBVIOUS
  <2>3. rets = <<>>
    <3>1. Len(rets) \in Nat /\ rets \in Seq(Records)
      BY <2>1 DEF TypeOK
    <3>2. ~(1 \in 1 .. Len(rets))
      BY <2>1, <2>2 DEF Placed
    <3> QED BY <3>1, <3>2
  <2>4. OpenActs = {} /\ OpenZones = {}
    BY <2>2 DEF OpenActs, OpenZones
  <2>5. ASSUME sessionID \notin torn
        PROVE  /\ \A i \in 1 .. Len(timers) : timers[i].session # sessionID
               /\ tlsSession = sessionID => zoneStack = 0
    <3>1. Kept({}, {}, Measured, Entered, zoneStack, tlsSession = sessionID)
      BY <2>1, <2>4, <2>5 DEF Faithful
    <3>2. Measured = {}
      BY <3>1 DEF Kept
    <3>3. \A i \in 1 .. Len(timers) : timers[i].session # sessionID
      BY <3>2 DEF Measured
    <3>4. ASSUME tlsSession = sessionID PROVE zoneStack = 0
      <4>1. zoneStack <= Cardinality(Since({}, {}, 0))
        BY <3>1, <3>2, <3>4 DEF Kept
      <4>2. Since({}, {}, 0) = {}
        BY DEF Since
      <4>3. zoneStack <= 0 /\ zoneStack \in Nat
        BY <2>1, <4>1, <4>2, FS_EmptySet DEF TypeOK
      <4> QED BY <4>3
    <3> QED BY <3>3, <3>4
  <2> QED BY <2>3, <2>5
<1>2. NeverPopsEmpty /\ LeavesNothing => PushesMatchPops
  BY DEF PushesMatchPops
<1> QED BY <1>1, <1>2, Invariant, TrackedInvariant, PopsFind, PTL

===============================================================================
