-------------------------- MODULE SymbolLoadingProofs --------------------------
(***************************************************************************)
(* Proofs about SymbolLoading, for any modules and any number of commands. *)
(*                                                                         *)
(* The properties exempt behaviours in which a command was given while     *)
(* another was carried out.  In all others one load is pending at a time,  *)
(* counted from its start until the callback that reports it is about to   *)
(* end, and it is the load of the current Pdb; what waits in the queues is *)
(* neither loaded nor pending; and while something waits, a load is        *)
(* pending whose callback takes the next, or that callback runs.  The      *)
(* invariant Order says so, and follows what was asked for, the presets    *)
(* and the last message to the window through each step.                   *)
(***************************************************************************)
EXTENDS SymbolLoading, FiniteSetTheorems, SequenceTheorems,
        WellFoundedInduction, TLAPS

-----------------------------------------------------------------------------
(* Sequences without repetition.                                           *)

LEMMA TailLosesHead ==
  ASSUME NEW S, NEW s \in Seq(S), s # <<>>
  PROVE  /\ Head(s) \in S /\ Tail(s) \in Seq(S)
         /\ ToSet(s) = {Head(s)} \cup ToSet(Tail(s))
         /\ IsInjective(s) => IsInjective(Tail(s)) /\ Head(s) \notin ToSet(Tail(s))
<1>1. /\ Head(s) = s[1] /\ 1 \in DOMAIN s /\ Tail(s) \in Seq(S)
      /\ Len(Tail(s)) = Len(s) - 1 /\ Len(s) \in Nat /\ DOMAIN s = 1 .. Len(s)
      /\ DOMAIN Tail(s) = 1 .. Len(s) - 1
      /\ \A i \in 1 .. Len(s) - 1 : Tail(s)[i] = s[i + 1]
  OBVIOUS
<1>2. \A i \in 1 .. Len(s) - 1 : i + 1 \in 1 .. Len(s)
  BY <1>1
<1>3. \A i \in 1 .. Len(s) : i = 1 \/ i - 1 \in 1 .. Len(s) - 1
  BY <1>1
<1>4. Head(s) \in S
  OBVIOUS
<1>5. ToSet(s) = {Head(s)} \cup ToSet(Tail(s))
  <2>1. ASSUME NEW x \in ToSet(s) PROVE x \in {Head(s)} \cup ToSet(Tail(s))
    <3>1. PICK i \in 1 .. Len(s) : x = s[i]
      BY <1>1 DEF ToSet
    <3>2. CASE i = 1
      BY <1>1, <3>1, <3>2
    <3>3. CASE i # 1
      <4>1. i - 1 \in DOMAIN Tail(s) /\ Tail(s)[i - 1] = s[i]
        BY <1>1, <1>3, <3>3
      <4> QED BY <3>1, <4>1 DEF ToSet
    <3> QED BY <3>2, <3>3
  <2>2. ASSUME NEW x \in ToSet(Tail(s)) PROVE x \in ToSet(s)
    <3>1. PICK i \in 1 .. Len(s) - 1 : x = Tail(s)[i]
      BY <1>1 DEF ToSet
    <3> QED BY <1>1, <1>2, <3>1 DEF ToSet
  <2>3. Head(s) \in ToSet(s)
    BY <1>1 DEF ToSet
  <2> QED BY <2>1, <2>2, <2>3
<1>6. ASSUME IsInjective(s) PROVE IsInjective(Tail(s))
  <2> SUFFICES ASSUME NEW a \in 1 .. Len(s) - 1, NEW b \in 1 .. Len(s) - 1,
                      Tail(s)[a] = Tail(s)[b]
               PROVE  a = b
    BY <1>1 DEF IsInjective
  <2>1. s[a + 1] = s[b + 1] /\ a + 1 \in DOMAIN s /\ b + 1 \in DOMAIN s
    BY <1>1, <1>2
  <2>2. a + 1 = b + 1
    BY <1>6, <2>1 DEF IsInjective
  <2> QED BY <2>2
<1>7. ASSUME IsInjective(s) PROVE Head(s) \notin ToSet(Tail(s))
  <2> SUFFICES ASSUME NEW a \in 1 .. Len(s) - 1, Tail(s)[a] = Head(s)
               PROVE  FALSE
    BY <1>1 DEF ToSet
  <2>1. s[a + 1] = s[1] /\ a + 1 \in DOMAIN s
    BY <1>1, <1>2
  <2>2. a + 1 = 1
    BY <1>1, <1>7, <2>1 DEF IsInjective
  <2> QED BY <2>2
<1> QED BY <1>1, <1>4, <1>5, <1>6, <1>7

LEMMA PrefixBefore ==
  ASSUME NEW S, NEW s \in Seq(S), NEW k \in 1 .. Len(s)
  PROVE  /\ SubSeq(s, 1, k - 1) \in Seq(S)
         /\ ToSet(SubSeq(s, 1, k - 1)) = {s[i] : i \in 1 .. k - 1}
         /\ IsInjective(s) =>
              /\ IsInjective(SubSeq(s, 1, k - 1))
              /\ s[k] \notin ToSet(SubSeq(s, 1, k - 1))
<1> DEFINE p == SubSeq(s, 1, k - 1)
<1>1. /\ p \in Seq(S) /\ DOMAIN p = 1 .. k - 1 /\ DOMAIN s = 1 .. Len(s)
      /\ \A i \in 1 .. k - 1 : p[i] = s[i]
      /\ Len(s) \in Nat /\ 1 .. k - 1 \subseteq 1 .. Len(s)
  OBVIOUS
<1> HIDE DEF p
<1>2. ToSet(p) = {s[i] : i \in 1 .. k - 1}
  BY <1>1 DEF ToSet
<1>3. IsInjective(s) => IsInjective(p)
  BY <1>1 DEF IsInjective
<1>4. ASSUME IsInjective(s) PROVE s[k] \notin ToSet(p)
  BY <1>1, <1>2, <1>4 DEF IsInjective
<1> QED BY <1>1, <1>2, <1>3, <1>4 DEF p

LEMMA AppendedLast ==
  ASSUME NEW S, NEW s \in Seq(S), NEW x \in S
  PROVE  Append(s, x) \in Seq(S) /\ Append(s, x) # <<>> /\ Last(Append(s, x)) = x
BY DEF Last

LEMMA TailKeepsLast ==
  ASSUME NEW S, NEW s \in Seq(S), s # <<>>
  PROVE  /\ Tail(s) # <<>> => Last(Tail(s)) = Last(s)
         /\ Tail(s) = <<>> => Last(s) = Head(s)
<1> DEFINE t == Tail(s)
<1>1. /\ Len(s) \in Nat \ {0} /\ Len(t) = Len(s) - 1 /\ t \in Seq(S)
      /\ \A i \in 1 .. Len(s) - 1 : t[i] = s[i + 1]
      /\ Head(s) = s[1]
  OBVIOUS
<1> HIDE DEF t
<1>2. t = <<>> <=> Len(t) = 0
  BY <1>1, EmptySeq
<1>3. CASE t = <<>>
  BY <1>1, <1>2, <1>3 DEF Last, t
<1>4. CASE t # <<>>
  <2>1. Len(s) - 1 \in 1 .. Len(s) - 1
    BY <1>1, <1>2, <1>4
  <2>2. t[Len(s) - 1] = s[Len(s)]
    BY <1>1, <2>1
  <2>3. Last(t) = Last(s)
    BY <1>1, <2>2 DEF Last
  <2> QED BY <1>4, <2>3 DEF t
<1> QED BY <1>3, <1>4 DEF t

LEMMA NoneInEmpty == ToSet(<<>>) = {} /\ IsInjective(<<>>)
BY DEF ToSet, IsInjective

LEMMA SomeInOther ==
  ASSUME NEW S, NEW s \in Seq(S)
  PROVE  ToSet(s) \subseteq S
BY DEF ToSet

LEMMA ListIs ==
  ASSUME NEW S, NEW s \in Lists(S)
  PROVE  s \in Seq(S) /\ IsInjective(s)
BY DEF Lists, BoundedSeq, SeqOf

\* The largest of some numbers up to n.
LEMMA Largest ==
  ASSUME NEW n \in Nat, NEW S \in SUBSET (1 .. n), S # {}
  PROVE  Max(S) \in S /\ \A y \in S : y <= Max(S)
<1> DEFINE T == {n - k : k \in S}
<1>1. T \subseteq Nat /\ T # {}
  <2>1. PICK k \in S : TRUE
    OBVIOUS
  <2>2. n - k \in T
    OBVIOUS
  <2>3. \A j \in S : n - j \in Nat
    OBVIOUS
  <2> QED BY <2>2, <2>3
<1> DEFINE R == OpToRel(<, Nat)
<1>2. IsWellFoundedOn(R, Nat)
  BY NatLessThanWellFounded
<1>3. \A x, y \in Nat : x < y => <<x, y>> \in R
  BY DEF OpToRel
<1> HIDE DEF T, R
<1>4. PICK x \in T : \A y \in T : ~(<<y, x>> \in R)
  BY <1>1, <1>2, WFMin
<1>5. \A y \in T : ~(y < x)
  BY <1>1, <1>3, <1>4
<1>6. PICK k \in S : x = n - k
  BY DEF T
<1>7. \A y \in S : k >= y
  BY <1>5, <1>6 DEF T
<1> QED BY <1>7 DEF Max

-----------------------------------------------------------------------------
(* Types, and what the operators on the queues do.                         *)

Messages == {<<"pdb", m>> : m \in Modules} \cup {<<"pdbloaded">>}

Queues == [app : Seq(Modules), names : Seq(Names), pdb : Modules \cup {NoPdb},
           loaded : SUBSET Modules, started : Seq(Modules), ui : Seq(Messages)]

Stages == [starting : Nat, loading : Nat, ending : Nat]

TypeOK ==
  /\ q \in Queues /\ q.started = <<>>
  /\ threads \in [Modules -> Stages]
  /\ isLoading \subseteq Modules
  /\ finished \subseteq parsed /\ parsed \subseteq Modules
  /\ presets \subseteq Modules /\ selected \subseteq Modules
  /\ requested \subseteq Modules
  /\ enabled \in BOOLEAN /\ overlapped \in BOOLEAN
  /\ mainPC \in {"idle", "messages", "presets", "reset"}
  /\ mainPC \in {"presets", "reset"} => lastPdb \in parsed

\* t is s, but for a load of m that it starts.
Starts(s, t, m) ==
  /\ t \in Queues /\ m \in Modules
  /\ t.pdb = m /\ t.started = <<m>> /\ t.loaded = s.loaded /\ t.ui = s.ui

LEMMA QueueFields ==
  ASSUME NEW s \in Queues
  PROVE  /\ s.app \in Seq(Modules) /\ s.names \in Seq(Names)
         /\ s.pdb \in Modules \cup {NoPdb} /\ s.loaded \in SUBSET Modules
         /\ s.started \in Seq(Modules) /\ s.ui \in Seq(Messages)
BY DEF Queues

LEMMA StartsLoad ==
  ASSUME NEW s \in Queues, s.started = <<>>, NEW m \in Modules
  PROVE  /\ Starts(s, StartLoad(s, m), m)
         /\ StartLoad(s, m).app = s.app /\ StartLoad(s, m).names = s.names
<1>1. Append(s.started, m) = <<m>> /\ <<m>> \in Seq(Modules)
  OBVIOUS
<1>2. StartLoad(s, m) = [s EXCEPT !.pdb = m, !.started = <<m>>]
  BY <1>1 DEF StartLoad
<1> QED BY <1>1, <1>2 DEF Starts, Queues

\* LoadModules starts the first load of the application's queue, unless there
\* is none or its module is loaded already.
LEMMA LoadsModules ==
  ASSUME NEW s \in Queues, s.started = <<>>
  PROVE  LET t == LoadModules(s) IN
         /\ t \in Queues /\ t.names = s.names
         /\ s.app = <<>> => t = s
         /\ s.app # <<>> => t.app = Tail(s.app)
         /\ s.app # <<>> /\ Head(s.app) \in s.loaded =>
              t.started = <<>> /\ t.ui = s.ui /\ t.pdb = s.pdb /\ t.loaded = s.loaded
         /\ s.app # <<>> /\ Head(s.app) \notin s.loaded => Starts(s, t, Head(s.app))
<1> DEFINE rest == [s EXCEPT !.app = Tail(@)]
<1>1. CASE s.app = <<>>
  BY <1>1 DEF LoadModules
<1>2. CASE s.app # <<>>
  <2>1. Head(s.app) \in Modules /\ Tail(s.app) \in Seq(Modules)
    BY <1>2, QueueFields, TailLosesHead
  <2>2. /\ rest \in Queues /\ rest.app = Tail(s.app) /\ rest.names = s.names
        /\ rest.started = <<>> /\ rest.ui = s.ui /\ rest.pdb = s.pdb
        /\ rest.loaded = s.loaded
    BY <2>1 DEF Queues
  <2>3. LoadModules(s) = IF Head(s.app) \in s.loaded THEN rest
                         ELSE StartLoad(rest, Head(s.app))
    BY <1>2 DEF LoadModules
  <2> HIDE DEF rest
  <2>4. CASE Head(s.app) \in s.loaded
    BY <1>2, <2>2, <2>3, <2>4
  <2>5. CASE Head(s.app) \notin s.loaded
    <3>1. /\ Starts(rest, LoadModules(s), Head(s.app))
          /\ LoadModules(s).app = Tail(s.app) /\ LoadModules(s).names = s.names
      BY <2>1, <2>2, <2>3, <2>5, StartsLoad
    <3> QED BY <1>2, <2>2, <2>5, <3>1 DEF Starts
  <2> QED BY <2>4, <2>5
<1> QED BY <1>1, <1>2

\* The callback of the application goes on with its queue, or says that all is
\* loaded.
LEMMA CallsBack ==
  ASSUME NEW s \in Queues, s.started = <<>>
  PROVE  LET t == UserCompletionCallback(s) IN
         /\ t \in Queues /\ t.names = s.names
         /\ s.app = <<>> => /\ t.started = <<>> /\ t.app = <<>> /\ t.pdb = s.pdb
                            /\ t.loaded = s.loaded
                            /\ t.ui = Append(s.ui, <<"pdbloaded">>)
                            /\ t.ui # <<>> /\ Last(t.ui) = <<"pdbloaded">>
         /\ s.app # <<>> => t = LoadModules(s)
<1>1. CASE s.app = <<>>
  <2>1. <<"pdbloaded">> \in Messages
    BY DEF Messages
  <2>2. /\ Append(s.ui, <<"pdbloaded">>) \in Seq(Messages)
        /\ Append(s.ui, <<"pdbloaded">>) # <<>>
        /\ Last(Append(s.ui, <<"pdbloaded">>)) = <<"pdbloaded">>
    BY <2>1, QueueFields, AppendedLast
  <2>3. UserCompletionCallback(s) = [s EXCEPT !.ui = Append(s.ui, <<"pdbloaded">>)]
    BY <1>1 DEF UserCompletionCallback
  <2> QED BY <1>1, <2>2, <2>3 DEF Queues
<1>2. CASE s.app # <<>>
  BY <1>2, LoadsModules DEF UserCompletionCallback
<1> QED BY <1>1, <1>2

\* The last name of a module is taken from the names, and those after it go; if
\* no module has any of the names, all go and the application's callback runs.
LEMMA Dequeues ==
  ASSUME NEW s \in Queues, s.started = <<>>
  PROVE  LET t == DequeueAndLoad(s) IN
         /\ t \in Queues
         /\ \/ /\ ToSet(s.names) \cap Modules = {}
               /\ t = UserCompletionCallback([s EXCEPT !.names = <<>>])
            \/ \E k \in 1 .. Len(s.names) :
                 /\ s.names[k] \in Modules
                 /\ \A i \in 1 .. Len(s.names) : s.names[i] \in Modules => i <= k
                 /\ Starts(s, t, s.names[k])
                 /\ t.app = s.app /\ t.names = SubSeq(s.names, 1, k - 1)
<1> DEFINE known == {i \in DOMAIN s.names : s.names[i] \in Modules}
<1>0. DOMAIN s.names = 1 .. Len(s.names) /\ Len(s.names) \in Nat
  BY QueueFields
<1>1. CASE known = {}
  <2> DEFINE u == [s EXCEPT !.names = <<>>]
  <2>1. DequeueAndLoad(s) = UserCompletionCallback(u)
    BY <1>1 DEF DequeueAndLoad
  <2>2. u \in Queues /\ u.started = <<>>
    <3>1. <<>> \in Seq(Names)
      OBVIOUS
    <3> QED BY <3>1 DEF Queues
  <2>3. ToSet(s.names) \cap Modules = {}
    BY <1>1 DEF ToSet
  <2>4. UserCompletionCallback(u) \in Queues
    <3> HIDE DEF u
    <3> QED BY <2>2, CallsBack
  <2> QED BY <2>1, <2>3, <2>4
<1>2. CASE known # {}
  <2> DEFINE k == Max(known)
             u == [s EXCEPT !.names = SubSeq(@, 1, k - 1)]
  <2>1. DequeueAndLoad(s) = StartLoad(u, s.names[k])
    BY <1>2 DEF DequeueAndLoad
  <2>2. known \in SUBSET (1 .. Len(s.names))
    BY <1>0
  <2>3. k \in known /\ \A i \in known : i <= k
    <3> HIDE DEF known
    <3> QED BY <1>0, <1>2, <2>2, Largest
  <2>4. k \in 1 .. Len(s.names) /\ s.names[k] \in Modules
    BY <1>0, <2>3
  <2>5. \A i \in 1 .. Len(s.names) : s.names[i] \in Modules => i <= k
    BY <1>0, <2>3
  <2> HIDE DEF known, k
  <2>6. SubSeq(s.names, 1, k - 1) \in Seq(Names)
    BY <2>4, QueueFields, PrefixBefore
  <2>7. /\ u \in Queues /\ u.started = <<>> /\ u.app = s.app /\ u.ui = s.ui
        /\ u.names = SubSeq(s.names, 1, k - 1) /\ u.loaded = s.loaded
    BY <2>6 DEF Queues
  <2> HIDE DEF u
  <2>8. /\ Starts(u, DequeueAndLoad(s), s.names[k])
        /\ DequeueAndLoad(s).app = u.app /\ DequeueAndLoad(s).names = u.names
    BY <2>1, <2>4, <2>7, StartsLoad
  <2>9. Starts(s, DequeueAndLoad(s), s.names[k])
    BY <2>7, <2>8 DEF Starts
  <2>10. DequeueAndLoad(s) \in Queues
    BY <2>9 DEF Starts
  <2> QED BY <2>4, <2>5, <2>7, <2>8, <2>9, <2>10
<1> QED BY <1>1, <1>2

\* A step that starts nothing leaves the threads alone.
LEMMA BecomesSame ==
  ASSUME threads \in [Modules -> Stages], NEW s \in Queues, s.started = <<>>,
         Becomes(s)
  PROVE  q' = s /\ threads' = threads
<1>1. q' = s
  BY DEF Becomes, Queues
<1>2. ASSUME NEW m \in Modules PROVE threads'[m] = threads[m]
  <2>1. {i \in DOMAIN s.started : s.started[i] = m} = {}
    OBVIOUS
  <2>2. threads'[m] = [threads[m] EXCEPT !.starting = @ + Cardinality({})]
    BY <2>1 DEF Becomes
  <2>3. Cardinality({}) = 0
    BY FS_EmptySet
  <2>4. threads[m] \in Stages
    OBVIOUS
  <2> QED BY <2>2, <2>3, <2>4 DEF Stages
<1>3. threads' \in [Modules -> Stages] /\ threads \in [Modules -> Stages]
  <2>1. threads' = [m \in Modules |-> threads'[m]]
    BY DEF Becomes
  <2>2. \A m \in Modules : threads'[m] \in Stages
    BY <1>2
  <2> QED BY <2>1, <2>2
<1> QED BY <1>1, <1>2, <1>3

\* One that starts a load of m adds a thread for it.
LEMMA BecomesStarted ==
  ASSUME threads \in [Modules -> Stages], NEW r, NEW s, NEW m, Starts(r, s, m),
         Becomes(s)
  PROVE  /\ q' \in Queues /\ q'.started = <<>> /\ q'.pdb = m /\ m \in Modules
         /\ q'.app = s.app /\ q'.names = s.names
         /\ q'.loaded = r.loaded /\ q'.ui = r.ui
         /\ threads' \in [Modules -> Stages]
         /\ threads'[m].starting = threads[m].starting + 1
         /\ threads'[m].loading = threads[m].loading
         /\ \A n \in Modules : n # m => threads'[n] = threads[n]
<1>0. s \in Queues /\ m \in Modules /\ s.started = <<m>>
  BY DEF Starts
<1>1. /\ q' \in Queues /\ q'.started = <<>> /\ q'.pdb = m
      /\ q'.app = s.app /\ q'.names = s.names
      /\ q'.loaded = r.loaded /\ q'.ui = r.ui
  <2>1. <<>> \in Seq(Modules)
    OBVIOUS
  <2> QED BY <2>1 DEF Becomes, Starts, Queues
<1>2. ASSUME NEW n \in Modules
      PROVE  /\ threads'[n] = [threads[n] EXCEPT !.starting =
                                 @ + (IF n = m THEN 1 ELSE 0)]
             /\ threads'[n] \in Stages
  <2> DEFINE I == {i \in DOMAIN s.started : s.started[i] = n}
  <2>1. threads'[n] = [threads[n] EXCEPT !.starting = @ + Cardinality(I)]
    BY DEF Becomes
  <2>2. I = IF n = m THEN {1} ELSE {}
    BY <1>0
  <2> HIDE DEF I
  <2>3. Cardinality(I) = IF n = m THEN 1 ELSE 0
    BY <2>2, FS_EmptySet, FS_Singleton
  <2>4. threads[n] \in Stages
    OBVIOUS
  <2> QED BY <2>1, <2>3, <2>4 DEF Stages
<1>3. threads' \in [Modules -> Stages]
  <2>1. threads' = [n \in Modules |-> threads'[n]]
    BY DEF Becomes
  <2>2. \A n \in Modules : threads'[n] \in Stages
    BY <1>2
  <2> QED BY <2>1, <2>2
<1>4. ASSUME NEW n \in Modules, n # m PROVE threads'[n] = threads[n]
  <2>1. threads'[n] = [threads[n] EXCEPT !.starting = @ + 0]
    BY <1>2, <1>4
  <2>2. threads[n] \in Stages
    OBVIOUS
  <2> QED BY <2>1, <2>2 DEF Stages
<1>5. /\ threads'[m].starting = threads[m].starting + 1
      /\ threads'[m].loading = threads[m].loading
  <2>1. threads'[m] = [threads[m] EXCEPT !.starting = @ + 1]
    BY <1>0, <1>2
  <2>2. threads[m] \in Stages
    BY <1>0
  <2> QED BY <2>1, <2>2 DEF Stages
<1> QED BY <1>0, <1>1, <1>3, <1>4, <1>5

\* The names before the last one that a module has, and that one, are those
\* that modules have.
LEMMA RestAndLast ==
  ASSUME NEW names \in Seq(Names), NEW k \in 1 .. Len(names), IsInjective(names),
         \A i \in 1 .. Len(names) : names[i] \in Modules => i <= k
  PROVE  LET rest == SubSeq(names, 1, k - 1) IN
         /\ rest \in Seq(Names) /\ ToSet(rest) \subseteq ToSet(names)
         /\ IsInjective(rest) /\ names[k] \notin ToSet(rest)
         /\ ToSet(names) \cap Modules \subseteq {names[k]} \cup ToSet(rest)
<1> DEFINE rest == SubSeq(names, 1, k - 1)
<1>1. /\ rest \in Seq(Names) /\ ToSet(rest) = {names[i] : i \in 1 .. k - 1}
      /\ IsInjective(rest) /\ names[k] \notin ToSet(rest)
  BY PrefixBefore
<1> HIDE DEF rest
<1>2. /\ ToSet(names) = {names[i] : i \in 1 .. Len(names)}
      /\ Len(names) \in Nat
  BY DEF ToSet
<1>3. ToSet(rest) \subseteq ToSet(names)
  <2>1. 1 .. k - 1 \subseteq 1 .. Len(names)
    BY <1>2
  <2> QED BY <1>1, <1>2, <2>1
<1>4. ASSUME NEW x \in ToSet(names) \cap Modules
      PROVE  x \in {names[k]} \cup ToSet(rest)
  <2>1. PICK i \in 1 .. Len(names) : x = names[i]
    BY <1>2
  <2>2. i <= k
    BY <1>4, <2>1
  <2>3. i = k \/ i \in 1 .. k - 1
    BY <2>2
  <2> QED BY <1>1, <2>1, <2>3
<1> QED BY <1>1, <1>3, <1>4 DEF rest

-----------------------------------------------------------------------------
(* The invariant.                                                          *)

\* A load of m has begun and is not over.
Busy(m) == threads[m].starting + threads[m].loading > 0

\* The Pdb whose callbacks run, and the loads that are still to be reported.
Reported == IF mainPC \in {"presets", "reset"} THEN {lastPdb} ELSE {}
Pending == {m \in Modules : Busy(m)} \cup (finished \ Reported)

\* One load at a time, that of the current Pdb.
OneLoad ==
  /\ Pending \subseteq {q.pdb} /\ Reported \subseteq finished
  /\ \A m \in Modules : Busy(m) =>
       threads[m].starting + threads[m].loading = 1 /\ m \notin finished

\* What waits in the queues is not loaded and not being loaded.
Waiting ==
  /\ IsInjective(q.app) /\ IsInjective(q.names)
  /\ q.app = <<>> \/ q.names = <<>>
  /\ ToSet(q.app) \cap (q.loaded \cup Pending) = {}
  /\ ToSet(q.names) \cap (Pending \cup Reported) = {}
  /\ Reported \subseteq q.loaded

\* The queues do not stop before they are empty.
GoesOn ==
  /\ q.names # <<>> => Pending # {}
  /\ q.app # <<>> => Pending # {} \/ mainPC = "presets"
  /\ mainPC = "presets" /\ q.app # <<>> => q.pdb = lastPdb

\* What was asked for is there, or still to come.
Asked ==
  /\ requested \subseteq q.loaded \cup ToSet(q.app) \cup ToSet(q.names) \cup Pending
  /\ presets \subseteq selected \cup ToSet(q.names) \cup Pending
                       \cup (IF mainPC = "presets" THEN {lastPdb} ELSE {})

\* Nothing but the last message tells the window that all is loaded.
Window ==
  Pending = {} /\ mainPC # "presets" =>
    IF q.ui = <<>> THEN enabled ELSE Last(q.ui) = <<"pdbloaded">>

Order == OneLoad /\ Waiting /\ GoesOn /\ Asked /\ Window

Orderly == ~overlapped => Order

IInv == TypeOK /\ Orderly

LEMMA BecomesType ==
  ASSUME TypeOK, NEW s \in Queues, Becomes(s)
  PROVE  q' \in Queues /\ q'.started = <<>> /\ threads' \in [Modules -> Stages]
<1>1. q' \in Queues /\ q'.started = <<>>
  <2>1. <<>> \in Seq(Modules)
    OBVIOUS
  <2> QED BY <2>1 DEF Becomes, Queues
<1>2. ASSUME NEW n \in Modules PROVE threads'[n] \in Stages
  <2> DEFINE I == {i \in DOMAIN s.started : s.started[i] = n}
  <2>1. threads'[n] = [threads[n] EXCEPT !.starting = @ + Cardinality(I)]
    BY DEF Becomes
  <2>2. IsFiniteSet(1 .. Len(s.started)) /\ I \subseteq 1 .. Len(s.started)
    BY QueueFields, FS_Interval
  <2> HIDE DEF I
  <2>3. Cardinality(I) \in Nat
    BY <2>2, FS_Subset, FS_CardinalityType
  <2>4. threads[n] \in Stages
    BY DEF TypeOK
  <2> QED BY <2>1, <2>3, <2>4 DEF Stages
<1>3. threads' = [n \in Modules |-> threads'[n]]
  BY DEF Becomes
<1> QED BY <1>1, <1>2, <1>3

LEMMA LoadsInQueues ==
  ASSUME NEW s \in Queues, s.started = <<>>
  PROVE  NextLoad(s) \in Queues /\ LastLoad(s) \in Queues
<1>1. DequeueAndLoad(s) \in Queues
  BY Dequeues
<1>2. UserCompletionCallback(s) \in Queues
  BY CallsBack
<1> QED BY <1>1, <1>2 DEF NextLoad, LastLoad

LEMMA SessionInQueues ==
  ASSUME TypeOK, NEW names \in Lists(Names)
  PROVE  LET s == [q EXCEPT !.names = names] IN
         /\ s \in Queues /\ s.started = <<>> /\ s.names = names
         /\ s.app = q.app /\ s.loaded = q.loaded /\ s.ui = q.ui /\ s.pdb = q.pdb
<1>1. names \in Seq(Names)
  BY ListIs
<1> QED BY <1>1 DEF TypeOK, Queues

LEMMA SelectionInQueues ==
  ASSUME TypeOK, NEW list \in Lists(Modules)
  PROVE  LET s == [q EXCEPT !.app = @ \o list] IN
         /\ s \in Queues /\ s.started = <<>> /\ s.names = q.names
         /\ s.app = q.app \o list
         /\ s.loaded = q.loaded /\ s.ui = q.ui /\ s.pdb = q.pdb
<1>1. q.app \o list \in Seq(Modules)
  BY ListIs, QueueFields DEF TypeOK
<1> QED BY <1>1 DEF TypeOK, Queues

\* LoadModules never leaves what is not a record of queues.
LEMMA LoadModulesType ==
  ASSUME NEW s \in Queues
  PROVE  LoadModules(s) \in Queues
<1>1. CASE s.app = <<>>
  BY <1>1 DEF LoadModules
<1>2. CASE s.app # <<>>
  <2> DEFINE rest == [s EXCEPT !.app = Tail(@)]
             m == Head(s.app)
  <2>1. m \in Modules /\ Tail(s.app) \in Seq(Modules)
    BY <1>2, QueueFields, TailLosesHead
  <2>2. rest \in Queues
    BY <2>1 DEF Queues
  <2>3. LoadModules(s) = IF m \in s.loaded THEN rest ELSE StartLoad(rest, m)
    BY <1>2 DEF LoadModules
  <2> HIDE DEF rest, m
  <2>4. StartLoad(rest, m) \in Queues
    <3>1. rest.started \in Seq(Modules)
      BY <2>2, QueueFields
    <3>2. Append(rest.started, m) \in Seq(Modules)
      BY <2>1, <3>1
    <3> QED BY <2>1, <2>2, <3>2 DEF StartLoad, Queues
  <2> QED BY <2>2, <2>3, <2>4
<1> QED BY <1>1, <1>2

LEMMA MessageIs == ASSUME NEW m \in Messages
                   PROVE  \/ m[1] = "pdb" /\ m # <<"pdbloaded">>
                          \/ m[1] = "pdbloaded" /\ m = <<"pdbloaded">>
<1>1. CASE m = <<"pdbloaded">>
  BY <1>1
<1>2. ASSUME NEW n \in Modules, m = <<"pdb", n>>
      PROVE  m[1] = "pdb" /\ m # <<"pdbloaded">>
  <2>1. m[1] = "pdb" /\ <<"pdbloaded">>[1] = "pdbloaded"
    BY <1>2
  <2> QED BY <2>1
<1> QED BY <1>1, <1>2 DEF Messages

LEMMA HandleMessageIs ==
  ASSUME TypeOK, HandleMessage
  PROVE  /\ q' \in Queues /\ q'.ui = Tail(q.ui) /\ q'.started = <<>>
         /\ q'.app = q.app /\ q'.names = q.names /\ q'.pdb = q.pdb
         /\ q'.loaded = q.loaded
         /\ q.ui # <<>> /\ enabled' \in BOOLEAN
         /\ Head(q.ui) = <<"pdbloaded">> => enabled'
<1>1. q.ui # <<>> /\ q' = [q EXCEPT !.ui = Tail(q.ui)]
  BY DEF HandleMessage
<1>2. Tail(q.ui) \in Seq(Messages) /\ Head(q.ui) \in Messages
  BY <1>1, QueueFields, TailLosesHead DEF TypeOK
<1>3. /\ q' \in Queues /\ q'.ui = Tail(q.ui) /\ q'.started = <<>>
      /\ q'.app = q.app /\ q'.names = q.names /\ q'.pdb = q.pdb
      /\ q'.loaded = q.loaded
  BY <1>1, <1>2 DEF TypeOK, Queues
<1>4. enabled' \in BOOLEAN /\ (Head(q.ui) = <<"pdbloaded">> => enabled')
  <2> DEFINE h == Head(q.ui)
  <2>1. enabled' = CASE h[1] = "pdb" -> enabled /\ q.pdb \notin isLoading
                     [] h[1] = "pdbloaded" -> TRUE
    BY DEF HandleMessage
  <2>2. \/ h[1] = "pdb" /\ h # <<"pdbloaded">>
        \/ h[1] = "pdbloaded" /\ h = <<"pdbloaded">>
    BY <1>2, MessageIs
  <2> HIDE DEF h
  <2>3. enabled \in BOOLEAN
    BY DEF TypeOK
  <2>4. CASE h[1] = "pdb" /\ h # <<"pdbloaded">>
    <3>1. enabled' = (enabled /\ q.pdb \notin isLoading)
      BY <2>1, <2>4
    <3> QED BY <2>3, <2>4, <3>1 DEF h
  <2>5. CASE h[1] = "pdbloaded"
    <3>1. enabled' = TRUE
      BY <2>1, <2>5
    <3> QED BY <3>1 DEF h
  <2> QED BY <2>2, <2>4, <2>5
<1> QED BY <1>1, <1>3, <1>4

\* A step of the loading thread of m.
LEMMA ThreadIs ==
  ASSUME TypeOK, NEW m \in Modules, NEW from \in {"starting", "loading", "ending"},
         NEW to \in {"loading", "ending", "ended"}, from # to, Thread(m, from, to)
  PROVE  /\ threads' \in [Modules -> Stages] /\ threads[m][from] > 0
         /\ \A n \in Modules : n # m => threads'[n] = threads[n]
         /\ \A p \in {"starting", "loading", "ending"} :
              threads'[m][p] = threads[m][p] - (IF p = from THEN 1 ELSE 0)
                                             + (IF p = to THEN 1 ELSE 0)
<1> DEFINE next == [p \in DOMAIN NoThread |->
                      CASE p = from -> threads[m][p] - 1
                        [] p = to -> threads[m][p] + 1
                        [] OTHER -> threads[m][p]]
<1>1. DOMAIN NoThread = {"starting", "loading", "ending"}
  BY DEF NoThread
<1>2. threads' = [threads EXCEPT ![m] = next]
  BY DEF Thread
<1>3. threads[m] \in Stages /\ threads[m][from] > 0
  BY DEF TypeOK, Thread
<1>4. \A p \in {"starting", "loading", "ending"} :
        /\ next[p] = threads[m][p] - (IF p = from THEN 1 ELSE 0)
                                   + (IF p = to THEN 1 ELSE 0)
        /\ next[p] \in Nat
  BY <1>1, <1>3 DEF Stages
<1>5. next \in Stages
  BY <1>1, <1>4 DEF Stages
<1> HIDE DEF next
<1>6. threads \in [Modules -> Stages]
  BY DEF TypeOK
<1>7. threads' \in [Modules -> Stages] /\ threads'[m] = next
  BY <1>2, <1>5, <1>6
<1>8. \A n \in Modules : n # m => threads'[n] = threads[n]
  BY <1>2, <1>6
<1> QED BY <1>3, <1>4, <1>7, <1>8

-----------------------------------------------------------------------------
(* The variables keep their types.                                         *)

LEMMA TypeStep == TypeOK /\ [Next]_vars => TypeOK'
<1> SUFFICES ASSUME TypeOK, [Next]_vars PROVE TypeOK'
  OBVIOUS
<1> USE DEF pdbVars, userVars
<1>1. ASSUME NEW list \in Lists(Modules), LoadSelected(list) PROVE TypeOK'
  <2>1. /\ q' \in Queues /\ q'.started = <<>> /\ threads' \in [Modules -> Stages]
    BY <1>1, SelectionInQueues, LoadModulesType, BecomesType DEF LoadSelected
  <2>2. requested' \subseteq Modules
    BY <1>1, ListIs, SomeInOther DEF LoadSelected, TypeOK
  <2>3. overlapped' \in BOOLEAN
    BY <1>1 DEF LoadSelected, Command
  <2> QED BY <1>1, <2>1, <2>2, <2>3 DEF LoadSelected, Command, TypeOK
<1>2. ASSUME NEW names \in Lists(Names), LoadSession(names) PROVE TypeOK'
  <2> DEFINE s == [q EXCEPT !.names = names]
  <2>1. s \in Queues /\ s.started = <<>>
    BY SessionInQueues
  <2>2. Becomes(LoadModules(DequeueAndLoad(s)))
    BY <1>2 DEF LoadSession
  <2> HIDE DEF s
  <2>3. LoadModules(DequeueAndLoad(s)) \in Queues
    BY <2>1, Dequeues, LoadModulesType
  <2>4. /\ q' \in Queues /\ q'.started = <<>> /\ threads' \in [Modules -> Stages]
    BY <2>2, <2>3, BecomesType
  <2>5. requested' \subseteq Modules /\ presets' \subseteq Modules
    BY <1>2 DEF LoadSession, TypeOK
  <2>6. overlapped' \in BOOLEAN
    BY <1>2 DEF LoadSession, Command
  <2> QED BY <1>2, <2>4, <2>5, <2>6 DEF LoadSession, Command, TypeOK
<1>3. CASE UpdateNothing \/ Reset \/ MessagesEnd
  BY <1>3 DEF UpdateNothing, Reset, MessagesEnd, Main, TypeOK
<1>4. CASE OnPdbLoaded
  <2>1. q.pdb \in parsed /\ q.pdb \in Modules
    BY <1>4 DEF OnPdbLoaded, TypeOK
  <2>2. AddPdb(q, q.pdb) \in Queues /\ AddPdb(q, q.pdb).started = <<>>
    BY <2>1 DEF AddPdb, TypeOK, Queues
  <2>3. /\ q' \in Queues /\ q'.started = <<>> /\ threads' \in [Modules -> Stages]
    BY <1>4, <2>2, LoadsInQueues, BecomesType DEF OnPdbLoaded
  <2> QED BY <1>4, <2>1, <2>3 DEF OnPdbLoaded, Main, TypeOK
<1>5. CASE ApplyPresets
  <2>1. q \in Queues /\ q.started = <<>>
    BY DEF TypeOK
  <2>2. /\ q' \in Queues /\ q'.started = <<>> /\ threads' \in [Modules -> Stages]
    BY <1>5, <2>1, LoadsInQueues, BecomesType DEF ApplyPresets
  <2>3. selected' \subseteq Modules
    BY <1>5 DEF ApplyPresets, TypeOK
  <2> QED BY <1>5, <2>2, <2>3 DEF ApplyPresets, Main, TypeOK
<1>6. CASE HandleMessage
  <2>1. q' \in Queues /\ q'.started = <<>> /\ enabled' \in BOOLEAN
    BY <1>6, HandleMessageIs
  <2> QED BY <1>6, <2>1 DEF HandleMessage, Main, TypeOK
<1>7. ASSUME NEW m \in Modules, LoadPdbBegins(m) PROVE TypeOK'
  <2>1. threads' \in [Modules -> Stages]
    BY <1>7, ThreadIs DEF LoadPdbBegins
  <2>2. <<"pdb", m>> \in Messages
    BY DEF Messages
  <2>3. Append(q.ui, <<"pdb", m>>) \in Seq(Messages)
    BY <2>2, QueueFields, AppendedLast DEF TypeOK
  <2>4. q' \in Queues /\ q'.started = <<>>
    BY <1>7, <2>3 DEF LoadPdbBegins, TypeOK, Queues
  <2> QED BY <1>7, <2>1, <2>4 DEF LoadPdbBegins, Thread, TypeOK
<1>8. ASSUME NEW m \in Modules, LoadPdbFinishes(m) PROVE TypeOK'
  <2>1. threads' \in [Modules -> Stages]
    BY <1>8, ThreadIs DEF LoadPdbFinishes
  <2> QED BY <1>8, <2>1 DEF LoadPdbFinishes, Thread, TypeOK
<1>9. ASSUME NEW m \in Modules, LoadPdbEnds(m) PROVE TypeOK'
  <2>1. threads' \in [Modules -> Stages]
    BY <1>9, ThreadIs DEF LoadPdbEnds
  <2> QED BY <1>9, <2>1 DEF LoadPdbEnds, Thread, TypeOK
<1>10. CASE UNCHANGED vars
  BY <1>10 DEF vars, TypeOK
<1> QED BY <1>1, <1>2, <1>3, <1>4, <1>5, <1>6, <1>7, <1>8, <1>9, <1>10
        DEF Next, User, Frame, Loader

-----------------------------------------------------------------------------
(* The steps that start a load.                                            *)

\* When nothing is being loaded and all is reported, the load that a step
\* starts is the only one.
LEMMA OnlyOne ==
  ASSUME TypeOK, NEW r, NEW s, NEW m, Starts(r, s, m), Becomes(s),
         \A n \in Modules : ~Busy(n), finished' \subseteq Reported',
         m \notin finished'
  PROVE  /\ Pending' = {m} /\ m \in Modules
         /\ \A n \in Modules : Busy(n)' =>
              /\ threads'[n].starting + threads'[n].loading = 1
              /\ n \notin finished'
<1>1. /\ m \in Modules /\ threads' \in [Modules -> Stages]
      /\ threads'[m].starting = threads[m].starting + 1
      /\ threads'[m].loading = threads[m].loading
      /\ \A n \in Modules : n # m => threads'[n] = threads[n]
  BY BecomesStarted DEF TypeOK
<1>2. threads[m].starting = 0 /\ threads[m].loading = 0
  BY <1>1 DEF TypeOK, Stages, Busy
<1>3. \A n \in Modules : n # m => ~Busy(n)'
  BY <1>1 DEF Busy
<1>4. Busy(m)' /\ threads'[m].starting + threads'[m].loading = 1
  BY <1>1, <1>2 DEF Busy
<1>5. Pending' = {n \in Modules : Busy(n)'} \cup (finished' \ Reported')
  BY DEF Pending
<1>6. Pending' = {m}
  BY <1>1, <1>3, <1>4, <1>5
<1> QED BY <1>1, <1>3, <1>4, <1>6

\* A command that is given when nothing is underway.
LEMMA Alone ==
  ASSUME TypeOK, Orderly, Command, ~overlapped'
  PROVE  /\ Order /\ q.app = <<>> /\ q.names = <<>>
         /\ finished = {} /\ finished' = {} /\ Reported = {} /\ Reported' = {}
         /\ \A n \in Modules : ~Busy(n)
         /\ Pending = {} /\ mainPC' = "idle"
         /\ UNCHANGED <<selected, enabled>>
<1>1. ~overlapped /\ ~Underway
  BY DEF Command
<1>2. Order /\ q.app = <<>> /\ q.names = <<>> /\ Quiet
  BY <1>1 DEF Orderly, Underway
<1>3. /\ mainPC = "idle" /\ mainPC' = "idle" /\ UNCHANGED <<selected, enabled>>
      /\ finished' = finished
  BY DEF Command, pdbVars
<1>4. finished = {}
  BY <1>2 DEF Quiet, TypeOK
<1>5. Reported = {} /\ Reported' = {}
  BY <1>3 DEF Reported
<1>6. ASSUME NEW n \in Modules PROVE ~Busy(n)
  <2>1. threads[n] = NoThread
    BY <1>2 DEF Quiet, Running
  <2> QED BY <2>1 DEF NoThread, Busy
<1>7. Pending = {}
  BY <1>4, <1>6 DEF Pending
<1> QED BY <1>2, <1>3, <1>4, <1>5, <1>6, <1>7

\* A command that starts nothing leaves the threads as they were.
LEMMA StillNone ==
  ASSUME TypeOK, \A n \in Modules : ~Busy(n), threads' = threads,
         finished' \subseteq Reported'
  PROVE  Pending' = {} /\ \A n \in Modules : ~Busy(n)'
BY DEF Pending, Busy

LEMMA SelectedInOrder ==
  ASSUME TypeOK, Orderly, NEW list \in Lists(Modules), LoadSelected(list),
         ~overlapped'
  PROVE  Order'
<1> DEFINE s == [q EXCEPT !.app = @ \o list]
<1>1. /\ Order /\ q.app = <<>> /\ q.names = <<>>
      /\ finished' = {} /\ Reported' = {}
      /\ \A n \in Modules : ~Busy(n)
      /\ Pending = {} /\ mainPC # "presets" /\ mainPC' = "idle"
      /\ UNCHANGED <<selected, enabled>>
  BY Alone DEF LoadSelected, Command
<1>2. list \in Seq(Modules) /\ IsInjective(list)
  BY ListIs
<1>3. /\ s \in Queues /\ s.started = <<>> /\ s.names = <<>> /\ s.app = list
      /\ s.loaded = q.loaded /\ s.ui = q.ui
  <2>1. <<>> \o list = list
    BY <1>2, ConcatEmptySeq
  <2> QED BY <1>1, <2>1, SelectionInQueues
<1>4. /\ ToSet(list) \cap q.loaded = {} /\ Becomes(LoadModules(s))
      /\ requested' = requested \cup ToSet(list) /\ presets' = presets
  BY DEF LoadSelected
<1>5. /\ requested \subseteq q.loaded /\ presets \subseteq selected
      /\ IF q.ui = <<>> THEN enabled ELSE Last(q.ui) = <<"pdbloaded">>
  BY <1>1, NoneInEmpty DEF Order, Asked, Window
<1> HIDE DEF s
<1>6. CASE list = <<>>
  <2>1. q' = s /\ threads' = threads
    <3>1. LoadModules(s) = s
      BY <1>3, <1>6, LoadsModules
    <3> QED BY <1>3, <1>4, <3>1, BecomesSame DEF TypeOK
  <2>2. Pending' = {} /\ \A n \in Modules : ~Busy(n)'
    BY <1>1, <2>1, StillNone
  <2>3. q'.app = <<>> /\ q'.names = <<>> /\ q'.loaded = q.loaded /\ q'.ui = q.ui
    BY <1>3, <1>6, <2>1
  <2>4. OneLoad'
    BY <1>1, <2>2 DEF OneLoad
  <2>5. Waiting'
    BY <1>1, <2>3, NoneInEmpty DEF Waiting
  <2>6. GoesOn'
    BY <2>3 DEF GoesOn
  <2>7. Asked'
    BY <1>1, <1>4, <1>5, <1>6, <2>3, NoneInEmpty DEF Asked
  <2>8. Window'
    BY <1>1, <1>5, <2>3 DEF Window
  <2> QED BY <2>4, <2>5, <2>6, <2>7, <2>8 DEF Order
<1>7. CASE list # <<>>
  <2> DEFINE m == Head(list)
             t == LoadModules(s)
  <2>1. /\ m \in Modules /\ ToSet(list) = {m} \cup ToSet(Tail(list))
        /\ IsInjective(Tail(list)) /\ m \notin ToSet(Tail(list))
    BY <1>2, <1>7, TailLosesHead
  <2>2. Starts(s, t, m) /\ t.app = Tail(list) /\ t.names = <<>>
    <3>1. m \notin s.loaded
      BY <1>3, <1>4, <2>1
    <3> QED BY <1>3, <1>7, <3>1, LoadsModules
  <2> HIDE DEF m, t
  <2>3. Becomes(t)
    BY <1>4 DEF t
  <2>4. /\ q'.pdb = m /\ q'.app = Tail(list) /\ q'.names = <<>>
        /\ q'.loaded = q.loaded
    BY <1>3, <2>2, <2>3, BecomesStarted DEF TypeOK
  <2>5. /\ Pending' = {m}
        /\ \A n \in Modules : Busy(n)' =>
             /\ threads'[n].starting + threads'[n].loading = 1
             /\ n \notin finished'
    BY <1>1, <2>2, <2>3, OnlyOne
  <2>6. OneLoad'
    BY <1>1, <2>4, <2>5 DEF OneLoad
  <2>7. Waiting'
    BY <1>1, <1>4, <2>1, <2>4, <2>5, NoneInEmpty DEF Waiting
  <2>8. GoesOn'
    BY <1>1, <2>4, <2>5 DEF GoesOn
  <2>9. Asked'
    BY <1>1, <1>4, <1>5, <2>1, <2>4, <2>5, NoneInEmpty DEF Asked
  <2>10. Window'
    BY <2>5 DEF Window
  <2> QED BY <2>6, <2>7, <2>8, <2>9, <2>10 DEF Order
<1> QED BY <1>6, <1>7

LEMMA SessionInOrder ==
  ASSUME TypeOK, Orderly, NEW names \in Lists(Names), LoadSession(names),
         ~overlapped'
  PROVE  Order'
<1> DEFINE s == [q EXCEPT !.names = names]
           d == DequeueAndLoad(s)
<1>1. /\ Order /\ q.app = <<>> /\ q.names = <<>>
      /\ finished' = {} /\ Reported' = {}
      /\ \A n \in Modules : ~Busy(n)
      /\ Pending = {} /\ mainPC # "presets" /\ mainPC' = "idle"
      /\ UNCHANGED <<selected, enabled>>
  BY Alone DEF LoadSession, Command
<1>2. names \in Seq(Names) /\ IsInjective(names)
  BY ListIs
<1>3. /\ s \in Queues /\ s.started = <<>> /\ s.names = names /\ s.app = <<>>
      /\ s.loaded = q.loaded
  BY <1>1, SessionInQueues
<1>4. /\ presets' = ToSet(names) \cap Modules
      /\ requested' = requested \cup (ToSet(names) \cap Modules)
      /\ Becomes(LoadModules(d))
  BY DEF LoadSession
<1>5. requested \subseteq q.loaded
  BY <1>1, NoneInEmpty DEF Order, Asked
<1> HIDE DEF s, d
<1>6. CASE ToSet(names) \cap Modules = {}
           /\ d = UserCompletionCallback([s EXCEPT !.names = <<>>])
  <2> DEFINE u == [s EXCEPT !.names = <<>>]
  <2>1. /\ u \in Queues /\ u.started = <<>> /\ u.names = <<>> /\ u.app = <<>>
        /\ u.loaded = q.loaded
    <3>1. <<>> \in Seq(Names)
      OBVIOUS
    <3> QED BY <1>3, <3>1 DEF Queues
  <2> HIDE DEF u
  <2>2. /\ d \in Queues /\ d.names = <<>> /\ d.started = <<>> /\ d.app = <<>>
        /\ d.loaded = q.loaded /\ d.ui # <<>> /\ Last(d.ui) = <<"pdbloaded">>
    BY <1>6, <2>1, CallsBack DEF u
  <2>3. LoadModules(d) = d
    BY <2>2, LoadsModules
  <2>4. q' = d /\ threads' = threads
    BY <1>4, <2>2, <2>3, BecomesSame DEF TypeOK
  <2>5. Pending' = {} /\ \A n \in Modules : ~Busy(n)'
    BY <1>1, <2>4, StillNone
  <2>6. OneLoad'
    BY <1>1, <2>5 DEF OneLoad
  <2>7. Waiting'
    BY <1>1, <2>2, <2>4, NoneInEmpty DEF Waiting
  <2>8. GoesOn'
    BY <2>2, <2>4 DEF GoesOn
  <2>9. Asked'
    BY <1>4, <1>5, <1>6, <2>2, <2>4 DEF Asked
  <2>10. Window'
    BY <2>2, <2>4 DEF Window
  <2> QED BY <2>6, <2>7, <2>8, <2>9, <2>10 DEF Order
<1>7. ASSUME NEW k \in 1 .. Len(names), names[k] \in Modules,
             \A i \in 1 .. Len(names) : names[i] \in Modules => i <= k,
             Starts(s, d, names[k]), d.app = <<>>,
             d.names = SubSeq(names, 1, k - 1)
      PROVE  Order'
  <2> DEFINE m == names[k]
             rest == SubSeq(names, 1, k - 1)
  <2>1. /\ IsInjective(rest) /\ m \notin ToSet(rest)
        /\ ToSet(names) \cap Modules \subseteq {m} \cup ToSet(rest)
    BY <1>2, <1>7, RestAndLast
  <2> HIDE DEF m, rest
  <2>2. d \in Queues /\ LoadModules(d) = d
    <3>1. d \in Queues
      BY <1>7 DEF Starts
    <3> QED BY <1>7, <3>1 DEF LoadModules
  <2>3. Becomes(d) /\ Starts(s, d, m)
    BY <1>4, <1>7, <2>2 DEF m
  <2>4. /\ q'.pdb = m /\ q'.app = <<>> /\ q'.names = rest
        /\ q'.loaded = q.loaded
    BY <1>3, <1>7, <2>3, BecomesStarted DEF TypeOK, rest
  <2>5. /\ Pending' = {m}
        /\ \A n \in Modules : Busy(n)' =>
             /\ threads'[n].starting + threads'[n].loading = 1
             /\ n \notin finished'
    BY <1>1, <2>3, OnlyOne
  <2>6. OneLoad'
    BY <1>1, <2>4, <2>5 DEF OneLoad
  <2>7. Waiting'
    BY <1>1, <2>1, <2>4, <2>5, NoneInEmpty DEF Waiting
  <2>8. GoesOn'
    BY <2>4, <2>5 DEF GoesOn
  <2>9. Asked'
    BY <1>4, <1>5, <2>1, <2>4, <2>5 DEF Asked
  <2>10. Window'
    BY <2>5 DEF Window
  <2> QED BY <2>6, <2>7, <2>8, <2>9, <2>10 DEF Order
<1> QED BY <1>3, <1>6, <1>7, Dequeues DEF d

-----------------------------------------------------------------------------
(* The frame, and the loading threads.                                     *)

\* The Pdb that Update reports: it was the load in progress.
LEMMA ReportsLoad ==
  ASSUME TypeOK, Order, OnPdbLoaded
  PROVE  /\ q.pdb \in Modules /\ q.pdb \in finished
         /\ Pending = {q.pdb} /\ finished = {q.pdb} /\ Reported = {}
         /\ finished' = finished /\ Reported' = {q.pdb} /\ lastPdb' = q.pdb
         /\ mainPC' = "presets"
         /\ \A n \in Modules : ~Busy(n)
<1>1. /\ q.pdb \in finished /\ mainPC = "idle" /\ mainPC' = "presets"
      /\ finished' = finished /\ lastPdb' = q.pdb
  BY DEF OnPdbLoaded, Main
<1>2. Reported = {} /\ Reported' = {q.pdb}
  BY <1>1 DEF Reported
<1>3. Pending = {q.pdb} /\ finished = {q.pdb}
  BY <1>1, <1>2 DEF Pending, Order, OneLoad
<1>4. \A n \in Modules : ~Busy(n)
  BY <1>1, <1>3 DEF Pending, Order, OneLoad
<1> QED BY <1>1, <1>2, <1>3, <1>4 DEF TypeOK

LEMMA LoadedInOrder ==
  ASSUME TypeOK, Order, OnPdbLoaded
  PROVE  Order'
<1> DEFINE p == q.pdb
           s == AddPdb(q, p)
           t == NextLoad(s)
<1>1. /\ p \in Modules /\ Pending = {p} /\ finished = {p} /\ Reported = {}
      /\ finished' = {p} /\ Reported' = {p} /\ lastPdb' = p
      /\ mainPC # "presets" /\ mainPC' = "presets"
      /\ \A n \in Modules : ~Busy(n)
  BY ReportsLoad DEF OnPdbLoaded, Main
<1>2. UNCHANGED <<presets, requested, selected>> /\ Becomes(t)
  BY DEF OnPdbLoaded, Main, userVars
<1>3. /\ s \in Queues /\ s.started = <<>> /\ s.app = q.app /\ s.names = q.names
      /\ s.pdb = p /\ s.loaded = q.loaded \cup {p}
  BY <1>1 DEF TypeOK, Queues, AddPdb
<1>4. /\ IsInjective(q.app) /\ IsInjective(q.names)
      /\ q.app = <<>> \/ q.names = <<>>
      /\ ToSet(q.app) \cap (q.loaded \cup {p}) = {} /\ p \notin ToSet(q.names)
  BY <1>1 DEF Order, Waiting
<1>5. /\ requested \subseteq q.loaded \cup ToSet(q.app) \cup ToSet(q.names) \cup {p}
      /\ presets \subseteq selected \cup ToSet(q.names) \cup {p}
  BY <1>1 DEF Order, Asked
<1>6. requested \subseteq Modules /\ presets \subseteq Modules
  BY DEF TypeOK
<1>7. q.names \in Seq(Names)
  BY QueueFields DEF TypeOK
<1>8. Window'
  BY <1>1 DEF Window
<1> HIDE DEF p, s, t
<1>9. ASSUME q'.pdb = p, q'.loaded = q.loaded \cup {p}, threads' = threads,
             q'.app = q.app, q'.names = <<>>, ToSet(q.names) \cap Modules = {}
      PROVE  Order'
  <2>1. Pending' = {} /\ \A n \in Modules : ~Busy(n)'
    BY <1>1, <1>9, StillNone
  <2>2. OneLoad'
    BY <1>1, <2>1 DEF OneLoad
  <2>3. Waiting'
    BY <1>1, <1>4, <1>9, <2>1, NoneInEmpty DEF Waiting
  <2>4. GoesOn'
    BY <1>1, <1>9 DEF GoesOn
  <2>5. Asked'
    BY <1>1, <1>2, <1>5, <1>6, <1>9 DEF Asked
  <2> QED BY <1>8, <2>2, <2>3, <2>4, <2>5 DEF Order
<1>10. CASE q.names = <<>>
  <2>1. t = s
    BY <1>3, <1>10 DEF t, NextLoad
  <2>2. q' = s /\ threads' = threads
    BY <1>2, <1>3, <2>1, BecomesSame DEF TypeOK
  <2> QED BY <1>3, <1>9, <1>10, <2>2, NoneInEmpty
<1>11. CASE q.names # <<>>
  <2>1. t = DequeueAndLoad(s) /\ q.app = <<>>
    BY <1>3, <1>4, <1>11 DEF t, NextLoad
  <2>2. CASE ToSet(s.names) \cap Modules = {}
             /\ t = UserCompletionCallback([s EXCEPT !.names = <<>>])
    <3> DEFINE u == [s EXCEPT !.names = <<>>]
    <3>1. /\ u \in Queues /\ u.started = <<>> /\ u.names = <<>> /\ u.app = <<>>
          /\ u.loaded = s.loaded /\ u.pdb = p
      <4>1. <<>> \in Seq(Names)
        OBVIOUS
      <4> QED BY <1>3, <2>1, <4>1 DEF Queues
    <3> HIDE DEF u
    <3>2. /\ t \in Queues /\ t.names = <<>> /\ t.started = <<>> /\ t.app = <<>>
          /\ t.loaded = s.loaded /\ t.pdb = p
      BY <2>2, <3>1, CallsBack DEF u
    <3>3. q' = t /\ threads' = threads
      BY <1>2, <3>2, BecomesSame DEF TypeOK
    <3> QED BY <1>3, <1>9, <2>1, <2>2, <3>2, <3>3
  <2>3. ASSUME NEW k \in 1 .. Len(q.names), q.names[k] \in Modules,
               \A i \in 1 .. Len(q.names) : q.names[i] \in Modules => i <= k,
               Starts(s, t, q.names[k]), t.app = s.app,
               t.names = SubSeq(q.names, 1, k - 1)
        PROVE  Order'
    <3> DEFINE m == q.names[k]
               rest == SubSeq(q.names, 1, k - 1)
    <3>1. /\ IsInjective(rest) /\ m \notin ToSet(rest)
          /\ ToSet(rest) \subseteq ToSet(q.names)
          /\ ToSet(q.names) \cap Modules \subseteq {m} \cup ToSet(rest)
      BY <1>4, <1>7, <2>3, RestAndLast
    <3>2. m \in ToSet(q.names)
      BY <1>7 DEF ToSet
    <3> HIDE DEF m, rest
    <3>3. Starts(s, t, m) /\ m \notin finished' /\ m # p
      BY <1>1, <1>4, <2>3, <3>2 DEF m
    <3>4. /\ q'.pdb = m /\ q'.app = <<>> /\ q'.names = rest
          /\ q'.loaded = s.loaded
      BY <1>2, <1>3, <2>1, <2>3, <3>3, BecomesStarted DEF TypeOK, rest
    <3>5. /\ Pending' = {m}
          /\ \A n \in Modules : Busy(n)' =>
               /\ threads'[n].starting + threads'[n].loading = 1
               /\ n \notin finished'
      BY <1>1, <1>2, <3>3, OnlyOne
    <3>6. OneLoad'
      BY <1>1, <3>4, <3>5 DEF OneLoad
    <3>7. Waiting'
      BY <1>1, <1>3, <1>4, <3>1, <3>4, <3>5, NoneInEmpty DEF Waiting
    <3>8. GoesOn'
      BY <3>4, <3>5 DEF GoesOn
    <3>9. Asked'
      <4>1. requested \subseteq q.loaded \cup ToSet(q.names) \cup {p}
        BY <1>5, <2>1, NoneInEmpty
      <4> QED BY <1>1, <1>2, <1>3, <1>5, <1>6, <3>1, <3>4, <3>5, <4>1 DEF Asked
    <3> QED BY <1>8, <3>6, <3>7, <3>8, <3>9 DEF Order
  <2> QED BY <1>3, <2>1, <2>2, <2>3, Dequeues
<1> QED BY <1>10, <1>11

LEMMA PresetsInOrder ==
  ASSUME TypeOK, Order, ApplyPresets
  PROVE  Order'
<1> DEFINE p == lastPdb
           t == LastLoad(q)
<1>1. /\ p \in parsed /\ Reported = {p} /\ Reported' = {p}
      /\ mainPC = "presets" /\ mainPC' = "reset" /\ lastPdb' = p
      /\ finished' = finished /\ p \in finished
      /\ UNCHANGED <<presets, requested, enabled>> /\ Becomes(t)
      /\ selected' = selected \cup ({p} \cap presets \cap parsed)
  BY DEF ApplyPresets, Main, Reported, TypeOK, userVars, Order, OneLoad
<1>2. q \in Queues /\ q.started = <<>>
  BY DEF TypeOK
<1>3. presets \subseteq selected' \cup ToSet(q.names) \cup Pending
  BY <1>1 DEF Order, Asked
<1> HIDE DEF p, t
<1>4. ASSUME threads' = threads, q'.pdb = q.pdb, q'.app = q.app,
             q'.names = q.names, q'.loaded = q.loaded,
             q.app = <<>> \/ Pending # {},
             Pending = {} => q'.ui # <<>> /\ Last(q'.ui) = <<"pdbloaded">>
      PROVE  Order'
  <2>1. Pending' = Pending /\ \A n \in Modules : Busy(n)' <=> Busy(n)
    BY <1>1, <1>4 DEF Pending, Busy
  <2>2. OneLoad'
    BY <1>1, <1>4, <2>1 DEF Order, OneLoad
  <2>3. Waiting'
    BY <1>1, <1>4, <2>1 DEF Order, Waiting
  <2>4. GoesOn'
    BY <1>1, <1>4, <2>1 DEF Order, GoesOn
  <2>5. Asked'
    BY <1>1, <1>3, <1>4, <2>1 DEF Order, Asked
  <2>6. Window'
    BY <1>4, <2>1 DEF Window
  <2> QED BY <2>2, <2>3, <2>4, <2>5, <2>6 DEF Order
<1>5. CASE q.names # <<>>
  <2>1. t = q
    BY <1>5 DEF t, LastLoad
  <2>2. q' = q /\ threads' = threads
    BY <1>1, <1>2, <2>1, BecomesSame DEF TypeOK
  <2>3. Pending # {}
    BY <1>5 DEF Order, GoesOn
  <2> QED BY <1>4, <2>2, <2>3
<1>6. CASE q.names = <<>> /\ q.app = <<>>
  <2>1. t = UserCompletionCallback(q)
    BY <1>6 DEF t, LastLoad
  <2>2. /\ t \in Queues /\ t.names = q.names /\ t.started = <<>> /\ t.app = q.app
        /\ t.loaded = q.loaded /\ t.pdb = q.pdb
        /\ t.ui # <<>> /\ Last(t.ui) = <<"pdbloaded">>
    BY <1>2, <1>6, <2>1, CallsBack
  <2>3. q' = t /\ threads' = threads
    BY <1>1, <2>2, BecomesSame DEF TypeOK
  <2> QED BY <1>4, <1>6, <2>2, <2>3
<1>7. CASE q.names = <<>> /\ q.app # <<>>
  <2> DEFINE m == Head(q.app)
  <2>1. /\ m \in Modules /\ ToSet(q.app) = {m} \cup ToSet(Tail(q.app))
        /\ IsInjective(Tail(q.app)) /\ m \notin ToSet(Tail(q.app))
    BY <1>2, <1>7, QueueFields, TailLosesHead DEF Order, Waiting
  <2>2. /\ ToSet(q.app) \cap (q.loaded \cup Pending) = {} /\ p \in q.loaded
        /\ q.pdb = p
    BY <1>1, <1>7 DEF Order, Waiting, GoesOn, p
  <2>3. Pending = {} /\ finished = {p} /\ \A n \in Modules : ~Busy(n)
    <3>1. Pending \subseteq {p}
      BY <2>2 DEF Order, OneLoad
    <3>2. p \notin Pending
      BY <1>1 DEF Pending, Order, OneLoad
    <3>3. Pending = {}
      BY <3>1, <3>2
    <3> QED BY <1>1, <3>3 DEF Pending
  <2>4. Starts(q, t, m) /\ t.app = Tail(q.app) /\ t.names = <<>>
    <3>1. t = LoadModules(q)
      BY <1>7 DEF t, LastLoad, UserCompletionCallback
    <3>2. m \notin q.loaded
      BY <2>1, <2>2
    <3> QED BY <1>2, <1>7, <3>1, <3>2, LoadsModules
  <2> HIDE DEF m
  <2>5. /\ q'.pdb = m /\ q'.app = Tail(q.app) /\ q'.names = <<>>
        /\ q'.loaded = q.loaded
    BY <1>1, <2>4, BecomesStarted DEF TypeOK
  <2>6. m # p /\ m \notin finished'
    BY <1>1, <2>1, <2>2, <2>3
  <2>7. /\ Pending' = {m}
        /\ \A n \in Modules : Busy(n)' =>
             /\ threads'[n].starting + threads'[n].loading = 1
             /\ n \notin finished'
    BY <1>1, <2>3, <2>4, <2>6, OnlyOne
  <2>8. OneLoad'
    BY <1>1, <2>5, <2>7 DEF OneLoad
  <2>9. Waiting'
    BY <1>1, <2>1, <2>2, <2>5, <2>7, NoneInEmpty DEF Waiting
  <2>10. GoesOn'
    BY <1>1, <2>5, <2>7 DEF GoesOn
  <2>11. Asked'
    <3>1. requested \subseteq q.loaded \cup ToSet(q.app)
      BY <1>7, <2>3, NoneInEmpty DEF Order, Asked
    <3>2. presets \subseteq selected'
      BY <1>3, <1>7, <2>3, NoneInEmpty
    <3> QED BY <1>1, <2>1, <2>5, <2>7, <3>1, <3>2 DEF Asked
  <2>12. Window'
    BY <2>7 DEF Window
  <2> QED BY <2>8, <2>9, <2>10, <2>11, <2>12 DEF Order
<1> QED BY <1>5, <1>6, <1>7

\* A step that leaves the queues and the loads alone, up to the stage of a load,
\* keeps the order if it keeps the last word to the window.
LEMMA SameLoads ==
  ASSUME Order, Pending' = Pending, Reported' \subseteq finished',
         Reported' \subseteq q.loaded, Reported' \subseteq Reported,
         (mainPC' = "presets") = (mainPC = "presets"),
         mainPC = "presets" => lastPdb' = lastPdb,
         \A m \in Modules : Busy(m)' =>
           threads'[m].starting + threads'[m].loading = 1 /\ m \notin finished',
         q'.pdb = q.pdb, q'.app = q.app, q'.names = q.names, q'.loaded = q.loaded,
         UNCHANGED <<presets, selected, requested>>, Window'
  PROVE  Order'
<1>1. OneLoad'
  BY DEF Order, OneLoad
<1>2. Waiting'
  BY DEF Order, Waiting
<1>3. GoesOn'
  BY DEF Order, GoesOn
<1>4. Asked'
  BY DEF Order, Asked
<1> QED BY <1>1, <1>2, <1>3, <1>4 DEF Order

\* The window's last message is the last word.
LEMMA MessageInOrder ==
  ASSUME TypeOK, Order, HandleMessage
  PROVE  Order'
<1>1. /\ q'.ui = Tail(q.ui) /\ q'.app = q.app /\ q'.names = q.names
      /\ q'.pdb = q.pdb /\ q'.loaded = q.loaded
      /\ q.ui # <<>> /\ (Head(q.ui) = <<"pdbloaded">> => enabled')
  BY HandleMessageIs
<1>2. /\ mainPC = "messages" /\ mainPC' = "messages"
      /\ UNCHANGED <<threads, finished, lastPdb, presets, selected, requested>>
  BY DEF HandleMessage, Main, userVars
<1>3. Reported' = Reported /\ Pending' = Pending /\ Reported = {}
  BY <1>2 DEF Reported, Pending, Busy
<1>4. Window'
  <2> SUFFICES ASSUME Pending' = {}
               PROVE  IF q'.ui = <<>> THEN enabled'
                      ELSE Last(q'.ui) = <<"pdbloaded">>
    BY DEF Window
  <2>1. Last(q.ui) = <<"pdbloaded">>
    BY <1>1, <1>2, <1>3 DEF Order, Window
  <2>2. /\ Tail(q.ui) # <<>> => Last(Tail(q.ui)) = Last(q.ui)
        /\ Tail(q.ui) = <<>> => Last(q.ui) = Head(q.ui)
    BY <1>1, QueueFields, TailKeepsLast DEF TypeOK
  <2> QED BY <1>1, <2>1, <2>2
<1>5. \A m \in Modules : Busy(m)' =>
        threads'[m].starting + threads'[m].loading = 1 /\ m \notin finished'
  BY <1>2 DEF Busy, Order, OneLoad
<1> QED BY <1>1, <1>2, <1>3, <1>4, <1>5, SameLoads

LEMMA FrameInOrder ==
  ASSUME TypeOK, Order, UpdateNothing \/ Reset \/ MessagesEnd
  PROVE  Order'
<1>1. /\ mainPC # "presets" /\ mainPC' # "presets"
      /\ q' = q /\ UNCHANGED <<threads, enabled, presets, selected, requested>>
  BY DEF UpdateNothing, Reset, MessagesEnd, Main, userVars
<1>2. \A m \in Modules : Busy(m)' <=> Busy(m)
  BY <1>1 DEF Busy
<1>3. finished' \subseteq finished /\ finished' \ Reported' = finished \ Reported
      /\ Reported' \subseteq Reported /\ Reported' \subseteq finished'
  <2>1. CASE UpdateNothing \/ MessagesEnd
    BY <2>1 DEF UpdateNothing, MessagesEnd, Main, Reported
  <2>2. CASE Reset
    BY <2>2 DEF Reset, Main, Reported
  <2> QED BY <2>1, <2>2
<1>4. Pending' = Pending
  BY <1>2, <1>3 DEF Pending
<1>5. Window'
  BY <1>1, <1>4 DEF Order, Window
<1>6. \A m \in Modules : Busy(m)' =>
        threads'[m].starting + threads'[m].loading = 1 /\ m \notin finished'
  BY <1>1, <1>2, <1>3 DEF Order, OneLoad
<1>7. Reported' \subseteq q.loaded
  BY <1>3 DEF Order, Waiting
<1> QED BY <1>1, <1>3, <1>4, <1>5, <1>6, <1>7, SameLoads

LEMMA BeginsInOrder ==
  ASSUME TypeOK, Order, NEW m \in Modules, LoadPdbBegins(m)
  PROVE  Order'
<1>1. /\ threads[m].starting > 0
      /\ threads'[m].starting = threads[m].starting - 1
      /\ threads'[m].loading = threads[m].loading + 1
      /\ \A n \in Modules : n # m => threads'[n] = threads[n]
  <2>1. Thread(m, "starting", "loading")
    BY DEF LoadPdbBegins
  <2>2. threads[m] \in Stages
    BY DEF TypeOK
  <2> QED BY <2>1, <2>2, ThreadIs DEF Stages
<1>2. threads[m].starting \in Nat /\ threads[m].loading \in Nat
  BY DEF TypeOK, Stages
<1>3. /\ threads'[m].starting + threads'[m].loading
           = threads[m].starting + threads[m].loading
      /\ Busy(m) /\ Busy(m)'
  BY <1>1, <1>2 DEF Busy
<1>4. /\ mainPC' = mainPC /\ finished' = finished
      /\ UNCHANGED <<lastPdb, presets, selected, requested>>
      /\ q' = [q EXCEPT !.ui = Append(@, <<"pdb", m>>)]
  BY DEF LoadPdbBegins, Thread, userVars
<1>5. /\ q'.app = q.app /\ q'.names = q.names /\ q'.pdb = q.pdb
      /\ q'.loaded = q.loaded
  BY <1>4 DEF TypeOK, Queues
<1>6. \A n \in Modules : Busy(n)' <=> Busy(n)
  BY <1>1, <1>3 DEF Busy
<1>7. Reported' = Reported /\ Pending' = Pending /\ Pending # {}
  BY <1>3, <1>4, <1>6 DEF Reported, Pending
<1>8. Window'
  BY <1>7 DEF Window
<1>9. \A n \in Modules : Busy(n)' =>
        threads'[n].starting + threads'[n].loading = 1 /\ n \notin finished'
  BY <1>1, <1>3, <1>4, <1>6 DEF Order, OneLoad
<1>10. Reported' \subseteq finished' /\ Reported' \subseteq q.loaded
  BY <1>4, <1>7 DEF Order, OneLoad, Waiting
<1> QED BY <1>4, <1>5, <1>7, <1>8, <1>9, <1>10, SameLoads

LEMMA FinishesInOrder ==
  ASSUME TypeOK, Order, NEW m \in Modules, LoadPdbFinishes(m)
  PROVE  Order'
<1>1. /\ threads[m].loading > 0
      /\ threads'[m].starting = threads[m].starting
      /\ threads'[m].loading = threads[m].loading - 1
      /\ \A n \in Modules : n # m => threads'[n] = threads[n]
  <2>1. Thread(m, "loading", "ending")
    BY DEF LoadPdbFinishes
  <2>2. threads[m] \in Stages
    BY DEF TypeOK
  <2> QED BY <2>1, <2>2, ThreadIs DEF Stages
<1>2. threads[m].starting \in Nat /\ threads[m].loading \in Nat
  BY DEF TypeOK, Stages
<1>3. Busy(m) /\ m \notin finished /\ ~Busy(m)'
  BY <1>1, <1>2 DEF Busy, Order, OneLoad
<1>4. /\ mainPC' = mainPC /\ finished' = finished \cup {m} /\ q' = q
      /\ UNCHANGED <<lastPdb, presets, selected, requested, enabled>>
  BY DEF LoadPdbFinishes, Thread, userVars
<1>5. \A n \in Modules : n # m => (Busy(n)' <=> Busy(n))
  BY <1>1 DEF Busy
<1>6. Reported' = Reported /\ m \notin Reported
  BY <1>3, <1>4 DEF Reported, Order, OneLoad
<1>7. Pending' = Pending
  BY <1>3, <1>4, <1>5, <1>6 DEF Pending
<1>8. Window'
  BY <1>4, <1>7 DEF Order, Window
<1>9. \A n \in Modules : Busy(n)' =>
        threads'[n].starting + threads'[n].loading = 1 /\ n \notin finished'
  BY <1>1, <1>3, <1>4, <1>5 DEF Order, OneLoad
<1>10. Reported' \subseteq finished' /\ Reported' \subseteq q.loaded
  BY <1>4, <1>6 DEF Order, OneLoad, Waiting
<1> QED BY <1>4, <1>6, <1>7, <1>8, <1>9, <1>10, SameLoads

LEMMA EndsInOrder ==
  ASSUME TypeOK, Order, NEW m \in Modules, LoadPdbEnds(m)
  PROVE  Order'
<1>1. \A n \in Modules : /\ threads'[n].starting = threads[n].starting
                         /\ threads'[n].loading = threads[n].loading
  <2>1. Thread(m, "ending", "ended")
    BY DEF LoadPdbEnds
  <2>2. threads[m] \in Stages
    BY DEF TypeOK
  <2>3. /\ threads'[m].starting = threads[m].starting
        /\ threads'[m].loading = threads[m].loading
        /\ \A n \in Modules : n # m => threads'[n] = threads[n]
    BY <2>1, <2>2, ThreadIs DEF Stages
  <2> QED BY <2>3
<1>2. /\ mainPC' = mainPC /\ finished' = finished /\ q' = q
      /\ UNCHANGED <<lastPdb, presets, selected, requested, enabled>>
  BY DEF LoadPdbEnds, Thread, userVars
<1>3. \A n \in Modules : Busy(n)' <=> Busy(n)
  BY <1>1 DEF Busy
<1>4. Reported' = Reported /\ Pending' = Pending
  BY <1>2, <1>3 DEF Reported, Pending
<1>5. Window'
  BY <1>2, <1>4 DEF Order, Window
<1>6. \A n \in Modules : Busy(n)' =>
        threads'[n].starting + threads'[n].loading = 1 /\ n \notin finished'
  BY <1>1, <1>2, <1>3 DEF Order, OneLoad
<1>7. Reported' \subseteq finished' /\ Reported' \subseteq q.loaded
  BY <1>2, <1>4 DEF Order, OneLoad, Waiting
<1> QED BY <1>2, <1>4, <1>5, <1>6, <1>7, SameLoads

-----------------------------------------------------------------------------
(* The invariant and the theorems.                                         *)

LEMMA Initially == Init => IInv
<1> SUFFICES ASSUME Init PROVE IInv
  OBVIOUS
<1>1. q = [app |-> <<>>, names |-> <<>>, pdb |-> NoPdb, loaded |-> {},
           started |-> <<>>, ui |-> <<>>]
  BY DEF Init
<1>2. q \in Queues /\ q.started = <<>>
  <2>1. <<>> \in Seq(Modules) /\ <<>> \in Seq(Names) /\ <<>> \in Seq(Messages)
    OBVIOUS
  <2> QED BY <1>1, <2>1 DEF Queues
<1>3. threads \in [Modules -> Stages]
  BY DEF Init, NoThread, Stages
<1>4. TypeOK
  BY <1>2, <1>3 DEF Init, TypeOK
<1>5. \A m \in Modules : ~Busy(m)
  BY DEF Init, NoThread, Busy
<1>6. Reported = {} /\ Pending = {}
  BY <1>5 DEF Init, Reported, Pending
<1>7. OneLoad
  BY <1>5, <1>6 DEF OneLoad
<1>8. Waiting
  BY <1>1, <1>6, NoneInEmpty DEF Waiting
<1>9. GoesOn
  BY <1>1 DEF GoesOn
<1>10. Asked
  BY DEF Init, Asked
<1>11. Window
  BY <1>1 DEF Init, Window
<1> QED BY <1>4, <1>7, <1>8, <1>9, <1>10, <1>11 DEF IInv, Orderly, Order

LEMMA OrderStep ==
  TypeOK /\ Orderly /\ [Next]_vars => Orderly'
<1> SUFFICES ASSUME TypeOK, Orderly, [Next]_vars, ~overlapped' PROVE Order'
  BY DEF Orderly
<1>1. CASE User
  BY <1>1, SelectedInOrder, SessionInOrder DEF User
<1>2. CASE Frame
  <2>1. Order
    BY <1>2 DEF Frame, UpdateNothing, OnPdbLoaded, ApplyPresets, Reset,
               HandleMessage, MessagesEnd, Main, userVars, Orderly
  <2> QED BY <1>2, <2>1, LoadedInOrder, PresetsInOrder, MessageInOrder,
             FrameInOrder DEF Frame
<1>3. ASSUME NEW m \in Modules, Loader(m) PROVE Order'
  <2>1. Order
    BY <1>3 DEF Loader, LoadPdbBegins, LoadPdbFinishes, LoadPdbEnds, Thread,
               userVars, Orderly
  <2> QED BY <1>3, <2>1, BeginsInOrder, FinishesInOrder, EndsInOrder DEF Loader
<1>4. CASE UNCHANGED vars
  <2>1. ~overlapped
    BY <1>4 DEF vars, userVars
  <2>2. Order
    BY <2>1 DEF Orderly
  <2> QED BY <1>4, <2>2 DEF vars, pdbVars, userVars, Order, OneLoad, Waiting,
             GoesOn, Asked, Window, Pending, Reported, Busy
<1> QED BY <1>1, <1>2, <1>3, <1>4 DEF Next

\* The invariant holds of every behaviour.
THEOREM Invariant == Spec => []IInv
<1>1. IInv /\ [Next]_vars => IInv'
  BY TypeStep, OrderStep DEF IInv
<1> QED BY Initially, <1>1, PTL DEF Spec

\* Every variable keeps its type; a Pdb that is reported has its data.
THEOREM TypeCorrect == Spec => []TypeOK
<1>1. IInv => TypeOK
  BY DEF IInv
<1> QED BY <1>1, Invariant, PTL

\* When all is quiet nothing is left behind: what was asked for is loaded, the
\* functions of the session are selected, and the window is usable or about to
\* be, whatever the number of modules and the order in which threads and frames
\* take turns (ModuleManager.cpp:93-140, App.cpp:830-842, Pdb.cpp:245-250).
THEOREM AllDone == Spec => []QuietMeansDone
<1>1. IInv => QuietMeansDone
  <2> SUFFICES ASSUME IInv, mainPC = "idle", Quiet, ~overlapped
               PROVE  /\ q.app = <<>> /\ q.names = <<>>
                      /\ requested \subseteq q.loaded
                      /\ presets \subseteq selected
                      /\ enabled \/ (q.ui # <<>> /\ Last(q.ui) = <<"pdbloaded">>)
    BY DEF QuietMeansDone
  <2>1. Order /\ TypeOK
    BY DEF IInv, Orderly
  <2>2. finished = {}
    BY <2>1 DEF Quiet, TypeOK
  <2>3. \A n \in Modules : ~Busy(n)
    BY DEF Quiet, Running, NoThread, Busy
  <2>4. Pending = {}
    BY <2>2, <2>3 DEF Pending
  <2>5. q.app = <<>> /\ q.names = <<>>
    BY <2>1, <2>4 DEF Order, GoesOn
  <2>6. requested \subseteq q.loaded /\ presets \subseteq selected
    BY <2>1, <2>4, <2>5, NoneInEmpty DEF Order, Asked
  <2> QED BY <2>1, <2>4, <2>5, <2>6 DEF Order, Window
<1> QED BY <1>1, Invariant, PTL

\* Presets are applied to a Pdb whose data is there and that no thread fills,
\* although the next load has begun (ModuleManager.cpp:120-140).
THEOREM PresetsSafe == Spec => PresetsOnLoaded
<1>1. IInv => (mainPC = "presets" /\ mainPC' = "reset" =>
                 /\ lastPdb \in parsed
                 /\ threads[lastPdb].starting + threads[lastPdb].loading = 0
                    \/ overlapped)
  <2> SUFFICES ASSUME IInv, mainPC = "presets"
               PROVE  /\ lastPdb \in parsed
                      /\ threads[lastPdb].starting + threads[lastPdb].loading = 0
                         \/ overlapped
    OBVIOUS
  <2>1. lastPdb \in parsed /\ lastPdb \in Modules
    BY DEF IInv, TypeOK
  <2>2. /\ threads[lastPdb].starting \in Nat /\ threads[lastPdb].loading \in Nat
    BY <2>1 DEF IInv, TypeOK, Stages
  <2>3. ~overlapped => lastPdb \in finished
    BY DEF IInv, Orderly, Order, OneLoad, Reported
  <2>4. ~overlapped => ~Busy(lastPdb)
    BY <2>1, <2>3 DEF IInv, Orderly, Order, OneLoad
  <2> QED BY <2>1, <2>2, <2>4 DEF Busy
<1> QED BY <1>1, Invariant, PTL DEF PresetsOnLoaded
================================================================================
