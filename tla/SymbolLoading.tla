---------------------------- MODULE SymbolLoading ----------------------------
(***************************************************************************)
(* The loading of debug symbols: the module list and the session list      *)
(* (ModuleDataView.cpp, SessionsDataView.cpp), the queue of the            *)
(* application (App.cpp), the queue of names of ModuleManager.cpp, one     *)
(* thread per load (Pdb.cpp), and the main window, which is disabled while *)
(* symbols load (orbitmainwindow.cpp).                                     *)
(*                                                                         *)
(* The main thread runs the user's commands and, once per frame,           *)
(* Pdb::Update of the current Pdb followed by the messages to the user     *)
(* interface.  GPdbDbg is the only Pdb it asks whether its load is over.   *)
(***************************************************************************)
EXTENDS Integers, Sequences, FiniteSets, FiniteSetsExt, SequencesExt

CONSTANTS Modules,      \* modules of the target process with symbols
          NoPdb,        \* no Pdb
          Unknown,      \* a name in a session that no module has
          MaxCommands   \* bound: the commands the user gives

ASSUME SymbolLoadingAssumption == NoPdb \notin Modules /\ Unknown \notin Modules

Names == Modules \cup {Unknown}

VARIABLES
  q,           \* the queues and the current Pdb, see Init
  threads,     \* each Pdb: its loading threads, by where they are
  isLoading, finished, parsed,  \* Pdbs: m_IsLoading, m_FinishedLoading, data
  presets, selected,  \* modules of GSessionPresets; those selected from it
  enabled,     \* the main window
  mainPC, lastPdb,    \* where the main thread is in a frame; OnPdbLoaded's
  requested, overlapped, commands  \* history: modules asked for, a command
                                   \* given while another was carried out

pdbVars  == <<isLoading, finished, parsed>>
userVars == <<requested, overlapped, commands>>
vars == <<q, threads, pdbVars, presets, selected, enabled, mainPC, lastPdb,
          userVars>>

NoThread == [starting |-> 0, loading |-> 0, ending |-> 0]

Init ==
  /\ q = [app     |-> <<>>,     \* OrbitApp::m_ModulesToLoad
          names   |-> <<>>,     \* ModuleManager::m_ModulesQueue
          pdb     |-> NoPdb,    \* GPdbDbg
          loaded  |-> {},       \* the modules with m_Loaded
          started |-> <<>>,     \* loads started in this step
          ui      |-> <<>>]     \* TcpServer::m_UiLockFreeQueue
  /\ threads = [m \in Modules |-> NoThread]
  /\ isLoading = {} /\ finished = {} /\ parsed = {}
  /\ presets = {} /\ selected = {}
  /\ enabled = TRUE
  /\ mainPC = "idle" /\ lastPdb = NoPdb
  /\ requested = {} /\ overlapped = FALSE /\ commands = 0

-----------------------------------------------------------------------------
(* The queues.  Each operator takes them and returns what it makes of      *)
(* them.                                                                   *)

\* GPdbDbg = module->m_Pdb; GPdbDbg->LoadPdbAsync
StartLoad(s, m) == [s EXCEPT !.pdb = m, !.started = Append(@, m)]

\* OrbitApp::LoadModules; nothing is started for a module already loaded.
LoadModules(s) ==
  IF s.app = <<>> THEN s
  ELSE LET m == Head(s.app)
           rest == [s EXCEPT !.app = Tail(@)]
       IN  IF m \in s.loaded THEN rest ELSE StartLoad(rest, m)

\* Mutant. OnPdbLoaded of the application forgets the modules still to load.
MutUserCompletionCallback(s) == [s EXCEPT !.ui = Append(@, <<"pdbloaded">>)]

\* OrbitApp::OnPdbLoaded, the m_UserCompletionCallback of every load
UserCompletionCallback(s) ==
  IF s.app = <<>> THEN [s EXCEPT !.ui = Append(@, <<"pdbloaded">>)]
                  ELSE LoadModules(s)

\* From the back, past the names that no module has
DequeueAndLoad(s) ==
  LET known == {i \in DOMAIN s.names : s.names[i] \in Modules}
  IN  IF known = {} THEN UserCompletionCallback([s EXCEPT !.names = <<>>])
      ELSE StartLoad([s EXCEPT !.names = SubSeq(@, 1, Max(known) - 1)],
                     s.names[Max(known)])

AddPdb(s, m) == [s EXCEPT !.loaded = @ \cup {m}]

\* OnPdbLoaded up to the next load, and after the presets
NextLoad(s) == IF s.names # <<>> THEN DequeueAndLoad(s) ELSE s
LastLoad(s) == IF s.names = <<>> THEN UserCompletionCallback(s) ELSE s

\* The main thread replaces the queues by s and starts the threads.
Becomes(s) ==
  /\ q' = [s EXCEPT !.started = <<>>]
  /\ threads' = [m \in Modules |->
        [threads[m] EXCEPT
           !.starting = @ + Cardinality({i \in DOMAIN s.started :
                                           s.started[i] = m})]]

-----------------------------------------------------------------------------
(* The user, while the window is enabled.                                  *)

Running(m) == threads[m] # NoThread

Quiet == \A m \in Modules : ~Running(m) /\ m \notin finished

\* A command is still being carried out.
Underway == ~Quiet \/ q.app # <<>> \/ q.names # <<>>

Command ==
  /\ enabled /\ mainPC = "idle" /\ commands < MaxCommands
  /\ commands' = commands + 1
  /\ overlapped' = (overlapped \/ Underway)
  /\ UNCHANGED <<pdbVars, selected, enabled, mainPC, lastPdb>>

Lists(S) == {s \in BoundedSeq(S, Cardinality(S)) : IsInjective(s)}

\* ModulesDataView::OnContextMenu: `list' are those of the selected modules
\* that are not loaded; then LoadModules
LoadSelected(list) ==
  /\ Command
  /\ ToSet(list) \cap q.loaded = {}
  /\ Becomes(LoadModules([q EXCEPT !.app = @ \o list]))
  /\ requested' = requested \cup ToSet(list)
  /\ UNCHANGED presets

\* SessionsDataView::OnContextMenu: Capture::LoadSession, then LoadModules
LoadSession(names) ==
  /\ Command
  /\ presets' = ToSet(names) \cap Modules
  /\ Becomes(LoadModules(DequeueAndLoad([q EXCEPT !.names = names])))
  /\ requested' = requested \cup (ToSet(names) \cap Modules)

-----------------------------------------------------------------------------
(* A frame of the main thread: OrbitApp::MainTick.                         *)

Main(from, to) ==
  /\ mainPC = from /\ mainPC' = to
  /\ UNCHANGED <<isLoading, parsed, presets, userVars>>

\* Capture::Update without a load to report
UpdateNothing ==
  /\ q.pdb \notin finished
  /\ Main("idle", "messages")
  /\ UNCHANGED <<q, threads, finished, selected, enabled, lastPdb>>

\* Mutant. lastPdb is read from GPdbDbg after the next load was started.
MutOnPdbLoaded ==
  /\ q.pdb \in finished
  /\ Main("idle", "presets")
  /\ Becomes(NextLoad(AddPdb(q, q.pdb)))
  /\ lastPdb' = q'.pdb
  /\ UNCHANGED <<finished, selected, enabled>>

\* Pdb::Update: m_LoadingCompleteCallback, OnPdbLoaded up to the presets
OnPdbLoaded ==
  /\ q.pdb \in finished
  /\ Main("idle", "presets")
  /\ lastPdb' = q.pdb
  /\ Becomes(NextLoad(AddPdb(q, q.pdb)))
  /\ UNCHANGED <<finished, selected, enabled>>

\* lastPdb->ApplyPresets; the user's callback if no name is left
ApplyPresets ==
  /\ Main("presets", "reset")
  /\ selected' = selected \cup ({lastPdb} \cap presets \cap parsed)
  /\ Becomes(LastLoad(q))
  /\ UNCHANGED <<finished, enabled, lastPdb>>

\* Mutant. The flag of the current Pdb is reset, not that of the one reported.
MutReset ==
  /\ Main("reset", "messages")
  /\ finished' = finished \ {q.pdb}
  /\ UNCHANGED <<q, threads, selected, enabled, lastPdb>>

\* m_FinishedLoading = false, of the Pdb whose Update runs
Reset ==
  /\ Main("reset", "messages")
  /\ finished' = finished \ {lastPdb}
  /\ UNCHANGED <<q, threads, selected, enabled, lastPdb>>

\* MainThreadTick: one message to the window
HandleMessage ==
  /\ q.ui # <<>>
  /\ Main("messages", "messages")
  /\ enabled' = CASE Head(q.ui)[1] = "pdb" ->
                       enabled /\ q.pdb \notin isLoading
                  [] Head(q.ui)[1] = "pdbloaded" -> TRUE
  /\ q' = [q EXCEPT !.ui = Tail(@)]
  /\ UNCHANGED <<threads, finished, selected, lastPdb>>

MessagesEnd ==
  /\ q.ui = <<>>
  /\ Main("messages", "idle")
  /\ UNCHANGED <<q, threads, finished, selected, enabled, lastPdb>>

-----------------------------------------------------------------------------
(* A loading thread: Pdb::LoadPdb.                                         *)

Thread(m, from, to) ==
  /\ threads[m][from] > 0
  /\ threads' = [threads EXCEPT ![m] =
       [p \in DOMAIN NoThread |-> CASE p = from -> @[p] - 1
                                    [] p = to -> @[p] + 1
                                    [] OTHER -> @[p]]]
  /\ UNCHANGED <<presets, selected, enabled, mainPC, lastPdb, userVars>>

\* m_IsLoading = true, and "pdb:" goes to the window
LoadPdbBegins(m) ==
  /\ Thread(m, "starting", "loading")
  /\ isLoading' = isLoading \cup {m}
  /\ q' = [q EXCEPT !.ui = Append(@, <<"pdb", m>>)]
  /\ UNCHANGED <<finished, parsed>>

\* The data is there: m_FinishedLoading = true.
LoadPdbFinishes(m) ==
  /\ Thread(m, "loading", "ending")
  /\ parsed' = parsed \cup {m}
  /\ finished' = finished \cup {m}
  /\ UNCHANGED <<q, isLoading>>

\* m_IsLoading = false
LoadPdbEnds(m) ==
  /\ Thread(m, "ending", "ended")
  /\ isLoading' = isLoading \ {m}
  /\ UNCHANGED <<q, finished, parsed>>

User == \/ \E list \in Lists(Modules) : LoadSelected(list)
        \/ \E names \in Lists(Names) : LoadSession(names)

Frame == \/ UpdateNothing \/ OnPdbLoaded \/ ApplyPresets \/ Reset
         \/ HandleMessage \/ MessagesEnd

Loader(m) == LoadPdbBegins(m) \/ LoadPdbFinishes(m) \/ LoadPdbEnds(m)

Next == User \/ Frame \/ \E m \in Modules : Loader(m)

\* The frame timer keeps the main thread going; threads are scheduled.
Fairness == WF_vars(Frame) /\ \A m \in Modules : WF_vars(Loader(m))

Spec == Init /\ [][Next]_vars /\ Fairness

-----------------------------------------------------------------------------
(* Properties.                                                             *)

\* Presets look functions up in a Pdb no thread is filling: the load of the
\* next Pdb, already started, is another one's, unless a command given
\* during a load asked for the same Pdb again (ModuleManager.cpp:120-140).
PresetsOnLoaded ==
  [][mainPC = "presets" /\ mainPC' = "reset" =>
       /\ lastPdb \in parsed
       /\ threads[lastPdb].starting + threads[lastPdb].loading = 0
          \/ overlapped]_vars

\* Nothing is left behind by the two queues, by the one current Pdb and by
\* the early callback: if every command was given with nothing underway,
\* then once all is quiet every module asked for is loaded, the functions of
\* the session are selected, and the window is usable or about to be
\* (ModuleManager.cpp:93-140, App.cpp:830-842, Pdb.cpp:245-250).
QuietMeansDone ==
  mainPC = "idle" /\ Quiet /\ ~overlapped =>
    /\ q.app = <<>> /\ q.names = <<>>
    /\ requested \subseteq q.loaded
    /\ presets \subseteq selected
    /\ enabled \/ (q.ui # <<>> /\ Last(q.ui) = <<"pdbloaded">>)

\* A window disabled for a load is enabled again, although a load can end
\* while the callback of the one before it runs, its message still queued;
\* only a command given during a load can leave it disabled
\* (Pdb.cpp:245-250, orbitmainwindow.cpp:369-384).
WindowReturns == ~enabled ~> (enabled \/ overlapped)
=============================================================================
