---------------------------- MODULE StudioServer ----------------------------
(***************************************************************************)
(* The Studio's HTTP handlers and what they share (studio_server.rs): the  *)
(* open workspace, the files on disk, the undo journal, the simulation     *)
(* session and the C compiled for it.  Every connection has a thread; each *)
(* shared item has a mutex of its own and the files have none.             *)
(*                                                                         *)
(* A request is a sequence of steps, one for each access to something      *)
(* shared; todo[r] is what is left of request r and local[r] its           *)
(* variables.  A file's content is the set of names it declares; names in  *)
(* Layout stand for diagram positions, which the signature leaves out.     *)
(* Reads that only build an answer (inspect, diagrams) are left out.       *)
(***************************************************************************)
EXTENDS Naturals, Sequences, SequencesExt

CONSTANTS
  Documents,     \* workspaces that can be opened
  Native,        \* those with an .olproj manifest: read-only here
  Names, Layout, \* what a file may declare, and which of it is layout
  Roots,         \* operators one may simulate
  Editors,       \* threads serving requests that edit, undo, save or open
  Clients,       \* threads serving the simulation dock
  HistoryCap,    \* HISTORY_CAP
  Scenes,        \* bound: for each thread, what its requests ask for in turn
  WritesFail,    \* whether writing a file may fail
  None, Broken   \* Broken: the content of a file whose write was cut short

ASSUME ServerAssumption ==
  /\ Native \subseteq Documents
  /\ Layout \subseteq Names
  /\ HistoryCap \in Nat \ {0}
  /\ Scenes \subseteq [Editors \cup Clients -> Seq(SUBSET STRING)]
  /\ None \notin Editors \cup Clients
  /\ WritesFail \in BOOLEAN

Requests == Editors \cup Clients
Kinds == {"model", "types"}
Paths == Documents \X Kinds
Text == (SUBSET Names) \cup {Broken}

VARIABLES
  workspace,  \* the open document
  files,      \* the text of every file
  undo, redo, \* the journal: texts of the files before each edit
  history,    \* who holds the journal's mutex
  sim,        \* the session: the signature and root it runs, the C attached
  simLock,    \* who holds the session's mutex
  cache,      \* the last C compiled, under the signature and root it is kept
  todo, local, outcome, left

journal == <<undo, redo, history>>
session == <<sim, simLock, cache>>
vars == <<workspace, files, journal, session, todo, local, outcome, left>>

-----------------------------------------------------------------------------
(* The handlers, as the shared accesses they make in order. *)

\* A snapshot is "model_path", "types_path", "read"; a load is the three of
\* "load_path", "load_model", "load_types".  One file is resolved before or
\* after the snapshot; a types file gets a target of its own.
EditSteps == <<"path", "model_path", "types_path", "read", "load_raw", "save", "record">>
InsertSteps ==
  <<"model_path", "types_path", "read", "path", "load_raw", "path", "save", "record">>
DeclareSteps ==
  <<"load_path", "load_model", "load_types", "collide", "types_path", "types_target",
    "model_path", "types_path", "read", "load_raw", "save", "record">>
RemoveSteps ==
  <<"types_path", "model_path", "find", "model_path", "types_path", "read", "save", "record">>
\* Both files, the model's first.
ImportSteps ==
  <<"load_path", "load_model", "load_types", "collide", "model_path", "types_path", "read",
    "types_path", "path", "load_raw", "path", "save",
    "types_target", "load_raw", "save", "record">>
BuildSteps ==
  <<"load_path", "load_model", "load_types", "set_root",
    "model_path", "types_path", "read", "path", "load_raw", "path", "save", "record">>
SaveSteps == <<"path", "load_raw", "path", "save">>
HistorySteps == <<"pop", "model_path", "types_path", "read", "push", "restore">>
OpenSteps == <<"open", "clear_journal", "clear_sim", "clear_cache">>

StartSteps == <<"load_path", "load_model", "load_types", "store">>
StepSteps == <<"lock_sim", "load_path", "load_model", "load_types", "run">>
LoopSteps ==
  <<"peek", "load_path", "load_model", "load_types", "fresh", "lookup", "compile", "attach">>

Steps ==
  [ edit |-> EditSteps, insert |-> InsertSteps, declare |-> DeclareSteps,
    remove |-> RemoveSteps, import |-> ImportSteps, build |-> BuildSteps,
    save |-> SaveSteps, undo |-> HistorySteps, redo |-> HistorySteps, open |-> OpenSteps,
    start |-> StartSteps, step |-> StepSteps, stop |-> <<"stop">>,
    c_on |-> LoopSteps, c_off |-> <<"detach">> ]

\* /api/edit/* and /api/workspace/save are refused on a native project.
Guarded == {"edit", "insert", "declare", "remove", "import", "undo", "redo", "save"}

Idle == [op |-> "none", name |-> None, add |-> TRUE, doc |-> None, root |-> None,
         path |-> None, pending |-> << >>, snap |-> << >>, text |-> {}, restored |-> << >>,
         loaded |-> << >>, sig |-> << >>, build |-> None]

Semantics(texts) == [k \in Kinds |-> texts[k] \ Layout]
Readable(texts) == \A k \in Kinds : texts[k] # Broken

Init ==
  /\ workspace \in Documents
  /\ files = [p \in Paths |-> {}]
  /\ undo = << >> /\ redo = << >> /\ history = None
  /\ sim = None /\ simLock = None /\ cache = None
  /\ todo = [r \in Requests |-> << >>]
  /\ local = [r \in Requests |-> Idle]
  /\ outcome = [r \in Requests |-> "none"]
  /\ left \in Scenes

-----------------------------------------------------------------------------
(* The frame of a request. *)

At(r, step) == todo[r] # << >> /\ Head(todo[r]) = step

Goto(r, rest) == todo' = [todo EXCEPT ![r] = rest] /\ UNCHANGED <<outcome, left>>

Continue(r) == Goto(r, Tail(todo[r]))

Set(r, l) == local' = [local EXCEPT ![r] = l]

Answer(r, how) ==
  /\ todo' = [todo EXCEPT ![r] = << >>]
  /\ local' = [local EXCEPT ![r] = Idle]
  /\ outcome' = [outcome EXCEPT ![r] = how]
  /\ UNCHANGED left

Begin(r, l) ==
  /\ todo[r] = << >> /\ left[r] # << >> /\ l.op \in Head(left[r])
  /\ left' = [left EXCEPT ![r] = Tail(@)]
  /\ IF l.op \in Guarded /\ workspace \in Native
       THEN outcome' = [outcome EXCEPT ![r] = "refused"] /\ UNCHANGED <<todo, local>>
       ELSE /\ todo' = [todo EXCEPT ![r] = Steps[l.op]]
            /\ Set(r, l)
            /\ UNCHANGED outcome
  /\ UNCHANGED <<workspace, files, journal, session>>

\* Edits name a declaration; the journal and Save do not.
EditRequest(r) ==
  \/ \E op \in {"edit", "insert", "declare", "import", "build"}, n \in Names :
        Begin(r, [Idle EXCEPT !.op = op, !.name = n])
  \/ \E op \in {"edit", "remove"}, n \in Names :
        Begin(r, [Idle EXCEPT !.op = op, !.name = n, !.add = FALSE])
  \/ \E op \in {"save", "undo", "redo"} : Begin(r, [Idle EXCEPT !.op = op])
  \/ \E d \in Documents : Begin(r, [Idle EXCEPT !.op = "open", !.doc = d])

SimRequest(r) ==
  \/ \E root \in Roots : Begin(r, [Idle EXCEPT !.op = "start", !.root = root])
  \/ \E op \in {"step", "stop", "c_on", "c_off"} : Begin(r, [Idle EXCEPT !.op = op])

-----------------------------------------------------------------------------
(* Paths and snapshots. *)

\* ctx.model() or ctx.types_file(): the path of the document open right now.
AddPath(r) ==
  /\ \/ At(r, "model_path") /\ Set(r, [local[r] EXCEPT !.pending = Append(@, <<workspace, "model">>)])
     \/ At(r, "types_path") /\ Set(r, [local[r] EXCEPT !.pending = Append(@, <<workspace, "types">>)])
  /\ Continue(r)
  /\ UNCHANGED <<workspace, files, journal, session>>

ResolvePath(r) ==
  /\ \/ At(r, "path") /\ Set(r, [local[r] EXCEPT !.path = <<workspace, "model">>])
     \/ At(r, "types_target") /\ Set(r, [local[r] EXCEPT !.path = Head(local[r].pending), !.pending = << >>])
  /\ Continue(r)
  /\ UNCHANGED <<workspace, files, journal, session>>

ReadForSnapshot(r) ==
  LET p == Head(local[r].pending) IN
  /\ At(r, "read")
  /\ Set(r, [local[r] EXCEPT !.snap = Append(@, <<p, files[p]>>), !.pending = Tail(@)])
  /\ IF Len(local[r].pending) = 1 THEN Continue(r) ELSE UNCHANGED <<todo, outcome, left>>
  /\ UNCHANGED <<workspace, files, journal, session>>

-----------------------------------------------------------------------------
(* Reading, editing and saving a file. *)

Edited(l, text) ==
  IF l.op = "save" THEN text ELSE IF l.add THEN text \cup {l.name} ELSE text \ {l.name}

\* What the edit functions answer 400 to; the others only extend.
Rejects(l, text) == l.op \in {"edit", "insert"} /\ (l.name \in text <=> l.add)

LoadRaw(r) ==
  LET text == files[local[r].path] IN
  /\ At(r, "load_raw")
  /\ IF text = Broken \/ Rejects(local[r], text)
       THEN Answer(r, "refused")
       ELSE Set(r, [local[r] EXCEPT !.text = Edited(local[r], text)]) /\ Continue(r)
  /\ UNCHANGED <<workspace, files, journal, session>>

\* A removal looks in the types file, then in the model file.
Find(r) ==
  LET p == Head(local[r].pending) IN
  /\ At(r, "find")
  /\ IF files[p] # Broken /\ local[r].name \in files[p]
       THEN /\ Set(r, [local[r] EXCEPT !.path = p, !.pending = << >>,
                                       !.text = Edited(local[r], files[p])])
            /\ Continue(r)
       ELSE IF files[p] = Broken \/ Len(local[r].pending) = 1
              THEN Answer(r, "refused")
              ELSE /\ Set(r, [local[r] EXCEPT !.pending = Tail(@)])
                   /\ UNCHANGED <<todo, outcome, left>>
  /\ UNCHANGED <<workspace, files, journal, session>>

\* fs::write: all of the text, or an error that leaves the file as it was or cut short.
Write(r, p, text, rest, l) ==
  \/ /\ files' = [files EXCEPT ![p] = text]
     /\ IF rest = << >> THEN Answer(r, "ok") ELSE Goto(r, rest) /\ Set(r, l)
  \/ /\ WritesFail
     /\ files' \in {files, [files EXCEPT ![p] = Broken]}
     /\ Answer(r, "failed")

\* save_raw_path: never over a native manifest.
Save(r) ==
  LET p == local[r].path IN
  /\ At(r, "save")
  /\ IF p \in Native \X {"model"}
       THEN Answer(r, "refused") /\ UNCHANGED files
       ELSE Write(r, p, local[r].text, Tail(todo[r]), local[r])
  /\ UNCHANGED <<workspace, journal, session>>

\* Mutant: the journal is not trimmed.
RecordUntrimmed(r) ==
  /\ At(r, "record") /\ history = None
  /\ undo' = Append(undo, local[r].snap)
  /\ redo' = << >>
  /\ Answer(r, "ok")
  /\ UNCHANGED <<workspace, files, history, session>>

\* Mutant: an edit leaves what could be redone.
RecordKeepsRedo(r) ==
  LET pushed == Append(undo, local[r].snap) IN
  /\ At(r, "record") /\ history = None
  /\ undo' = IF Len(pushed) > HistoryCap THEN Tail(pushed) ELSE pushed
  /\ Answer(r, "ok")
  /\ UNCHANGED <<workspace, files, redo, history, session>>

\* record_edit
Record(r) ==
  LET pushed == Append(undo, local[r].snap) IN
  /\ At(r, "record") /\ history = None
  /\ undo' = IF Len(pushed) > HistoryCap THEN Tail(pushed) ELSE pushed
  /\ redo' = << >>
  /\ Answer(r, "ok")
  /\ UNCHANGED <<workspace, files, history, session>>

\* An import whose names are taken is refused before anything is written.
Collide(r) ==
  /\ At(r, "collide")
  /\ IF \E k \in Kinds : local[r].name \in local[r].loaded[k]
       THEN Answer(r, "refused")
       ELSE Continue(r) /\ UNCHANGED local
  /\ UNCHANGED <<workspace, files, journal, session>>

\* A build makes its operator the root, unless it is or the project is native.
SetRoot(r) ==
  /\ At(r, "set_root")
  /\ IF local[r].path[1] \in Native \/ local[r].name \in local[r].loaded["model"]
       THEN Answer(r, "ok")
       ELSE Continue(r) /\ UNCHANGED local
  /\ UNCHANGED <<workspace, files, journal, session>>

-----------------------------------------------------------------------------
(* Undo and redo: the journal's mutex is held from the pop to the push of  *)
(* the current texts, and released before anything is restored.            *)

Pop(r) ==
  LET from == IF local[r].op = "undo" THEN undo ELSE redo IN
  /\ At(r, "pop") /\ history = None
  /\ IF from = << >>
       THEN Answer(r, "refused") /\ UNCHANGED journal
       ELSE /\ history' = r
            /\ IF local[r].op = "undo"
                 THEN undo' = Front(undo) /\ UNCHANGED redo
                 ELSE redo' = Front(redo) /\ UNCHANGED undo
            /\ Set(r, [local[r] EXCEPT !.restored = Last(from)])
            /\ Continue(r)
  /\ UNCHANGED <<workspace, files, session>>

Push(r) ==
  /\ At(r, "push")
  /\ history' = None
  /\ IF local[r].op = "undo"
       THEN redo' = Append(redo, local[r].snap) /\ UNCHANGED undo
       ELSE undo' = Append(undo, local[r].snap) /\ UNCHANGED redo
  /\ Set(r, [local[r] EXCEPT !.pending = local[r].restored])
  /\ Continue(r)
  /\ UNCHANGED <<workspace, files, session>>

Restore(r) ==
  LET todoHere == local[r].pending
      rest == IF Len(todoHere) = 1 THEN Tail(todo[r]) ELSE todo[r] IN
  /\ At(r, "restore")
  /\ Write(r, todoHere[1][1], todoHere[1][2], rest, [local[r] EXCEPT !.pending = Tail(@)])
  /\ UNCHANGED <<workspace, journal, session>>

-----------------------------------------------------------------------------
(* switch_workspace: the path first, then the journal, whose mutex is held *)
(* while the session and the compiled C are dropped.  Open checks that the *)
(* document loads, New does not.                                           *)

Open(r) ==
  /\ At(r, "open")
  /\ \/ /\ \E k \in Kinds : files[<<local[r].doc, k>>] = Broken
        /\ Answer(r, "refused")
        /\ UNCHANGED workspace
     \/ /\ workspace' = local[r].doc
        /\ Continue(r) /\ UNCHANGED local
  /\ UNCHANGED <<files, journal, session>>

ClearJournal(r) ==
  /\ At(r, "clear_journal") /\ history = None
  /\ history' = r /\ undo' = << >> /\ redo' = << >>
  /\ Continue(r)
  /\ UNCHANGED <<workspace, files, session, local>>

ClearSim(r) ==
  /\ At(r, "clear_sim") /\ simLock = None
  /\ sim' = None
  /\ Continue(r)
  /\ UNCHANGED <<workspace, files, journal, simLock, cache, local>>

ClearCache(r) ==
  /\ At(r, "clear_cache")
  /\ cache' = None /\ history' = None
  /\ Answer(r, "ok")
  /\ UNCHANGED <<workspace, files, undo, redo, sim, simLock>>

-----------------------------------------------------------------------------
(* load(ctx): the model and what it includes, one file after the other. *)

LoadPath(r) ==
  /\ At(r, "load_path")
  /\ Set(r, [local[r] EXCEPT !.path = <<workspace, "model">>])
  /\ Continue(r)
  /\ UNCHANGED <<workspace, files, journal, session>>

LoadModel(r) ==
  /\ At(r, "load_model")
  /\ Set(r, [local[r] EXCEPT !.loaded = [model |-> files[local[r].path]]])
  /\ Continue(r)
  /\ UNCHANGED <<workspace, files, journal, session>>

LoadTypes(r) ==
  LET texts == [model |-> local[r].loaded.model,
                types |-> files[<<local[r].path[1], "types">>]] IN
  /\ At(r, "load_types")
  /\ IF Readable(texts)
       THEN /\ Set(r, [local[r] EXCEPT !.loaded = texts])
            /\ Continue(r) /\ UNCHANGED simLock
       ELSE /\ Answer(r, "refused")
            /\ simLock' = IF simLock = r THEN None ELSE simLock
  /\ UNCHANGED <<workspace, files, journal, sim, cache>>

-----------------------------------------------------------------------------
(* The simulation dock. *)

SimFree == simLock = None

SimUnchanged == UNCHANGED <<workspace, files, journal, cache>>

\* A session starts on what was loaded, if it type-checks.
StoreSession(r) ==
  /\ At(r, "store")
  /\ \/ Answer(r, "refused") /\ UNCHANGED sim
     \/ /\ SimFree
        /\ sim' = [sig |-> Semantics(local[r].loaded), root |-> local[r].root, c |-> None]
        /\ Answer(r, "ok")
  /\ SimUnchanged /\ UNCHANGED simLock

\* A step holds the session's mutex from here to Run.
LockSim(r) ==
  /\ At(r, "lock_sim") /\ SimFree
  /\ IF sim = None
       THEN Answer(r, "refused") /\ UNCHANGED simLock
       ELSE simLock' = r /\ Continue(r) /\ UNCHANGED local
  /\ SimUnchanged /\ UNCHANGED sim

\* Mutant: the stale session is dropped through the mutex the step already holds.
RunRelocks(r) ==
  /\ At(r, "run")
  /\ simLock' = None
  /\ IF Semantics(local[r].loaded) # sim.sig
       THEN SimFree /\ sim' = None /\ Answer(r, "refused")
       ELSE sim' \in {sim, [sim EXCEPT !.c = None]} /\ Answer(r, "ok")
  /\ SimUnchanged

\* The cycles run, perhaps losing the C; a model that has changed ends the session.
Run(r) ==
  /\ At(r, "run")
  /\ simLock' = None
  /\ IF Semantics(local[r].loaded) # sim.sig
       THEN sim' = None /\ Answer(r, "refused")
       ELSE sim' \in {sim, [sim EXCEPT !.c = None]} /\ Answer(r, "ok")
  /\ SimUnchanged

StopSim(r) ==
  /\ At(r, "stop") /\ SimFree
  /\ sim' = None
  /\ Answer(r, "ok")
  /\ SimUnchanged /\ UNCHANGED simLock

DetachC(r) ==
  /\ At(r, "detach") /\ SimFree
  /\ IF sim = None
       THEN Answer(r, "refused") /\ UNCHANGED sim
       ELSE sim' = [sim EXCEPT !.c = None] /\ Answer(r, "ok")
  /\ SimUnchanged /\ UNCHANGED simLock

\* Putting the C in the loop: which session, under its mutex, and no longer.
Peek(r) ==
  /\ At(r, "peek") /\ SimFree
  /\ IF sim = None
       THEN Answer(r, "refused")
       ELSE /\ Set(r, [local[r] EXCEPT !.sig = sim.sig, !.root = sim.root])
            /\ Continue(r)
  /\ SimUnchanged /\ UNCHANGED <<sim, simLock>>

\* The session is dropped, whichever it is by now, if the model has changed.
CheckFresh(r) ==
  /\ At(r, "fresh")
  /\ IF Semantics(local[r].loaded) = local[r].sig
       THEN Continue(r) /\ UNCHANGED <<sim, local>>
       ELSE SimFree /\ sim' = None /\ Answer(r, "refused")
  /\ SimUnchanged /\ UNCHANGED simLock

\* Mutant: a build of the same model, whatever its root.
IsForSignature(thing, r) == thing # None /\ thing.sig = local[r].sig

IsFor(thing, r) == thing # None /\ thing.sig = local[r].sig /\ thing.root = local[r].root

LookUp(r) ==
  /\ At(r, "lookup")
  /\ \/ Answer(r, "refused")                \* no C compiler
     \/ /\ IsFor(cache, r)
        /\ Set(r, [local[r] EXCEPT !.build = cache.exe])
        /\ Goto(r, <<"attach">>)
     \/ /\ ~IsFor(cache, r)
        /\ Continue(r) /\ UNCHANGED local
  /\ UNCHANGED <<workspace, files, journal, session>>

\* compile_model, outside of every mutex, then the cache.
Compile(r) ==
  LET exe == [sig |-> Semantics(local[r].loaded), root |-> local[r].root] IN
  /\ At(r, "compile")
  /\ \/ Answer(r, "refused") /\ UNCHANGED cache
     \/ /\ cache' = [sig |-> local[r].sig, root |-> local[r].root, exe |-> exe]
        /\ Set(r, [local[r] EXCEPT !.build = exe])
        /\ Continue(r)
  /\ UNCHANGED <<workspace, files, journal, sim, simLock>>

\* Mutant: the C attached is the cache's entry rather than its program.
AttachCEntry(r) ==
  /\ At(r, "attach") /\ SimFree
  /\ IF ~IsFor(sim, r)
       THEN Answer(r, "refused") /\ UNCHANGED sim
       ELSE \/ sim' = [sim EXCEPT !.c = cache] /\ Answer(r, "ok")
            \/ sim' \in {sim, [sim EXCEPT !.c = None]} /\ Answer(r, "refused")
  /\ SimUnchanged /\ UNCHANGED simLock

\* Refused with a full history; or the program is lost while it catches up.
AttachC(r) ==
  /\ At(r, "attach") /\ SimFree
  /\ IF ~IsFor(sim, r)
       THEN Answer(r, "refused") /\ UNCHANGED sim
       ELSE \/ sim' = [sim EXCEPT !.c = local[r].build] /\ Answer(r, "ok")
            \/ sim' \in {sim, [sim EXCEPT !.c = None]} /\ Answer(r, "refused")
  /\ SimUnchanged /\ UNCHANGED simLock
-----------------------------------------------------------------------------

Handle(r) ==
  \/ AddPath(r) \/ ResolvePath(r) \/ ReadForSnapshot(r)
  \/ LoadRaw(r) \/ Find(r) \/ Save(r) \/ Record(r) \/ Collide(r) \/ SetRoot(r)
  \/ Pop(r) \/ Push(r) \/ Restore(r)
  \/ Open(r) \/ ClearJournal(r) \/ ClearSim(r) \/ ClearCache(r)
  \/ LoadPath(r) \/ LoadModel(r) \/ LoadTypes(r)
  \/ StoreSession(r) \/ LockSim(r) \/ Run(r) \/ StopSim(r) \/ DetachC(r)
  \/ Peek(r) \/ CheckFresh(r) \/ LookUp(r) \/ Compile(r) \/ AttachC(r)

Next ==
  \/ \E r \in Editors : EditRequest(r)
  \/ \E r \in Clients : SimRequest(r)
  \/ \E r \in Requests : Handle(r)

Fairness == \A r \in Requests : WF_vars(Handle(r))

Spec == Init /\ [][Next]_vars /\ Fairness

-----------------------------------------------------------------------------
(* Properties *)

Signatures == [Kinds -> SUBSET Names]
Builds == [sig : Signatures, root : Roots]
Texts(snapshot) == \A k \in DOMAIN snapshot : snapshot[k] \in Paths \X Text

TypeOK ==
  /\ workspace \in Documents
  /\ files \in [Paths -> Text]
  /\ \A k \in DOMAIN undo : Texts(undo[k])
  /\ \A k \in DOMAIN redo : Texts(redo[k])
  /\ history \in Requests \cup {None} /\ simLock \in Requests \cup {None}
  /\ sim # None => sim.sig \in Signatures /\ sim.root \in Roots /\ sim.c \in Builds \cup {None}
  /\ cache # None => cache.sig \in Signatures /\ cache.root \in Roots /\ cache.exe \in Builds
  /\ \A r \in Requests : outcome[r] \in {"none", "ok", "refused", "failed"}

\* The C in the loop was compiled from the model and the root the session runs,
\* whatever was edited, restarted or compiled meanwhile: sim_c_response compiles
\* without the session's mutex and may find a build of an earlier model cached.
AttachedBuildMatches ==
  sim # None /\ sim.c # None => sim.c = [sig |-> sim.sig, root |-> sim.root]

\* Undo and redo together stay within the cap although only record_edit trims:
\* a redo pushes on the undo stack without looking at its length.
JournalBounded == Len(undo) + Len(redo) <= HistoryCap

\* Every request is answered: no handler waits for a mutex that is never
\* released (switch_workspace holds the journal's while it takes the session's).
RequestsAnswered == \A r \in Requests : todo[r] # << >> ~> todo[r] = << >>

\* With one editing request at a time, and any number of simulation requests
\* beside it, the journal and the files are the editor of module Editor.  A
\* request in progress shows the contents of its snapshot until it has both
\* written and recorded (or recorded and restored).
Editing == CHOOSE e \in Editors : TRUE

InSnapshot(p) == \E k \in DOMAIN local[Editing].snap : local[Editing].snap[k][1] = p

TextIn(snapshot, k) == snapshot[CHOOSE j \in DOMAIN snapshot : snapshot[j][1][2] = k][2]

Shown == [d \in Documents |-> [k \in Kinds |->
  IF InSnapshot(<<d, k>>) THEN TextIn(local[Editing].snap, k) ELSE files[<<d, k>>]]]

AsContents(stack) == [j \in DOMAIN stack |-> [k \in Kinds |-> TextIn(stack[j], k)]]

Popped == local[Editing].restored # << >>
Pushed == At(Editing, "restore")
ShownPast ==
  CASE At(Editing, "clear_journal") -> << >>
    [] Popped /\ local[Editing].op = "undo" -> Append(undo, local[Editing].restored)
    [] Pushed /\ local[Editing].op = "redo" -> Front(undo)
    [] OTHER -> undo
ShownFuture ==
  CASE At(Editing, "clear_journal") -> << >>
    [] Popped /\ local[Editing].op = "redo" -> Append(redo, local[Editing].restored)
    [] Pushed /\ local[Editing].op = "undo" -> Front(redo)
    [] OTHER -> redo

Abstract == INSTANCE Editor WITH
  Contents <- [Kinds -> Text], Cap <- HistoryCap,
  doc <- workspace, present <- Shown,
  past <- AsContents(ShownPast), future <- AsContents(ShownFuture),
  status <- outcome[Editing]

EditorBehaviour == Abstract!Spec

\* An explicit Save only confirms what the edits have already saved.
SaveConfirms ==
  [][\A r \in Editors : At(r, "save") /\ local[r].op = "save" /\ todo'[r] = << >>
       => files' = files]_vars
=============================================================================
