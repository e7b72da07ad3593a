-------------------------- MODULE ProjectDocuments --------------------------
(* The documents of a project and the three places that hold them:        *)
(*   store  the workspace state, behind WorkspaceStateStore.mutate;       *)
(*   mem    self._state, the copy that all request threads share;         *)
(*   disk   the files of each project: the graph document and, written    *)
(*          last, the manifest with the revision of the graph.            *)
(* compilation_workbench_service.py: save_graph_document, save_project,   *)
(* save_project_as, update_graph_entrypoint_runtime_defaults,             *)
(* open_project, close_project and the writer of the storage layout. A    *)
(* request runs in a thread of the API server, one statement after the    *)
(* other; only mutate is atomic.                                          *)
(*                                                                        *)
(* A graph is the number of the edit that produced its nodes and edges    *)
(* and the runtime defaults of its start node. The other files of the     *)
(* layout (settings, overrides, resources) are written between the two    *)
(* and are left out, as are the guards of packages and debug sessions.    *)
EXTENDS Integers, FiniteSets

CONSTANTS
    Editors,      \* the clients, each with at most one request on its way
    Projects,     \* the project files
    NoProject,    \* project_file_path = None
    Torn,         \* what a write that a crash cut short leaves in a file
    Sessions,     \* the ways the clients use the server: what each asks for
                  \* (may) and, as a bound, the graphs they draw (edits)
    MaxReplaced,  \* bound: times the workspace is replaced by another
    MaxRestarts   \* bound: crashes of the server

ASSUME DocumentsAssumption ==
    /\ NoProject \notin Projects
    /\ MaxRestarts \in Nat /\ MaxReplaced \in Nat
    /\ \A s \in Sessions : s.edits \in Nat /\ DOMAIN s.may = Editors

VARIABLES
    store, mem, disk,
    usage,      \* the way the clients use the server
    editor,     \* what each client works on and where its request is
    edits,      \* the number of graphs drawn so far
    epoch,      \* history: how often the workspace was replaced by another
    overlapped, \* history: two requests ran at once since the last whole save
    restarts

docVars == <<store, mem, disk, usage, editor, edits, epoch, overlapped, restarts>>

Graph == [edit : Nat, defaults : BOOLEAN]
Workspace == [path : Projects \cup {NoProject}, graph : Graph, rev : Nat, dirty : BOOLEAN]
EmptyGraph == [edit |-> 0, defaults |-> FALSE]
InitialWorkspace == [path |-> NoProject, graph |-> EmptyGraph, rev |-> 0, dirty |-> FALSE]
EmptyFiles == [graph |-> Torn, rev |-> Torn]

\* Where a request is: between which two statements.
Places == {"idle", "persist", "snapshot", "path", "build", "graph", "manifest", "clean",
           "assign", "read_graph", "replace", "reset"}
Asks == {"save", "save_project", "save_as", "defaults", "open", "close"}

EditorStates ==
    [at : Places, ask : Asks,
     next : Places,                 \* the place after "assign"
     strict : BOOLEAN,              \* the revision the client names must match
     draft : Nat,                   \* the edit the request carries
     path : Projects \cup {NoProject},
     copy : Workspace,              \* what the thread has read or built
     alone : BOOLEAN,               \* history: no other request ran since it entered
     seen : [edit : Nat, rev : Nat, epoch : Nat]]  \* the graph the client loaded

IdleEditor ==
    [at |-> "idle", ask |-> "save", next |-> "idle", strict |-> FALSE, draft |-> 0,
     path |-> NoProject, copy |-> InitialWorkspace, alone |-> FALSE,
     seen |-> [edit |-> 0, rev |-> 0, epoch |-> 0]]

Resting(e) == [IdleEditor EXCEPT !.seen = e.seen]

DocumentsInit ==
    /\ store = InitialWorkspace
    /\ mem = InitialWorkspace
    /\ usage \in Sessions
    /\ disk = [p \in Projects |-> EmptyFiles]
    /\ editor = [c \in Editors |-> IdleEditor]
    /\ edits = 0 /\ epoch = 0 /\ overlapped = FALSE /\ restarts = 0

At(c, place) == editor[c].at = place
Busy(c) == ~At(c, "idle")

\* The thread of c goes on at place, with the fields of EditorStates in upd.
Continue(c, e) == editor' = [editor EXCEPT ![c] = e]

\* The answer reaches the client.
Answered(c) == Continue(c, Resting(editor[c]))

\* self._state = self._state_store.mutate(...): the store changes at once, the
\* shared copy in the next statement of the thread.
Mutate(c, state, next, e) ==
    /\ store' = state
    /\ Continue(c, [e EXCEPT !.at = "assign", !.next = next, !.copy = state])

Assign(c) ==
    /\ At(c, "assign")
    /\ mem' = editor[c].copy
    /\ IF editor[c].next = "idle"
       THEN Answered(c)
       ELSE Continue(c, [editor[c] EXCEPT !.at = editor[c].next, !.copy = InitialWorkspace])
    /\ UNCHANGED <<store, disk, edits, epoch, overlapped, restarts>>

(* ---------------------------------------------------------------- *)
(* A client.                                                        *)

\* GET of the graph document: the client sees the graph and its revision.
LoadGraph(c) ==
    /\ ~Busy(c) /\ "save" \in usage.may[c]
    /\ mem' = store
    /\ editor' = [editor EXCEPT ![c].seen =
                     [edit |-> store.graph.edit, rev |-> store.rev, epoch |-> epoch]]
    /\ UNCHANGED <<store, disk, edits, epoch, overlapped, restarts>>

\* A request enters with _refresh_state_from_store.
Enter(c, e) ==
    /\ ~Busy(c)
    /\ e.ask \in usage.may[c]
    /\ mem' = store
    /\ LET alone == \A d \in Editors : ~Busy(d)
       IN  /\ overlapped' = (overlapped \/ ~alone)
           /\ editor' = [d \in Editors |-> IF d = c THEN [e EXCEPT !.alone = alone]
                                           ELSE [editor[d] EXCEPT !.alone = FALSE]]
    /\ UNCHANGED <<store, disk, epoch, restarts>>

\* save_graph_document, with the revision of the graph the client loaded, or
\* under the policy prefer_current_graph.
AskSave(c, strict) ==
    /\ edits < usage.edits
    /\ edits' = edits + 1
    /\ Enter(c, [editor[c] EXCEPT !.at = "persist", !.ask = "save",
                                  !.strict = strict, !.draft = edits + 1])

\* save_project: its path is read now and used after everything else.
AskSaveProject(c) ==
    /\ store.path # NoProject
    /\ Enter(c, [editor[c] EXCEPT !.at = "build", !.ask = "save_project", !.path = store.path])
    /\ UNCHANGED edits

AskSaveAs(c, p) ==
    /\ Enter(c, [editor[c] EXCEPT !.at = "build", !.ask = "save_as", !.path = p])
    /\ UNCHANGED edits

AskDefaults(c) ==
    /\ Enter(c, [editor[c] EXCEPT !.at = "persist", !.ask = "defaults"])
    /\ UNCHANGED edits

\* open_project reads the manifest, then the graph document. A file that is
\* missing or cut short refuses the request, which then has changed nothing.
AskOpen(c, p) ==
    /\ disk[p].rev # Torn
    /\ Enter(c, [editor[c] EXCEPT !.at = "read_graph", !.ask = "open", !.path = p,
                                  !.copy.rev = disk[p].rev])
    /\ UNCHANGED edits

\* close_project: the check for unsaved changes, unless they are to go.
AskClose(c, discard) ==
    /\ ~store.dirty \/ discard
    /\ Enter(c, [editor[c] EXCEPT !.at = "reset", !.ask = "close"])
    /\ UNCHANGED edits

(* ---------------------------------------------------------------- *)
(* The threads.                                                     *)

\* BUG PATTERN: the revision is compared before the critical section.
FaultyAccepts(e, state) == ~e.strict \/ e.seen.rev = mem.rev

\* The revision check inside mutate.
Accepts(e, state) == ~e.strict \/ e.seen.rev = state.rev

\* _persist_graph_document
PersistGraph(c) ==
    LET e == editor[c]
        graph == [store.graph EXCEPT !.edit = e.draft, !.defaults = FALSE]
        state == [store EXCEPT !.graph = graph, !.rev = store.rev + 1, !.dirty = TRUE]
    IN  /\ At(c, "persist") /\ e.ask = "save"
        /\ IF Accepts(e, store)
           THEN Mutate(c, state, "snapshot",
                       [e EXCEPT !.draft = 0,
                                 !.seen = [edit |-> e.draft, rev |-> state.rev, epoch |-> epoch]])
           ELSE Answered(c) /\ UNCHANGED store
        /\ UNCHANGED <<mem, disk, edits, epoch, overlapped, restarts>>

\* _refresh_workspace_graph_validation_snapshot: refreshes and mutates again.
RefreshSnapshot(c) ==
    /\ At(c, "snapshot")
    /\ Mutate(c, store, "path", editor[c])
    /\ UNCHANGED <<mem, disk, edits, epoch, overlapped, restarts>>

\* The project to write, from the shared copy: none ends the request.
ReadPath(c) ==
    /\ At(c, "path")
    /\ IF mem.path = NoProject
       THEN Answered(c)
       ELSE Continue(c, [editor[c] EXCEPT !.at = "build", !.path = mem.path])
    /\ UNCHANGED <<store, mem, disk, edits, epoch, overlapped, restarts>>

\* update_graph_entrypoint_runtime_defaults writes into the start node of the
\* graph and leaves its revision as it is.
SetDefaults(c) ==
    /\ At(c, "persist") /\ editor[c].ask = "defaults"
    /\ Mutate(c, [store EXCEPT !.graph.defaults = TRUE, !.dirty = TRUE], "path", editor[c])
    /\ UNCHANGED <<mem, disk, edits, epoch, overlapped, restarts>>

\* BUG PATTERN: the workspace is marked clean before its files are written.
FaultyBuildLayout(c) ==
    /\ At(c, "build")
    /\ Continue(c, [editor[c] EXCEPT !.at = "graph", !.copy = mem])
    /\ store' = [store EXCEPT !.dirty = store.dirty /\ editor[c].ask = "save"]
    /\ UNCHANGED <<mem, disk, edits, epoch, overlapped, restarts>>

\* _build_project_storage_layout, from the shared copy.
BuildLayout(c) ==
    /\ At(c, "build")
    /\ Continue(c, [editor[c] EXCEPT !.at = "graph", !.copy = mem])
    /\ UNCHANGED <<store, mem, disk, edits, epoch, overlapped, restarts>>

WriteGraphFile(c) ==
    /\ At(c, "graph")
    /\ disk' = [disk EXCEPT ![editor[c].path].graph = editor[c].copy.graph]
    /\ Continue(c, [editor[c] EXCEPT !.at = "manifest"])
    /\ UNCHANGED <<store, mem, edits, epoch, overlapped, restarts>>

\* The manifest is last; a save of the graph alone ends here and stays dirty.
WriteManifest(c) ==
    LET e == editor[c]
    IN  /\ At(c, "manifest")
        /\ disk' = [disk EXCEPT ![e.path].rev = e.copy.rev]
        /\ IF e.ask = "save"
           THEN Answered(c)
           ELSE Continue(c, [e EXCEPT !.at = "clean", !.copy = InitialWorkspace])
        /\ UNCHANGED <<store, mem, edits, epoch, overlapped, restarts>>

\* A whole save that had the server for itself leaves the files as the store is.
MarkClean(c) ==
    /\ At(c, "clean")
    /\ Mutate(c, [store EXCEPT !.path = editor[c].path, !.dirty = FALSE], "idle",
              [editor[c] EXCEPT !.path = NoProject])
    /\ overlapped' = (overlapped /\ ~editor[c].alone)
    /\ UNCHANGED <<mem, disk, edits, epoch, restarts>>

\* The rest of open_project: the graph file, and one mutate that replaces the
\* workspace. A graph file that is cut short refuses the request.
ReadGraphFile(c) ==
    LET e == editor[c]
    IN  /\ At(c, "read_graph")
        /\ IF disk[e.path].graph = Torn
           THEN Answered(c)
           ELSE Continue(c, [e EXCEPT !.at = "replace", !.copy.path = e.path,
                                      !.copy.graph = disk[e.path].graph])
        /\ UNCHANGED <<store, mem, disk, edits, epoch, overlapped, restarts>>

ReplaceWorkspace(c) ==
    /\ At(c, "replace") /\ epoch < MaxReplaced
    /\ epoch' = epoch + 1
    /\ Mutate(c, editor[c].copy, "idle", editor[c])
    /\ UNCHANGED <<mem, disk, edits, overlapped, restarts>>

ResetWorkspace(c) ==
    /\ At(c, "reset") /\ epoch < MaxReplaced
    /\ epoch' = epoch + 1
    /\ Mutate(c, InitialWorkspace, "idle", editor[c])
    /\ UNCHANGED <<mem, disk, edits, overlapped, restarts>>

\* The server stops in the middle of a request (between two it loses nothing)
\* and starts again from the store. A file that was being written may be cut
\* short; no request is answered.
Crash ==
    /\ restarts < MaxRestarts /\ \E c \in Editors : Busy(c)
    /\ restarts' = restarts + 1
    /\ \E cut \in SUBSET {c \in Editors : editor[c].at \in {"graph", "manifest"}} :
          disk' = [p \in Projects |->
                     [graph |-> IF \E c \in cut : At(c, "graph") /\ editor[c].path = p
                                THEN Torn ELSE disk[p].graph,
                      rev |-> IF \E c \in cut : At(c, "manifest") /\ editor[c].path = p
                              THEN Torn ELSE disk[p].rev]]
    /\ mem' = store
    /\ editor' = [c \in Editors |-> Resting(editor[c])]
    /\ UNCHANGED <<store, edits, epoch, overlapped>>

RequestThread(c) ==
    \/ Assign(c) \/ PersistGraph(c) \/ RefreshSnapshot(c) \/ ReadPath(c) \/ SetDefaults(c)
    \/ BuildLayout(c) \/ WriteGraphFile(c) \/ WriteManifest(c) \/ MarkClean(c)
    \/ ReadGraphFile(c) \/ ReplaceWorkspace(c) \/ ResetWorkspace(c)

Client(c) ==
    \/ LoadGraph(c) \/ AskSaveProject(c) \/ AskDefaults(c)
    \/ \E strict \in BOOLEAN : AskSave(c, strict)
    \/ \E discard \in BOOLEAN : AskClose(c, discard)
    \/ \E p \in Projects : AskSaveAs(c, p) \/ AskOpen(c, p)

DocumentsNext ==
    /\ Crash \/ \E c \in Editors : Client(c) \/ RequestThread(c)
    /\ UNCHANGED usage

DocumentsSpec == DocumentsInit /\ [][DocumentsNext]_docVars

(* ---------------------------------------------------------------- *)
(* Properties.                                                      *)

DocumentsTypeOK ==
    /\ usage \in Sessions
    /\ store \in Workspace /\ mem \in Workspace
    /\ disk \in [Projects -> [graph : Graph \cup {Torn}, rev : Nat \cup {Torn}]]
    /\ editor \in [Editors -> EditorStates]
    /\ edits \in Nat /\ epoch \in Nat /\ restarts \in Nat /\ overlapped \in BOOLEAN

\* A client that saves against the revision it loaded never overwrites nodes
\* and edges it has not seen, whatever other clients save meanwhile, as long as
\* the workspace was not replaced by another one in between (revisions do not
\* name the project): _persist_graph_document compares inside mutate.
NoLostEdit ==
    [][\A c \in Editors :
         (/\ At(c, "persist") /\ editor[c].ask = "save" /\ editor[c].strict
          /\ editor'[c].at = "assign"
          /\ editor[c].seen.epoch = epoch)
         => editor[c].seen.edit = store.graph.edit]_docVars

\* A workspace that calls itself saved has its files written: they hold its
\* graph and revision, or the piece of them that a crash left. Requests that
\* overlapped are excepted until a whole save runs alone: the layout is built
\* from the copy all threads share, and written without a lock.
CleanMeansSaved ==
    (~overlapped /\ ~store.dirty /\ store.path # NoProject)
    => /\ disk[store.path].graph \in {store.graph, Torn}
       /\ disk[store.path].rev \in {store.rev, Torn}
=============================================================================
