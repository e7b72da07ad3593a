--------------------------- MODULE ProjectPackages ---------------------------
(* A project is packed into one file; the file is loaded, what it leaves   *)
(* open is bound, and its flow is run. compilation_workbench_service.py:   *)
(* run_project_package_preflight, build_project_package,                   *)
(* load_project_package, unload_project_package,                           *)
(* bind_loaded_package_external_resource, and what _prepare_execution and  *)
(* a run make of a loaded package. One service packs and loads: one store, *)
(* and one copy of it that its request threads share.                      *)
(*                                                                         *)
(* Of a project its flow counts (the components it uses, the external      *)
(* names that have a value) and its settings (the names it needs, the      *)
(* files it embeds, the Python bundle). Checksums keep the file from       *)
(* damage: here it is whole, or a part of it is written.                   *)
EXTENDS Integers, Sequences, FiniteSets

CONSTANTS
    Packers,      \* the clients
    Keys,         \* components
    PackedProjects,     \* [doc, registry, files]: a project and what is stored with it
    SessionDirs,       \* the directories that packages are unpacked into
    MaxPackageJobs,      \* bound: the requests
    NoDir, NoPack,
    TornPack   \* a package of which a part is written

ASSUME PackagesAssumption == NoDir \notin SessionDirs /\ MaxPackageJobs \in Nat

VARIABLES
    pkStore, pkMem,   \* the workspace state and self._state
    pkSaved,          \* the project file with the files beside it
    pkFile,           \* the package file
    pkPlaces,         \* what is in the session directories, NoPack in an unused one
    pkJob,            \* the request of each client
    pkRun,            \* the session that was started last
    pkHost,           \* [platform, allowed]: what the machine has and its user allows
    pkTurns

pkVars == <<pkStore, pkMem, pkSaved, pkFile, pkPlaces, pkJob, pkRun, pkHost, pkTurns>>

(* ---------------------------------------------------------------- *)
(* Values.                                                          *)

EmptyDoc ==
    [uses |-> {}, bound |-> {}, needs |-> {}, required |-> {}, assets |-> {}, python |-> "off"]

ASSUME ProjectsAssumption ==
    \A p \in PackedProjects :
        DOMAIN p = {"doc", "registry", "files"} /\ DOMAIN p.doc = DOMAIN EmptyDoc

\* _build_initial_workspace_state, and what the request puts into it. It knows no
\* session. mixed: history, it does not hold one package as it was packed.
WorkspaceState(source, doc, registry, place) ==
    [source |-> source, doc |-> doc, registry |-> registry, place |-> place,
     run |-> FALSE, mixed |-> FALSE]
BlankState == WorkspaceState("blank", EmptyDoc, {}, NoDir)
OpenedState(p) == WorkspaceState("project", p.doc, p.registry, NoDir)

\* moved: history, the project changed while it was packed.
Packed(p, registry) ==
    [doc |-> p.doc, registry |-> registry, assets |-> p.doc.assets \cap p.files, moved |-> FALSE]
IsPackage(x) == x \notin {NoPack, TornPack}

\* disturbed: history, the workspace was exchanged beside the start or the run, or
\* the runtime defaults were changed beside the start. revoked: history, something
\* was forbidden since the start had looked at what is allowed.
NoRun == [at |-> "none", source |-> "blank", doc |-> EmptyDoc, place |-> NoDir,
          assets |-> {}, disturbed |-> FALSE, revoked |-> FALSE]

AtRest ==
    [todo |-> <<>>, ask |-> "none", held |-> NoPack, place |-> NoDir, doc |-> EmptyDoc,
     copy |-> <<>>, moved |-> FALSE, revoked |-> FALSE]

Serving(c) == pkJob[c].todo # <<>>
AtJob(c, step) == Serving(c) /\ Head(pkJob[c].todo) = step
After(c) == Tail(pkJob[c].todo)

Resumed(j) == IF j.todo = <<>> THEN AtRest ELSE j
GoOnWith(c, j) == pkJob' = [pkJob EXCEPT ![c] = Resumed(j)]
Advance(c) == GoOnWith(c, [pkJob[c] EXCEPT !.todo = After(c)])
Refuse(c) == GoOnWith(c, AtRest)

\* self._state = self._state_store.mutate(...): the store now, the copy in a step;
\* another thread may have changed the store by then.
MutateStore(c, state, j) ==
    /\ pkStore' = state
    /\ GoOnWith(c, [j EXCEPT !.todo = <<"assign">> \o @, !.copy = <<state>>])
    /\ UNCHANGED pkMem

AssignState(c) ==
    /\ AtJob(c, "assign")
    /\ LET state == pkJob[c].copy[1]
           stale == state # pkStore
       IN  /\ pkMem' = state
           /\ pkJob' = [d \in Packers |->
                 IF d = c THEN Resumed([pkJob[c] EXCEPT !.todo = After(c), !.copy = <<>>])
                 ELSE [pkJob[d] EXCEPT !.moved = @ \/ (Serving(d) /\ stale)]]
    /\ UNCHANGED <<pkStore, pkSaved, pkFile, pkPlaces, pkRun, pkHost, pkTurns>>

(* ---------------------------------------------------------------- *)
(* The requests. Those of the second kind only disturb.             *)

Job(ask) ==
    CASE ask = "build" -> <<"preflight", "collect", "truncate", "write">>
      [] ask = "load" -> <<"inspect", "unpack", "enter", "refresh">>
      [] ask = "unload" -> <<"remove", "reset">>
      [] ask = "bind" -> <<"look", "value">>
      [] ask = "start" -> <<"requirements", "workspace", "resolve", "prepare">>
      [] ask = "run" -> <<"find", "context">>
      [] ask = "open" -> <<"read", "open">>
      [] ask = "edit" -> <<"writable", "change">>
      [] ask = "save" -> <<"writable", "save">>
      [] ask = "defaults" -> <<"default", "file", "save">>
      [] ask = "register" -> <<"register">>
      [] ask = "allow" -> <<"allow">>
      [] ask = "forbid" -> <<"forbid">>
PackageAsks == {"build", "load", "unload", "bind", "start", "run", "open", "edit", "save",
                "defaults", "register", "allow", "forbid"}

\* These begin with _refresh_state_from_store.
Refreshing == {"build", "unload", "bind", "run", "open", "edit", "save", "defaults",
               "register"}

\* The requests that exchange the workspace, and those that disturb another one:
\* a start rests on the runtime defaults too.
Exchanging == {"load", "unload", "open"}
Disturbs(ask, other) == ask \in Exchanging \/ (ask = "defaults" /\ other = "start")
Disturbed(c, ask) == \E d \in Packers \ {c} : Serving(d) /\ Disturbs(pkJob[d].ask, ask)

EnterJob(c) ==
    /\ ~Serving(c) /\ pkTurns < MaxPackageJobs
    /\ pkTurns' = pkTurns + 1
    /\ \E ask \in PackageAsks :
          LET exchanges == ask \in Exchanging
              beside(d) == Serving(d) /\ Disturbs(ask, pkJob[d].ask)
          IN  /\ pkMem' = IF ask \in Refreshing THEN pkStore ELSE pkMem
              /\ pkJob' = [d \in Packers |->
                    IF d = c THEN [AtRest EXCEPT !.todo = Job(ask), !.ask = ask,
                                     !.moved = Disturbed(c, ask) \/ pkMem' # pkStore]
                    ELSE [pkJob[d] EXCEPT !.moved = @ \/ beside(d)]]
              /\ pkRun' = [pkRun EXCEPT !.disturbed = @ \/ (pkRun.at # "none" /\ exchanges)]
    /\ UNCHANGED <<pkStore, pkSaved, pkFile, pkPlaces, pkHost>>

(* ---------------------------------------------------------------- *)
(* Packing.                                                         *)

\* BUG PATTERN: components of the flow that are gone do not matter.
FaultyCanBePacked(p, registry) == p.doc.required \subseteq p.doc.bound

\* run_project_package_preflight: the saved flow against the components at hand,
\* and the required names that have no value. The client keeps what it saw.
CanBePacked(p, registry) == p.doc.uses \subseteq registry /\ p.doc.required \subseteq p.doc.bound
CheckPackage(c) ==
    /\ AtJob(c, "preflight")
    /\ IF pkMem.source # "project" THEN Refuse(c)
       ELSE IF ~CanBePacked(pkSaved, pkMem.registry) THEN Refuse(c)
       ELSE GoOnWith(c, [pkJob[c] EXCEPT !.todo = After(c),
                                         !.held = Packed(pkSaved, pkMem.registry)])
    /\ UNCHANGED <<pkStore, pkMem, pkSaved, pkFile, pkPlaces, pkRun, pkHost, pkTurns>>

\* export_runtime_bundle: an environment must be bundled, and a whole one may
\* turn out not to be ready.
Bundled(python) ==
    CASE python = "off" -> {TRUE} [] python = "unbundled" -> {FALSE} [] OTHER -> BOOLEAN

\* _build_wcrun_package_contents reads the project once more; the components at
\* hand go with it, and those embedded files that exist.
CollectContents(c) ==
    /\ AtJob(c, "collect")
    /\ LET package == Packed(pkSaved, pkMem.registry)
       IN  \E bundled \in Bundled(pkSaved.doc.python) :
             IF pkMem.source = "project" /\ bundled
             THEN GoOnWith(c, [pkJob[c] EXCEPT !.todo = After(c),
                                  !.held = [package EXCEPT !.moved = package # pkJob[c].held]])
             ELSE Refuse(c)
    /\ UNCHANGED <<pkStore, pkMem, pkSaved, pkFile, pkPlaces, pkRun, pkHost, pkTurns>>

\* _write_zip_archive writes in place.
TruncatePackage(c) ==
    /\ AtJob(c, "truncate")
    /\ pkFile' = TornPack
    /\ Advance(c)
    /\ UNCHANGED <<pkStore, pkMem, pkSaved, pkPlaces, pkRun, pkHost, pkTurns>>

WritePackage(c) ==
    /\ AtJob(c, "write")
    /\ pkFile' = pkJob[c].held
    /\ GoOnWith(c, [pkJob[c] EXCEPT !.todo = After(c)])
    /\ UNCHANGED <<pkStore, pkMem, pkSaved, pkPlaces, pkRun, pkHost, pkTurns>>

(* ---------------------------------------------------------------- *)
(* Loading and unloading.                                           *)

\* _read_wcrun_package_document: the entries, checksums and manifest.
InspectPackage(c) ==
    /\ AtJob(c, "inspect")
    /\ IF IsPackage(pkFile)
       THEN GoOnWith(c, [pkJob[c] EXCEPT !.todo = After(c), !.held = pkFile])
       ELSE Refuse(c)
    /\ UNCHANGED <<pkStore, pkMem, pkSaved, pkFile, pkPlaces, pkRun, pkHost, pkTurns>>

\* _materialize_wcrun_session_dir opens the file again; a directory that could
\* not be filled stays. The Python bundle is moved inside the directory.
UnpackPackage(c) ==
    /\ AtJob(c, "unpack")
    /\ \E place \in SessionDirs :
          /\ pkPlaces[place] = NoPack
          /\ pkPlaces' = [pkPlaces EXCEPT ![place] = pkFile]
          /\ IF IsPackage(pkFile)
             THEN GoOnWith(c, [pkJob[c] EXCEPT !.todo = After(c), !.place = place])
             ELSE Refuse(c)
    /\ UNCHANGED <<pkStore, pkMem, pkSaved, pkFile, pkRun, pkHost, pkTurns>>

\* _build_loaded_package_resource_registry: the builtin components and those of
\* the package, and none of the workspace.
LoadedRegistry(package) == package.registry

\* The directory of a workspace that goes away stays, with all it holds.
EnterPackage(c) ==
    /\ AtJob(c, "enter")
    /\ LET j == pkJob[c]
       IN  MutateStore(c, [WorkspaceState("package", j.held.doc, LoadedRegistry(j.held), j.place)
                        EXCEPT !.mixed = j.held # pkPlaces[j.place]],
                  [j EXCEPT !.todo = After(c)])
    /\ UNCHANGED <<pkSaved, pkFile, pkPlaces, pkRun, pkHost, pkTurns>>

\* load_project_package answers with get_project_document.
RefreshCopy(c) ==
    /\ AtJob(c, "refresh")
    /\ pkMem' = pkStore
    /\ Advance(c)
    /\ UNCHANGED <<pkStore, pkSaved, pkFile, pkPlaces, pkRun, pkHost, pkTurns>>

\* unload_project_package asks for no running session and no loaded package.
RemovePlace(c) ==
    /\ AtJob(c, "remove")
    /\ pkPlaces' = [p \in SessionDirs |-> IF p = pkMem.place THEN NoPack ELSE pkPlaces[p]]
    /\ Advance(c)
    /\ UNCHANGED <<pkStore, pkMem, pkSaved, pkFile, pkRun, pkHost, pkTurns>>

ResetPackage(c) ==
    /\ AtJob(c, "reset")
    /\ MutateStore(c, BlankState, [pkJob[c] EXCEPT !.todo = After(c)])
    /\ UNCHANGED <<pkSaved, pkFile, pkPlaces, pkRun, pkHost, pkTurns>>

(* ---------------------------------------------------------------- *)
(* Binding and running.                                             *)

\* bind_loaded_package_external_resource: the name is looked up in the copy, the
\* value goes into the flow that the store has by then.
LookUpName(c) ==
    /\ AtJob(c, "look")
    /\ IF pkMem.doc.needs = {} THEN Refuse(c)
       ELSE \E name \in pkMem.doc.needs :
              GoOnWith(c, [pkJob[c] EXCEPT !.todo = After(c), !.doc.needs = {name}])
    /\ UNCHANGED <<pkStore, pkMem, pkSaved, pkFile, pkPlaces, pkRun, pkHost, pkTurns>>

BindValue(c) ==
    /\ AtJob(c, "value")
    /\ MutateStore(c, [pkStore EXCEPT !.doc.bound = @ \cup pkJob[c].doc.needs],
              [pkJob[c] EXCEPT !.todo = After(c)])
    /\ UNCHANGED <<pkSaved, pkFile, pkPlaces, pkRun, pkHost, pkTurns>>

\* _read_loaded_package_runtime_requirements, _read_loaded_package_python_runtime_state
Unpacked(w) == w.place # NoDir /\ IsPackage(pkPlaces[w.place])

\* _build_loaded_package_runtime_requirements_block: a directory that is gone
\* requires nothing.
FulfilsRequirements(w) == w.source = "package" /\ Unpacked(w) => pkHost.platform
CheckRequirements(c) ==
    /\ AtJob(c, "requirements")
    /\ IF FulfilsRequirements(pkMem) THEN Advance(c) ELSE Refuse(c)
    /\ UNCHANGED <<pkStore, pkMem, pkSaved, pkFile, pkPlaces, pkRun, pkHost, pkTurns>>

\* _build_loaded_package_security_requirement_block: what
\* _derive_wcrun_security_requirements finds in a project.
NeedsPermission(doc) == doc.assets # {} \/ doc.python # "off"
Permitted(w) == w.source = "package" /\ NeedsPermission(w.doc) => pkHost.allowed

\* BUG PATTERN: only the required names are looked at.
FaultyBound(w) == w.source = "package" => w.doc.required \subseteq w.doc.bound

\* _build_loaded_package_runtime_binding_block: every name, required or not.
Bound(w) == w.source = "package" => w.doc.needs \subseteq w.doc.bound

\* The blocks that look at self._state only, the last at running sessions.
CheckWorkspace(c) ==
    /\ AtJob(c, "workspace")
    /\ IF Permitted(pkMem) /\ Bound(pkMem) /\ ~pkMem.run
       THEN GoOnWith(c, [pkJob[c] EXCEPT !.todo = After(c), !.revoked = FALSE])
       ELSE Refuse(c)
    /\ UNCHANGED <<pkStore, pkMem, pkSaved, pkFile, pkPlaces, pkRun, pkHost, pkTurns>>

\* _resolve_graph_document_request refreshes; the blocks saw the copy before.
ResolveFlow(c) ==
    /\ AtJob(c, "resolve")
    /\ pkMem' = pkStore
    /\ GoOnWith(c, [pkJob[c] EXCEPT !.todo = After(c), !.doc = pkStore.doc])
    /\ UNCHANGED <<pkStore, pkSaved, pkFile, pkPlaces, pkRun, pkHost, pkTurns>>

\* The flow is validated against the components at hand, and the session enters
\* the workspace state.
PrepareRun(c) ==
    /\ AtJob(c, "prepare")
    /\ LET j == pkJob[c]
       IN  IF j.doc.uses \subseteq pkMem.registry
           THEN /\ pkRun' = [NoRun EXCEPT !.at = "started", !.doc = j.doc,
                                !.source = pkMem.source, !.disturbed = j.moved,
                                !.revoked = j.revoked]
                /\ MutateStore(c, [pkStore EXCEPT !.run = TRUE],
                          [j EXCEPT !.todo = After(c)])
           ELSE Refuse(c) /\ UNCHANGED <<pkStore, pkMem, pkRun>>
    /\ UNCHANGED <<pkSaved, pkFile, pkPlaces, pkHost, pkTurns>>

\* _find_runtime_session
FindSession(c) ==
    /\ AtJob(c, "find")
    /\ IF pkMem.run /\ pkRun.at = "started" THEN Advance(c) ELSE Refuse(c)
    /\ UNCHANGED <<pkStore, pkMem, pkSaved, pkFile, pkPlaces, pkRun, pkHost, pkTurns>>

\* _build_runtime_embedded_resource_path_map: embedded files are looked for in
\* the directory of the workspace that is there now.
BuildContext(c) ==
    /\ AtJob(c, "context")
    /\ pkRun' = IF pkRun.at # "started" THEN pkRun
                ELSE [pkRun EXCEPT !.at = "running", !.place = pkMem.place,
                        !.assets = IF pkMem.place = NoDir THEN {} ELSE pkMem.doc.assets,
                        !.disturbed = @ \/ pkMem.mixed \/ pkJob[c].moved]
    /\ GoOnWith(c, [pkJob[c] EXCEPT !.todo = After(c)])
    /\ UNCHANGED <<pkStore, pkMem, pkSaved, pkFile, pkPlaces, pkHost, pkTurns>>

\* The worker merges its outcome.
EndRun ==
    /\ pkRun.at = "running"
    /\ pkRun' = NoRun
    /\ pkStore' = [pkStore EXCEPT !.run = FALSE]
    /\ pkMem' = pkStore'
    /\ UNCHANGED <<pkSaved, pkFile, pkPlaces, pkJob, pkHost, pkTurns>>

(* ---------------------------------------------------------------- *)
(* What else happens to a project.                                  *)

\* open_project: the file is read, the workspace exchanged.
ReadProject(c) ==
    /\ AtJob(c, "read")
    /\ GoOnWith(c, [pkJob[c] EXCEPT !.todo = After(c), !.copy = <<OpenedState(pkSaved)>>])
    /\ UNCHANGED <<pkStore, pkMem, pkSaved, pkFile, pkPlaces, pkRun, pkHost, pkTurns>>

OpenProject(c) ==
    /\ AtJob(c, "open")
    /\ MutateStore(c, pkJob[c].copy[1], [pkJob[c] EXCEPT !.todo = After(c)])
    /\ UNCHANGED <<pkSaved, pkFile, pkPlaces, pkRun, pkHost, pkTurns>>

\* _assert_project_package_allows_mutation looks at the copy. A workspace that
\* was never saved has no file to save to.
CheckWritable(c) ==
    /\ AtJob(c, "writable")
    /\ IF pkMem.source = "package" \/ (pkJob[c].ask = "save" /\ pkMem.source = "blank")
       THEN Refuse(c) ELSE Advance(c)
    /\ UNCHANGED <<pkStore, pkMem, pkSaved, pkFile, pkPlaces, pkRun, pkHost, pkTurns>>

\* save_graph_document: the components used and the values, in what is the
\* workspace by then.
ChangeFlow(c) ==
    /\ AtJob(c, "change")
    /\ \E uses \in SUBSET Keys, bound \in {{}, pkStore.doc.needs} :
          MutateStore(c, [pkStore EXCEPT !.doc.uses = uses, !.doc.bound = bound,
                                    !.mixed = @ \/ pkStore.source = "package"],
                 [pkJob[c] EXCEPT !.todo = After(c)])
    /\ UNCHANGED <<pkSaved, pkFile, pkPlaces, pkRun, pkHost, pkTurns>>

\* update_graph_entrypoint_runtime_defaults: all values of the flow at once, also
\* those of a loaded package. The project is saved if the workspace has its file.
ChangeDefaults(c) ==
    /\ AtJob(c, "default")
    /\ \E bound \in SUBSET pkStore.doc.needs :
          MutateStore(c, [pkStore EXCEPT !.doc.bound = bound], [pkJob[c] EXCEPT !.todo = After(c)])
    /\ UNCHANGED <<pkSaved, pkFile, pkPlaces, pkRun, pkHost, pkTurns>>

LookForFile(c) ==
    /\ AtJob(c, "file")
    /\ IF pkMem.source = "project" THEN Advance(c) ELSE Refuse(c)
    /\ UNCHANGED <<pkStore, pkMem, pkSaved, pkFile, pkPlaces, pkRun, pkHost, pkTurns>>

\* _save_project_to_path: the layout is built from the copy.
SaveProject(c) ==
    /\ AtJob(c, "save")
    /\ pkSaved' = [pkSaved EXCEPT !.doc = pkMem.doc, !.registry = pkMem.registry]
    /\ Advance(c)
    /\ UNCHANGED <<pkStore, pkMem, pkFile, pkPlaces, pkRun, pkHost, pkTurns>>

\* A component comes or goes; a loaded package does not prevent it.
ChangeRegistry(c) ==
    /\ AtJob(c, "register")
    /\ \E key \in Keys :
          MutateStore(c, [pkStore EXCEPT !.registry = IF key \in @ THEN @ \ {key} ELSE @ \cup {key}],
                 [pkJob[c] EXCEPT !.todo = After(c)])
    /\ UNCHANGED <<pkSaved, pkFile, pkPlaces, pkRun, pkHost, pkTurns>>

\* enable_project_required_security_settings
AllowRequired(c) ==
    /\ AtJob(c, "allow")
    /\ pkHost' = [pkHost EXCEPT !.allowed = @ \/ NeedsPermission(pkMem.doc)]
    /\ Advance(c)
    /\ UNCHANGED <<pkStore, pkMem, pkSaved, pkFile, pkPlaces, pkRun, pkTurns>>

\* A change of the program's settings takes it back at any time.
ForbidRequired(c) ==
    /\ AtJob(c, "forbid")
    /\ pkHost' = [pkHost EXCEPT !.allowed = FALSE]
    /\ pkJob' = [d \in Packers |->
          IF d = c THEN AtRest
          ELSE [pkJob[d] EXCEPT !.revoked = @ \/ pkJob[d].ask = "start"]]
    /\ pkRun' = [pkRun EXCEPT !.revoked = @ \/ pkRun.at # "none"]
    /\ UNCHANGED <<pkStore, pkMem, pkSaved, pkFile, pkPlaces, pkTurns>>

(* ---------------------------------------------------------------- *)

PackagesInit ==
    /\ pkSaved \in PackedProjects
    /\ pkStore = OpenedState(pkSaved) /\ pkMem = pkStore
    \* A package of another project may lie there already.
    /\ pkFile \in {NoPack} \cup
                  {Packed(p, p.registry) : p \in {q \in PackedProjects : CanBePacked(q, q.registry)}}
    /\ pkPlaces = [p \in SessionDirs |-> NoPack]
    /\ pkJob = [c \in Packers |-> AtRest]
    /\ pkRun = NoRun
    /\ pkHost \in [platform : BOOLEAN, allowed : BOOLEAN]
    /\ pkTurns = 0

PackagesNext ==
    \/ EndRun
    \/ \E c \in Packers :
        \/ EnterJob(c) \/ AssignState(c)
        \/ CheckPackage(c) \/ CollectContents(c) \/ TruncatePackage(c) \/ WritePackage(c)
        \/ InspectPackage(c) \/ UnpackPackage(c) \/ EnterPackage(c) \/ RefreshCopy(c)
        \/ RemovePlace(c) \/ ResetPackage(c)
        \/ LookUpName(c) \/ BindValue(c)
        \/ CheckRequirements(c) \/ CheckWorkspace(c) \/ ResolveFlow(c) \/ PrepareRun(c)
        \/ FindSession(c) \/ BuildContext(c)
        \/ ReadProject(c) \/ OpenProject(c) \/ CheckWritable(c) \/ ChangeFlow(c)
        \/ ChangeDefaults(c) \/ LookForFile(c)
        \/ SaveProject(c) \/ ChangeRegistry(c) \/ AllowRequired(c) \/ ForbidRequired(c)

PackagesSpec == PackagesInit /\ [][PackagesNext]_pkVars

(* ---------------------------------------------------------------- *)
(* Properties.                                                      *)

\* Requests stay within their bound, and a workspace that names a directory is
\* that of a package.
PackagesTypeOK ==
    /\ pkTurns \in 0..MaxPackageJobs
    /\ pkRun.at \in {"none", "started", "running"}
    /\ \A w \in {pkStore, pkMem} :
          /\ w.source \in {"blank", "project", "package"}
          /\ w.place # NoDir <=> w.source = "package"

\* A package holds every component that its flow uses and a value for every name
\* that is required, although the flow comes from the project file and the
\* components from the memory, unless one of them changed while it was packed.
PackagesAreClosed ==
    IsPackage(pkFile) /\ ~pkFile.moved =>
        /\ pkFile.doc.uses \subseteq pkFile.registry
        /\ pkFile.doc.required \subseteq pkFile.doc.bound

\* A session of a loaded package runs the flow that was packed, with a value for
\* each of its names, finds the embedded files that were packed, and has what the
\* package requires; unless the workspace was exchanged beside it, beside its
\* start, or beside a change of the flow, the runtime defaults were changed beside
\* its start, or self._state trailed the store. What it may do was allowed when it
\* was started; it can be forbidden from then on.
PackagedRunsArePrepared ==
    (pkRun.at = "running" /\ pkRun.source = "package" /\ ~pkRun.disturbed) =>
        /\ pkRun.place # NoDir /\ IsPackage(pkPlaces[pkRun.place])
        /\ LET packed == pkPlaces[pkRun.place]
           IN  /\ pkRun.doc.uses = packed.doc.uses
               /\ packed.assets \subseteq pkRun.assets
               /\ pkRun.doc.needs \subseteq pkRun.doc.bound
               /\ pkHost.platform
               /\ NeedsPermission(packed.doc) => pkHost.allowed \/ pkRun.revoked
=============================================================================
