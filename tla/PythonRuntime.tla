---------------------------- MODULE PythonRuntime ----------------------------
(***************************************************************************)
(* The Python environment of a project: project_python_runtime.py and the  *)
(* requests of the service that use it.  An environment is a directory of  *)
(* files: a virtual environment with the packages that pip installed, the  *)
(* manifest, the path of the interpreter, a copy of the requirements and   *)
(* the hash of those that were installed last.  Preparing it writes them   *)
(* one by one and runs venv and pip; the health check reads them.  Nothing *)
(* is locked: every request, and every start of a session, goes through    *)
(* these steps beside the others, and a crash leaves what was written.     *)
(*                                                                         *)
(* The directory is named by the hash of the profile, so that profiles do  *)
(* not meet: there is one here, which names a requirements file of the     *)
(* project.  The health check that each request begins with and whose      *)
(* answer it drops, and the interpreter bundled in a package, are left     *)
(* out; whether a wheelhouse or an index serves pip is part of pip's       *)
(* success.                                                                *)
(***************************************************************************)
EXTENDS Naturals, FiniteSets

CONSTANTS
    Callers,            \* the threads of the API, one request each at a time
    Lines,              \* the lines of requirements files, one package version each
    Package(_),         \* the package of a line
    RequirementSets,    \* the requirements files, as sets of lines
    NoFile,
    MaxRequests,        \* bound: requests
    MaxRequirements,    \* bound: changes of the requirements file
    MaxBaseLosses,      \* bound: losses of the interpreter behind the environment
    MaxCrashes          \* bound: crashes of the server

ASSUME PythonRuntimeAssumption ==
    /\ RequirementSets \subseteq SUBSET Lines /\ NoFile \notin RequirementSets \cup {{}}
    /\ {MaxRequests, MaxRequirements, MaxBaseLosses, MaxCrashes} \subseteq Nat

VARIABLES
    required,   \* the requirements file of the project
    env,        \* the directory of the environment
    call,       \* the requests
    requests, edited, losses, crashes

pyVars == <<required, env, call, requests, edited, losses, crashes>>

Files == RequirementSets \cup {NoFile}
NoDirectory ==
    [root |-> FALSE, manifest |-> "none", path |-> FALSE, lines |-> NoFile, marker |-> NoFile,
     exe |-> "none", pip |-> FALSE, hook |-> FALSE, packages |-> {}]
Directories ==
    [root : BOOLEAN,
     manifest : {"none", "torn", "whole"},
     path : BOOLEAN,                     \* python-executable.txt
     lines : Files \cup {{}},            \* requirements.txt
     marker : Files,                     \* installed-requirements.hash
     exe : {"none", "dead", "works"},    \* the interpreter in venv
     pip : BOOLEAN,                      \* venv has pip
     hook : BOOLEAN,                     \* sitecustomize.py is as it should be
     packages : SUBSET Lines]

\* An export prepares what is not ready as the start of a session does.
RuntimeOps == {"prepare", "rebuild", "clear", "check", "start"}
Idle == [at |-> "rest", op |-> "check", lines |-> {}, prepared |-> FALSE, alone |-> FALSE]
RequestStates ==
    [at : {"rest", "clear", "make", "create", "hook", "lines", "pip", "mark", "look", "compare"},
     op : RuntimeOps,
     lines : RequirementSets \cup {{}},   \* the requirements it has read
     prepared : BOOLEAN,                 \* it has run, or runs, prepare_runtime
     alone : BOOLEAN]                    \* history: no other request that writes ran since it came

PythonInit ==
    /\ required \in Files
    /\ env = NoDirectory
    /\ call = [c \in Callers |-> Idle]
    /\ requests = 0 /\ edited = 0 /\ losses = 0 /\ crashes = 0

-----------------------------------------------------------------------------
(* What the steps share.                                                   *)

Is(c, place) == call[c].at = place
Under(c) == ~Is(c, "rest")
Changing(c) == Under(c) /\ call[c].op # "check"
Goes(c, place) == call' = [call EXCEPT ![c].at = place]
Ends(c) == call' = [call EXCEPT ![c] = Idle]   \* it answers, or fails
Counted == UNCHANGED <<required, requests, edited, losses, crashes>>

\* _collect_runtime_requirements_lines: without the file, the copy.
Wanted ==
    IF required # NoFile THEN required
    ELSE IF env.lines # NoFile THEN env.lines ELSE {}

\* pip replaces other versions of the packages it installs.
Installed(packages, lines) ==
    {x \in packages : \A y \in lines : Package(y) # Package(x)} \cup lines

\* venv --clear empties the directory before the interpreter is put there.
Emptied(exe, pip) ==
    [env EXCEPT !.root = TRUE, !.exe = exe, !.pip = pip, !.hook = FALSE, !.packages = {}]

\* _write_runtime_sitecustomize makes the directories above its file.
Hooked == [env EXCEPT !.root = TRUE, !.hook = TRUE, !.manifest = "whole"]
Listed == [env EXCEPT !.lines = IF Wanted = {} THEN @ ELSE Wanted, !.path = TRUE]

(* What a step may leave that did not come to its end.                     *)
PartOfPip ==
    IF env.exe = "works" /\ env.pip /\ env.lines # NoFile
    THEN {[env EXCEPT !.packages = Installed(@, part)] : part \in SUBSET env.lines}
    ELSE {env}
PartOfVenv == {env, Emptied("none", FALSE), Emptied("works", FALSE)}
PartOfClear ==
    {[env EXCEPT !.manifest = m, !.marker = k, !.exe = e, !.hook = h, !.packages = p] :
        m \in {env.manifest, "none"}, k \in {env.marker, NoFile}, e \in {env.exe, "none"},
        h \in {env.hook, FALSE}, p \in {env.packages, {}}}
CutShort(c) ==
    CASE Is(c, "clear") -> PartOfClear
      [] Is(c, "create") -> PartOfVenv
      [] Is(c, "hook") -> {[Hooked EXCEPT !.manifest = env.manifest, !.hook = FALSE],
                           [Hooked EXCEPT !.manifest = "torn"]}
      [] Is(c, "lines") /\ env.root -> {[Listed EXCEPT !.lines = {}, !.path = env.path],
                                         [Listed EXCEPT !.path = FALSE]}
      [] Is(c, "pip") -> PartOfPip
      [] Is(c, "mark") /\ env.root -> {[env EXCEPT !.marker = NoFile]}
      [] OTHER -> {env}

-----------------------------------------------------------------------------
(* Requests.                                                               *)

FirstStep(op) ==
    CASE op \in {"rebuild", "clear"} -> "clear"
      [] op = "prepare" -> "make"
      [] OTHER -> "look"

\* A request comes: of the page of the project's settings, or a session starts.
Request(c) ==
    \E op \in RuntimeOps :
        /\ ~Under(c) /\ requests < MaxRequests
        /\ call' = [d \in Callers |->
                      IF d = c
                      THEN [Idle EXCEPT !.at = FirstStep(op), !.op = op,
                                        !.prepared = op \in {"prepare", "rebuild"},
                                        !.alone = \A e \in Callers : ~Changing(e)]
                      ELSE [call[d] EXCEPT !.alone = @ /\ op = "check"]]
        /\ requests' = requests + 1
        /\ UNCHANGED <<required, env, edited, losses, crashes>>

\* clear_runtime; rebuild_runtime goes on with prepare_runtime.
Clear(c) ==
    /\ Is(c, "clear")
    /\ \/ env' = NoDirectory /\ (IF call[c].op = "rebuild" THEN Goes(c, "make") ELSE Ends(c))
       \/ env' \in PartOfClear /\ Ends(c)   \* a file is in use
    /\ Counted

-----------------------------------------------------------------------------
(* prepare_runtime.                                                        *)

\* The directory is made; without a base interpreter it ends here.  An
\* interpreter that exists is kept, also one that cannot be launched.
Make(c) ==
    /\ Is(c, "make")
    /\ env' = [env EXCEPT !.root = TRUE]
    /\ Ends(c) \/ Goes(c, IF env.exe = "none" THEN "create" ELSE "hook")
    /\ Counted

CreateVenv(c) ==
    /\ Is(c, "create")
    /\ \/ env' = Emptied("works", TRUE) /\ Goes(c, "hook")
       \/ env' \in PartOfVenv /\ Ends(c)
    /\ Counted

WriteHook(c) ==
    /\ Is(c, "hook")
    /\ env' = Hooked /\ Goes(c, "lines")
    /\ Counted

\* Without the directory, which a clear may have removed, a file cannot be
\* written and the request fails.
WriteLines(c) ==
    /\ Is(c, "lines")
    /\ \/ env.root /\ env' = Listed
          /\ call' = [call EXCEPT ![c].at = "pip", ![c].lines = Wanted]
       \/ ~env.root /\ UNCHANGED env /\ Ends(c)
    /\ Counted

\* Nothing to install: only the hash of what was installed is removed.
NothingToInstall(c) ==
    /\ Is(c, "pip") /\ call[c].lines = {}
    /\ env' = [env EXCEPT !.marker = NoFile]
    /\ Goes(c, "look")
    /\ Counted

\* BUG PATTERN: pip is not run again for lines whose hash is there.
FaultyPipInstall(c) ==
    /\ Is(c, "pip") /\ call[c].lines # {}
    /\ \/ env.marker = call[c].lines /\ UNCHANGED env /\ Goes(c, "mark")
       \/ /\ env.marker # call[c].lines
          /\ env.exe = "works" /\ env.pip /\ env.lines # NoFile
          /\ env' = [env EXCEPT !.packages = Installed(@, env.lines)]
          /\ Goes(c, "mark")
       \/ env.marker # call[c].lines /\ env' \in PartOfPip /\ Ends(c)
    /\ Counted

\* pip install -r requirements.txt, which another request may have written.
PipInstall(c) ==
    /\ Is(c, "pip") /\ call[c].lines # {}
    /\ \/ /\ env.exe = "works" /\ env.pip /\ env.lines # NoFile
          /\ env' = [env EXCEPT !.packages = Installed(@, env.lines)]
          /\ Goes(c, "mark")
       \/ env' \in PartOfPip /\ Ends(c)
    /\ Counted

WriteMarker(c) ==
    /\ Is(c, "mark")
    /\ \/ env.root /\ env' = [env EXCEPT !.marker = call[c].lines] /\ Goes(c, "look")
       \/ ~env.root /\ UNCHANGED env /\ Ends(c)
    /\ Counted

-----------------------------------------------------------------------------
(* health_check, and what a request does with its answer.                  *)

\* A start of a session and an export prepare what is not ready, once.
Conclude(c, verdict) ==
    IF verdict # "ready" /\ call[c].op = "start" /\ ~call[c].prepared
    THEN call' = [call EXCEPT ![c].at = "make", ![c].prepared = TRUE]
    ELSE Ends(c)

\* The files, and the interpreter, which is launched.
Look(c) ==
    /\ Is(c, "look")
    /\ CASE ~env.root -> Conclude(c, "missing")
         [] env.root /\ (env.manifest # "whole" \/ ~env.path \/ env.exe # "works") ->
                Conclude(c, "broken")
         [] OTHER -> Goes(c, "compare")
    /\ UNCHANGED env /\ Counted

\* What the hash that is there says of the requirements.
HealthVerdict ==
    IF Wanted # {} /\ env.marker = NoFile THEN "broken"
    ELSE IF (Wanted # {} /\ env.marker # Wanted) \/ ~env.hook THEN "stale"
    ELSE "ready"

Compare(c) ==
    /\ Is(c, "compare")
    /\ Conclude(c, HealthVerdict)
    /\ UNCHANGED env /\ Counted

-----------------------------------------------------------------------------
(* Around the requests.                                                    *)

\* The user edits or removes the requirements file.
EditRequirements ==
    /\ edited < MaxRequirements /\ edited' = edited + 1
    /\ required' \in Files \ {required}
    /\ UNCHANGED <<env, call, requests, losses, crashes>>

\* The interpreter the environment was made from is updated or removed: the
\* link to it leads nowhere, or the copy of it does not start.
LoseBase ==
    /\ env.exe = "works" /\ losses < MaxBaseLosses /\ losses' = losses + 1
    /\ \E exe \in {"none", "dead"} : env' = [env EXCEPT !.exe = exe]
    /\ UNCHANGED <<required, call, requests, edited, crashes>>

\* The server dies in the middle of a step of one of the requests.
Killed ==
    /\ crashes < MaxCrashes /\ crashes' = crashes + 1
    /\ \E c \in Callers : Under(c) /\ env' \in CutShort(c)
    /\ call' = [c \in Callers |-> Idle]
    /\ UNCHANGED <<required, requests, edited, losses>>

Prepare(c) ==
    \/ Make(c) \/ CreateVenv(c) \/ WriteHook(c) \/ WriteLines(c)
    \/ NothingToInstall(c) \/ PipInstall(c) \/ WriteMarker(c)
HealthCheck(c) == Look(c) \/ Compare(c)

PythonNext ==
    \/ \E c \in Callers : Request(c) \/ Clear(c) \/ Prepare(c) \/ HealthCheck(c)
    \/ EditRequirements \/ LoseBase \/ Killed

PythonSpec == PythonInit /\ [][PythonNext]_pyVars

-----------------------------------------------------------------------------
(* Properties.                                                             *)

PythonTypeOK ==
    /\ required \in Files
    /\ env \in Directories
    /\ call \in [Callers -> RequestStates]
    /\ requests \in 0..MaxRequests /\ edited \in 0..MaxRequirements
    /\ losses \in 0..MaxBaseLosses /\ crashes \in 0..MaxCrashes

\* When prepare_runtime ran in a request that no other request overlapped and
\* the health check at its end finds the environment ready, every package the
\* requirements ask for at that moment is installed, whatever crashes, failed
\* installations, lost interpreters and overlapping requests came before, and
\* however the requirements file changes meanwhile.
PreparedMeansInstalled ==
    [][\A c \in Callers :
         /\ Is(c, "compare") /\ call[c].prepared /\ call[c].alone
         /\ Compare(c) /\ HealthVerdict = "ready"
         => Wanted \subseteq env.packages]_pyVars
==============================================================================
