----------------------------- MODULE MCProject -----------------------------
(* What the workbench keeps of a project, and the run of its flow, checked *)
(* in one run: each component runs by itself (part), the others rest in an *)
(* initial state.                                                          *)
EXTENDS MCFlowScheduler, ProjectDocuments, Configuration, PythonRuntime, Resources,
        MCGraphCompilation, ProjectPackages

CONSTANTS c1, c2, p1, a1, b1, k1, f1, f2, f3, f4, f5, f6, x1, x2, y1, d1, d2

VARIABLE part   \* the component that runs

projectVars == <<part, vars, docVars, confVars, pyVars, resVars, graphVars,
                 pkVars>>

Parts == {"flow", "documents", "configuration", "python", "resources",
          "graphs", "packages"}

\* Two edits: both clients save, one of them asks for everything else.
\* Two more edits: only saves of the graph.
EditingSessions ==
    {[edits |-> 1, may |-> (c1 :> {"save"}) @@ (c2 :> Asks \ {"save"})],
     [edits |-> 2, may |-> (c1 :> {"save"}) @@ (c2 :> {"save"})]}

\* x1 and x2 are versions of one package.
PackageOf(line) == IF line = y1 THEN "y" ELSE "x"
RequirementFiles == {{x1, y1}, {x2}}

\* A project where one graph names another, one whose resource has the key
\* of another in the package, and an empty one; in the package a graph names
\* another by its key and by its id.
Resource(id, key, refs, from) ==
    [id |-> id, key |-> key, enabled |-> TRUE, refs |-> refs, made |-> <<id, from>>]
SampleRegistries ==
    {{Resource(a1, a1, <<b1>>, "here"), Resource(b1, b1, <<>>, "here")},
     {Resource(a1, k1, <<>>, "here")}, {}}
SamplePackages ==
    {{Resource(a1, k1, <<>>, "there"), Resource(b1, b1, <<k1, a1>>, "there")}}

\* The clients are alike: the first request is of the first one.
AdminsInOrder == Pending(c2)' => Pending(c1) \/ Pending(c2)
CallersInOrder == Under(c2)' => Under(c1) \/ Under(c2)
UsersInOrder == AtPlace(c2, "rest") /\ ~AtPlace(c2, "rest")' => ~AtPlace(c1, "rest")

\* Bound: the third request comes when the others are done.
LastAlone == requests = 2 /\ requests' = 3 => \A c \in Callers : ~Under(c)

\* Bound: the interpreter is lost or the server dies, once.
OneLoss == losses' + crashes' <= 1

\* A project with a required name that has a value; in a package, one with a
\* Python environment, an embedded file and a name that is open, on a machine that
\* lacks what packages require or does not allow it yet, or one with a value for
\* its name, on a machine that does. The second client asks only beside a request
\* of the first one, and it alone changes runtime defaults and forbids. With the
\* package that has its value, which is loaded first, it asks only these, and only
\* beside the start; otherwise beside the packing. Directories are used in order.
SampleDoc(bound, needs, mandatory, assets, python) ==
    [uses |-> {k1}, bound |-> bound, needs |-> needs, required |-> mandatory,
     assets |-> assets, python |-> python]
SampleProjects ==
    {[doc |-> SampleDoc({a1}, {a1}, {a1}, {}, "off"), registry |-> {k1}, files |-> {}],
     [doc |-> SampleDoc({}, {a1}, {}, {f1}, "venv"), registry |-> {k1}, files |-> {f1}],
     [doc |-> SampleDoc({a1}, {a1}, {}, {f1}, "venv"), registry |-> {k1}, files |-> {f1}]}
GivenPackage == IsPackage(pkFile) /\ pkFile.doc.bound # {}
PackagesSample ==
    /\ pkSaved.doc.python = "off" /\ (IsPackage(pkFile) => pkFile.doc.python # "off")
    /\ IF GivenPackage
       THEN pkHost.platform /\ pkHost.allowed
       ELSE pkHost.platform # pkHost.allowed /\ (pkFile = NoPack => pkHost.platform)
PackagesRest ==
    /\ pkSaved.doc.python = "off" /\ pkFile = NoPack
    /\ pkHost = [platform |-> TRUE, allowed |-> TRUE]
Spoiling == {"defaults", "forbid"}
FewGuests ==
    /\ Serving(c2)' /\ ~Serving(c2) =>
          /\ Serving(c1)
          /\ \/ ~GivenPackage /\ pkJob'[c2].ask \in {"unload", "save", "edit", "register"}
             \/ pkJob'[c2].ask \in Spoiling /\ pkJob[c1].ask = IF GivenPackage THEN "start" ELSE "build"
    /\ Serving(c1)' /\ ~Serving(c1) =>
          /\ pkJob'[c1].ask \notin Spoiling
          /\ GivenPackage /\ pkTurns = 0 => pkJob'[c1].ask = "load"
DirsInOrder == pkPlaces'[d2] # NoPack => pkPlaces[d2] # NoPack \/ pkPlaces[d1] # NoPack

\* A component that does not run starts in one of its initial states; the settings
\* file of the program is of an earlier version.
ProjectInit ==
    /\ part \in Parts
    /\ ConfigurationInit /\ file["program"] \in {OldProgram, EarlyProgram}
    /\ (part # "configuration" => file["program"] = OldProgram)
    /\ PythonInit /\ (part # "python" => required = NoFile)
    /\ DocumentsInit /\ (part # "documents" => usage = CHOOSE s \in Sessions : TRUE)
    /\ ResourcesInit /\ (part # "resources" => registry = {} /\ package = NoPackage)
    /\ GraphInit /\ (part # "graphs" => gStore.rev = 0)
    /\ PackagesInit /\ (IF part = "packages" THEN PackagesSample ELSE PackagesRest)
    /\ Init /\ (part # "flow" => flow = Missing)

ProjectNext ==
    /\ UNCHANGED part
    /\ \/ /\ part = "flow" /\ Next
          /\ UNCHANGED <<docVars, confVars, pyVars, resVars, graphVars, pkVars>>
       \/ /\ part = "documents" /\ DocumentsNext
          /\ UNCHANGED <<vars, confVars, pyVars, resVars, graphVars, pkVars>>
       \/ /\ part = "configuration" /\ ConfigurationNext /\ AdminsInOrder
          /\ UNCHANGED <<vars, docVars, pyVars, resVars, graphVars, pkVars>>
       \/ /\ part = "python" /\ PythonNext /\ CallersInOrder /\ OneLoss /\ LastAlone
          /\ UNCHANGED <<vars, docVars, confVars, resVars, graphVars, pkVars>>
       \/ /\ part = "resources" /\ ResourcesNext /\ UsersInOrder
          /\ UNCHANGED <<vars, docVars, confVars, pyVars, graphVars, pkVars>>
       \/ /\ part = "graphs" /\ GraphNext /\ DraftersInOrder /\ FewCross
          /\ UNCHANGED <<vars, docVars, confVars, pyVars, resVars, pkVars>>
       \/ /\ part = "packages" /\ PackagesNext /\ FewGuests /\ DirsInOrder
          /\ UNCHANGED <<vars, docVars, confVars, pyVars, resVars, graphVars>>

\* The fairness of the flow's run.
ProjectFair == WF_vars(part = "flow" /\ (MainStep \/ LoopStep))

ProjectSpec == ProjectInit /\ [][ProjectNext]_projectVars /\ ProjectFair

ProjectTypeOK ==
    /\ (part = "flow" => TypeOK)
    /\ DocumentsTypeOK /\ ConfigurationTypeOK
    /\ PythonTypeOK /\ ResourcesTypeOK /\ GraphTypeOK /\ PackagesTypeOK

\* Every run of a flow ends, by itself or soon after it was cancelled.
FlowRunEnds == (part = "flow" => RunEnds) /\ CancelEndsRun
============================================================================
