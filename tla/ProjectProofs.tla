-------------------------- MODULE ProjectProofs ---------------------------
(*************************************************************************)
(* Proofs about what is kept of a project: packages, settings, the       *)
(* Python environment and resources, for any of them and any clients.    *)
(*************************************************************************)
EXTENDS ProjectPackages, Configuration, PythonRuntime, Resources, SequenceTheorems, TLAPS

---------------------------------------------------------------------------
(* ProjectPackages: closed packages, prepared runs.                      *)

(* ---------------------------------------------------------------- *)
(* The shape of the state.                                          *)

Closed(p) == p.doc.uses \subseteq p.registry /\ p.doc.required \subseteq p.doc.bound

\* What may be left of a request.
Rests(ask) ==
    CASE ask = "build" -> {<<"preflight", "collect", "truncate", "write">>,
                           <<"collect", "truncate", "write">>, <<"truncate", "write">>, <<"write">>}
      [] ask = "load" -> {<<"inspect", "unpack", "enter", "refresh">>,
                          <<"unpack", "enter", "refresh">>, <<"enter", "refresh">>,
                          <<"assign", "refresh">>, <<"refresh">>}
      [] ask = "unload" -> {<<"remove", "reset">>, <<"reset">>, <<"assign">>}
      [] ask = "bind" -> {<<"look", "value">>, <<"value">>, <<"assign">>}
      [] ask = "start" -> {<<"requirements", "workspace", "resolve", "prepare">>,
                           <<"workspace", "resolve", "prepare">>, <<"resolve", "prepare">>,
                           <<"prepare">>, <<"assign">>}
      [] ask = "run" -> {<<"find", "context">>, <<"context">>}
      [] ask = "open" -> {<<"read", "open">>, <<"open">>, <<"assign">>}
      [] ask = "edit" -> {<<"writable", "change">>, <<"change">>, <<"assign">>}
      [] ask = "save" -> {<<"writable", "save">>, <<"save">>}
      [] ask = "register" -> {<<"register">>, <<"assign">>}
      [] ask = "defaults" -> {<<"default", "file", "save">>, <<"assign", "file", "save">>,
                              <<"file", "save">>, <<"save">>}
      [] ask = "allow" -> {<<"allow">>}
      [] ask = "forbid" -> {<<"forbid">>}
      [] ask = "none" -> {<<>>}

DocFields == {"uses", "bound", "needs", "required", "assets", "python"}
JobFields == {"todo", "ask", "held", "place", "doc", "copy", "moved", "revoked"}
WorkspaceFields == {"source", "doc", "registry", "place", "run", "mixed"}
PackageFields == {"doc", "registry", "assets", "moved"}
RunFields == {"at", "source", "doc", "place", "assets", "disturbed", "revoked"}

IsWorkspace(w) ==
    /\ DOMAIN w = WorkspaceFields /\ DOMAIN w.doc = DocFields
    /\ w.source \in {"blank", "project", "package"}
    /\ w.place # NoDir <=> w.source = "package"
    /\ w.place \in SessionDirs \cup {NoDir}
IsWhole(p) ==
    DOMAIN p = PackageFields /\ DOMAIN p.doc = DocFields /\ p.assets \subseteq p.doc.assets

Waits(j, step) == j.todo # <<>> /\ Head(j.todo) = step
IsJob(j) ==
    /\ DOMAIN j = JobFields
    /\ j.ask \in PackageAsks \cup {"none"}
    /\ j.todo \in Rests(j.ask)
HoldsWhatItNeeds(j) ==
    /\ Waits(j, "assign") => IsWorkspace(j.copy[1])
    /\ Waits(j, "open") => IsWorkspace(j.copy[1]) /\ j.copy[1].source = "project"
    /\ Waits(j, "unpack") => IsPackage(j.held) /\ IsWhole(j.held)
    /\ Waits(j, "enter") =>
          IsPackage(j.held) /\ IsWhole(j.held) /\ j.place \in SessionDirs
    /\ Waits(j, "collect") => IsWhole(j.held)
    /\ Waits(j, "truncate") \/ Waits(j, "write") => IsWhole(j.held)

Stored ==
    /\ DOMAIN pkSaved = {"doc", "registry", "files"} /\ DOMAIN pkSaved.doc = DocFields
    /\ DOMAIN pkPlaces = SessionDirs
    /\ DOMAIN pkRun = RunFields /\ DOMAIN pkHost = {"platform", "allowed"}
    /\ IsWorkspace(pkStore) /\ IsWorkspace(pkMem)
    /\ IsPackage(pkFile) => IsWhole(pkFile)
    /\ \A d \in SessionDirs : IsPackage(pkPlaces[d]) => IsWhole(pkPlaces[d])
PackagesShape ==
    /\ Stored
    /\ DOMAIN pkJob = Packers
    /\ \A c \in Packers : IsJob(pkJob[c]) /\ HoldsWhatItNeeds(pkJob[c])

Mutating == {"enter", "reset", "value", "prepare", "open", "change", "default", "register"}
PackageSteps ==
    {"preflight", "collect", "truncate", "write", "inspect", "unpack", "enter", "refresh",
     "assign", "remove", "reset", "look", "value", "requirements", "workspace", "resolve",
     "prepare", "find", "context", "read", "open", "writable", "change", "default", "file",
     "save", "register", "allow", "forbid"}

LEMMA PairJoined ==
    ASSUME NEW a, NEW b
    PROVE  <<a>> \o <<b>> = <<a, b>>
<1> DEFINE S == {a, b}
<1>1. <<a>> \in Seq(S) /\ <<b>> \in Seq(S)
  OBVIOUS
<1>2. /\ <<a>> \o <<b>> \in Seq(S) /\ Len(<<a>> \o <<b>>) = 2
      /\ (<<a>> \o <<b>>)[1] = a /\ (<<a>> \o <<b>>)[2] = b
  BY <1>1
<1>3. ASSUME NEW w \in Seq(S), Len(w) = 2, w[1] = a, w[2] = b
      PROVE  w = <<a, b>>
  <2>1. <<a, b>> \in Seq(S) /\ Len(<<a, b>>) = 2
    OBVIOUS
  <2> QED
    BY <1>3, <2>1, SeqEqual
<1> QED
  BY <1>2, <1>3

LEMMA TripleJoined ==
    ASSUME NEW a, NEW b, NEW d
    PROVE  <<a>> \o <<b, d>> = <<a, b, d>>
<1> DEFINE S == {a, b, d}
<1>1. <<a>> \in Seq(S) /\ <<b, d>> \in Seq(S)
  OBVIOUS
<1>2. /\ <<a>> \o <<b, d>> \in Seq(S) /\ Len(<<a>> \o <<b, d>>) = 3
      /\ (<<a>> \o <<b, d>>)[1] = a /\ (<<a>> \o <<b, d>>)[2] = b
      /\ (<<a>> \o <<b, d>>)[3] = d
  BY <1>1
<1>3. ASSUME NEW w \in Seq(S), Len(w) = 3, w[1] = a, w[2] = b, w[3] = d
      PROVE  w = <<a, b, d>>
  <2>1. <<a, b, d>> \in Seq(S) /\ Len(<<a, b, d>>) = 3
    OBVIOUS
  <2> QED
    BY <1>3, <2>1, SeqEqual
<1> QED
  BY <1>2, <1>3

\* The programs: what a step belongs to, and what comes after it.
LEMMA Programs ==
    ASSUME NEW ask \in PackageAsks \cup {"none"}, NEW todo \in Rests(ask), todo # <<>>
    PROVE  /\ ask # "none" /\ Head(todo) \in PackageSteps
           /\ Tail(todo) = <<>> \/ Tail(todo) \in Rests(ask) \/ Head(todo) \in Mutating
           /\ Head(todo) \in Mutating =>
                 /\ <<"assign">> \o Tail(todo) \in Rests(ask) /\ <<"assign">> \o Tail(todo) # <<>>
                 /\ Head(<<"assign">> \o Tail(todo)) = "assign"
           /\ Head(todo) = "preflight" => ask = "build" /\ Tail(todo) = <<"collect", "truncate", "write">>
           /\ Head(todo) = "collect" => ask = "build" /\ Tail(todo) = <<"truncate", "write">>
           /\ Head(todo) = "truncate" => ask = "build" /\ Tail(todo) = <<"write">>
           /\ Head(todo) = "write" => ask = "build" /\ Tail(todo) = <<>>
           /\ Head(todo) = "inspect" => ask = "load" /\ Tail(todo) = <<"unpack", "enter", "refresh">>
           /\ Head(todo) = "unpack" => ask = "load" /\ Tail(todo) = <<"enter", "refresh">>
           /\ Head(todo) = "enter" => ask = "load"
           /\ Head(todo) = "refresh" => ask = "load" /\ Tail(todo) = <<>>
           /\ Head(todo) = "assign" =>
                 \/ Tail(todo) = <<>>
                 \/ ask = "load" /\ Tail(todo) = <<"refresh">>
                 \/ ask = "defaults" /\ Tail(todo) = <<"file", "save">>
           /\ Head(todo) = "remove" => ask = "unload" /\ Tail(todo) = <<"reset">>
           /\ Head(todo) = "reset" => ask = "unload"
           /\ Head(todo) = "look" => ask = "bind" /\ Tail(todo) = <<"value">>
           /\ Head(todo) = "value" => ask = "bind"
           /\ Head(todo) = "requirements" =>
                 ask = "start" /\ Tail(todo) = <<"workspace", "resolve", "prepare">>
           /\ Head(todo) = "workspace" => ask = "start" /\ Tail(todo) = <<"resolve", "prepare">>
           /\ Head(todo) = "resolve" => ask = "start" /\ Tail(todo) = <<"prepare">>
           /\ Head(todo) = "prepare" => ask = "start"
           /\ Head(todo) = "find" => ask = "run" /\ Tail(todo) = <<"context">>
           /\ Head(todo) = "context" => ask = "run" /\ Tail(todo) = <<>>
           /\ Head(todo) = "read" => ask = "open" /\ Tail(todo) = <<"open">>
           /\ Head(todo) = "open" => ask = "open"
           /\ Head(todo) = "writable" =>
                 Tail(todo) = (IF ask = "edit" THEN <<"change">> ELSE <<"save">>)
                 /\ ask \in {"edit", "save"}
           /\ Head(todo) = "change" => ask = "edit"
           /\ Head(todo) = "default" => ask = "defaults"
           /\ Head(todo) = "file" => ask = "defaults" /\ Tail(todo) = <<"save">>
           /\ Head(todo) = "save" => ask \in {"save", "defaults"} /\ Tail(todo) = <<>>
           /\ Head(todo) = "register" => ask = "register"
           /\ Head(todo) = "allow" => ask = "allow" /\ Tail(todo) = <<>>
           /\ Head(todo) = "forbid" => ask = "forbid" /\ Tail(todo) = <<>>
<1>1. CASE ask = "build"
  <2>1. Rests(ask) =
         {<<"preflight", "collect", "truncate", "write">>,
          <<"collect", "truncate", "write">>,
          <<"truncate", "write">>,
          <<"write">>}
    BY <1>1 DEF Rests
  <2>2. CASE todo = <<"preflight", "collect", "truncate", "write">>
    BY <1>1, <2>1, <2>2 DEF PackageSteps, Mutating
  <2>3. CASE todo = <<"collect", "truncate", "write">>
    BY <1>1, <2>1, <2>3 DEF PackageSteps, Mutating
  <2>4. CASE todo = <<"truncate", "write">>
    BY <1>1, <2>1, <2>4 DEF PackageSteps, Mutating
  <2>5. CASE todo = <<"write">>
    BY <1>1, <2>1, <2>5 DEF PackageSteps, Mutating
  <2> QED
    BY <2>1, <2>2, <2>3, <2>4, <2>5
<1>2. CASE ask = "load"
  <2>1. Rests(ask) =
         {<<"inspect", "unpack", "enter", "refresh">>,
          <<"unpack", "enter", "refresh">>,
          <<"enter", "refresh">>,
          <<"assign", "refresh">>,
          <<"refresh">>}
    BY <1>2 DEF Rests
  <2>2. CASE todo = <<"inspect", "unpack", "enter", "refresh">>
    BY <1>2, <2>1, <2>2 DEF PackageSteps, Mutating
  <2>3. CASE todo = <<"unpack", "enter", "refresh">>
    BY <1>2, <2>1, <2>3 DEF PackageSteps, Mutating
  <2>4. CASE todo = <<"enter", "refresh">>
    <3>1. Head(todo) = "enter" /\ Tail(todo) = <<"refresh">>
      BY <2>4
    <3>2. <<"assign">> \o <<"refresh">> = <<"assign", "refresh">>
      BY PairJoined
    <3>3. <<"assign">> \o Tail(todo) = <<"assign", "refresh">>
      BY <3>1, <3>2
    <3>4. /\ <<"assign", "refresh">> \in Rests(ask) /\ <<"assign", "refresh">> # <<>>
          /\ Head(<<"assign", "refresh">>) = "assign"
      BY <2>1
    <3> QED
      BY <1>2, <3>1, <3>3, <3>4 DEF PackageSteps, Mutating
  <2>5. CASE todo = <<"assign", "refresh">>
    <3>1. Head(todo) = "assign" /\ Tail(todo) = <<"refresh">>
      BY <2>5
    <3> QED
      BY <1>2, <2>1, <3>1 DEF PackageSteps, Mutating
  <2>6. CASE todo = <<"refresh">>
    BY <1>2, <2>1, <2>6 DEF PackageSteps, Mutating
  <2> QED
    BY <2>1, <2>2, <2>3, <2>4, <2>5, <2>6
<1>3. CASE ask = "unload"
  <2>1. Rests(ask) =
         {<<"remove", "reset">>,
          <<"reset">>,
          <<"assign">>}
    BY <1>3 DEF Rests
  <2>2. CASE todo = <<"remove", "reset">>
    BY <1>3, <2>1, <2>2 DEF PackageSteps, Mutating
  <2>3. CASE todo = <<"reset">>
    BY <1>3, <2>1, <2>3 DEF PackageSteps, Mutating
  <2>4. CASE todo = <<"assign">>
    BY <1>3, <2>1, <2>4 DEF PackageSteps, Mutating
  <2> QED
    BY <2>1, <2>2, <2>3, <2>4
<1>4. CASE ask = "bind"
  <2>1. Rests(ask) =
         {<<"look", "value">>,
          <<"value">>,
          <<"assign">>}
    BY <1>4 DEF Rests
  <2>2. CASE todo = <<"look", "value">>
    BY <1>4, <2>1, <2>2 DEF PackageSteps, Mutating
  <2>3. CASE todo = <<"value">>
    BY <1>4, <2>1, <2>3 DEF PackageSteps, Mutating
  <2>4. CASE todo = <<"assign">>
    BY <1>4, <2>1, <2>4 DEF PackageSteps, Mutating
  <2> QED
    BY <2>1, <2>2, <2>3, <2>4
<1>5. CASE ask = "start"
  <2>1. Rests(ask) =
         {<<"requirements", "workspace", "resolve", "prepare">>,
          <<"workspace", "resolve", "prepare">>,
          <<"resolve", "prepare">>,
          <<"prepare">>,
          <<"assign">>}
    BY <1>5 DEF Rests
  <2>2. CASE todo = <<"requirements", "workspace", "resolve", "prepare">>
    BY <1>5, <2>1, <2>2 DEF PackageSteps, Mutating
  <2>3. CASE todo = <<"workspace", "resolve", "prepare">>
    BY <1>5, <2>1, <2>3 DEF PackageSteps, Mutating
  <2>4. CASE todo = <<"resolve", "prepare">>
    BY <1>5, <2>1, <2>4 DEF PackageSteps, Mutating
  <2>5. CASE todo = <<"prepare">>
    BY <1>5, <2>1, <2>5 DEF PackageSteps, Mutating
  <2>6. CASE todo = <<"assign">>
    BY <1>5, <2>1, <2>6 DEF PackageSteps, Mutating
  <2> QED
    BY <2>1, <2>2, <2>3, <2>4, <2>5, <2>6
<1>6. CASE ask = "run"
  <2>1. Rests(ask) =
         {<<"find", "context">>,
          <<"context">>}
    BY <1>6 DEF Rests
  <2>2. CASE todo = <<"find", "context">>
    BY <1>6, <2>1, <2>2 DEF PackageSteps, Mutating
  <2>3. CASE todo = <<"context">>
    BY <1>6, <2>1, <2>3 DEF PackageSteps, Mutating
  <2> QED
    BY <2>1, <2>2, <2>3
<1>7. CASE ask = "open"
  <2>1. Rests(ask) =
         {<<"read", "open">>,
          <<"open">>,
          <<"assign">>}
    BY <1>7 DEF Rests
  <2>2. CASE todo = <<"read", "open">>
    BY <1>7, <2>1, <2>2 DEF PackageSteps, Mutating
  <2>3. CASE todo = <<"open">>
    BY <1>7, <2>1, <2>3 DEF PackageSteps, Mutating
  <2>4. CASE todo = <<"assign">>
    BY <1>7, <2>1, <2>4 DEF PackageSteps, Mutating
  <2> QED
    BY <2>1, <2>2, <2>3, <2>4
<1>8. CASE ask = "edit"
  <2>1. Rests(ask) =
         {<<"writable", "change">>,
          <<"change">>,
          <<"assign">>}
    BY <1>8 DEF Rests
  <2>2. CASE todo = <<"writable", "change">>
    BY <1>8, <2>1, <2>2 DEF PackageSteps, Mutating
  <2>3. CASE todo = <<"change">>
    BY <1>8, <2>1, <2>3 DEF PackageSteps, Mutating
  <2>4. CASE todo = <<"assign">>
    BY <1>8, <2>1, <2>4 DEF PackageSteps, Mutating
  <2> QED
    BY <2>1, <2>2, <2>3, <2>4
<1>9. CASE ask = "save"
  <2>1. Rests(ask) =
         {<<"writable", "save">>,
          <<"save">>}
    BY <1>9 DEF Rests
  <2>2. CASE todo = <<"writable", "save">>
    BY <1>9, <2>1, <2>2 DEF PackageSteps, Mutating
  <2>3. CASE todo = <<"save">>
    BY <1>9, <2>1, <2>3 DEF PackageSteps, Mutating
  <2> QED
    BY <2>1, <2>2, <2>3
<1>10. CASE ask = "register"
  <2>1. Rests(ask) =
         {<<"register">>,
          <<"assign">>}
    BY <1>10 DEF Rests
  <2>2. CASE todo = <<"register">>
    BY <1>10, <2>1, <2>2 DEF PackageSteps, Mutating
  <2>3. CASE todo = <<"assign">>
    BY <1>10, <2>1, <2>3 DEF PackageSteps, Mutating
  <2> QED
    BY <2>1, <2>2, <2>3
<1>11. CASE ask = "allow"
  <2>1. Rests(ask) =
         {<<"allow">>}
    BY <1>11 DEF Rests
  <2>2. CASE todo = <<"allow">>
    BY <1>11, <2>1, <2>2 DEF PackageSteps, Mutating
  <2> QED
    BY <2>1, <2>2
<1>12. CASE ask = "none"
  BY <1>12 DEF Rests
<1>13. CASE ask = "defaults"
  <2>1. Rests(ask) =
         {<<"default", "file", "save">>,
          <<"assign", "file", "save">>,
          <<"file", "save">>,
          <<"save">>}
    BY <1>13 DEF Rests
  <2>2. CASE todo = <<"default", "file", "save">>
    <3>1. Head(todo) = "default" /\ Tail(todo) = <<"file", "save">>
      BY <2>2
    <3>2. <<"assign">> \o <<"file", "save">> = <<"assign", "file", "save">>
      BY TripleJoined
    <3>3. <<"assign">> \o Tail(todo) = <<"assign", "file", "save">>
      BY <3>1, <3>2
    <3>4. /\ <<"assign", "file", "save">> \in Rests(ask) /\ <<"assign", "file", "save">> # <<>>
          /\ Head(<<"assign", "file", "save">>) = "assign"
      BY <2>1
    <3> QED
      BY <1>13, <3>1, <3>3, <3>4 DEF PackageSteps, Mutating
  <2>3. CASE todo = <<"assign", "file", "save">>
    <3>1. Head(todo) = "assign" /\ Tail(todo) = <<"file", "save">>
      BY <2>3
    <3> QED
      BY <1>13, <2>1, <3>1 DEF PackageSteps, Mutating
  <2>4. CASE todo = <<"file", "save">>
    BY <1>13, <2>1, <2>4 DEF PackageSteps, Mutating
  <2>5. CASE todo = <<"save">>
    BY <1>13, <2>1, <2>5 DEF PackageSteps, Mutating
  <2> QED
    BY <2>1, <2>2, <2>3, <2>4, <2>5
<1>14. CASE ask = "forbid"
  <2>1. Rests(ask) =
         {<<"forbid">>}
    BY <1>14 DEF Rests
  <2>2. CASE todo = <<"forbid">>
    BY <1>14, <2>1, <2>2 DEF PackageSteps, Mutating
  <2> QED
    BY <2>1, <2>2
<1> QED
  BY <1>1, <1>2, <1>3, <1>4, <1>5, <1>6, <1>7, <1>8, <1>9, <1>10, <1>11, <1>12, <1>13, <1>14
  DEF PackageAsks

(* ---------------------------------------------------------------- *)
(* What a step does to the requests.                                *)

Others(c) == DOMAIN pkJob' = Packers /\ \A d \in Packers \ {c} : pkJob'[d] = pkJob[d]
JobMoves(c) ==
    /\ Others(c)
    /\ \/ pkJob'[c] = AtRest
       \/ /\ pkJob'[c].ask = pkJob[c].ask /\ pkJob'[c].moved = pkJob[c].moved
          /\ pkJob'[c].todo # <<>>

LEMMA RestIsShaped ==
    /\ IsJob(AtRest) /\ HoldsWhatItNeeds(AtRest) /\ AtRest.todo = <<>>
    /\ AtRest.ask = "none" /\ ~AtRest.moved
  BY DEF AtRest, IsJob, JobFields, Rests, HoldsWhatItNeeds, Waits

LEMMA JobGoesOn ==
    ASSUME PackagesShape, NEW c \in Packers, NEW j, GoOnWith(c, j)
    PROVE  Others(c) /\ pkJob'[c] = IF j.todo = <<>> THEN AtRest ELSE j
  BY DEF PackagesShape, GoOnWith, Others, Resumed

LEMMA RefuseMoves ==
    ASSUME PackagesShape, NEW c \in Packers, Refuse(c)
    PROVE  JobMoves(c) /\ pkJob'[c] = AtRest
  BY JobGoesOn, RestIsShaped DEF Refuse, JobMoves

\* A step that leaves the store alone.
LEMMA StepMoves ==
    ASSUME PackagesShape, NEW c \in Packers, Serving(c), Head(pkJob[c].todo) \notin Mutating,
           NEW j, DOMAIN j = JobFields, j.todo = After(c), j.ask = pkJob[c].ask,
           j.moved = pkJob[c].moved, GoOnWith(c, j)
    PROVE  /\ JobMoves(c)
           /\ After(c) = <<>> => pkJob'[c] = AtRest
           /\ After(c) # <<>> => pkJob'[c] = j /\ IsJob(j)
<1>1. IsJob(pkJob[c]) /\ pkJob[c].todo # <<>>
  BY DEF PackagesShape, Serving
<1>2. After(c) = <<>> \/ After(c) \in Rests(pkJob[c].ask)
  BY <1>1, Programs DEF IsJob, After
<1>3. Others(c) /\ pkJob'[c] = IF j.todo = <<>> THEN AtRest ELSE j
  BY JobGoesOn
<1>4. After(c) # <<>> => IsJob(j)
  BY <1>1, <1>2 DEF IsJob
<1> QED
  BY <1>3, <1>4 DEF JobMoves

LEMMA AdvanceMoves ==
    ASSUME PackagesShape, NEW c \in Packers, Serving(c), Head(pkJob[c].todo) \notin Mutating,
           Advance(c)
    PROVE  /\ JobMoves(c)
           /\ After(c) = <<>> => pkJob'[c] = AtRest
           /\ After(c) # <<>> => /\ IsJob(pkJob'[c]) /\ pkJob'[c].todo = After(c)
                                 /\ pkJob'[c].held = pkJob[c].held
                                 /\ pkJob'[c].doc = pkJob[c].doc
                                 /\ pkJob'[c].copy = pkJob[c].copy
<1> DEFINE j == [pkJob[c] EXCEPT !.todo = After(c)]
<1>1. DOMAIN pkJob[c] = JobFields
  BY DEF PackagesShape, IsJob
<1>2. /\ DOMAIN j = JobFields /\ j.todo = After(c) /\ j.ask = pkJob[c].ask
      /\ j.moved = pkJob[c].moved /\ j.held = pkJob[c].held /\ j.doc = pkJob[c].doc
      /\ j.copy = pkJob[c].copy
  BY <1>1 DEF JobFields
<1>3. GoOnWith(c, j)
  BY DEF Advance
<1> HIDE DEF j
<1> QED
  BY <1>2, <1>3, StepMoves

\* A step that changes the store.
LEMMA MutationMoves ==
    ASSUME PackagesShape, NEW c \in Packers, Serving(c), Head(pkJob[c].todo) \in Mutating,
           NEW j, DOMAIN j = JobFields, j.todo = After(c), j.ask = pkJob[c].ask,
           j.moved = pkJob[c].moved, NEW state, IsWorkspace(state), MutateStore(c, state, j)
    PROVE  /\ JobMoves(c) /\ pkJob'[c].ask = pkJob[c].ask
           /\ IsJob(pkJob'[c]) /\ HoldsWhatItNeeds(pkJob'[c])
           /\ pkJob'[c].todo # <<>> /\ Head(pkJob'[c].todo) = "assign"
           /\ pkJob'[c].copy = <<state>>
           /\ pkStore' = state /\ pkMem' = pkMem
<1> DEFINE k == [j EXCEPT !.todo = <<"assign">> \o @, !.copy = <<state>>]
<1>1. IsJob(pkJob[c]) /\ pkJob[c].todo # <<>>
  BY DEF PackagesShape, Serving
<1>2. /\ <<"assign">> \o After(c) \in Rests(pkJob[c].ask) /\ <<"assign">> \o After(c) # <<>>
      /\ Head(<<"assign">> \o After(c)) = "assign"
  BY <1>1, Programs DEF IsJob, After
<1>3. /\ DOMAIN k = JobFields /\ k.todo = <<"assign">> \o After(c) /\ k.ask = pkJob[c].ask
      /\ k.moved = pkJob[c].moved /\ k.copy = <<state>>
  BY DEF JobFields
<1>4. GoOnWith(c, k) /\ pkStore' = state /\ pkMem' = pkMem
  BY DEF MutateStore
<1> HIDE DEF k
<1>5. Others(c) /\ pkJob'[c] = k
  BY <1>2, <1>3, <1>4, JobGoesOn
<1>6. IsJob(k)
  BY <1>1, <1>2, <1>3 DEF IsJob
<1>7. k.copy[1] = state
  BY <1>3
<1>8. HoldsWhatItNeeds(k)
  BY <1>2, <1>3, <1>7 DEF HoldsWhatItNeeds, Waits
<1> QED
  BY <1>2, <1>3, <1>4, <1>5, <1>6, <1>8 DEF JobMoves

LEMMA OneIsShaped ==
    ASSUME PackagesShape, NEW c \in Packers, Others(c), IsJob(pkJob'[c]),
           HoldsWhatItNeeds(pkJob'[c]),
           Stored'
    PROVE  PackagesShape'
  BY DEF PackagesShape, Others

LEMMA PackedIsWhole ==
    ASSUME NEW p, DOMAIN p.doc = DocFields, NEW held
    PROVE  /\ IsWhole(Packed(p, held)) /\ ~Packed(p, held).moved
           /\ Packed(p, held).doc = p.doc /\ Packed(p, held).registry = held
  BY DEF IsWhole, Packed, PackageFields

\* The steps that only move a request on.
LEMMA PlainStepKeepsShape ==
    ASSUME PackagesShape, NEW c \in Packers,
           \/ CheckRequirements(c) \/ CheckWorkspace(c) \/ FindSession(c) \/ CheckWritable(c)
           \/ LookUpName(c) \/ ReadProject(c) \/ InspectPackage(c)
           \/ CheckPackage(c) \/ CollectContents(c) \/ LookForFile(c)
    PROVE  PackagesShape' /\ JobMoves(c)
<1> DEFINE j == pkJob[c]
<1>1. /\ IsJob(j) /\ HoldsWhatItNeeds(j) /\ Serving(c)
  BY DEF PackagesShape, CheckRequirements, CheckWorkspace, FindSession, CheckWritable, LookUpName,
         ReadProject, InspectPackage, CheckPackage, CollectContents, LookForFile, AtJob
<1>2. Stored /\ DOMAIN j = JobFields /\ j.todo # <<>>
  BY <1>1 DEF PackagesShape, Serving, IsJob
<1>3. Stored'
  BY <1>2 DEF Stored, CheckRequirements, CheckWorkspace, FindSession, CheckWritable, LookUpName,
         ReadProject, InspectPackage, CheckPackage, CollectContents, LookForFile, IsPackage
<1>4. ASSUME Refuse(c)
      PROVE  PackagesShape' /\ JobMoves(c)
  BY <1>3, <1>4, RefuseMoves, RestIsShaped, OneIsShaped DEF JobMoves
<1>5. CASE CheckRequirements(c)
  <2>1. Head(j.todo) = "requirements" /\ After(c) = <<"workspace", "resolve", "prepare">>
    BY <1>1, <1>2, <1>5, Programs DEF CheckRequirements, AtJob, IsJob, After
  <2>2. CASE Advance(c)
    <3>0. After(c) # <<>>
      BY <2>1
    <3>1. JobMoves(c) /\ IsJob(pkJob'[c]) /\ pkJob'[c].todo = After(c)
      BY <1>1, <2>1, <2>2, <3>0, AdvanceMoves DEF Mutating
    <3>2. HoldsWhatItNeeds(pkJob'[c])
      BY <2>1, <3>1 DEF HoldsWhatItNeeds, Waits
    <3> QED
      BY <1>3, <3>1, <3>2, OneIsShaped DEF JobMoves
  <2> QED
    BY <1>4, <1>5, <2>2 DEF CheckRequirements
<1>6. CASE CheckWorkspace(c)
  <2>1. Head(j.todo) = "workspace" /\ After(c) = <<"resolve", "prepare">>
    BY <1>1, <1>2, <1>6, Programs DEF CheckWorkspace, AtJob, IsJob, After
  <2> DEFINE k == [j EXCEPT !.todo = After(c), !.revoked = FALSE]
  <2>2. CASE GoOnWith(c, k)
    <3>0. After(c) # <<>>
      BY <2>1
    <3>1. DOMAIN k = JobFields /\ k.todo = After(c) /\ k.ask = j.ask /\ k.moved = j.moved
      BY <1>2 DEF JobFields
    <3>2. GoOnWith(c, k)
      BY <2>2
    <3> HIDE DEF k
    <3>3. JobMoves(c) /\ pkJob'[c] = k /\ IsJob(k)
      BY <1>1, <2>1, <3>0, <3>1, <3>2, StepMoves DEF Mutating
    <3>4. HoldsWhatItNeeds(k)
      BY <2>1, <3>1 DEF HoldsWhatItNeeds, Waits
    <3> QED
      BY <1>3, <3>3, <3>4, OneIsShaped DEF JobMoves
  <2> QED
    BY <1>4, <1>6, <2>2 DEF CheckWorkspace
<1>7. CASE FindSession(c)
  <2>1. Head(j.todo) = "find" /\ After(c) = <<"context">>
    BY <1>1, <1>2, <1>7, Programs DEF FindSession, AtJob, IsJob, After
  <2>2. CASE Advance(c)
    <3>0. After(c) # <<>>
      BY <2>1
    <3>1. JobMoves(c) /\ IsJob(pkJob'[c]) /\ pkJob'[c].todo = After(c)
      BY <1>1, <2>1, <2>2, <3>0, AdvanceMoves DEF Mutating
    <3>2. HoldsWhatItNeeds(pkJob'[c])
      BY <2>1, <3>1 DEF HoldsWhatItNeeds, Waits
    <3> QED
      BY <1>3, <3>1, <3>2, OneIsShaped DEF JobMoves
  <2> QED
    BY <1>4, <1>7, <2>2 DEF FindSession
<1>8. CASE CheckWritable(c)
  <2>1. /\ Head(j.todo) = "writable"
        /\ After(c) = <<"change">> \/ After(c) = <<"save">>
    BY <1>1, <1>2, <1>8, Programs DEF CheckWritable, AtJob, IsJob, After
  <2>2. CASE Advance(c)
    <3>0. After(c) # <<>>
      <4>1. <<"change">> # <<>> /\ <<"save">> # <<>>
        OBVIOUS
      <4> QED
        BY <2>1, <4>1, Zenon
    <3>1. JobMoves(c) /\ IsJob(pkJob'[c]) /\ pkJob'[c].todo = After(c)
      BY <1>1, <2>1, <2>2, <3>0, AdvanceMoves DEF Mutating
    <3>2. HoldsWhatItNeeds(pkJob'[c])
      BY <2>1, <3>1 DEF HoldsWhatItNeeds, Waits
    <3> QED
      BY <1>3, <3>1, <3>2, OneIsShaped DEF JobMoves
  <2>3. Refuse(c) \/ Advance(c)
    BY <1>8, Zenon DEF CheckWritable
  <2> QED
    BY <1>4, <2>2, <2>3
<1>9. CASE LookUpName(c)
  <2>0. AtJob(c, "look")
    BY <1>9 DEF LookUpName
  <2>1. Head(j.todo) = "look" /\ After(c) = <<"value">>
    BY <1>1, <1>2, <2>0, Programs DEF AtJob, IsJob, After
  <2>2. ASSUME NEW name, GoOnWith(c, [j EXCEPT !.todo = After(c), !.doc.needs = {name}])
        PROVE  PackagesShape' /\ JobMoves(c)
    <3> DEFINE k == [j EXCEPT !.todo = After(c), !.doc.needs = {name}]
    <3>1. DOMAIN k = JobFields /\ k.todo = After(c) /\ k.ask = j.ask /\ k.moved = j.moved
      BY <1>2 DEF JobFields
    <3>2. GoOnWith(c, k)
      BY <2>2
    <3> HIDE DEF k
    <3>3. JobMoves(c) /\ pkJob'[c] = k /\ IsJob(k)
      BY <1>1, <2>1, <3>1, <3>2, StepMoves DEF Mutating
    <3>4. HoldsWhatItNeeds(k)
      BY <2>1, <3>1 DEF HoldsWhatItNeeds, Waits
    <3> QED
      BY <1>3, <3>3, <3>4, OneIsShaped DEF JobMoves
  <2> QED
    BY <1>4, <1>9, <2>2 DEF LookUpName
<1>10. CASE ReadProject(c)
  <2>0. AtJob(c, "read")
    BY <1>10 DEF ReadProject
  <2>1. Head(j.todo) = "read" /\ After(c) = <<"open">>
    BY <1>1, <1>2, <2>0, Programs DEF AtJob, IsJob, After
  <2> DEFINE k == [j EXCEPT !.todo = After(c), !.copy = <<OpenedState(pkSaved)>>]
  <2>2. /\ DOMAIN k = JobFields /\ k.todo = After(c) /\ k.ask = j.ask /\ k.moved = j.moved
        /\ k.copy = <<OpenedState(pkSaved)>>
    BY <1>2 DEF JobFields
  <2>3. GoOnWith(c, k)
    BY <1>10 DEF ReadProject
  <2> HIDE DEF k
  <2>4. JobMoves(c) /\ pkJob'[c] = k /\ IsJob(k)
    BY <1>1, <2>1, <2>2, <2>3, StepMoves DEF Mutating
  <2>5. IsWorkspace(OpenedState(pkSaved)) /\ OpenedState(pkSaved).source = "project"
    BY <1>2 DEF Stored, OpenedState, WorkspaceState, IsWorkspace, WorkspaceFields
  <2>6. k.copy[1] = OpenedState(pkSaved)
    BY <2>2
  <2>7. HoldsWhatItNeeds(k)
    BY <2>1, <2>2, <2>5, <2>6 DEF HoldsWhatItNeeds, Waits
  <2> QED
    BY <1>3, <2>4, <2>7, OneIsShaped DEF JobMoves
<1>11. CASE InspectPackage(c)
  <2>1. Head(j.todo) = "inspect" /\ After(c) = <<"unpack", "enter", "refresh">>
    BY <1>1, <1>2, <1>11, Programs DEF InspectPackage, AtJob, IsJob, After
  <2> DEFINE k == [j EXCEPT !.todo = After(c), !.held = pkFile]
  <2>2. CASE IsPackage(pkFile) /\ GoOnWith(c, k)
    <3>1. /\ DOMAIN k = JobFields /\ k.todo = After(c) /\ k.ask = j.ask /\ k.moved = j.moved
          /\ k.held = pkFile
      BY <1>2 DEF JobFields
    <3>2. IsPackage(pkFile) /\ IsWhole(pkFile) /\ GoOnWith(c, k)
      BY <1>2, <2>2 DEF Stored
    <3> HIDE DEF k
    <3>3. JobMoves(c) /\ pkJob'[c] = k /\ IsJob(k)
      BY <1>1, <2>1, <3>1, <3>2, StepMoves DEF Mutating
    <3>4. HoldsWhatItNeeds(k)
      BY <2>1, <3>1, <3>2 DEF HoldsWhatItNeeds, Waits
    <3> QED
      BY <1>3, <3>3, <3>4, OneIsShaped DEF JobMoves
  <2> QED
    BY <1>4, <1>11, <2>2 DEF InspectPackage
<1>12. CASE CheckPackage(c)
  <2>1. Head(j.todo) = "preflight" /\ After(c) = <<"collect", "truncate", "write">>
    BY <1>1, <1>2, <1>12, Programs DEF CheckPackage, AtJob, IsJob, After
  <2> DEFINE held == Packed(pkSaved, pkMem.registry)
             k == [j EXCEPT !.todo = After(c), !.held = held]
  <2>2. CASE GoOnWith(c, k)
    <3>1. /\ DOMAIN k = JobFields /\ k.todo = After(c) /\ k.ask = j.ask /\ k.moved = j.moved
          /\ k.held = held
      BY <1>2 DEF JobFields
    <3>2. IsWhole(held) /\ GoOnWith(c, k)
      BY <1>2, <2>2, PackedIsWhole DEF Stored
    <3> HIDE DEF k, held
    <3>0. After(c) # <<>>
      BY <2>1
    <3>3. JobMoves(c) /\ pkJob'[c] = k /\ IsJob(k)
      BY <1>1, <2>1, <3>0, <3>1, <3>2, StepMoves DEF Mutating
    <3>4. HoldsWhatItNeeds(k)
      BY <2>1, <3>1, <3>2 DEF HoldsWhatItNeeds, Waits
    <3> QED
      BY <1>3, <3>3, <3>4, OneIsShaped DEF JobMoves
  <2> QED
    BY <1>4, <1>12, <2>2 DEF CheckPackage
<1>13. CASE CollectContents(c)
  <2>1. Head(j.todo) = "collect" /\ After(c) = <<"truncate", "write">>
    BY <1>1, <1>2, <1>13, Programs DEF CollectContents, AtJob, IsJob, After
  <2> DEFINE packed == Packed(pkSaved, pkMem.registry)
             held == [packed EXCEPT !.moved = packed # j.held]
             k == [j EXCEPT !.todo = After(c), !.held = held]
  <2>2. CASE GoOnWith(c, k)
    <3>1. /\ DOMAIN k = JobFields /\ k.todo = After(c) /\ k.ask = j.ask /\ k.moved = j.moved
          /\ k.held = held
      BY <1>2 DEF JobFields
    <3>2. IsWhole(packed)
      BY <1>2, PackedIsWhole DEF Stored
    <3>3. IsWhole(held) /\ GoOnWith(c, k)
      BY <2>2, <3>2 DEF IsWhole, PackageFields
    <3> HIDE DEF k, held, packed
    <3>0. After(c) # <<>>
      BY <2>1
    <3>4. JobMoves(c) /\ pkJob'[c] = k /\ IsJob(k)
      BY <1>1, <2>1, <3>0, <3>1, <3>3, StepMoves DEF Mutating
    <3>5. HoldsWhatItNeeds(k)
      BY <2>1, <3>1, <3>3 DEF HoldsWhatItNeeds, Waits
    <3> QED
      BY <1>3, <3>4, <3>5, OneIsShaped DEF JobMoves
  <2>3. PICK bundled \in Bundled(pkSaved.doc.python) :
          IF pkMem.source = "project" /\ bundled THEN GoOnWith(c, k) ELSE Refuse(c)
    BY <1>13 DEF CollectContents
  <2> QED
    BY <1>4, <2>2, <2>3
<1>14. CASE LookForFile(c)
  <2>1. Head(j.todo) = "file" /\ After(c) = <<"save">>
    BY <1>1, <1>2, <1>14, Programs DEF LookForFile, AtJob, IsJob, After
  <2>2. CASE Advance(c)
    <3>0. After(c) # <<>>
      BY <2>1
    <3>1. JobMoves(c) /\ IsJob(pkJob'[c]) /\ pkJob'[c].todo = After(c)
      BY <1>1, <2>1, <2>2, <3>0, AdvanceMoves DEF Mutating
    <3>2. HoldsWhatItNeeds(pkJob'[c])
      BY <2>1, <3>1 DEF HoldsWhatItNeeds, Waits
    <3> QED
      BY <1>3, <3>1, <3>2, OneIsShaped DEF JobMoves
  <2> QED
    BY <1>4, <1>14, <2>2 DEF LookForFile
<1> QED
  BY <1>5, <1>6, <1>7, <1>8, <1>9, <1>10, <1>11, <1>12, <1>13, <1>14

\* The steps that write to something else than the workspace state, or renew
\* the copy.
LEMMA WritingStepKeepsShape ==
    ASSUME PackagesShape, NEW c \in Packers,
           \/ TruncatePackage(c) \/ WritePackage(c) \/ UnpackPackage(c) \/ RefreshCopy(c)
           \/ RemovePlace(c) \/ SaveProject(c) \/ AllowRequired(c) \/ ResolveFlow(c)
           \/ BuildContext(c)
    PROVE  PackagesShape' /\ JobMoves(c)
<1> DEFINE j == pkJob[c]
<1>1. /\ IsJob(j) /\ HoldsWhatItNeeds(j) /\ Serving(c)
  BY DEF PackagesShape, TruncatePackage, WritePackage, UnpackPackage, RefreshCopy, RemovePlace,
         SaveProject, AllowRequired, ResolveFlow, BuildContext, AtJob
<1>2. Stored /\ DOMAIN j = JobFields /\ j.todo # <<>>
  BY <1>1 DEF PackagesShape, Serving, IsJob
<1>3. ASSUME Stored', JobMoves(c), pkJob'[c] = AtRest
      PROVE  PackagesShape' /\ JobMoves(c)
  BY <1>3, RestIsShaped, OneIsShaped DEF JobMoves
<1>4. CASE TruncatePackage(c)
  <2>0. AtJob(c, "truncate")
    BY <1>4 DEF TruncatePackage
  <2>1. Head(j.todo) = "truncate" /\ After(c) = <<"write">>
    BY <1>1, <1>2, <2>0, Programs DEF AtJob, IsJob, After
  <2>2. After(c) # <<>>
    BY <2>1
  <2>3. /\ JobMoves(c) /\ IsJob(pkJob'[c]) /\ pkJob'[c].todo = After(c)
        /\ pkJob'[c].held = j.held
    BY <1>1, <1>4, <2>1, <2>2, AdvanceMoves DEF TruncatePackage, Mutating
  <2>4. HoldsWhatItNeeds(pkJob'[c])
    BY <1>1, <1>2, <2>1, <2>3 DEF HoldsWhatItNeeds, Waits
  <2>5. Stored'
    BY <1>2, <1>4 DEF Stored, TruncatePackage, IsPackage
  <2> QED
    BY <2>3, <2>4, <2>5, OneIsShaped DEF JobMoves
<1>5. CASE WritePackage(c)
  <2>0. AtJob(c, "write")
    BY <1>5 DEF WritePackage
  <2>1. Head(j.todo) = "write" /\ After(c) = <<>>
    BY <1>1, <1>2, <2>0, Programs DEF AtJob, IsJob, After
  <2>2. Advance(c)
    BY <1>5 DEF WritePackage, Advance
  <2>3. JobMoves(c) /\ pkJob'[c] = AtRest
    BY <1>1, <2>1, <2>2, AdvanceMoves DEF Mutating
  <2>4. IsWhole(j.held)
    BY <1>1, <1>2, <2>1 DEF HoldsWhatItNeeds, Waits
  <2>5. Stored'
    BY <1>2, <1>5, <2>4 DEF Stored, WritePackage, IsPackage
  <2> QED
    BY <1>3, <2>3, <2>5
<1>6. CASE UnpackPackage(c)
  <2>0. AtJob(c, "unpack")
    BY <1>6 DEF UnpackPackage
  <2>1. Head(j.todo) = "unpack" /\ After(c) = <<"enter", "refresh">>
    BY <1>1, <1>2, <2>0, Programs DEF AtJob, IsJob, After
  <2>2. PICK place \in SessionDirs :
          /\ pkPlaces[place] = NoPack
          /\ pkPlaces' = [pkPlaces EXCEPT ![place] = pkFile]
          /\ IF IsPackage(pkFile)
             THEN GoOnWith(c, [j EXCEPT !.todo = After(c), !.place = place])
             ELSE Refuse(c)
    BY <1>6 DEF UnpackPackage
  <2>3. Stored'
    BY <1>2, <1>6, <2>2 DEF Stored, UnpackPackage, IsPackage
  <2>4. CASE IsPackage(pkFile)
    <3> DEFINE k == [j EXCEPT !.todo = After(c), !.place = place]
    <3>1. /\ DOMAIN k = JobFields /\ k.todo = After(c) /\ k.ask = j.ask /\ k.moved = j.moved
          /\ k.held = j.held /\ k.place = place
      BY <1>2 DEF JobFields
    <3>2. GoOnWith(c, k)
      BY <2>2, <2>4
    <3> HIDE DEF k
    <3>3. After(c) # <<>>
      BY <2>1
    <3>4. JobMoves(c) /\ pkJob'[c] = k /\ IsJob(k)
      BY <1>1, <2>1, <3>1, <3>2, <3>3, StepMoves DEF Mutating
    <3>5. IsPackage(j.held) /\ IsWhole(j.held)
      BY <1>1, <1>2, <2>1 DEF HoldsWhatItNeeds, Waits
    <3>6. HoldsWhatItNeeds(k)
      BY <2>1, <3>1, <3>5 DEF HoldsWhatItNeeds, Waits
    <3> QED
      BY <2>3, <3>4, <3>6, OneIsShaped DEF JobMoves
  <2>5. CASE ~IsPackage(pkFile)
    BY <1>3, <2>2, <2>3, <2>5, RefuseMoves
  <2> QED
    BY <2>4, <2>5
<1>7. CASE RefreshCopy(c)
  <2>0. AtJob(c, "refresh")
    BY <1>7 DEF RefreshCopy
  <2>1. Head(j.todo) = "refresh" /\ After(c) = <<>>
    BY <1>1, <1>2, <2>0, Programs DEF AtJob, IsJob, After
  <2>2. JobMoves(c) /\ pkJob'[c] = AtRest
    BY <1>1, <1>7, <2>1, AdvanceMoves DEF RefreshCopy, Mutating
  <2>3. Stored'
    BY <1>2, <1>7 DEF Stored, RefreshCopy, IsPackage
  <2> QED
    BY <1>3, <2>2, <2>3
<1>8. CASE RemovePlace(c)
  <2>0. AtJob(c, "remove")
    BY <1>8 DEF RemovePlace
  <2>1. Head(j.todo) = "remove" /\ After(c) = <<"reset">>
    BY <1>1, <1>2, <2>0, Programs DEF AtJob, IsJob, After
  <2>2. After(c) # <<>>
    BY <2>1
  <2>3. JobMoves(c) /\ IsJob(pkJob'[c]) /\ pkJob'[c].todo = After(c)
    BY <1>1, <1>8, <2>1, <2>2, AdvanceMoves DEF RemovePlace, Mutating
  <2>4. HoldsWhatItNeeds(pkJob'[c])
    BY <2>1, <2>3 DEF HoldsWhatItNeeds, Waits
  <2>5. Stored'
    BY <1>2, <1>8 DEF Stored, RemovePlace, IsPackage
  <2> QED
    BY <2>3, <2>4, <2>5, OneIsShaped DEF JobMoves
<1>9. CASE SaveProject(c)
  <2>0. AtJob(c, "save")
    BY <1>9 DEF SaveProject
  <2>1. Head(j.todo) = "save" /\ After(c) = <<>>
    BY <1>1, <1>2, <2>0, Programs DEF AtJob, IsJob, After
  <2>2. JobMoves(c) /\ pkJob'[c] = AtRest
    BY <1>1, <1>9, <2>1, AdvanceMoves DEF SaveProject, Mutating
  <2>3. Stored'
    BY <1>2, <1>9 DEF Stored, SaveProject, IsPackage, IsWorkspace
  <2> QED
    BY <1>3, <2>2, <2>3
<1>10. CASE AllowRequired(c)
  <2>0. AtJob(c, "allow")
    BY <1>10 DEF AllowRequired
  <2>1. Head(j.todo) = "allow" /\ After(c) = <<>>
    BY <1>1, <1>2, <2>0, Programs DEF AtJob, IsJob, After
  <2>2. JobMoves(c) /\ pkJob'[c] = AtRest
    BY <1>1, <1>10, <2>1, AdvanceMoves DEF AllowRequired, Mutating
  <2>3. Stored'
    BY <1>2, <1>10 DEF Stored, AllowRequired, IsPackage
  <2> QED
    BY <1>3, <2>2, <2>3
<1>11. CASE ResolveFlow(c)
  <2>0. AtJob(c, "resolve")
    BY <1>11 DEF ResolveFlow
  <2>1. Head(j.todo) = "resolve" /\ After(c) = <<"prepare">>
    BY <1>1, <1>2, <2>0, Programs DEF AtJob, IsJob, After
  <2> DEFINE k == [j EXCEPT !.todo = After(c), !.doc = pkStore.doc]
  <2>2. /\ DOMAIN k = JobFields /\ k.todo = After(c) /\ k.ask = j.ask /\ k.moved = j.moved
        /\ k.doc = pkStore.doc
    BY <1>2 DEF JobFields
  <2>3. GoOnWith(c, k)
    BY <1>11 DEF ResolveFlow
  <2> HIDE DEF k
  <2>4. After(c) # <<>>
    BY <2>1
  <2>5. JobMoves(c) /\ pkJob'[c] = k /\ IsJob(k)
    BY <1>1, <2>1, <2>2, <2>3, <2>4, StepMoves DEF Mutating
  <2>6. HoldsWhatItNeeds(k)
    BY <2>1, <2>2 DEF HoldsWhatItNeeds, Waits
  <2>7. Stored'
    BY <1>2, <1>11 DEF Stored, ResolveFlow, IsPackage
  <2> QED
    BY <2>5, <2>6, <2>7, OneIsShaped DEF JobMoves
<1>12. CASE BuildContext(c)
  <2>0. AtJob(c, "context")
    BY <1>12 DEF BuildContext
  <2>1. Head(j.todo) = "context" /\ After(c) = <<>>
    BY <1>1, <1>2, <2>0, Programs DEF AtJob, IsJob, After
  <2>2. Advance(c)
    BY <1>12 DEF BuildContext, Advance
  <2>3. JobMoves(c) /\ pkJob'[c] = AtRest
    BY <1>1, <2>1, <2>2, AdvanceMoves DEF Mutating
  <2>4. Stored'
    BY <1>2, <1>12 DEF Stored, BuildContext, IsPackage
  <2> QED
    BY <1>3, <2>3, <2>4
<1> QED
  BY <1>4, <1>5, <1>6, <1>7, <1>8, <1>9, <1>10, <1>11, <1>12

LEMMA WorkspacesAreMade ==
    ASSUME NEW source \in {"blank", "project"}, NEW doc, DOMAIN doc = DocFields, NEW held
    PROVE  IsWorkspace(WorkspaceState(source, doc, held, NoDir))
  BY DEF IsWorkspace, WorkspaceState, WorkspaceFields

\* The steps that change the workspace state: what they make of it, and of the
\* request.
MutatesTo(c, w) ==
    /\ JobMoves(c) /\ pkJob'[c].ask = pkJob[c].ask
    /\ pkJob'[c].todo # <<>> /\ Head(pkJob'[c].todo) = "assign"
    /\ pkStore' = w /\ pkMem' = pkMem

LEMMA MutationKeepsShape ==
    ASSUME PackagesShape, NEW c \in Packers, Serving(c), Head(pkJob[c].todo) \in Mutating,
           NEW w, IsWorkspace(w),
           MutateStore(c, w, [pkJob[c] EXCEPT !.todo = After(c)]),
           UNCHANGED <<pkSaved, pkFile, pkPlaces, pkHost>>, DOMAIN pkRun' = RunFields
    PROVE  PackagesShape' /\ MutatesTo(c, w)
<1> DEFINE j == [pkJob[c] EXCEPT !.todo = After(c)]
<1>1. /\ DOMAIN j = JobFields /\ j.todo = After(c) /\ j.ask = pkJob[c].ask
      /\ j.moved = pkJob[c].moved
  BY DEF PackagesShape, IsJob, JobFields
<1>2. MutateStore(c, w, j)
  OBVIOUS
<1> HIDE DEF j
<1>3. /\ MutatesTo(c, w) /\ IsJob(pkJob'[c]) /\ HoldsWhatItNeeds(pkJob'[c])
  BY <1>1, <1>2, MutationMoves DEF MutatesTo
<1>4. Stored'
  BY <1>3 DEF PackagesShape, Stored, MutatesTo, IsPackage
<1> QED
  BY <1>3, <1>4, OneIsShaped DEF MutatesTo, JobMoves

\* v was copied from what became w, without another package in between: what it
\* holds of the package has not changed, except for the values.
Akin(v, w) ==
    /\ v.source = w.source /\ v.place = w.place
    /\ v.mixed => w.mixed
    /\ (w.source = "package" /\ ~w.mixed) =>
          /\ v.doc.uses = w.doc.uses /\ v.doc.needs = w.doc.needs
          /\ v.doc.assets = w.doc.assets /\ v.doc.python = w.doc.python

\* w holds one package as it was packed. No value is lost from v to w.
Tidy(w) == w.source = "package" /\ ~w.mixed
Wider(v, w) == Tidy(w) => v.doc.bound \subseteq w.doc.bound

\* The steps that change the workspace state and keep the package in it; only a
\* change of the runtime defaults takes values away.
Gentle(c) ==
    /\ pkJob[c].ask \notin Exchanging /\ MutatesTo(c, pkStore')
    /\ Akin(pkStore, pkStore')
    /\ pkJob[c].ask # "defaults" => Wider(pkStore, pkStore')
    /\ UNCHANGED <<pkSaved, pkFile, pkPlaces, pkHost>>

LEMMA BindValueMutates ==
    ASSUME PackagesShape, NEW c \in Packers, BindValue(c)
    PROVE  PackagesShape' /\ Gentle(c) /\ UNCHANGED pkRun
<1>1. Serving(c) /\ Head(pkJob[c].todo) = "value" /\ IsJob(pkJob[c]) /\ Stored
  BY DEF PackagesShape, BindValue, AtJob
<1>2. pkJob[c].ask = "bind"
  BY <1>1, Programs DEF IsJob, Serving
<1> DEFINE w == [pkStore EXCEPT !.doc.bound = @ \cup pkJob[c].doc.needs]
<1>3. MutateStore(c, w, [pkJob[c] EXCEPT !.todo = After(c)])
  BY DEF BindValue
<1>4. IsWorkspace(w) /\ Akin(pkStore, w) /\ Wider(pkStore, w)
  BY <1>1 DEF Stored, IsWorkspace, Akin, Wider, Tidy, WorkspaceFields, DocFields
<1>5. UNCHANGED <<pkSaved, pkFile, pkPlaces, pkRun, pkHost>> /\ DOMAIN pkRun = RunFields
  BY <1>1 DEF BindValue, Stored
<1> HIDE DEF w
<1>6. PackagesShape' /\ MutatesTo(c, w)
  BY <1>1, <1>3, <1>4, <1>5, MutationKeepsShape DEF Mutating
<1> QED
  BY <1>2, <1>4, <1>5, <1>6 DEF Gentle, MutatesTo, Exchanging

LEMMA ChangeFlowMutates ==
    ASSUME PackagesShape, NEW c \in Packers, ChangeFlow(c)
    PROVE  PackagesShape' /\ Gentle(c) /\ UNCHANGED pkRun
<1>1. Serving(c) /\ Head(pkJob[c].todo) = "change" /\ IsJob(pkJob[c]) /\ Stored
  BY DEF PackagesShape, ChangeFlow, AtJob
<1>2. pkJob[c].ask = "edit"
  BY <1>1, Programs DEF IsJob, Serving
<1>3. PICK uses \in SUBSET Keys, bound \in {{}, pkStore.doc.needs} :
        MutateStore(c, [pkStore EXCEPT !.doc.uses = uses, !.doc.bound = bound,
                                  !.mixed = @ \/ pkStore.source = "package"],
                    [pkJob[c] EXCEPT !.todo = After(c)])
  BY DEF ChangeFlow
<1> DEFINE w == [pkStore EXCEPT !.doc.uses = uses, !.doc.bound = bound,
                           !.mixed = @ \/ pkStore.source = "package"]
<1>4. IsWorkspace(w) /\ Akin(pkStore, w) /\ Wider(pkStore, w)
  BY <1>1 DEF Stored, IsWorkspace, Akin, Wider, Tidy, WorkspaceFields, DocFields
<1>5. UNCHANGED <<pkSaved, pkFile, pkPlaces, pkRun, pkHost>> /\ DOMAIN pkRun = RunFields
  BY <1>1 DEF ChangeFlow, Stored
<1>6. MutateStore(c, w, [pkJob[c] EXCEPT !.todo = After(c)])
  BY <1>3
<1> HIDE DEF w
<1>7. PackagesShape' /\ MutatesTo(c, w)
  BY <1>1, <1>4, <1>5, <1>6, MutationKeepsShape DEF Mutating
<1> QED
  BY <1>2, <1>4, <1>5, <1>7 DEF Gentle, MutatesTo, Exchanging

LEMMA ChangeDefaultsMutates ==
    ASSUME PackagesShape, NEW c \in Packers, ChangeDefaults(c)
    PROVE  PackagesShape' /\ Gentle(c) /\ UNCHANGED pkRun
<1>1. Serving(c) /\ Head(pkJob[c].todo) = "default" /\ IsJob(pkJob[c]) /\ Stored
  BY DEF PackagesShape, ChangeDefaults, AtJob
<1>2. pkJob[c].ask = "defaults"
  BY <1>1, Programs DEF IsJob, Serving
<1>3. PICK bound \in SUBSET pkStore.doc.needs :
        MutateStore(c, [pkStore EXCEPT !.doc.bound = bound], [pkJob[c] EXCEPT !.todo = After(c)])
  BY DEF ChangeDefaults
<1> DEFINE w == [pkStore EXCEPT !.doc.bound = bound]
<1>4. IsWorkspace(w) /\ Akin(pkStore, w)
  BY <1>1 DEF Stored, IsWorkspace, Akin, WorkspaceFields, DocFields
<1>5. UNCHANGED <<pkSaved, pkFile, pkPlaces, pkRun, pkHost>> /\ DOMAIN pkRun = RunFields
  BY <1>1 DEF ChangeDefaults, Stored
<1>6. MutateStore(c, w, [pkJob[c] EXCEPT !.todo = After(c)])
  BY <1>3
<1> HIDE DEF w
<1>7. PackagesShape' /\ MutatesTo(c, w)
  BY <1>1, <1>4, <1>5, <1>6, MutationKeepsShape DEF Mutating
<1> QED
  BY <1>2, <1>4, <1>5, <1>7 DEF Gentle, MutatesTo, Exchanging

LEMMA ChangeRegistryMutates ==
    ASSUME PackagesShape, NEW c \in Packers, ChangeRegistry(c)
    PROVE  PackagesShape' /\ Gentle(c) /\ UNCHANGED pkRun
<1>1. Serving(c) /\ Head(pkJob[c].todo) = "register" /\ IsJob(pkJob[c]) /\ Stored
  BY DEF PackagesShape, ChangeRegistry, AtJob
<1>2. pkJob[c].ask = "register"
  BY <1>1, Programs DEF IsJob, Serving
<1>3. PICK key \in Keys :
        MutateStore(c, [pkStore EXCEPT !.registry = IF key \in @ THEN @ \ {key} ELSE @ \cup {key}],
                    [pkJob[c] EXCEPT !.todo = After(c)])
  BY DEF ChangeRegistry
<1> DEFINE w == [pkStore EXCEPT !.registry = IF key \in @ THEN @ \ {key} ELSE @ \cup {key}]
<1>4. IsWorkspace(w) /\ Akin(pkStore, w) /\ Wider(pkStore, w)
  BY <1>1 DEF Stored, IsWorkspace, Akin, Wider, Tidy, WorkspaceFields, DocFields
<1>5. UNCHANGED <<pkSaved, pkFile, pkPlaces, pkRun, pkHost>> /\ DOMAIN pkRun = RunFields
  BY <1>1 DEF ChangeRegistry, Stored
<1>6. MutateStore(c, w, [pkJob[c] EXCEPT !.todo = After(c)])
  BY <1>3
<1> HIDE DEF w
<1>7. PackagesShape' /\ MutatesTo(c, w)
  BY <1>1, <1>4, <1>5, <1>6, MutationKeepsShape DEF Mutating
<1> QED
  BY <1>2, <1>4, <1>5, <1>7 DEF Gentle, MutatesTo, Exchanging

\* A start that is refused leaves everything; otherwise the session enters.
LEMMA PrepareRunMutates ==
    ASSUME PackagesShape, NEW c \in Packers, PrepareRun(c)
    PROVE  /\ PackagesShape' /\ pkJob[c].ask = "start"
           /\ \/ JobMoves(c) /\ UNCHANGED <<pkStore, pkMem, pkSaved, pkFile, pkPlaces, pkRun, pkHost>>
                 /\ pkJob'[c] = AtRest
              \/ /\ Gentle(c)
                 /\ pkStore' = [pkStore EXCEPT !.run = TRUE]
                 /\ pkRun' = [NoRun EXCEPT !.at = "started", !.doc = pkJob[c].doc,
                                 !.source = pkMem.source, !.disturbed = pkJob[c].moved,
                                 !.revoked = pkJob[c].revoked]
<1>1. Serving(c) /\ Head(pkJob[c].todo) = "prepare" /\ IsJob(pkJob[c]) /\ Stored
  BY DEF PackagesShape, PrepareRun, AtJob
<1>2. pkJob[c].ask = "start"
  BY <1>1, Programs DEF IsJob, Serving
<1>3. CASE ~(pkJob[c].doc.uses \subseteq pkMem.registry)
  <2>1. Refuse(c) /\ UNCHANGED <<pkStore, pkMem, pkSaved, pkFile, pkPlaces, pkRun, pkHost>>
    BY <1>3 DEF PrepareRun
  <2>2. Stored'
    BY <1>1, <2>1 DEF Stored, IsPackage
  <2> QED
    BY <1>2, <2>1, <2>2, RefuseMoves, RestIsShaped, OneIsShaped DEF JobMoves
<1>4. CASE pkJob[c].doc.uses \subseteq pkMem.registry
  <2> DEFINE w == [pkStore EXCEPT !.run = TRUE]
             r == [NoRun EXCEPT !.at = "started", !.doc = pkJob[c].doc,
                           !.source = pkMem.source, !.disturbed = pkJob[c].moved,
                           !.revoked = pkJob[c].revoked]
  <2>1. /\ MutateStore(c, w, [pkJob[c] EXCEPT !.todo = After(c)])
        /\ pkRun' = r /\ UNCHANGED <<pkSaved, pkFile, pkPlaces, pkHost>>
    BY <1>4 DEF PrepareRun
  <2>2. IsWorkspace(w) /\ Akin(pkStore, w) /\ Wider(pkStore, w)
    BY <1>1 DEF Stored, IsWorkspace, Akin, Wider, Tidy, WorkspaceFields
  <2>3. DOMAIN r = RunFields
    BY DEF NoRun, RunFields
  <2> HIDE DEF w, r
  <2>4. PackagesShape' /\ MutatesTo(c, w)
    BY <1>1, <2>1, <2>2, <2>3, MutationKeepsShape DEF Mutating
  <2>5. Gentle(c)
    BY <1>2, <2>1, <2>2, <2>4 DEF Gentle, MutatesTo, Exchanging
  <2> QED
    BY <1>2, <2>1, <2>4, <2>5 DEF MutatesTo, w, r
<1> QED
  BY <1>3, <1>4

LEMMA EnterPackageMutates ==
    ASSUME PackagesShape, NEW c \in Packers, EnterPackage(c)
    PROVE  /\ PackagesShape' /\ pkJob[c].ask = "load" /\ JobMoves(c)
           /\ LET j == pkJob[c]
              IN  /\ IsPackage(j.held) /\ j.place \in SessionDirs
                  /\ pkStore' = [WorkspaceState("package", j.held.doc, LoadedRegistry(j.held), j.place)
                                   EXCEPT !.mixed = j.held # pkPlaces[j.place]]
           /\ pkMem' = pkMem
           /\ UNCHANGED <<pkSaved, pkFile, pkPlaces, pkRun, pkHost>>
<1> DEFINE j == pkJob[c]
<1>1. /\ Serving(c) /\ Head(j.todo) = "enter" /\ IsJob(j) /\ Stored
      /\ HoldsWhatItNeeds(j)
  BY DEF PackagesShape, EnterPackage, AtJob
<1>2. j.ask = "load"
  BY <1>1, Programs DEF IsJob, Serving
<1>3. IsPackage(j.held) /\ IsWhole(j.held) /\ j.place \in SessionDirs
  BY <1>1 DEF HoldsWhatItNeeds, Waits, Serving
<1> DEFINE w == [WorkspaceState("package", j.held.doc, LoadedRegistry(j.held), j.place)
                   EXCEPT !.mixed = j.held # pkPlaces[j.place]]
<1>4. /\ MutateStore(c, w, [j EXCEPT !.todo = After(c)])
      /\ UNCHANGED <<pkSaved, pkFile, pkPlaces, pkRun, pkHost>>
  BY DEF EnterPackage
<1>5. IsWorkspace(w)
  BY <1>3, PackagesAssumption DEF IsWorkspace, WorkspaceState, WorkspaceFields, IsWhole
<1>6. DOMAIN pkRun = RunFields
  BY <1>1 DEF Stored
<1> HIDE DEF w
<1>7. PackagesShape' /\ MutatesTo(c, w)
  BY <1>1, <1>4, <1>5, <1>6, MutationKeepsShape DEF Mutating
<1> QED
  BY <1>2, <1>3, <1>4, <1>7 DEF MutatesTo, w

LEMMA ResetPackageMutates ==
    ASSUME PackagesShape, NEW c \in Packers, ResetPackage(c)
    PROVE  /\ PackagesShape' /\ pkJob[c].ask = "unload" /\ JobMoves(c)
           /\ pkStore' = BlankState /\ pkMem' = pkMem
           /\ UNCHANGED <<pkSaved, pkFile, pkPlaces, pkRun, pkHost>>
<1>1. Serving(c) /\ Head(pkJob[c].todo) = "reset" /\ IsJob(pkJob[c]) /\ Stored
  BY DEF PackagesShape, ResetPackage, AtJob
<1>2. pkJob[c].ask = "unload"
  BY <1>1, Programs DEF IsJob, Serving
<1>3. IsWorkspace(BlankState)
  BY WorkspacesAreMade DEF BlankState, EmptyDoc, DocFields
<1>4. /\ UNCHANGED <<pkSaved, pkFile, pkPlaces, pkRun, pkHost>> /\ DOMAIN pkRun = RunFields
      /\ MutateStore(c, BlankState, [pkJob[c] EXCEPT !.todo = After(c)])
  BY <1>1 DEF ResetPackage, Stored
<1>5. PackagesShape' /\ MutatesTo(c, BlankState)
  BY <1>1, <1>3, <1>4, MutationKeepsShape DEF Mutating
<1> QED
  BY <1>2, <1>4, <1>5 DEF MutatesTo

LEMMA OpenProjectMutates ==
    ASSUME PackagesShape, NEW c \in Packers, OpenProject(c)
    PROVE  /\ PackagesShape' /\ pkJob[c].ask = "open" /\ JobMoves(c)
           /\ pkStore'.source = "project" /\ pkMem' = pkMem
           /\ UNCHANGED <<pkSaved, pkFile, pkPlaces, pkRun, pkHost>>
<1> DEFINE w == pkJob[c].copy[1]
<1>1. /\ Serving(c) /\ Head(pkJob[c].todo) = "open" /\ IsJob(pkJob[c]) /\ Stored
      /\ HoldsWhatItNeeds(pkJob[c])
  BY DEF PackagesShape, OpenProject, AtJob
<1>2. pkJob[c].ask = "open"
  BY <1>1, Programs DEF IsJob, Serving
<1>3. IsWorkspace(w) /\ w.source = "project"
  BY <1>1 DEF HoldsWhatItNeeds, Waits, Serving
<1>4. /\ UNCHANGED <<pkSaved, pkFile, pkPlaces, pkRun, pkHost>> /\ DOMAIN pkRun = RunFields
      /\ MutateStore(c, w, [pkJob[c] EXCEPT !.todo = After(c)])
  BY <1>1 DEF OpenProject, Stored
<1> HIDE DEF w
<1>5. PackagesShape' /\ MutatesTo(c, w)
  BY <1>1, <1>3, <1>4, MutationKeepsShape DEF Mutating
<1> QED
  BY <1>2, <1>3, <1>4, <1>5 DEF MutatesTo

\* The steps that change more than one request.
LEMMA ProgramsBegin ==
    ASSUME NEW ask \in PackageAsks
    PROVE  Job(ask) \in Rests(ask) /\ Job(ask) # <<>>
           /\ Head(Job(ask)) \in PackageSteps \ {"assign", "open", "unpack", "enter", "collect",
                                             "truncate", "write"}
           /\ Head(Job(ask)) \notin {"workspace", "resolve", "prepare", "reset"}
<1>1. CASE ask = "build"
  BY <1>1 DEF Job, Rests, PackageSteps
<1>2. CASE ask = "load"
  BY <1>2 DEF Job, Rests, PackageSteps
<1>3. CASE ask = "unload"
  BY <1>3 DEF Job, Rests, PackageSteps
<1>4. CASE ask = "bind"
  BY <1>4 DEF Job, Rests, PackageSteps
<1>5. CASE ask = "start"
  BY <1>5 DEF Job, Rests, PackageSteps
<1>6. CASE ask = "run"
  BY <1>6 DEF Job, Rests, PackageSteps
<1>7. CASE ask = "open"
  BY <1>7 DEF Job, Rests, PackageSteps
<1>8. CASE ask = "edit"
  BY <1>8 DEF Job, Rests, PackageSteps
<1>9. CASE ask = "save"
  BY <1>9 DEF Job, Rests, PackageSteps
<1>10. CASE ask = "register"
  BY <1>10 DEF Job, Rests, PackageSteps
<1>11. CASE ask = "allow"
  BY <1>11 DEF Job, Rests, PackageSteps
<1>12. CASE ask = "defaults"
  BY <1>12 DEF Job, Rests, PackageSteps
<1>13. CASE ask = "forbid"
  BY <1>13 DEF Job, Rests, PackageSteps
<1> QED
  BY <1>1, <1>2, <1>3, <1>4, <1>5, <1>6, <1>7, <1>8, <1>9, <1>10, <1>11, <1>12, <1>13
  DEF PackageAsks

\* The other requests stay as they are, except that one may take notice.
Notice(c, seen) ==
    /\ DOMAIN pkJob' = Packers
    /\ \A d \in Packers \ {c} :
          /\ DOMAIN pkJob'[d] = DOMAIN pkJob[d]
          /\ pkJob'[d].todo = pkJob[d].todo /\ pkJob'[d].ask = pkJob[d].ask
          /\ pkJob'[d].held = pkJob[d].held /\ pkJob'[d].place = pkJob[d].place
          /\ pkJob'[d].doc = pkJob[d].doc /\ pkJob'[d].copy = pkJob[d].copy
          /\ pkJob'[d].revoked = pkJob[d].revoked
          /\ pkJob[d].moved => pkJob'[d].moved
          /\ Serving(d) /\ seen => pkJob'[d].moved

LEMMA NoticeKeepsShape ==
    ASSUME PackagesShape, NEW c \in Packers, NEW seen, Notice(c, seen), IsJob(pkJob'[c]),
           HoldsWhatItNeeds(pkJob'[c]), Stored'
    PROVE  PackagesShape'
<1>1. ASSUME NEW d \in Packers \ {c}
      PROVE  IsJob(pkJob'[d]) /\ HoldsWhatItNeeds(pkJob'[d])
  <2>1. IsJob(pkJob[d]) /\ HoldsWhatItNeeds(pkJob[d])
    BY DEF PackagesShape
  <2>2. IsJob(pkJob'[d])
    BY <2>1 DEF Notice, IsJob
  <2>3. HoldsWhatItNeeds(pkJob'[d])
    BY <2>1 DEF Notice, HoldsWhatItNeeds, Waits
  <2> QED
    BY <2>2, <2>3
<1> QED
  BY <1>1 DEF PackagesShape, Notice

LEMMA EnteringKeepsShape ==
    ASSUME PackagesShape, NEW c \in Packers, EnterJob(c)
    PROVE  /\ PackagesShape' /\ ~Serving(c)
           /\ UNCHANGED <<pkStore, pkSaved, pkFile, pkPlaces, pkHost>>
           /\ \E ask \in PackageAsks :
                 /\ pkMem' = IF ask \in Refreshing THEN pkStore ELSE pkMem
                 /\ pkJob'[c].ask = ask /\ pkJob'[c].todo = Job(ask)
                 /\ ~pkJob'[c].moved => ~Disturbed(c, ask) /\ pkMem' = pkStore
                 /\ Notice(c, ask \in Exchanging)
                 /\ \A d \in Packers \ {c} :
                       Serving(d) /\ Disturbs(ask, pkJob[d].ask) => pkJob'[d].moved
                 /\ pkRun' = [pkRun EXCEPT !.disturbed = @ \/ (pkRun.at # "none" /\ ask \in Exchanging)]
<1>1. PICK ask \in PackageAsks :
        /\ pkMem' = IF ask \in Refreshing THEN pkStore ELSE pkMem
        /\ pkJob' = [d \in Packers |->
              IF d = c THEN [AtRest EXCEPT !.todo = Job(ask), !.ask = ask,
                               !.moved = Disturbed(c, ask) \/ pkMem' # pkStore]
              ELSE [pkJob[d] EXCEPT !.moved = @ \/ (Serving(d) /\ Disturbs(ask, pkJob[d].ask))]]
        /\ pkRun' = [pkRun EXCEPT !.disturbed = @ \/ (pkRun.at # "none" /\ ask \in Exchanging)]
  BY DEF EnterJob
<1>2. /\ UNCHANGED <<pkStore, pkSaved, pkFile, pkPlaces, pkHost>> /\ ~Serving(c)
  BY DEF EnterJob
<1> DEFINE k == [AtRest EXCEPT !.todo = Job(ask), !.ask = ask,
                   !.moved = Disturbed(c, ask) \/ pkMem' # pkStore]
<1>3. /\ DOMAIN k = JobFields /\ k.ask = ask /\ k.todo = Job(ask)
      /\ ~k.moved => ~Disturbed(c, ask) /\ pkMem' = pkStore
  BY DEF AtRest, JobFields
<1>4. pkJob'[c] = k
  BY <1>1
<1> HIDE DEF k
<1>5. IsJob(k)
  BY <1>3, ProgramsBegin DEF IsJob
<1>6. HoldsWhatItNeeds(k)
  BY <1>3, ProgramsBegin DEF HoldsWhatItNeeds, Waits
<1>7. \A d \in Packers : DOMAIN pkJob[d] = JobFields
  BY DEF PackagesShape, IsJob
<1>8. /\ Notice(c, ask \in Exchanging)
      /\ \A d \in Packers \ {c} :
            Serving(d) /\ Disturbs(ask, pkJob[d].ask) => pkJob'[d].moved
  BY <1>1, <1>7 DEF Notice, JobFields, Disturbs
<1>9. Stored'
  BY <1>1, <1>2 DEF PackagesShape, Stored, IsPackage
<1> QED
  BY <1>1, <1>2, <1>3, <1>4, <1>5, <1>6, <1>8, <1>9, NoticeKeepsShape

LEMMA AssigningKeepsShape ==
    ASSUME PackagesShape, NEW c \in Packers, AssignState(c)
    PROVE  /\ PackagesShape' /\ AtJob(c, "assign")
           /\ pkMem' = pkJob[c].copy[1]
           /\ UNCHANGED <<pkStore, pkSaved, pkFile, pkPlaces, pkRun, pkHost>>
           /\ Notice(c, pkMem' # pkStore)
           /\ \/ pkJob'[c] = AtRest
              \/ pkJob'[c].ask = "load" /\ pkJob[c].ask = "load" /\ pkJob'[c].todo = <<"refresh">>
              \/ /\ pkJob'[c].ask = "defaults" /\ pkJob[c].ask = "defaults"
                 /\ pkJob'[c].todo = <<"file", "save">>
<1> DEFINE k == [pkJob[c] EXCEPT !.todo = After(c), !.copy = <<>>]
           stale == pkJob[c].copy[1] # pkStore
<1>1. /\ AtJob(c, "assign") /\ pkMem' = pkJob[c].copy[1]
      /\ pkJob' = [d \in Packers |->
           IF d = c THEN Resumed(k)
           ELSE [pkJob[d] EXCEPT !.moved = @ \/ (Serving(d) /\ stale)]]
      /\ UNCHANGED <<pkStore, pkSaved, pkFile, pkPlaces, pkRun, pkHost, pkTurns>>
  BY DEF AssignState
<1>2. IsJob(pkJob[c]) /\ HoldsWhatItNeeds(pkJob[c]) /\ pkJob[c].todo # <<>> /\ Stored
  BY <1>1 DEF PackagesShape, AtJob, Serving
<1>3. IsWorkspace(pkJob[c].copy[1])
  BY <1>1, <1>2 DEF AtJob, HoldsWhatItNeeds, Waits
<1>4. \/ After(c) = <<>>
      \/ pkJob[c].ask = "load" /\ After(c) = <<"refresh">>
      \/ pkJob[c].ask = "defaults" /\ After(c) = <<"file", "save">>
  BY <1>1, <1>2, Programs DEF AtJob, After, IsJob
<1>5. DOMAIN k = JobFields /\ k.todo = After(c) /\ k.ask = pkJob[c].ask
  BY <1>2 DEF IsJob, JobFields
<1>6. pkJob'[c] = IF k.todo = <<>> THEN AtRest ELSE k
  BY <1>1 DEF Resumed
<1> HIDE DEF k
<1>7. /\ IsJob(pkJob'[c]) /\ HoldsWhatItNeeds(pkJob'[c])
      /\ \/ pkJob'[c] = AtRest
         \/ pkJob'[c].ask = "load" /\ pkJob[c].ask = "load" /\ pkJob'[c].todo = <<"refresh">>
         \/ /\ pkJob'[c].ask = "defaults" /\ pkJob[c].ask = "defaults"
            /\ pkJob'[c].todo = <<"file", "save">>
  <2>1. CASE After(c) = <<>>
    BY <1>5, <1>6, <2>1, RestIsShaped
  <2>2. CASE pkJob[c].ask = "load" /\ After(c) = <<"refresh">>
    <3>1. After(c) # <<>> /\ Head(After(c)) = "refresh"
      BY <2>2
    <3>2. pkJob'[c] = k
      BY <1>5, <1>6, <3>1
    <3>3. After(c) \in Rests("load")
      BY <2>2 DEF Rests
    <3>4. IsJob(k)
      BY <1>5, <2>2, <3>3 DEF IsJob, PackageAsks
    <3>5. HoldsWhatItNeeds(k)
      BY <1>5, <3>1 DEF HoldsWhatItNeeds, Waits
    <3> QED
      BY <1>5, <2>2, <3>2, <3>4, <3>5
  <2>3. CASE pkJob[c].ask = "defaults" /\ After(c) = <<"file", "save">>
    <3>1. After(c) # <<>> /\ Head(After(c)) = "file"
      BY <2>3
    <3>2. pkJob'[c] = k
      BY <1>5, <1>6, <3>1
    <3>3. After(c) \in Rests("defaults")
      BY <2>3 DEF Rests
    <3>4. IsJob(k)
      BY <1>5, <2>3, <3>3 DEF IsJob, PackageAsks
    <3>5. HoldsWhatItNeeds(k)
      BY <1>5, <3>1 DEF HoldsWhatItNeeds, Waits
    <3> QED
      BY <1>5, <2>3, <3>2, <3>4, <3>5
  <2> QED
    BY <1>4, <2>1, <2>2, <2>3
<1>8. \A d \in Packers : DOMAIN pkJob[d] = JobFields
  BY DEF PackagesShape, IsJob
<1>9. Notice(c, stale)
  BY <1>1, <1>8 DEF Notice, JobFields
<1>10. Stored'
  BY <1>1, <1>2, <1>3 DEF Stored, IsPackage
<1> HIDE DEF stale
<1>11. stale <=> pkMem' # pkStore
  BY <1>1 DEF stale
<1>12. Notice(c, pkMem' # pkStore)
  BY <1>9, <1>11 DEF Notice
<1> QED
  BY <1>1, <1>7, <1>10, <1>12, NoticeKeepsShape

\* Something is forbidden: the starts and the session take notice.
LEMMA ForbiddingKeepsShape ==
    ASSUME PackagesShape, NEW c \in Packers, ForbidRequired(c)
    PROVE  /\ PackagesShape' /\ AtJob(c, "forbid") /\ pkJob'[c] = AtRest
           /\ UNCHANGED <<pkStore, pkMem, pkSaved, pkFile, pkPlaces>>
           /\ pkHost'.platform = pkHost.platform
           /\ pkRun' = [pkRun EXCEPT !.revoked = @ \/ pkRun.at # "none"]
           /\ \A d \in Packers \ {c} :
                 /\ pkJob'[d].todo = pkJob[d].todo /\ pkJob'[d].ask = pkJob[d].ask
                 /\ pkJob'[d].held = pkJob[d].held /\ pkJob'[d].doc = pkJob[d].doc
                 /\ pkJob'[d].moved = pkJob[d].moved
                 /\ pkJob[d].ask = "start" => pkJob'[d].revoked
<1>1. /\ AtJob(c, "forbid") /\ UNCHANGED <<pkStore, pkMem, pkSaved, pkFile, pkPlaces>>
      /\ pkHost' = [pkHost EXCEPT !.allowed = FALSE]
      /\ pkRun' = [pkRun EXCEPT !.revoked = @ \/ pkRun.at # "none"]
      /\ pkJob' = [d \in Packers |->
            IF d = c THEN AtRest
            ELSE [pkJob[d] EXCEPT !.revoked = @ \/ pkJob[d].ask = "start"]]
  BY DEF ForbidRequired
<1>2. \A d \in Packers : DOMAIN pkJob[d] = JobFields
  BY DEF PackagesShape, IsJob
<1>3. ASSUME NEW d \in Packers \ {c}
      PROVE  /\ DOMAIN pkJob'[d] = JobFields
             /\ pkJob'[d].todo = pkJob[d].todo /\ pkJob'[d].ask = pkJob[d].ask
             /\ pkJob'[d].held = pkJob[d].held /\ pkJob'[d].doc = pkJob[d].doc
             /\ pkJob'[d].place = pkJob[d].place /\ pkJob'[d].copy = pkJob[d].copy
             /\ pkJob'[d].moved = pkJob[d].moved
             /\ pkJob[d].ask = "start" => pkJob'[d].revoked
  BY <1>1, <1>2 DEF JobFields
<1>4. ASSUME NEW d \in Packers \ {c}
      PROVE  IsJob(pkJob'[d]) /\ HoldsWhatItNeeds(pkJob'[d])
  <2>1. IsJob(pkJob[d]) /\ HoldsWhatItNeeds(pkJob[d])
    BY DEF PackagesShape
  <2>2. IsJob(pkJob'[d])
    BY <1>3, <2>1 DEF IsJob
  <2>3. HoldsWhatItNeeds(pkJob'[d])
    BY <1>3, <2>1 DEF HoldsWhatItNeeds, Waits
  <2> QED
    BY <2>2, <2>3
<1>5. pkJob'[c] = AtRest /\ DOMAIN pkJob' = Packers
  BY <1>1
<1>6. Stored'
  BY <1>1 DEF PackagesShape, Stored, IsPackage
<1>7. PackagesShape'
  BY <1>4, <1>5, <1>6, RestIsShaped DEF PackagesShape
<1>8. pkHost'.platform = pkHost.platform
  BY <1>1 DEF PackagesShape, Stored
<1> QED
  BY <1>1, <1>3, <1>5, <1>7, <1>8

LEMMA EndingKeepsShape ==
    ASSUME PackagesShape, EndRun
    PROVE  /\ PackagesShape' /\ UNCHANGED pkJob
           /\ pkStore' = [pkStore EXCEPT !.run = FALSE] /\ pkMem' = pkStore'
           /\ Akin(pkStore, pkStore') /\ pkRun' = NoRun
           /\ UNCHANGED <<pkSaved, pkFile, pkPlaces, pkHost>>
<1>1. /\ UNCHANGED <<pkSaved, pkFile, pkPlaces, pkHost, pkJob>> /\ pkRun' = NoRun
      /\ pkStore' = [pkStore EXCEPT !.run = FALSE] /\ pkMem' = pkStore'
  BY DEF EndRun
<1>2. Stored
  BY DEF PackagesShape
<1>3. IsWorkspace(pkStore') /\ Akin(pkStore, pkStore')
  BY <1>1, <1>2 DEF Stored, IsWorkspace, Akin, WorkspaceFields
<1>4. DOMAIN NoRun = RunFields
  BY DEF NoRun, RunFields
<1>5. Stored'
  BY <1>1, <1>2, <1>3, <1>4 DEF Stored, IsPackage
<1> QED
  BY <1>1, <1>3, <1>5 DEF PackagesShape

LEMMA PackagesBeginShaped ==
    ASSUME PackagesInit
    PROVE  PackagesShape /\ \A c \in Packers : ~Serving(c)
<1>1. /\ DOMAIN pkSaved = {"doc", "registry", "files"} /\ DOMAIN pkSaved.doc = DocFields
  BY ProjectsAssumption DEF PackagesInit, EmptyDoc, DocFields
<1>2. IsWorkspace(pkStore) /\ pkMem = pkStore
  BY <1>1, WorkspacesAreMade DEF PackagesInit, OpenedState
<1>3. IsPackage(pkFile) => IsWhole(pkFile)
  <2>1. ASSUME NEW p \in PackedProjects
        PROVE  IsWhole(Packed(p, p.registry))
    BY PackedIsWhole, ProjectsAssumption DEF EmptyDoc, DocFields
  <2> QED
    BY <2>1 DEF PackagesInit, IsPackage
<1>4. Stored
  BY <1>1, <1>2, <1>3 DEF PackagesInit, Stored, NoRun, RunFields, IsPackage
<1> QED
  BY <1>4, RestIsShaped DEF PackagesInit, PackagesShape, Serving

\* Every step keeps the shape; one that is not of these kinds is of a request
\* that goes on by itself.
LEMMA ShapeIsKept ==
    ASSUME PackagesShape, [PackagesNext]_pkVars
    PROVE  PackagesShape'
<1>1. CASE UNCHANGED pkVars
  BY <1>1 DEF pkVars, PackagesShape, Stored, IsPackage
<1>2. CASE EndRun
  BY <1>2, EndingKeepsShape
<1>3. ASSUME NEW c \in Packers, EnterJob(c) \/ AssignState(c)
      PROVE  PackagesShape'
  BY <1>3, EnteringKeepsShape, AssigningKeepsShape
<1>4. ASSUME NEW c \in Packers,
             \/ EnterPackage(c) \/ ResetPackage(c) \/ BindValue(c) \/ PrepareRun(c)
             \/ OpenProject(c) \/ ChangeFlow(c) \/ ChangeDefaults(c) \/ ChangeRegistry(c)
      PROVE  PackagesShape'
  BY <1>4, EnterPackageMutates, ResetPackageMutates, BindValueMutates, PrepareRunMutates,
     OpenProjectMutates, ChangeFlowMutates, ChangeDefaultsMutates, ChangeRegistryMutates
<1> QED
  BY <1>1, <1>2, <1>3, <1>4, PlainStepKeepsShape, WritingStepKeepsShape, ForbiddingKeepsShape
  DEF PackagesNext

\* Every reachable state is shaped: the requests stay within their bound, the
\* session is in one of its phases, and the workspace state and its copy name a
\* directory exactly when they hold a package.
THEOREM PackagesTypeSafe == PackagesSpec => []PackagesTypeOK
<1> DEFINE IInv == PackagesShape /\ PackagesTypeOK
<1>1. PackagesInit => IInv
  <2> SUFFICES ASSUME PackagesInit PROVE IInv
    OBVIOUS
  <2>1. PackagesShape
    BY PackagesBeginShaped
  <2>2. PackagesTypeOK
    BY <2>1, PackagesAssumption DEF PackagesShape, Stored, IsWorkspace, PackagesTypeOK,
       PackagesInit, NoRun
  <2> QED
    BY <2>1, <2>2
<1>2. IInv /\ [PackagesNext]_pkVars => IInv'
  <2> SUFFICES ASSUME IInv, [PackagesNext]_pkVars PROVE IInv'
    OBVIOUS
  <2>1. PackagesShape'
    BY ShapeIsKept
  <2>2. pkTurns' \in 0..MaxPackageJobs
    <3>1. CASE \E c \in Packers : EnterJob(c)
      BY <3>1, PackagesAssumption DEF PackagesTypeOK, EnterJob
    <3>2. CASE UNCHANGED pkTurns
      BY <3>2 DEF PackagesTypeOK
    <3> QED
      BY <3>1, <3>2
      DEF PackagesNext, pkVars, EndRun, AssignState, CheckPackage,
        CollectContents, TruncatePackage, WritePackage, InspectPackage, UnpackPackage,
        EnterPackage, RefreshCopy, RemovePlace, ResetPackage, LookUpName, BindValue,
        CheckRequirements, CheckWorkspace, ResolveFlow, PrepareRun, FindSession, BuildContext,
        ReadProject, OpenProject, CheckWritable, ChangeFlow, ChangeDefaults, LookForFile,
        SaveProject, ChangeRegistry, AllowRequired, ForbidRequired
  <2>3. pkRun'.at \in {"none", "started", "running"}
    <3> USE DEF PackagesTypeOK
    <3>1. ASSUME NEW c \in Packers, PrepareRun(c)
          PROVE  pkRun'.at \in {"none", "started", "running"}
      <4>1. \/ UNCHANGED pkRun
            \/ pkRun' = [NoRun EXCEPT !.at = "started", !.doc = pkJob[c].doc,
                           !.source = pkMem.source, !.disturbed = pkJob[c].moved,
                           !.revoked = pkJob[c].revoked]
        BY <3>1, PrepareRunMutates
      <4> QED
        BY <4>1 DEF NoRun
    <3>5. CASE EndRun
      BY <3>5 DEF EndRun, NoRun
    <3>2. ASSUME NEW c \in Packers, EnterJob(c)
          PROVE  pkRun'.at \in {"none", "started", "running"}
      <4>1. PICK ask \in PackageAsks :
              pkRun' = [pkRun EXCEPT !.disturbed = @ \/ (pkRun.at # "none" /\ ask \in Exchanging)]
        BY <3>2, EnteringKeepsShape
      <4> QED
        BY <4>1 DEF PackagesShape, Stored, RunFields
    <3>3. CASE \E c \in Packers : BuildContext(c)
      BY <3>3 DEF BuildContext, PackagesShape, Stored, RunFields
    <3>4. CASE UNCHANGED pkRun
      BY <3>4
    <3>6. CASE \E c \in Packers : ForbidRequired(c)
      BY <3>6 DEF ForbidRequired, PackagesShape, Stored, RunFields
    <3> QED
      BY <3>1, <3>2, <3>3, <3>4, <3>5, <3>6
      DEF PackagesNext, pkVars, AssignState, CheckPackage,
        CollectContents, TruncatePackage, WritePackage, InspectPackage, UnpackPackage,
        EnterPackage, RefreshCopy, RemovePlace, ResetPackage, LookUpName, BindValue,
        CheckRequirements, CheckWorkspace, ResolveFlow, FindSession,
        ReadProject, OpenProject, CheckWritable, ChangeFlow, ChangeDefaults, LookForFile,
        SaveProject, ChangeRegistry, AllowRequired
  <2> QED
    BY <2>1, <2>2, <2>3 DEF PackagesShape, Stored, IsWorkspace, PackagesTypeOK
<1> QED
  BY <1>1, <1>2, PTL DEF PackagesSpec

(* ---------------------------------------------------------------- *)
(* Packing.                                                         *)

\* What preflight saw is closed; what is written is the same or is marked.
Packs(j) ==
    /\ Waits(j, "collect") => Closed(j.held) /\ ~j.held.moved
    /\ Waits(j, "truncate") \/ Waits(j, "write") => j.held.moved \/ Closed(j.held)
Packing ==
    /\ IsPackage(pkFile) => pkFile.moved \/ Closed(pkFile)
    /\ \A c \in Packers : Packs(pkJob[c])

LEMMA OnlyBuildingPacks ==
    ASSUME NEW j, IsJob(j)
    PROVE  /\ j.ask # "build" => Packs(j)
           /\ j.ask = "build" =>
                 j.todo # <<>> /\ Head(j.todo) \in {"preflight", "collect", "truncate", "write"}
<1>1. ASSUME j.ask # "build", NEW s \in {"collect", "truncate", "write"}, Waits(j, s) PROVE FALSE
  BY <1>1, Programs DEF IsJob, Waits
<1>2. ASSUME j.ask = "build"
      PROVE  j.todo # <<>> /\ Head(j.todo) \in {"preflight", "collect", "truncate", "write"}
  BY <1>2 DEF IsJob, Rests
<1> QED
  BY <1>1, <1>2 DEF Packs

\* A step of another request.
LEMMA OthersDoNotPack ==
    ASSUME PackagesShape, PackagesShape', Packing, NEW c \in Packers, JobMoves(c),
           pkFile' = pkFile, Serving(c),
           Head(pkJob[c].todo) \notin {"preflight", "collect", "truncate", "write"}
    PROVE  Packing'
<1>1. IsJob(pkJob[c]) /\ IsJob(pkJob'[c])
  BY DEF PackagesShape
<1>2. pkJob[c].ask # "build"
  BY <1>1, OnlyBuildingPacks
<1>3. pkJob'[c].ask # "build"
  BY <1>2, RestIsShaped DEF JobMoves
<1>4. Packs(pkJob'[c])
  BY <1>1, <1>3, OnlyBuildingPacks
<1> QED
  BY <1>4 DEF JobMoves, Others, Packing, IsPackage

LEMMA NoticeDoesNotPack ==
    ASSUME PackagesShape, PackagesShape', Packing, NEW c \in Packers, NEW seen, Notice(c, seen),
           pkFile' = pkFile, Packs(pkJob'[c])
    PROVE  Packing'
<1>1. ASSUME NEW d \in Packers \ {c}
      PROVE  Packs(pkJob'[d])
  BY DEF Notice, Packs, Waits, Packing
<1> QED
  BY <1>1 DEF Packing, IsPackage

LEMMA PackingIsKept ==
    ASSUME PackagesShape, PackagesShape', Packing, [PackagesNext]_pkVars
    PROVE  Packing'
<1> USE DEF AtJob
<1>1. CASE UNCHANGED pkVars
  BY <1>1 DEF pkVars, Packing, IsPackage
<1>2. CASE EndRun
  BY <1>2 DEF EndRun, Packing, IsPackage
<1>3. ASSUME NEW c \in Packers, EnterJob(c) PROVE Packing'
  <2>1. PICK ask \in PackageAsks :
          pkJob'[c].todo = Job(ask) /\ Notice(c, ask \in Exchanging)
    BY <1>3, EnteringKeepsShape
  <2>2. Packs(pkJob'[c])
    BY <2>1, ProgramsBegin DEF Packs, Waits
  <2>3. pkFile' = pkFile
    BY <1>3 DEF EnterJob
  <2> QED
    BY <2>1, <2>2, <2>3, NoticeDoesNotPack
<1>4. ASSUME NEW c \in Packers, AssignState(c) PROVE Packing'
  <2>1. Notice(c, pkMem' # pkStore) /\ pkFile' = pkFile
    BY <1>4, AssigningKeepsShape
  <2>2. IsJob(pkJob'[c]) /\ pkJob'[c].ask # "build"
    BY <1>4, AssigningKeepsShape, RestIsShaped DEF PackagesShape
  <2>3. Packs(pkJob'[c])
    BY <2>2, OnlyBuildingPacks
  <2> QED
    BY <2>1, <2>3, NoticeDoesNotPack
<1>5. ASSUME NEW c \in Packers, CheckPackage(c) PROVE Packing'
  <2>1. /\ JobMoves(c) /\ pkFile' = pkFile /\ AtJob(c, "preflight") /\ IsJob(pkJob[c])
        /\ IsJob(pkJob'[c])
    BY <1>5, PlainStepKeepsShape DEF CheckPackage, PackagesShape
  <2> DEFINE held == Packed(pkSaved, pkMem.registry)
             k == [pkJob[c] EXCEPT !.todo = After(c), !.held = held]
  <2>2. CASE Refuse(c)
    BY <2>1, <2>2, RefuseMoves, RestIsShaped, OnlyBuildingPacks DEF Packing, JobMoves, Others,
       IsPackage
  <2>3. CASE CanBePacked(pkSaved, pkMem.registry) /\ GoOnWith(c, k)
    <3>1. k.todo = After(c) /\ k.held = held
      BY <2>1 DEF IsJob, JobFields
    <3>2. GoOnWith(c, k) /\ Closed(held) /\ ~held.moved
      BY <2>3 DEF CanBePacked, Packed, Closed
    <3>3. After(c) = <<"collect", "truncate", "write">>
      BY <2>1, Programs DEF IsJob, Serving, After
    <3> HIDE DEF k, held
    <3>4. pkJob'[c] = k
      BY <3>1, <3>2, <3>3, JobGoesOn
    <3>5. Packs(k)
      BY <3>1, <3>2, <3>3 DEF Packs, Waits
    <3> QED
      BY <2>1, <3>4, <3>5 DEF Packing, JobMoves, Others, IsPackage
  <2> QED
    BY <1>5, <2>2, <2>3 DEF CheckPackage
<1>6. ASSUME NEW c \in Packers, CollectContents(c) PROVE Packing'
  <2>1. /\ JobMoves(c) /\ pkFile' = pkFile /\ AtJob(c, "collect") /\ IsJob(pkJob[c])
        /\ IsJob(pkJob'[c])
    BY <1>6, PlainStepKeepsShape DEF CollectContents, PackagesShape
  <2> DEFINE packed == Packed(pkSaved, pkMem.registry)
             held == [packed EXCEPT !.moved = packed # pkJob[c].held]
             k == [pkJob[c] EXCEPT !.todo = After(c), !.held = held]
  <2>2. CASE Refuse(c)
    BY <2>1, <2>2, RefuseMoves, RestIsShaped, OnlyBuildingPacks DEF Packing, JobMoves, Others,
       IsPackage
  <2>3. CASE GoOnWith(c, k)
    <3>1. k.todo = After(c) /\ k.held = held
      BY <2>1 DEF IsJob, JobFields
    <3>2. Closed(pkJob[c].held)
      BY <2>1 DEF Packing, Packs, Waits, Serving
    <3>3. held.moved \/ Closed(held)
      <4>1. DOMAIN packed = PackageFields
        BY PackedIsWhole DEF PackagesShape, Stored, IsWhole
      <4>2. CASE packed = pkJob[c].held
        BY <3>2, <4>1, <4>2 DEF Closed, PackageFields
      <4>3. CASE packed # pkJob[c].held
        BY <4>1, <4>3 DEF PackageFields
      <4> QED
        BY <4>2, <4>3
    <3>4. After(c) = <<"truncate", "write">>
      BY <2>1, Programs DEF IsJob, Serving, After
    <3> HIDE DEF k, held
    <3>5. pkJob'[c] = k
      BY <2>3, <3>1, <3>4, JobGoesOn
    <3>6. Packs(k)
      BY <3>1, <3>3, <3>4 DEF Packs, Waits
    <3> QED
      BY <2>1, <3>5, <3>6 DEF Packing, JobMoves, Others, IsPackage
  <2> QED
    BY <1>6, <2>2, <2>3 DEF CollectContents
<1>7. ASSUME NEW c \in Packers, TruncatePackage(c) PROVE Packing'
  <2>1. /\ JobMoves(c) /\ pkFile' = TornPack /\ AtJob(c, "truncate") /\ IsJob(pkJob[c]) /\ Advance(c)
    BY <1>7, WritingStepKeepsShape DEF TruncatePackage, PackagesShape
  <2>2. After(c) = <<"write">>
    BY <2>1, Programs DEF IsJob, Serving, After
  <2>3. After(c) # <<>>
    BY <2>2
  <2>4. pkJob'[c].todo = After(c) /\ pkJob'[c].held = pkJob[c].held
    BY <2>1, <2>3, AdvanceMoves DEF Mutating
  <2>5. Packs(pkJob'[c])
    BY <2>1, <2>2, <2>4 DEF Packs, Packing, Waits, Serving
  <2> QED
    BY <2>1, <2>5 DEF Packing, JobMoves, Others, IsPackage
<1>8. ASSUME NEW c \in Packers, WritePackage(c) PROVE Packing'
  <2>1. /\ JobMoves(c) /\ pkFile' = pkJob[c].held /\ AtJob(c, "write") /\ IsJob(pkJob[c])
        /\ Advance(c)
    BY <1>8, WritingStepKeepsShape DEF WritePackage, PackagesShape, Advance
  <2>2. After(c) = <<>>
    BY <2>1, Programs DEF IsJob, Serving, After
  <2>3. pkJob'[c] = AtRest
    BY <2>1, <2>2, AdvanceMoves DEF Mutating
  <2>4. Packs(pkJob'[c])
    BY <2>3, RestIsShaped, OnlyBuildingPacks
  <2>5. pkFile'.moved \/ Closed(pkFile')
    BY <2>1 DEF Packing, Packs, Waits, Serving
  <2> QED
    BY <2>1, <2>4, <2>5 DEF Packing, JobMoves, Others
<1>9. ASSUME NEW c \in Packers,
             \/ CheckRequirements(c) \/ CheckWorkspace(c) \/ FindSession(c) \/ CheckWritable(c)
             \/ LookUpName(c) \/ ReadProject(c) \/ InspectPackage(c) \/ LookForFile(c)
      PROVE  Packing'
  <2>1. JobMoves(c)
    BY <1>9, PlainStepKeepsShape
  <2>2. /\ Serving(c) /\ pkFile' = pkFile
        /\ Head(pkJob[c].todo) \notin {"preflight", "collect", "truncate", "write"}
    BY <1>9 DEF CheckRequirements, CheckWorkspace, FindSession, CheckWritable,
          LookUpName, ReadProject, InspectPackage, LookForFile
  <2> QED
    BY <2>1, <2>2, OthersDoNotPack
<1>10. ASSUME NEW c \in Packers,
             \/ UnpackPackage(c) \/ RefreshCopy(c) \/ RemovePlace(c) \/ SaveProject(c)
             \/ AllowRequired(c) \/ ResolveFlow(c) \/ BuildContext(c)
      PROVE  Packing'
  <2>1. JobMoves(c)
    BY <1>10, WritingStepKeepsShape
  <2>2. /\ Serving(c) /\ pkFile' = pkFile
        /\ Head(pkJob[c].todo) \notin {"preflight", "collect", "truncate", "write"}
    BY <1>10 DEF UnpackPackage, RefreshCopy, RemovePlace, SaveProject, AllowRequired, ResolveFlow,
          BuildContext
  <2> QED
    BY <2>1, <2>2, OthersDoNotPack
<1>11. ASSUME NEW c \in Packers,
             \/ EnterPackage(c) \/ ResetPackage(c) \/ BindValue(c) \/ PrepareRun(c)
             \/ OpenProject(c) \/ ChangeFlow(c) \/ ChangeDefaults(c) \/ ChangeRegistry(c)
      PROVE  Packing'
  <2>1. JobMoves(c)
    BY <1>11, EnterPackageMutates, ResetPackageMutates, BindValueMutates, PrepareRunMutates,
       OpenProjectMutates, ChangeFlowMutates, ChangeDefaultsMutates, ChangeRegistryMutates
    DEF Gentle, MutatesTo
  <2>2. /\ Serving(c) /\ pkFile' = pkFile
        /\ Head(pkJob[c].todo) \notin {"preflight", "collect", "truncate", "write"}
    BY <1>11 DEF EnterPackage, ResetPackage, BindValue, PrepareRun, OpenProject, ChangeFlow,
          ChangeDefaults, ChangeRegistry
  <2> QED
    BY <2>1, <2>2, OthersDoNotPack
<1>12. ASSUME NEW c \in Packers, ForbidRequired(c) PROVE Packing'
  <2>1. pkFile' = pkFile
    BY <1>12, ForbiddingKeepsShape
  <2>2. ASSUME NEW d \in Packers \ {c} PROVE Packs(pkJob'[d])
    BY <1>12, ForbiddingKeepsShape DEF Packing, Packs, Waits
  <2>3. Packs(pkJob'[c])
    BY <1>12, ForbiddingKeepsShape, RestIsShaped, OnlyBuildingPacks
  <2> QED
    BY <2>1, <2>2, <2>3 DEF Packing, IsPackage
<1> QED
  BY <1>1, <1>2, <1>3, <1>4, <1>5, <1>6, <1>7, <1>8, <1>9, <1>10, <1>11, <1>12 DEF PackagesNext

\* Whoever packs, and whatever else happens to the project meanwhile: a package
\* holds every component that its flow uses and a value for every required name,
\* unless the project was seen to change between the check and the packing.
THEOREM PackagesClosed == PackagesSpec => []PackagesAreClosed
<1>1. PackagesInit => PackagesShape /\ Packing
  <2> SUFFICES ASSUME PackagesInit PROVE PackagesShape /\ Packing
    OBVIOUS
  <2>1. PackagesShape
    BY PackagesBeginShaped
  <2>2. \A c \in Packers : Packs(pkJob[c])
    BY PackagesBeginShaped DEF Packs, Waits, Serving
  <2>3. IsPackage(pkFile) => Closed(pkFile)
    BY DEF PackagesInit, IsPackage, Packed, CanBePacked, Closed
  <2> QED
    BY <2>1, <2>2, <2>3 DEF Packing
<1>2. PackagesShape /\ Packing /\ [PackagesNext]_pkVars => (PackagesShape /\ Packing)'
  BY ShapeIsKept, PackingIsKept
<1>3. Packing => PackagesAreClosed
  BY DEF Packing, PackagesAreClosed, Closed
<1> QED
  BY <1>1, <1>2, <1>3, PTL DEF PackagesSpec

(* ---------------------------------------------------------------- *)
(* Loading and running.                                             *)

\* A tidy workspace holds of the package in its directory what the run depends on.
IsAsPacked(w) ==
    Tidy(w) =>
        /\ IsPackage(pkPlaces[w.place])
        /\ LET p == pkPlaces[w.place].doc
           IN  w.doc.uses = p.uses /\ w.doc.needs = p.needs /\ w.doc.assets = p.assets
               /\ w.doc.python = p.python

\* An unload removes the directory before the workspace.
StoreIsAsPacked == IsAsPacked(pkStore) \/ \E c \in Packers : AtJob(c, "reset")

\* No request exchanges the workspace.
Undisturbed == \A d \in Packers : Serving(d) => pkJob[d].ask \notin Exchanging

\* No request changes the runtime defaults.
Unspoilt == \A d \in Packers : Serving(d) => pkJob[d].ask # "defaults"

\* A start or a run under which nothing moved.
Calm(c) == Serving(c) /\ ~pkJob[c].moved /\ pkJob[c].ask \in {"start", "run"}
CalmStart(c) == Calm(c) /\ pkJob[c].ask = "start"
CalmIsKin ==
    \A c \in Packers :
       /\ Calm(c) => Undisturbed /\ Akin(pkMem, pkStore) /\ IsAsPacked(pkMem)
       /\ CalmStart(c) => Unspoilt /\ Wider(pkMem, pkStore)

\* The flow may run in the workspace, or could until something was forbidden.
Fit(doc, w, revoked) ==
    Tidy(w) =>
      /\ doc.uses = w.doc.uses /\ doc.needs \subseteq doc.bound
      /\ pkHost.platform /\ (NeedsPermission(w.doc) => pkHost.allowed \/ revoked)

\* What a start found out so far.
Ready(c) ==
    /\ Tidy(pkMem) =>
         /\ AtJob(c, "workspace") \/ AtJob(c, "resolve") => pkHost.platform
         /\ AtJob(c, "resolve") =>
               /\ pkMem.doc.needs \subseteq pkMem.doc.bound
               /\ NeedsPermission(pkMem.doc) => pkHost.allowed \/ pkJob[c].revoked
    /\ AtJob(c, "prepare") =>
         /\ Fit(pkJob[c].doc, pkMem, pkJob[c].revoked)
         /\ Fit(pkJob[c].doc, pkStore, pkJob[c].revoked)

\* The session that was started, as long as nothing disturbed it.
RunFits ==
    (pkRun.at # "none" /\ pkRun.source = "package" /\ ~pkRun.disturbed) =>
       /\ Undisturbed
       /\ pkRun.at = "started" =>
             /\ pkStore.source = "package"
             /\ Fit(pkRun.doc, pkStore, pkRun.revoked)
             /\ \A c \in Packers : Calm(c) => Fit(pkRun.doc, pkMem, pkRun.revoked)

Loading ==
    /\ StoreIsAsPacked /\ CalmIsKin
    /\ \A c \in Packers : Calm(c) => Ready(c)
    /\ RunFits /\ PackagedRunsArePrepared

LEMMA AkinIsTransitive ==
    ASSUME NEW u, NEW v, NEW w, Akin(u, v), Akin(v, w)
    PROVE  Akin(u, w)
  BY DEF Akin

LEMMA AkinIsReflexive ==
    ASSUME NEW w
    PROVE  Akin(w, w)
  BY DEF Akin

LEMMA WiderIsTransitive ==
    ASSUME NEW u, NEW v, NEW w, Wider(u, v), Wider(v, w), Akin(v, w)
    PROVE  Wider(u, w)
  BY DEF Wider, Akin, Tidy

LEMMA FitCarries ==
    ASSUME NEW doc, NEW v, NEW w, NEW revoked, Fit(doc, v, revoked), Akin(v, w)
    PROVE  Fit(doc, w, revoked)
  BY DEF Fit, Akin, Tidy, NeedsPermission

LEMMA AsPackedCarries ==
    ASSUME NEW v, NEW w, IsAsPacked(v), Akin(v, w)
    PROVE  IsAsPacked(w)
  BY DEF IsAsPacked, Akin, Tidy

\* A request that starts no session has nothing to be ready for.
LEMMA StepsOfStartAndUnload ==
    ASSUME NEW j, IsJob(j)
    PROVE  /\ Waits(j, "workspace") \/ Waits(j, "resolve") \/ Waits(j, "prepare") => j.ask = "start"
           /\ Waits(j, "reset") => j.ask = "unload"
  BY Programs DEF IsJob, Waits

LEMMA OnlyStartsPrepare ==
    ASSUME PackagesShape', NEW c \in Packers, pkJob'[c].ask # "start"
    PROVE  Ready(c)'
<1>1. IsJob(pkJob'[c])
  BY DEF PackagesShape
<1> QED
  BY <1>1, StepsOfStartAndUnload DEF Ready, AtJob, Serving, Waits

\* What a step must be so that what is known of the requests and of the session
\* carries over: the package in the store stays, the copy stays or becomes the
\* store, and a request that is calm was so, or has just come.
\* A permission stays, or who rests on it is told.
HostGrows == pkHost'.platform = pkHost.platform /\ (pkHost.allowed => pkHost'.allowed)
Stays(c) ==
    /\ Calm(c) /\ pkJob'[c].todo = pkJob[c].todo /\ pkJob'[c].doc = pkJob[c].doc
    /\ pkHost.allowed \/ pkJob[c].revoked => pkHost'.allowed \/ pkJob'[c].revoked
RunStays ==
    \/ pkRun'.at = "none"
    \/ /\ pkRun'.at = pkRun.at /\ pkRun'.source = pkRun.source /\ pkRun'.doc = pkRun.doc
       /\ pkRun'.place = pkRun.place /\ pkRun'.assets = pkRun.assets
       /\ pkRun.disturbed => pkRun'.disturbed
       /\ pkHost.allowed \/ pkRun.revoked => pkHost'.allowed \/ pkRun'.revoked
Steady ==
    /\ Akin(pkStore, pkStore')
    /\ pkMem' = pkMem \/ pkMem' = pkStore'
    /\ Unspoilt => Wider(pkStore, pkStore')
    /\ UNCHANGED pkPlaces /\ pkHost'.platform = pkHost.platform
    /\ Undisturbed => Undisturbed'
    /\ \A d \in Packers :
          /\ Calm(d)' => Calm(d) \/ (Undisturbed' /\ pkMem' = pkStore')
          /\ CalmStart(d)' => \/ CalmStart(d) /\ (Unspoilt => Unspoilt')
                              \/ Unspoilt' /\ pkMem' = pkStore'
          /\ Calm(d)' => Ready(d)' \/ Stays(d)
          /\ AtJob(d, "reset") => AtJob(d, "reset")'

LEMMA SteadyKeepsKin ==
    ASSUME PackagesShape', Loading, Steady
    PROVE  StoreIsAsPacked' /\ CalmIsKin'
<1>1. StoreIsAsPacked'
  <2>1. CASE IsAsPacked(pkStore)
    <3>1. IsAsPacked(pkStore')
      BY <2>1, AsPackedCarries DEF Steady
    <3>2. IsAsPacked(pkStore)'
      BY <3>1 DEF Steady, IsAsPacked, IsPackage
    <3> QED
      BY <3>2 DEF StoreIsAsPacked
  <2>2. CASE \E d \in Packers : AtJob(d, "reset")
    BY <2>2 DEF StoreIsAsPacked, Steady
  <2> QED
    BY <2>1, <2>2 DEF Loading, StoreIsAsPacked
<1>2. Undisturbed' => IsAsPacked(pkStore)'
  <2>1. ASSUME Undisturbed', NEW d \in Packers, AtJob(d, "reset")' PROVE FALSE
    <3>1. IsJob(pkJob'[d])
      BY DEF PackagesShape
    <3>2. pkJob'[d].ask = "unload" /\ Serving(d)'
      BY <2>1, <3>1, StepsOfStartAndUnload DEF AtJob, Serving, Waits
    <3> QED
      BY <2>1, <3>2 DEF Undisturbed, Exchanging
  <2> QED
    BY <1>1, <2>1 DEF StoreIsAsPacked
<1>3. ASSUME NEW c \in Packers, Calm(c)'
      PROVE  (Undisturbed /\ Akin(pkMem, pkStore) /\ IsAsPacked(pkMem))'
  <2>1. Undisturbed'
    BY <1>3 DEF Steady, Loading, CalmIsKin
  <2>2. CASE pkMem' = pkStore'
    BY <1>2, <2>1, <2>2, AkinIsReflexive DEF IsAsPacked
  <2>3. CASE pkMem' = pkMem /\ Calm(c)
    <3>1. Akin(pkMem, pkStore) /\ IsAsPacked(pkMem)
      BY <2>3 DEF Loading, CalmIsKin
    <3>2. Akin(pkMem, pkStore')
      BY <3>1, AkinIsTransitive DEF Steady
    <3>3. IsAsPacked(pkMem)'
      BY <2>3, <3>1 DEF IsAsPacked, Steady, IsPackage
    <3> QED
      BY <2>1, <2>3, <3>2, <3>3
  <2> QED
    BY <1>3, <2>2, <2>3 DEF Steady
<1>4. ASSUME NEW c \in Packers, CalmStart(c)'
      PROVE  (Unspoilt /\ Wider(pkMem, pkStore))'
  <2>1. CASE Unspoilt' /\ pkMem' = pkStore'
    BY <2>1 DEF Wider
  <2>2. CASE CalmStart(c) /\ (Unspoilt => Unspoilt') /\ pkMem' = pkMem
    <3>1. Unspoilt /\ Wider(pkMem, pkStore)
      BY <2>2 DEF Loading, CalmIsKin
    <3>2. Wider(pkMem, pkStore')
      BY <3>1, WiderIsTransitive DEF Steady
    <3> QED
      BY <2>2, <3>1, <3>2
  <2>3. CASE CalmStart(c) /\ (Unspoilt => Unspoilt') /\ pkMem' = pkStore'
    BY <2>3 DEF Loading, CalmIsKin, Wider
  <2> QED
    BY <1>4, <2>1, <2>2, <2>3 DEF Steady
<1> QED
  BY <1>1, <1>3, <1>4 DEF CalmIsKin

LEMMA SteadyKeepsReady ==
    ASSUME PackagesShape, Loading, Steady, CalmIsKin', NEW c \in Packers, Calm(c)'
    PROVE  Ready(c)'
<1>1. CASE Stays(c)
  <2>1. Ready(c) /\ Akin(pkMem, pkStore)
    BY <1>1 DEF Loading, Stays, CalmIsKin
  <2>2. Akin(pkMem, pkMem') /\ Akin(pkStore, pkStore')
    BY <2>1, AkinIsTransitive, AkinIsReflexive DEF Steady
  <2>3. /\ AtJob(c, "workspace")' <=> AtJob(c, "workspace")
        /\ AtJob(c, "resolve")' <=> AtJob(c, "resolve")
        /\ AtJob(c, "prepare")' <=> AtJob(c, "prepare")
    BY <1>1 DEF Stays, AtJob, Serving
  <2>4. /\ Tidy(pkMem') => Tidy(pkMem)
        /\ Tidy(pkMem') => (NeedsPermission(pkMem'.doc) <=> NeedsPermission(pkMem.doc))
    BY <2>2 DEF Akin, Tidy, NeedsPermission
  <2>5. ASSUME AtJob(c, "resolve"), Tidy(pkMem'), pkMem.doc.needs \subseteq pkMem.doc.bound
        PROVE  pkMem'.doc.needs \subseteq pkMem'.doc.bound
    <3>1. IsJob(pkJob[c]) /\ Waits(pkJob[c], "resolve")
      BY <2>5 DEF PackagesShape, AtJob, Serving, Waits
    <3>2. CalmStart(c)
      BY <1>1, <3>1, StepsOfStartAndUnload DEF CalmStart, Stays
    <3>3. Unspoilt /\ Wider(pkMem, pkStore)
      BY <3>2 DEF Loading, CalmIsKin
    <3>4. Wider(pkMem, pkStore')
      BY <3>3, WiderIsTransitive DEF Steady
    <3>5. Wider(pkMem, pkMem')
      BY <3>4 DEF Steady, Wider
    <3> QED
      BY <2>2, <2>5, <3>5 DEF Wider, Akin, Tidy
  <2>6. AtJob(c, "prepare") =>
          Fit(pkJob[c].doc, pkMem', pkJob[c].revoked) /\ Fit(pkJob[c].doc, pkStore', pkJob[c].revoked)
    BY <2>1, <2>2, FitCarries DEF Ready
  <2>7. ASSUME AtJob(c, "prepare")'
        PROVE  (/\ Fit(pkJob[c].doc, pkMem, pkJob[c].revoked)
                /\ Fit(pkJob[c].doc, pkStore, pkJob[c].revoked))'
    BY <1>1, <2>3, <2>6, <2>7 DEF Stays, Fit, Steady
  <2>8. Tidy(pkMem)' =>
         /\ (AtJob(c, "workspace") \/ AtJob(c, "resolve"))' => pkHost'.platform
         /\ AtJob(c, "resolve")' =>
               /\ pkMem'.doc.needs \subseteq pkMem'.doc.bound
               /\ NeedsPermission(pkMem'.doc) => pkHost'.allowed \/ pkJob'[c].revoked
    BY <1>1, <2>1, <2>3, <2>4, <2>5 DEF Ready, Stays, Steady, Tidy
  <2> QED
    BY <2>7, <2>8 DEF Ready, NeedsPermission
<1> QED
  BY <1>1 DEF Steady

LEMMA SteadyKeepsRun ==
    ASSUME Loading, Steady, RunStays
    PROVE  RunFits' /\ PackagedRunsArePrepared'
<1>1. ASSUME pkRun'.at # "none", pkRun'.source = "package", ~pkRun'.disturbed
      PROVE  /\ pkRun.at = pkRun'.at /\ pkRun.source = "package" /\ ~pkRun.disturbed
             /\ pkRun'.doc = pkRun.doc /\ pkRun'.place = pkRun.place
             /\ pkRun'.assets = pkRun.assets
             /\ pkHost.allowed \/ pkRun.revoked => pkHost'.allowed \/ pkRun'.revoked
  BY <1>1 DEF RunStays
<1>2. RunFits'
  <2> SUFFICES ASSUME pkRun'.at # "none", pkRun'.source = "package", ~pkRun'.disturbed
               PROVE  (/\ Undisturbed
                       /\ pkRun.at = "started" =>
                             /\ pkStore.source = "package"
                             /\ Fit(pkRun.doc, pkStore, pkRun.revoked)
                             /\ \A c \in Packers : Calm(c) => Fit(pkRun.doc, pkMem, pkRun.revoked))'
    BY DEF RunFits
  <2>1. Undisturbed'
    BY <1>1 DEF Loading, RunFits, Steady
  <2>2. ASSUME pkRun'.at = "started"
        PROVE  (/\ pkStore.source = "package"
                /\ Fit(pkRun.doc, pkStore, pkRun.revoked)
                /\ \A c \in Packers : Calm(c) => Fit(pkRun.doc, pkMem, pkRun.revoked))'
    <3>1. pkStore.source = "package" /\ Fit(pkRun.doc, pkStore, pkRun.revoked)
      BY <1>1, <2>2 DEF Loading, RunFits
    <3>2. pkStore'.source = "package" /\ Fit(pkRun.doc, pkStore', pkRun.revoked)
      BY <3>1, FitCarries DEF Steady, Akin
    <3>3. (pkStore.source = "package" /\ Fit(pkRun.doc, pkStore, pkRun.revoked))'
      BY <1>1, <3>2 DEF Fit, Steady
    <3>4. ASSUME NEW c \in Packers, Calm(c)'
          PROVE  Fit(pkRun.doc, pkMem, pkRun.revoked)'
      <4>1. CASE pkMem' = pkStore'
        BY <3>3, <4>1 DEF Fit
      <4>2. CASE pkMem' = pkMem /\ Calm(c)
        <5>1. Fit(pkRun.doc, pkMem, pkRun.revoked)
          BY <1>1, <2>2, <4>2 DEF Loading, RunFits
        <5> QED
          BY <1>1, <4>2, <5>1 DEF Fit, Steady
      <4> QED
        BY <3>4, <4>1, <4>2 DEF Steady
    <3> QED
      BY <3>3, <3>4
  <2> QED
    BY <2>1, <2>2
<1>3. PackagedRunsArePrepared'
  <2> SUFFICES ASSUME pkRun'.at = "running", pkRun'.source = "package", ~pkRun'.disturbed
               PROVE  (/\ pkRun.place # NoDir /\ IsPackage(pkPlaces[pkRun.place])
                       /\ LET packed == pkPlaces[pkRun.place]
                          IN  /\ pkRun.doc.uses = packed.doc.uses
                              /\ packed.assets \subseteq pkRun.assets
                              /\ pkRun.doc.needs \subseteq pkRun.doc.bound
                              /\ pkHost.platform
                              /\ NeedsPermission(packed.doc) => pkHost.allowed \/ pkRun.revoked)'
    BY DEF PackagedRunsArePrepared
  <2>1. /\ pkRun.at = "running" /\ pkRun.source = "package" /\ ~pkRun.disturbed
        /\ pkRun'.doc = pkRun.doc /\ pkRun'.place = pkRun.place
        /\ pkRun'.assets = pkRun.assets
        /\ pkHost.allowed \/ pkRun.revoked => pkHost'.allowed \/ pkRun'.revoked
    BY <1>1
  <2> QED
    BY <2>1 DEF Loading, PackagedRunsArePrepared, Steady, IsPackage, NeedsPermission
<1> QED
  BY <1>2, <1>3

LEMMA SteadyKeepsLoading ==
    ASSUME PackagesShape, PackagesShape', Loading, Steady, RunStays
    PROVE  Loading'
  BY SteadyKeepsKin, SteadyKeepsReady, SteadyKeepsRun DEF Loading

\* A step of a request that leaves the other requests alone.
LEMMA MovingIsSteady ==
    ASSUME PackagesShape, PackagesShape', NEW c \in Packers, JobMoves(c), Serving(c), ~AtJob(c,
           "reset"),
           Akin(pkStore, pkStore'), Unspoilt => Wider(pkStore, pkStore'),
           pkMem' = pkMem \/ pkMem' = pkStore', UNCHANGED pkPlaces, HostGrows, Calm(c) /\ Calm(c)' => Ready(c)'
    PROVE  Steady
<1>1. \/ ~Serving(c)'
      \/ pkJob'[c].ask = pkJob[c].ask /\ pkJob'[c].moved = pkJob[c].moved
  BY RestIsShaped DEF JobMoves, Serving
<1>2. ASSUME NEW d \in Packers \ {c}
      PROVE  pkJob'[d] = pkJob[d]
  BY DEF JobMoves, Others
<1>3. (Undisturbed => Undisturbed') /\ (Unspoilt => Unspoilt')
  BY <1>1, <1>2 DEF Undisturbed, Unspoilt, Serving
<1>4. (Calm(c)' => Calm(c)) /\ (CalmStart(c)' => CalmStart(c))
  BY <1>1 DEF Calm, CalmStart
<1>5. ASSUME NEW d \in Packers
      PROVE  /\ Calm(d)' => Calm(d)
             /\ CalmStart(d)' => CalmStart(d)
             /\ Calm(d)' => Ready(d)' \/ Stays(d)
             /\ AtJob(d, "reset") => AtJob(d, "reset")'
  <2>1. CASE d = c
    BY <1>4, <2>1
  <2>2. CASE d # c
    BY <1>2, <2>2 DEF Calm, CalmStart, Stays, Serving, AtJob, HostGrows
  <2> QED
    BY <2>1, <2>2
<1> QED
  BY <1>3, <1>5 DEF Steady, HostGrows

LEMMA ExchangeKeepsLoading ==
    ASSUME PackagesShape, Loading, NEW c \in Packers, JobMoves(c), Serving(c),
           pkJob[c].ask \in Exchanging,
           UNCHANGED pkRun, StoreIsAsPacked'
    PROVE  Loading'
<1>1. ~Undisturbed
  BY DEF Undisturbed
<1>2. \A d \in Packers : ~Calm(d)
  BY <1>1 DEF Loading, CalmIsKin
<1>3. ASSUME NEW d \in Packers, Calm(d)' PROVE FALSE
  <2>1. CASE d = c
    <3>1. pkJob'[c].ask = pkJob[c].ask \/ pkJob'[c].todo = <<>>
      BY RestIsShaped DEF JobMoves
    <3> QED
      BY <1>3, <2>1, <3>1 DEF Calm, Serving, Exchanging
  <2>2. CASE d # c
    <3>1. pkJob'[d] = pkJob[d]
      BY <2>2 DEF JobMoves, Others
    <3> QED
      BY <1>2, <1>3, <3>1 DEF Calm, Serving
  <2> QED
    BY <2>1, <2>2
<1>4. ~(pkRun.at # "none" /\ pkRun.source = "package" /\ ~pkRun.disturbed)
  BY <1>1 DEF Loading, RunFits
<1>5. RunFits' /\ PackagedRunsArePrepared'
  BY <1>4 DEF RunFits, PackagedRunsArePrepared
<1> QED
  BY <1>3, <1>5 DEF Loading, CalmIsKin, CalmStart

\* The steps that touch neither the workspace nor the directories, of requests
\* that start no session.
LEMMA QuietKeepsLoading ==
    ASSUME PackagesShape, PackagesShape', Loading, NEW c \in Packers, JobMoves(c), Serving(c),
           Head(pkJob[c].todo) \notin
              {"reset", "requirements", "workspace", "resolve", "prepare", "assign"},
           UNCHANGED <<pkStore, pkPlaces>>, RunStays, HostGrows, pkMem' = pkMem
    PROVE  Loading'
<1>1. IsJob(pkJob[c]) /\ pkJob[c].todo # <<>>
  BY DEF PackagesShape, Serving
<1>2. pkJob[c].ask # "start"
  BY <1>1 DEF IsJob, Rests
<1>3. Ready(c)'
  BY <1>2, RestIsShaped, OnlyStartsPrepare DEF JobMoves
<1>4. Steady
  BY <1>3, AkinIsReflexive, MovingIsSteady DEF AtJob, Wider
<1> QED
  BY <1>4, SteadyKeepsLoading

LEMMA PlainStepKeepsLoading ==
    ASSUME PackagesShape, PackagesShape', Loading, NEW c \in Packers,
           \/ FindSession(c) \/ CheckWritable(c) \/ LookUpName(c) \/ ReadProject(c)
           \/ InspectPackage(c) \/ CheckPackage(c) \/ CollectContents(c) \/ LookForFile(c)
    PROVE  Loading'
<1>1. /\ JobMoves(c)
  BY PlainStepKeepsShape
<1>2. /\ Serving(c) /\ UNCHANGED <<pkStore, pkMem, pkPlaces, pkRun, pkHost>>
      /\ Head(pkJob[c].todo) \notin
            {"reset", "requirements", "workspace", "resolve", "prepare", "assign"}
  BY DEF FindSession, CheckWritable, LookUpName, ReadProject, InspectPackage, CheckPackage,
         CollectContents, LookForFile, AtJob
<1> QED
  BY <1>1, <1>2, QuietKeepsLoading DEF RunStays, HostGrows

LEMMA WritingStepKeepsLoading ==
    ASSUME PackagesShape, PackagesShape', Loading, NEW c \in Packers,
           TruncatePackage(c) \/ WritePackage(c) \/ SaveProject(c) \/ AllowRequired(c)
    PROVE  Loading'
<1>1. /\ JobMoves(c) /\ Stored
  BY WritingStepKeepsShape DEF PackagesShape
<1>2. /\ Serving(c) /\ UNCHANGED <<pkStore, pkMem, pkPlaces, pkRun>>
      /\ Head(pkJob[c].todo) \notin
            {"reset", "requirements", "workspace", "resolve", "prepare", "assign"}
  BY DEF TruncatePackage, WritePackage, SaveProject, AllowRequired, AtJob
<1>3. HostGrows
  BY <1>1 DEF TruncatePackage, WritePackage, SaveProject, AllowRequired, HostGrows, Stored
<1> QED
  BY <1>1, <1>2, <1>3, QuietKeepsLoading DEF RunStays, HostGrows

LEMMA ExchangingStepKeepsLoading ==
    ASSUME PackagesShape, PackagesShape', Loading, NEW c \in Packers,
           \/ UnpackPackage(c) \/ EnterPackage(c) \/ RefreshCopy(c) \/ RemovePlace(c)
           \/ ResetPackage(c) \/ OpenProject(c)
    PROVE  Loading'
<1>1. JobMoves(c) /\ Serving(c) /\ IsJob(pkJob[c]) /\ pkJob[c].todo # <<>>
  BY WritingStepKeepsShape, EnterPackageMutates, ResetPackageMutates, OpenProjectMutates
  DEF UnpackPackage, EnterPackage, RefreshCopy, RemovePlace, ResetPackage, OpenProject, AtJob,
      PackagesShape, Serving
<1>2. Head(pkJob[c].todo) \in {"unpack", "enter", "refresh", "remove", "reset", "open"}
  BY DEF UnpackPackage, EnterPackage, RefreshCopy, RemovePlace, ResetPackage, OpenProject, AtJob
<1>3. pkJob[c].ask \in Exchanging
  BY <1>1, <1>2, Programs DEF IsJob, Exchanging
<1>4. UNCHANGED pkRun
  BY DEF UnpackPackage, EnterPackage, RefreshCopy, RemovePlace, ResetPackage, OpenProject
<1>5. ASSUME ~AtJob(c, "reset"), NEW d \in Packers, AtJob(d, "reset")
      PROVE  AtJob(d, "reset")'
  <2>1. pkJob'[d] = pkJob[d]
    BY <1>1, <1>5 DEF JobMoves, Others
  <2> QED
    BY <1>5, <2>1 DEF AtJob, Serving
<1>6. StoreIsAsPacked'
  <2>1. CASE UnpackPackage(c)
    <3>1. PICK place \in SessionDirs :
            /\ pkPlaces[place] = NoPack
            /\ pkPlaces' = [pkPlaces EXCEPT ![place] = pkFile]
      BY <2>1 DEF UnpackPackage
    <3>2. UNCHANGED pkStore /\ ~AtJob(c, "reset")
      BY <2>1 DEF UnpackPackage, AtJob
    <3>3. IsAsPacked(pkStore) => IsAsPacked(pkStore)'
      <4> SUFFICES ASSUME IsAsPacked(pkStore), Tidy(pkStore)
                   PROVE  pkPlaces'[pkStore.place] = pkPlaces[pkStore.place]
                          /\ IsPackage(pkPlaces[pkStore.place])
        BY <3>2 DEF IsAsPacked, Tidy, IsPackage
      <4>1. IsPackage(pkPlaces[pkStore.place])
        BY DEF IsAsPacked
      <4> QED
        BY <3>1, <4>1 DEF IsPackage
    <3> QED
      BY <1>5, <3>2, <3>3 DEF Loading, StoreIsAsPacked
  <2>2. CASE EnterPackage(c)
    <3> DEFINE j == pkJob[c]
    <3>1. /\ IsPackage(j.held) /\ j.place \in SessionDirs /\ UNCHANGED pkPlaces
          /\ pkStore' = [WorkspaceState("package", j.held.doc, LoadedRegistry(j.held), j.place)
                           EXCEPT !.mixed = j.held # pkPlaces[j.place]]
      BY <2>2, EnterPackageMutates
    <3>2. /\ pkStore'.mixed <=> j.held # pkPlaces[j.place]
          /\ pkStore'.place = j.place /\ pkStore'.doc = j.held.doc
      BY <3>1 DEF WorkspaceState
    <3>3. IsAsPacked(pkStore)'
      BY <3>1, <3>2 DEF IsAsPacked, Tidy, IsPackage
    <3> QED
      BY <3>3 DEF StoreIsAsPacked
  <2>3. CASE RefreshCopy(c)
    <3>1. UNCHANGED <<pkStore, pkPlaces>> /\ ~AtJob(c, "reset")
      BY <2>3 DEF RefreshCopy, AtJob
    <3> QED
      BY <1>5, <3>1 DEF Loading, StoreIsAsPacked, IsAsPacked, IsPackage
  <2>4. CASE RemovePlace(c)
    <3>1. AtJob(c, "remove") /\ Advance(c)
      BY <2>4 DEF RemovePlace
    <3>2. After(c) = <<"reset">>
      BY <1>1, <3>1, Programs DEF IsJob, AtJob, After
    <3>3. After(c) # <<>>
      BY <3>2
    <3>4. pkJob'[c].todo = After(c)
      BY <1>1, <3>1, <3>3, AdvanceMoves DEF AtJob, Mutating
    <3>5. AtJob(c, "reset")'
      BY <3>2, <3>4 DEF AtJob, Serving
    <3> QED
      BY <3>5 DEF StoreIsAsPacked
  <2>5. CASE ResetPackage(c)
    BY <2>5, ResetPackageMutates
    DEF StoreIsAsPacked, IsAsPacked, Tidy, BlankState, WorkspaceState
  <2>6. CASE OpenProject(c)
    BY <2>6, OpenProjectMutates DEF StoreIsAsPacked, IsAsPacked, Tidy
  <2> QED
    BY <2>1, <2>2, <2>3, <2>4, <2>5, <2>6
<1> QED
  BY <1>1, <1>3, <1>4, <1>6, ExchangeKeepsLoading

LEMMA MutationKeepsLoading ==
    ASSUME PackagesShape, PackagesShape', Loading, NEW c \in Packers, Gentle(c), Serving(c),
           Head(pkJob[c].todo) \in Mutating
    PROVE  /\ Steady /\ StoreIsAsPacked' /\ CalmIsKin'
           /\ RunStays => Loading'
<1>1. IsJob(pkJob[c]) /\ pkJob[c].todo # <<>>
  BY DEF PackagesShape, Serving
<1>2. ~AtJob(c, "reset")
  <2>1. ASSUME AtJob(c, "reset") PROVE FALSE
    <3>1. pkJob[c].ask = "unload"
      BY <1>1, <2>1, StepsOfStartAndUnload DEF AtJob, Waits
    <3> QED
      BY <3>1 DEF Gentle, Exchanging
  <2> QED
    BY <2>1
<1>3. Ready(c)'
  BY DEF Gentle, MutatesTo, Ready, AtJob
<1>4. /\ JobMoves(c) /\ Akin(pkStore, pkStore') /\ pkMem' = pkMem
      /\ UNCHANGED pkPlaces /\ HostGrows
  BY DEF Gentle, MutatesTo, HostGrows
<1>5. Unspoilt => Wider(pkStore, pkStore')
  BY DEF Gentle, Unspoilt
<1>6. Steady
  BY <1>2, <1>3, <1>4, <1>5, MovingIsSteady
<1> QED
  BY <1>6, SteadyKeepsKin, SteadyKeepsLoading

LEMMA GentleStepKeepsLoading ==
    ASSUME PackagesShape, PackagesShape', Loading, NEW c \in Packers,
           BindValue(c) \/ ChangeFlow(c) \/ ChangeDefaults(c) \/ ChangeRegistry(c)
    PROVE  Loading'
<1>1. Gentle(c) /\ UNCHANGED pkRun
  BY BindValueMutates, ChangeFlowMutates, ChangeDefaultsMutates, ChangeRegistryMutates
<1>2. Serving(c) /\ Head(pkJob[c].todo) \in Mutating
  BY DEF BindValue, ChangeFlow, ChangeDefaults, ChangeRegistry, AtJob, Mutating
<1> QED
  BY <1>1, <1>2, MutationKeepsLoading DEF RunStays, Gentle

LEMMA CheckingKeepsLoading ==
    ASSUME PackagesShape, PackagesShape', Loading, NEW c \in Packers,
           CheckRequirements(c) \/ CheckWorkspace(c)
    PROVE  Loading'
<1>1. /\ JobMoves(c) /\ Serving(c) /\ IsJob(pkJob[c]) /\ pkJob[c].todo # <<>>
      /\ UNCHANGED <<pkStore, pkMem, pkPlaces, pkRun, pkHost>>
      /\ ~AtJob(c, "reset")
  BY PlainStepKeepsShape DEF CheckRequirements, CheckWorkspace, AtJob, PackagesShape, Serving
<1>2. ASSUME Calm(c), Calm(c)'
      PROVE  Ready(c)'
  <2>1. IsAsPacked(pkMem) /\ Ready(c)
    BY <1>2 DEF Loading, CalmIsKin
  <2>2. IsWorkspace(pkMem)
    BY DEF PackagesShape, Stored
  <2>3. CASE Refuse(c)
    BY <2>3, RefuseMoves, RestIsShaped DEF Ready, AtJob, Serving
  <2>4. CASE CheckRequirements(c) /\ FulfilsRequirements(pkMem)
    <3>1. AtJob(c, "requirements") /\ Advance(c)
      BY <2>4 DEF CheckRequirements
    <3>2. After(c) = <<"workspace", "resolve", "prepare">>
      BY <1>1, <3>1, Programs DEF AtJob, IsJob, After
    <3>3. After(c) # <<>>
      BY <3>2
    <3>4. pkJob'[c].todo = After(c)
      BY <1>1, <3>1, <3>3, AdvanceMoves DEF AtJob, Mutating
    <3>5. Tidy(pkMem) => pkHost.platform
      BY <2>1, <2>2, <2>4 DEF FulfilsRequirements, Tidy, IsAsPacked, Unpacked, IsWorkspace
    <3> QED
      BY <1>1, <3>2, <3>4, <3>5 DEF Ready, AtJob, Serving, Tidy
  <2>5. CASE CheckWorkspace(c) /\ Permitted(pkMem) /\ Bound(pkMem) /\ ~pkMem.run
    <3> DEFINE k == [pkJob[c] EXCEPT !.todo = After(c), !.revoked = FALSE]
    <3>1. AtJob(c, "workspace") /\ GoOnWith(c, k) /\ k.todo = After(c)
      BY <1>1, <2>5 DEF CheckWorkspace, IsJob, JobFields
    <3> HIDE DEF k
    <3>2. After(c) = <<"resolve", "prepare">>
      BY <1>1, <3>1, Programs DEF AtJob, IsJob, After
    <3>3. After(c) # <<>>
      BY <3>2
    <3>4. pkJob'[c].todo = After(c)
      BY <3>1, <3>3, JobGoesOn
    <3>5. Tidy(pkMem) => pkHost.platform
      BY <2>1, <3>1 DEF Ready
    <3>6. Tidy(pkMem) => /\ pkMem.doc.needs \subseteq pkMem.doc.bound
                         /\ NeedsPermission(pkMem.doc) => pkHost.allowed
      BY <2>5 DEF Permitted, Bound, Tidy
    <3> QED
      BY <1>1, <3>2, <3>4, <3>5, <3>6 DEF Ready, AtJob, Serving, Tidy, NeedsPermission
  <2> QED
    BY <2>3, <2>4, <2>5 DEF CheckRequirements, CheckWorkspace
<1>3. Steady
  BY <1>1, <1>2, AkinIsReflexive, MovingIsSteady DEF HostGrows, Wider
<1> QED
  BY <1>1, <1>3, SteadyKeepsLoading DEF RunStays

LEMMA ResolvingKeepsLoading ==
    ASSUME PackagesShape, PackagesShape', Loading, NEW c \in Packers, ResolveFlow(c)
    PROVE  Loading'
<1>1. /\ JobMoves(c) /\ Serving(c) /\ IsJob(pkJob[c]) /\ pkJob[c].todo # <<>>
      /\ UNCHANGED <<pkStore, pkPlaces, pkRun, pkHost>> /\ pkMem' = pkStore
      /\ AtJob(c, "resolve") /\ ~AtJob(c, "reset")
  BY WritingStepKeepsShape DEF ResolveFlow, AtJob, PackagesShape, Serving
<1>2. After(c) = <<"prepare">>
  BY <1>1, Programs DEF AtJob, IsJob, After
<1> DEFINE k == [pkJob[c] EXCEPT !.todo = After(c), !.doc = pkStore.doc]
<1>3. k.todo = After(c) /\ k.doc = pkStore.doc /\ k.revoked = pkJob[c].revoked
  BY <1>1 DEF IsJob, JobFields
<1>4. GoOnWith(c, k)
  BY DEF ResolveFlow
<1> HIDE DEF k
<1>5. pkJob'[c] = k
  BY <1>2, <1>3, <1>4, JobGoesOn
<1>6. ASSUME Calm(c), Calm(c)'
      PROVE  Ready(c)'
  <2>0. CalmStart(c)
    BY <1>1, <1>6, Programs DEF CalmStart, IsJob, AtJob
  <2>1. Akin(pkMem, pkStore) /\ Wider(pkMem, pkStore) /\ Ready(c)
    BY <1>6, <2>0 DEF Loading, CalmIsKin
  <2>2. Fit(pkStore.doc, pkStore, pkJob[c].revoked)
    BY <1>1, <2>1 DEF Fit, Ready, Akin, Wider, Tidy, NeedsPermission
  <2>3. Fit(pkStore.doc, pkStore, pkJob[c].revoked)'
    BY <1>1, <1>3, <1>5, <2>2 DEF Fit, NeedsPermission, Tidy
  <2>4. pkJob'[c].doc = pkStore'.doc /\ pkMem' = pkStore'
    BY <1>1, <1>3, <1>5
  <2>5. (/\ Fit(pkJob[c].doc, pkMem, pkJob[c].revoked)
         /\ Fit(pkJob[c].doc, pkStore, pkJob[c].revoked))'
    BY <2>3, <2>4 DEF Fit, NeedsPermission, Tidy
  <2>6. Head(pkJob'[c].todo) = "prepare"
    BY <1>2, <1>3, <1>5
  <2> QED
    BY <2>5, <2>6 DEF Ready, AtJob
<1>7. Steady
  BY <1>1, <1>6, AkinIsReflexive, MovingIsSteady DEF HostGrows, Wider
<1> QED
  BY <1>1, <1>7, SteadyKeepsLoading DEF RunStays

LEMMA PreparingKeepsLoading ==
    ASSUME PackagesShape, PackagesShape', Loading, NEW c \in Packers, PrepareRun(c)
    PROVE  Loading'
<1>1. /\ pkJob[c].ask = "start" /\ AtJob(c, "prepare") /\ Serving(c)
      /\ Head(pkJob[c].todo) = "prepare"
  BY PrepareRunMutates DEF PrepareRun, AtJob
<1>2. CASE /\ JobMoves(c) /\ pkJob'[c] = AtRest
           /\ UNCHANGED <<pkStore, pkMem, pkSaved, pkFile, pkPlaces, pkRun, pkHost>>
  <2>1. Ready(c)' /\ ~AtJob(c, "reset")
    BY <1>1, <1>2, RestIsShaped DEF Ready, AtJob, Serving
  <2>2. Steady
    BY <1>1, <1>2, <2>1, AkinIsReflexive, MovingIsSteady DEF HostGrows, Wider
  <2> QED
    BY <1>2, <2>2, SteadyKeepsLoading DEF RunStays
<1>3. CASE /\ Gentle(c)
           /\ pkRun' = [NoRun EXCEPT !.at = "started", !.doc = pkJob[c].doc,
                           !.source = pkMem.source, !.disturbed = pkJob[c].moved,
                           !.revoked = pkJob[c].revoked]
  <2>1. /\ pkRun'.at = "started" /\ pkRun'.doc = pkJob[c].doc /\ pkRun'.source = pkMem.source
        /\ pkRun'.disturbed = pkJob[c].moved /\ pkRun'.revoked = pkJob[c].revoked
    BY <1>3 DEF NoRun
  <2>2. Steady /\ StoreIsAsPacked' /\ CalmIsKin'
    BY <1>1, <1>3, MutationKeepsLoading DEF Mutating
  <2>3. \A d \in Packers : Calm(d)' => Ready(d)'
    BY <2>2, SteadyKeepsReady
  <2>4. RunFits'
    <3> SUFFICES ASSUME pkMem.source = "package", ~pkJob[c].moved
                 PROVE  (/\ Undisturbed
                         /\ pkStore.source = "package" /\ Fit(pkRun.doc, pkStore, pkRun.revoked)
                         /\ \A d \in Packers : Calm(d) => Fit(pkRun.doc, pkMem, pkRun.revoked))'
      BY <2>1 DEF RunFits
    <3>1. Calm(c)
      BY <1>1 DEF Calm
    <3>2. /\ Undisturbed /\ Akin(pkMem, pkStore)
          /\ Fit(pkJob[c].doc, pkMem, pkJob[c].revoked) /\ Fit(pkJob[c].doc, pkStore, pkJob[c].revoked)
      BY <1>1, <3>1 DEF Loading, CalmIsKin, Ready
    <3>3. /\ Akin(pkStore, pkStore') /\ pkMem' = pkMem /\ UNCHANGED pkHost
      BY <1>3 DEF Gentle, MutatesTo
    <3>4. Fit(pkJob[c].doc, pkStore', pkJob[c].revoked) /\ pkStore'.source = "package"
      BY <3>2, <3>3, FitCarries DEF Akin
    <3>5. Fit(pkRun.doc, pkStore, pkRun.revoked)' /\ Fit(pkRun.doc, pkMem, pkRun.revoked)'
      BY <2>1, <3>2, <3>3, <3>4 DEF Fit
    <3> QED
      BY <2>2, <3>2, <3>4, <3>5 DEF Steady
  <2>5. PackagedRunsArePrepared'
    BY <2>1 DEF PackagedRunsArePrepared
  <2> QED
    BY <2>2, <2>3, <2>4, <2>5 DEF Loading
<1> QED
  BY <1>2, <1>3, PrepareRunMutates

LEMMA RunningKeepsLoading ==
    ASSUME PackagesShape, PackagesShape', Loading, NEW c \in Packers, BuildContext(c)
    PROVE  Loading'
<1>1. /\ JobMoves(c) /\ AtJob(c, "context") /\ Serving(c) /\ IsJob(pkJob[c])
      /\ pkJob[c].todo # <<>> /\ Head(pkJob[c].todo) = "context"
      /\ UNCHANGED <<pkStore, pkMem, pkPlaces, pkHost>>
  BY WritingStepKeepsShape DEF BuildContext, AtJob, PackagesShape, Serving
<1>2. pkJob[c].ask = "run"
  BY <1>1, Programs DEF IsJob
<1>3. CASE pkRun.at # "started"
  <2>1. UNCHANGED pkRun
    BY <1>3 DEF BuildContext
  <2> QED
    BY <1>1, <2>1, QuietKeepsLoading DEF RunStays, HostGrows
<1>4. CASE pkRun.at = "started"
  <2>1. /\ pkRun'.at = "running" /\ pkRun'.place = pkMem.place
        /\ pkRun'.source = pkRun.source /\ pkRun'.doc = pkRun.doc
        /\ pkRun'.assets = IF pkMem.place = NoDir THEN {} ELSE pkMem.doc.assets
        /\ pkRun'.revoked = pkRun.revoked
        /\ ~pkRun'.disturbed => ~pkRun.disturbed /\ ~pkMem.mixed /\ ~pkJob[c].moved
    BY <1>4 DEF BuildContext, PackagesShape, Stored, RunFields
  <2>2. Ready(c)' /\ ~AtJob(c, "reset")
    BY <1>1, <1>2, RestIsShaped, OnlyStartsPrepare DEF JobMoves, AtJob
  <2>3. Steady
    BY <1>1, <2>2, AkinIsReflexive, MovingIsSteady DEF HostGrows, Wider
  <2>4. StoreIsAsPacked' /\ CalmIsKin'
    BY <2>3, SteadyKeepsKin
  <2>5. \A d \in Packers : Calm(d)' => Ready(d)'
    BY <2>3, <2>4, SteadyKeepsReady
  <2>6. ASSUME pkRun'.source = "package", ~pkRun'.disturbed
        PROVE  /\ Undisturbed /\ Fit(pkRun.doc, pkMem, pkRun.revoked) /\ IsAsPacked(pkMem)
               /\ Tidy(pkMem) /\ pkMem.place \in SessionDirs
    <3>1. Calm(c)
      BY <1>1, <1>2, <2>1, <2>6 DEF Calm
    <3>2. /\ Undisturbed /\ pkStore.source = "package" /\ Fit(pkRun.doc, pkMem, pkRun.revoked)
      BY <1>4, <2>1, <2>6, <3>1 DEF Loading, RunFits
    <3>3. Akin(pkMem, pkStore) /\ IsAsPacked(pkMem)
      BY <3>1 DEF Loading, CalmIsKin
    <3>4. Tidy(pkMem)
      BY <2>1, <2>6, <3>2, <3>3 DEF Akin, Tidy
    <3>5. pkMem.place \in SessionDirs
      BY <3>4 DEF PackagesShape, Stored, IsWorkspace, Tidy
    <3> QED
      BY <3>2, <3>3, <3>4, <3>5
  <2>7. RunFits'
    BY <2>1, <2>3, <2>6 DEF RunFits, Steady
  <2>8. PackagedRunsArePrepared'
    <3> SUFFICES ASSUME pkRun'.source = "package", ~pkRun'.disturbed
                 PROVE  LET packed == pkPlaces[pkMem.place]
                        IN  /\ pkMem.place # NoDir /\ IsPackage(packed)
                            /\ pkRun'.doc.uses = packed.doc.uses
                            /\ packed.assets \subseteq pkRun'.assets
                            /\ pkRun'.doc.needs \subseteq pkRun'.doc.bound
                            /\ pkHost.platform
                            /\ NeedsPermission(packed.doc) => pkHost.allowed \/ pkRun'.revoked
      BY <1>1, <2>1 DEF PackagedRunsArePrepared, IsPackage, NeedsPermission
    <3> DEFINE packed == pkPlaces[pkMem.place]
    <3>1. /\ Fit(pkRun.doc, pkMem, pkRun.revoked) /\ Tidy(pkMem) /\ IsAsPacked(pkMem)
          /\ pkMem.place \in SessionDirs
      BY <2>6
    <3>2. /\ IsPackage(packed) /\ pkMem.doc.uses = packed.doc.uses
          /\ pkMem.doc.assets = packed.doc.assets /\ pkMem.doc.python = packed.doc.python
      BY <3>1 DEF IsAsPacked
    <3>3. packed.assets \subseteq packed.doc.assets
      BY <3>1, <3>2 DEF PackagesShape, Stored, IsWhole
    <3>4. pkMem.place # NoDir
      BY <3>1, PackagesAssumption
    <3>5. /\ pkRun.doc.uses = pkMem.doc.uses /\ pkRun.doc.needs \subseteq pkRun.doc.bound
          /\ pkHost.platform /\ (NeedsPermission(pkMem.doc) => pkHost.allowed \/ pkRun.revoked)
      BY <3>1 DEF Fit
    <3>6. NeedsPermission(packed.doc) <=> NeedsPermission(pkMem.doc)
      BY <3>2 DEF NeedsPermission
    <3> QED
      BY <2>1, <3>2, <3>3, <3>4, <3>5, <3>6
  <2> QED
    BY <2>4, <2>5, <2>7, <2>8 DEF Loading
<1> QED
  BY <1>3, <1>4

LEMMA EndingKeepsLoading ==
    ASSUME PackagesShape, PackagesShape', Loading, EndRun
    PROVE  Loading'
<1>1. /\ UNCHANGED <<pkJob, pkPlaces, pkHost>> /\ pkMem' = pkStore'
      /\ Akin(pkStore, pkStore') /\ pkRun' = NoRun /\ Wider(pkStore, pkStore')
  BY EndingKeepsShape DEF PackagesShape, Stored, IsWorkspace, WorkspaceFields, Wider
<1>2. RunStays
  BY <1>1 DEF RunStays, NoRun
<1>3. (Undisturbed => Undisturbed') /\ (Unspoilt => Unspoilt')
  BY <1>1 DEF Undisturbed, Unspoilt, Serving
<1>4. \A d \in Packers : /\ Calm(d)' => Calm(d)
                         /\ CalmStart(d)' => CalmStart(d)
                         /\ Calm(d)' => Stays(d)
                         /\ AtJob(d, "reset") => AtJob(d, "reset")'
  BY <1>1 DEF Calm, CalmStart, Serving, Stays, AtJob
<1>5. Steady
  BY <1>1, <1>3, <1>4 DEF Steady
<1> QED
  BY <1>2, <1>5, SteadyKeepsLoading

LEMMA EnteringKeepsLoading ==
    ASSUME PackagesShape, PackagesShape', Loading, NEW c \in Packers, EnterJob(c)
    PROVE  Loading'
<1>1. PICK ask \in PackageAsks :
        /\ pkMem' = IF ask \in Refreshing THEN pkStore ELSE pkMem
        /\ pkJob'[c].ask = ask /\ pkJob'[c].todo = Job(ask)
        /\ ~pkJob'[c].moved => ~Disturbed(c, ask) /\ pkMem' = pkStore
        /\ Notice(c, ask \in Exchanging)
        /\ \A d \in Packers \ {c} :
              Serving(d) /\ Disturbs(ask, pkJob[d].ask) => pkJob'[d].moved
        /\ pkRun' = [pkRun EXCEPT !.disturbed = @ \/ (pkRun.at # "none" /\ ask \in Exchanging)]
  BY EnteringKeepsShape
<1>2. ~Serving(c) /\ UNCHANGED <<pkStore, pkPlaces, pkHost>>
  BY EnteringKeepsShape
<1>3. /\ pkRun'.at = pkRun.at /\ pkRun'.source = pkRun.source /\ pkRun'.doc = pkRun.doc
      /\ pkRun'.place = pkRun.place /\ pkRun'.assets = pkRun.assets
      /\ pkRun.disturbed => pkRun'.disturbed
      /\ pkRun'.revoked = pkRun.revoked
      /\ pkRun.at # "none" /\ ask \in Exchanging => pkRun'.disturbed
  BY <1>1 DEF PackagesShape, Stored, RunFields
<1>4. ASSUME NEW d \in Packers \ {c}
      PROVE  /\ AtJob(d, "reset")' <=> AtJob(d, "reset")
             /\ Serving(d)' <=> Serving(d)
             /\ pkJob'[d].ask = pkJob[d].ask /\ (pkJob[d].moved => pkJob'[d].moved)
             /\ pkJob'[d].todo = pkJob[d].todo /\ pkJob'[d].doc = pkJob[d].doc
             /\ pkJob'[d].revoked = pkJob[d].revoked
             /\ Serving(d) /\ ask \in Exchanging => pkJob'[d].moved
  BY <1>1 DEF Notice, AtJob, Serving
<1>5. \A d \in Packers : AtJob(d, "reset") => AtJob(d, "reset")'
  BY <1>2, <1>4 DEF AtJob
<1>6. CASE ask \in Exchanging
  <2>1. \A d \in Packers : ~Calm(d)'
    BY <1>1, <1>4, <1>6 DEF Calm, Exchanging
  <2>2. RunFits' /\ PackagedRunsArePrepared'
    BY <1>3, <1>6 DEF RunFits, PackagedRunsArePrepared
  <2>3. StoreIsAsPacked'
    BY <1>2, <1>5 DEF Loading, StoreIsAsPacked, IsAsPacked, IsPackage
  <2> QED
    BY <2>1, <2>2, <2>3 DEF Loading, CalmIsKin, CalmStart
<1>7. CASE ask \notin Exchanging
  <2>1. Undisturbed => Undisturbed'
    BY <1>1, <1>4, <1>7 DEF Undisturbed
  <2>2. Calm(c)' => Undisturbed' /\ pkMem' = pkStore'
    BY <1>1, <1>2, <1>4, <1>7 DEF Calm, Disturbed, Disturbs, Undisturbed
  <2>3. Ready(c)'
    BY <1>1, ProgramsBegin DEF Ready, AtJob
  <2>4. \A d \in Packers \ {c} : (Calm(d)' => Calm(d)) /\ (Calm(d)' => Stays(d))
    BY <1>2, <1>4 DEF Calm, Stays
  <2>5. CalmStart(c)' => Unspoilt' /\ pkMem' = pkStore'
    BY <1>1, <1>2, <1>4 DEF Calm, CalmStart, Disturbed, Disturbs, Unspoilt
  <2>6. \A d \in Packers \ {c} : CalmStart(d)' => CalmStart(d) /\ (Unspoilt => Unspoilt')
    BY <1>1, <1>4 DEF Calm, CalmStart, Disturbs, Unspoilt
  <2>7. Steady
    BY <1>1, <1>2, <1>5, <2>1, <2>2, <2>3, <2>4, <2>5, <2>6, AkinIsReflexive DEF Steady, Wider
  <2> QED
    BY <1>2, <1>3, <2>7, SteadyKeepsLoading DEF RunStays
<1> QED
  BY <1>6, <1>7

LEMMA AssigningKeepsLoading ==
    ASSUME PackagesShape, PackagesShape', Loading, NEW c \in Packers, AssignState(c)
    PROVE  Loading'
<1>1. /\ AtJob(c, "assign") /\ Notice(c, pkMem' # pkStore)
      /\ UNCHANGED <<pkStore, pkPlaces, pkRun, pkHost>>
      /\ \/ pkJob'[c] = AtRest
         \/ pkJob'[c].ask = "load" /\ pkJob[c].ask = "load" /\ pkJob'[c].todo = <<"refresh">>
         \/ /\ pkJob'[c].ask = "defaults" /\ pkJob[c].ask = "defaults"
            /\ pkJob'[c].todo = <<"file", "save">>
  BY AssigningKeepsShape
<1>2. ~Calm(c)'
  BY <1>1, RestIsShaped DEF Calm, Serving
<1>3. ASSUME NEW d \in Packers \ {c}
      PROVE  /\ AtJob(d, "reset")' <=> AtJob(d, "reset")
             /\ Serving(d)' <=> Serving(d)
             /\ pkJob'[d].ask = pkJob[d].ask /\ (pkJob[d].moved => pkJob'[d].moved)
             /\ pkJob'[d].todo = pkJob[d].todo /\ pkJob'[d].doc = pkJob[d].doc
             /\ pkJob'[d].revoked = pkJob[d].revoked
             /\ Serving(d) /\ pkMem' # pkStore => pkJob'[d].moved
  BY <1>1 DEF Notice, AtJob, Serving
<1>4. \A d \in Packers : AtJob(d, "reset") => AtJob(d, "reset")'
  BY <1>1, <1>3 DEF AtJob
<1>5. (Undisturbed => Undisturbed') /\ (Unspoilt => Unspoilt')
  <2>1. Serving(c)' => pkJob'[c].ask = pkJob[c].ask /\ Serving(c)
    BY <1>1, RestIsShaped DEF Serving, AtJob
  <2> QED
    BY <1>3, <2>1 DEF Undisturbed, Unspoilt
<1>6. CASE pkMem' = pkStore
  <2>1. \A d \in Packers : /\ Calm(d)' => Calm(d)
                           /\ CalmStart(d)' => CalmStart(d)
                           /\ Calm(d)' => Stays(d)
    BY <1>1, <1>2, <1>3 DEF Calm, CalmStart, Stays
  <2>2. Steady
    BY <1>1, <1>4, <1>5, <1>6, <2>1, AkinIsReflexive DEF Steady, Wider
  <2> QED
    BY <1>1, <2>2, SteadyKeepsLoading DEF RunStays
<1>7. CASE pkMem' # pkStore
  <2>1. \A d \in Packers : ~Calm(d)'
    BY <1>2, <1>3, <1>7 DEF Calm
  <2>2. StoreIsAsPacked'
    BY <1>1, <1>4 DEF Loading, StoreIsAsPacked, IsAsPacked, IsPackage
  <2>3. RunFits'
    <3> SUFFICES ASSUME pkRun.at # "none", pkRun.source = "package", ~pkRun.disturbed
                 PROVE  /\ Undisturbed'
                        /\ pkRun.at = "started" =>
                             pkStore'.source = "package" /\ Fit(pkRun.doc, pkStore, pkRun.revoked)'
      BY <1>1, <2>1 DEF RunFits
    <3> QED
      BY <1>1, <1>5 DEF Loading, RunFits, Fit
  <2>4. PackagedRunsArePrepared'
    BY <1>1 DEF Loading, PackagedRunsArePrepared, IsPackage, NeedsPermission
  <2> QED
    BY <2>1, <2>2, <2>3, <2>4 DEF Loading, CalmIsKin, CalmStart
<1> QED
  BY <1>6, <1>7

LEMMA ForbiddingKeepsLoading ==
    ASSUME PackagesShape, PackagesShape', Loading, NEW c \in Packers, ForbidRequired(c)
    PROVE  Loading'
<1>1. /\ AtJob(c, "forbid") /\ pkJob'[c] = AtRest
      /\ UNCHANGED <<pkStore, pkMem, pkPlaces>> /\ pkHost'.platform = pkHost.platform
      /\ pkRun' = [pkRun EXCEPT !.revoked = @ \/ pkRun.at # "none"]
  BY ForbiddingKeepsShape
<1>2. ASSUME NEW d \in Packers \ {c}
      PROVE  /\ pkJob'[d].todo = pkJob[d].todo /\ pkJob'[d].ask = pkJob[d].ask
             /\ pkJob'[d].doc = pkJob[d].doc /\ pkJob'[d].moved = pkJob[d].moved
             /\ pkJob[d].ask = "start" => pkJob'[d].revoked
  BY ForbiddingKeepsShape
<1>3. ~Serving(c)' /\ ~Calm(c)' /\ ~AtJob(c, "reset")
  BY <1>1, RestIsShaped DEF Serving, Calm, AtJob
<1>4. (Undisturbed => Undisturbed') /\ (Unspoilt => Unspoilt')
  BY <1>2, <1>3 DEF Undisturbed, Unspoilt, Serving
<1>5. ASSUME NEW d \in Packers
      PROVE  /\ Calm(d)' => Calm(d)
             /\ CalmStart(d)' => CalmStart(d)
             /\ Calm(d)' => Ready(d)' \/ Stays(d)
             /\ AtJob(d, "reset") => AtJob(d, "reset")'
  <2>1. CASE d = c
    BY <1>3, <2>1 DEF CalmStart
  <2>2. CASE d # c /\ pkJob[d].ask = "start"
    BY <1>2, <2>2 DEF Calm, CalmStart, Stays, Serving, AtJob
  <2>3. CASE d # c /\ pkJob[d].ask # "start"
    <3>1. Ready(d)'
      BY <1>2, <2>3, OnlyStartsPrepare
    <3> QED
      BY <1>2, <2>3, <3>1 DEF Calm, CalmStart, Serving, AtJob
  <2> QED
    BY <2>1, <2>2, <2>3
<1>6. Steady
  BY <1>1, <1>4, <1>5, AkinIsReflexive DEF Steady, Wider
<1>7. RunStays
  BY <1>1 DEF RunStays, PackagesShape, Stored, RunFields
<1> QED
  BY <1>6, <1>7, SteadyKeepsLoading

LEMMA LoadingIsKept ==
    ASSUME PackagesShape, PackagesShape', Loading, [PackagesNext]_pkVars
    PROVE  Loading'
<1>1. CASE UNCHANGED pkVars
  <2>1. Steady /\ RunStays
    BY <1>1, AkinIsReflexive
    DEF pkVars, Steady, RunStays, Undisturbed, Unspoilt, Calm, CalmStart, Stays, Serving, AtJob,
        Wider
  <2> QED
    BY <2>1, SteadyKeepsLoading
<1> QED
  BY <1>1, EndingKeepsLoading, EnteringKeepsLoading, AssigningKeepsLoading,
     PlainStepKeepsLoading, WritingStepKeepsLoading, ExchangingStepKeepsLoading,
     GentleStepKeepsLoading, CheckingKeepsLoading, ResolvingKeepsLoading,
     PreparingKeepsLoading, RunningKeepsLoading, ForbiddingKeepsLoading
  DEF PackagesNext

\* However many clients load, bind, start, edit and save beside each other, change
\* runtime defaults, allow and forbid: the session of a loaded package that nothing
\* disturbed runs the flow that was packed, its names have values, its embedded
\* files are there, and what it requires of the machine is there; its user allowed
\* it, and may have taken that back since the start.
THEOREM PackagedRunsPrepared == PackagesSpec => []PackagedRunsArePrepared
<1>1. PackagesInit => PackagesShape /\ Loading
  <2> SUFFICES ASSUME PackagesInit PROVE PackagesShape /\ Loading
    OBVIOUS
  <2>1. PackagesShape /\ \A c \in Packers : ~Serving(c)
    BY PackagesBeginShaped
  <2>2. IsAsPacked(pkStore)
    BY DEF PackagesInit, OpenedState, WorkspaceState, IsAsPacked, Tidy
  <2>3. pkRun.at = "none"
    BY DEF PackagesInit, NoRun
  <2> QED
    BY <2>1, <2>2, <2>3
    DEF Loading, StoreIsAsPacked, CalmIsKin, Calm, CalmStart, RunFits, PackagedRunsArePrepared
<1>2. PackagesShape /\ Loading /\ [PackagesNext]_pkVars => (PackagesShape /\ Loading)'
  BY ShapeIsKept, LoadingIsKept
<1>3. Loading => PackagedRunsArePrepared
  BY DEF Loading
<1> QED
  BY <1>1, <1>2, <1>3, PTL DEF PackagesSpec

---------------------------------------------------------------------------
(* Configuration: settings change only by those who are to change them.  *)

\* Only the program had files of an older version; what cannot be read has the
\* defaults; a start has taken over the older file before it goes on.
FilesFit ==
    /\ file["graph"].format # "legacy"
    /\ \A scope \in FileScopes :
          /\ temp[scope].format # "legacy"
          /\ file[scope].format \in {"missing", "torn"} => file[scope].values = Defaults
          /\ temp[scope].format \in {"missing", "torn"} => temp[scope].values = Defaults
    /\ server \in {"graph", "up"} => file["program"].format # "legacy"
    /\ server = "program" =>
          legacy = IF file["program"].format = "legacy" THEN file["program"].values["policy"] ELSE 0

\* A request that runs alone knows every setting it is not to change, and is
\* the only one whose document lies in the temporary file.
KnowsSettings(c) ==
    LET r == admin[c]
    IN  /\ \A d \in Admins \ {c} : ~Pending(d)
        /\ r.into = "temp"
        /\ r.at = "replace" => temp[r.scope] = Document(r.values, r.scope)
        /\ r.at # "entry" =>
              \A s \in InFile(r.scope) \ r.asked : r.values[s] = file[r.scope].values[s]
        /\ r.scope = "graph" /\ "runtime" \notin r.asked /\ ~r.blind =>
              r.values["runtime"] = runtime

\* What the risky setting may be.
Allowed == confirmed \cup {0, 1}

RisksAreConfirmed ==
    /\ file["program"].values["risky"] \in Allowed
    /\ temp["program"].values["risky"] \in Allowed
    /\ \A c \in Admins : admin[c].scope = "program" => admin[c].values["risky"] \in Allowed

Configured ==
    /\ ConfigurationTypeOK
    /\ FilesFit
    /\ \A c \in Admins : Pending(c) => server = "up" /\ (admin[c].alone => KnowsSettings(c))
    /\ \A c \in Admins : admin[c].at = "entry" => admin[c].scope = "graph"
    /\ RisksAreConfirmed

LEMMA Scopes ==
    /\ ScopeOf("plain") = "program" /\ ScopeOf("risky") = "program"
    /\ ScopeOf("limits") = "program"
    /\ ScopeOf("policy") = "graph" /\ ScopeOf("runtime") = "graph"
    /\ InFile("program") = {"plain", "risky", "limits"} /\ InFile("graph") = {"policy"}
BY DEF ScopeOf, InFile

LEMMA PlainValues == Defaults \in Values /\ \A s \in Settings : Defaults[s] = 0
BY DEF Defaults, Values

LEMMA PlainContents ==
    \A f \in {"missing", "torn", "legacy", "current"} :
        /\ Without(f) \in Contents /\ Without(f).format = f /\ Without(f).values = Defaults
BY PlainValues DEF Without, Contents

LEMMA DocumentFits ==
    ASSUME NEW v \in Values, NEW scope \in FileScopes
    PROVE  /\ Document(v, scope) \in Contents /\ Document(v, scope).format = "current"
           /\ \A s \in InFile(scope) : Document(v, scope).values[s] = v[s]
<1>1. InFile(scope) \subseteq Settings
  BY DEF InFile, Settings, FileScopes
<1>2. [s \in Settings |-> IF s \in InFile(scope) THEN v[s] ELSE 0] \in Values
  BY DEF Values
<1> QED
  BY <1>1, <1>2 DEF Document, Contents

LEMMA EarlyProgramFits ==
    /\ EarlyProgram \in Contents /\ EarlyProgram.format = "current"
    /\ EarlyProgram.values["risky"] = 1
<1>1. [OldValues EXCEPT !["limits"] = ZeroLimits] \in Values
  BY DEF OldValues, ZeroLimits, Values
<1>2. [OldValues EXCEPT !["limits"] = ZeroLimits]["risky"] = 1
  BY DEF OldValues, Settings
<1> QED
  BY <1>1, <1>2, DocumentFits, Scopes DEF EarlyProgram, FileScopes

LEMMA RestFits == Rest \in AdminStates /\ Rest.at = "rest" /\ Rest.scope = "program"
                  /\ Rest.values["risky"] = 0
BY PlainValues DEF Rest, AdminStates, FileScopes, Settings

LEMMA ConfigurationStarts == ConfigurationInit => Configured
<1> SUFFICES ASSUME ConfigurationInit PROVE Configured
  OBVIOUS
<1>1. /\ temp = [scope \in FileScopes |-> Without("missing")]
      /\ runtime = 1 /\ created = FALSE /\ server = "down" /\ legacy = 0
      /\ admin = [c \in Admins |-> Rest] /\ confirmed = {} /\ changes = 0 /\ kills = 0
  BY DEF ConfigurationInit
<1>2. PICK p \in {Without("missing"), OldProgram, EarlyProgram} :
         file = [program |-> p, graph |-> Without("missing")]
  BY DEF ConfigurationInit
<1>3. OldProgram \in Contents /\ OldProgram.format = "legacy" /\ OldProgram.values["risky"] = 1
  BY DEF OldProgram, OldValues, Contents, Values, Settings
<1>4. /\ Without("missing") \in Contents /\ Without("missing").format = "missing"
      /\ Without("missing").values = Defaults /\ Defaults["risky"] = 0
  BY PlainContents, PlainValues DEF Settings
<1>5. file["program"] = p /\ file["graph"] = Without("missing") /\ file \in [FileScopes -> Contents]
  BY <1>2, <1>3, <1>4, EarlyProgramFits DEF FileScopes
<1>6. ConfigurationTypeOK
  BY <1>1, <1>4, <1>5, RestFits DEF ConfigurationTypeOK
<1>7. FilesFit
  BY <1>1, <1>3, <1>4, <1>5, EarlyProgramFits DEF FilesFit, FileScopes
<1>8. RisksAreConfirmed
  BY <1>1, <1>3, <1>4, <1>5, EarlyProgramFits, RestFits DEF RisksAreConfirmed, Allowed, FileScopes
<1> QED
  BY <1>1, <1>6, <1>7, <1>8, RestFits DEF Configured, Pending, Stands

\* What a step may change, as the property says it.
OnlyAsAsked ==
    \A s \in Settings : Effective(s)' # Effective(s) =>
        \/ \E c \in Admins : MayChange(c, s)
        \/ MayLose(s) \/ MayForget(s)
        \/ s = "runtime" /\ changes' # changes

RiskStays == file'["program"].values["risky"] \in Allowed

LEMMA ConfigurationTypes ==
    ASSUME Configured, NEW scope \in FileScopes
    PROVE  /\ file[scope] \in Contents /\ temp[scope] \in Contents
           /\ file[scope].format \in {"missing", "torn", "legacy", "current"}
           /\ temp[scope].format \in {"missing", "torn", "current"}
           /\ file[scope].values \in Values /\ temp[scope].values \in Values
           /\ DOMAIN file = FileScopes /\ DOMAIN temp = FileScopes
BY DEF Configured, ConfigurationTypeOK, Contents, FilesFit

LEMMA AdminTypes ==
    ASSUME Configured, NEW c \in Admins
    PROVE  /\ admin[c] \in AdminStates /\ admin[c].scope \in FileScopes
           /\ admin[c].values \in Values /\ DOMAIN admin = Admins
BY DEF Configured, ConfigurationTypeOK, AdminStates

LEMMA NoneWhileDown ==
    ASSUME Configured, server # "up", NEW c \in Admins
    PROVE  ~Pending(c)
BY DEF Configured

\* The value of each setting, before and after a step.
LEMMA EffectiveValues ==
    /\ Effective("runtime") = runtime /\ Effective("runtime")' = runtime'
    /\ Effective("plain") = file["program"].values["plain"]
    /\ Effective("plain")' = file'["program"].values["plain"]
    /\ Effective("risky") = file["program"].values["risky"]
    /\ Effective("risky")' = file'["program"].values["risky"]
    /\ Effective("limits") = file["program"].values["limits"]
    /\ Effective("limits")' = file'["program"].values["limits"]
    /\ Effective("policy") =
          IF file["graph"].format = "current" THEN file["graph"].values["policy"]
          ELSE IF file["program"].format = "legacy" THEN file["program"].values["policy"]
          ELSE IF server = "graph" THEN legacy ELSE 0
    /\ Effective("policy")' =
          IF file'["graph"].format = "current" THEN file'["graph"].values["policy"]
          ELSE IF file'["program"].format = "legacy" THEN file'["program"].values["policy"]
          ELSE IF server' = "graph" THEN legacy' ELSE 0
<1>1. Effective("runtime") = runtime /\ Effective("runtime")' = runtime'
  BY DEF Effective, InFile
<1>2. /\ Effective("plain") = file["program"].values["plain"]
      /\ Effective("plain")' = file'["program"].values["plain"]
  BY DEF Effective, InFile
<1>3. /\ Effective("risky") = file["program"].values["risky"]
      /\ Effective("risky")' = file'["program"].values["risky"]
  BY DEF Effective, InFile
<1>4. Effective("policy") =
          IF file["graph"].format = "current" THEN file["graph"].values["policy"]
          ELSE IF file["program"].format = "legacy" THEN file["program"].values["policy"]
          ELSE IF server = "graph" THEN legacy ELSE 0
  BY DEF Effective, InFile
<1>5. Effective("policy")' =
          IF file'["graph"].format = "current" THEN file'["graph"].values["policy"]
          ELSE IF file'["program"].format = "legacy" THEN file'["program"].values["policy"]
          ELSE IF server' = "graph" THEN legacy' ELSE 0
  BY DEF Effective, InFile
<1>6. /\ Effective("limits") = file["program"].values["limits"]
      /\ Effective("limits")' = file'["program"].values["limits"]
  BY DEF Effective, InFile
<1> QED
  BY <1>1, <1>2, <1>3, <1>4, <1>5, <1>6

\* A start takes nothing from the settings but limits of zero.
LEMMA LimitsOnly ==
    ASSUME NEW v \in Values
    PROVE  /\ WithoutZeroLimits(v) \in Values
           /\ \A s \in Settings \ {"limits"} : WithoutZeroLimits(v)[s] = v[s]
           /\ WithoutZeroLimits(v)["limits"] # v["limits"] =>
                 v["limits"] = ZeroLimits /\ WithoutZeroLimits(v)["limits"] = 0
BY DEF WithoutZeroLimits, ZeroLimits, Values, Settings

LEMMA ReadLegacyKeeps ==
    ASSUME Configured, ReadLegacy
    PROVE  Configured' /\ OnlyAsAsked /\ RiskStays
<1>1. /\ server = "down" /\ server' = "program"
      /\ legacy' = IF file["program"].format = "legacy" THEN file["program"].values["policy"] ELSE 0
      /\ UNCHANGED <<file, temp, runtime, created, admin, confirmed, changes, kills>>
  BY DEF ReadLegacy
<1>2. "program" \in FileScopes /\ "policy" \in Settings
  BY DEF FileScopes, Settings
<1>3. legacy' \in Nat
  BY <1>1, <1>2, ConfigurationTypes DEF Values
<1>4. ConfigurationTypeOK'
  BY <1>1, <1>3 DEF Configured, ConfigurationTypeOK
<1>5. FilesFit'
  BY <1>1 DEF Configured, FilesFit
<1>6. \A c \in Admins : ~Pending(c)'
  BY <1>1, NoneWhileDown DEF Pending, Stands
<1>7. RisksAreConfirmed' /\ RiskStays
  BY <1>1 DEF Configured, RisksAreConfirmed, Allowed, RiskStays
<1>8. OnlyAsAsked
  BY <1>1 DEF OnlyAsAsked, Effective
<1> QED
  BY <1>1, <1>4, <1>5, <1>6, <1>7, <1>8 DEF Configured

LEMMA MigrateProgramKeeps ==
    ASSUME Configured, MigrateProgram
    PROVE  Configured' /\ OnlyAsAsked /\ RiskStays
<1> DEFINE old == file["program"]
           new == Document(WithoutZeroLimits(old.values), "program")
<1>1. /\ server = "program" /\ server' = "graph"
      /\ file' = IF old.format = "missing" THEN file
                 ELSE [file EXCEPT !["program"] = new]
      /\ UNCHANGED <<temp, runtime, created, legacy, admin, confirmed, changes, kills>>
  BY DEF MigrateProgram
<1>2. "program" \in FileScopes /\ "graph" \in FileScopes
  BY DEF FileScopes
<1>3. /\ old \in Contents /\ old.values \in Values
      /\ old.format \in {"missing", "torn", "legacy", "current"} /\ DOMAIN file = FileScopes
  BY <1>2, ConfigurationTypes
<1>4. /\ new \in Contents /\ new.format = "current"
      /\ new.values["plain"] = old.values["plain"] /\ new.values["risky"] = old.values["risky"]
      /\ new.values["limits"] # old.values["limits"] =>
            old.values["limits"] = ZeroLimits /\ new.values["limits"] = 0
  BY <1>2, <1>3, DocumentFits, LimitsOnly, Scopes DEF Settings
<1> HIDE DEF new
<1>5. /\ file' \in [FileScopes -> Contents] /\ file'["graph"] = file["graph"]
      /\ file'["program"] = IF old.format = "missing" THEN old ELSE new
  BY <1>1, <1>2, <1>3, <1>4 DEF Configured, ConfigurationTypeOK
<1>6. ConfigurationTypeOK'
  BY <1>1, <1>5 DEF Configured, ConfigurationTypeOK
<1>7. FilesFit'
  BY <1>1, <1>3, <1>4, <1>5 DEF Configured, FilesFit, FileScopes
<1>8. \A c \in Admins : ~Pending(c)'
  BY <1>1, NoneWhileDown DEF Pending, Stands
<1>9. file'["program"].values["risky"] = old.values["risky"]
      /\ file'["program"].values["plain"] = old.values["plain"]
  BY <1>4, <1>5
<1>10. RisksAreConfirmed' /\ RiskStays
  BY <1>1, <1>9 DEF Configured, RisksAreConfirmed, Allowed, RiskStays
<1>11. OnlyAsAsked
  <2>1. legacy = IF old.format = "legacy" THEN old.values["policy"] ELSE 0
    BY <1>1 DEF Configured, FilesFit
  <2>2. file'["program"].format # "legacy"
    BY <1>3, <1>4, <1>5
  <2>3. Effective("policy")' = Effective("policy")
    BY <1>1, <1>5, <2>1, <2>2, EffectiveValues
  <2>4. \A s \in {"plain", "risky", "runtime"} : Effective(s)' = Effective(s)
    BY <1>1, <1>9, EffectiveValues
  <2>5. Effective("limits")' # Effective("limits") => MayForget("limits")
    BY <1>1, <1>4, <1>5, EffectiveValues DEF MayForget
  <2> QED
    BY <2>3, <2>4, <2>5 DEF OnlyAsAsked, Settings
<1> QED
  BY <1>1, <1>6, <1>7, <1>8, <1>10, <1>11 DEF Configured

LEMMA MigrateGraphKeeps ==
    ASSUME Configured, MigrateGraph
    PROVE  Configured' /\ OnlyAsAsked /\ RiskStays
<1> DEFINE old == file["graph"]
           v == [Defaults EXCEPT !["policy"] = legacy]
           new == Document(v, "graph")
           stays == \/ old.format = "current"
                    \/ old.format = "missing" /\ legacy = 0
<1>1. /\ server = "graph" /\ server' = "up"
      /\ file' = IF stays THEN file ELSE [file EXCEPT !["graph"] = new]
      /\ UNCHANGED <<temp, runtime, created, legacy, admin, confirmed, changes, kills>>
  BY DEF MigrateGraph
<1>2. "program" \in FileScopes /\ "graph" \in FileScopes
  BY DEF FileScopes
<1>3. v \in Values /\ v["policy"] = legacy
  BY PlainValues DEF Configured, ConfigurationTypeOK, Values, Settings
<1> HIDE DEF v
<1>4. new \in Contents /\ new.format = "current" /\ new.values["policy"] = legacy
  BY <1>2, <1>3, DocumentFits, Scopes
<1> HIDE DEF new, stays
<1>5. /\ file' \in [FileScopes -> Contents] /\ file'["program"] = file["program"]
      /\ file'["graph"] = IF stays THEN old ELSE new
  BY <1>1, <1>2, <1>4 DEF Configured, ConfigurationTypeOK
<1>6. ConfigurationTypeOK'
  BY <1>1, <1>5 DEF Configured, ConfigurationTypeOK
<1>7. FilesFit'
  BY <1>1, <1>4, <1>5 DEF Configured, FilesFit, FileScopes
<1>8. \A c \in Admins : ~Pending(c)'
  BY <1>1, NoneWhileDown DEF Pending, Stands
<1>9. RisksAreConfirmed' /\ RiskStays
  BY <1>1, <1>5 DEF Configured, RisksAreConfirmed, Allowed, RiskStays
<1>10. OnlyAsAsked
  <2>1. file["program"].format # "legacy"
    BY <1>1 DEF Configured, FilesFit
  <2>2. Effective("policy")' = Effective("policy")
    BY <1>1, <1>4, <1>5, <2>1, EffectiveValues DEF stays
  <2>3. \A s \in {"plain", "risky", "limits", "runtime"} : Effective(s)' = Effective(s)
    BY <1>1, <1>5, EffectiveValues
  <2> QED
    BY <2>2, <2>3 DEF OnlyAsAsked, Settings
<1> QED
  BY <1>1, <1>6, <1>7, <1>8, <1>9, <1>10 DEF Configured

LEMMA KillKeeps ==
    ASSUME Configured, Kill
    PROVE  Configured' /\ OnlyAsAsked /\ RiskStays
<1> DEFINE TornFile(scope) == \E c \in Admins : /\ Stands(c, "write") /\ admin[c].into = "file"
                                           /\ admin[c].scope = scope
<1>1. /\ kills' = kills + 1 /\ server # "down" /\ server' = "down" /\ created' = FALSE
      /\ legacy' = 0 /\ admin' = [c \in Admins |-> Rest]
      /\ file' = [scope \in FileScopes |-> IF TornFile(scope) THEN Without("torn") ELSE file[scope]]
      /\ UNCHANGED <<temp, runtime, confirmed, changes>>
  BY DEF Kill
<1> HIDE DEF TornFile
<1>2. \A scope \in FileScopes : file'[scope] = IF TornFile(scope) THEN Without("torn") ELSE file[scope]
  BY <1>1
<1>3. ConfigurationTypeOK'
  <2>1. file' \in [FileScopes -> Contents]
    BY <1>1, PlainContents DEF Configured, ConfigurationTypeOK
  <2>2. admin' \in [Admins -> AdminStates]
    BY <1>1, RestFits
  <2>3. kills' \in Nat
    BY <1>1 DEF Configured, ConfigurationTypeOK
  <2>4. server' \in {"down", "program", "graph", "up"} /\ created' \in BOOLEAN /\ legacy' \in Nat
    BY <1>1
  <2> QED
    BY <1>1, <2>1, <2>2, <2>3, <2>4 DEF Configured, ConfigurationTypeOK
<1>4. FilesFit'
  BY <1>1, <1>2, PlainContents DEF Configured, FilesFit, FileScopes
<1>5. \A c \in Admins : ~Pending(c)' /\ admin'[c] = Rest
  BY <1>1, RestFits DEF Pending, Stands
<1>6. RisksAreConfirmed' /\ RiskStays
  <2>1. file'["program"].values["risky"] \in Allowed
    BY <1>2, PlainContents, PlainValues
    DEF Configured, RisksAreConfirmed, Allowed, FileScopes, Settings
  <2> QED
    BY <1>1, <1>5, <2>1, RestFits DEF Configured, RisksAreConfirmed, Allowed, RiskStays
<1>7. OnlyAsAsked
  <2> SUFFICES ASSUME NEW s \in Settings, Effective(s)' # Effective(s) PROVE MayLose(s)
    BY DEF OnlyAsAsked
  <2>1. kills' # kills
    BY <1>1 DEF Configured, ConfigurationTypeOK
  <2>2. CASE \E scope \in FileScopes : TornFile(scope)
    <3>1. PICK c \in Admins : Stands(c, "write") /\ admin[c].into = "file"
      BY <2>2 DEF TornFile
    <3>2. ~admin[c].alone
      BY <3>1 DEF Configured, KnowsSettings, Pending, Stands
    <3> QED
      BY <2>1, <3>1, <3>2 DEF MayLose
  <2>3. CASE ~\E scope \in FileScopes : TornFile(scope)
    <3>1. file'["program"] = file["program"] /\ file'["graph"] = file["graph"]
      BY <1>2, <2>3 DEF FileScopes
    <3>2. s = "policy" /\ server = "graph"
      BY <1>1, <3>1, EffectiveValues DEF Settings
    <3> QED
      BY <2>1, <3>2 DEF MayLose
  <2> QED
    BY <2>2, <2>3
<1> QED
  BY <1>3, <1>4, <1>5, <1>6, <1>7, RestFits DEF Configured, KnowsSettings

\* Nothing changes for the user.
LEMMA NothingIsChanged ==
    ASSUME Configured, UNCHANGED <<file, runtime, server, legacy>>
    PROVE  OnlyAsAsked /\ RiskStays
<1>1. \A s \in Settings : Effective(s)' = Effective(s)
  BY EffectiveValues DEF Settings
<1> QED
  BY <1>1 DEF OnlyAsAsked, RiskStays, Configured, RisksAreConfirmed

\* The request of one client moves on.
LEMMA OneAdmin ==
    ASSUME Configured, NEW c \in Admins, NEW r \in AdminStates, Moves(c, r)
    PROVE  /\ admin' \in [Admins -> AdminStates] /\ admin'[c] = r
           /\ \A d \in Admins \ {c} : admin'[d] = admin[d]
BY DEF Configured, ConfigurationTypeOK, Moves

\* A request that comes knows the settings as they are.
LEMMA ComeKeeps ==
    ASSUME Configured, NEW c \in Admins, NEW scope \in FileScopes,
           NEW targets \in SUBSET Settings, NEW values \in Values,
           Come(c, scope, targets, values),
           confirmed \subseteq confirmed', confirmed' \subseteq Nat, changes' = changes + 1,
           scope = "program" => values["risky"] \in Allowed',
           \A s \in InFile(scope) \ targets : values[s] = file[scope].values[s],
           scope = "graph" /\ "runtime" \notin targets /\ created => values["runtime"] = runtime
    PROVE  Configured' /\ OnlyAsAsked /\ RiskStays
<1> DEFINE alone == \A d \in Admins : ~Pending(d)
           r == [at |-> "open", scope |-> scope, asked |-> targets, values |-> values,
                 into |-> "temp", alone |-> alone, blind |-> ~created]
<1>1. /\ server = "up" /\ ~Pending(c)
      /\ admin' = [d \in Admins |-> IF d = c THEN r ELSE [admin[d] EXCEPT !.alone = FALSE]]
      /\ UNCHANGED <<file, temp, runtime, created, server, legacy, kills>>
  BY DEF Come
<1>2. alone \in BOOLEAN /\ (~created) \in BOOLEAN
  BY DEF Configured, ConfigurationTypeOK
<1> HIDE DEF alone
<1>3. /\ r \in AdminStates /\ r.at = "open" /\ r.scope = scope /\ r.asked = targets
      /\ r.values = values /\ r.into = "temp" /\ r.alone = alone /\ r.blind = ~created
  BY <1>2 DEF AdminStates
<1> HIDE DEF r
<1>4. ASSUME NEW d \in Admins
      PROVE  LET q == [admin[d] EXCEPT !.alone = FALSE]
             IN  q \in AdminStates /\ q.alone = FALSE /\ q.at = admin[d].at
                 /\ q.scope = admin[d].scope /\ q.values = admin[d].values
  BY AdminTypes DEF AdminStates
<1>5. /\ admin' \in [Admins -> AdminStates] /\ admin'[c] = r
      /\ \A d \in Admins \ {c} :
            /\ admin'[d].alone = FALSE /\ admin'[d].at = admin[d].at
            /\ admin'[d].scope = admin[d].scope /\ admin'[d].values = admin[d].values
  BY <1>1, <1>3, <1>4
<1>6. ConfigurationTypeOK'
  <2>1. changes' \in Nat
    BY DEF Configured, ConfigurationTypeOK
  <2> QED
    BY <1>1, <1>5, <2>1 DEF Configured, ConfigurationTypeOK
<1>7. FilesFit'
  BY <1>1 DEF Configured, FilesFit
<1>8. RisksAreConfirmed'
  BY <1>1, <1>3, <1>5 DEF Configured, RisksAreConfirmed, Allowed
<1>9. alone => KnowsSettings(c)'
  <2> SUFFICES ASSUME alone PROVE KnowsSettings(c)'
    OBVIOUS
  <2>1. \A d \in Admins \ {c} : ~Pending(d)'
    BY <1>5 DEF alone, Pending, Stands
  <2>2. /\ admin'[c].into = "temp" /\ admin'[c].at = "open" /\ admin'[c].scope = scope
        /\ admin'[c].asked = targets /\ admin'[c].values = values /\ admin'[c].blind = ~created
    BY <1>3, <1>5
  <2>3. \A s \in InFile(scope) \ targets : values[s] = file'[scope].values[s]
    BY <1>1
  <2>4. scope = "graph" /\ "runtime" \notin targets /\ created => values["runtime"] = runtime'
    BY <1>1
  <2> QED
    BY <2>1, <2>2, <2>3, <2>4 DEF KnowsSettings
<1>10. \A d \in Admins : Pending(d)' => server' = "up" /\ (admin'[d].alone => KnowsSettings(d)')
  BY <1>1, <1>3, <1>5, <1>9
<1>11. \A d \in Admins : admin'[d].at = "entry" => admin'[d].scope = "graph"
  BY <1>3, <1>5 DEF Configured
<1>12. OnlyAsAsked /\ RiskStays
  BY <1>1, NothingIsChanged
<1> QED
  BY <1>6, <1>7, <1>8, <1>10, <1>11, <1>12 DEF Configured

LEMMA LoadedValues ==
    ASSUME Configured, NEW scope \in FileScopes
    PROVE  /\ LoadValues(scope) \in Values
           /\ \A s \in InFile(scope) : LoadValues(scope)[s] = file[scope].values[s]
           /\ scope = "graph" /\ created => LoadValues(scope)["runtime"] = runtime
<1>1. file[scope].values \in Values /\ SeenRuntime \in Nat
  BY ConfigurationTypes DEF SeenRuntime, Configured, ConfigurationTypeOK
<1>2. scope = "program" \/ scope = "graph"
  BY DEF FileScopes
<1> QED
  BY <1>1, <1>2 DEF LoadValues, Values, InFile, Settings, SeenRuntime

LEMMA ApplyChangeKeeps ==
    ASSUME Configured, NEW c \in Admins, NEW s \in Settings, NEW confirm \in BOOLEAN,
           NEW value \in NewValues(s), ApplyChange(c, s, value, confirm)
    PROVE  Configured' /\ OnlyAsAsked /\ RiskStays
<1> DEFINE scope == ScopeOf(s)
           before == LoadValues(scope)
           after == [before EXCEPT ![s] = value]
<1>1. /\ changes' = changes + 1 /\ (NeedsConfirmation(before, after) => confirm)
      /\ confirmed' = IF confirm THEN confirmed \cup {after["risky"]} ELSE confirmed
      /\ Come(c, scope, {s}, after)
  BY DEF ApplyChange
<1>2. scope \in FileScopes /\ value \in Nat /\ confirmed \subseteq Nat
  BY DEF ScopeOf, FileScopes, NewValues, ZeroLimits, Configured, ConfigurationTypeOK
<1> HIDE DEF scope
<1>3. /\ before \in Values
      /\ \A x \in InFile(scope) : before[x] = file[scope].values[x]
      /\ scope = "graph" /\ created => before["runtime"] = runtime
  BY <1>2, LoadedValues
<1> HIDE DEF before
<1>4. after \in Values /\ \A x \in Settings \ {s} : after[x] = before[x]
  BY <1>2, <1>3 DEF Values
<1> HIDE DEF after
<1>5. after["risky"] \in Nat
  BY <1>4 DEF Values, Settings
<1>6. confirmed \subseteq confirmed' /\ confirmed' \subseteq Nat
  BY <1>1, <1>2, <1>5
<1>7. scope = "program" => after["risky"] \in Allowed'
  <2> SUFFICES ASSUME scope = "program", ~confirm PROVE after["risky"] \in Allowed'
    BY <1>1 DEF Allowed
  <2>1. after["risky"] = before["risky"]
    BY <1>1 DEF NeedsConfirmation
  <2>2. before["risky"] = file["program"].values["risky"]
    BY <1>3, Scopes
  <2> QED
    BY <1>1, <2>1, <2>2 DEF Configured, RisksAreConfirmed, Allowed
<1>8. InFile(scope) \subseteq Settings /\ "runtime" \in Settings
  BY DEF InFile, Settings
<1> QED
  BY <1>1, <1>2, <1>3, <1>4, <1>6, <1>7, <1>8, ComeKeeps

LEMMA ResetKeeps ==
    ASSUME Configured, NEW c \in Admins, NEW scope \in FileScopes, Reset(c, scope)
    PROVE  Configured' /\ OnlyAsAsked /\ RiskStays
<1> DEFINE targets == {s \in Settings : ScopeOf(s) = scope}
<1>1. changes' = changes + 1 /\ Come(c, scope, targets, Defaults) /\ confirmed' = confirmed
  BY DEF Reset
<1>2. InFile(scope) \subseteq targets
  BY Scopes DEF FileScopes, Settings
<1>3. Defaults["risky"] \in Allowed'
  BY PlainValues DEF Allowed, Settings
<1>4. scope = "graph" => "runtime" \in targets
  BY Scopes DEF Settings
<1>5. targets \in SUBSET Settings /\ Defaults \in Values /\ confirmed \subseteq Nat
  BY PlainValues DEF Configured, ConfigurationTypeOK
<1> HIDE DEF targets
<1> QED
  BY <1>1, <1>2, <1>3, <1>4, <1>5, ComeKeeps

\* Beside a request that is served nobody runs alone.
LEMMA NobodyElseAlone ==
    ASSUME Configured, NEW c \in Admins, Pending(c), NEW d \in Admins \ {c}, Pending(d)
    PROVE  ~admin[d].alone
BY DEF Configured, KnowsSettings

LEMMA OpenTempKeeps ==
    ASSUME Configured, NEW c \in Admins, OpenTemp(c)
    PROVE  Configured' /\ OnlyAsAsked /\ RiskStays
<1> DEFINE r == [admin[c] EXCEPT !.at = "write"]
           scope == admin[c].scope
<1>1. /\ admin[c].at = "open" /\ temp' = [temp EXCEPT ![scope] = Without("torn")]
      /\ Moves(c, r)
      /\ UNCHANGED <<file, runtime, created, server, legacy, confirmed, changes, kills>>
  BY DEF OpenTemp, Stands
<1>2. /\ r \in AdminStates /\ r.at = "write" /\ r.scope = scope /\ r.asked = admin[c].asked
      /\ r.values = admin[c].values /\ r.into = admin[c].into /\ r.alone = admin[c].alone
      /\ r.blind = admin[c].blind /\ scope \in FileScopes
  BY AdminTypes DEF AdminStates
<1> HIDE DEF r
<1>3. /\ admin' \in [Admins -> AdminStates] /\ admin'[c] = r
      /\ \A d \in Admins \ {c} : admin'[d] = admin[d]
  BY <1>1, <1>2, OneAdmin
<1>4. /\ temp' \in [FileScopes -> Contents] /\ temp'[scope] = Without("torn")
      /\ \A x \in FileScopes \ {scope} : temp'[x] = temp[x]
  BY <1>1, <1>2, PlainContents DEF Configured, ConfigurationTypeOK
<1>5. ConfigurationTypeOK'
  BY <1>1, <1>3, <1>4 DEF Configured, ConfigurationTypeOK
<1>6. FilesFit'
  BY <1>1, <1>2, <1>4, PlainContents DEF Configured, FilesFit
<1>7. RisksAreConfirmed'
  <2>1. temp'["program"].values["risky"] \in Allowed
    BY <1>2, <1>4, PlainContents, PlainValues
    DEF Configured, RisksAreConfirmed, Allowed, FileScopes, Settings
  <2> QED
    BY <1>1, <1>2, <1>3, <2>1 DEF Configured, RisksAreConfirmed, Allowed
<1>8. Pending(c) /\ server = "up"
  BY <1>1 DEF Configured, Pending, Stands
<1>9. admin[c].alone => KnowsSettings(c)'
  <2> SUFFICES ASSUME admin[c].alone PROVE KnowsSettings(c)'
    OBVIOUS
  <2>1. KnowsSettings(c)
    BY <1>8 DEF Configured
  <2> QED
    BY <1>1, <1>2, <1>3, <2>1 DEF KnowsSettings, Pending, Stands
<1>10. \A d \in Admins : Pending(d)' => server' = "up" /\ (admin'[d].alone => KnowsSettings(d)')
  BY <1>1, <1>2, <1>3, <1>8, <1>9, NobodyElseAlone DEF Pending, Stands
<1>11. \A d \in Admins : admin'[d].at = "entry" => admin'[d].scope = "graph"
  BY <1>2, <1>3 DEF Configured
<1>12. OnlyAsAsked /\ RiskStays
  BY <1>1, NothingIsChanged
<1> QED
  BY <1>5, <1>6, <1>7, <1>10, <1>11, <1>12 DEF Configured

\* What the files are taken for when the server is up.
LEMMA PolicyWhileUp ==
    ASSUME Configured, server = "up"
    PROVE  /\ file["program"].format # "legacy"
           /\ Effective("policy") =
                 IF file["graph"].format = "current" THEN file["graph"].values["policy"] ELSE 0
BY EffectiveValues DEF Configured, FilesFit

\* One settings file is written by a request that may do so.
LEMMA FileIsWritten ==
    ASSUME Configured, NEW c \in Admins, NEW scope \in FileScopes, server = "up",
           admin[c].scope = scope, admin[c].at \in {"write", "replace"}, admin'[c] # admin[c],
           NEW content \in Contents, content.format \in {"missing", "torn", "current"},
           content.format \in {"missing", "torn"} => content.values = Defaults,
           file' = [file EXCEPT ![scope] = content],
           scope = "program" => content.values["risky"] \in Allowed,
           admin[c].alone =>
              /\ content.format = "current"
              /\ \A s \in InFile(scope) \ admin[c].asked : content.values[s] = file[scope].values[s],
           UNCHANGED <<runtime, server, legacy, created, confirmed, changes, kills>>
    PROVE  /\ OnlyAsAsked /\ RiskStays
           /\ file' \in [FileScopes -> Contents] /\ file'["program"].format # "legacy"
           /\ file'["graph"].format # "legacy"
           /\ \A x \in FileScopes :
                 file'[x].format \in {"missing", "torn"} => file'[x].values = Defaults
<1>1. /\ file' \in [FileScopes -> Contents] /\ file'[scope] = content
      /\ \A x \in FileScopes \ {scope} : file'[x] = file[x]
  BY DEF Configured, ConfigurationTypeOK
<1>2. scope = "program" \/ scope = "graph"
  BY DEF FileScopes
<1>3. /\ \A x \in FileScopes : file'[x].format # "legacy"
      /\ \A x \in FileScopes : file'[x].format \in {"missing", "torn"} => file'[x].values = Defaults
  BY <1>1, PolicyWhileUp DEF Configured, FilesFit, FileScopes
<1>4. RiskStays
  BY <1>1 DEF RiskStays, Configured, RisksAreConfirmed, FileScopes
<1>5. OnlyAsAsked
  <2> SUFFICES ASSUME NEW s \in Settings, Effective(s)' # Effective(s) PROVE MayChange(c, s)
    BY DEF OnlyAsAsked
  <2>1. Effective("policy")' =
           IF file'["graph"].format = "current" THEN file'["graph"].values["policy"] ELSE 0
    BY <1>3, EffectiveValues DEF FileScopes
  <2>2. ScopeOf(s) = scope /\ s \in InFile(scope)
    <3>1. CASE s = "policy"
      <4>1. scope = "graph"
        BY <1>1, <1>2, <2>1, <3>1, PolicyWhileUp DEF FileScopes
      <4> QED
        BY <3>1, <4>1, Scopes
    <3>2. CASE s = "runtime"
      BY <3>2, EffectiveValues
    <3>3. CASE s \in {"plain", "risky", "limits"}
      <4>1. scope = "program"
        BY <1>1, <1>2, <3>3, EffectiveValues DEF FileScopes
      <4> QED
        BY <3>3, <4>1, Scopes
    <3> QED
      BY <3>1, <3>2, <3>3 DEF Settings
  <2>3. ASSUME admin[c].alone, s \notin admin[c].asked PROVE FALSE
    <3>1. content.values[s] = file[scope].values[s] /\ content.format = "current"
      BY <2>2, <2>3
    <3>2. CASE scope = "program"
      <4>1. s \in {"plain", "risky", "limits"}
        BY <2>2, <3>2, Scopes
      <4> QED
        BY <1>1, <3>1, <3>2, <4>1, EffectiveValues
    <3>3. CASE scope = "graph"
      <4>1. s = "policy"
        BY <2>2, <3>3, Scopes
      <4>2. file["graph"].format # "current" => file["graph"].values["policy"] = 0
        BY <3>3, ConfigurationTypes, PlainValues DEF Configured, FilesFit, Settings
      <4> QED
        BY <1>1, <2>1, <3>1, <3>3, <4>1, <4>2, PolicyWhileUp
    <3> QED
      BY <1>2, <3>2, <3>3
  <2> QED
    BY <2>2, <2>3 DEF MayChange
<1> QED
  BY <1>1, <1>3, <1>4, <1>5 DEF FileScopes

LEMMA WriteTempKeeps ==
    ASSUME Configured, NEW c \in Admins, WriteTemp(c)
    PROVE  Configured' /\ OnlyAsAsked /\ RiskStays
<1> DEFINE q == admin[c]
           scope == q.scope
           doc == Document(q.values, scope)
           r == [q EXCEPT !.at = "replace"]
<1>1. PICK content \in {doc} \cup (IF Writing(c) = {} THEN {} ELSE {Without("torn")}) :
         IF q.into = "temp"
         THEN temp' = [temp EXCEPT ![scope] = content] /\ UNCHANGED file
         ELSE file' = [file EXCEPT ![scope] = content] /\ UNCHANGED temp
  BY DEF WriteTemp
<1>2. /\ q.at = "write" /\ Moves(c, r)
      /\ UNCHANGED <<runtime, created, server, legacy, confirmed, changes, kills>>
  BY DEF WriteTemp, Stands
<1>3. /\ r \in AdminStates /\ r.at = "replace" /\ r.scope = scope /\ r.asked = q.asked
      /\ r.values = q.values /\ r.into = q.into /\ r.alone = q.alone /\ r.blind = q.blind
      /\ scope \in FileScopes /\ q.values \in Values
  BY AdminTypes DEF AdminStates
<1> HIDE DEF r
<1>4. /\ admin' \in [Admins -> AdminStates] /\ admin'[c] = r
      /\ \A d \in Admins \ {c} : admin'[d] = admin[d]
  BY <1>2, <1>3, OneAdmin
<1>5. Pending(c) /\ server = "up"
  BY <1>2 DEF Configured, Pending, Stands
<1>6. q.alone => KnowsSettings(c) /\ content = doc /\ q.into = "temp"
  <2> SUFFICES ASSUME q.alone PROVE KnowsSettings(c) /\ content = doc /\ q.into = "temp"
    OBVIOUS
  <2>1. KnowsSettings(c)
    BY <1>5 DEF Configured
  <2>2. Writing(c) = {}
    BY <2>1 DEF KnowsSettings, Writing, Pending, Stands
  <2> QED
    BY <1>1, <2>1, <2>2 DEF KnowsSettings
<1>7. /\ content \in Contents /\ content.format \in {"torn", "current"}
      /\ content.format = "torn" => content.values = Defaults
      /\ scope = "program" => content.values["risky"] \in Allowed
  <2>1. /\ doc \in Contents /\ doc.format = "current"
        /\ \A s \in InFile(scope) : doc.values[s] = q.values[s]
    BY <1>3, DocumentFits
  <2>2. scope = "program" => doc.values["risky"] \in Allowed
    BY <2>1, Scopes DEF Configured, RisksAreConfirmed
  <2> QED
    BY <1>1, <2>1, <2>2, PlainContents, PlainValues DEF Allowed, Settings
<1> HIDE DEF doc
<1>8. CASE q.into = "temp"
  <2>1. temp' = [temp EXCEPT ![scope] = content] /\ file' = file
    BY <1>1, <1>8
  <2>2. /\ temp' \in [FileScopes -> Contents] /\ temp'[scope] = content
        /\ \A x \in FileScopes \ {scope} : temp'[x] = temp[x]
    BY <1>3, <1>7, <2>1 DEF Configured, ConfigurationTypeOK
  <2>3. ConfigurationTypeOK'
    BY <1>2, <1>4, <2>1, <2>2 DEF Configured, ConfigurationTypeOK
  <2>4. FilesFit'
    BY <1>2, <1>7, <2>1, <2>2 DEF Configured, FilesFit
  <2>5. RisksAreConfirmed'
    <3>1. temp'["program"].values["risky"] \in Allowed
      BY <1>7, <2>2 DEF Configured, RisksAreConfirmed, FileScopes
    <3> QED
      BY <1>2, <1>3, <1>4, <2>1, <3>1 DEF Configured, RisksAreConfirmed, Allowed
  <2>6. q.alone => KnowsSettings(c)'
    BY <1>2, <1>3, <1>4, <1>6, <2>1, <2>2 DEF KnowsSettings, Pending, Stands, doc
  <2>7. \A d \in Admins : Pending(d)' => server' = "up" /\ (admin'[d].alone => KnowsSettings(d)')
    BY <1>2, <1>3, <1>4, <1>5, <2>6, NobodyElseAlone DEF Pending, Stands
  <2>8. \A d \in Admins : admin'[d].at = "entry" => admin'[d].scope = "graph"
    BY <1>3, <1>4 DEF Configured
  <2>9. OnlyAsAsked /\ RiskStays
    BY <1>2, <2>1, NothingIsChanged
  <2> QED
    BY <2>3, <2>4, <2>5, <2>7, <2>8, <2>9 DEF Configured
<1>9. CASE q.into # "temp"
  <2>1. file' = [file EXCEPT ![scope] = content] /\ temp' = temp
    BY <1>1, <1>9
  <2>2. ~q.alone
    BY <1>6, <1>9
  <2>3. admin'[c] # admin[c]
    BY <1>2, <1>3, <1>4
  <2>4. /\ OnlyAsAsked /\ RiskStays
        /\ file' \in [FileScopes -> Contents] /\ file'["program"].format # "legacy"
        /\ file'["graph"].format # "legacy"
        /\ \A x \in FileScopes :
              file'[x].format \in {"missing", "torn"} => file'[x].values = Defaults
    BY <1>2, <1>3, <1>5, <1>7, <2>1, <2>2, <2>3, FileIsWritten
  <2>5. ConfigurationTypeOK'
    BY <1>2, <1>4, <2>1, <2>4 DEF Configured, ConfigurationTypeOK
  <2>6. FilesFit'
    BY <1>2, <1>5, <2>1, <2>4 DEF Configured, FilesFit
  <2>7. RisksAreConfirmed'
    BY <1>2, <1>3, <1>4, <2>1, <2>4 DEF Configured, RisksAreConfirmed, Allowed, RiskStays
  <2>8. \A d \in Admins : Pending(d)' => server' = "up" /\ (admin'[d].alone => KnowsSettings(d)')
    BY <1>2, <1>3, <1>4, <1>5, <2>2, NobodyElseAlone DEF Pending, Stands
  <2>9. \A d \in Admins : admin'[d].at = "entry" => admin'[d].scope = "graph"
    BY <1>3, <1>4 DEF Configured
  <2> QED
    BY <2>4, <2>5, <2>6, <2>7, <2>8, <2>9 DEF Configured
<1> QED
  BY <1>8, <1>9

LEMMA ReplaceKeeps ==
    ASSUME Configured, NEW c \in Admins, Replace(c)
    PROVE  Configured' /\ OnlyAsAsked /\ RiskStays
<1> DEFINE q == admin[c]
           scope == q.scope
           next == IF scope = "program" THEN Rest ELSE [q EXCEPT !.at = "entry"]
<1>1. /\ q.at = "replace"
      /\ UNCHANGED <<runtime, created, server, legacy, confirmed, changes, kills>>
  BY DEF Replace, Stands
<1>2. /\ q \in AdminStates /\ scope \in FileScopes /\ q.values \in Values
      /\ scope = "program" \/ scope = "graph"
  BY AdminTypes DEF FileScopes
<1>3. Pending(c) /\ server = "up" /\ (q.alone => KnowsSettings(c))
  BY <1>1 DEF Configured, Pending, Stands
<1>4. \A d \in Admins \ {c} : Pending(d) => ~admin[d].alone
  BY <1>3, NobodyElseAlone
<1>5. CASE /\ file' = [file EXCEPT ![scope] = temp[scope]]
           /\ temp' = [temp EXCEPT ![scope] = Without("missing")]
           /\ admin' = [d \in Admins |-> IF d = c THEN next
                                         ELSE IF d \in Writing(c)
                                         THEN [admin[d] EXCEPT !.into = "file"]
                                         ELSE admin[d]]
  <2>1. /\ next \in AdminStates /\ next.at # "replace"
        /\ scope = "program" => next = Rest
        /\ scope = "graph" => /\ next.at = "entry" /\ next.scope = "graph" /\ next.asked = q.asked
                              /\ next.values = q.values /\ next.into = q.into
                              /\ next.alone = q.alone /\ next.blind = q.blind
    <3>1. CASE scope = "program"
      BY <3>1, RestFits
    <3>2. CASE scope = "graph"
      BY <1>2, <3>2 DEF AdminStates
    <3> QED
      BY <1>2, <3>1, <3>2
  <2> HIDE DEF next
  <2>2. ASSUME NEW d \in Admins
        PROVE  LET o == [admin[d] EXCEPT !.into = "file"]
               IN  o \in AdminStates /\ o.alone = admin[d].alone /\ o.at = admin[d].at
                   /\ o.scope = admin[d].scope /\ o.values = admin[d].values
    BY AdminTypes DEF AdminStates
  <2>3. /\ admin' \in [Admins -> AdminStates] /\ admin'[c] = next
        /\ \A d \in Admins \ {c} :
              /\ admin'[d].alone = admin[d].alone /\ admin'[d].at = admin[d].at
              /\ admin'[d].scope = admin[d].scope /\ admin'[d].values = admin[d].values
    BY <1>5, <2>1, <2>2, AdminTypes
  <2>4. /\ temp' \in [FileScopes -> Contents] /\ temp'[scope] = Without("missing")
        /\ \A x \in FileScopes \ {scope} : temp'[x] = temp[x]
    BY <1>2, <1>5, PlainContents DEF Configured, ConfigurationTypeOK
  <2>5. /\ temp[scope] \in Contents /\ temp[scope].format \in {"missing", "torn", "current"}
        /\ scope = "program" => temp[scope].values["risky"] \in Allowed
    BY <1>2, ConfigurationTypes DEF Configured, RisksAreConfirmed
  <2>6. q.alone => /\ temp[scope].format = "current"
                   /\ \A s \in InFile(scope) \ q.asked : temp[scope].values[s] = file[scope].values[s]
    <3> SUFFICES ASSUME q.alone
                 PROVE  /\ temp[scope].format = "current"
                        /\ \A s \in InFile(scope) \ q.asked :
                              temp[scope].values[s] = file[scope].values[s]
      OBVIOUS
    <3>1. /\ temp[scope] = Document(q.values, scope)
          /\ \A s \in InFile(scope) \ q.asked : q.values[s] = file[scope].values[s]
      BY <1>1, <1>3 DEF KnowsSettings
    <3> QED
      BY <1>2, <3>1, DocumentFits
  <2>7. temp[scope].format \in {"missing", "torn"} => temp[scope].values = Defaults
    BY <1>2 DEF Configured, FilesFit
  <2>8. /\ OnlyAsAsked /\ RiskStays
        /\ file' \in [FileScopes -> Contents] /\ file'["program"].format # "legacy"
        /\ file'["graph"].format # "legacy"
        /\ \A x \in FileScopes :
              file'[x].format \in {"missing", "torn"} => file'[x].values = Defaults
    <3>1. admin'[c] # admin[c]
      BY <1>1, <2>1, <2>3
    <3> QED
      BY <1>1, <1>2, <1>3, <1>5, <2>5, <2>6, <2>7, <3>1, FileIsWritten
  <2>9. ConfigurationTypeOK'
    BY <1>1, <2>3, <2>4, <2>8 DEF Configured, ConfigurationTypeOK
  <2>10. FilesFit'
    BY <1>1, <1>3, <2>4, <2>8, PlainContents DEF Configured, FilesFit
  <2>11. RisksAreConfirmed'
    <3>1. temp'["program"].values["risky"] \in Allowed
      BY <1>2, <2>4, PlainContents, PlainValues
      DEF Configured, RisksAreConfirmed, Allowed, FileScopes, Settings
    <3>2. \A d \in Admins : admin'[d].scope = "program" => admin'[d].values["risky"] \in Allowed
      <4>1. next.scope = "program" => next.values["risky"] = 0
        BY <1>2, <2>1, RestFits
      <4>2. \A d \in Admins \ {c} : admin'[d].scope = "program" => admin'[d].values["risky"] \in Allowed
        BY <2>3 DEF Configured, RisksAreConfirmed
      <4> QED
        BY <2>3, <4>1, <4>2 DEF Allowed
    <3> QED
      BY <1>1, <2>8, <3>1, <3>2 DEF RisksAreConfirmed, Allowed, RiskStays
  <2>12. Pending(c)' /\ next.alone => KnowsSettings(c)'
    <3> SUFFICES ASSUME Pending(c)', next.alone PROVE KnowsSettings(c)'
      OBVIOUS
    <3>1. scope = "graph" /\ q.alone
      BY <1>2, <2>1, <2>3, RestFits DEF Pending, Stands
    <3>2. KnowsSettings(c)
      BY <1>3, <3>1
    <3> QED
      BY <1>1, <2>1, <2>3, <3>1, <3>2 DEF KnowsSettings, Pending, Stands
  <2>13. \A d \in Admins : Pending(d)' => server' = "up" /\ (admin'[d].alone => KnowsSettings(d)')
    BY <1>1, <1>3, <1>4, <2>3, <2>12 DEF Pending, Stands
  <2>14. \A d \in Admins : admin'[d].at = "entry" => admin'[d].scope = "graph"
    BY <1>2, <2>1, <2>3, RestFits DEF Configured
  <2> QED
    BY <2>8, <2>9, <2>10, <2>11, <2>13, <2>14 DEF Configured
<1>6. CASE Moves(c, Rest) /\ UNCHANGED <<file, temp>>
  <2>1. /\ admin' \in [Admins -> AdminStates] /\ admin'[c] = Rest
        /\ \A d \in Admins \ {c} : admin'[d] = admin[d]
    BY <1>6, RestFits, OneAdmin
  <2>2. ConfigurationTypeOK' /\ FilesFit'
    BY <1>1, <1>6, <2>1 DEF Configured, ConfigurationTypeOK, FilesFit
  <2>3. RisksAreConfirmed'
    BY <1>1, <1>6, <2>1, RestFits DEF Configured, RisksAreConfirmed, Allowed
  <2>4. \A d \in Admins : Pending(d)' => server' = "up" /\ (admin'[d].alone => KnowsSettings(d)')
    BY <1>1, <1>3, <1>4, <2>1, RestFits DEF Pending, Stands
  <2>5. \A d \in Admins : admin'[d].at = "entry" => admin'[d].scope = "graph"
    BY <2>1, RestFits DEF Configured
  <2>6. OnlyAsAsked /\ RiskStays
    BY <1>1, <1>6, NothingIsChanged
  <2> QED
    BY <2>2, <2>3, <2>4, <2>5, <2>6 DEF Configured
<1> QED
  BY <1>5, <1>6 DEF Replace

LEMMA UpdateEntryKeeps ==
    ASSUME Configured, NEW c \in Admins, UpdateEntry(c)
    PROVE  Configured' /\ OnlyAsAsked /\ RiskStays
<1> DEFINE q == admin[c]
<1>1. /\ q.at = "entry" /\ Moves(c, Rest)
      /\ runtime' = q.values["runtime"] \/ runtime' = runtime
      /\ created' = TRUE \/ created' = created
      /\ UNCHANGED <<file, temp, server, legacy, confirmed, changes, kills>>
  BY DEF UpdateEntry, Stands
<1>2. /\ q \in AdminStates /\ q.values \in Values /\ q.scope = "graph"
      /\ Pending(c) /\ server = "up" /\ (q.alone => KnowsSettings(c))
  BY <1>1, AdminTypes DEF Configured, Pending, Stands
<1>3. runtime' \in Nat /\ created' \in BOOLEAN
  BY <1>1, <1>2 DEF Configured, ConfigurationTypeOK, Values, Settings
<1>4. /\ admin' \in [Admins -> AdminStates] /\ admin'[c] = Rest
      /\ \A d \in Admins \ {c} : admin'[d] = admin[d]
  BY <1>1, RestFits, OneAdmin
<1>5. ConfigurationTypeOK' /\ FilesFit'
  BY <1>1, <1>3, <1>4 DEF Configured, ConfigurationTypeOK, FilesFit
<1>6. RisksAreConfirmed'
  BY <1>1, <1>4, RestFits DEF Configured, RisksAreConfirmed, Allowed
<1>7. \A d \in Admins : Pending(d)' => server' = "up" /\ (admin'[d].alone => KnowsSettings(d)')
  BY <1>1, <1>2, <1>4, RestFits, NobodyElseAlone DEF Pending, Stands
<1>8. \A d \in Admins : admin'[d].at = "entry" => admin'[d].scope = "graph"
  BY <1>4, RestFits DEF Configured
<1>9. RiskStays
  BY <1>1 DEF RiskStays, Configured, RisksAreConfirmed
<1>10. OnlyAsAsked
  <2> SUFFICES ASSUME NEW s \in Settings, Effective(s)' # Effective(s) PROVE MayChange(c, s)
    BY DEF OnlyAsAsked
  <2>1. s = "runtime" /\ runtime' # runtime
    BY <1>1, EffectiveValues DEF Settings
  <2>2. admin'[c] # admin[c]
    BY <1>1, <1>4, RestFits
  <2>3. q.alone => s \in q.asked \/ q.blind
    BY <1>1, <1>2, <2>1 DEF KnowsSettings
  <2> QED
    BY <1>1, <1>2, <2>1, <2>2, <2>3, Scopes DEF MayChange
<1> QED
  BY <1>5, <1>6, <1>7, <1>8, <1>9, <1>10 DEF Configured

LEMMA OtherRequestKeeps ==
    ASSUME Configured, NEW editing \in BOOLEAN, OtherRequest(editing)
    PROVE  Configured' /\ OnlyAsAsked /\ RiskStays
<1>1. /\ server = "up" /\ created' = TRUE
      /\ UNCHANGED <<file, temp, server, legacy, confirmed, kills>>
  BY DEF OtherRequest
<1>2. CASE editing
  <2>1. /\ changes' = changes + 1 /\ runtime' = changes + 2
        /\ admin' = [c \in Admins |-> [admin[c] EXCEPT !.alone = FALSE]]
    BY <1>2 DEF OtherRequest
  <2>2. changes' \in Nat /\ runtime' \in Nat /\ changes' # changes
    BY <2>1 DEF Configured, ConfigurationTypeOK
  <2>3. ASSUME NEW c \in Admins
        PROVE  LET o == [admin[c] EXCEPT !.alone = FALSE]
               IN  o \in AdminStates /\ o.alone = FALSE /\ o.at = admin[c].at
                   /\ o.scope = admin[c].scope /\ o.values = admin[c].values
    BY AdminTypes DEF AdminStates
  <2>4. /\ admin' \in [Admins -> AdminStates]
        /\ \A c \in Admins : /\ admin'[c].alone = FALSE /\ admin'[c].at = admin[c].at
                             /\ admin'[c].scope = admin[c].scope
                             /\ admin'[c].values = admin[c].values
    BY <2>1, <2>3
  <2>5. ConfigurationTypeOK' /\ FilesFit'
    BY <1>1, <2>2, <2>4 DEF Configured, ConfigurationTypeOK, FilesFit
  <2>6. RisksAreConfirmed'
    BY <1>1, <2>4 DEF Configured, RisksAreConfirmed, Allowed
  <2>7. \A c \in Admins : admin'[c].at = "entry" => admin'[c].scope = "graph"
    BY <2>4 DEF Configured
  <2>8. OnlyAsAsked
    <3>1. \A s \in Settings \ {"runtime"} : Effective(s)' = Effective(s)
      BY <1>1, EffectiveValues DEF Settings
    <3> QED
      BY <2>2, <3>1 DEF OnlyAsAsked
  <2>9. RiskStays
    BY <1>1 DEF RiskStays, Configured, RisksAreConfirmed
  <2> QED
    BY <1>1, <2>4, <2>5, <2>6, <2>7, <2>8, <2>9 DEF Configured
<1>3. CASE ~editing
  <2>1. ~created /\ UNCHANGED <<changes, runtime, admin>>
    BY <1>3 DEF OtherRequest
  <2>2. ConfigurationTypeOK' /\ FilesFit' /\ RisksAreConfirmed'
    BY <1>1, <2>1 DEF Configured, ConfigurationTypeOK, FilesFit, RisksAreConfirmed, Allowed
  <2>3. \A c \in Admins : Pending(c) /\ admin[c].alone => KnowsSettings(c)'
    BY <1>1, <2>1 DEF Configured, KnowsSettings, Pending, Stands
  <2>4. OnlyAsAsked /\ RiskStays
    BY <1>1, <2>1, NothingIsChanged
  <2> QED
    BY <1>1, <2>1, <2>2, <2>3, <2>4 DEF Configured, Pending, Stands
<1> QED
  BY <1>2, <1>3

LEMMA ConfigurationStays ==
    ASSUME Configured, ConfigurationNext
    PROVE  Configured' /\ OnlyAsAsked /\ RiskStays
<1>1. CASE ReadLegacy \/ MigrateProgram \/ MigrateGraph \/ Kill
  BY <1>1, ReadLegacyKeeps, MigrateProgramKeeps, MigrateGraphKeeps, KillKeeps
<1>2. CASE \E editing \in BOOLEAN : OtherRequest(editing)
  BY <1>2, OtherRequestKeeps
<1>3. ASSUME NEW c \in Admins, Serve(c)
      PROVE  Configured' /\ OnlyAsAsked /\ RiskStays
  BY <1>3, OpenTempKeeps, WriteTempKeeps, ReplaceKeeps, UpdateEntryKeeps DEF Serve
<1>4. ASSUME NEW c \in Admins, NEW s \in Settings, NEW confirm \in BOOLEAN,
             NEW value \in NewValues(s), ApplyChange(c, s, value, confirm)
      PROVE  Configured' /\ OnlyAsAsked /\ RiskStays
  BY <1>4, ApplyChangeKeeps
<1>5. ASSUME NEW c \in Admins, NEW scope \in FileScopes, Reset(c, scope)
      PROVE  Configured' /\ OnlyAsAsked /\ RiskStays
  BY <1>5, ResetKeeps
<1> QED
  BY <1>1, <1>2, <1>3, <1>4, <1>5 DEF ConfigurationNext

LEMMA ConfigurationRests ==
    ASSUME Configured, UNCHANGED confVars
    PROVE  Configured'
<1>1. UNCHANGED <<file, temp, runtime, created, server, legacy, admin, confirmed, changes, kills>>
  BY DEF confVars
<1>2. ConfigurationTypeOK' /\ FilesFit' /\ RisksAreConfirmed'
  BY <1>1 DEF Configured, ConfigurationTypeOK, FilesFit, RisksAreConfirmed, Allowed
<1>3. \A c \in Admins : (KnowsSettings(c) => KnowsSettings(c)') /\ (Pending(c)' <=> Pending(c))
  BY <1>1 DEF KnowsSettings, Pending, Stands
<1> QED
  BY <1>1, <1>2, <1>3 DEF Configured

\* Whatever starts, migrations and kills come between, and however many clients
\* change settings beside each other: a setting changes only by a request that is
\* to change it, or that overlaps with another one, and a risky one only to what
\* somebody confirmed, what the older version had, or its default. Excepted are
\* response limits of zero, which a start takes for the default of an earlier version.
\* (configuration/service.py, repository.py and migration.py)
THEOREM SettingsStay == ConfigurationSpec => SettingsAreKept
<1>1. ConfigurationInit => Configured
  BY ConfigurationStarts
<1>2. Configured /\ [ConfigurationNext]_confVars => Configured'
  BY ConfigurationStays, ConfigurationRests
<1>3. Configured /\ [ConfigurationNext]_confVars =>
        [/\ \A s \in Settings : Effective(s)' # Effective(s) =>
              \/ \E c \in Admins : MayChange(c, s)
              \/ MayLose(s) \/ MayForget(s)
              \/ s = "runtime" /\ changes' # changes
         /\ file'["program"].values["risky"] \in confirmed \cup {0, 1}]_confVars
  <2>1. CASE ConfigurationNext
    BY <2>1, ConfigurationStays DEF OnlyAsAsked, RiskStays, Allowed
  <2> QED
    BY <2>1
<1> QED
  BY <1>1, <1>2, <1>3, PTL DEF ConfigurationSpec, SettingsAreKept

\* The settings and the requests keep the shapes the code relies on.
THEOREM ConfigurationTypeSafe == ConfigurationSpec => []ConfigurationTypeOK
<1>1. ConfigurationInit => Configured
  BY ConfigurationStarts
<1>2. Configured /\ [ConfigurationNext]_confVars => Configured'
  BY ConfigurationStays, ConfigurationRests
<1>3. Configured => ConfigurationTypeOK
  BY DEF Configured
<1> QED
  BY <1>1, <1>2, <1>3, PTL DEF ConfigurationSpec

---------------------------------------------------------------------------
(* PythonRuntime: what was prepared is installed.                        *)

\* A request that only checks writes nothing; one that runs alone has no other
\* beside it that does.
ChecksOnlyLook ==
    \A c \in Callers : call[c].op = "check" => call[c].at \in {"rest", "look", "compare"}
AloneMeansAlone ==
    \A c \in Callers : Under(c) /\ call[c].alone =>
        \A d \in Callers \ {c} : ~Changing(d)

MarksSomething == \A c \in Callers : Is(c, "mark") => call[c].lines # {}

\* How far a request has come that prepares alone: what it read is what pip
\* will be given, what it marks is installed, and so is what is marked.
PreparesWell(c) ==
    /\ Is(c, "pip") /\ call[c].lines # {} => env.lines = call[c].lines
    /\ Is(c, "mark") => call[c].lines \subseteq env.packages
    /\ Is(c, "look") \/ Is(c, "compare") => env.marker = NoFile \/ env.marker \subseteq env.packages

EnvironmentIsKnown ==
    /\ PythonTypeOK /\ ChecksOnlyLook /\ AloneMeansAlone /\ MarksSomething
    /\ \A c \in Callers : call[c].prepared /\ call[c].alone => PreparesWell(c)

LEMMA Bounds ==
    /\ MaxRequests \in Nat /\ MaxRequirements \in Nat /\ MaxBaseLosses \in Nat
    /\ MaxCrashes \in Nat
  BY PythonRuntimeAssumption

LEMMA NoDirectoryFits == NoDirectory \in Directories
  BY DEF NoDirectory, Directories, Files

LEMMA IdleFits ==
    /\ Idle \in RequestStates
    /\ Idle.at = "rest" /\ ~Idle.alone /\ ~Idle.prepared /\ Idle.op = "check"
  BY DEF Idle, RequestStates, RuntimeOps

LEMMA PythonStarts == PythonInit => EnvironmentIsKnown
<1> SUFFICES ASSUME PythonInit PROVE EnvironmentIsKnown
  OBVIOUS
<1>1. PythonTypeOK
  BY NoDirectoryFits, IdleFits, Bounds DEF PythonInit, PythonTypeOK
<1> QED
  BY <1>1, IdleFits DEF PythonInit, EnvironmentIsKnown, ChecksOnlyLook, AloneMeansAlone,
     MarksSomething, Under, Is

-----------------------------------------------------------------------------
(* What a step does to the requests.                                       *)

\* The request c goes on to a place, or ends; the others stay what they are.
CallGoesOn(c) ==
    /\ \A d \in Callers \ {c} : call'[d] = call[d]
    /\ call' \in [Callers -> RequestStates]
    /\ \/ call'[c] = Idle
       \/ /\ call'[c].at # "rest" /\ call'[c].op = call[c].op /\ call'[c].alone = call[c].alone
          /\ call'[c].op = "check" => call'[c].at \in {"look", "compare"}
          /\ call'[c].at = "mark" => call'[c].lines # {}

LEMMA GoesFits ==
    ASSUME PythonTypeOK, NEW c \in Callers, NEW place \in
           {"rest", "clear", "make", "create", "hook", "lines", "pip", "mark", "look", "compare"},
           Goes(c, place)
    PROVE  /\ \A d \in Callers \ {c} : call'[d] = call[d]
           /\ call' \in [Callers -> RequestStates]
           /\ call'[c].at = place /\ call'[c].op = call[c].op /\ call'[c].alone = call[c].alone
           /\ call'[c].lines = call[c].lines /\ call'[c].prepared = call[c].prepared
<1> DEFINE r == [call[c] EXCEPT !.at = place]
<1>1. call[c] \in RequestStates /\ call \in [Callers -> RequestStates]
  BY DEF PythonTypeOK
<1>2. r \in RequestStates /\ r.at = place /\ r.op = call[c].op /\ r.alone = call[c].alone
      /\ r.lines = call[c].lines /\ r.prepared = call[c].prepared
  BY <1>1 DEF RequestStates
<1>3. call' = [call EXCEPT ![c] = r]
  BY <1>1 DEF Goes
<1> HIDE DEF r
<1> QED
  BY <1>1, <1>2, <1>3

LEMMA EndsFits ==
    ASSUME PythonTypeOK, NEW c \in Callers, Ends(c)
    PROVE  CallGoesOn(c) /\ call'[c] = Idle
  BY IdleFits DEF PythonTypeOK, Ends, CallGoesOn

\* A step of one request in an environment that fits keeps everything but the
\* preparation of that request itself.
LEMMA OnwardKeeps ==
    ASSUME EnvironmentIsKnown, NEW c \in Callers, CallGoesOn(c), env' \in Directories, Counted,
           Under(c), env' # env => Changing(c),
           call'[c].prepared /\ call'[c].alone => PreparesWell(c)'
    PROVE  EnvironmentIsKnown'
<1>1. PythonTypeOK'
  BY DEF EnvironmentIsKnown, PythonTypeOK, CallGoesOn, Counted
<1>2. ChecksOnlyLook'
  BY IdleFits DEF EnvironmentIsKnown, ChecksOnlyLook, CallGoesOn
<1>3. AloneMeansAlone'
  BY IdleFits DEF EnvironmentIsKnown, AloneMeansAlone, CallGoesOn, Under, Is, Changing
<1>4. MarksSomething'
  BY IdleFits DEF EnvironmentIsKnown, MarksSomething, CallGoesOn, Is
<1>5. ASSUME NEW d \in Callers \ {c}, call'[d].prepared, call'[d].alone
      PROVE  PreparesWell(d)'
  <2>1. call'[d] = call[d] /\ PreparesWell(d)
    BY <1>5 DEF CallGoesOn, EnvironmentIsKnown
  <2>2. CASE env' = env
    BY <2>1, <2>2 DEF PreparesWell, Is
  <2>3. CASE env' # env /\ Under(d)
    BY <1>5, <2>1, <2>3 DEF EnvironmentIsKnown, AloneMeansAlone
  <2>4. CASE ~Under(d)
    BY <2>1, <2>4 DEF PreparesWell, Is, Under
  <2> QED
    BY <2>2, <2>3, <2>4
<1> QED
  BY <1>1, <1>2, <1>3, <1>4, <1>5 DEF EnvironmentIsKnown

LEMMA EndsKeep ==
    ASSUME EnvironmentIsKnown, NEW c \in Callers, Ends(c), env' \in Directories, Counted,
           Under(c), env' # env => Changing(c)
    PROVE  EnvironmentIsKnown'
<1>1. PythonTypeOK
  BY DEF EnvironmentIsKnown
<1> QED
  BY <1>1, EndsFits, OnwardKeeps, IdleFits

LEMMA GoesKeep ==
    ASSUME EnvironmentIsKnown, NEW c \in Callers,
           NEW place \in {"make", "create", "hook", "lines", "pip", "mark", "look", "compare"},
           Goes(c, place), env' \in Directories, Counted, Under(c),
           place = "mark" => call[c].lines # {},
           env' # env => Changing(c), Changing(c) \/ place = "compare",
           call'[c].prepared /\ call'[c].alone => PreparesWell(c)'
    PROVE  EnvironmentIsKnown'
<1>1. PythonTypeOK
  BY DEF EnvironmentIsKnown
<1>2. CallGoesOn(c)
  BY <1>1, GoesFits DEF CallGoesOn, Changing
<1> QED
  BY <1>2, OnwardKeeps

-----------------------------------------------------------------------------
(* The environment.                                                        *)

LEMMA EnvFields ==
    ASSUME PythonTypeOK
    PROVE  /\ env \in Directories
           /\ env.root \in BOOLEAN /\ env.manifest \in {"none", "torn", "whole"}
           /\ env.path \in BOOLEAN /\ env.lines \in Files \cup {{}} /\ env.marker \in Files
           /\ env.exe \in {"none", "dead", "works"} /\ env.pip \in BOOLEAN
           /\ env.hook \in BOOLEAN /\ env.packages \in SUBSET Lines
           /\ Wanted \in RequirementSets \cup {{}}
  BY DEF PythonTypeOK, Directories, Wanted, Files

LEMMA EmptiedFits ==
    ASSUME PythonTypeOK, NEW exe \in {"none", "dead", "works"}, NEW pip \in BOOLEAN
    PROVE  Emptied(exe, pip) \in Directories
  BY EnvFields DEF Emptied, Directories

LEMMA HookedFits == PythonTypeOK => Hooked \in Directories
  BY EnvFields DEF Hooked, Directories

LEMMA ListedFits ==
    ASSUME PythonTypeOK
    PROVE  Listed \in Directories /\ (Wanted # {} => Listed.lines = Wanted)
<1> DEFINE l == IF Wanted = {} THEN env.lines ELSE Wanted
<1>1. l \in Files \cup {{}}
  BY EnvFields DEF Files
<1>2. Listed = [[env EXCEPT !.lines = l] EXCEPT !.path = TRUE]
  BY DEF Listed
<1>3. l = Wanted \/ Wanted = {}
  OBVIOUS
<1> HIDE DEF l
<1> QED
  BY <1>1, <1>2, <1>3, EnvFields DEF Directories

LEMMA InstalledFits ==
    ASSUME NEW packages \in SUBSET Lines, NEW lines \in SUBSET Lines
    PROVE  /\ Installed(packages, lines) \in SUBSET Lines
           /\ lines \subseteq Installed(packages, lines)
  BY DEF Installed

LEMMA PipFits ==
    ASSUME PythonTypeOK, NEW some \in SUBSET env.lines, env.lines # NoFile
    PROVE  /\ [env EXCEPT !.packages = Installed(@, some)] \in Directories
           /\ some \subseteq [env EXCEPT !.packages = Installed(@, some)].packages
<1>1. some \in SUBSET Lines
  BY EnvFields, PythonRuntimeAssumption DEF Files
<1> DEFINE p == Installed(env.packages, some)
<1>2. p \in SUBSET Lines /\ some \subseteq p
  BY <1>1, InstalledFits, EnvFields
<1>3. [env EXCEPT !.packages = Installed(@, some)] = [env EXCEPT !.packages = p]
  OBVIOUS
<1> HIDE DEF p
<1> QED
  BY <1>2, <1>3, EnvFields DEF Directories

LEMMA PartsFit ==
    ASSUME PythonTypeOK
    PROVE  /\ PartOfPip \subseteq Directories /\ PartOfVenv \subseteq Directories
           /\ PartOfClear \subseteq Directories
<1>1. PartOfPip \subseteq Directories
  <2>1. CASE env.exe = "works" /\ env.pip /\ env.lines # NoFile
    BY <2>1, PipFits DEF PartOfPip
  <2> QED
    BY <2>1, EnvFields DEF PartOfPip
<1>2. PartOfVenv \subseteq Directories
  BY EmptiedFits, EnvFields DEF PartOfVenv
<1>3. PartOfClear \subseteq Directories
  <2> SUFFICES ASSUME NEW m \in {env.manifest, "none"}, NEW k \in {env.marker, NoFile},
                      NEW e \in {env.exe, "none"}, NEW h \in {env.hook, FALSE},
                      NEW p \in {env.packages, {}}
               PROVE  [env EXCEPT !.manifest = m, !.marker = k, !.exe = e, !.hook = h,
                                  !.packages = p] \in Directories
    BY DEF PartOfClear
  <2>1. /\ m \in {"none", "torn", "whole"} /\ k \in Files /\ e \in {"none", "dead", "works"}
        /\ h \in BOOLEAN /\ p \in SUBSET Lines
    BY EnvFields DEF Files
  <2> QED
    BY <2>1, EnvFields DEF Directories
<1> QED
  BY <1>1, <1>2, <1>3

LEMMA CutShortFits ==
    ASSUME PythonTypeOK, NEW c \in Callers
    PROVE  CutShort(c) \subseteq Directories
<1>1. CASE Is(c, "clear")
  BY <1>1, PartsFit DEF CutShort, Is
<1>2. CASE Is(c, "create")
  BY <1>2, PartsFit DEF CutShort, Is
<1>3. CASE Is(c, "hook")
  <2>1. CutShort(c) = {[Hooked EXCEPT !.manifest = env.manifest, !.hook = FALSE],
                       [Hooked EXCEPT !.manifest = "torn"]}
    BY <1>3 DEF CutShort, Is
  <2>2. [Hooked EXCEPT !.manifest = env.manifest, !.hook = FALSE] \in Directories
    BY HookedFits, EnvFields DEF Directories
  <2>3. [Hooked EXCEPT !.manifest = "torn"] \in Directories
    BY HookedFits, EnvFields DEF Directories
  <2> QED
    BY <2>1, <2>2, <2>3
<1>4. CASE Is(c, "lines") /\ env.root
  <2>1. CutShort(c) = {[Listed EXCEPT !.lines = {}, !.path = env.path],
                       [Listed EXCEPT !.path = FALSE]}
    BY <1>4 DEF CutShort, Is
  <2>2. [Listed EXCEPT !.lines = {}, !.path = env.path] \in Directories
    BY ListedFits, EnvFields DEF Directories
  <2>3. [Listed EXCEPT !.path = FALSE] \in Directories
    BY ListedFits, EnvFields DEF Directories
  <2> QED
    BY <2>1, <2>2, <2>3
<1>5. CASE Is(c, "pip")
  BY <1>5, PartsFit DEF CutShort, Is
<1>6. CASE Is(c, "mark") /\ env.root
  <2>1. CutShort(c) = {[env EXCEPT !.marker = NoFile]}
    BY <1>6 DEF CutShort, Is
  <2>2. [env EXCEPT !.marker = NoFile] \in Directories
    BY EnvFields DEF Directories, Files
  <2> QED
    BY <2>1, <2>2
<1>7. CASE /\ ~Is(c, "clear") /\ ~Is(c, "create") /\ ~Is(c, "hook") /\ ~Is(c, "pip")
           /\ ~(Is(c, "lines") /\ env.root) /\ ~(Is(c, "mark") /\ env.root)
  BY <1>7, EnvFields DEF CutShort
<1> QED
  BY <1>1, <1>2, <1>3, <1>4, <1>5, <1>6, <1>7

-----------------------------------------------------------------------------
(* The steps.                                                              *)

LEMMA ConcludeKeeps ==
    ASSUME EnvironmentIsKnown, NEW c \in Callers, NEW verdict, Conclude(c, verdict),
           Is(c, "look") \/ Is(c, "compare"), UNCHANGED env, Counted
    PROVE  EnvironmentIsKnown'
<1>1. PythonTypeOK /\ Under(c) /\ env' \in Directories
  BY EnvFields DEF EnvironmentIsKnown, Under, Is
<1>2. CASE Ends(c)
  BY <1>1, <1>2, EndsKeep
<1>3. CASE /\ verdict # "ready" /\ call[c].op = "start" /\ ~call[c].prepared
           /\ call' = [call EXCEPT ![c].at = "make", ![c].prepared = TRUE]
  <2> DEFINE r == [call[c] EXCEPT !.at = "make", !.prepared = TRUE]
  <2>1. call[c] \in RequestStates /\ call \in [Callers -> RequestStates]
    BY <1>1 DEF PythonTypeOK
  <2>2. r \in RequestStates /\ r.at = "make" /\ r.op = call[c].op /\ r.alone = call[c].alone
    BY <2>1 DEF RequestStates
  <2>3. call' = [call EXCEPT ![c] = r]
    BY <1>3, <2>1
  <2> HIDE DEF r
  <2>4. /\ call' \in [Callers -> RequestStates] /\ call'[c] = r
        /\ \A d \in Callers \ {c} : call'[d] = call[d]
    BY <2>1, <2>2, <2>3
  <2>5. CallGoesOn(c) /\ PreparesWell(c)'
    BY <1>3, <2>2, <2>4 DEF CallGoesOn, PreparesWell, Is
  <2> QED
    BY <1>1, <2>5, OnwardKeeps
<1> QED
  BY <1>2, <1>3 DEF Conclude

LEMMA RequestKeeps ==
    ASSUME EnvironmentIsKnown, NEW c \in Callers, Request(c)
    PROVE  EnvironmentIsKnown'
<1>1. PICK op \in RuntimeOps :
        /\ ~Under(c) /\ requests < MaxRequests
        /\ call' = [d \in Callers |->
                      IF d = c
                      THEN [Idle EXCEPT !.at = FirstStep(op), !.op = op,
                                        !.prepared = op \in {"prepare", "rebuild"},
                                        !.alone = \A e \in Callers : ~Changing(e)]
                      ELSE [call[d] EXCEPT !.alone = @ /\ op = "check"]]
        /\ requests' = requests + 1
        /\ UNCHANGED <<required, env, edited, losses, crashes>>
  BY DEF Request
<1>2. PythonTypeOK /\ call \in [Callers -> RequestStates]
  BY DEF EnvironmentIsKnown, PythonTypeOK
<1> DEFINE prep == op \in {"prepare", "rebuild"}
           free == \A e \in Callers : ~Changing(e)
           still == [d \in Callers |-> call[d].alone /\ op = "check"]
           new == [Idle EXCEPT !.at = FirstStep(op), !.op = op, !.prepared = prep, !.alone = free]
<1>3. /\ FirstStep(op) \in {"clear", "make", "look"}
      /\ op = "check" => FirstStep(op) = "look"
      /\ op \in {"rebuild", "clear"} => FirstStep(op) = "clear"
      /\ op = "prepare" => FirstStep(op) = "make"
  BY DEF RuntimeOps, FirstStep
<1>4. prep \in BOOLEAN /\ free \in BOOLEAN
  OBVIOUS
<1>5. \A d \in Callers : call[d].alone \in BOOLEAN
  BY <1>2 DEF RequestStates
<1>6. \A d \in Callers : still[d] \in BOOLEAN /\ (still[d] <=> call[d].alone /\ op = "check")
  BY <1>5
<1>7. call' = [d \in Callers |-> IF d = c THEN new ELSE [call[d] EXCEPT !.alone = still[d]]]
  BY <1>1, <1>5
<1>8. prep <=> op \in {"prepare", "rebuild"}
  OBVIOUS
<1>9. free <=> \A e \in Callers : ~Changing(e)
  OBVIOUS
<1> HIDE DEF prep, free, still
<1>10. /\ new \in RequestStates /\ new.at = FirstStep(op) /\ new.op = op
       /\ new.prepared = prep /\ new.alone = free
  BY <1>3, <1>4, IdleFits DEF RequestStates
<1> HIDE DEF new
<1>11. call'[c] = new
  BY <1>7
<1>12. ASSUME NEW d \in Callers \ {c}
       PROVE  /\ call'[d] = [call[d] EXCEPT !.alone = still[d]]
              /\ call'[d] \in RequestStates
              /\ call'[d].at = call[d].at /\ call'[d].op = call[d].op
              /\ call'[d].lines = call[d].lines /\ call'[d].prepared = call[d].prepared
              /\ call'[d].alone <=> call[d].alone /\ op = "check"
  <2>1. call'[d] = [call[d] EXCEPT !.alone = still[d]]
    BY <1>7
  <2>2. call[d] \in RequestStates /\ still[d] \in BOOLEAN
    BY <1>2, <1>6
  <2>3. /\ call'[d] \in RequestStates /\ call'[d].alone = still[d]
        /\ call'[d].at = call[d].at /\ call'[d].op = call[d].op
        /\ call'[d].lines = call[d].lines /\ call'[d].prepared = call[d].prepared
    BY <2>1, <2>2 DEF RequestStates
  <2> QED
    BY <1>6, <2>1, <2>3
<1>13. call' \in [Callers -> RequestStates]
  <2>1. \A d \in Callers : call'[d] \in RequestStates
    BY <1>10, <1>11, <1>12
  <2>2. DOMAIN call' = Callers /\ call' = [d \in Callers |-> call'[d]]
    BY <1>7
  <2> QED
    BY <2>1, <2>2
<1>14. PythonTypeOK'
  <2>1. requests' \in 0..MaxRequests
    <3>1. requests \in 0..MaxRequests /\ requests < MaxRequests /\ requests' = requests + 1
      BY <1>1, <1>2 DEF PythonTypeOK
    <3> QED
      BY <3>1, Bounds
  <2> QED
    BY <1>1, <1>2, <1>13, <2>1 DEF PythonTypeOK
<1>15. ChecksOnlyLook'
  BY <1>3, <1>10, <1>11, <1>12 DEF EnvironmentIsKnown, ChecksOnlyLook
<1>16. AloneMeansAlone'
  <2>1. ASSUME NEW a \in Callers, NEW b \in Callers \ {a}, Under(a)', call'[a].alone
        PROVE  ~Changing(b)'
    <3>1. CASE a = c
      BY <1>9, <1>10, <1>11, <1>12, <2>1, <3>1 DEF Changing, Under, Is
    <3>2. CASE a # c /\ b = c
      BY <1>10, <1>11, <1>12, <2>1, <3>2 DEF Changing
    <3>3. CASE a # c /\ b # c
      <4>1. Under(a) /\ call[a].alone
        BY <1>12, <2>1, <3>3 DEF Under, Is
      <4>2. ~Changing(b)
        BY <4>1 DEF EnvironmentIsKnown, AloneMeansAlone
      <4> QED
        BY <1>12, <3>3, <4>2 DEF Changing, Under, Is
    <3> QED
      BY <3>1, <3>2, <3>3
  <2> QED
    BY <2>1 DEF AloneMeansAlone
<1>17. MarksSomething'
  BY <1>3, <1>10, <1>11, <1>12 DEF EnvironmentIsKnown, MarksSomething, Is
<1>18. ASSUME NEW d \in Callers, call'[d].prepared, call'[d].alone
       PROVE  PreparesWell(d)'
  <2>1. CASE d = c
    <3>1. call'[c].at \in {"clear", "make"}
      BY <1>3, <1>8, <1>10, <1>11, <1>18, <2>1
    <3> QED
      BY <2>1, <3>1 DEF PreparesWell, Is
  <2>2. CASE d # c
    <3>1. PreparesWell(d)
      BY <1>12, <1>18, <2>2 DEF EnvironmentIsKnown
    <3> QED
      BY <1>1, <1>12, <2>2, <3>1 DEF PreparesWell, Is
  <2> QED
    BY <2>1, <2>2
<1> QED
  BY <1>14, <1>15, <1>16, <1>17, <1>18 DEF EnvironmentIsKnown

LEMMA ClearKeeps ==
    ASSUME EnvironmentIsKnown, NEW c \in Callers, Clear(c)
    PROVE  EnvironmentIsKnown'
<1>1. PythonTypeOK /\ Under(c) /\ Changing(c) /\ Counted /\ Is(c, "clear")
  BY DEF EnvironmentIsKnown, ChecksOnlyLook, Clear, Under, Is, Changing
<1>2. CASE env' = NoDirectory /\ Goes(c, "make")
  <2>1. PreparesWell(c)'
    BY <1>1, <1>2, GoesFits DEF PreparesWell, Is
  <2> QED
    BY <1>1, <1>2, <2>1, NoDirectoryFits, GoesKeep
<1>3. CASE env' = NoDirectory /\ Ends(c)
  BY <1>1, <1>3, NoDirectoryFits, EndsKeep
<1>4. CASE env' \in PartOfClear /\ Ends(c)
  BY <1>1, <1>4, PartsFit, EndsKeep
<1> QED
  BY <1>2, <1>3, <1>4 DEF Clear

LEMMA MakeKeeps ==
    ASSUME EnvironmentIsKnown, NEW c \in Callers, Make(c)
    PROVE  EnvironmentIsKnown'
<1>1. PythonTypeOK /\ Under(c) /\ Changing(c) /\ Counted
  BY DEF EnvironmentIsKnown, ChecksOnlyLook, Make, Under, Is, Changing
<1>2. env' \in Directories
  BY <1>1, EnvFields DEF Make, Directories
<1>3. CASE Ends(c)
  BY <1>1, <1>2, <1>3, EndsKeep
<1>4. ASSUME NEW place \in {"create", "hook"}, Goes(c, place)
      PROVE  EnvironmentIsKnown'
  <2>1. PreparesWell(c)'
    BY <1>1, <1>4, GoesFits DEF PreparesWell, Is
  <2> QED
    BY <1>1, <1>2, <1>4, <2>1, GoesKeep
<1> QED
  BY <1>3, <1>4 DEF Make

LEMMA CreateKeeps ==
    ASSUME EnvironmentIsKnown, NEW c \in Callers, CreateVenv(c)
    PROVE  EnvironmentIsKnown'
<1>1. PythonTypeOK /\ Under(c) /\ Changing(c) /\ Counted
  BY DEF EnvironmentIsKnown, ChecksOnlyLook, CreateVenv, Under, Is, Changing
<1>2. CASE env' = Emptied("works", TRUE) /\ Goes(c, "hook")
  <2>1. PreparesWell(c)' /\ env' \in Directories
    BY <1>1, <1>2, GoesFits, EmptiedFits DEF PreparesWell, Is
  <2> QED
    BY <1>1, <1>2, <2>1, GoesKeep
<1>3. CASE env' \in PartOfVenv /\ Ends(c)
  BY <1>1, <1>3, PartsFit, EndsKeep
<1> QED
  BY <1>2, <1>3 DEF CreateVenv

LEMMA HookKeeps ==
    ASSUME EnvironmentIsKnown, NEW c \in Callers, WriteHook(c)
    PROVE  EnvironmentIsKnown'
<1>1. PythonTypeOK /\ Under(c) /\ Changing(c) /\ Counted /\ Goes(c, "lines") /\ env' = Hooked
  BY DEF EnvironmentIsKnown, ChecksOnlyLook, WriteHook, Under, Is, Changing
<1>2. PreparesWell(c)' /\ env' \in Directories
  BY <1>1, GoesFits, HookedFits DEF PreparesWell, Is
<1> QED
  BY <1>1, <1>2, GoesKeep

LEMMA LinesKeep ==
    ASSUME EnvironmentIsKnown, NEW c \in Callers, WriteLines(c)
    PROVE  EnvironmentIsKnown'
<1>1. PythonTypeOK /\ Under(c) /\ Changing(c) /\ Counted
  BY DEF EnvironmentIsKnown, ChecksOnlyLook, WriteLines, Under, Is, Changing
<1>2. CASE ~env.root /\ UNCHANGED env /\ Ends(c)
  BY <1>1, <1>2, EnvFields, EndsKeep
<1>3. CASE /\ env' = Listed
           /\ call' = [call EXCEPT ![c].at = "pip", ![c].lines = Wanted]
  <2> DEFINE r == [call[c] EXCEPT !.at = "pip", !.lines = Wanted]
  <2>1. /\ call[c] \in RequestStates /\ call \in [Callers -> RequestStates]
        /\ Wanted \in RequirementSets \cup {{}}
    BY <1>1, EnvFields DEF PythonTypeOK
  <2>2. /\ r \in RequestStates /\ r.at = "pip" /\ r.op = call[c].op /\ r.alone = call[c].alone
        /\ r.lines = Wanted
    BY <2>1 DEF RequestStates
  <2>3. call' = [call EXCEPT ![c] = r]
    BY <1>3, <2>1
  <2> HIDE DEF r
  <2>4. /\ call' \in [Callers -> RequestStates] /\ call'[c] = r
        /\ \A d \in Callers \ {c} : call'[d] = call[d]
    BY <2>1, <2>2, <2>3
  <2>5. CallGoesOn(c)
    BY <1>1, <2>2, <2>4 DEF CallGoesOn, Changing
  <2>6. PreparesWell(c)' /\ env' \in Directories
    BY <1>1, <1>3, <2>2, <2>4, ListedFits DEF PreparesWell, Is
  <2> QED
    BY <1>1, <2>5, <2>6, OnwardKeeps
<1> QED
  BY <1>2, <1>3 DEF WriteLines

LEMMA NothingKeeps ==
    ASSUME EnvironmentIsKnown, NEW c \in Callers, NothingToInstall(c)
    PROVE  EnvironmentIsKnown'
<1>1. /\ PythonTypeOK /\ Under(c) /\ Changing(c) /\ Counted /\ Goes(c, "look")
      /\ env' = [env EXCEPT !.marker = NoFile]
  BY DEF EnvironmentIsKnown, ChecksOnlyLook, NothingToInstall, Under, Is, Changing
<1>2. env' \in Directories /\ env'.marker = NoFile
  BY <1>1, EnvFields DEF Directories, Files
<1>3. PreparesWell(c)'
  BY <1>1, <1>2, GoesFits DEF PreparesWell, Is
<1> QED
  BY <1>1, <1>2, <1>3, GoesKeep

LEMMA PipKeeps ==
    ASSUME EnvironmentIsKnown, NEW c \in Callers, PipInstall(c)
    PROVE  EnvironmentIsKnown'
<1>1. PythonTypeOK /\ Under(c) /\ Changing(c) /\ Counted /\ Is(c, "pip") /\ call[c].lines # {}
  BY DEF EnvironmentIsKnown, ChecksOnlyLook, PipInstall, Under, Is, Changing
<1>2. CASE env' \in PartOfPip /\ Ends(c)
  BY <1>1, <1>2, PartsFit, EndsKeep
<1>3. CASE /\ env.lines # NoFile /\ env' = [env EXCEPT !.packages = Installed(@, env.lines)]
           /\ Goes(c, "mark")
  <2>1. env' \in Directories /\ env.lines \subseteq env'.packages
    BY <1>1, <1>3, PipFits
  <2>2. ASSUME call'[c].prepared, call'[c].alone
        PROVE  PreparesWell(c)'
    <3>1. env.lines = call[c].lines
      BY <1>1, <1>3, <2>2, GoesFits DEF EnvironmentIsKnown, PreparesWell
    <3> QED
      BY <1>1, <1>3, <2>1, <3>1, GoesFits DEF PreparesWell, Is
  <2> QED
    BY <1>1, <1>3, <2>1, <2>2, GoesKeep
<1> QED
  BY <1>2, <1>3 DEF PipInstall

LEMMA MarkKeeps ==
    ASSUME EnvironmentIsKnown, NEW c \in Callers, WriteMarker(c)
    PROVE  EnvironmentIsKnown'
<1>1. PythonTypeOK /\ Under(c) /\ Changing(c) /\ Counted /\ Is(c, "mark")
  BY DEF EnvironmentIsKnown, ChecksOnlyLook, WriteMarker, Under, Is, Changing
<1>2. CASE UNCHANGED env /\ Ends(c)
  BY <1>1, <1>2, EnvFields, EndsKeep
<1>3. CASE env' = [env EXCEPT !.marker = call[c].lines] /\ Goes(c, "look")
  <2>1. call[c].lines \in Files
    BY <1>1 DEF EnvironmentIsKnown, MarksSomething, PythonTypeOK, RequestStates, Files
  <2>2. env' \in Directories /\ env'.marker = call[c].lines /\ env'.packages = env.packages
    BY <1>1, <1>3, <2>1, EnvFields DEF Directories
  <2>3. ASSUME call'[c].prepared, call'[c].alone
        PROVE  PreparesWell(c)'
    <3>1. call[c].lines \subseteq env.packages
      BY <1>1, <1>3, <2>3, GoesFits DEF EnvironmentIsKnown, PreparesWell
    <3> QED
      BY <1>1, <1>3, <2>2, <3>1, GoesFits DEF PreparesWell, Is
  <2> QED
    BY <1>1, <1>3, <2>2, <2>3, GoesKeep
<1> QED
  BY <1>2, <1>3 DEF WriteMarker

LEMMA LookKeeps ==
    ASSUME EnvironmentIsKnown, NEW c \in Callers, Look(c)
    PROVE  EnvironmentIsKnown'
<1>1. PythonTypeOK /\ Under(c) /\ Counted /\ Is(c, "look") /\ UNCHANGED env /\ env' \in Directories
  BY EnvFields DEF EnvironmentIsKnown, Look, Under, Is
<1>2. CASE Goes(c, "compare")
  <2>1. ASSUME call'[c].prepared, call'[c].alone
        PROVE  PreparesWell(c)'
    BY <1>1, <1>2, <2>1, GoesFits DEF EnvironmentIsKnown, PreparesWell, Is
  <2> QED
    BY <1>1, <1>2, <2>1, GoesKeep
<1>3. \/ Conclude(c, "missing") \/ Conclude(c, "broken") \/ Goes(c, "compare")
  BY DEF Look
<1> QED
  BY <1>1, <1>2, <1>3, ConcludeKeeps

LEMMA AroundKeep ==
    ASSUME EnvironmentIsKnown, EditRequirements \/ LoseBase \/ Killed
    PROVE  EnvironmentIsKnown'
<1>1. PythonTypeOK /\ call \in [Callers -> RequestStates]
  BY DEF EnvironmentIsKnown, PythonTypeOK
<1>2. CASE EditRequirements
  <2>1. PythonTypeOK'
    BY <1>1, <1>2, Bounds DEF PythonTypeOK, EditRequirements
  <2> QED
    BY <1>2, <2>1 DEF EditRequirements, EnvironmentIsKnown, ChecksOnlyLook, AloneMeansAlone,
                      MarksSomething, PreparesWell, Under, Is, Changing
<1>3. CASE LoseBase
  <2>1. PICK exe \in {"none", "dead"} : env' = [env EXCEPT !.exe = exe]
    BY <1>3 DEF LoseBase
  <2>2. /\ env' \in Directories /\ env'.lines = env.lines /\ env'.packages = env.packages
        /\ env'.marker = env.marker
    BY <1>1, <2>1, EnvFields DEF Directories
  <2>3. PythonTypeOK'
    BY <1>1, <1>3, <2>2, Bounds DEF PythonTypeOK, LoseBase
  <2> QED
    BY <1>3, <2>2, <2>3 DEF LoseBase, EnvironmentIsKnown, ChecksOnlyLook, AloneMeansAlone,
                            MarksSomething, PreparesWell, Under, Is, Changing
<1>4. CASE Killed
  <2>1. env' \in Directories
    BY <1>1, <1>4, CutShortFits DEF Killed
  <2>2. PythonTypeOK'
    BY <1>1, <1>4, <2>1, IdleFits, Bounds DEF PythonTypeOK, Killed
  <2>3. \A c \in Callers : call'[c] = Idle
    BY <1>4 DEF Killed
  <2> QED
    BY <2>2, <2>3, IdleFits
      DEF EnvironmentIsKnown, ChecksOnlyLook, AloneMeansAlone, MarksSomething, Under, Is
<1> QED
  BY <1>2, <1>3, <1>4

LEMMA PythonStays == EnvironmentIsKnown /\ [PythonNext]_pyVars => EnvironmentIsKnown'
<1> SUFFICES ASSUME EnvironmentIsKnown, [PythonNext]_pyVars PROVE EnvironmentIsKnown'
  OBVIOUS
<1>1. CASE UNCHANGED pyVars
  BY <1>1 DEF EnvironmentIsKnown, pyVars, PythonTypeOK, ChecksOnlyLook, AloneMeansAlone,
              MarksSomething, PreparesWell, Under, Is, Changing
<1>2. ASSUME NEW c \in Callers, Compare(c)
      PROVE  EnvironmentIsKnown'
  BY <1>2, ConcludeKeeps DEF Compare
<1>3. ASSUME NEW c \in Callers, Request(c) \/ Clear(c) \/ Prepare(c) \/ HealthCheck(c)
      PROVE  EnvironmentIsKnown'
  BY <1>2, <1>3, RequestKeeps, ClearKeeps, MakeKeeps, CreateKeeps, HookKeeps, LinesKeep,
     NothingKeeps, PipKeeps, MarkKeeps, LookKeeps DEF Prepare, HealthCheck
<1> QED
  BY <1>1, <1>3, AroundKeep DEF PythonNext

LEMMA PythonRests == PythonSpec => []EnvironmentIsKnown
  BY PythonStarts, PythonStays, PTL DEF PythonSpec

\* THEOREM.  What a request has prepared alone and finds ready has every package
\* that the requirements ask for at that moment (PreparedMeansInstalled), for any
\* callers, requirements, crashes and bounds.
THEOREM PreparedIsInstalled == PythonSpec => PreparedMeansInstalled
<1>1. ASSUME EnvironmentIsKnown, [PythonNext]_pyVars, NEW c \in Callers,
             Is(c, "compare"), call[c].prepared, call[c].alone, HealthVerdict = "ready"
      PROVE  Wanted \subseteq env.packages
  <2>1. env.marker = NoFile \/ env.marker \subseteq env.packages
    BY <1>1 DEF EnvironmentIsKnown, PreparesWell
  <2>2. Wanted = {} \/ (env.marker # NoFile /\ env.marker = Wanted)
    BY <1>1 DEF HealthVerdict
  <2> QED
    BY <2>1, <2>2
<1> DEFINE Promise ==
      \A c \in Callers :
         /\ Is(c, "compare") /\ call[c].prepared /\ call[c].alone
         /\ Compare(c) /\ HealthVerdict = "ready"
         => Wanted \subseteq env.packages
<1>2. EnvironmentIsKnown /\ [PythonNext]_pyVars => [Promise]_pyVars
  BY <1>1
<1> QED
  BY <1>2, PythonRests, PTL DEF PythonSpec, PreparedMeansInstalled

\* THEOREM.  The environment's files, the requests and the counters keep their types.
THEOREM PythonTypeSafe == PythonSpec => []PythonTypeOK
<1>1. EnvironmentIsKnown => PythonTypeOK
  BY DEF EnvironmentIsKnown
<1> QED
  BY <1>1, PythonRests, PTL

---------------------------------------------------------------------------
(* Resources: an import keeps what names mean.                           *)

\* Every resource that lies anywhere.
World ==
    registry \cup copy \cup package \cup UNION {job[u].pack \cup job[u].before : u \in Users}

\* No name means two of them, and none is called by a name that is still to be
\* given; the file and what is to be committed have every id once.
NamesAreKept ==
    /\ OneMeaning(World)
    /\ \A r \in World : r.id \notin Unused /\ r.key \notin Unused
RegistryInOrder ==
    /\ ResourcesTypeOK /\ NamesAreKept /\ IdsAreUnique
    /\ UniqueIds(package)
    /\ \A u \in Users : job[u].at = "commit" => UniqueIds(job[u].pack)

LEMMA RecordFields ==
    ASSUME NEW r \in Records
    PROVE  /\ r.id \in Names /\ r.key \in Names /\ r.enabled \in BOOLEAN
           /\ r.refs \in Seq(Names) /\ r.made \in Made
           /\ r = [id |-> r.id, key |-> r.key, enabled |-> r.enabled, refs |-> r.refs,
                   made |-> r.made]
  BY DEF Records

LEMMA NoJobFits ==
    /\ NoJob \in JobStates /\ NoJob.at = "rest" /\ NoJob.pack = {} /\ NoJob.before = {}
  BY DEF NoJob, JobStates, JobPlaces, JobKinds, Policies

LEMMA ResourceParts ==
    ASSUME ResourcesTypeOK
    PROVE  /\ registry \subseteq World /\ copy \subseteq World /\ World \subseteq Records
           /\ package \subseteq World
           /\ \A u \in Users : job[u].pack \subseteq World /\ job[u].before \subseteq World
  BY DEF World, ResourcesTypeOK, JobStates

LEMMA Whole ==
    ASSUME NEW S, registry \subseteq S, copy \subseteq S, package \subseteq S,
           \A u \in Users : job[u].pack \subseteq S /\ job[u].before \subseteq S
    PROVE  World \subseteq S
  BY DEF World

LEMMA WholeNext ==
    ASSUME NEW S, registry' \subseteq S, copy' \subseteq S,
           package' \subseteq S,
           \A u \in Users : job'[u].pack \subseteq S /\ job'[u].before \subseteq S
    PROVE  World' \subseteq S
  BY DEF World

LEMMA ResourcesStart == ResourcesInit => RegistryInOrder
<1> SUFFICES ASSUME ResourcesInit PROVE RegistryInOrder
  OBVIOUS
<1>1. registry \in Registries /\ copy = registry /\ package \in Packages \cup {NoPackage} /\ used = {} /\ jobs = 0
  BY DEF ResourcesInit
<1>2. /\ package \subseteq Records /\ UniqueIds(package) /\ registry \subseteq Records /\ UniqueIds(registry)
      /\ OneMeaning(registry \cup package)
      /\ \A r \in registry \cup package : r.id \notin FreshNames /\ r.key \notin FreshNames
  BY <1>1, ResourcesAssumption DEF UniqueIds, NoPackage
<1>3. \A u \in Users : job[u] = NoJob
  BY DEF ResourcesInit
<1>4. World \subseteq registry \cup package
  <2> DEFINE S == registry \cup package
  <2>1. registry \subseteq S /\ copy \subseteq S /\ package \subseteq S
    BY <1>1
  <2>2. \A u \in Users : job[u].pack \subseteq S /\ job[u].before \subseteq S
    BY <1>3, NoJobFits
  <2> HIDE DEF S
  <2>3. World \subseteq S
    BY <2>1, <2>2, Whole
  <2> QED
    BY <2>3 DEF S
<1>5. ResourcesTypeOK
  BY <1>1, <1>2, NoJobFits, ResourcesAssumption DEF ResourcesInit, ResourcesTypeOK
<1>6. NamesAreKept
  BY <1>2, <1>4 DEF NamesAreKept, OneMeaning, Unused
<1> QED
  BY <1>1, <1>2, <1>3, <1>5, <1>6, NoJobFits DEF RegistryInOrder, IdsAreUnique

-----------------------------------------------------------------------------
(* What a step may bring: resources under a new name, or under names that  *)
(* one resource had.                                                       *)

MayCome(x) ==
    /\ x \in Records
    /\ \/ x.id \in Unused /\ x.id \in used' /\ x.key = x.id
       \/ \E w \in World : x.id = w.id /\ x.key \in {w.id, w.key}

LEMMA NamesStay ==
    ASSUME RegistryInOrder, NEW X, \A x \in X : MayCome(x), World' \subseteq World \cup X,
           used \subseteq used'
    PROVE  NamesAreKept'
<1>1. /\ OneMeaning(World)
      /\ \A r \in World : r.id \notin Unused /\ r.key \notin Unused
  BY DEF RegistryInOrder, NamesAreKept
<1>2. ASSUME NEW x \in World'
      PROVE  \/ x.id \in Unused /\ x.id \in used' /\ x.key = x.id
             \/ \E w \in World : x.id = w.id /\ x.key \in {w.id, w.key}
  BY <1>2 DEF MayCome
<1>3. ASSUME NEW x \in World'
      PROVE  x.id \notin Unused' /\ x.key \notin Unused'
  BY <1>1, <1>2 DEF Unused
<1>4. ASSUME NEW x \in World', NEW y \in World', {x.id, x.key} \cap {y.id, y.key} # {}
      PROVE  x.id = y.id
  <2>1. CASE x.id \in Unused /\ x.key = x.id
    BY <1>1, <1>2, <1>4, <2>1
  <2>2. CASE y.id \in Unused /\ y.key = y.id
    BY <1>1, <1>2, <1>4, <2>2
  <2>3. CASE /\ \E w \in World : x.id = w.id /\ x.key \in {w.id, w.key}
             /\ \E w \in World : y.id = w.id /\ y.key \in {w.id, w.key}
    <3>1. PICK v \in World : x.id = v.id /\ x.key \in {v.id, v.key}
      BY <2>3
    <3>2. PICK w \in World : y.id = w.id /\ y.key \in {w.id, w.key}
      BY <2>3
    <3>3. {v.id, v.key} \cap {w.id, w.key} # {}
      BY <1>4, <3>1, <3>2
    <3> QED
      BY <1>1, <3>1, <3>2, <3>3 DEF OneMeaning
  <2> QED
    BY <1>2, <2>1, <2>2, <2>3
<1> QED
  BY <1>3, <1>4 DEF NamesAreKept, OneMeaning

LEMMA StepKeepsOrder ==
    ASSUME RegistryInOrder, NEW u \in Users, NEW X, \A x \in X : MayCome(x),
           registry' \subseteq World \cup X, UniqueIds(registry'), copy' \subseteq World \cup X,
           \/ package' = package
           \/ package' \subseteq World /\ UniqueIds(package'),
           job' \in [Users -> JobStates], \A v \in Users \ {u} : job'[v] = job[v],
           job'[u].pack \subseteq World \cup X, job'[u].before \subseteq World \cup X,
           job'[u].at = "commit" => UniqueIds(job'[u].pack),
           used \subseteq used', used' \subseteq FreshNames, jobs' \in 0..MaxJobs
    PROVE  RegistryInOrder'
<1>1. ResourcesTypeOK /\ World \subseteq Records /\ X \subseteq Records
  BY ResourceParts DEF RegistryInOrder, MayCome
<1>2. package' \subseteq World /\ UniqueIds(package')
  BY <1>1, ResourceParts DEF RegistryInOrder
<1>4. ResourcesTypeOK'
  BY <1>1, <1>2 DEF ResourcesTypeOK
<1>5. World' \subseteq World \cup X
  <2> DEFINE S == World \cup X
  <2>1. /\ registry' \subseteq S /\ copy' \subseteq S /\ package' \subseteq S
    BY <1>2
  <2>2. \A v \in Users : job'[v].pack \subseteq S /\ job'[v].before \subseteq S
    BY <1>1, ResourceParts
  <2> HIDE DEF S
  <2>3. World' \subseteq S
    BY <2>1, <2>2, WholeNext
  <2> QED
    BY <2>3 DEF S
<1>6. NamesAreKept'
  BY <1>5, NamesStay
<1>7. ASSUME NEW v \in Users
      PROVE  job'[v].at = "commit" => UniqueIds(job'[v].pack)
  BY DEF RegistryInOrder
<1>8. IdsAreUnique'
  BY DEF IdsAreUnique
<1> QED
  BY <1>2, <1>4, <1>6, <1>7, <1>8 DEF RegistryInOrder

\* A step that brings nothing, and goes on in a place.
LEMMA JobFits ==
    ASSUME ResourcesTypeOK, NEW u \in Users, NEW k \in JobStates, job' = [job EXCEPT ![u] = k]
    PROVE  /\ job' \in [Users -> JobStates] /\ job'[u] = k
           /\ \A v \in Users \ {u} : job'[v] = job[v]
  BY DEF ResourcesTypeOK

LEMMA MovedJob ==
    ASSUME ResourcesTypeOK, NEW u \in Users, NEW place \in JobPlaces
    PROVE  LET k == [job[u] EXCEPT !.at = place]
           IN  /\ k \in JobStates /\ k.at = place /\ k.pack = job[u].pack
               /\ k.before = job[u].before /\ k.kind = job[u].kind /\ k.policy = job[u].policy
               /\ [job EXCEPT ![u].at = place] = [job EXCEPT ![u] = k]
<1>1. job[u] \in JobStates /\ job \in [Users -> JobStates]
  BY DEF ResourcesTypeOK
<1> DEFINE k == [job[u] EXCEPT !.at = place]
<1>2. /\ k \in JobStates /\ k.at = place /\ k.pack = job[u].pack
      /\ k.before = job[u].before /\ k.kind = job[u].kind /\ k.policy = job[u].policy
  BY <1>1 DEF JobStates
<1>3. [job EXCEPT ![u].at = place] = [job EXCEPT ![u] = k]
  BY <1>1
<1> QED
  BY <1>2, <1>3

LEMMA EndFits ==
    ASSUME ResourcesTypeOK, NEW u \in Users, JobEnds(u)
    PROVE  /\ job' \in [Users -> JobStates] /\ job'[u] = NoJob
           /\ \A v \in Users \ {u} : job'[v] = job[v]
  BY JobFits, NoJobFits DEF JobEnds

LEMMA EndKeepsOrder ==
    ASSUME RegistryInOrder, NEW u \in Users, NEW X, \A x \in X : MayCome(x), JobEnds(u),
           registry' \subseteq World \cup X, UniqueIds(registry'), copy' \subseteq World \cup X,
           \/ package' = package
           \/ package' \subseteq World /\ UniqueIds(package'),
           used \subseteq used', used' \subseteq FreshNames, jobs' = jobs
    PROVE  RegistryInOrder'
<1>1. ResourcesTypeOK /\ jobs' \in 0..MaxJobs
  BY DEF RegistryInOrder, ResourcesTypeOK
<1>2. job'[u].pack \subseteq World \cup X /\ job'[u].before \subseteq World \cup X /\ job'[u].at = "rest"
  BY <1>1, EndFits, NoJobFits
<1>3. job' \in [Users -> JobStates] /\ \A v \in Users \ {u} : job'[v] = job[v]
  BY <1>1, EndFits
<1> QED
  BY <1>1, <1>2, <1>3, StepKeepsOrder

LEMMA RefusalKeepsOrder ==
    ASSUME RegistryInOrder, NEW u \in Users, Refused(u), UNCHANGED <<package, jobs>>,
           used \subseteq used', used' \subseteq FreshNames
    PROVE  RegistryInOrder'
<1>1. ResourcesTypeOK /\ UniqueIds(registry)
  BY DEF RegistryInOrder, IdsAreUnique
<1>2. PICK X : X = {}
  OBVIOUS
<1>3. \A x \in X : MayCome(x)
  BY <1>2
<1>4. registry' \subseteq World \cup X /\ copy' \subseteq World \cup X /\ UniqueIds(registry')
  BY <1>1, ResourceParts DEF Refused
<1> QED
  BY <1>3, <1>4, EndKeepsOrder DEF Refused

LEMMA MutationKeepsOrder ==
    ASSUME RegistryInOrder, NEW u \in Users, NEW R, NEW X, \A x \in X : MayCome(x), Mutated(u, R),
           R \subseteq World \cup X, UniqueIds(R), UNCHANGED <<package, jobs>>,
           used \subseteq used', used' \subseteq FreshNames
    PROVE  RegistryInOrder'
<1>1. registry' = R /\ copy' = R /\ JobEnds(u) /\ package' = package /\ jobs' = jobs
  BY DEF Mutated
<1> QED
  BY <1>1, EndKeepsOrder

LEMMA UsedKept == RegistryInOrder => used \subseteq FreshNames
  BY DEF RegistryInOrder, ResourcesTypeOK

-----------------------------------------------------------------------------
(* Steps that bring nothing.                                               *)

LEMMA NothingComes ==
    ASSUME RegistryInOrder, NEW u \in Users,
           registry' = registry, copy' \subseteq World,
           \/ package' = package
           \/ package' \subseteq World /\ UniqueIds(package'),
           job' \in [Users -> JobStates], \A v \in Users \ {u} : job'[v] = job[v],
           job'[u].pack \subseteq World, job'[u].before \subseteq World,
           job'[u].at = "commit" => UniqueIds(job'[u].pack),
           used' = used, jobs' \in 0..MaxJobs
    PROVE  RegistryInOrder'
<1>1. ResourcesTypeOK /\ UniqueIds(registry) /\ used \subseteq FreshNames
  BY UsedKept DEF RegistryInOrder, IdsAreUnique
<1>2. PICK X : X = {}
  OBVIOUS
<1>3. \A x \in X : MayCome(x)
  BY <1>2
<1>4. /\ registry' \subseteq World \cup X /\ copy' \subseteq World \cup X /\ UniqueIds(registry')
      /\ job'[u].pack \subseteq World \cup X /\ job'[u].before \subseteq World \cup X
      /\ used \subseteq used' /\ used' \subseteq FreshNames
  BY <1>1, ResourceParts
<1> QED
  BY <1>3, <1>4, StepKeepsOrder

LEMMA AskKeepsOrder ==
    ASSUME RegistryInOrder, NEW u \in Users, Ask(u)
    PROVE  RegistryInOrder'
<1>1. PICK kind \in JobKinds, policy \in Policies :
        /\ jobs < MaxJobs /\ jobs' = jobs + 1
        /\ copy' = registry
        /\ job' = [job EXCEPT ![u] = [NoJob EXCEPT !.at = FirstPlace(kind), !.kind = kind,
                                                   !.policy = policy]]
        /\ UNCHANGED <<registry, package, used>>
  BY DEF Ask
<1> DEFINE k == [NoJob EXCEPT !.at = FirstPlace(kind), !.kind = kind, !.policy = policy]
<1>2. FirstPlace(kind) \in {"open", "resolve", "build", "change"}
  BY DEF FirstPlace, JobKinds
<1>3. k \in JobStates /\ k.at = FirstPlace(kind) /\ k.pack = {} /\ k.before = {}
  BY <1>2, NoJobFits DEF JobStates, JobPlaces
<1>4. job' = [job EXCEPT ![u] = k] /\ ResourcesTypeOK
  BY <1>1 DEF RegistryInOrder
<1>5. jobs' \in 0..MaxJobs
  BY <1>1, <1>4, ResourcesAssumption DEF ResourcesTypeOK
<1> HIDE DEF k
<1>6. /\ job' \in [Users -> JobStates] /\ job'[u] = k
      /\ \A v \in Users \ {u} : job'[v] = job[v]
  BY <1>3, <1>4, JobFits
<1>7. copy' \subseteq World
  BY <1>1, <1>4, ResourceParts
<1> QED
  BY <1>1, <1>2, <1>3, <1>5, <1>6, <1>7, NothingComes

LEMMA OpenKeepsOrder ==
    ASSUME RegistryInOrder, NEW u \in Users, Open(u)
    PROVE  RegistryInOrder'
<1>1. ResourcesTypeOK /\ used \subseteq FreshNames /\ jobs' \in 0..MaxJobs
  BY UsedKept DEF RegistryInOrder, Open, ResourcesTypeOK
<1>2. UNCHANGED <<registry, copy, package, used, jobs>> /\ copy' \subseteq World
  BY <1>1, ResourceParts DEF Open
<1>3. CASE JobEnds(u)
  BY <1>1, <1>2, <1>3, EndFits, NoJobFits, NothingComes
<1>4. CASE /\ package # NoPackage
           /\ job' = [job EXCEPT ![u].at = "stage", ![u].pack = package]
  <2> DEFINE k == [job[u] EXCEPT !.at = "stage", !.pack = package]
  <2>1. job[u] \in JobStates /\ package \subseteq Records /\ package \subseteq World
    BY <1>1, <1>4, ResourceParts DEF ResourcesTypeOK
  <2>2. /\ k \in JobStates /\ k.at = "stage" /\ k.pack = package /\ k.before = job[u].before
    BY <2>1 DEF JobStates, JobPlaces
  <2>3. job' = [job EXCEPT ![u] = k]
    BY <1>1, <1>4 DEF ResourcesTypeOK
  <2> HIDE DEF k
  <2>4. /\ job' \in [Users -> JobStates] /\ job'[u] = k
        /\ \A v \in Users \ {u} : job'[v] = job[v]
    BY <1>1, <2>2, <2>3, JobFits
  <2>5. k.before \subseteq World
    BY <1>1, <2>2, ResourceParts
  <2> QED
    BY <1>1, <1>2, <1>4, <2>1, <2>2, <2>4, <2>5, NothingComes
<1> QED
  BY <1>3, <1>4 DEF Open

LEMMA StageKeepsOrder ==
    ASSUME RegistryInOrder, NEW u \in Users, Stage(u)
    PROVE  RegistryInOrder'
<1>1. ResourcesTypeOK /\ jobs' \in 0..MaxJobs
  BY DEF RegistryInOrder, Stage, ResourcesTypeOK, AtPlace
<1> DEFINE k == [job[u] EXCEPT !.at = "staged", !.before = copy]
<1>2. job[u] \in JobStates /\ copy \subseteq Records /\ copy \subseteq World /\ job[u].pack \subseteq World
  BY <1>1, ResourceParts DEF ResourcesTypeOK
<1>3. /\ k \in JobStates /\ k.at = "staged" /\ k.pack = job[u].pack /\ k.before = copy
  BY <1>2 DEF JobStates, JobPlaces
<1>4. job' = [job EXCEPT ![u] = k]
  BY <1>1 DEF ResourcesTypeOK, Stage
<1> HIDE DEF k
<1>5. /\ job' \in [Users -> JobStates] /\ job'[u] = k
      /\ \A v \in Users \ {u} : job'[v] = job[v]
  BY <1>1, <1>3, <1>4, JobFits
<1>6. copy' \subseteq World /\ UNCHANGED <<registry, package, used>>
  BY <1>2 DEF Stage
<1> QED
  BY <1>1, <1>2, <1>3, <1>5, <1>6, NothingComes

LEMMA UnstageKeepsOrder ==
    ASSUME RegistryInOrder, NEW u \in Users, Unstage(u)
    PROVE  RegistryInOrder'
<1>1. ResourcesTypeOK /\ jobs' \in 0..MaxJobs
  BY DEF RegistryInOrder, Unstage, ResourcesTypeOK, AtPlace
<1>2. job[u].before \subseteq World /\ job[u].pack \subseteq World
  BY <1>1, ResourceParts
<1>3. copy' \subseteq World /\ UNCHANGED <<registry, package, used>>
  BY <1>2 DEF Unstage
<1>4. CASE JobEnds(u)
  BY <1>1, <1>3, <1>4, EndFits, NoJobFits, NothingComes
<1>5. CASE JobGoes(u, "reread")
  <2> DEFINE k == [job[u] EXCEPT !.at = "reread"]
  <2>1. "reread" \in JobPlaces
    BY DEF JobPlaces
  <2>2. /\ k \in JobStates /\ k.at = "reread" /\ k.pack = job[u].pack /\ k.before = job[u].before
        /\ job' = [job EXCEPT ![u] = k]
    BY <1>1, <1>5, <2>1, MovedJob DEF JobGoes
  <2> HIDE DEF k
  <2>3. /\ job' \in [Users -> JobStates] /\ job'[u] = k
        /\ \A v \in Users \ {u} : job'[v] = job[v]
    BY <1>1, <2>2, JobFits
  <2> QED
    BY <1>1, <1>2, <1>3, <2>2, <2>3, NothingComes
<1> QED
  BY <1>4, <1>5 DEF Unstage

LEMMA RereadKeepsOrder ==
    ASSUME RegistryInOrder, NEW u \in Users, Reread(u)
    PROVE  RegistryInOrder'
<1>1. ResourcesTypeOK /\ jobs' \in 0..MaxJobs /\ UniqueIds(package)
  BY DEF RegistryInOrder, Reread, ResourcesTypeOK, AtPlace
<1> DEFINE k == [job[u] EXCEPT !.at = "commit", !.pack = package]
<1>2. /\ job[u] \in JobStates /\ package \subseteq Records /\ package \subseteq World
      /\ job[u].before \subseteq World /\ copy \subseteq World
  BY <1>1, ResourceParts DEF ResourcesTypeOK
<1>3. /\ k \in JobStates /\ k.at = "commit" /\ k.pack = package /\ k.before = job[u].before
  BY <1>2 DEF JobStates, JobPlaces
<1>4. job' = [job EXCEPT ![u] = k]
  BY <1>1 DEF ResourcesTypeOK, Reread
<1> HIDE DEF k
<1>5. /\ job' \in [Users -> JobStates] /\ job'[u] = k
      /\ \A v \in Users \ {u} : job'[v] = job[v]
  BY <1>1, <1>3, <1>4, JobFits
<1>6. copy' \subseteq World /\ UNCHANGED <<registry, package, used>>
  BY <1>2 DEF Reread
<1> QED
  BY <1>1, <1>2, <1>3, <1>5, <1>6, NothingComes

LEMMA ExportKeepsOrder ==
    ASSUME RegistryInOrder, NEW u \in Users, Export(u)
    PROVE  RegistryInOrder'
<1>1. ResourcesTypeOK /\ jobs' \in 0..MaxJobs /\ JobEnds(u)
  BY DEF RegistryInOrder, Export, ResourcesTypeOK
<1>2. UNCHANGED <<registry, copy, used>> /\ copy' \subseteq World
  BY <1>1, ResourceParts DEF Export
<1>3. package' = package \/ (package' \subseteq World /\ UniqueIds(package'))
  <2>1. CASE package' = package
    BY <2>1
  <2>2. ASSUME NEW root \in copy, package' \in PackagesOf(root)
        PROVE  package' \subseteq World /\ UniqueIds(package')
    <3>1. package' \subseteq copy /\ Complete(package', root)
      BY <2>2 DEF PackagesOf
    <3> QED
      BY <1>1, <3>1, ResourceParts DEF Complete
  <2> QED
    BY <2>1, <2>2 DEF Export
<1>4. /\ job' \in [Users -> JobStates] /\ job'[u] = NoJob
      /\ \A v \in Users \ {u} : job'[v] = job[v]
  BY <1>1, EndFits
<1>5. job'[u].pack \subseteq World /\ job'[u].before \subseteq World /\ job'[u].at = "rest"
  BY <1>4, NoJobFits
<1> QED
  BY <1>1, <1>2, <1>3, <1>4, <1>5, NothingComes

-----------------------------------------------------------------------------
(* The names that a renaming gives.                                        *)

LEMMA FreshForGives ==
    ASSUME NEW C, FreshFor(C) # {}
    PROVE  LET given == CHOOSE g \in FreshFor(C) : TRUE
           IN  /\ given \in [C -> Unused]
               /\ \A m, n \in C : given[m] = given[n] => m = n
  BY DEF FreshFor

\* Who may be renamed: a resource of what is imported under its own names.
Importing(pack) ==
    RegistryInOrder /\ pack \subseteq World /\ UniqueIds(pack) /\ FreshFor(Conflicting(pack)) # {}

LEMMA RenamingsGive ==
    ASSUME NEW pack, Importing(pack)
    PROVE  LET to == Renamings(pack)
           IN  /\ \A n \in DOMAIN to : to[n] \in Unused
               /\ \A n \in DOMAIN to : \E r \in pack : r.id \in Conflicting(pack) /\ CalledBy(r, n)
               /\ \A r \in pack : r.id \in Conflicting(pack) =>
                     /\ r.id \in DOMAIN to /\ r.key \in DOMAIN to
                     /\ to[r.key] = to[r.id]
               /\ \A r, s \in pack :
                     r.id \in Conflicting(pack) /\ s.id \in Conflicting(pack) /\ to[r.id] = to[s.id]
                     => r = s
<1> DEFINE C == Conflicting(pack)
           given == CHOOSE g \in FreshFor(C) : TRUE
           held == {r \in pack : r.id \in C}
           named == UNION {{r.id, r.key} : r \in held}
           first(n) == CHOOSE r \in held : CalledBy(r, n)
           to == [n \in named |-> given[first(n).id]]
<1>1. to = Renamings(pack)
  BY DEF Renamings
<1>2. given \in [C -> Unused] /\ \A m, n \in C : given[m] = given[n] => m = n
  BY FreshForGives DEF Importing
<1>3. OneMeaning(World) /\ pack \subseteq World /\ UniqueIds(pack)
  BY DEF Importing, RegistryInOrder, NamesAreKept
<1> HIDE DEF given, C
<1>4. ASSUME NEW n \in named
      PROVE  first(n) \in held /\ CalledBy(first(n), n)
  <2>1. \E r \in held : CalledBy(r, n)
    BY DEF CalledBy
  <2> QED
    BY <2>1
<1>5. ASSUME NEW r \in held, NEW n, CalledBy(r, n)
      PROVE  n \in named /\ first(n) = r
  <2>1. n \in named
    BY <1>5 DEF CalledBy
  <2>2. first(n) \in held /\ CalledBy(first(n), n)
    BY <1>4, <2>1
  <2>3. {r.id, r.key} \cap {first(n).id, first(n).key} # {}
    BY <1>5, <2>2 DEF CalledBy
  <2>4. first(n).id = r.id
    BY <1>3, <2>2, <2>3 DEF OneMeaning
  <2> QED
    BY <1>3, <2>1, <2>2, <2>4 DEF UniqueIds
<1>6. \A n \in named : to[n] = given[first(n).id] /\ first(n).id \in C
  BY <1>4
<1>7. DOMAIN to = named
  OBVIOUS
<1>8. \A r \in held : r.id \in named /\ r.key \in named /\ to[r.id] = given[r.id] /\ to[r.key] = given[r.id]
  BY <1>5, <1>6 DEF CalledBy
<1> HIDE DEF to, first, named
<1>9. \A n \in DOMAIN to : to[n] \in Unused
  BY <1>2, <1>6, <1>7
<1>10. \A n \in DOMAIN to : \E r \in pack : r.id \in C /\ CalledBy(r, n)
  BY <1>4, <1>7
<1>11. \A r, s \in held : to[r.id] = to[s.id] => r = s
  BY <1>2, <1>3, <1>8 DEF UniqueIds
<1> QED
  BY <1>1, <1>7, <1>8, <1>9, <1>10, <1>11 DEF C

LEMMA RenamedFields ==
    ASSUME NEW pack, Importing(pack), NEW r \in pack
    PROVE  LET to == Renamings(pack)
               x == Renamed(r, to)
           IN  /\ x \in Records /\ x.made = r.made /\ DOMAIN x.refs = DOMAIN r.refs
               /\ \A i \in DOMAIN r.refs :
                     x.refs[i] = IF r.refs[i] \in DOMAIN to THEN to[r.refs[i]] ELSE r.refs[i]
               /\ r.id \in Conflicting(pack) => x.id = to[r.id] /\ x.key = to[r.id]
               /\ r.id \notin Conflicting(pack) => x.id = r.id /\ x.key = r.key
<1> DEFINE C == Conflicting(pack)
           to == Renamings(pack)
           other(n) == IF n \in DOMAIN to THEN to[n] ELSE n
           x == Renamed(r, to)
           refs == [i \in DOMAIN r.refs |-> other(r.refs[i])]
           key == IF r.id \in DOMAIN to THEN to[r.id] ELSE r.key
<1>1. /\ OneMeaning(World) /\ pack \subseteq World /\ UniqueIds(pack) /\ World \subseteq Records
      /\ Unused \subseteq Names
  BY ResourceParts, ResourcesAssumption DEF Importing, RegistryInOrder, NamesAreKept, Unused
<1>2. r.id \in DOMAIN to <=> r.id \in C
  <2>1. ASSUME r.id \in DOMAIN to
        PROVE  r.id \in C
    <3>1. PICK h \in pack : h.id \in C /\ CalledBy(h, r.id)
      BY <2>1, RenamingsGive
    <3>2. {h.id, h.key} \cap {r.id, r.key} # {}
      BY <3>1 DEF CalledBy
    <3> QED
      BY <1>1, <3>1, <3>2 DEF OneMeaning
  <2> QED
    BY <2>1, RenamingsGive
<1>3. \A n \in DOMAIN to : to[n] \in Names
  BY <1>1, RenamingsGive
<1>4. r \in Records /\ r.refs \in Seq(Names) /\ r.id \in Names /\ r.key \in Names
  BY <1>1, RecordFields
<1>5. x = [[[r EXCEPT !.id = other(r.id)] EXCEPT !.key = key] EXCEPT !.refs = refs]
  BY <1>4 DEF Renamed
<1> HIDE DEF x, to, C
<1>6. other(r.id) \in Names /\ key \in Names
  BY <1>3, <1>4
<1>7. refs \in Seq(Names) /\ DOMAIN refs = DOMAIN r.refs
  <2>1. DOMAIN r.refs = 1..Len(r.refs) /\ Len(r.refs) \in Nat
    BY <1>4
  <2>2. ASSUME NEW i \in 1..Len(r.refs)
        PROVE  other(r.refs[i]) \in Names
    BY <1>3, <1>4
  <2>3. refs = [i \in 1..Len(r.refs) |-> other(r.refs[i])]
    BY <2>1
  <2>4. refs \in [1..Len(r.refs) -> Names]
    BY <2>2, <2>3
  <2> HIDE DEF refs
  <2> QED
    BY <2>1, <2>4, SeqDef
<1>8. \A i \in DOMAIN r.refs : refs[i] = IF r.refs[i] \in DOMAIN to THEN to[r.refs[i]] ELSE r.refs[i]
  OBVIOUS
<1>9. /\ r.id \in C => other(r.id) = to[r.id] /\ key = to[r.id]
      /\ r.id \notin C => other(r.id) = r.id /\ key = r.key
  BY <1>2
<1> HIDE DEF refs, key
<1>10. \E m : m = other(r.id)
  OBVIOUS
<1>11. PICK m : m = other(r.id)
  BY <1>10
<1>12. x = [[[r EXCEPT !.id = m] EXCEPT !.key = key] EXCEPT !.refs = refs]
  BY <1>5, <1>11
<1>13. x \in Records /\ x.made = r.made /\ x.refs = refs /\ x.id = m /\ x.key = key
  BY <1>4, <1>6, <1>7, <1>11, <1>12 DEF Records
<1> QED
  BY <1>7, <1>8, <1>9, <1>11, <1>13 DEF x, to, C

-----------------------------------------------------------------------------
(* Imports and changes.                                                    *)

LEMMA OldMayCome == ASSUME ResourcesTypeOK, NEW x \in World PROVE MayCome(x)
  BY ResourceParts DEF MayCome

LEMMA Joined ==
    ASSUME NEW R, NEW P, UniqueIds(R), UniqueIds(P), Ids(R) \cap Ids(P) = {}
    PROVE  UniqueIds(R \cup P)
  BY DEF UniqueIds, Ids

LEMMA RenamedOnes ==
    ASSUME NEW pack, Importing(pack), NEW x \in {Renamed(r, Renamings(pack)) : r \in pack}
    PROVE  \E r \in pack :
              /\ x = Renamed(r, Renamings(pack)) /\ x \in Records
              /\ \/ r.id \in Conflicting(pack) /\ x.id \in Unused /\ x.key = x.id
                    /\ x.id = Renamings(pack)[r.id] /\ r.id \in DOMAIN Renamings(pack)
                 \/ r.id \notin Conflicting(pack) /\ x.id = r.id /\ x.key = r.key
<1>1. PICK r \in pack : x = Renamed(r, Renamings(pack))
  OBVIOUS
<1>2. /\ x \in Records
      /\ r.id \in Conflicting(pack) => x.id = Renamings(pack)[r.id] /\ x.key = Renamings(pack)[r.id]
      /\ r.id \notin Conflicting(pack) => x.id = r.id /\ x.key = r.key
  BY <1>1, RenamedFields
<1>3. r.id \in Conflicting(pack) =>
        r.id \in DOMAIN Renamings(pack) /\ Renamings(pack)[r.id] \in Unused
  BY RenamingsGive
<1> QED
  BY <1>1, <1>2, <1>3

LEMMA CommitKeepsOrder ==
    ASSUME RegistryInOrder, NEW u \in Users, Commit(u)
    PROVE  RegistryInOrder'
<1> DEFINE pack == job[u].pack
           C == Conflicting(pack)
           to == Renamings(pack)
<1>1. /\ ResourcesTypeOK /\ UniqueIds(pack) /\ UniqueIds(registry) /\ used \subseteq FreshNames
      /\ pack \subseteq World /\ registry \subseteq World /\ UNCHANGED <<package, jobs>>
      /\ NamesAreKept
  BY UsedKept, ResourceParts DEF RegistryInOrder, IdsAreUnique, Commit, AtPlace
<1>2. \A x \in World : MayCome(x)
  BY <1>1, OldMayCome
<1>3. CASE Refused(u) /\ UNCHANGED used
  BY <1>1, <1>3, RefusalKeepsOrder
<1>4. ASSUME NEW R, R \subseteq World, UniqueIds(R), Mutated(u, R), used' = used
      PROVE  RegistryInOrder'
  <2>1. R \subseteq World \cup World
    BY <1>4
  <2> QED
    BY <1>1, <1>2, <1>4, <2>1, MutationKeepsOrder
<1>5. CASE job[u].policy = "abort"
  <2>1. CASE C = {} /\ Mutated(u, registry \cup pack) /\ used' = used
    <3>1. UniqueIds(registry \cup pack) /\ registry \cup pack \subseteq World
      BY <1>1, <2>1, Joined DEF Conflicting
    <3> QED
      BY <1>4, <2>1, <3>1
  <2> QED
    BY <1>3, <1>5, <2>1 DEF Commit
<1>6. CASE job[u].policy = "rename"
  <2> DEFINE X == {Renamed(r, to) : r \in pack}
             R == registry \cup X
  <2>1. /\ FreshFor(C) # {} /\ Mutated(u, R)
        /\ used' = used \cup {to[n] : n \in DOMAIN to}
    BY <1>6 DEF Commit
  <2>2. Importing(pack)
    BY <1>1, <2>1 DEF Importing
  <2>3. ASSUME NEW x \in X
        PROVE  \E r \in pack :
              /\ x = Renamed(r, to) /\ x \in Records
              /\ \/ r.id \in C /\ x.id \in Unused /\ x.key = x.id
                    /\ x.id = to[r.id] /\ r.id \in DOMAIN to
                 \/ r.id \notin C /\ x.id = r.id /\ x.key = r.key
    BY <2>2, <2>3, RenamedOnes
  <2>4. \A r, s \in pack : r.id \in C /\ s.id \in C /\ to[r.id] = to[s.id] => r = s
    BY <2>2, RenamingsGive
  <2>5. \A n \in DOMAIN to : to[n] \in Unused
    BY <2>2, RenamingsGive
  <2>6. \A r \in pack : r.id \notin C => r.id \notin Ids(registry)
    BY DEF Conflicting, Ids
  <2> HIDE DEF X, to, C, pack
  <2>7. \A x \in X : MayCome(x)
    BY <1>1, <2>1, <2>3 DEF MayCome
  <2>8. used \subseteq used' /\ used' \subseteq FreshNames
    BY <1>1, <2>1, <2>5 DEF Unused
  <2>9. UniqueIds(X)
    <3>1. ASSUME NEW x \in X, NEW y \in X, x.id = y.id
          PROVE  x = y
      <4>1. PICK r \in pack :
              /\ x = Renamed(r, to)
              /\ \/ r.id \in C /\ x.id \in Unused /\ x.id = to[r.id]
                 \/ r.id \notin C /\ x.id = r.id
        BY <2>3
      <4>2. PICK s \in pack :
              /\ y = Renamed(s, to)
              /\ \/ s.id \in C /\ y.id \in Unused /\ y.id = to[s.id]
                 \/ s.id \notin C /\ y.id = s.id
        BY <2>3
      <4>3. r.id \notin Unused /\ s.id \notin Unused
        BY <1>1 DEF NamesAreKept
      <4>4. r = s
        BY <1>1, <2>4, <3>1, <4>1, <4>2, <4>3 DEF UniqueIds
      <4> QED
        BY <4>1, <4>2, <4>4
    <3> QED
      BY <3>1 DEF UniqueIds
  <2>10. UniqueIds(R) /\ R \subseteq World \cup X
    <3>1. ASSUME NEW x \in X, NEW r \in registry
          PROVE  x.id # r.id
      <4>1. r.id \in Ids(registry) /\ r.id \notin Unused
        BY <1>1 DEF NamesAreKept, Ids
      <4> QED
        BY <2>3, <2>6, <4>1
    <3>2. Ids(registry) \cap Ids(X) = {}
      BY <3>1 DEF Ids
    <3> QED
      BY <1>1, <2>9, <3>2, Joined
  <2> HIDE DEF R
  <2> QED
    BY <1>1, <2>1, <2>7, <2>8, <2>10, MutationKeepsOrder
<1>7. CASE job[u].policy \notin {"abort", "rename"}
  <2> DEFINE kept == {r \in registry : r.id \notin C}
  <2>1. UniqueIds(kept \cup pack) /\ kept \cup pack \subseteq World
    <3>1. UniqueIds(kept)
      BY <1>1 DEF UniqueIds
    <3>2. Ids(kept) \cap Ids(pack) = {}
      BY DEF Ids, Conflicting
    <3> QED
      BY <1>1, <3>1, <3>2, Joined
  <2>2. \/ Mutated(u, kept \cup pack) /\ used' = used
        \/ Refused(u) /\ UNCHANGED used
    BY <1>7 DEF Commit
  <2> QED
    BY <1>3, <1>4, <2>1, <2>2
<1> QED
  BY <1>5, <1>6, <1>7

\* One resource takes the place of another, or comes.
LEMMA Replaced ==
    ASSUME NEW R, NEW x, UniqueIds(R)
    PROVE  UniqueIds({r \in R : r.id # x.id} \cup {x})
  BY DEF UniqueIds

LEMMA OneComes ==
    ASSUME RegistryInOrder, NEW u \in Users, NEW x, MayCome(x), NEW R, R \subseteq registry,
           UniqueIds(R \cup {x}), Mutated(u, R \cup {x}), UNCHANGED <<package, jobs>>,
           used \subseteq used', used' \subseteq FreshNames
    PROVE  RegistryInOrder'
<1>1. PICK X : X = {x}
  OBVIOUS
<1>2. (\A y \in X : MayCome(y)) /\ R \cup {x} \subseteq World \cup X
  BY <1>1, ResourceParts DEF RegistryInOrder
<1> QED
  BY <1>2, MutationKeepsOrder

LEMMA FreshNameIsNew ==
    ASSUME Unused # {}, used \subseteq FreshNames
    PROVE  FreshName \in Unused /\ used \cup {FreshName} \subseteq FreshNames
<1>1. FreshName \in Unused
  BY DEF FreshName
<1> QED
  BY <1>1 DEF Unused

LEMMA FreshIsApart ==
    ASSUME RegistryInOrder, NEW x, x.id \in Unused
    PROVE  UniqueIds(registry \cup {x})
<1>1. \A r \in registry : r.id \notin Unused
  BY ResourceParts DEF RegistryInOrder, NamesAreKept
<1> QED
  BY <1>1 DEF RegistryInOrder, IdsAreUnique, UniqueIds

LEMMA BlankFits ==
    ASSUME NEW id \in Names
    PROVE  Blank(id) \in Records /\ Blank(id).id = id /\ Blank(id).key = id
<1>1. <<>> \in Seq(Names) /\ <<id, "here">> \in Made
  BY EmptySeq DEF Made
<1> QED
  BY <1>1 DEF Blank, Records

LEMMA NamingFits ==
    ASSUME NEW id \in Names, NEW n \in Names
    PROVE  LET x == [Blank(id) EXCEPT !.refs = <<n>>]
           IN  x \in Records /\ x.id = id /\ x.key = id
<1>1. <<n>> \in Seq(Names)
  OBVIOUS
<1> QED
  BY <1>1, BlankFits DEF Records

LEMMA ResolveKeepsOrder ==
    ASSUME RegistryInOrder, NEW u \in Users, Resolve(u)
    PROVE  RegistryInOrder'
<1>1. /\ ResourcesTypeOK /\ jobs' \in 0..MaxJobs /\ UniqueIds(registry) /\ used \subseteq FreshNames
      /\ UNCHANGED <<registry, copy, package>> /\ registry \subseteq World /\ copy \subseteq World
  BY UsedKept, ResourceParts DEF RegistryInOrder, Resolve, ResourcesTypeOK, IdsAreUnique
<1>2. CASE JobEnds(u) /\ UNCHANGED used
  BY <1>1, <1>2, EndFits, NoJobFits, NothingComes
<1>3. ASSUME NEW P, P \subseteq Records, job' = [job EXCEPT ![u].at = "record", ![u].pack = P]
      PROVE  /\ job' \in [Users -> JobStates] /\ \A v \in Users \ {u} : job'[v] = job[v]
             /\ job'[u].pack = P /\ job'[u].before \subseteq World /\ job'[u].at = "record"
  <2> DEFINE k == [job[u] EXCEPT !.at = "record", !.pack = P]
  <2>1. job[u] \in JobStates /\ job[u].before \subseteq World
    BY <1>1, ResourceParts DEF ResourcesTypeOK
  <2>2. k \in JobStates /\ k.at = "record" /\ k.pack = P /\ k.before = job[u].before
    BY <1>3, <2>1 DEF JobStates, JobPlaces
  <2>3. job' = [job EXCEPT ![u] = k]
    BY <1>1, <1>3 DEF ResourcesTypeOK
  <2> HIDE DEF k
  <2> QED
    BY <1>1, <2>1, <2>2, <2>3, JobFits
<1>4. ASSUME NEW r \in package,
             job' = [job EXCEPT ![u].at = "record", ![u].pack = {r}], UNCHANGED used
      PROVE  RegistryInOrder'
  <2>1. {r} \subseteq World /\ {r} \subseteq Records
    BY <1>1, <1>4, ResourceParts
  <2>2. PICK P : P = {r}
    OBVIOUS
  <2>3. /\ job' \in [Users -> JobStates] /\ \A v \in Users \ {u} : job'[v] = job[v]
        /\ job'[u].pack = P /\ job'[u].before \subseteq World /\ job'[u].at = "record"
    BY <1>3, <1>4, <2>1, <2>2
  <2> QED
    BY <1>1, <1>4, <2>1, <2>2, <2>3, NothingComes
<1>5. ASSUME NEW r \in package, Unused # {},
             job' = [job EXCEPT ![u].at = "record",
                                ![u].pack = {[r EXCEPT !.id = FreshName, !.key = FreshName]}],
             used' = used \cup {FreshName}
      PROVE  RegistryInOrder'
  <2>1. FreshName \in Unused /\ FreshName \in Names /\ used' \subseteq FreshNames
    BY <1>1, <1>5, FreshNameIsNew, ResourcesAssumption DEF Unused
  <2>2. PICK x : x = [r EXCEPT !.id = FreshName, !.key = FreshName]
    OBVIOUS
  <2>3. r \in Records
    BY <1>1, <1>5 DEF ResourcesTypeOK
  <2>4. x \in Records /\ x.id = FreshName /\ x.key = FreshName
    BY <2>1, <2>2, <2>3 DEF Records
  <2>5. MayCome(x)
    BY <1>5, <2>1, <2>4 DEF MayCome
  <2>6. PICK P : P = {x}
    OBVIOUS
  <2>7. /\ job' \in [Users -> JobStates] /\ \A v \in Users \ {u} : job'[v] = job[v]
        /\ job'[u].pack = P /\ job'[u].before \subseteq World /\ job'[u].at = "record"
    <3>1. P \subseteq Records
      BY <2>4, <2>6
    <3>2. [job EXCEPT ![u].at = "record",
                      ![u].pack = {[r EXCEPT !.id = FreshName, !.key = FreshName]}]
          = [job EXCEPT ![u].at = "record", ![u].pack = P]
      BY <2>2, <2>6
    <3>3. job' = [job EXCEPT ![u].at = "record", ![u].pack = P]
      BY <1>5, <3>2
    <3> QED
      BY <1>3, <3>1, <3>3
  <2>8. \A y \in P : MayCome(y)
    BY <2>5, <2>6
  <2>9. /\ registry' \subseteq World \cup P /\ copy' \subseteq World \cup P /\ UniqueIds(registry')
        /\ job'[u].pack \subseteq World \cup P /\ job'[u].before \subseteq World \cup P
        /\ used \subseteq used'
    BY <1>1, <1>5, <2>7
  <2> QED
    BY <1>1, <2>1, <2>7, <2>8, <2>9, StepKeepsOrder
<1>6. CASE /\ package # NoPackage
           /\ \E r \in package :
                IF job[u].policy = "rename" /\ r.id \in Ids(copy)
                THEN /\ Unused # {}
                     /\ job' = [job EXCEPT ![u].at = "record",
                                   ![u].pack = {[r EXCEPT !.id = FreshName, !.key = FreshName]}]
                     /\ used' = used \cup {FreshName}
                ELSE /\ job' = [job EXCEPT ![u].at = "record", ![u].pack = {r}]
                     /\ UNCHANGED used
  BY <1>4, <1>5, <1>6
<1> QED
  BY <1>2, <1>6 DEF Resolve

LEMMA RecordKeepsOrder ==
    ASSUME RegistryInOrder, NEW u \in Users, Record(u)
    PROVE  RegistryInOrder'
<1>1. /\ ResourcesTypeOK /\ UniqueIds(registry) /\ used \subseteq FreshNames /\ used' = used
      /\ UNCHANGED <<package, jobs>>
  BY UsedKept DEF RegistryInOrder, Record, IdsAreUnique
<1>2. CASE Refused(u)
  BY <1>1, <1>2, RefusalKeepsOrder
<1>3. ASSUME NEW r \in job[u].pack, Mutated(u, {x \in registry : x.id # r.id} \cup {r})
      PROVE  RegistryInOrder'
  <2>1. MayCome(r)
    BY <1>1, <1>3, ResourceParts, OldMayCome
  <2>2. UniqueIds({x \in registry : x.id # r.id} \cup {r})
    BY <1>1, Replaced
  <2> QED
    BY <1>1, <1>3, <2>1, <2>2, OneComes
<1> QED
  BY <1>2, <1>3 DEF Record

LEMMA CreateKeepsOrder ==
    ASSUME RegistryInOrder, NEW u \in Users, Create(u)
    PROVE  RegistryInOrder'
<1>1. /\ used \subseteq FreshNames /\ Unused # {} /\ used' = used \cup {FreshName}
      /\ Mutated(u, registry \cup {Blank(FreshName)}) /\ UNCHANGED <<package, jobs>>
  BY UsedKept DEF Create
<1>2. FreshName \in Unused /\ FreshName \in Names /\ used' \subseteq FreshNames
  BY <1>1, FreshNameIsNew, ResourcesAssumption DEF Unused
<1>3. MayCome(Blank(FreshName)) /\ Blank(FreshName).id \in Unused
  BY <1>1, <1>2, BlankFits DEF MayCome
<1> QED
  BY <1>1, <1>2, <1>3, FreshIsApart, OneComes

LEMMA SaveKeepsOrder ==
    ASSUME RegistryInOrder, NEW u \in Users, Save(u)
    PROVE  RegistryInOrder'
<1>1. /\ ResourcesTypeOK /\ UniqueIds(registry) /\ used \subseteq FreshNames
      /\ copy \subseteq World /\ World \subseteq Records /\ UNCHANGED <<package, jobs>>
  BY UsedKept, ResourceParts DEF RegistryInOrder, Save, IdsAreUnique
<1>2. \A id \in Ids(copy) : id \in Names /\ \E w \in World : w.id = id
  BY <1>1, RecordFields DEF Ids
<1>3. ASSUME NEW n \in Ids(copy), Unused # {}, used' = used \cup {FreshName},
             Mutated(u, registry \cup {[Blank(FreshName) EXCEPT !.refs = <<n>>]})
      PROVE  RegistryInOrder'
  <2>1. FreshName \in Unused /\ FreshName \in Names /\ used' \subseteq FreshNames
    BY <1>1, <1>3, FreshNameIsNew, ResourcesAssumption DEF Unused
  <2>2. PICK x : x = [Blank(FreshName) EXCEPT !.refs = <<n>>]
    OBVIOUS
  <2>3. x \in Records /\ x.id = FreshName /\ x.key = FreshName
    BY <1>2, <2>1, <2>2, NamingFits
  <2>4. MayCome(x) /\ x.id \in Unused
    BY <1>3, <2>1, <2>3 DEF MayCome
  <2>5. Mutated(u, registry \cup {x}) /\ used \subseteq used'
    BY <1>3, <2>2
  <2> QED
    BY <1>1, <2>1, <2>4, <2>5, FreshIsApart, OneComes
<1>4. ASSUME NEW n \in Ids(copy), NEW id \in Ids(copy), used' = used,
             Mutated(u, {r \in registry : r.id # id} \cup {[Blank(id) EXCEPT !.refs = <<n>>]})
      PROVE  RegistryInOrder'
  <2>1. PICK x : x = [Blank(id) EXCEPT !.refs = <<n>>]
    OBVIOUS
  <2>2. x \in Records /\ x.id = id /\ x.key = id
    BY <1>2, <2>1, NamingFits
  <2>3. MayCome(x)
    BY <1>2, <2>2 DEF MayCome
  <2>4. Mutated(u, {r \in registry : r.id # x.id} \cup {x})
    BY <1>4, <2>1, <2>2
  <2>5. UniqueIds({r \in registry : r.id # x.id} \cup {x})
    BY <1>1, Replaced
  <2> QED
    BY <1>1, <1>4, <2>3, <2>4, <2>5, OneComes
<1>5. ASSUME Refused(u), used' = used
      PROVE  RegistryInOrder'
  BY <1>1, <1>5, RefusalKeepsOrder
<1> QED
  BY <1>3, <1>4, <1>5 DEF Save

LEMMA DeleteKeepsOrder ==
    ASSUME RegistryInOrder, NEW u \in Users, Delete(u)
    PROVE  RegistryInOrder'
<1>1. /\ ResourcesTypeOK /\ UniqueIds(registry) /\ used \subseteq FreshNames /\ used' = used
      /\ UNCHANGED <<package, jobs>> /\ registry \subseteq World
  BY UsedKept, ResourceParts DEF RegistryInOrder, Delete, IdsAreUnique
<1>2. CASE Refused(u)
  BY <1>1, <1>2, RefusalKeepsOrder
<1>3. ASSUME NEW r \in registry, Mutated(u, registry \ {r})
      PROVE  RegistryInOrder'
  <2>1. UniqueIds(registry \ {r}) /\ registry \ {r} \subseteq World \cup World
    BY <1>1 DEF UniqueIds
  <2>2. \A x \in World : MayCome(x)
    BY <1>1, OldMayCome
  <2> QED
    BY <1>1, <1>3, <2>1, <2>2, MutationKeepsOrder
<1> QED
  BY <1>2, <1>3 DEF Delete

LEMMA EnableKeepsOrder ==
    ASSUME RegistryInOrder, NEW u \in Users, Enable(u)
    PROVE  RegistryInOrder'
<1>1. /\ ResourcesTypeOK /\ UniqueIds(registry) /\ used \subseteq FreshNames /\ used' = used
      /\ UNCHANGED <<package, jobs>> /\ registry \subseteq World /\ World \subseteq Records
  BY UsedKept, ResourceParts DEF RegistryInOrder, Enable, IdsAreUnique
<1>2. CASE Refused(u)
  BY <1>1, <1>2, RefusalKeepsOrder
<1>3. ASSUME NEW r \in registry,
             Mutated(u, (registry \ {r}) \cup {[r EXCEPT !.enabled = ~@]})
      PROVE  RegistryInOrder'
  <2>1. PICK x : x = [r EXCEPT !.enabled = ~r.enabled]
    OBVIOUS
  <2>2. r \in Records
    BY <1>1
  <2>3. x \in Records /\ x.id = r.id /\ x.key = r.key
    BY <2>1, <2>2 DEF Records
  <2>4. MayCome(x)
    BY <1>1, <2>3 DEF MayCome
  <2>5. UniqueIds((registry \ {r}) \cup {x})
    BY <1>1, <2>3 DEF UniqueIds
  <2>6. Mutated(u, (registry \ {r}) \cup {x}) /\ registry \ {r} \subseteq registry
    BY <1>3, <2>1
  <2> QED
    BY <1>1, <2>4, <2>5, <2>6, OneComes
<1> QED
  BY <1>2, <1>3 DEF Enable

LEMMA ResourcesStay == RegistryInOrder /\ [ResourcesNext]_resVars => RegistryInOrder'
<1> SUFFICES ASSUME RegistryInOrder, [ResourcesNext]_resVars PROVE RegistryInOrder'
  OBVIOUS
<1>1. CASE UNCHANGED resVars
  BY <1>1 DEF resVars, RegistryInOrder, ResourcesTypeOK, NamesAreKept, IdsAreUnique, World, Unused
<1>2. CASE ResourcesNext
  BY <1>2, AskKeepsOrder, OpenKeepsOrder, StageKeepsOrder, UnstageKeepsOrder, RereadKeepsOrder,
     CommitKeepsOrder, ResolveKeepsOrder, RecordKeepsOrder, ExportKeepsOrder, CreateKeepsOrder,
     SaveKeepsOrder, DeleteKeepsOrder, EnableKeepsOrder DEF ResourcesNext
<1> QED
  BY <1>1, <1>2

LEMMA ResourcesRest == ResourcesSpec => []RegistryInOrder
  BY ResourcesStart, ResourcesStay, PTL DEF ResourcesSpec

-----------------------------------------------------------------------------
(* What an import means.                                                   *)

LEMMA NamedOnce ==
    ASSUME NEW R, NEW S, OneMeaning(R), S \subseteq R, NEW x \in R, NEW y \in S, NEW n,
           CalledBy(x, n), CalledBy(y, n)
    PROVE  x.id = y.id
<1>1. {x.id, x.key} \cap {y.id, y.key} # {}
  BY DEF CalledBy
<1> QED
  BY <1>1 DEF OneMeaning

\* Resources that have no id in common give every name its meaning together.
LEMMA ApartMeansSame ==
    ASSUME NEW R, NEW P, OneMeaning(R \cup P), Ids(R) \cap Ids(P) = {}, NEW n, Meant(P, n) # {}
    PROVE  Meant(R \cup P, n) = Meant(P, n)
<1>1. PICK y \in P : CalledBy(y, n)
  BY DEF Meant
<1>2. ASSUME NEW x \in R, CalledBy(x, n)
      PROVE  FALSE
  <2>1. x.id = y.id
    BY <1>1, <1>2, NamedOnce
  <2> QED
    BY <1>1, <1>2, <2>1 DEF Ids
<1> QED
  BY <1>2 DEF Meant

LEMMA MeansTheSame ==
    ASSUME NEW R, NEW S, NEW n, Meant(R, n) = Meant(S, n)
    PROVE  Contained(R, n) = Contained(S, n)
  BY DEF Contained

\* In R what was imported from P names what it named there, and what was kept
\* of K what it named in K.
MeansAs(P, K, R) ==
    /\ \A r \in P : \E c \in R :
          /\ c.made = r.made
          /\ \A i \in DOMAIN r.refs :
                Meant(P, r.refs[i]) # {} => Contained(R, c.refs[i]) = Contained(P, r.refs[i])
    /\ \A r \in K : r \in R /\ \A n \in NamesOf(r) :
          Meant(K, n) # {} => Contained(R, n) = Contained(K, n)

\* What is kept and what is imported, without an id in common.
LEMMA PlainImport ==
    ASSUME NEW K, NEW P, OneMeaning(K \cup P), Ids(K) \cap Ids(P) = {}
    PROVE  MeansAs(P, K, K \cup P)
<1>1. ASSUME NEW n, Meant(P, n) # {}
      PROVE  Contained(K \cup P, n) = Contained(P, n)
  BY <1>1, ApartMeansSame, MeansTheSame
<1>2. ASSUME NEW n, Meant(K, n) # {}
      PROVE  Contained(K \cup P, n) = Contained(K, n)
  <2>1. OneMeaning(P \cup K) /\ Ids(P) \cap Ids(K) = {} /\ P \cup K = K \cup P
    BY DEF OneMeaning
  <2>2. Meant(P \cup K, n) = Meant(K, n)
    BY <1>2, <2>1, ApartMeansSame
  <2> QED
    BY <2>1, <2>2, MeansTheSame
<1> QED
  BY <1>1, <1>2 DEF MeansAs

\* The import that renames.
LEMMA RenamingImport ==
    ASSUME NEW pack, Importing(pack)
    PROVE  MeansAs(pack, registry, registry \cup {Renamed(r, Renamings(pack)) : r \in pack})
<1> DEFINE to == Renamings(pack)
           C == Conflicting(pack)
           X == {Renamed(r, to) : r \in pack}
           R == registry \cup X
<1>1. /\ OneMeaning(World) /\ pack \subseteq World /\ registry \subseteq World /\ UniqueIds(pack)
      /\ \A w \in World : w.id \notin Unused /\ w.key \notin Unused
  BY ResourceParts DEF Importing, RegistryInOrder, NamesAreKept
<1>2. ASSUME NEW x \in X
      PROVE  \E r \in pack :
              /\ x = Renamed(r, to) /\ x \in Records
              /\ \/ r.id \in C /\ x.id \in Unused /\ x.key = x.id
                    /\ x.id = to[r.id] /\ r.id \in DOMAIN to
                 \/ r.id \notin C /\ x.id = r.id /\ x.key = r.key
  BY <1>2, RenamedOnes
<1>3. ASSUME NEW r \in pack
      PROVE  /\ Renamed(r, to).made = r.made
             /\ \A i \in DOMAIN r.refs : Renamed(r, to).refs[i] =
                   IF r.refs[i] \in DOMAIN to THEN to[r.refs[i]] ELSE r.refs[i]
             /\ r.id \in C => Renamed(r, to).id = to[r.id] /\ Renamed(r, to).key = to[r.id]
             /\ r.id \notin C => Renamed(r, to).id = r.id /\ Renamed(r, to).key = r.key
  BY <1>3, RenamedFields
<1>4. /\ \A n \in DOMAIN to : to[n] \in Unused
      /\ \A n \in DOMAIN to : \E r \in pack : r.id \in C /\ CalledBy(r, n)
      /\ \A r \in pack : r.id \in C => r.id \in DOMAIN to /\ r.key \in DOMAIN to /\ to[r.key] = to[r.id]
      /\ \A r, s \in pack : r.id \in C /\ s.id \in C /\ to[r.id] = to[s.id] => r = s
  BY RenamingsGive
<1>5. \A r \in pack : r.id \in C <=> \E s \in registry : s.id = r.id
  BY DEF Conflicting, Ids
<1>6. \A r \in pack : Renamed(r, to) \in X
  OBVIOUS
<1> HIDE DEF to, C, X
\* A name that the renaming gives means the one that got it.
<1>7. ASSUME NEW h \in pack, h.id \in C
      PROVE  Meant(R, to[h.id]) = {Renamed(h, to)}
  <2>1. to[h.id] \in Unused
    BY <1>4, <1>7
  <2>2. ASSUME NEW x \in registry
        PROVE  ~CalledBy(x, to[h.id])
    BY <1>1, <2>1 DEF CalledBy
  <2>3. ASSUME NEW x \in X, CalledBy(x, to[h.id])
        PROVE  x = Renamed(h, to)
    <3>1. PICK r \in pack :
              /\ x = Renamed(r, to)
              /\ \/ r.id \in C /\ x.key = x.id /\ x.id = to[r.id]
                 \/ r.id \notin C /\ x.id = r.id /\ x.key = r.key
      BY <1>2
    <3>2. r.id \in C
      BY <1>1, <2>1, <2>3, <3>1 DEF CalledBy
    <3> QED
      BY <1>4, <1>7, <2>3, <3>1, <3>2 DEF CalledBy
  <2>4. CalledBy(Renamed(h, to), to[h.id]) /\ Renamed(h, to) \in R
    BY <1>3, <1>6, <1>7 DEF CalledBy
  <2> QED
    BY <2>2, <2>3, <2>4 DEF Meant
\* A name it does not give means what it meant.
<1>8. ASSUME NEW n, n \notin DOMAIN to, n \notin Unused
      PROVE  Contained(R, n) = Contained(registry \cup pack, n)
  <2>1. ASSUME NEW x \in X, CalledBy(x, n)
        PROVE  \E r \in pack : CalledBy(r, n) /\ r.made = x.made
    <3>1. PICK r \in pack :
              /\ x = Renamed(r, to)
              /\ \/ r.id \in C /\ x.id \in Unused /\ x.key = x.id
                 \/ r.id \notin C /\ x.id = r.id /\ x.key = r.key
      BY <1>2
    <3> QED
      BY <1>3, <1>8, <2>1, <3>1 DEF CalledBy
  <2>2. ASSUME NEW r \in pack, CalledBy(r, n)
        PROVE  Renamed(r, to) \in X /\ CalledBy(Renamed(r, to), n) /\ Renamed(r, to).made = r.made
    <3>1. r.id \notin C
      BY <1>4, <1>8, <2>2 DEF CalledBy
    <3> QED
      BY <1>3, <1>6, <2>2, <3>1 DEF CalledBy
  <2>3. Contained(R, n) \subseteq Contained(registry \cup pack, n)
    BY <2>1 DEF Contained, Meant
  <2>4. Contained(registry \cup pack, n) \subseteq Contained(R, n)
    BY <2>2 DEF Contained, Meant
  <2> QED
    BY <2>3, <2>4
<1>9. ASSUME NEW n, NEW r \in pack, CalledBy(r, n), r.id \notin C
      PROVE  Contained(registry \cup pack, n) = Contained(pack, n)
  <2>1. ASSUME NEW x \in registry
        PROVE  ~CalledBy(x, n)
    BY <1>1, <1>5, <1>9, NamedOnce
  <2> QED
    BY <2>1 DEF Contained, Meant
<1>10. ASSUME NEW r \in pack, NEW i \in DOMAIN r.refs, Meant(pack, r.refs[i]) # {}
       PROVE  Contained(R, Renamed(r, to).refs[i]) = Contained(pack, r.refs[i])
  <2> DEFINE n == r.refs[i]
  <2>1. CASE n \in DOMAIN to
    <3>1. PICK h \in pack : h.id \in C /\ CalledBy(h, n)
      BY <1>4, <2>1
    <3>2. to[n] = to[h.id]
      BY <1>4, <3>1 DEF CalledBy
    <3>3. \A x \in pack : CalledBy(x, n) => x = h
      BY <1>1, <3>1, NamedOnce DEF UniqueIds
    <3>4. Contained(pack, n) = {h.made}
      BY <3>1, <3>3 DEF Contained, Meant
    <3>5. Contained(R, to[n]) = {h.made}
      BY <1>3, <1>7, <3>1, <3>2, SMTT(30) DEF Contained
    <3> QED
      BY <1>3, <2>1, <3>4, <3>5
  <2>2. CASE n \notin DOMAIN to
    <3>1. PICK x \in pack : CalledBy(x, n)
      BY <1>10 DEF Meant
    <3>2. x.id \notin C /\ n \notin Unused
      BY <1>1, <1>4, <2>2, <3>1 DEF CalledBy
    <3>3. Contained(R, n) = Contained(pack, n)
      BY <1>8, <1>9, <2>2, <3>1, <3>2
    <3> QED
      BY <1>3, <2>2, <3>3
  <2> QED
    BY <2>1, <2>2
<1>11. ASSUME NEW r \in registry, NEW n \in NamesOf(r), Meant(registry, n) # {}
       PROVE  Contained(R, n) = Contained(registry, n)
  <2>1. PICK x \in registry : CalledBy(x, n)
    BY <1>11 DEF Meant
  <2>2. n \notin Unused
    BY <1>1, <2>1 DEF CalledBy
  <2>3. ASSUME NEW y \in X, CalledBy(y, n)
        PROVE  FALSE
    <3>1. PICK s \in pack :
              \/ s.id \in C /\ y.id \in Unused /\ y.key = y.id
              \/ s.id \notin C /\ y.id = s.id /\ y.key = s.key
      BY <1>2
    <3>2. s.id \notin C /\ CalledBy(s, n)
      BY <2>2, <2>3, <3>1 DEF CalledBy
    <3>3. s.id = x.id
      BY <1>1, <2>1, <3>2, NamedOnce
    <3> QED
      BY <1>5, <2>1, <3>2, <3>3
  <2> QED
    BY <2>3 DEF Contained, Meant
<1>12. \A r \in pack : \E c \in R :
          /\ c.made = r.made
          /\ \A i \in DOMAIN r.refs :
                Meant(pack, r.refs[i]) # {} => Contained(R, c.refs[i]) = Contained(pack, r.refs[i])
  BY <1>3, <1>6, <1>10
<1> HIDE DEF R
<1>13. \A r \in registry : r \in R /\ \A n \in NamesOf(r) :
          Meant(registry, n) # {} => Contained(R, n) = Contained(registry, n)
  BY <1>11 DEF R
<1> QED
  BY <1>12, <1>13 DEF MeansAs, R, X, to

\* What the resources of an import, and those it leaves, must name afterwards.
KeptResources(u) ==
    IF job[u].policy = "replace"
    THEN {r \in registry : r.id \notin Conflicting(job[u].pack)} ELSE registry
MeansAsBefore(u) == MeansAs(job[u].pack, KeptResources(u), registry')

LEMMA ImportMeans ==
    ASSUME RegistryInOrder, NEW u \in Users, Commit(u), registry' # registry
    PROVE  MeansAsBefore(u)
<1> DEFINE pack == job[u].pack
           C == Conflicting(pack)
<1>1. /\ OneMeaning(World) /\ registry \subseteq World /\ pack \subseteq World /\ UniqueIds(pack)
      /\ job[u].policy \in Policies
  BY ResourceParts DEF RegistryInOrder, NamesAreKept, Commit, AtPlace, ResourcesTypeOK, JobStates
<1>2. ~Refused(u)
  BY DEF Refused
<1>3. \A R : R \subseteq World => OneMeaning(R)
  BY <1>1 DEF OneMeaning
<1>4. CASE job[u].policy = "abort"
  <2>1. C = {} /\ registry' = registry \cup pack /\ KeptResources(u) = registry
    BY <1>2, <1>4 DEF Commit, Mutated, KeptResources
  <2>2. OneMeaning(registry \cup pack) /\ Ids(registry) \cap Ids(pack) = {}
    BY <1>1, <1>3, <2>1 DEF Conflicting
  <2> QED
    BY <2>1, <2>2, PlainImport DEF MeansAsBefore
<1>5. CASE job[u].policy = "rename"
  <2>1. /\ FreshFor(C) # {} /\ KeptResources(u) = registry
        /\ registry' = registry \cup {Renamed(r, Renamings(pack)) : r \in pack}
    BY <1>5 DEF Commit, Mutated, KeptResources
  <2>2. Importing(pack)
    BY <1>1, <2>1 DEF Importing
  <2> QED
    BY <2>1, <2>2, RenamingImport DEF MeansAsBefore
<1>6. CASE job[u].policy = "replace"
  <2>1. registry' = KeptResources(u) \cup pack /\ KeptResources(u) = {r \in registry : r.id \notin C}
    BY <1>2, <1>6 DEF Commit, Mutated, KeptResources
  <2>2. OneMeaning(KeptResources(u) \cup pack) /\ Ids(KeptResources(u)) \cap Ids(pack) = {}
    BY <1>1, <1>3, <2>1 DEF Conflicting, Ids
  <2> QED
    BY <2>1, <2>2, PlainImport DEF MeansAsBefore
<1> QED
  BY <1>1, <1>4, <1>5, <1>6 DEF Policies

\* THEOREM.  After an import the graphs of the package name what they named in
\* it, those of the project what they named there, and no id is given twice
\* (ImportsKeepReferences), for any users, registries, packages and requests.
THEOREM ReferencesAreKept == ResourcesSpec => ImportsKeepReferences
<1> DEFINE Means(u) ==
      LET pack == job[u].pack
          kept == IF job[u].policy = "replace"
                  THEN {r \in registry : r.id \notin Conflicting(pack)} ELSE registry
      IN  Commit(u) /\ registry' # registry
          => /\ \A r \in pack : \E c \in registry' :
                   /\ c.made = r.made
                   /\ \A i \in DOMAIN r.refs :
                         Meant(pack, r.refs[i]) # {} =>
                             Contained(registry', c.refs[i]) = Contained(pack, r.refs[i])
             /\ \A r \in kept : r \in registry' /\ \A n \in NamesOf(r) :
                   Meant(kept, n) # {} => Contained(registry', n) = Contained(kept, n)
<1>1. ASSUME RegistryInOrder, NEW u \in Users
      PROVE  Means(u)
  BY <1>1, ImportMeans DEF MeansAsBefore, MeansAs, KeptResources
<1>2. RegistryInOrder => IdsAreUnique
  BY DEF RegistryInOrder
<1>3. RegistryInOrder /\ [ResourcesNext]_resVars => [\A u \in Users : Means(u)]_resVars
  BY <1>1
<1> QED
  BY <1>2, <1>3, ResourcesRest, PTL DEF ResourcesSpec, ImportsKeepReferences

\* THEOREM.  The registry, the shared copy, the package file and the requests
\* keep their types.
THEOREM ResourcesTypeSafe == ResourcesSpec => []ResourcesTypeOK
<1>1. RegistryInOrder => ResourcesTypeOK
  BY DEF RegistryInOrder
<1> QED
  BY <1>1, ResourcesRest, PTL
===========================================================================
