------------------------------ MODULE Resources ------------------------------
(***************************************************************************)
(* The custom node graphs of a project: the registry in the workspace      *)
(* state, and the requests of compilation_workbench_service.py that        *)
(* create, save, delete, export and import them.  A graph names others by  *)
(* their id or key, so an import under the policy "rename" gives new ids   *)
(* and rewrites the names in what it imports.  The registry in the store   *)
(* changes in one step (mutate); the copy of the state that all threads of *)
(* the service share is replaced by every request that begins, and the     *)
(* preflight of an import puts the resources of the package into it while  *)
(* it validates them.                                                      *)
(*                                                                         *)
(* Graphs are the names they hold; display names, tags and schemas other   *)
(* than their equality are left out, and so are the revision and the dirty *)
(* flag that every change sets.                                            *)
(***************************************************************************)
EXTENDS Naturals, Sequences

CONSTANTS
    Users,          \* the threads of the API, one request each at a time
    Names,          \* ids and keys
    FreshNames,     \* of these the ones the service makes (uuid)
    Registries,     \* the registries a project begins with
    Packages,       \* the files of other projects, as sets of resources
    MaxJobs         \* bound: requests

\* Made distinguishes the contents of resources; a copy has that of its model.
Made == Names \X {"here", "there"}
NoPackage == {}     \* there is no file: a package holds its root
Records ==
    [id : Names, key : Names, enabled : BOOLEAN, refs : Seq(Names), made : Made]
UniqueIds(R) == \A r, s \in R : r.id = s.id => r = s
\* No name means two resources of R that are not versions of one.
OneMeaning(R) == \A r, s \in R : {r.id, r.key} \cap {s.id, s.key} # {} => r.id = s.id

\* What the service makes has its id as its key; a file from elsewhere may
\* give another key, but not one that is the name of another resource.
ASSUME ResourcesAssumption ==
    /\ FreshNames \subseteq Names /\ MaxJobs \in Nat
    /\ \A R \in Registries \cup Packages :
          /\ R \subseteq Records /\ UniqueIds(R)
          /\ \A r \in R : r.id \notin FreshNames /\ r.key \notin FreshNames
    /\ \A R \in Registries, P \in Packages \cup {NoPackage} : OneMeaning(R \cup P)

VARIABLES
    registry,   \* the resources in the store
    copy,       \* the resources in the state that the threads share
    package,    \* the package file
    job,        \* the requests
    used,       \* the ids that were made
    jobs

resVars == <<registry, copy, package, job, used, jobs>>

Policies == {"abort", "rename", "replace"}
NoJob == [at |-> "rest", kind |-> "none", policy |-> "abort", pack |-> {}, before |-> {}]
JobPlaces == {"rest", "open", "stage", "staged", "reread", "commit", "resolve", "record",
              "build", "change"}
JobKinds == {"commit", "preflight", "record", "export", "create", "save", "delete", "enable"}
JobStates ==
    [at : JobPlaces, kind : JobKinds \cup {"none"}, policy : Policies,
     pack : SUBSET Records, before : SUBSET Records]

ResourcesInit ==
    /\ registry \in Registries /\ copy = registry
    /\ package \in Packages \cup {NoPackage}
    /\ job = [u \in Users |-> NoJob]
    /\ used = {} /\ jobs = 0

-----------------------------------------------------------------------------
(* What the requests share.                                                *)

Ids(R) == {r.id : r \in R}
CalledBy(r, n) == n \in {r.id, r.key}
\* _resolve_runtime_node_resource: the resources a name may mean.
Meant(R, n) == {r \in R : CalledBy(r, n)}
Contained(R, n) == {r.made : r \in Meant(R, n)}
NamesOf(r) == {r.refs[i] : i \in DOMAIN r.refs}

AtPlace(u, place) == job[u].at = place
JobGoes(u, place) == job' = [job EXCEPT ![u].at = place]
JobEnds(u) == job' = [job EXCEPT ![u] = NoJob]
\* WorkspaceStateStore.mutate, and the copy that takes its result.
Mutated(u, R) == registry' = R /\ copy' = R /\ JobEnds(u)
Refused(u) == UNCHANGED <<registry, copy>> /\ JobEnds(u)

\* Names that were never given, one for each of a set; there are enough.
Unused == FreshNames \ used
FreshFor(S) == {g \in [S -> Unused] : \A m, n \in S : g[m] = g[n] => m = n}
FreshName == CHOOSE n \in Unused : TRUE

\* Every request begins with _refresh_state_from_store.
FirstPlace(kind) ==
    CASE kind \in {"commit", "preflight"} -> "open"
      [] kind = "record" -> "resolve"
      [] kind = "export" -> "build"
      [] OTHER -> "change"

Ask(u) ==
    \E kind \in JobKinds, policy \in Policies :
        /\ AtPlace(u, "rest") /\ jobs < MaxJobs /\ jobs' = jobs + 1
        /\ kind \notin {"commit", "record"} => policy = "abort"
        /\ kind = "record" => policy \in {"rename", "replace"}
        /\ copy' = registry
        /\ job' = [job EXCEPT ![u] = [NoJob EXCEPT !.at = FirstPlace(kind), !.kind = kind,
                                                   !.policy = policy]]
        /\ UNCHANGED <<registry, package, used>>

-----------------------------------------------------------------------------
(* The import of a package: preflight and commit.                          *)

\* The archive is read and checked; it may not be one, or be too new.
Open(u) ==
    /\ AtPlace(u, "open")
    /\ \/ /\ package # NoPackage
          /\ job' = [job EXCEPT ![u].at = "stage", ![u].pack = package]
       \/ JobEnds(u)
    /\ UNCHANGED <<registry, copy, package, used, jobs>>

\* For the validation the shared copy holds the package's resources too.
Stage(u) ==
    /\ AtPlace(u, "stage")
    /\ job' = [job EXCEPT ![u].at = "staged", ![u].before = copy]
    /\ copy' = copy \cup job[u].pack
    /\ UNCHANGED <<registry, package, used, jobs>>

\* What was there is put back, into the copy of this moment, and compared.
\* Only the policy abort asks whether there were conflicts or errors.
Unstage(u) ==
    /\ AtPlace(u, "staged")
    /\ copy' = job[u].before
    /\ LET conflict == Ids(copy') \cap Ids(job[u].pack) # {}
       IN  \/ /\ job[u].kind = "commit" /\ (job[u].policy # "abort" \/ ~conflict)
              /\ JobGoes(u, "reread")
           \/ /\ job[u].kind = "preflight" \/ job[u].policy = "abort"
              /\ JobEnds(u)
    /\ UNCHANGED <<registry, package, used, jobs>>

\* The commit reads the file again.
Reread(u) ==
    /\ AtPlace(u, "reread")
    /\ job' = [job EXCEPT ![u].at = "commit", ![u].pack = package]
    /\ UNCHANGED <<registry, copy, package, used, jobs>>

\* Renamed resources are called by their new id, also in the package's graphs.
Conflicting(pack) == Ids(registry) \cap Ids(pack)
Renamings(pack) ==
    LET C == Conflicting(pack)
        given == CHOOSE g \in FreshFor(C) : TRUE
        held == {r \in pack : r.id \in C}
    IN  [n \in UNION {{r.id, r.key} : r \in held} |->
            given[(CHOOSE r \in held : CalledBy(r, n)).id]]
\* BUG PATTERN: only the ids of renamed resources are rewritten.
FaultyRenamed(r, to) ==
    LET other(n) == IF n \in DOMAIN to THEN to[n] ELSE n
    IN  [r EXCEPT !.id = other(@), !.key = IF r.id \in DOMAIN to THEN to[r.id] ELSE @]

Renamed(r, to) ==
    LET other(n) == IF n \in DOMAIN to THEN to[n] ELSE n
    IN  [r EXCEPT !.id = other(@), !.key = IF r.id \in DOMAIN to THEN to[r.id] ELSE @,
                  !.refs = [i \in DOMAIN @ |-> other(@[i])]]

\* The mutation of commit_subgraph_asset_import; a replacement needs equal
\* schemas, which it may not have.
Commit(u) ==
    /\ AtPlace(u, "commit")
    /\ LET pack == job[u].pack
           conflict == Conflicting(pack)
           to == Renamings(pack)
       IN  CASE job[u].policy = "abort" ->
                    /\ IF conflict = {} THEN Mutated(u, registry \cup pack) ELSE Refused(u)
                    /\ UNCHANGED used
             [] job[u].policy = "rename" ->
                    /\ FreshFor(conflict) # {}
                    /\ Mutated(u, registry \cup {Renamed(r, to) : r \in pack})
                    /\ used' = used \cup {to[n] : n \in DOMAIN to}
             [] OTHER ->
                    /\ \/ Mutated(u, {r \in registry : r.id \notin conflict} \cup pack)
                       \/ conflict # {} /\ Refused(u)
                    /\ UNCHANGED used
    /\ UNCHANGED <<package, jobs>>

-----------------------------------------------------------------------------
(* The import of one resource.                                             *)

\* _resolve_imported_custom_node_graph_conflict, by the shared copy; a plain
\* import of a resource that may replace resolves nothing.
Resolve(u) ==
    /\ AtPlace(u, "resolve")
    /\ \/ /\ package # NoPackage
          /\ \E r \in package :
                IF job[u].policy = "rename" /\ r.id \in Ids(copy)
                THEN /\ Unused # {}
                     /\ job' = [job EXCEPT ![u].at = "record",
                                   ![u].pack = {[r EXCEPT !.id = FreshName, !.key = FreshName]}]
                     /\ used' = used \cup {FreshName}
                ELSE /\ job' = [job EXCEPT ![u].at = "record", ![u].pack = {r}]
                     /\ UNCHANGED used
       \/ JobEnds(u) /\ UNCHANGED used
    /\ UNCHANGED <<registry, copy, package, jobs>>

\* The mutation of import_resource and import_resource_from_record.
Record(u) ==
    /\ AtPlace(u, "record")
    /\ \E r \in job[u].pack :
          IF r.id \in Ids(registry) /\ job[u].policy # "replace" THEN Refused(u)
          ELSE Mutated(u, {x \in registry : x.id # r.id} \cup {r})
    /\ UNCHANGED <<package, used, jobs>>

-----------------------------------------------------------------------------
(* Export and changes.                                                     *)

\* A resource with those it names, and those these name.
Complete(S, root) ==
    /\ root \in S /\ \A r \in S : r.enabled
    /\ \A r \in S : \A n \in NamesOf(r) : Meant(S, n) # {}
    /\ UniqueIds(S)
PackagesOf(root) ==
    LET complete == {S \in SUBSET copy : Complete(S, root)}
    IN  {S \in complete : \A T \in complete : ~(T \subseteq S /\ T # S)}

Export(u) ==
    /\ AtPlace(u, "build")
    /\ \/ \E root \in copy : package' \in PackagesOf(root)
       \/ UNCHANGED package
    /\ JobEnds(u)
    /\ UNCHANGED <<registry, copy, used, jobs>>

Blank(id) == [id |-> id, key |-> id, enabled |-> TRUE, refs |-> <<>>, made |-> <<id, "here">>]
Create(u) ==
    /\ AtPlace(u, "change") /\ job[u].kind = "create" /\ Unused # {}
    /\ Mutated(u, registry \cup {Blank(FreshName)})
    /\ used' = used \cup {FreshName}
    /\ UNCHANGED <<package, jobs>>

\* _save_graph_backed_resource: the graph of the workspace, here one that
\* names a resource, becomes a new resource or takes the place of one.
Save(u) ==
    /\ AtPlace(u, "change") /\ job[u].kind = "save"
    /\ \E n \in Ids(copy) :
          \/ /\ Unused # {}
             /\ Mutated(u, registry \cup {[Blank(FreshName) EXCEPT !.refs = <<n>>]})
             /\ used' = used \cup {FreshName}
          \/ \E id \in Ids(copy) :
                /\ IF id \in Ids(registry)
                   THEN Mutated(u, {r \in registry : r.id # id} \cup
                                   {[Blank(id) EXCEPT !.refs = <<n>>]})
                   ELSE Refused(u)
                /\ UNCHANGED used
    /\ UNCHANGED <<package, jobs>>

\* What is named in other graphs is deleted all the same.
Delete(u) ==
    /\ AtPlace(u, "change") /\ job[u].kind = "delete"
    /\ \/ \E r \in registry : Mutated(u, registry \ {r})
       \/ registry = {} /\ Refused(u)
    /\ UNCHANGED <<package, used, jobs>>

Enable(u) ==
    /\ AtPlace(u, "change") /\ job[u].kind = "enable"
    /\ \/ \E r \in registry :
              Mutated(u, (registry \ {r}) \cup {[r EXCEPT !.enabled = ~@]})
       \/ registry = {} /\ Refused(u)
    /\ UNCHANGED <<package, used, jobs>>

ResourcesNext ==
    \E u \in Users :
        \/ Ask(u) \/ Open(u) \/ Stage(u) \/ Unstage(u) \/ Reread(u) \/ Commit(u)
        \/ Resolve(u) \/ Record(u) \/ Export(u)
        \/ Create(u) \/ Save(u) \/ Delete(u) \/ Enable(u)

ResourcesSpec == ResourcesInit /\ [][ResourcesNext]_resVars

-----------------------------------------------------------------------------
(* Properties.                                                             *)

ResourcesTypeOK ==
    /\ registry \subseteq Records /\ copy \subseteq Records
    /\ package \subseteq Records
    /\ job \in [Users -> JobStates]
    /\ used \subseteq FreshNames /\ jobs \in 0..MaxJobs

\* No two resources have the same id.
IdsAreUnique == UniqueIds(registry)

\* After the import of a package every graph of it names the resources it
\* named in the package, under whatever ids they have got, and the graphs
\* that were in the project before name what they named, unless the user
\* replaced that.  Two resources of the project never have the same id, although imports
\* compare ids with a copy that other requests change, and read the package
\* file a second time after they have compared it.
ImportsKeepReferences ==
    /\ []IdsAreUnique
    /\ [][\A u \in Users :
         LET pack == job[u].pack
             kept == IF job[u].policy = "replace"
                     THEN {r \in registry : r.id \notin Conflicting(pack)} ELSE registry
         IN  Commit(u) /\ registry' # registry
             => /\ \A r \in pack : \E c \in registry' :
                      /\ c.made = r.made
                      /\ \A i \in DOMAIN r.refs :
                            Meant(pack, r.refs[i]) # {} =>
                                Contained(registry', c.refs[i]) = Contained(pack, r.refs[i])
                /\ \A r \in kept : r \in registry' /\ \A n \in NamesOf(r) :
                      Meant(kept, n) # {} => Contained(registry', n) = Contained(kept, n)
      ]_resVars
==============================================================================
