-------------------------- MODULE GraphCompilation --------------------------
(* The requests that read, check, patch, save and compile the graph        *)
(* document of a workspace, and those that change the resources it refers  *)
(* to. What they keep is in the store, behind WorkspaceStateStore.mutate,  *)
(* and in mem, self._state, the copy that all request threads share. A     *)
(* request is a program of steps; between two steps another thread runs.   *)
(* compilation_workbench_service.py: get_graph_document,                   *)
(* preview_graph_patch, apply_graph_patch, save_graph_document,            *)
(* compile_graph_document, compile_source, _prepare_execution and          *)
(* set_resource_enabled, with the rules of GraphRules.                     *)
(*                                                                         *)
(* The workspace has one component graph whose fields an edit may change;  *)
(* project files, packages and debug sessions are left out here.           *)
EXTENDS GraphRules

CONSTANTS
    Clients,
    Workspaces,    \* [graph, rev, res]: what a workspace holds when it is opened
    Requests,      \* [ask, doc, ops, strict]: what clients ask for
    ComponentKey,  \* the key of the component graph
    Redrawn,       \* the fields its graph may be given
    MaxHistory,    \* MAX_COMPILE_HISTORY
    MaxTurns,   \* bound: the requests
    NoDocument     \* what a request without a document carries

GraphAsks == {"load", "preview", "apply", "save", "compile", "compile_document",
              "prepare", "prepare_document", "source", "toggle", "redraw"}

ASSUME GraphAssumption ==
    /\ MaxHistory \in Nat \ {0} /\ MaxTurns \in Nat
    /\ \A r \in Requests : r.ask \in GraphAsks
    /\ \A w \in Workspaces : w.rev \in Nat

VARIABLES
    gStore, gMem,
    thread,        \* of each client: the rest of its request and what it holds
    asked,         \* the number of requests so far
    crossed        \* history: two requests were under way at once

graphVars == <<gStore, gMem, thread, asked, crossed>>

ReadOnly == {"load", "preview", "compile", "prepare", "prepare_document", "source"}

\* _build_initial_workspace_state, with the graph of a project that was opened:
\* a new workspace has revision 0, and its snapshot says that it is valid.
Opened(w) ==
    [graph |-> w.graph, rev |-> w.rev, res |-> w.res, regs |-> 0,
     snap |-> [rev |-> 0, regs |-> 0, valid |-> TRUE],
     counter |-> 0, compiles |-> <<>>]

Idling(answer, due, lone) ==
    [todo |-> <<>>, ask |-> "load", doc |-> NoDocument, ops |-> <<>>, named |-> 0,
     strict |-> FALSE, noted |-> 0, seq |-> 0, ok |-> FALSE, plan |-> NoDocument,
     copy |-> <<>>, answer |-> answer, due |-> due, lone |-> lone]

GraphInit ==
    /\ \E w \in Workspaces : gStore = Opened(w)
    /\ gMem = gStore
    /\ thread = [c \in Clients |-> Idling("none", FALSE, FALSE)]
    /\ asked = 0 /\ crossed = FALSE

Underway(c) == thread[c].todo # <<>>
AtStep(c, step) == Underway(c) /\ Head(thread[c].todo) = step
Remaining(c) == Tail(thread[c].todo)

\* The thread goes on with t; with nothing left to do its answer is out.
Go(c, t) ==
    thread' = [thread EXCEPT ![c] =
        IF t.todo = <<>>
        THEN [Idling(t.answer, t.due, t.lone) EXCEPT !.plan = t.plan, !.ask = t.ask]
        ELSE t]
StepOn(c) == Go(c, [thread[c] EXCEPT !.todo = Remaining(c)])
GiveUp(c, answer) == Go(c, [thread[c] EXCEPT !.todo = <<>>, !.answer = answer])

\* self._state = self._state_store.mutate(...): the store now, mem in a step.
MutateGraph(c, state, t) ==
    /\ gStore' = state
    /\ Go(c, [t EXCEPT !.todo = <<"assign">> \o @, !.copy = <<state>>])
    /\ UNCHANGED gMem

AssignGraph(c) ==
    /\ AtStep(c, "assign")
    /\ gMem' = thread[c].copy[1]
    /\ Go(c, [thread[c] EXCEPT !.todo = Remaining(c), !.copy = <<>>])
    /\ UNCHANGED <<gStore, asked, crossed>>

(* ---------------------------------------------------------------- *)
(* The programs of the requests.                                    *)

\* _refresh_workspace_graph_validation_snapshot
Revalidate == <<"refresh", "read", "validate", "stamp">>

\* _build_graph_document_view asks for the summary and for the diagnostics.
View == <<"view", "view">>

Saving == <<"normalise", "persist">>

Program(ask) ==
    CASE ask = "load" -> <<"read", "read", "note">> \o View
      [] ask = "preview" -> <<"check", "read", "patch">>
      [] ask = "apply" ->
            <<"check", "read", "patch", "refresh">> \o Saving \o Revalidate \o View
      [] ask = "save" -> Saving \o Revalidate \o View
      [] ask = "compile" -> <<"read", "note", "judge", "reserve", "remember">>
      [] ask = "compile_document" -> Saving \o <<"note", "judge", "reserve", "remember">>
      [] ask = "prepare" -> <<"read", "judge", "plan">>
      [] ask = "prepare_document" -> <<"normalise", "judge", "plan">>
      [] ask = "source" -> <<"judge", "reserve", "remember">>
      [] ask = "toggle" -> <<"toggle">>
      \* The view of a component graph never finds its own snapshot.
      [] ask = "redraw" -> <<"redraw">> \o Revalidate \o Revalidate \o Revalidate

\* A request enters with _refresh_state_from_store, compile_source without. A
\* client names the revision it has seen, the current one or the one before.
EnterRequest(c) ==
    /\ ~Underway(c) /\ asked < MaxTurns
    /\ asked' = asked + 1
    /\ \E r \in Requests, named \in {gStore.rev, gStore.rev - 1} \cap Nat :
          /\ (named # gStore.rev) => r.strict
          /\ LET lone == \A d \in Clients : ~Underway(d)
                 made == Patched(Normalised(gStore.graph, gStore.res), r.ops, gStore.res)
                 due == /\ lone /\ r.ask = "apply" /\ named = gStore.rev
                        /\ made # Rejected /\ Valid(made, gStore.res)
             IN  /\ crossed' = (crossed \/ ~lone)
                 /\ gMem' = IF r.ask = "source" THEN gMem ELSE gStore
                 /\ thread' = [d \in Clients |->
                       IF d # c THEN [thread[d] EXCEPT !.lone = FALSE]
                       ELSE [Idling("none", due, lone) EXCEPT
                               !.todo = Program(r.ask), !.ask = r.ask, !.doc = r.doc,
                               !.ops = r.ops, !.named = named, !.strict = r.strict]]
    /\ UNCHANGED gStore

Refresh(c) ==
    /\ AtStep(c, "refresh")
    /\ gMem' = gStore
    /\ StepOn(c)
    /\ UNCHANGED <<gStore, asked, crossed>>

(* ---------------------------------------------------------------- *)
(* Reading and saving.                                              *)

\* _get_graph_document_model: a graph that normalisation changes is saved.
ReadGraph(c) ==
    /\ AtStep(c, "read")
    /\ LET g == Normalised(gMem.graph, gMem.res)
           t == [thread[c] EXCEPT !.todo = Remaining(c), !.doc = g]
       IN  IF NeedsRenewal(gMem.graph, gMem.res)
           THEN MutateGraph(c, [gStore EXCEPT !.graph = g, !.rev = @ + 1], t)
           ELSE Go(c, t) /\ UNCHANGED <<gStore, gMem>>
    /\ UNCHANGED <<asked, crossed>>

NormaliseDocument(c) ==
    /\ AtStep(c, "normalise")
    /\ Go(c, [thread[c] EXCEPT !.todo = Remaining(c), !.doc = Normalised(@, gMem.res)])
    /\ UNCHANGED <<gStore, gMem, asked, crossed>>

\* _persist_graph_document: the revision is compared inside mutate.
PersistDocument(c) ==
    /\ AtStep(c, "persist")
    /\ LET t == thread[c]
       IN  IF t.strict /\ t.named # gStore.rev
           THEN GiveUp(c, "conflict") /\ UNCHANGED <<gStore, gMem>>
           ELSE MutateGraph(c, [gStore EXCEPT !.graph = t.doc, !.rev = @ + 1],
                            [t EXCEPT !.todo = Remaining(c), !.answer = "saved"])
    /\ UNCHANGED <<asked, crossed>>

(* ---------------------------------------------------------------- *)
(* Patches.                                                         *)

CheckRevision(c) ==
    /\ AtStep(c, "check")
    /\ IF thread[c].named # gMem.rev THEN GiveUp(c, "conflict") ELSE StepOn(c)
    /\ UNCHANGED <<gStore, gMem, asked, crossed>>

\* _build_graph_patch_candidate: the draft of a new node refreshes mem.
ApplyPatch(c) ==
    /\ AtStep(c, "patch")
    /\ gMem' = IF \E op \in Elems(thread[c].ops) : op.op = "node.add" THEN gStore ELSE gMem
    /\ LET made == Patched(thread[c].doc, thread[c].ops, gMem'.res)
       IN  IF made = Rejected \/ ~Valid(made, gMem'.res)
           THEN GiveUp(c, "refused")
           ELSE Go(c, [thread[c] EXCEPT !.todo = Remaining(c), !.doc = made])
    /\ UNCHANGED <<gStore, asked, crossed>>

(* ---------------------------------------------------------------- *)
(* The validation snapshot of the workspace.                        *)

ValidateGraph(c) ==
    /\ AtStep(c, "validate")
    /\ Go(c, [thread[c] EXCEPT !.todo = Remaining(c), !.ok = Valid(thread[c].doc, gMem.res)])
    /\ UNCHANGED <<gStore, gMem, asked, crossed>>

\* The result is stamped with the revisions that mem has by now.
StampSnapshot(c) ==
    /\ AtStep(c, "stamp")
    /\ LET snap == [rev |-> gMem.rev, regs |-> gMem.regs, valid |-> thread[c].ok]
       IN  MutateGraph(c, [gStore EXCEPT !.snap = snap], [thread[c] EXCEPT !.todo = Remaining(c)])
    /\ UNCHANGED <<asked, crossed>>

\* _get_graph_validation_snapshot: what does not carry the revisions is renewed.
ShowSnapshot(c) ==
    /\ AtStep(c, "view")
    /\ LET fresh == gMem.snap.rev = gMem.rev /\ gMem.snap.regs = gMem.regs
       IN  Go(c, [thread[c] EXCEPT !.todo = (IF fresh THEN <<>> ELSE Revalidate) \o Remaining(c)])
    /\ UNCHANGED <<gStore, gMem, asked, crossed>>

(* ---------------------------------------------------------------- *)
(* Compilation.                                                     *)

\* The revision the compiled graph is said to have.
NoteRevision(c) ==
    /\ AtStep(c, "note")
    /\ Go(c, [thread[c] EXCEPT !.todo = Remaining(c), !.noted = gMem.rev])
    /\ UNCHANGED <<gStore, gMem, asked, crossed>>

\* Diagnostics first, then the stages; a source has no diagnostics.
JudgeGraph(c) ==
    /\ AtStep(c, "judge")
    /\ LET t == thread[c]
       IN  Go(c, [t EXCEPT !.todo = Remaining(c),
                    !.ok = (t.ask = "source" \/ Acceptable(t.doc, gMem.res))
                           /\ Compiled(t.doc) # Rejected])
    /\ UNCHANGED <<gStore, gMem, asked, crossed>>

\* _reserve_compile_request
ReserveSequence(c) ==
    /\ AtStep(c, "reserve")
    /\ MutateGraph(c, [gStore EXCEPT !.counter = @ + 1],
                   [thread[c] EXCEPT !.todo = Remaining(c), !.seq = gStore.counter + 1])
    /\ UNCHANGED <<asked, crossed>>

\* _remember_compile: last_compile is the first of compile_history. The graph
\* that was compiled is history of the model.
RememberCompile(c) ==
    /\ AtStep(c, "remember")
    /\ LET t == thread[c]
           done == [seq |-> t.seq, ok |-> t.ok, saved |-> t.ask # "source",
                    rev |-> t.noted, graph |-> t.doc]
           all == <<done>> \o gStore.compiles
       IN  MutateGraph(c, [gStore EXCEPT !.compiles =
                             SubSeq(all, 1, IF Len(all) > MaxHistory THEN MaxHistory ELSE Len(all))],
                       [t EXCEPT !.todo = Remaining(c), !.answer = "compiled"])
    /\ UNCHANGED <<asked, crossed>>

\* _prepare_execution: only what compiled gets a plan.
BuildPlan(c) ==
    /\ AtStep(c, "plan")
    /\ LET t == thread[c]
       IN  Go(c, IF t.ok
                 THEN [t EXCEPT !.todo = Remaining(c), !.answer = "planned",
                                !.plan = PlanOf(Compiled(t.doc), gMem.res)]
                 ELSE [t EXCEPT !.todo = Remaining(c), !.answer = "failed"])
    /\ UNCHANGED <<gStore, gMem, asked, crossed>>

(* ---------------------------------------------------------------- *)
(* The resources.                                                   *)

\* BUG PATTERN: the revision of the registry is not counted up.
FaultyToggleResource(c) ==
    /\ AtStep(c, "toggle")
    /\ \E r \in gStore.res :
          MutateGraph(c, [gStore EXCEPT !.res = (@ \ {r}) \cup {[r EXCEPT !.enabled = ~@]}],
                      [thread[c] EXCEPT !.todo = Remaining(c)])
    /\ UNCHANGED <<asked, crossed>>

\* set_resource_enabled
ToggleResource(c) ==
    /\ AtStep(c, "toggle")
    /\ \E r \in gStore.res :
          MutateGraph(c, [gStore EXCEPT !.res = (@ \ {r}) \cup {[r EXCEPT !.enabled = ~@]},
                                        !.regs = @ + 1],
                      [thread[c] EXCEPT !.todo = Remaining(c)])
    /\ UNCHANGED <<asked, crossed>>

\* _save_custom_node_graph_document: the fields follow from the graph drawn.
RedrawComponent(c) ==
    /\ AtStep(c, "redraw")
    /\ IF ~Known(gStore.res, ComponentKey)
       THEN GiveUp(c, "refused") /\ UNCHANGED <<gStore, gMem>>
       ELSE \E fields \in Redrawn :
              LET r == ResourceOf(gStore.res, ComponentKey)
              IN  MutateGraph(c, [gStore EXCEPT !.res = (@ \ {r}) \cup
                                    {[r EXCEPT !.inputs = fields, !.needed = Elems(fields)]},
                                                !.regs = @ + 1],
                              [thread[c] EXCEPT !.todo = Remaining(c)])
    /\ UNCHANGED <<asked, crossed>>

GraphNext ==
    \E c \in Clients :
        \/ EnterRequest(c) \/ AssignGraph(c) \/ Refresh(c) \/ ReadGraph(c)
        \/ NormaliseDocument(c) \/ PersistDocument(c) \/ CheckRevision(c) \/ ApplyPatch(c)
        \/ ValidateGraph(c) \/ StampSnapshot(c) \/ ShowSnapshot(c) \/ NoteRevision(c)
        \/ JudgeGraph(c) \/ ReserveSequence(c) \/ RememberCompile(c) \/ BuildPlan(c)
        \/ ToggleResource(c) \/ RedrawComponent(c)

GraphSpec == GraphInit /\ [][GraphNext]_graphVars

(* ---------------------------------------------------------------- *)
(* Documents as clients send them: lists are lists, nodes have their  *)
(* settings, no field is called like a control port, and no component *)
(* graph like a node kind of the program. (A field that is takes the  *)
(* id of the control port for its own, and its port changes each time *)
(* the graph is normalised.)                                          *)

ControlNames == {"control", "timed_out", "timeout"}
IsList(s) == s \in Seq(Elems(s))
PlainSettings(cfg) ==
    /\ {"listed", "branches", "inputs", "outputs"} \subseteq DOMAIN cfg
    /\ IsList(cfg.branches) /\ IsList(cfg.inputs) /\ IsList(cfg.outputs)
    /\ Elems(cfg.inputs) \cap ControlNames = {} /\ Elems(cfg.outputs) \cap ControlNames = {}
PlainNode(n) ==
    {"id", "kind", "ports", "cfg"} \subseteq DOMAIN n /\ IsList(n.ports) /\ PlainSettings(n.cfg)
PlainGraph(g) == "nodes" \in DOMAIN g /\ IsList(g.nodes) /\ \A n \in Elems(g.nodes) : PlainNode(n)
PlainPatch(ops) ==
    /\ IsList(ops)
    /\ \A op \in Elems(ops) :
          /\ op.op \in {"node.add", "node.update", "node.remove", "edge.add", "edge.remove"}
          /\ op.op = "node.add" => PlainNode(op.node)
          /\ op.op = "node.update" => PlainSettings(op.cfg)
MadeKinds == {"fork", "join", "entry", "exit", "python", "ask"}
PlainResources(res) ==
    \A r \in res :
        /\ {"key", "graph", "inputs", "outputs"} \subseteq DOMAIN r
        /\ r.graph => r.key \notin MadeKinds /\ IsList(r.inputs) /\ IsList(r.outputs)

\* Nothing is left to normalise but what depends on the resources.
Settled(g) == ~NeedsRenewal(g, {})
PlainDocuments ==
    /\ \A w \in Workspaces : PlainGraph(w.graph) /\ Settled(w.graph) /\ PlainResources(w.res)
    /\ \A r \in Requests : PlainGraph(r.doc) /\ PlainPatch(r.ops)
    /\ \A fields \in Redrawn : IsList(fields)

(* ---------------------------------------------------------------- *)
(* Properties.                                                      *)

\* Requests stay within their bounds and the history within its limit, and a
\* request is about to assign at most one copy of the state.
GraphTypeOK ==
    /\ asked \in 0..MaxTurns /\ crossed \in BOOLEAN
    /\ \A s \in {gStore, gMem} :
          s.rev \in Nat /\ s.regs \in Nat /\ s.counter \in Nat /\ Len(s.compiles) <= MaxHistory
    /\ \A c \in Clients :
          /\ thread[c].ask \in GraphAsks
          /\ thread[c].answer \in {"none", "saved", "conflict", "refused", "compiled", "planned", "failed"}
          /\ Len(thread[c].copy) <= 1

\* Whatever is prepared for execution is a plan that the scheduler can run: the
\* graph of a workspace or a component has one entry, no other has several, and
\* nothing leads back to it; control leaves and enters by control ports, and a
\* join waits for at least two branches.
PlanIsRunnable ==
    \A c \in Clients : thread[c].answer = "planned" => Runnable(thread[c].plan)

\* What the workspace says of its graph is true as long as no two requests ran
\* at once: a validation that carries the current revisions is that of the saved
\* graph, and a compilation that carries the current revision compiled it. (The
\* graph that no one saved yet, at revision 0, is called valid unseen.)
StampsAreTrue ==
    ~crossed =>
        /\ (gStore.rev > 0 /\ gStore.snap.rev = gStore.rev /\ gStore.snap.regs = gStore.regs)
              => gStore.snap.valid = Valid(gStore.graph, gStore.res)
        /\ (gStore.compiles # <<>> /\ gStore.compiles[1].saved
               /\ gStore.compiles[1].rev = gStore.rev)
              => gStore.compiles[1].graph = gStore.graph

\* A request that only reads leaves a graph without component graphs as it is,
\* with its revision, whatever other requests do: reading saves a graph only
\* when the resources give it something new.
HasInstance(g, R) == \E n \in Elems(g.nodes) : IsInstance(R, Called(n, R).kind)
ReadsKeepGraph ==
    [][\A c \in Clients :
          (Underway(c) /\ thread[c].ask \in ReadOnly /\ thread'[c] # thread[c]
             /\ ~HasInstance(gMem.graph, gMem.res))
          => <<gStore.graph, gStore.rev>>' = <<gStore.graph, gStore.rev>>]_graphVars

\* A patch that names the current revision, and makes a graph that is accepted,
\* is saved if no other request runs.
PatchAppliesCurrent ==
    \A c \in Clients :
        (~Underway(c) /\ thread[c].due /\ thread[c].lone) => thread[c].answer = "saved"
==============================================================================
