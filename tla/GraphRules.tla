------------------------------ MODULE GraphRules ------------------------------
(* The rules for a graph document: how it is normalised against the        *)
(* resources of the project, when it is accepted, what a patch makes of it *)
(* and the plan it compiles to. compilation_workbench_service.py:          *)
(* _normalize_graph_model, _collect_graph_validation_diagnostics,          *)
(* _build_graph_patch_candidate, _build_runtime_plan and the compiler's    *)
(* stages, which pass a graph document through.                            *)
(*                                                                         *)
(* A port id and a semantic slot are sequences of words: in:left is        *)
(* <<"in", "left">>, in.branch:left is <<"in", "branch", "left">>; dots and *)
(* colons are not told apart. A graph is a record: its role, nodes and      *)
(* edges in their order. Its role follows from its id: graph:workspace is  *)
(* "main", custom_node_graph:* is "component", any other id "other". The   *)
(* settings of a node that the rules look at are the fields of its cfg.    *)
EXTENDS Integers, Sequences, FiniteSets, Filtering

CONSTANTS
    ComponentKinds,   \* the node kinds that stand for a component graph
    Rejected           \* a patch that cannot be applied

Elems(s) == {s[i] : i \in DOMAIN s}
First(I) == CHOOSE i \in I : \A j \in I : i <= j
Single(S) == \E x \in S : S = {x}
Several(S) == \E x, y \in S : x # y

(* ---------------------------------------------------------------- *)
(* Ports.                                                           *)

In == "input"
Out == "output"
NoPort == <<>>       \* an edge that names no port

\* A port as a draft of the code writes it, and as a graph model holds it: a
\* label (display_name) and a set with at most one bound on its connections.
Draft(id, dir, layer, slot) == [id |-> id, dir |-> dir, layer |-> layer, slot |-> slot]
Port(id, dir, layer, slot, label) ==
    [id |-> id, dir |-> dir, layer |-> layer, slot |-> slot, label |-> label, limit |-> {}]

\* GraphModel.model_validate fills in what a port lacks.
Validated(p) ==
    [id |-> p.id, dir |-> p.dir, layer |-> p.layer, slot |-> p.slot,
     label |-> IF "label" \in DOMAIN p THEN p.label ELSE NoPort,
     limit |-> IF "limit" \in DOMAIN p THEN p.limit ELSE {}]

\* _build_control_port_aliases: the names under which edges and rules know a port.
Stripped(slot) == IF Len(slot) > 1 /\ slot[1] \in {"in", "out"} THEN Tail(slot) ELSE slot
Aliases(p) ==
    {p.id, p.slot, Stripped(p.slot)}
    \cup (IF p.id \in {<<"in">>, <<"out">>} THEN {<<"control">>} ELSE {})
    \cup (IF Stripped(p.slot) # <<"control">> THEN {}
          ELSE IF p.dir = In THEN {<<"in">>} ELSE {<<"out">>})

\* _control_port_matches_expected
Answers(p, name) ==
    IF name \in {<<"in">>, <<"out">>}
    THEN \E a \in Aliases(p) : a = <<"control">> \/ a[1] = name[1]
    ELSE name \in Aliases(p)

\* The ports of a node that a name may mean; the first of them is meant.
Named(node, name, dir) ==
    {i \in DOMAIN node.ports : node.ports[i].dir = dir /\ Answers(node.ports[i], name)}
PortNamed(node, name, dir) == node.ports[First(Named(node, name, dir))]

Has(node, name) == \E i \in DOMAIN node.ports : Answers(node.ports[i], name)

\* _count_control_ports_with_prefix and ..._with_semantic_prefix
PortsLike(node, word, dir) ==
    {i \in DOMAIN node.ports :
        /\ node.ports[i].dir = dir
        /\ \E a \in Aliases(node.ports[i]) : Len(a) > 1 /\ a[1] = word}
BranchPorts(node, dir) ==
    {i \in DOMAIN node.ports :
        LET slot == node.ports[i].slot
        IN  /\ node.ports[i].dir = dir
            /\ Len(slot) > 2 /\ slot[2] = "branch"
            /\ slot[1] = IF dir = In THEN "in" ELSE "out"}

(* ---------------------------------------------------------------- *)
(* Resources: what a node kind refers to, builtin or of the project. *)
(* A component graph (graph) declares the fields it takes and gives. *)

Known(R, kind) == \E r \in R : r.key = kind
ResourceOf(R, kind) == CHOOSE r \in R : r.key = kind
IsInstance(R, kind) == Known(R, kind) /\ ResourceOf(R, kind).graph
Callable(R, kind) == Known(R, kind) /\ ~ResourceOf(R, kind).builtin

(* ---------------------------------------------------------------- *)
(* Normalisation. The ports of some kinds follow from the node's     *)
(* settings; a port that is there already keeps its id.              *)

\* Slots under which older graphs know the control ports.
SlotNames(slot) ==
    CASE slot = <<"in", "control">> -> {slot, <<"control", "previous">>, <<"control", "in">>}
      [] slot = <<"out", "control">> -> {slot, <<"control", "next">>, <<"control", "out">>}
      [] slot = <<"out", "timed_out">> -> {slot, <<"control", "timeout">>, <<"out", "timeout">>}
      [] OTHER -> {slot}

Holding(node, slots, dir) ==
    {i \in DOMAIN node.ports : node.ports[i].dir = dir /\ node.ports[i].slot \in slots}
IdFor(node, slots, dir, fallback) ==
    IF Holding(node, slots, dir) = {} THEN fallback
    ELSE node.ports[First(Holding(node, slots, dir))].id
SlotFor(node, slot, dir) ==
    IF Holding(node, SlotNames(slot), dir) = {} THEN slot
    ELSE node.ports[First(Holding(node, SlotNames(slot), dir))].slot

\* A control port of a fork or join, and one that older slots name too.
ControlPort(node, slot, dir, id) ==
    Port(IdFor(node, {slot}, dir, id), dir, "control", slot, NoPort)
LegacyPort(node, slot, dir, id) ==
    Port(IdFor(node, SlotNames(slot), dir, id), dir, "control", slot, NoPort)

\* One data port for each field of a schema; a new one is named after its field.
FieldPorts(node, fields, dir, prefix, idPrefix, labelled) ==
    [i \in DOMAIN fields |->
        Port(IdFor(node, SlotNames(prefix \o <<fields[i]>>), dir, idPrefix \o <<fields[i]>>),
             dir, "data", prefix \o <<fields[i]>>,
             IF labelled THEN <<fields[i]>> ELSE NoPort)]

\* _normalize_control_branch_entries: the keys, each once; without a list they
\* are read off the ports.
EachOnce(s) ==
    LET at == Kept([i \in DOMAIN s |-> i], {i \in DOMAIN s : \A j \in 1..(i - 1) : s[j] # s[i]})
    IN  [k \in DOMAIN at |-> s[at[k]]]

BranchDir(kind) == IF kind = "join" THEN In ELSE Out
KeyOf(p, kind) ==
    LET prefix == IF kind = "join" THEN "in" ELSE "branch"
    IN  IF p.dir # BranchDir(kind) THEN <<>>
        ELSE IF Len(p.slot) > 2 /\ p.slot[2] = "branch" THEN <<p.slot[3]>>
        ELSE IF Len(p.id) > 1 /\ p.id[1] = prefix THEN <<p.id[2]>> ELSE <<>>
KeysOf(ports, kind) ==
    LET at == Kept([i \in DOMAIN ports |-> i], {i \in DOMAIN ports : KeyOf(ports[i], kind) # <<>>})
    IN  [k \in DOMAIN at |-> KeyOf(ports[at[k]], kind)[1]]

Branches(node) ==
    EachOnce(IF node.cfg.listed THEN node.cfg.branches ELSE KeysOf(node.ports, node.kind))

\* _normalize_control_branch_ports
BranchPortsOf(node) ==
    LET join == node.kind = "join"
        key == Branches(node)
        at == IF join THEN "in" ELSE "out"
        branch == [i \in DOMAIN key |->
            Port(IdFor(node, {<<at, "branch", key[i]>>}, BranchDir(node.kind),
                       <<IF join THEN "in" ELSE "branch", key[i]>>),
                 BranchDir(node.kind), "control", <<at, "branch", key[i]>>, <<key[i]>>)]
    IN  IF join THEN branch \o <<ControlPort(node, <<"out", "control">>, Out, <<"out">>)>>
        ELSE <<ControlPort(node, <<"in", "control">>, In, <<"in">>)>> \o branch

\* _normalize_component_boundary_ports
BoundaryPorts(node) ==
    IF node.kind = "entry"
    THEN <<LegacyPort(node, <<"out", "control">>, Out, <<"out">>)>>
         \o FieldPorts(node, node.cfg.inputs, Out, <<"out">>, <<"out">>, FALSE)
    ELSE <<LegacyPort(node, <<"in", "control">>, In, <<"in">>)>>
         \o FieldPorts(node, node.cfg.outputs, In, <<"in">>, <<"in">>, FALSE)

\* _normalize_input_request_ports
AskPorts(node) ==
    LET control(slot, dir, id) ==
            Port(IdFor(node, SlotNames(slot), dir, id), dir, "control",
                 SlotFor(node, slot, dir), NoPort)
    IN  <<control(<<"in", "control">>, In, <<"in">>),
          control(<<"out", "control">>, Out, <<"out">>),
          control(<<"out", "timed_out">>, Out, <<"timed_out">>)>>
        \o FieldPorts(node, EachOnce(node.cfg.outputs), Out, <<"out">>, <<"out">>, TRUE)

\* _normalize_python_dynamic_ports: ids of new ports hold the node's id.
PythonPorts(node) ==
    <<LegacyPort(node, <<"in", "control">>, In, <<"in">>),
      LegacyPort(node, <<"out", "control">>, Out, <<"out">>)>>
    \o FieldPorts(node, node.cfg.inputs, In, <<"in">>,
                  <<node.id, "python", "in">>, FALSE)
    \o FieldPorts(node, node.cfg.outputs, Out, <<"out">>,
                  <<node.id, "python", "out">>, FALSE)

\* _build_custom_node_graph_instance_draft_definition
InstancePorts(r) ==
    <<Draft(<<"in">>, In, "control", <<"in", "control">>)>>
    \o [i \in DOMAIN r.inputs |->
          Draft(<<"in", r.inputs[i]>>, In, "data", <<"in", r.inputs[i]>>)]
    \o <<Draft(<<"out">>, Out, "control", <<"out", "control">>)>>
    \o [i \in DOMAIN r.outputs |->
          Draft(<<"out", r.outputs[i]>>, Out, "data", <<"out", r.outputs[i]>>)]

\* _normalize_legacy_call_node_to_custom_node_graph
Called(node, R) ==
    IF node.kind = "call" /\ IsInstance(R, node.cfg.target)
    THEN [node EXCEPT !.kind = node.cfg.target] ELSE node

\* The ports a node is to have: a draft's ports for an instance.
PortsFor(node, R) ==
    CASE node.kind \in {"fork", "join"} -> BranchPortsOf(node)
      [] node.kind \in {"entry", "exit"} -> BoundaryPorts(node)
      [] node.kind = "python" -> PythonPorts(node)
      [] node.kind = "ask" -> AskPorts(node)
      [] IsInstance(R, node.kind) -> InstancePorts(ResourceOf(R, node.kind))
      [] OTHER -> node.ports

\* The settings: an instance takes over the fields its graph declares, and
\* keeps the mappings it had.
SettingsFor(node, R) ==
    IF node.kind \in {"fork", "join"}
    THEN [node.cfg EXCEPT !.branches = Branches(node), !.listed = TRUE]
    ELSE IF IsInstance(R, node.kind)
    THEN LET r == ResourceOf(R, node.kind)
         IN  [node.cfg EXCEPT !.given = @ \cup Elems(r.inputs),
                              !.taken = @ \cup Elems(r.outputs)]
    ELSE node.cfg

Renewed(node, R) ==
    LET n == Called(node, R)
    IN  [n EXCEPT !.cfg = SettingsFor(n, R),
                  !.ports = LET p == PortsFor(n, R)
                            IN  [i \in DOMAIN p |-> Validated(p[i])]]

\* BUG PATTERN: a script is taken for changed whatever its ports are.
FaultyChanged(node, R) ==
    LET n == Called(node, R)
    IN  n # node \/ SettingsFor(n, R) # n.cfg \/ PortsFor(n, R) # n.ports \/ n.kind = "python"

\* What is compared with the node's ports are the ports as the code wrote them:
\* _ports_changed fills in the old ones, the instance's comparison does not.
Changed(node, R) ==
    LET n == Called(node, R)
    IN  n # node \/ SettingsFor(n, R) # n.cfg \/ PortsFor(n, R) # n.ports

\* _normalize_graph_model: the graph, or a new one if any node changed.
NeedsRenewal(g, R) == \E i \in DOMAIN g.nodes : Changed(g.nodes[i], R)
Normalised(g, R) ==
    IF NeedsRenewal(g, R)
    THEN [g EXCEPT !.nodes = [i \in DOMAIN g.nodes |-> Renewed(g.nodes[i], R)]]
    ELSE g

(* ---------------------------------------------------------------- *)
(* When a graph is accepted: no diagnostic but the warning for a     *)
(* node that the start does not reach. The rule about network        *)
(* contexts that meet in a join is left out.                         *)

OfKind(g, kind) == {i \in DOMAIN g.nodes : g.nodes[i].kind = kind}
NodeIds(g) == {g.nodes[i].id : i \in DOMAIN g.nodes}

\* _collect_flow_start_validation_diagnostics
StartIsSound(g) ==
    LET starts == OfKind(g, "start")
    IN  /\ ~Several(starts)
        /\ g.role = "main" => starts # {}
        /\ g.role = "component" => starts = {}
        /\ \A i \in DOMAIN g.edges : \A j \in starts :
              ~(g.edges[i].layer = "control" /\ g.edges[i].to = g.nodes[j].id)

\* _collect_component_boundary_validation_diagnostics
BoundaryIsSound(g) ==
    IF g.role = "component" THEN Single(OfKind(g, "entry")) /\ Single(OfKind(g, "exit"))
    ELSE OfKind(g, "entry") = {} /\ OfKind(g, "exit") = {}

IdsAreDistinct(g) ==
    /\ \A i, j \in DOMAIN g.nodes : g.nodes[i].id = g.nodes[j].id => i = j
    /\ \A n \in Elems(g.nodes) : \A i, j \in DOMAIN n.ports :
          n.ports[i].id = n.ports[j].id => i = j

\* The fields of a called graph that an edge brings.
Brought(g, node) ==
    {f \in UNION {Elems(p.slot) : p \in Elems(node.ports)} :
        \E e \in Elems(g.edges), p \in Elems(node.ports) :
            e.layer = "data" /\ e.to = node.id /\ e.toPort = p.id /\ p.slot[Len(p.slot)] = f}
Mapped(g, node, r) ==
    /\ r.needed \subseteq node.cfg.given \cup Brought(g, node)
    /\ r.outputs # <<>> => node.cfg.taken \subseteq Elems(r.outputs)

\* A resource that is disabled is refused, one that is missing only where the
\* kind can be nothing else than a component graph, or is called by name.
ResourceIsUsable(g, node, R) ==
    LET kind == node.kind
    IN  /\ Known(R, kind) => ResourceOf(R, kind).enabled
        /\ kind \in ComponentKinds => Known(R, kind)
        /\ IsInstance(R, kind) => Mapped(g, node, ResourceOf(R, kind))
        /\ kind = "call" =>
              /\ Callable(R, node.cfg.target) /\ ResourceOf(R, node.cfg.target).enabled
              /\ Mapped(g, node, ResourceOf(R, node.cfg.target))

\* _collect_flow_control_node_validation_diagnostics
Decides(node, name) ==
    \/ node.cfg.expression
    \/ \E p \in Elems(node.ports) :
          p.dir = In /\ p.layer = "data" /\ (p.id = <<name>> \/ Stripped(p.slot) = <<name>>)
ControlIsSound(node) ==
    CASE node.kind = "if" ->
            (\A p \in {"in", "true", "false"} : Has(node, <<p>>)) /\ Decides(node, "condition")
      [] node.kind = "while" ->
            (\A p \in {"in", "repeat", "loop", "done"} : Has(node, <<p>>)) /\ Decides(node, "condition")
      [] node.kind = "switch" ->
            Has(node, <<"in">>) /\ PortsLike(node, "case", Out) # {} /\ Decides(node, "selector")
      [] node.kind = "fork" -> Has(node, <<"in">>) /\ Several(BranchPorts(node, Out))
      [] node.kind = "join" ->
            /\ Has(node, <<"out">>) /\ Several(BranchPorts(node, In))
            /\ \A q \in node.cfg.quorum : q \in 1..Cardinality(BranchPorts(node, In))
      [] node.kind = "retry" -> node.cfg.attempts >= 1
      [] node.kind = "failover" ->
            /\ Has(node, <<"primary">>) \/ PortsLike(node, "fallback", Out) # {}
            /\ Has(node, <<"failed">>)
      [] OTHER -> TRUE

\* An edge joins two nodes, and the ports it names are there and of its layer.
EdgeIsSound(g, e) ==
    /\ e.layer # "observe"
    /\ {e.from, e.to} \subseteq NodeIds(g)
    /\ \A m, n \in Elems(g.nodes) : m.id = e.from /\ n.id = e.to =>
          /\ e.fromPort # NoPort => Named(m, e.fromPort, Out) # {}
          /\ e.toPort # NoPort => Named(n, e.toPort, In) # {}
          /\ (e.fromPort # NoPort /\ e.toPort # NoPort) =>
                /\ PortNamed(m, e.fromPort, Out).layer = e.layer
                /\ PortNamed(n, e.toPort, In).layer = e.layer

\* _collect_port_max_connections_validation_diagnostics counts the edges that
\* name the port by its id.
LimitsAreKept(g) ==
    \A n \in Elems(g.nodes) : \A p \in Elems(n.ports) : \A most \in p.limit :
        Cardinality({i \in DOMAIN g.edges : <<n.id, p.id>> \in
            {<<g.edges[i].from, g.edges[i].fromPort>>, <<g.edges[i].to, g.edges[i].toPort>>}}) <= most

Acceptable(g, R) ==
    /\ StartIsSound(g) /\ BoundaryIsSound(g) /\ IdsAreDistinct(g)
    /\ \A n \in Elems(g.nodes) :
          ResourceIsUsable(g, n, R) /\ ControlIsSound(n) /\ ~n.cfg.blank
    /\ \A e \in Elems(g.edges) : EdgeIsSound(g, e)
    /\ LimitsAreKept(g)

\* validate_graph_document normalises first.
Valid(g, R) == Acceptable(Normalised(g, R), R)

(* ---------------------------------------------------------------- *)
(* A patch: operations on nodes and edges, one after the other. The   *)
(* first that cannot be applied refuses them all.                     *)

PatchStep(g, op, R) ==
    CASE op.op = "node.add" ->
            IF op.node.id \in NodeIds(g) \/ ~Known(R, op.node.kind) THEN Rejected
            ELSE [g EXCEPT !.nodes = Append(@, op.node)]
      [] op.op = "node.update" ->
            IF op.id \notin NodeIds(g) THEN Rejected
            ELSE [g EXCEPT !.nodes = [i \in DOMAIN g.nodes |->
                    IF g.nodes[i].id = op.id THEN [g.nodes[i] EXCEPT !.cfg = op.cfg] ELSE g.nodes[i]]]
      [] op.op = "node.remove" ->
            IF op.id \notin NodeIds(g) \/ \E e \in Elems(g.edges) : op.id \in {e.from, e.to} THEN Rejected
            ELSE [g EXCEPT !.nodes = Kept(@, {n \in Elems(g.nodes) : n.id # op.id})]
      [] op.op = "edge.add" ->
            IF \E e \in Elems(g.edges) : e.id = op.edge.id THEN Rejected
            ELSE [g EXCEPT !.edges = Append(@, op.edge)]
      [] op.op = "edge.remove" ->
            IF ~\E e \in Elems(g.edges) : e.id = op.edge THEN Rejected
            ELSE [g EXCEPT !.edges = Kept(@, {e \in Elems(g.edges) : e.id # op.edge})]

Patched(g, ops, R) ==
    LET after[i \in 0..Len(ops)] ==
          IF i = 0 THEN g
          ELSE IF after[i - 1] = Rejected THEN Rejected ELSE PatchStep(after[i - 1], ops[i], R)
    IN  after[Len(ops)]

(* ---------------------------------------------------------------- *)
(* The compiler passes the nodes and edges of a graph document        *)
(* through its stages; a document without nodes is refused. The plan  *)
(* adds the entries, the state of each node's resource and how it is  *)
(* run: from its entries, or without any one node after the other.    *)

Compiled(g) == IF g.nodes = <<>> THEN Rejected ELSE g

ResourceStatus(kind, R) ==
    IF ~Known(R, kind) THEN "missing"
    ELSE IF ResourceOf(R, kind).enabled THEN "enabled" ELSE "disabled"

PlanFrom(g, R, entry) ==
    [role |-> g.role, nodes |-> g.nodes, edges |-> g.edges, entry |-> entry,
     mode |-> IF entry = {} THEN "legacy_sequence" ELSE "flow_graph",
     status |-> [i \in DOMAIN g.nodes |-> ResourceStatus(g.nodes[i].kind, R)]]

\* BUG PATTERN: whatever no edge leads to is an entry.
FaultyPlanOf(g, R) ==
    PlanFrom(g, R, OfKind(g, "start") \cup {i \in DOMAIN g.nodes :
                      \A e \in Elems(g.edges) : e.to # g.nodes[i].id})

\* _build_runtime_plan: a graph with a boundary is entered at its input.
PlanOf(g, R) ==
    PlanFrom(g, R, IF OfKind(g, "entry") \cup OfKind(g, "exit") # {}
                   THEN OfKind(g, "entry") ELSE OfKind(g, "start"))

\* _resolve_runtime_wait_all_tokens: the ports a join of the plan waits for.
WaitsFor(node) ==
    {p.id : p \in {q \in Elems(node.ports) :
        /\ q.dir = In
        /\ (Len(q.id) > 1 /\ q.id[1] = "in") \/ (Len(q.slot) > 2 /\ q.slot[1] = "in" /\ q.slot[2] = "branch")}}

\* What the scheduler relies on: one entry that nothing leads back to (a graph
\* that is neither the workspace's nor a component's may have none, and its nodes
\* then run in their order), edges between nodes of the plan, control that leaves
\* and enters by control ports, joins that wait for more than one branch, and a
\* bound for every retry.
Runnable(p) ==
    /\ p.nodes # <<>> /\ ~Several(p.entry)
    /\ p.role \in {"main", "component"} => p.mode = "flow_graph"
    /\ p.mode = "flow_graph" => Single(p.entry)
    /\ \A e \in Elems(p.edges) :
          /\ \E m, n \in Elems(p.nodes) : m.id = e.from /\ n.id = e.to
          /\ \A m, n \in Elems(p.nodes) :
                (/\ m.id = e.from /\ n.id = e.to /\ e.fromPort # NoPort /\ e.toPort # NoPort)
                => /\ Named(m, e.fromPort, Out) # {} /\ Named(n, e.toPort, In) # {}
                   /\ PortNamed(m, e.fromPort, Out).layer = PortNamed(n, e.toPort, In).layer
          /\ e.layer = "control" => \A i \in p.entry : p.nodes[i].kind = "start" => e.to # p.nodes[i].id
    /\ \A n \in Elems(p.nodes) :
          /\ n.kind = "join" => Several(WaitsFor(n))
          /\ n.kind = "retry" => n.cfg.attempts >= 1
          /\ \A m \in Elems(p.nodes) : m.id = n.id => m = n
==============================================================================
