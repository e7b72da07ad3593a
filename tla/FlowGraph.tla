------------------------------ MODULE FlowGraph ------------------------------
(***************************************************************************)
(* The control graph of an execution plan and what the flow-graph          *)
(* scheduler of CompilationWorkbenchService computes from it alone: which  *)
(* edges enter a node, which of them exclude each other, and the tokens a  *)
(* node waits for.                                                         *)
(*                                                                         *)
(* A flow is a record: kind (node -> kind), out (node -> sequence of       *)
(* control edges [port, to, at], in the order of control_edges_by_source), *)
(* entry (the entry nodes), branches (the declared input ports of a join), *)
(* limit (max_attempts of a retry), level (of a break or continue), target *)
(* (of a jump) and missing (nodes whose resource is not enabled).          *)
(***************************************************************************)
EXTENDS Naturals, Sequences, FiniteSets

CONSTANT NoNode      \* "no such node": an index out of range in the code

\* A node kind stands for every node type the scheduler treats alike: task is
\* any node without a control kind, ask is input.request, assert is
\* network.response_assert, choice is switch and failover.
BranchKinds == {"if", "choice", "while", "retry", "jump"}
LoopKinds   == {"foreach", "break", "continue", "end"}
Kinds == BranchKinds \cup LoopKinds
           \cup {"start", "task", "ask", "assert", "fork", "join"}

AnyPort == "any"     \* source_port_id None: every outgoing edge

\* Marks for the ways to go on without following an edge: a jump that is
\* taken, and a foreach whose body is through.
Jumped   == "*jumped"
LoopLeft == "*left"

Nodes(f) == DOMAIN f.kind

\* An edge is named by its source and its position among the source's edges.
Edges(f) == UNION {{<<m, i>> : i \in DOMAIN f.out[m]} : m \in Nodes(f)}
EdgeOf(f, e) == f.out[e[1]][e[2]]
Into(f, n) == {e \in Edges(f) : EdgeOf(f, e).to = n}
OutPorts(f, n) == {f.out[n][i].port : i \in DOMAIN f.out[n]}

\* The ports a successful execution of n may select.
Selectable(f, n) ==
    CASE f.kind[n] = "if"      -> {"true", "false"}
      [] f.kind[n] = "choice"  -> OutPorts(f, n) \cup {"default"}
      [] f.kind[n] = "while"   -> {"loop", "done"}
      [] f.kind[n] = "retry"   -> {"attempt", "exhausted"}
      [] f.kind[n] = "ask"     -> {"submitted", "timeout"}
      [] f.kind[n] = "assert"  -> {AnyPort, "failed"}
      [] f.kind[n] = "jump"    -> {AnyPort, Jumped}
      [] f.kind[n] = "join"    -> {"out"}
      [] f.kind[n] = "foreach" -> {LoopLeft}
      [] OTHER                 -> {AnyPort}

FlowType(f) ==
    /\ f.kind \in [Nodes(f) -> Kinds]
    /\ DOMAIN f.out = Nodes(f)
    /\ \A n \in Nodes(f) :
          f.out[n] \in Seq([port : STRING, to : Nodes(f), at : STRING])
    /\ f.entry \in Seq(Nodes(f))
    /\ \A i, j \in DOMAIN f.entry : f.entry[i] = f.entry[j] => i = j
    /\ f.branches \in [Nodes(f) -> SUBSET STRING]
    /\ f.limit \in [Nodes(f) -> Nat \ {0}]
    /\ f.level \in [Nodes(f) -> Nat \ {0}]
    /\ f.target \in [Nodes(f) -> Nodes(f) \cup {NoNode}]
    /\ f.missing \subseteq Nodes(f)
    /\ NoNode \notin Nodes(f)

(***************************************************************************)
(* Which branch a node hangs on.  The code climbs from a node while it has *)
(* exactly one incoming edge, and stops at the first edge that leaves a    *)
(* branching node with several outgoing edges.                             *)
(***************************************************************************)
SoleEdges(f, n) == IF Cardinality(Into(f, n)) = 1 THEN Into(f, n) ELSE {}

LeavesBranch(f, e) == f.kind[e[1]] \in BranchKinds /\ Len(f.out[e[1]]) > 1

\* The nodes met on the way up from n.
Climbed(f, n) ==
    LET up[k \in 0..Cardinality(Nodes(f))] ==
          IF k = 0 THEN {n}
          ELSE up[k - 1] \cup
               {e[1] : e \in {d \in UNION {SoleEdges(f, m) : m \in up[k - 1]} :
                                ~LeavesBranch(f, d)}}
    IN  up[Cardinality(Nodes(f))]

\* _resolve_runtime_exclusive_control_origin: the branch edge, if there is one.
Origin(f, n) ==
    {e \in UNION {SoleEdges(f, m) : m \in Climbed(f, n)} : LeavesBranch(f, e)}

\* All edges into n hang on different ports of one branching node.
MutuallyExclusive(f, n) ==
    LET origin == [e \in Into(f, n) |-> Origin(f, e[1])]
    IN  /\ Cardinality(Into(f, n)) > 1
        /\ \A e \in Into(f, n) : origin[e] # {}
        /\ \A d, e \in Into(f, n) : \A x \in origin[d], y \in origin[e] :
              /\ x[1] = y[1]
              /\ d # e => EdgeOf(f, x).port # EdgeOf(f, y).port

\* What an edge is known by at a node that waits: a join counts the input
\* ports that were reached, every other node the edges.
TokenOf(f, e) == IF f.kind[EdgeOf(f, e).to] = "join" THEN <<EdgeOf(f, e).at>> ELSE e

FaultyRequired(f, n) ==
    IF f.kind[n] \in {"if", "while", "retry"} THEN {}
    ELSE IF Cardinality(Into(f, n)) > 1 THEN Into(f, n) ELSE {}

\* The tokens n waits for before it is released.
Required(f, n) ==
    IF f.kind[n] \in {"if", "while", "retry"} THEN {}
    ELSE IF f.kind[n] = "join" THEN {<<p>> : p \in f.branches[n]}
    ELSE IF Cardinality(Into(f, n)) > 1 /\ ~MutuallyExclusive(f, n) THEN Into(f, n)
    ELSE {}

\* _resolve_runtime_foreach_targets: a foreach's first edge is its body, the
\* second its exit, whatever ports they leave from.
LoopBody(f, n) == IF Len(f.out[n]) > 0 THEN f.out[n][1].to ELSE NoNode
LoopExit(f, n) == IF Len(f.out[n]) > 1 THEN f.out[n][2].to ELSE NoNode

\* _resolve_runtime_control_successor_index: the first edge that leads
\* elsewhere than to the nodes excluded.
FirstOut(f, n, excluded) ==
    LET good == {i \in DOMAIN f.out[n] : f.out[n][i].to \notin excluded}
    IN  IF good = {} THEN NoNode
        ELSE f.out[n][CHOOSE i \in good : \A j \in good : i <= j].to
==============================================================================
