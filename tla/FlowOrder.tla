------------------------------ MODULE FlowOrder ------------------------------
(***************************************************************************)
(* What a run of a flow promises about order, without queues, counters or  *)
(* loops' bookkeeping: a node fires for the first time only when nodes     *)
(* that fired before it, through the ports they chose, delivered every     *)
(* token it waits for.  What a node waits for is a parameter, as all that  *)
(* concerns the graph alone.  FlowScheduler is shown to implement this     *)
(* for the graph operators of module FlowGraph.                            *)
(***************************************************************************)
CONSTANTS
    Flows, Nodes(_), NoNode,
    Into(_, _),          \* the edges into a node
    EdgeOf(_, _),        \* what an edge is: its port
    TokenOf(_, _),       \* the token an edge brings
    Required(_, _),      \* the tokens a node waits for
    LoopExit(_, _),      \* the node a foreach leads to, or NoNode
    Selectable(_, _),    \* the ports, or marks, a node may select
    AnyPort, Jumped, LoopLeft

VARIABLES
    flow,      \* the flow that runs
    fired,     \* nodes that were executed by the main loop
    chosen     \* per node, the ports its executions selected so far

vars == <<flow, fired, chosen>>

Delivered(e) ==
    e[1] \in fired /\ {AnyPort, EdgeOf(flow, e).port} \cap chosen[e[1]] # {}

\* n was named by a jump, or follows a finished foreach: as its exit or, when
\* the foreach has none, behind the end marker of its body.
Directed(n) ==
    \E m \in fired :
        \/ Jumped \in chosen[m] /\ flow.target[m] = n
        \/ /\ LoopLeft \in chosen[m]
           /\ \/ LoopExit(flow, m) = n
              \/ /\ LoopExit(flow, m) = NoNode
                 /\ \E e \in Into(flow, n) : flow.kind[e[1]] = "end"

AllDelivered(n) ==
    /\ \E e \in Into(flow, n) : Delivered(e)
    /\ \A t \in Required(flow, n) :
          \E e \in Into(flow, n) : Delivered(e) /\ TokenOf(flow, e) = t

Ready(n) ==
    \/ \E i \in DOMAIN flow.entry : flow.entry[i] = n
    \/ Directed(n)
    \/ AllDelivered(n)

Init == /\ flow \in Flows
        /\ fired = {}
        /\ chosen = [n \in Nodes(flow) |-> {}]

Fire(n) == /\ n \notin fired /\ Ready(n)
           /\ fired' = fired \cup {n}
           /\ UNCHANGED <<flow, chosen>>

Choose(n, p) == /\ n \in fired
                /\ chosen' = [chosen EXCEPT ![n] = @ \cup {p}]
                /\ UNCHANGED <<flow, fired>>

Next == \E n \in Nodes(flow) : Fire(n) \/ \E p \in Selectable(flow, n) : Choose(n, p)

Spec == Init /\ [][Next]_vars
==============================================================================
