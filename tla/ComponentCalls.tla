--------------------------- MODULE ComponentCalls ---------------------------
(* The nodes of a runtime session that call a component: user components, *)
(* custom node graphs, blueprints and subgraphs. A call runs the graph of *)
(* the component in its caller's thread, in a runtime context of its own  *)
(* or, with share_parent_variables, in the context of the caller; a       *)
(* component may call others. compilation_workbench_service.py, from      *)
(* _execute_runtime_plan_node to _execute_component_graph_runtime, and    *)
(* the loops that run the nodes of the session.                           *)
(*                                                                        *)
(* Which node comes next is FlowScheduler's subject; here a graph is any  *)
(* sequence of nodes, the variables are left out, and a context is the    *)
(* stack of calls it holds. Pauses of the debugger are left out; the end  *)
(* of a worker by an exception outside of its nodes is RuntimeSession's.  *)
(*                                                                        *)
(* Definitions named Faulty... are seeded faults of the definition that   *)
(* follows them; nothing else uses them.                                  *)
EXTENDS Naturals, Sequences, SequencesExt

CONSTANTS
    Components,      \* resource ids of the components
    MaxDepth,        \* MAX_COMPONENT_CALL_DEPTH
    MaxCalls         \* bound: calls of a session

ASSUME CallsAssumption == MaxDepth \in Nat /\ MaxCalls \in Nat

VARIABLES
    frames,      \* the calls that are under way, the innermost last
    contexts,    \* flow_runtime["component_call_stack"] of each open context
    node,        \* the node of the innermost graph: "ready" to run, or its result
    inLoop,      \* the session's own node, or its next, is in the body of a foreach
    cancelled,   \* cancellation_context.is_cancelled
    outcome,     \* session_status
    calls,       \* number of calls so far
    shared,      \* history: some call used the context of its caller
    undeserved,  \* history: a call was refused that was not recursive
    cutShort     \* history: the cancellation cut a node short, at some depth

callVars == <<frames, contexts, node, inLoop, cancelled, outcome, calls, shared, undeserved,
              cutShort>>

Results == {"succeeded", "failed", "cancelled"}
CallKinds == {"component", "custom", "blueprint", "subgraph"}

\* A component graph that runs inside a call. Of the state it has of its own,
\* its context is what its caller could notice.
Frame == [component : Components, kind : CallKinds, context : Nat, own : BOOLEAN]

CallsInit ==
    /\ frames = <<>> /\ contexts = <<(<<>>)>>
    /\ node = "ready" /\ inLoop = FALSE
    /\ cancelled = FALSE /\ outcome = "running"
    /\ calls = 0 /\ shared = FALSE /\ undeserved = FALSE /\ cutShort = FALSE

Here == IF frames = <<>> THEN 1 ELSE Last(frames).context
Calling(c) == \E i \in DOMAIN frames : frames[i].component = c

\* A node of the innermost graph is run. The body of a foreach looks at the
\* cancellation before each of its nodes, the loop of the session does not.
RunsNode ==
    /\ outcome = "running" /\ node = "ready"
    /\ frames = <<>> => ~(inLoop /\ cancelled)
    /\ UNCHANGED <<inLoop, outcome>>

\* Any node that calls nothing. One that waits is cut short by a cancellation,
\* also by one that comes while it waits; others do not notice it.
RunPlainNode ==
    /\ RunsNode
    /\ cancelled' \in {cancelled, TRUE}
    /\ node' \in IF cancelled' THEN Results ELSE {"succeeded", "failed"}
    /\ cutShort' = (node' = "cancelled")
    /\ UNCHANGED <<frames, contexts, calls, shared, undeserved>>

\* BUG PATTERN: a context of its own knows only the call it was made for.
FaultyExtended(stack, c) == <<c>>

\* next_call_stack
Extended(stack, c) == Append(stack, c)

\* _execute_component_call: a component that is being called, or one too many,
\* is refused; else its graph runs. The stack of calls is put into the context
\* it runs in, also when that is its caller's, and is not taken back.
EnterCall(kind, c, share) ==
    LET stack == contexts[Here]
        deep == Len(stack) >= MaxDepth
    IN  IF c \in ToSet(stack) \/ deep
        THEN /\ node' = "failed"
             /\ undeserved' = (undeserved \/ ~(Calling(c) \/ Len(frames) >= MaxDepth))
             /\ UNCHANGED <<frames, contexts, shared>>
        ELSE /\ contexts' = IF share THEN [contexts EXCEPT ![Here] = Extended(stack, c)]
                            ELSE Append(contexts, Extended(stack, c))
             /\ frames' = Append(frames, [component |-> c, kind |-> kind, own |-> ~share,
                                          context |-> IF share THEN Here ELSE Len(contexts) + 1])
             /\ shared' = (shared \/ share)
             /\ UNCHANGED <<node, undeserved>>

\* The component is not there, is disabled or has no graph, or the mapping of
\* the inputs and outputs is none: the node fails before it calls anything.
Misfit == node' = "failed" /\ UNCHANGED <<frames, contexts, shared, undeserved>>

Counted == calls < MaxCalls /\ calls' = calls + 1 /\ UNCHANGED <<cancelled, cutShort>>

CallComponent(c, share) ==
    RunsNode /\ Counted /\ (Misfit \/ EnterCall("component", c, share))

\* _execute_custom_node_graph_resource
CallCustom(c, share) ==
    RunsNode /\ Counted /\ (Misfit \/ EnterCall("custom", c, share))

CallBlueprint(c, share) ==
    RunsNode /\ Counted /\ (Misfit \/ EnterCall("blueprint", c, share))

CallSubgraph(c, share) ==
    RunsNode /\ Counted /\ (Misfit \/ EnterCall("subgraph", c, share))

\* The call returns result to the node that made it; a context of its own is
\* closed with it.
LeaveCall(result) ==
    /\ frames' = Front(frames)
    /\ contexts' = IF Last(frames).own THEN Front(contexts) ELSE contexts
    /\ node' = result
    /\ UNCHANGED <<inLoop, cancelled, outcome, calls, shared, undeserved>>

\* The graph has no node left: it succeeds, or fails because its output node
\* was not reached, its steps exceed their limit, or, for a subgraph, what it
\* returns does not fit the schema.
ComponentEnds ==
    /\ outcome = "running" /\ frames # <<>> /\ node = "ready"
    /\ \E result \in {"succeeded", "failed"} : LeaveCall(result)
    /\ UNCHANGED cutShort

\* A node that fails or is cancelled, or whose resource is missing or disabled,
\* ends its component, and the call fails in every case.
ComponentBreaks ==
    /\ outcome = "running" /\ frames # <<>> /\ node \in {"failed", "cancelled"}
    /\ LeaveCall("failed") /\ UNCHANGED cutShort

\* A node of a component was completed.
NodeSucceeded == outcome = "running" /\ frames # <<>> /\ node = "succeeded"

\* The node's successors are queued (the order among them is FlowScheduler's
\* subject), in the linear mode the next one of the list follows, and another
\* node of the component is reached.
NextNode ==
    /\ NodeSucceeded
    /\ node' = "ready"
    /\ UNCHANGED <<frames, contexts, inLoop, cancelled, outcome, calls, shared, undeserved,
                   cutShort>>

\* A foreach of the component has no body, its items are no list, its body comes
\* back to a node or takes too many steps: the component fails.
LoopFails == NodeSucceeded /\ LeaveCall("failed") /\ UNCHANGED cutShort

\* A jump leads to a node the component does not have.
JumpMisses == NodeSucceeded /\ LeaveCall("failed") /\ UNCHANGED cutShort

\* The next node of the body of a component's foreach finds the session
\* cancelled, which ends the component; its call fails, as for any other result.
\* Which nodes of a component are in such a body is left open.
LoopCancelledInside ==
    /\ outcome = "running" /\ frames # <<>> /\ node = "ready" /\ cancelled
    /\ LeaveCall("failed") /\ cutShort' = TRUE

\* _run_runtime_session_sync looks at the cancellation after the node, the body
\* of a foreach only at its result.
Verdict ==
    IF node = "cancelled" \/ (cancelled /\ ~inLoop) THEN "aborted" ELSE node

\* Where the flow leads next, into the body of a foreach or out of it, is open.
SessionNodeEnds ==
    /\ outcome = "running" /\ frames = <<>> /\ node # "ready"
    /\ node' = "ready"
    /\ IF Verdict = "succeeded"
       THEN inLoop' \in BOOLEAN /\ UNCHANGED outcome
       ELSE outcome' = Verdict /\ UNCHANGED inLoop
    /\ UNCHANGED <<frames, contexts, cancelled, calls, shared, undeserved, cutShort>>

\* The session ends between two nodes of its own.
Ends(result) ==
    /\ outcome = "running" /\ frames = <<>> /\ node = "ready"
    /\ outcome' = result
    /\ UNCHANGED <<frames, contexts, node, inLoop, cancelled, calls, shared, undeserved, cutShort>>

SessionEnds == ~inLoop /\ Ends("completed")

\* The next node of a foreach body finds the session cancelled.
LoopCancelled == inLoop /\ cancelled /\ Ends("aborted")

\* Ends that do not look at the cancellation: too many steps, in the session or
\* in the body of a foreach ...
StepsRunOut == Ends("failed")

\* ... the resource of the session's next node is missing or disabled ...
NodeUnfit == ~inLoop /\ Ends("failed")

\* ... a foreach has no body, its items are no list, its body comes back to a
\* node ...
ForeachFails == Ends("failed")

\* ... and a jump leads to a node that is not there. The cancellation may come
\* after Verdict looked at it.
SessionJumpMisses == ~inLoop /\ Ends("failed")

\* Another thread asks the session to stop.
RequestCancel ==
    /\ outcome = "running" /\ ~cancelled
    /\ cancelled' = TRUE
    /\ UNCHANGED <<frames, contexts, node, inLoop, outcome, calls, shared, undeserved, cutShort>>

CallsNext ==
    \/ RunPlainNode \/ ComponentEnds \/ ComponentBreaks \/ NextNode
    \/ LoopFails \/ JumpMisses \/ LoopCancelledInside
    \/ SessionNodeEnds \/ SessionEnds \/ LoopCancelled \/ RequestCancel
    \/ StepsRunOut \/ NodeUnfit \/ ForeachFails \/ SessionJumpMisses
    \/ \E c \in Components, share \in BOOLEAN :
         \/ CallComponent(c, share) \/ CallCustom(c, share)
         \/ CallBlueprint(c, share) \/ CallSubgraph(c, share)

CallsSpec == CallsInit /\ [][CallsNext]_callVars

(* ---------------------------------------------------------------- *)
(* Properties.                                                      *)

CallsTypeOK ==
    /\ frames \in Seq(Frame)
    /\ contexts \in Seq(Seq(Components)) /\ Len(contexts) > 0
    /\ node \in Results \cup {"ready"}
    /\ outcome \in {"running", "completed", "failed", "aborted"}
    /\ inLoop \in BOOLEAN /\ cancelled \in BOOLEAN
    /\ calls \in Nat /\ shared \in BOOLEAN /\ undeserved \in BOOLEAN /\ cutShort \in BOOLEAN

\* However calls with and without a context of their own are nested, no
\* component is ever inside itself and no call is deeper than the limit; and a
\* call is refused for that reason only when it is so. Sessions that shared the
\* context of a caller are excepted from the second half: the stack of the
\* shared call stays behind in the context, and the next call of the same
\* component counts as recursive.
CallsNest ==
    /\ Len(frames) <= MaxDepth
    /\ \A i, j \in DOMAIN frames : frames[i].component = frames[j].component => i = j
    /\ undeserved => shared

\* A session of which the cancellation cut a node short, however deep in its
\* calls, ends as aborted and runs nothing more, although every component on the
\* way out returns its cancelled node as a failure. The body of a foreach is
\* excepted: it takes the failure of a component for one of its own. A session
\* that was cancelled between two nodes may still end as failed or completed.
CutShortAborts ==
    cutShort /\ ~inLoop => \/ outcome = "aborted"
                           \/ outcome = "running" /\ node \in {"failed", "cancelled"}

\* Both, through any depth of calls.
CallsAreSound == CallsNest /\ CutShortAborts
=============================================================================
