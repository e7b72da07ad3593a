---------------------------- MODULE FlowScheduler ----------------------------
(***************************************************************************)
(* The main loop of _run_runtime_session_sync in scheduler mode            *)
(* "flow_graph", with the operations it calls: the queue of node tokens,   *)
(* waiting for all branches, the control nodes, foreach bodies, the limit  *)
(* on steps and cancellation.  One worker thread runs it; only the         *)
(* cancellation comes from another one.                                    *)
(*                                                                         *)
(* What a node does is a choice among the outcomes the loop tells apart.   *)
(* The step limit is the one of the code (MAX_RUNTIME_EXECUTION_STEPS),    *)
(* small here; MaxItems bounds the lists that foreach nodes go through.    *)
(***************************************************************************)
EXTENDS FlowGraph

CONSTANTS Flows, MaxSteps, MaxItems

ASSUME FlowsAssumption == \A f \in Flows : FlowType(f)
ASSUME BoundsAssumption == MaxSteps \in Nat \ {0} /\ MaxItems \in Nat

VARIABLES
    flow,       \* the plan; never changes
    phase,      \* where the loop is
    cur,        \* the token in hand: [node, again]
    queue,      \* pending_node_entries
    queued,     \* queued_node_ids: never cleared
    executed,   \* executed_node_ids
    arrived,    \* join_state_by_node_id: tokens that reached a waiting node
    attempts,   \* retry_state_by_node_id
    steps,      \* execution_step_count, body steps included
    status,     \* node_status
    session,    \* session_status
    reason,     \* failure_reason, as far as it is told apart
    cancelled,  \* cancellation_context.is_cancelled
    route,      \* the loop over cur's outgoing edges: [port, again, next]
    frames,     \* activations of _execute_runtime_foreach_body
    chosen,     \* history: ports each node selected
    runs        \* history: how often the main loop ran a node (0, 1, 2 = more)

vars == <<flow, phase, cur, queue, queued, executed, arrived, attempts, steps,
          status, session, reason, cancelled, route, frames, chosen, runs>>

\* Groups of variables that the actions change together.
queueing == <<queue, queued>>
ending   == <<session, reason>>
history  == <<chosen, runs>>
memory   == <<arrived, attempts>>

Token == [node : Nodes(flow), again : BOOLEAN]
Frame == [node : Nodes(flow), left : 0..MaxItems, at : Nodes(flow) \cup {NoNode},
          seen : SUBSET Nodes(flow), after : Nodes(flow) \cup {NoNode}]
Ports == {AnyPort} \cup UNION {Selectable(flow, n) : n \in Nodes(flow)}
Phases == {"dispatch", "visit", "run", "route", "loop", "body", "end"}
Statuses == {"pending", "running", "completed", "failed", "aborted"}

TypeOK ==
    /\ flow \in Flows
    /\ phase \in Phases
    /\ cur \in Token \cup {[node |-> NoNode, again |-> FALSE]}
    /\ phase \notin {"dispatch", "end"} => cur.node \in Nodes(flow)
    /\ queue \in Seq(Token)
    /\ queued \subseteq Nodes(flow)
    /\ executed \subseteq Nodes(flow)
    /\ DOMAIN arrived = Nodes(flow)
    /\ \A n \in Nodes(flow) :
          arrived[n] \subseteq {TokenOf(flow, e) : e \in Into(flow, n)}
    /\ attempts \in [Nodes(flow) -> Nat]
    /\ steps \in 0..MaxSteps
    /\ status \in [Nodes(flow) -> Statuses]
    /\ session \in {"running", "completed", "failed", "aborted"}
    /\ reason \in {"none", "node", "limit", "cycle", "no_body", "no_target"}
    /\ cancelled \in BOOLEAN
    /\ route \in [port : Ports, again : BOOLEAN, next : Nat \ {0}]
    /\ frames \in Seq(Frame)
    /\ phase \in {"loop", "body"} <=> frames # <<>> /\ phase # "end"
    /\ DOMAIN chosen = Nodes(flow)
    /\ \A n \in Nodes(flow) : chosen[n] \subseteq Selectable(flow, n)
    /\ runs \in [Nodes(flow) -> 0..2]

Init ==
    /\ flow \in Flows
    /\ phase = "dispatch"
    /\ cur = [node |-> NoNode, again |-> FALSE]
    /\ queue = [i \in DOMAIN flow.entry |-> [node |-> flow.entry[i], again |-> FALSE]]
    /\ queued = {flow.entry[i] : i \in DOMAIN flow.entry}
    /\ executed = {}
    /\ arrived = [n \in Nodes(flow) |-> {}]
    /\ attempts = [n \in Nodes(flow) |-> 0]
    /\ steps = 0
    /\ status = [n \in Nodes(flow) |-> "pending"]
    /\ session = "running" /\ reason = "none"
    /\ cancelled = FALSE
    /\ route = [port |-> AnyPort, again |-> FALSE, next |-> 1]
    /\ frames = <<>>
    /\ chosen = [n \in Nodes(flow) |-> {}]
    /\ runs = [n \in Nodes(flow) |-> 0]

----------------------------------------------------------------------------
\* _enqueue_runtime_flow_graph_node: only a repeat token reaches a node that
\* was executed or queued before.
Enqueue(n, again) ==
    IF again
    THEN /\ queue' = Append(queue, [node |-> n, again |-> TRUE])
         /\ UNCHANGED queued
    ELSE IF n \in executed \cup queued THEN UNCHANGED queueing
    ELSE /\ queue' = Append(queue, [node |-> n, again |-> FALSE])
         /\ queued' = queued \cup {n}

EndAs(outcome, why) ==
    /\ phase' = "end" /\ session' = outcome /\ reason' = why

\* dispatch_next_token: the next token, or none and the run is over.
MayDispatch ==
    \/ phase = "dispatch"
    \/ phase = "route" /\ route.next > Len(flow.out[cur.node])

Dispatch ==
    /\ MayDispatch /\ queue # <<>>
    /\ cur' = Head(queue) /\ queue' = Tail(queue)
    /\ phase' = "visit"
    /\ UNCHANGED <<flow, queued, executed, memory, steps, status, ending,
                   cancelled, route, frames, history>>

Exhausted ==
    /\ MayDispatch /\ queue = <<>>
    /\ EndAs("completed", "none")
    /\ UNCHANGED <<flow, cur, queueing, executed, memory, steps, status,
                   cancelled, route, frames, history>>

FaultyStepsLeft == steps <= MaxSteps
StepsLeft == steps < MaxSteps

LimitReached ==
    /\ phase = "visit" /\ ~StepsLeft
    /\ EndAs("failed", "limit")
    /\ UNCHANGED <<flow, cur, queueing, executed, memory, steps, status,
                   cancelled, route, frames, history>>

\* A token that is not a repeat token and whose node was executed since.
Skip ==
    /\ phase = "visit" /\ StepsLeft
    /\ ~cur.again /\ cur.node \in executed
    /\ steps' = steps + 1
    /\ phase' = "dispatch"
    /\ UNCHANGED <<flow, cur, queueing, executed, memory, status, ending,
                   cancelled, route, frames, history>>

StartNode ==
    /\ phase = "visit" /\ StepsLeft
    /\ cur.again \/ cur.node \notin executed
    /\ steps' = steps + 1
    /\ executed' = executed \cup {cur.node}
    /\ status' = [status EXCEPT ![cur.node] = "running"]
    /\ runs' = [runs EXCEPT ![cur.node] = IF @ < 2 THEN @ + 1 ELSE @]
    /\ phase' = "run"
    /\ UNCHANGED <<flow, cur, queueing, memory, ending, cancelled, route,
                   frames, chosen>>

----------------------------------------------------------------------------
(* The outcome of the node in hand.                                         *)

Running == phase = "run" /\ cur.node \notin flow.missing

\* The node's resource is disabled or gone: looked at before cancellation is.
ResourceMissing ==
    /\ phase = "run" /\ cur.node \in flow.missing
    /\ status' = [status EXCEPT ![cur.node] = "failed"]
    /\ EndAs("failed", "node")
    /\ UNCHANGED <<flow, cur, queueing, executed, memory, steps, cancelled,
                   route, frames, history>>

\* Whatever the node returns, a cancelled run makes it a cancelled node.
NodeCancelled ==
    /\ Running /\ cancelled
    /\ status' = [status EXCEPT ![cur.node] = "aborted"]
    /\ EndAs("aborted", "none")
    /\ UNCHANGED <<flow, cur, queueing, executed, memory, steps, cancelled,
                   route, frames, history>>

Connected(n, p) == p \in OutPorts(flow, n)

\* Any node may fail; an input that timed out and an assertion that does not
\* hold must, unless the port for that case is connected.
NodeFails ==
    /\ Running /\ ~cancelled
    /\ status' = [status EXCEPT ![cur.node] = "failed"]
    /\ EndAs("failed", "node")
    /\ UNCHANGED <<flow, cur, queueing, executed, memory, steps, cancelled,
                   route, frames, history>>

FaultyCompletes ==
    /\ Running
    /\ status' = [status EXCEPT ![cur.node] = "completed"]
Completes ==
    /\ Running /\ ~cancelled
    /\ status' = [status EXCEPT ![cur.node] = "completed"]

\* queue_control_edges: begin the loop over the node's outgoing edges.
Send(port, again) ==
    /\ route' = [port |-> port, again |-> again, next |-> 1]
    /\ chosen' = [chosen EXCEPT ![cur.node] = @ \cup {port}]
    /\ phase' = "route"
    /\ UNCHANGED <<flow, cur, queueing, executed, steps, ending, cancelled,
                   frames, runs>>

\* Kinds that pass on the repeat mode they ran with.
PlainDone ==
    /\ Completes
    /\ flow.kind[cur.node] \in {"start", "task", "end", "break", "continue"}
    /\ Send(AnyPort, cur.again)
    /\ UNCHANGED memory

AskDone ==
    /\ Completes /\ flow.kind[cur.node] = "ask"
    /\ \E p \in {"submitted", "timeout"} :
          /\ p = "timeout" => Connected(cur.node, p)
          /\ Send(p, cur.again)
    /\ UNCHANGED memory

\* A passing assertion names no port; a failing one is a success through the
\* port "failed".
AssertDone ==
    /\ Completes /\ flow.kind[cur.node] = "assert"
    /\ \E p \in {AnyPort, "failed"} :
          /\ p = "failed" => Connected(cur.node, p)
          /\ Send(p, cur.again)
    /\ UNCHANGED memory

\* if, switch, failover, fork and join forget the repeat mode.
BranchDone ==
    /\ Completes /\ flow.kind[cur.node] \in {"if", "choice", "join", "fork"}
    /\ \E p \in Selectable(flow, cur.node) : Send(p, FALSE)
    /\ UNCHANGED memory

WhileDone ==
    /\ Completes /\ flow.kind[cur.node] = "while"
    /\ \E p \in {"loop", "done"} : Send(p, p = "loop")
    /\ arrived' = [arrived EXCEPT ![cur.node] = {}]
    /\ UNCHANGED attempts

RetryDone ==
    /\ Completes /\ flow.kind[cur.node] = "retry"
    /\ \E succeeded \in BOOLEAN :
          LET exits == succeeded \/ attempts[cur.node] + 1 >= flow.limit[cur.node]
          IN  Send(IF exits THEN "exhausted" ELSE "attempt", ~exits)
    /\ attempts' = [attempts EXCEPT ![cur.node] = @ + 1]
    /\ UNCHANGED arrived

JumpSkipped ==
    /\ Completes /\ flow.kind[cur.node] = "jump"
    /\ Send(AnyPort, FALSE)
    /\ UNCHANGED memory

JumpDone ==
    /\ Completes /\ flow.kind[cur.node] = "jump"
    /\ flow.target[cur.node] # NoNode
    /\ Enqueue(flow.target[cur.node], TRUE)
    /\ chosen' = [chosen EXCEPT ![cur.node] = @ \cup {Jumped}]
    /\ phase' = "dispatch"
    /\ UNCHANGED <<flow, cur, executed, memory, steps, ending, cancelled, route,
                   frames, runs>>

\* The node was reported completed and is failed again.
JumpFails ==
    /\ Running /\ ~cancelled /\ flow.kind[cur.node] = "jump"
    /\ flow.target[cur.node] = NoNode
    /\ status' = [status EXCEPT ![cur.node] = "failed"]
    /\ EndAs("failed", "no_target")
    /\ UNCHANGED <<flow, cur, queueing, executed, memory, steps, cancelled,
                   route, frames, history>>

----------------------------------------------------------------------------
(* One turn of the loop over the outgoing edges.                            *)

\* The repeat mode of the token for e: an if or while repeats exactly when it
\* is reached at its port "repeat", a retry always does.
FaultyAgain(e, again) == again \/ flow.kind[EdgeOf(flow, e).to] \in BranchKinds
Again(e, again) ==
    LET kind == flow.kind[EdgeOf(flow, e).to]
    IN  IF kind \in {"if", "while"} THEN EdgeOf(flow, e).at = "repeat"
        ELSE again \/ kind = "retry"

FaultyReleased(need, have) == need \cap have # {}
Released(need, have) == need \subseteq have

\* _queue_runtime_control_edge_with_wait_all.  Tokens that arrived are never
\* taken back, so a node released once is released by every later arrival.
Deliver(e, again) ==
    LET n    == EdgeOf(flow, e).to
        need == Required(flow, n)
        have == arrived[n] \cup {TokenOf(flow, e)}
    IN  IF need = {}
        THEN Enqueue(n, Again(e, again)) /\ UNCHANGED arrived
        ELSE /\ arrived' = [arrived EXCEPT ![n] = have]
             /\ IF Released(need, have) THEN Enqueue(n, Again(e, again))
                ELSE UNCHANGED queueing

Follows(e) == route.port \in {AnyPort, EdgeOf(flow, e).port}

SendEdge ==
    /\ phase = "route" /\ route.next <= Len(flow.out[cur.node])
    /\ LET e == <<cur.node, route.next>>
       IN  IF Follows(e) THEN Deliver(e, route.again)
           ELSE UNCHANGED <<queueing, arrived>>
    /\ route' = [route EXCEPT !.next = @ + 1]
    /\ UNCHANGED <<flow, phase, cur, executed, attempts, steps, status, ending,
                   cancelled, frames, history>>

----------------------------------------------------------------------------
(* _execute_runtime_foreach_body.  It walks a chain of nodes, one outgoing  *)
(* edge each, and knows neither tokens nor executed nodes; a foreach in the *)
(* chain calls it again.                                                    *)

Top == frames[Len(frames)]
ReplaceTop(fr) == [frames EXCEPT ![Len(frames)] = fr]
NewFrame(n, items) ==
    [node |-> n, left |-> items, at |-> NoNode, seen |-> {}, after |-> NoNode]

\* Where the run goes on behind a foreach.
Behind(fr) ==
    IF LoopExit(flow, fr.node) # NoNode THEN LoopExit(flow, fr.node) ELSE fr.after

\* The activations above the first k return: to the one below, which goes on
\* with the node behind the last of them, or to the main loop.
ReturnTo(k) ==
    LET next == Behind(frames[k + 1])
    IN  IF k > 0
        THEN /\ frames' = [SubSeq(frames, 1, k) EXCEPT ![k].at = next]
             /\ phase' = "loop"
             /\ UNCHANGED <<queueing, chosen>>
        ELSE /\ frames' = <<>>
             /\ phase' = "dispatch"
             /\ chosen' = [chosen EXCEPT ![cur.node] = @ \cup {LoopLeft}]
             /\ IF next # NoNode THEN Enqueue(next, cur.again)
                ELSE UNCHANGED queueing

\* The same, when only the item ends: the activation at k takes the next one.
NextItemOf(k) ==
    /\ frames' = [SubSeq(frames, 1, k) EXCEPT ![k].at = NoNode]
    /\ phase' = "loop"
    /\ UNCHANGED <<queueing, chosen>>

Lowest(level) == IF level < Len(frames) THEN Len(frames) - level ELSE 0

\* The node in hand is a foreach: its list is read, its body starts.
ForeachStarts ==
    /\ Completes /\ flow.kind[cur.node] = "foreach"
    /\ LoopBody(flow, cur.node) # NoNode
    /\ \E items \in 0..MaxItems : frames' = <<NewFrame(cur.node, items)>>
    /\ phase' = "loop"
    /\ UNCHANGED <<flow, cur, queueing, executed, memory, steps, ending,
                   cancelled, route, history>>

ForeachHasNoBody ==
    /\ Completes /\ flow.kind[cur.node] = "foreach"
    /\ LoopBody(flow, cur.node) = NoNode
    /\ EndAs("failed", "no_body")
    /\ UNCHANGED <<flow, cur, queueing, executed, memory, steps, cancelled,
                   route, frames, history>>

NextItem ==
    /\ phase = "loop" /\ Top.at = NoNode /\ Top.left > 0 /\ ~cancelled
    /\ frames' = ReplaceTop([Top EXCEPT !.left = @ - 1, !.seen = {},
                                        !.at = LoopBody(flow, Top.node)])
    /\ UNCHANGED <<flow, phase, cur, queueing, executed, memory, steps, status,
                   ending, cancelled, route, history>>

LoopIsThrough ==
    /\ phase = "loop" /\ Top.at = NoNode /\ Top.left = 0
    /\ ReturnTo(Len(frames) - 1)
    /\ UNCHANGED <<flow, cur, executed, memory, steps, status, ending, cancelled,
                   route, runs>>

\* Cancellation is looked at before every item and every body node.
LoopCancelled ==
    /\ phase = "loop" /\ cancelled
    /\ Top.at # NoNode \/ Top.left > 0
    /\ EndAs("aborted", "none")
    /\ UNCHANGED <<flow, cur, queueing, executed, memory, steps, status,
                   cancelled, route, frames, history>>

AtBodyNode == phase = "loop" /\ Top.at # NoNode /\ ~cancelled

BodyLimitReached ==
    /\ AtBodyNode /\ ~StepsLeft
    /\ EndAs("failed", "limit")
    /\ UNCHANGED <<flow, cur, queueing, executed, memory, steps, status,
                   cancelled, route, frames, history>>

BodyRevisit ==
    /\ AtBodyNode /\ StepsLeft /\ Top.at \in Top.seen
    /\ steps' = steps + 1
    /\ EndAs("failed", "cycle")
    /\ UNCHANGED <<flow, cur, queueing, executed, memory, status, cancelled,
                   route, frames, history>>

BodyStart ==
    /\ AtBodyNode /\ StepsLeft /\ Top.at \notin Top.seen
    /\ steps' = steps + 1
    /\ status' = [status EXCEPT ![Top.at] = "running"]
    /\ frames' = ReplaceTop([Top EXCEPT !.seen = @ \cup {Top.at}])
    /\ phase' = "body"
    /\ UNCHANGED <<flow, cur, queueing, executed, memory, ending, cancelled,
                   route, history>>

\* A body node's own outcome; here nothing overrules it when the run is
\* cancelled meanwhile.
FaultyBodyFails ==
    /\ phase = "body"
    /\ EndAs("failed", "node")
    /\ UNCHANGED <<flow, cur, queueing, executed, memory, steps, status,
                   cancelled, route, frames, history>>
BodyFails ==
    /\ phase = "body"
    /\ status' = [status EXCEPT ![Top.at] = "failed"]
    /\ EndAs("failed", "node")
    /\ UNCHANGED <<flow, cur, queueing, executed, memory, steps, cancelled,
                   route, frames, history>>

BodyCancelled ==
    /\ phase = "body" /\ cancelled
    /\ status' = [status EXCEPT ![Top.at] = "aborted"]
    /\ EndAs("aborted", "none")
    /\ UNCHANGED <<flow, cur, queueing, executed, memory, steps, cancelled,
                   route, frames, history>>

BodyCompletes ==
    /\ phase = "body"
    /\ status' = [status EXCEPT ![Top.at] = "completed"]
    /\ UNCHANGED <<flow, cur, executed, memory, steps, ending, cancelled, route,
                   runs>>

BodyKind == flow.kind[Top.at]

\* The chain goes on along the first edge that leaves the loop's own nodes,
\* also behind an if, and behind a break or continue that does not apply.
BodyGoesOn ==
    /\ BodyCompletes /\ BodyKind \notin {"foreach", "end"}
    /\ frames' = ReplaceTop([Top EXCEPT !.at =
                    FirstOut(flow, Top.at, {Top.node, LoopExit(flow, Top.node)})])
    /\ phase' = "loop"
    /\ UNCHANGED <<queueing, chosen>>

BodyForeach ==
    /\ BodyCompletes /\ BodyKind = "foreach"
    /\ LoopBody(flow, Top.at) # NoNode
    /\ \E items \in 0..MaxItems : frames' = Append(frames, NewFrame(Top.at, items))
    /\ phase' = "loop"
    /\ UNCHANGED <<queueing, chosen>>

BodyForeachHasNoBody ==
    /\ phase = "body" /\ BodyKind = "foreach"
    /\ LoopBody(flow, Top.at) = NoNode
    /\ status' = [status EXCEPT ![Top.at] = "completed"]
    /\ EndAs("failed", "no_body")
    /\ UNCHANGED <<flow, cur, queueing, executed, memory, steps, cancelled,
                   route, frames, history>>

BodyBreak ==
    /\ BodyCompletes /\ BodyKind = "break"
    /\ ReturnTo(Lowest(flow.level[Top.at]))

BodyContinue ==
    /\ BodyCompletes /\ BodyKind = "continue"
    /\ NextItemOf(Lowest(flow.level[Top.at]) + 1)

\* The end marker ends the item and, the first time, tells where to go on
\* when the foreach has no exit of its own.
BodyEnd ==
    /\ BodyCompletes /\ BodyKind = "end"
    /\ frames' = ReplaceTop([Top EXCEPT !.at = NoNode, !.after =
                    IF @ # NoNode THEN @
                    ELSE FirstOut(flow, Top.at, {Top.node, Top.at})])
    /\ phase' = "loop"
    /\ UNCHANGED <<queueing, chosen>>

----------------------------------------------------------------------------
\* Another thread requests the cancellation of the execution.
Cancel ==
    /\ ~cancelled /\ phase # "end"
    /\ cancelled' = TRUE
    /\ UNCHANGED <<flow, phase, cur, queueing, executed, memory, steps, status,
                   ending, route, frames, history>>

MainStep ==
    \/ Dispatch \/ Exhausted \/ LimitReached \/ Skip \/ StartNode
    \/ ResourceMissing \/ NodeCancelled \/ NodeFails
    \/ PlainDone \/ AskDone \/ AssertDone \/ BranchDone \/ WhileDone
    \/ RetryDone \/ JumpSkipped \/ JumpDone \/ JumpFails
    \/ ForeachStarts \/ ForeachHasNoBody \/ SendEdge

LoopStep ==
    \/ NextItem \/ LoopIsThrough \/ LoopCancelled
    \/ BodyLimitReached \/ BodyRevisit \/ BodyStart
    \/ BodyFails \/ BodyCancelled \/ BodyGoesOn \/ BodyForeach
    \/ BodyForeachHasNoBody \/ BodyBreak \/ BodyContinue \/ BodyEnd

Next == MainStep \/ LoopStep \/ Cancel

Spec == Init /\ [][Next]_vars

\* The worker thread runs on, and a node returns: nodes have timeouts of
\* their own or end when they are cancelled.
FairSpec == Spec /\ WF_vars(MainStep \/ LoopStep)

----------------------------------------------------------------------------
(* Properties                                                               *)

\* Every way out of the loop settles the nodes it touched: when the run is
\* over no node is left "running", a completed session has neither failed nor
\* aborted nodes, a session fails because of a node exactly when a node is
\* failed, and it is aborted only when it was cancelled.
OutcomeAgrees ==
    phase = "end" =>
        /\ \A n \in Nodes(flow) : status[n] # "running"
        /\ session = "completed" =>
              \A n \in Nodes(flow) : status[n] \in {"pending", "completed"}
        /\ reason \in {"node", "no_target"} <=>
              \E n \in Nodes(flow) : status[n] = "failed"
        /\ session = "aborted" => cancelled

LoopFree(f) ==
    /\ \A n \in Nodes(f) : f.kind[n] \notin {"while", "retry", "jump", "foreach"}
    /\ \A e \in Edges(f) : EdgeOf(f, e).at # "repeat"

\* Without loops, retries and jumps a node runs at most once, however many
\* branches lead to it and however often a join is released.
RunsOnce == LoopFree(flow) => \A n \in Nodes(flow) : runs[n] <= 1

\* Flows of plain steps, forks and joins in which everything is connected:
\* no cycle, every node is an entry or has an incoming edge, every declared
\* port of a join is reached by an edge, joins are left through "out".
Straight(f) ==
    /\ \A n \in Nodes(f) : f.kind[n] \in {"start", "task", "fork", "join"}
    /\ \A S \in SUBSET Nodes(f) :
          S # {} => \E n \in S : \A e \in Into(f, n) : e[1] \notin S
    /\ \A n \in Nodes(f) :
          \/ \E i \in DOMAIN f.entry : f.entry[i] = n
          \/ Into(f, n) # {}
    /\ \A n \in Nodes(f) : f.kind[n] = "join" =>
          /\ \A p \in f.branches[n] : \E e \in Into(f, n) : EdgeOf(f, e).at = p
          /\ OutPorts(f, n) \subseteq {"out"}

\* In such a flow nobody waits for a token that never comes: a session that
\* completes has executed every node.
AllReached ==
    session = "completed" /\ Straight(flow) => executed = Nodes(flow)

\* Order between nodes: a node starts only when nodes that ran before it
\* delivered, through ports they selected, all tokens it waits for.
Order == INSTANCE FlowOrder WITH fired <- executed
ImplementsFlowOrder == Order!Spec

\* Every run ends, whatever loops the flow contains.
RunEnds == <>(phase = "end")

\* A node is in hand, or will be when its token's turn comes.
WorkLeft ==
    \/ phase = "run"
    \/ \E i \in DOMAIN queue : queue[i].again \/ queue[i].node \notin executed

\* A run that is cancelled while work is left never ends as completed.
CancelEndsRun == (cancelled /\ WorkLeft) ~> session \in {"aborted", "failed"}

\* Nodes that stay pending in a completed session are reported as
\* "unreachable": then no token is waiting at them.
SkippedAreUnreachable ==
    session = "completed" =>
        \A n \in Nodes(flow) : status[n] = "pending" => arrived[n] = {}

\* The failed port of an assertion is the branch for assertions that fail: a
\* node that only this port leads to runs only after such a failure.
FailedBranchNeedsFailure ==
    \A n \in executed : \A e \in SoleEdges(flow, n) :
        flow.kind[e[1]] = "assert" /\ EdgeOf(flow, e).port = "failed"
            => "failed" \in chosen[e[1]]
==============================================================================
