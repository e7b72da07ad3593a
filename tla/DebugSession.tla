---------------------------- MODULE DebugSession ----------------------------
(***************************************************************************)
(* A debug session: the thread that executes the plan node by node and     *)
(* stores the session document at every step (_run_debug_session_sync),    *)
(* the event it waits at while the session is paused, and the API threads  *)
(* that continue, step, pause and abort it.                                *)
(*                                                                         *)
(* Definitions named Faulty... are seeded faults of the definition that    *)
(* follows them; nothing else uses them.                                   *)
(*                                                                         *)
(* The thread works on a copy of the document; a request reads the         *)
(* document, writes a changed copy back and then signals the thread, or    *)
(* starts one.  Each of these is an action of its own, because the store   *)
(* is locked for one access only.  The position a pause leaves behind is   *)
(* the scheduler snapshot in the document; resuming restores the scheduler *)
(* from it.                                                                *)
(*                                                                         *)
(* A plan's nodes are plain steps, waiting steps and while loops (the      *)
(* other control nodes are in FlowScheduler).  What a breakpoint's gate    *)
(* says and whether a risky node fails is any choice.  One client          *)
(* continues and steps, one pauses and one aborts.                         *)
(***************************************************************************)
EXTENDS Naturals, Sequences, FiniteSets, SequencesExt, Filtering

CONSTANTS
    Plans,        \* the plans that are debugged
    Nowhere,      \* no node
    MaxTokens     \* bound on the tokens an undisturbed run dispatches

VARIABLES
    plan,         \* runtime_plan; never changes
    doc,          \* the session's document in the workspace state
    thread,       \* where the thread stands ("none": not registered)
    mine,         \* the thread's copy: document, scheduler and step count
    resume,       \* the resume event
    remembered,   \* the session is in _debug_execution_states
    context,      \* ... and in _debug_runtime_contexts
    pauseFlag,    \* pause_requested
    abortFlag,    \* abort_requested
    turns,        \* what the loops' conditions depend on, in the variables
    control,      \* the client that continues and steps: [pc, what, seen]
    pauser,       \* the client that pauses: "idle" or "asked"
    aborter,      \* the client that aborts: "idle", "asked" or "written"
    ran,          \* history: nodes that were completed or skipped, in order
    stepped,      \* history: nodes completed since the last request (2: more)
    overwritten   \* history: a request replaced a terminal document

memoryVars == <<remembered, context, pauseFlag, abortFlag>>
requestVars == <<control, pauser, aborter, overwritten>>
debugVars == <<plan, doc, thread, mine, resume, remembered, context, pauseFlag,
               abortFlag, turns, control, pauser, aborter, ran, stepped, overwritten>>

Active == {"preparing", "running", "paused", "stepping"}
Terminal == {"completed", "failed", "aborted", "incomplete"}
Timings == {"none", "before", "after", "both"}

(***************************************************************************)
(* A plan is a record: order (executable_nodes), start (its entry node),   *)
(* out (node -> sequence of [to, back] edges, back for an edge into the    *)
(* repeat port of a loop), times (how often a loop turns, 0 for any other  *)
(* node; a loop's first edge is its body), stops (pause_timing of a node's *)
(* breakpoint), inner (nodes that are components) and risky (nodes that    *)
(* may fail).                                                              *)
(***************************************************************************)
PlanNodes(p) == {p.order[i] : i \in DOMAIN p.order}
Looping(p, n) == p.times[n] > 0
Sources(p, n) == {m \in PlanNodes(p) : \E i \in DOMAIN p.out[m] : p.out[m][i].to = n}
Awaits(p, n) ==
    IF Looping(p, n) \/ Cardinality(Sources(p, n)) = 1 THEN {} ELSE Sources(p, n)

\* Plans whose document begins with the entry node, without loops and
\* components.
Simple(p) ==
    /\ p.order[1] = p.start /\ p.inner = {}
    /\ \A n \in PlanNodes(p) : ~Looping(p, n)

PlanType(p) ==
    /\ p.order \in Seq(PlanNodes(p)) /\ p.start \in PlanNodes(p) /\ Nowhere \notin PlanNodes(p)
    /\ p.out \in [PlanNodes(p) -> Seq([to : PlanNodes(p), back : BOOLEAN])]
    /\ p.times \in [PlanNodes(p) -> Nat]
    /\ \A n \in PlanNodes(p) : Looping(p, n) => p.out[n] # <<>>
    /\ p.stops \in [PlanNodes(p) -> Timings]
    /\ p.inner \subseteq PlanNodes(p) /\ p.risky \subseteq PlanNodes(p)

ASSUME PlansAssumption ==
    /\ MaxTokens \in Nat
    /\ \A p \in Plans : PlanType(p) /\ (Simple(p) => Len(p.order) <= MaxTokens)

-----------------------------------------------------------------------------
(* The scheduler: queue (pending_node_entries), queued, done (executed     *)
(* nodes in order), arrived (tokens at waiting nodes).                     *)

EmptySchedule == [queue |-> <<>>, queued |-> {}, done |-> <<>>, arrived |-> {}]
Executed(s) == {s.done[i] : i \in DOMAIN s.done}

\* _enqueue_runtime_flow_graph_node
PutToken(s, n, again) ==
    IF again THEN [s EXCEPT !.queue = Append(@, [node |-> n, again |-> TRUE])]
    ELSE IF n \in Executed(s) \cup s.queued THEN s
    ELSE [s EXCEPT !.queue = Append(@, [node |-> n, again |-> FALSE]),
                   !.queued = @ \cup {n}]

\* _queue_runtime_control_edge_with_wait_all for one edge of m.
Follow(p, s, m, edge, again) ==
    LET t == [s EXCEPT !.arrived = @ \cup {<<m, edge.to>>}]
    IN  IF \A w \in Awaits(p, edge.to) : <<w, edge.to>> \in t.arrived
        THEN PutToken(t, edge.to, IF Looping(p, edge.to) THEN edge.back ELSE again)
        ELSE t

FollowAll(p, s, m, edges, again) ==
    LET sent[i \in 0 .. Len(edges)] ==
          IF i = 0 THEN s ELSE Follow(p, sent[i - 1], m, edges[i], again)
    IN  sent[Len(edges)]

\* A node that is through: its successors are queued.  turned is how often
\* a loop has turned before.
Through(p, s, n, again, turned) ==
    LET t == [s EXCEPT !.done = Append(@, n)]
    IN  IF ~Looping(p, n) THEN FollowAll(p, t, n, p.out[n], again)
        ELSE IF turned < p.times[n] THEN FollowAll(p, t, n, <<p.out[n][1]>>, TRUE)
        ELSE FollowAll(p, t, n, Tail(p.out[n]), FALSE)

\* dispatch_next_token
NextAt(s) == IF s.queue = <<>> THEN [node |-> Nowhere, again |-> FALSE] ELSE Head(s.queue)
Dispatched(s) == [s EXCEPT !.queue = IF @ = <<>> THEN @ ELSE Tail(@)]

\* A run that nobody disturbs, token by token, and the order in which it
\* completes the nodes: the entry node first (_run_runtime_session_sync).
FirstTurn(p) ==
    [at |-> [node |-> p.start, again |-> FALSE], turned |-> [n \in PlanNodes(p) |-> 0],
     s |-> [EmptySchedule EXCEPT !.queued = {p.start}]]
NextTurn(p, x) ==
    LET n == x.at.node
        skips == ~x.at.again /\ n \in Executed(x.s)
        s == IF skips THEN x.s ELSE Through(p, x.s, n, x.at.again, x.turned[n])
    IN  IF n = Nowhere THEN x
        ELSE [at |-> NextAt(s), s |-> Dispatched(s),
              turned |-> [x.turned EXCEPT ![n] = IF skips THEN @ ELSE @ + 1]]
UndisturbedRun(p) ==
    LET run[k \in 0 .. MaxTokens] == IF k = 0 THEN FirstTurn(p) ELSE NextTurn(p, run[k - 1])
    IN  run
UndisturbedOrder(p) == UndisturbedRun(p)[MaxTokens].s.done

-----------------------------------------------------------------------------
(* The document.  at, again: the preview's current node; queue, done,      *)
(* arrived: its scheduler; fromQueue, cursor: resume_from_pending_queue    *)
(* and resume_cursor; skip, leave: resume_skip_breakpoint_once and         *)
(* exception_skip_node_once; raised: paused for an exception; pausedAt,    *)
(* hit: the nodes of the last debug.paused and, per node, the timing of    *)
(* its last breakpoint.hit event; inside: the outer node of                *)
(* pending_component_pause.                                                *)

NoToken == [node |-> Nowhere, again |-> FALSE]

\* _build_initial_debug_current_node: the first node of the document, not
\* the entry node.
FirstDoc(p) ==
    [status |-> "preparing", mode |-> "none", at |-> [node |-> p.order[1], again |-> FALSE],
     queue |-> <<>>, done |-> <<>>, arrived |-> {}, fromQueue |-> FALSE, cursor |-> NoToken,
     skip |-> Nowhere, leave |-> Nowhere, raised |-> FALSE, pausedAt |-> Nowhere,
     hit |-> [n \in PlanNodes(p) |-> "none"], inside |-> Nowhere]

DebugInit ==
    /\ plan \in Plans
    /\ doc = FirstDoc(plan)
    /\ thread = "unstarted"
    /\ mine = [doc |-> doc, s |-> EmptySchedule, at |-> NoToken, count |-> 0]
    /\ resume = FALSE
    /\ remembered = TRUE /\ context = FALSE
    /\ pauseFlag = FALSE /\ abortFlag = FALSE
    /\ turns = [n \in PlanNodes(plan) |-> 0]
    /\ control = [pc |-> "idle", what |-> "none", seen |-> doc]
    /\ pauser = "idle" /\ aborter = "idle"
    /\ ran = <<>> /\ stepped = 0 /\ overwritten = FALSE

Alive == thread \notin {"none", "unstarted"}
Ended(d) == d.status \in Terminal

-----------------------------------------------------------------------------
(* The thread.                                                             *)

ThreadOnly == UNCHANGED <<plan, control, pauser, aborter, overwritten>>
NothingRan == UNCHANGED <<turns, ran, stepped>>

\* _mark_debug_worker_failed
FailWorker ==
    /\ doc' = IF Ended(doc) THEN doc ELSE [doc EXCEPT !.status = "failed"]
    /\ thread' = "releasing"

\* finalize_preview fails once the execution state is gone; then the copy is
\* written over whatever the document says now.
Store(d, next) ==
    IF remembered THEN doc' = d /\ thread' = next ELSE FailWorker

\* build_scheduler_snapshot
Snapshot(d, at, s) ==
    [d EXCEPT !.at = at, !.queue = s.queue, !.done = s.done, !.arrived = s.arrived]

Pausing(d, node) == [d EXCEPT !.status = "paused", !.raised = FALSE, !.pausedAt = node]
Ending(d, status) ==
    [d EXCEPT !.status = status, !.inside = Nowhere, !.raised = FALSE]

FaultyRestored(d) ==
    [queue |-> d.queue, queued |-> {d.queue[i].node : i \in DOMAIN d.queue},
     done |-> d.done, arrived |-> {}]

\* restore_scheduler_snapshot
Restored(d) ==
    [queue |-> d.queue, queued |-> {d.queue[i].node : i \in DOMAIN d.queue},
     done |-> d.done, arrived |-> d.arrived]

Unqueued(s, n) ==
    [s EXCEPT !.queued = @ \ {n}, !.queue = Kept(@, {[node |-> m, again |-> g] :
                                                   m \in PlanNodes(plan) \ {n}, g \in BOOLEAN})]

\* The tokens of a preview are queued.
PutAll(s, tokens) ==
    LET put[i \in 0 .. Len(tokens)] ==
          IF i = 0 THEN s ELSE PutToken(put[i - 1], tokens[i].node, tokens[i].again)
    IN  put[Len(tokens)]

\* Where the run goes on.  Without a cursor the preview's tokens, already
\* restored, are queued a second time, and the repeat tokens among them stay.
Resumption(d) ==
    LET base  == Restored(d)
        again == PutAll(base, d.queue)
        node  == IF d.inside # Nowhere THEN d.inside ELSE d.at.node
        first == PutToken(base, plan.start, FALSE)
        kept  == [d EXCEPT !.fromQueue = FALSE]
    IN  IF d.cursor.node # Nowhere
        THEN [doc |-> [kept EXCEPT !.cursor = NoToken], at |-> d.cursor,
              s |-> [base EXCEPT !.queued = @ \ {d.cursor.node}], count |-> 0]
        ELSE IF node = Nowhere
        THEN [doc |-> kept, at |-> NextAt(first), s |-> Dispatched(first), count |-> 0]
        ELSE IF d.fromQueue
        THEN [doc |-> kept, at |-> NextAt(again), s |-> Dispatched(again), count |-> 0]
        ELSE [doc |-> kept, at |-> [node |-> node, again |-> d.at.again],
              s |-> Unqueued(again, node), count |-> 0]

\* The thread reads the document and builds its copy.
Load ==
    /\ thread = "starting"
    /\ IF Ended(doc) THEN thread' = "ending" /\ UNCHANGED <<doc, mine, context>>
       ELSE IF ~remembered THEN FailWorker /\ UNCHANGED <<mine, context>>
       ELSE /\ mine' = Resumption(doc)
            /\ context' = TRUE /\ thread' = "begin"
            /\ UNCHANGED doc
    /\ ThreadOnly /\ NothingRan /\ UNCHANGED <<resume, remembered, pauseFlag, abortFlag>>

Running(d) == [d EXCEPT !.status = "running", !.raised = FALSE, !.fromQueue = FALSE]

\* handle_manual_debug_control_requests, or else go on with `otherwise`.
Requested(d, at, shown, s, fromQueue, cursor, otherwise) ==
    /\ IF abortFlag
       THEN Store(Snapshot(Ending(d, "aborted"), at, s), "releasing")
       ELSE IF pauseFlag
       THEN Store(Snapshot([Pausing(d, d.at.node) EXCEPT !.inside = Nowhere,
                              !.fromQueue = fromQueue, !.cursor = cursor], shown, s), "waiting")
       ELSE otherwise
    /\ pauseFlag' = (pauseFlag /\ (abortFlag \/ ~remembered))

Begin ==
    /\ thread = "begin"
    /\ LET d == Snapshot(Running(mine.doc), mine.at, mine.s)
           goOn == IF mine.at.node = Nowhere THEN thread' = "visit" /\ UNCHANGED doc
                   ELSE Store(d, "visit")
       IN  /\ Requested(mine.doc, mine.at, mine.at, mine.s, FALSE, NoToken, goOn)
           /\ mine' = IF mine.at.node = Nowhere THEN mine ELSE [mine EXCEPT !.doc = d]
    /\ ThreadOnly /\ NothingRan /\ UNCHANGED <<resume, remembered, context, abortFlag>>

AtNode == thread = "visit" /\ mine.at.node # Nowhere
Stale == ~mine.at.again /\ mine.at.node \in Executed(mine.s)

\* No token is left: the session is completed.
Finish ==
    /\ thread = "visit" /\ mine.at.node = Nowhere
    /\ Store(Snapshot(Ending(mine.doc, "completed"), NoToken, mine.s), "releasing")
    /\ ThreadOnly /\ NothingRan /\ UNCHANGED <<mine, resume, memoryVars>>

Drop ==
    /\ AtNode /\ Stale
    /\ mine' = [mine EXCEPT !.at = NextAt(mine.s), !.s = Dispatched(@)]
    /\ ThreadOnly /\ NothingRan /\ UNCHANGED <<doc, thread, resume, memoryVars>>

\* The node that raised the exception is left out and all its edges followed.
LeaveOut ==
    /\ AtNode /\ ~Stale /\ mine.doc.leave = mine.at.node
    /\ LET n == mine.at.node
           s == FollowAll(plan, [mine.s EXCEPT !.done = Append(@, n)], n, plan.out[n], mine.at.again)
       IN  mine' = [doc |-> [mine.doc EXCEPT !.leave = Nowhere, !.inside = Nowhere],
                    at |-> NextAt(s), s |-> Dispatched(s), count |-> mine.count]
    /\ ran' = Append(ran, mine.at.node)
    /\ ThreadOnly /\ UNCHANGED <<doc, thread, resume, memoryVars, turns, stepped>>

ToRun == AtNode /\ ~Stale /\ mine.doc.leave # mine.at.node

\* The breakpoint before the node is looked at, unless a step is due.
Guarded(n) == plan.stops[n] \in {"before", "both"} /\ mine.doc.mode # "step"

StopBefore(hit) ==
    /\ ToRun /\ Guarded(mine.at.node) /\ mine.doc.skip # mine.at.node
    /\ LET n == mine.at.node
           d == [Pausing(mine.doc, n) EXCEPT !.hit[n] = IF hit THEN "before" ELSE @]
       IN  Store(Snapshot(d, mine.at, mine.s), "waiting")
    /\ ThreadOnly /\ NothingRan /\ UNCHANGED <<mine, resume, memoryVars>>

StartNode ==
    /\ ToRun
    /\ LET n == mine.at.node
           past == IF Guarded(n) /\ mine.doc.skip = n THEN Nowhere ELSE mine.doc.skip
           d == Snapshot(Running([mine.doc EXCEPT !.skip = past]), mine.at, mine.s)
       IN  Store(d, "node") /\ mine' = [mine EXCEPT !.doc = d]
    /\ ThreadOnly /\ NothingRan /\ UNCHANGED <<resume, memoryVars>>

NodeFails ==
    /\ thread = "node" /\ mine.at.node \in plan.risky
    /\ Store(Snapshot([Pausing(mine.doc, mine.at.node) EXCEPT !.raised = TRUE,
                         !.inside = Nowhere, !.leave = Nowhere], mine.at, mine.s), "waiting")
    /\ ThreadOnly /\ NothingRan /\ UNCHANGED <<mine, resume, memoryVars>>

\* A breakpoint inside a component: the preview gets the inner token's mode,
\* FALSE in a component without loops.
StopInside ==
    /\ thread = "node" /\ mine.at.node \in plan.inner
    /\ Store(Snapshot([Pausing(mine.doc, Nowhere) EXCEPT !.inside = mine.at.node],
                      [mine.at EXCEPT !.again = FALSE], mine.s), "waiting")
    /\ ThreadOnly /\ NothingRan /\ UNCHANGED <<mine, resume, memoryVars>>

FaultyStepIsDone(count) == mine.doc.mode = "step" /\ count > 1
StepIsDone(count) == mine.doc.mode = "step" /\ count >= 1

\* The node is through: stop at the breakpoint behind it, or for a request,
\* or because the step is done, or go on.
NodeDone(stop) ==
    LET n     == mine.at.node
        s     == Through(plan, mine.s, n, mine.at.again, turns[n])
        next  == NextAt(s)
        left  == Dispatched(s)
        count == mine.count + 1
        d     == mine.doc
        step  == IF next.node = Nowhere
                 THEN Store(Snapshot(Ending(d, "completed"), NoToken, left), "releasing")
                 ELSE Store(Snapshot([Pausing(d, n) EXCEPT !.inside = Nowhere], next, left), "waiting")
    IN  /\ thread = "node"
        /\ IF stop # "no"
           THEN /\ plan.stops[n] \in {"after", "both"}
                /\ Store(Snapshot([Pausing(d, n) EXCEPT !.inside = Nowhere, !.fromQueue = TRUE,
                                     !.cursor = next, !.hit[n] = IF stop = "hit" THEN "after" ELSE @],
                                  mine.at, left), "waiting")
                /\ UNCHANGED pauseFlag
           ELSE Requested(d, next, mine.at, left, TRUE, next,
                          IF StepIsDone(count) THEN step ELSE thread' = "visit" /\ UNCHANGED doc)
        /\ mine' = [mine EXCEPT !.at = next, !.s = left, !.count = count]
        /\ turns' = [turns EXCEPT ![n] = IF Looping(plan, n) THEN @ + 1 ELSE @]
        /\ ran' = Append(ran, n)
        /\ stepped' = IF stepped < 2 THEN stepped + 1 ELSE stepped
        /\ ThreadOnly /\ UNCHANGED <<resume, remembered, context, abortFlag>>

\* The runner waits for the event after every pause.
Wake ==
    /\ thread = "waiting" /\ resume
    /\ resume' = FALSE /\ thread' = "starting"
    /\ ThreadOnly /\ NothingRan /\ UNCHANGED <<doc, mine, memoryVars>>

\* _release_debug_runtime_context; then the runner's finally.
Forgotten ==
    /\ remembered' = FALSE /\ context' = FALSE
    /\ pauseFlag' = FALSE /\ abortFlag' = FALSE

Release ==
    /\ thread = "releasing"
    /\ thread' = "ending" /\ Forgotten
    /\ ThreadOnly /\ NothingRan /\ UNCHANGED <<doc, mine, resume>>

Exit ==
    /\ thread = "ending"
    /\ thread' = "none" /\ resume' = FALSE
    /\ ThreadOnly /\ NothingRan /\ UNCHANGED <<doc, mine, memoryVars>>

-----------------------------------------------------------------------------
(* The requests.                                                           *)

RequestOnly == UNCHANGED <<plan, mine, turns, ran>>

\* start_debug_session_async launches the thread for the stored document.
Launch ==
    /\ thread = "unstarted"
    /\ thread' = "starting"
    /\ RequestOnly /\ UNCHANGED <<doc, resume, memoryVars, requestVars, stepped>>

\* continue and the steps read the document and check that it is paused.
AskToGoOn(what) ==
    /\ control.pc = "idle" /\ doc.status = "paused"
    /\ what = "out" => doc.inside # Nowhere
    /\ control' = [pc |-> "asked", what |-> what, seen |-> doc]
    /\ RequestOnly
    /\ UNCHANGED <<doc, thread, resume, memoryVars, pauser, aborter, stepped, overwritten>>

\* _build_resume_skip_breakpoint_once
SkipFor(d) ==
    IF d.pausedAt # Nowhere /\ d.hit[d.pausedAt] = "before" THEN d.pausedAt ELSE Nowhere

\* request_action: what a request changes in the document it read.
Patched(d, what) ==
    IF what = "continue"
    THEN [d EXCEPT !.status = "running", !.mode = "none", !.raised = FALSE, !.skip = SkipFor(d),
                   !.leave = IF d.raised THEN d.at.node ELSE Nowhere]
    ELSE [d EXCEPT !.status = "stepping", !.mode = what, !.raised = FALSE]

WriteRequest ==
    /\ control.pc = "asked"
    /\ doc' = Patched(control.seen, control.what)
    /\ overwritten' = (overwritten \/ Ended(doc))
    /\ pauseFlag' = FALSE
    /\ stepped' = 0
    /\ control' = [control EXCEPT !.pc = "written"]
    /\ RequestOnly /\ UNCHANGED <<thread, resume, remembered, context, abortFlag, pauser, aborter>>

\* The thread is signalled; without one a thread is started, unless the
\* context is still there: then the document read before is put back.
Signal ==
    /\ control.pc = "written"
    /\ IF Alive THEN resume' = TRUE /\ UNCHANGED <<doc, thread>>
       ELSE IF context THEN doc' = control.seen /\ UNCHANGED <<thread, resume>>
       ELSE thread' = "starting" /\ resume' = FALSE /\ UNCHANGED doc
    /\ control' = [control EXCEPT !.pc = "idle", !.seen = FirstDoc(plan)]
    /\ RequestOnly /\ UNCHANGED <<memoryVars, pauser, aborter, stepped, overwritten>>

\* request_debug_pause: the status is read, then the flag set if the thread
\* is still there.
AskToPause ==
    /\ pauser = "idle" /\ doc.status \in {"running", "stepping"}
    /\ pauser' = "asked"
    /\ RequestOnly
    /\ UNCHANGED <<doc, thread, resume, memoryVars, control, aborter, stepped, overwritten>>

FlagPause ==
    /\ pauser = "asked"
    /\ pauser' = "idle"
    /\ pauseFlag' = (pauseFlag \/ Alive)
    /\ RequestOnly
    /\ UNCHANGED <<doc, thread, resume, remembered, context, abortFlag, control, aborter,
                   stepped, overwritten>>

\* abort_debug_session: flag and wake a thread; without one, write the
\* document that was read as aborted and release the session.  (Nothing reads
\* what else that copy puts back: nobody resumes an aborted document.)
AskToAbort ==
    /\ aborter = "idle" /\ doc.status \in Active
    /\ aborter' = "asked"
    /\ RequestOnly
    /\ UNCHANGED <<doc, thread, resume, memoryVars, control, pauser, stepped, overwritten>>

FlagAbort ==
    /\ aborter = "asked" /\ Alive
    /\ abortFlag' = TRUE /\ resume' = TRUE
    /\ aborter' = "idle"
    /\ RequestOnly
    /\ UNCHANGED <<doc, thread, remembered, context, pauseFlag, control, pauser, stepped, overwritten>>

WriteAbort ==
    /\ aborter = "asked" /\ ~Alive
    /\ doc' = Ending(doc, "aborted")
    /\ aborter' = "written"
    /\ RequestOnly
    /\ UNCHANGED <<thread, resume, memoryVars, control, pauser, stepped, overwritten>>

ReleaseAborted ==
    /\ aborter = "written"
    /\ aborter' = "idle" /\ Forgotten
    /\ RequestOnly
    /\ UNCHANGED <<doc, thread, resume, control, pauser, stepped, overwritten>>

FaultyRestart ==
    /\ thread # "unstarted"
    /\ thread' = "none" /\ resume' = FALSE /\ Forgotten
    /\ control' = [pc |-> "idle", what |-> "none", seen |-> FirstDoc(plan)]
    /\ pauser' = "idle" /\ aborter' = "idle"
    /\ RequestOnly /\ UNCHANGED <<doc, stepped, overwritten>>

\* The process restarts: an active session is recovered as incomplete.
Restart ==
    /\ thread # "unstarted"
    /\ doc' = IF Ended(doc) THEN doc ELSE [doc EXCEPT !.status = "incomplete"]
    /\ thread' = "none" /\ resume' = FALSE /\ Forgotten
    /\ control' = [pc |-> "idle", what |-> "none", seen |-> FirstDoc(plan)]
    /\ pauser' = "idle" /\ aborter' = "idle"
    /\ RequestOnly /\ UNCHANGED <<stepped, overwritten>>

-----------------------------------------------------------------------------
Thread ==
    \/ Load \/ Begin \/ Finish \/ Drop \/ LeaveOut
    \/ \E hit \in BOOLEAN : StopBefore(hit)
    \/ StartNode \/ NodeFails \/ StopInside
    \/ \E stop \in {"no", "hit", "error"} : NodeDone(stop)
    \/ Wake \/ Release \/ Exit

GoOn == WriteRequest \/ Signal
Abort == FlagAbort \/ WriteAbort \/ ReleaseAborted

DebugNext ==
    \/ Thread \/ Launch \/ GoOn \/ FlagPause \/ Abort \/ Restart
    \/ \E what \in {"continue", "step", "out"} : AskToGoOn(what)
    \/ AskToPause \/ AskToAbort

DebugSpec == DebugInit /\ [][DebugNext]_debugVars

\* The thread runs on and its nodes return; a request that was begun is
\* carried out.
DebugFair ==
    /\ WF_debugVars(Thread) /\ WF_debugVars(Launch)
    /\ WF_debugVars(GoOn) /\ WF_debugVars(FlagPause) /\ WF_debugVars(Abort)

-----------------------------------------------------------------------------
Tokens == [node : PlanNodes(plan) \cup {Nowhere}, again : BOOLEAN]
Docs ==
    [status : Active \cup Terminal, mode : {"none", "step", "out"}, at : Tokens,
     queue : Seq(Tokens), done : Seq(PlanNodes(plan)), arrived : SUBSET (PlanNodes(plan) \X PlanNodes(plan)),
     fromQueue : BOOLEAN, cursor : Tokens, skip : PlanNodes(plan) \cup {Nowhere},
     leave : PlanNodes(plan) \cup {Nowhere}, raised : BOOLEAN,
     pausedAt : PlanNodes(plan) \cup {Nowhere},
     hit : [PlanNodes(plan) -> {"none", "before", "after"}], inside : PlanNodes(plan) \cup {Nowhere}]

DebugTypeOK ==
    /\ plan \in Plans
    /\ doc \in Docs
    /\ thread \in {"unstarted", "starting", "begin", "visit", "node", "waiting", "releasing",
                   "ending", "none"}
    /\ resume \in BOOLEAN /\ remembered \in BOOLEAN /\ context \in BOOLEAN
    /\ pauseFlag \in BOOLEAN /\ abortFlag \in BOOLEAN
    /\ turns \in [PlanNodes(plan) -> Nat]
    /\ control.pc \in {"idle", "asked", "written"} /\ control.seen \in Docs
    /\ pauser \in {"idle", "asked"}
    /\ aborter \in {"idle", "asked", "written"}
    /\ ran \in Seq(PlanNodes(plan)) /\ stepped \in Nat /\ overwritten \in BOOLEAN

\* However often it is paused, stepped, continued and left with an exception,
\* a session goes through the nodes of such a plan in the order of a run that
\* nobody disturbs, none twice, and is completed when none is left.
DebugFollowsPlan ==
    Simple(plan) =>
        /\ IsPrefix(ran, UndisturbedOrder(plan))
        /\ doc.status = "completed" => ran = UndisturbedOrder(plan)

\* A step completes at most one node before the session pauses or ends, even
\* when it is interrupted by pauses and abort requests.
StepRunsOneNode == doc.mode = "step" => stepped <= 1

\* An active session that was launched is paused or ends, also when requests
\* cross.  The one way out is a request that read "paused", waited while the
\* session was aborted, and wrote its stale copy over the outcome.  Whoever
\* asks a thread to abort gets rid of it, also when it waits.
DebugSettles ==
    /\ (thread # "unstarted" /\ doc.status \in {"preparing", "running", "stepping"}) ~>
          doc.status = "paused" \/ Ended(doc) \/ overwritten
    /\ abortFlag ~> ~Alive

\* Without breakpoints a debug session goes through the nodes in the order of
\* a run and completes with the same ones.
DebugMatchesRun ==
    (doc.status = "completed" /\ \A n \in PlanNodes(plan) : plan.stops[n] = "none")
        => ran = UndisturbedOrder(plan)
=============================================================================
