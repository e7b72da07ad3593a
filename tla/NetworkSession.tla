--------------------------- MODULE NetworkSession ---------------------------
(* The network of a runtime session: the services that its contexts make,  *)
(* the long connections (SSE, WebSocket, GraphQL subscription) and the     *)
(* HTTP requests of its nodes, and how a cancellation, or the end of the   *)
(* session, takes all of it down. network_runtime/service.py,              *)
(* network_runtime/long_connection.py and the network.* executors of       *)
(* runtime/engine.py.                                                      *)
(*                                                                         *)
(* Three kinds of threads: the worker runs the nodes, one at a time; the   *)
(* thread that cancels (an abort, or the worker when it is through) runs   *)
(* the callbacks of the cancellation context; every service has a loop of  *)
(* its own for the requests. What is sent and received, retries, OAuth     *)
(* tokens, TLS and proxies are left out; a request takes as long as it     *)
(* takes. A batch is as many requests.                                     *)
(*                                                                         *)
(* Definitions named Faulty... are seeded faults of the definition that    *)
(* follows them; nothing else uses them.                                   *)
EXTENDS Naturals, Sequences, SequencesExt

CONSTANTS
    Handles,        \* bound: the connections that nodes may open, as numbers
    Subscriptions,  \* those of them that are GraphQL subscriptions
    NoHandle,       \* None
    MaxWork         \* bound: contexts, the session's and those of its components, and
                    \* HTTP requests together

ASSUME NetworkAssumption ==
    /\ Handles \subseteq Nat /\ Subscriptions \subseteq Handles /\ NoHandle \notin Handles
    /\ MaxWork \in Nat \ {0}

Contexts == 1 .. MaxWork
RequestIds == 1 .. MaxWork

VARIABLES
    here,       \* the context the worker is in: the session's is 1
    entered,    \* number of contexts so far
    step,       \* how far the node is
    subject,    \* the handle of the node
    service,    \* network_runtime_service of each context
    conns,      \* _long_connections of each service
    kept,       \* network_connections of each context, for one connection_id
    watched,    \* network_connections_cleanup_registered of each context
    handle,     \* state of each handle
    requests,   \* number of requests so far; the node's is the last
    tasks,      \* _active_tasks of each service
    loopQueue,  \* what was passed to the loop of each service
    stopped,    \* cancellation_context.is_cancelled
    callbacks,  \* _cleanup_callbacks
    running,    \* the callbacks that request_cancel has still to run
    phase,      \* how far the first of them is
    late        \* history: handles that came between close-all and _closed

nodeVars == <<here, entered, step, subject>>
connVars == <<conns, kept, handle, late>>
loopVars == <<tasks, loopQueue>>
cancelVars == <<stopped, callbacks, running, phase>>
netVars == <<nodeVars, service, watched, requests, connVars, loopVars, cancelVars>>

Callback == [kind : {"store", "service", "request"}, context : Contexts]
Calls == {[op |-> "schedule", r |-> r] : r \in RequestIds}
Cancels == [op |-> "cancel", r |-> 0]
Shuts == [op |-> "shutdown", r |-> 0]

NetworkInit ==
    /\ here = 1 /\ entered = 1 /\ step = "idle" /\ subject = NoHandle
    /\ service = [c \in Contexts |-> "none"]
    /\ conns = [c \in Contexts |-> {}]
    /\ kept = [c \in Contexts |-> {}]
    /\ watched = [c \in Contexts |-> FALSE]
    /\ handle = [h \in Handles |-> "unused"]
    /\ requests = 0
    /\ tasks = [c \in Contexts |-> {}]
    /\ loopQueue = [c \in Contexts |-> <<>>]
    /\ stopped = FALSE /\ callbacks = <<>> /\ running = <<>> /\ phase = 0
    /\ late = {}

\* close() of some handles; one that is closed stays so.
CloseHandles(hs) == handle' = [h \in Handles |-> IF h \in hs THEN "closed" ELSE handle[h]]

\* register_cleanup: when the session was cancelled the callback is not kept.
WithCleanup(calls, kind) ==
    IF stopped THEN calls ELSE Append(calls, [kind |-> kind, context |-> here])

-----------------------------------------------------------------------------
(* The worker.                                                             *)

Free == step = "idle"
NodeReturns == step' = "idle" /\ subject' = NoHandle /\ UNCHANGED <<here, entered>>

\* _resolve_network_runtime_service: the service of this context; a new one is
\* closed at once, by its own cleanup, when the session was cancelled.
Resolve ==
    service' = IF service[here] # "none" THEN service
               ELSE [service EXCEPT ![here] = IF stopped THEN "closed" ELSE "open"]
WithService(calls) == IF service[here] = "none" THEN WithCleanup(calls, "service") ELSE calls

\* _network_connection_store: its first use in a context registers the cleanup.
Watch == watched' = [watched EXCEPT ![here] = TRUE]
WithStore(calls) == IF watched[here] THEN calls ELSE WithCleanup(calls, "store")

\* A connect node whose URL or input is refused.
ConnectRefused ==
    /\ Free /\ ~watched[here]
    /\ Watch /\ callbacks' = WithStore(callbacks)
    /\ UNCHANGED <<nodeVars, service, requests, connVars, loopVars, stopped, running, phase>>

\* A new handle: those of a kind are numbered in the order they are made.
SameKind(g, h) == g \in Subscriptions <=> h \in Subscriptions
NewHandle(h) ==
    handle[h] = "unused" /\ \A g \in Handles : g < h /\ SameKind(g, h) => handle[g] # "unused"

\* A connect node: the store, the service, _require_open, and a new handle.
Connect(h) ==
    /\ Free /\ NewHandle(h)
    /\ Watch /\ Resolve
    /\ callbacks' = WithService(WithStore(callbacks))
    /\ IF service'[here] = "closed"
       THEN UNCHANGED <<handle, step, subject>>
       ELSE /\ handle' = [handle EXCEPT ![h] = "open"]
            /\ step' = "starting" /\ subject' = h
    /\ UNCHANGED <<here, entered, requests, conns, kept, late, loopVars, stopped, running, phase>>

\* start() fails or takes too long.
StartFails ==
    /\ step = "starting"
    /\ CloseHandles({subject}) /\ NodeReturns
    /\ UNCHANGED <<service, watched, requests, conns, kept, late, loopVars, cancelVars>>

\* request_cancel is between the two steps of close() of service c.
IsClosing(c) ==
    /\ running # <<>> /\ phase = 1
    /\ Head(running) = [kind |-> "service", context |-> c]

\* BUG PATTERN: a connection is entered without a look whether the service was
\* closed while it was being made.
FaultyRegisterConnection ==
    /\ step = "starting"
    /\ conns' = [conns EXCEPT ![here] = @ \cup {subject}]
    /\ late' = IF IsClosing(here) THEN late \cup {subject} ELSE late
    /\ step' = "started"
    /\ UNCHANGED <<here, entered, subject, service, watched, requests, kept, handle, loopVars,
                   cancelVars>>

\* _register_long_connection
RegisterConnection ==
    /\ step = "starting"
    /\ IF service[here] = "closed"
       THEN CloseHandles({subject}) /\ NodeReturns /\ UNCHANGED <<conns, late>>
       ELSE /\ conns' = [conns EXCEPT ![here] = @ \cup {subject}]
            /\ late' = IF IsClosing(here) THEN late \cup {subject} ELSE late
            /\ step' = "started"
            /\ UNCHANGED <<here, entered, subject, handle>>
    /\ UNCHANGED <<service, watched, requests, kept, loopVars, cancelVars>>

\* release_connection; a GraphQL subscription is never released.
ReleaseConnections(hs) == conns' = [conns EXCEPT ![here] = @ \ (hs \ Subscriptions)]

\* The node takes the place of an earlier connection of its kind with the same
\* id; or, a GraphQL subscription that cannot send its first frames, closes.
Keep ==
    LET earlier == {h \in kept[here] : SameKind(h, subject)}
    IN  /\ step = "started"
        /\ \/ /\ subject \in Subscriptions
              /\ CloseHandles({subject}) /\ UNCHANGED <<conns, kept>>
           \/ /\ CloseHandles(earlier) /\ ReleaseConnections(earlier)
              /\ kept' = [kept EXCEPT ![here] = (@ \ earlier) \cup {subject}]
        /\ NodeReturns
        /\ UNCHANGED <<service, watched, requests, late, loopVars, cancelVars>>

\* A receive node, and a message, a timeout or the end of the connection.
ReceiveMessage(h) ==
    /\ Free /\ h \in kept[here]
    /\ step' = "receiving" /\ subject' = h
    /\ UNCHANGED <<here, entered, service, watched, requests, connVars, loopVars, cancelVars>>

Received ==
    /\ step = "receiving"
    /\ NodeReturns
    /\ UNCHANGED <<service, watched, requests, connVars, loopVars, cancelVars>>

\* A close node.
CloseConnection(h) ==
    /\ Free /\ h \in kept[here]
    /\ CloseHandles({h}) /\ ReleaseConnections({h})
    /\ kept' = [kept EXCEPT ![here] = @ \ {h}]
    /\ UNCHANGED <<nodeVars, service, watched, requests, late, loopVars, cancelVars>>

\* cancel_session: the connections of the service, then, on its loop, its tasks.
CancelSession(c) ==
    /\ CloseHandles(conns[c])
    /\ conns' = [conns EXCEPT ![c] = {}]
    /\ loopQueue' = IF service[c] = "closed" THEN loopQueue
                ELSE [loopQueue EXCEPT ![c] = Append(@, Cancels)]

\* An HTTP request node registers cancel_session for its duration; it runs at
\* once when the session was cancelled.
Request ==
    /\ Free /\ entered + requests < MaxWork
    /\ requests' = requests + 1
    /\ step' = "submitting"
    /\ Resolve /\ callbacks' = WithCleanup(WithService(callbacks), "request")
    /\ IF stopped /\ service[here] # "none"
       THEN CancelSession(here)
       ELSE UNCHANGED <<conns, handle, loopQueue>>
    /\ UNCHANGED <<here, entered, subject, watched, kept, late, tasks, stopped, running, phase>>

\* unregister, in the finally of the node: its callback is the last, unless a
\* cancellation has taken them all.
Unregister ==
    callbacks' = IF callbacks # <<>> /\ Last(callbacks) = [kind |-> "request", context |-> here]
                 THEN Front(callbacks) ELSE callbacks

\* submit
Submit ==
    /\ step = "submitting"
    /\ IF service[here] = "closed"
       THEN Unregister /\ NodeReturns /\ UNCHANGED loopQueue
       ELSE /\ loopQueue' = [loopQueue EXCEPT
                                 ![here] = Append(@, [op |-> "schedule", r |-> requests])]
            /\ step' = "waiting"
            /\ UNCHANGED <<here, entered, subject, callbacks>>
    /\ UNCHANGED <<service, watched, requests, connVars, tasks, stopped, running, phase>>

\* The result has come, or it took a second more than the request may take: a
\* request that is retried goes on without its node.
RequestAnswered ==
    /\ step = "waiting"
    /\ Unregister /\ NodeReturns
    /\ UNCHANGED <<service, watched, requests, connVars, loopVars, stopped, running, phase>>

\* A component has a context of its own, with a service and connections of its
\* own; the cancellation context is that of the session.
EnterComponent ==
    /\ Free /\ here = 1 /\ entered + requests < MaxWork
    /\ entered' = entered + 1 /\ here' = entered'
    /\ UNCHANGED <<step, subject, service, watched, requests, connVars, loopVars, cancelVars>>

LeaveComponent ==
    /\ Free /\ here # 1
    /\ here' = 1
    /\ UNCHANGED <<entered, step, subject, service, watched, requests, connVars, loopVars,
                   cancelVars>>

-----------------------------------------------------------------------------
(* The cancellation.                                                       *)

\* request_cancel, of which only the first does anything
CancelAll ==
    /\ stopped' = TRUE
    /\ IF stopped
       THEN UNCHANGED <<callbacks, running, phase>>
       ELSE running' = callbacks /\ callbacks' = <<>> /\ phase' = 0

\* abort_runtime_session
AbortSession ==
    /\ ~stopped /\ step # "over"
    /\ CancelAll
    /\ UNCHANGED <<nodeVars, service, watched, requests, connVars, loopVars>>

\* The run is over: RuntimeContext.close
EndSession ==
    /\ Free /\ here = 1
    /\ CancelAll
    /\ step' = "over"
    /\ UNCHANGED <<here, entered, subject, service, watched, requests, connVars, loopVars>>

Runs(kind, c) == running # <<>> /\ Head(running) = [kind |-> kind, context |-> c]
NextCallback == running' = Tail(running) /\ phase' = 0 /\ UNCHANGED <<stopped, callbacks>>
Goes == phase' = phase + 1 /\ UNCHANGED <<stopped, callbacks, running>>

\* close_connections closes what the store has and then clears it; what the
\* worker puts in between is forgotten here.
CloseStore(c) ==
    /\ Runs("store", c)
    /\ \/ /\ phase = 0 /\ CloseHandles(kept[c]) /\ UNCHANGED kept /\ Goes
       \/ /\ phase = 1 /\ kept' = [kept EXCEPT ![c] = {}] /\ UNCHANGED handle /\ NextCallback
    /\ UNCHANGED <<nodeVars, service, watched, requests, conns, late, loopVars>>

\* NetworkRuntimeService.close: all connections, then the flag, with which the
\* shutdown is passed to the loop; it waits for it, but no longer than a second.
CloseService(c) ==
    /\ Runs("service", c)
    /\ \/ /\ phase = 0 /\ CloseHandles(conns[c]) /\ conns' = [conns EXCEPT ![c] = {}]
          /\ UNCHANGED <<service, loopQueue>> /\ Goes
       \/ /\ phase = 1 /\ service' = [service EXCEPT ![c] = "closed"]
          /\ loopQueue' = [loopQueue EXCEPT ![c] = Append(@, Shuts)]
          /\ UNCHANGED <<conns, handle>> /\ NextCallback
    /\ UNCHANGED <<nodeVars, watched, requests, kept, late, tasks>>

CancelRequest(c) ==
    /\ Runs("request", c)
    /\ CancelSession(c) /\ NextCallback
    /\ UNCHANGED <<nodeVars, service, watched, requests, kept, late, tasks>>

-----------------------------------------------------------------------------
(* The loop of a service.                                                  *)

\* _schedule_operation, _cancel_session_on_loop and _shutdown
LoopStep(c) ==
    /\ loopQueue[c] # <<>>
    /\ loopQueue' = [loopQueue EXCEPT ![c] = Tail(@)]
    /\ tasks' = [tasks EXCEPT ![c] = IF Head(loopQueue[c]).op = "schedule"
                                     THEN @ \cup {Head(loopQueue[c]).r} ELSE {}]
    /\ UNCHANGED <<nodeVars, service, watched, requests, connVars, cancelVars>>

TaskEnds(c) ==
    /\ \E r \in tasks[c] : tasks' = [tasks EXCEPT ![c] = @ \ {r}]
    /\ UNCHANGED <<nodeVars, service, watched, requests, connVars, loopQueue, cancelVars>>

NetworkNext ==
    \/ \E h \in Handles : Connect(h) \/ ReceiveMessage(h) \/ CloseConnection(h)
    \/ ConnectRefused \/ StartFails \/ RegisterConnection \/ Keep \/ Received
    \/ Request \/ Submit \/ RequestAnswered
    \/ EnterComponent \/ LeaveComponent
    \/ AbortSession \/ EndSession
    \/ \E c \in Contexts : CloseStore(c) \/ CloseService(c) \/ CancelRequest(c)
    \/ \E c \in Contexts : LoopStep(c) \/ TaskEnds(c)

NetworkSpec == NetworkInit /\ [][NetworkNext]_netVars

-----------------------------------------------------------------------------
(* Every variable has its type.                                            *)
NetworkTypeOK ==
    /\ here \in Contexts /\ entered \in Contexts
    /\ step \in {"idle", "starting", "started", "receiving", "submitting", "waiting", "over"}
    /\ subject \in Handles \cup {NoHandle}
    /\ service \in [Contexts -> {"none", "open", "closed"}]
    /\ conns \in [Contexts -> SUBSET Handles]
    /\ kept \in [Contexts -> SUBSET Handles]
    /\ watched \in [Contexts -> BOOLEAN]
    /\ handle \in [Handles -> {"unused", "open", "closed"}]
    /\ requests \in 0 .. MaxWork
    /\ tasks \in [Contexts -> SUBSET RequestIds]
    /\ loopQueue \in [Contexts -> Seq(Calls \cup {Cancels, Shuts})]
    /\ stopped \in BOOLEAN /\ phase \in 0 .. 1
    /\ callbacks \in Seq(Callback) /\ running \in Seq(Callback)
    /\ late \in SUBSET Handles

(* When a cancellation has run its callbacks, whichever node the worker was  *)
(* in and whichever component: every connection is closed or about to be,    *)
(* every service is closed, and no request runs that its loop was not told   *)
(* to end. The exception is real: a connection that is entered after close() *)
(* took the connections and before it set the flag is closed by nobody.      *)
NothingStaysOpen ==
    stopped /\ running = <<>> =>
        /\ \A h \in Handles : handle[h] = "open" =>
              h \in late \/ (step = "starting" /\ subject = h)
        /\ \A c \in Contexts : service[c] # "open"
        /\ \A c \in Contexts : tasks[c] # {} => loopQueue[c] # <<>>
=============================================================================
