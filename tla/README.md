# A TLA+ model of WeConduct

WeConduct is a workbench for automation flows. A project holds graphs of nodes;
the compiler turns a graph into a plan; a runtime session executes the plan in a
worker thread, node by node; an HTTP API, a CLI and a desktop shell start,
unlock, watch, abort and debug such sessions, and a browser UI follows them over
event streams. This directory holds TLA+ modules for the parts of it where
threads, restarts and bounded memory make the code hard to test, the TLC
configurations that check them on small instances, and proofs for every
instance.

Paths below are relative to `src/src/weconduct/`; "the service" is
`application/compilation_workbench_service.py`.

## 1. The system

| component | state | operations | shared with |
| --- | --- | --- | --- |
| runtime session lifecycle (service 5575-7371) | session documents and run history in the workspace state; plans, threads, cancellation contexts, unlocked parameters in memory | start, unlock, execute, run, abort, worker, finalise, close project, recover | state store, stream broker, pending input, cancellation |
| pending input (`application/pending_input`) | one record per request, one Condition for all of them | create, activate, wait, submit, cancel session, trim | cancellation contexts, worker, API |
| cancellation (`runtime/engine.py` 194-332) | a flag and a list of callbacks per execution | request cancel, register, unregister, close | every node that waits |
| runtime stream broker (`application/runtime_session_stream.py`) | latest snapshot, bounded event history, subscribers, bounded set of closed sessions | publish, subscribe, read since a cursor, close | worker, abort, API |
| workbench event broker (`application/workbench_event_stream.py`) | bounded history, subscribers | publish, subscribe with a snapshot, close | every operation of the service |
| workspace state store (`application/workspace_state_store.py`) | one JSON document | load, mutate | all of the service |
| flow scheduler (service 6335-7030, 8161-11212, `application/execution_core.py`) | queue of nodes, joins, retries, loop frames | dequeue, execute, route, count steps | node executors |
| debug sessions (`application/debug_controller.py`, service) | controller per session: state, breakpoints, pending command | pause, step, resume, stop, inspect | a worker of its own, debug history |
| debug history and event storage (`application/debug_session_history.py`, `application/event_storage`) | append-only segments of checksummed frames, blobs, indices | append, read, recover, expire | the file system |
| operations of the external API (`application/operations`, `api/external_v1`) | bounded store of idempotency keys | invoke: reserve, replay, complete, release | sessions, API threads |
| configuration (`application/configuration`, `api/server.py`) | a settings file per scope, runtime defaults in the workspace state | migrate, load, apply, reset | project document |
| sensitive values (`application/sensitive_values`) | values per scope | create, unlock, resolve, revoke | sessions, redaction of what is published |
| network runtime (`network_runtime`, `network.*` nodes in `runtime/engine.py`) | contexts, connections, tokens | open, send, receive, refresh, close | nodes, cancellation |
| browser runtime (`browser.*` nodes in `runtime/engine.py`) | tabs, the chosen one, the frame, announced pop-ups | open, switch, close, resolve a frame | the browser's own events |
| component calls (service 7373-9144) | stack of calls per execution context | call, run the component's graph, return | scheduler, cancellation |
| project and graph documents (service) | project, graph, undo history, recent projects | edit, undo, save, open, close, import, export | state store |
| resource registry (service 4101-5423) | custom node graphs of the project, by id and key | create, save, delete, enable, export, import with what they depend on | state store |
| project Python runtime (`application/project_python_runtime.py`) | a virtual environment with a manifest and a marker of what is installed | prepare, rebuild, clear, check | sessions, API threads |
| graph validation and compilation (service 614-894, 11213-11608, 12199-12465, 13059-15715, 23714-23967; `compiler/`) | the graph with its revision, the validation snapshot and the compile history, all in the workspace state | load, preview and apply a patch, save, validate, compile, prepare an execution | state store, resource registry, sessions |
| project packages (service 1173-1660, 18644-19154, 19603-20190, 20279-20410) | a `.wcrun` file, the directory it is unpacked into, the workspace that was loaded from it | preflight, build, inspect, load, bind external names, start, unload | state store, resources, Python runtime, sessions |
| builtin components, node executors, UI, updates and packaging of the program | little or none of their own | | |

The threads are: API threads (one for each HTTP request, or the CLI's main
thread), one worker per execution of a session, one worker per debug session,
and timers. They share the in-memory registries under
`_runtime_execution_lock`, the workspace state through `mutate`, and the brokers
under the brokers' own locks. No lock spans two of these, and that is where most
hazards come from.

What is hard, component by component:

* **Runtime sessions.** A session's truth is spread over four places that no
  lock spans: its document, the registries, the stream and the worker itself. An
  abort gives up waiting after 0.1 s and records the outcome itself while the
  worker still runs; the worker comes back later with an outcome of its own.
  Only the newest documents are kept, so a running session's document may be
  gone. A restart keeps documents and loses everything else. Correct means: one
  worker for a session, outcomes that are final, a history that agrees with the
  documents, nodes that run only on unlocked parameters, streams that end and
  say how the session ended.
* **Pending input.** A submission, an abort and a deadline race for one request;
  finished records are dropped beyond a limit that all executions share. Correct
  means: each request is decided once, the accepted answer is what the node
  gets, no wakeup is lost, no answer stays behind.
* **Flow scheduler.** One thread, but five memories that must agree: the queue,
  the nodes ever queued, the nodes executed, the tokens at waiting nodes, and the
  attempts of retries; repeat tokens bypass two of them, and a foreach walks its
  body with rules of its own. Correct means: a node runs when everything it
  waits for has come, once unless a loop asks for more, nothing is left waiting,
  and every run ends and says truly how.
* **Brokers.** History is bounded, a session's stream is forgotten some time
  after it closed, and a subscription is taken in several steps beside the
  publishers. Correct means: a client's events have no gap and it learns of the
  end, or that its cursor has expired; the UI ends up showing what the server has.
* **Event storage and debug history.** Correct means: what was acknowledged
  survives a crash, and a torn tail is cut, never misread.
* **Debug sessions.** A request reads the document, writes a changed copy and
  signals a thread that stores copies of its own. Correct means: pausing does not
  change what the flow does, a step is one node, and a stop ends the thread
  whatever it waits for.
* **Operations.** A client repeats a request whose answer it lost. Correct means:
  a key has its effect once as long as the store knows it.
* **Component calls.** Correct means: recursion and depth are refused exactly
  when they occur, and a cancelled call does not make its session fail.
* **Browser and network.** The browser changes under the nodes; a cancellation
  takes connections down while a node opens the next. Correct means: nodes act on
  the tab the flow has chosen, and nothing stays open.
* **Documents, configuration, resources, Python environment.** All are read,
  changed and written back by requests that no lock keeps apart, in several files
  that a crash may separate. Correct means: nothing unseen is overwritten, "saved"
  and "ready" are true, settings and references survive.
* **Graph and compiler.** A graph is normalised against the resources whenever it
  is read, so reading may save. The validation snapshot and the compile history
  are stamped with revisions that are read at another moment than the graph they
  speak of. The plan is built from the same graph by other rules than those that
  accepted it: validation counts branches by semantic slots, the scheduler by
  ports. Correct means: what a stamp says is true, a read changes nothing, and
  what is accepted can be run.
* **Packages.** The flow of a package comes from the project file and its
  components from memory; a start checks the copy of the state before it is
  refreshed and runs the one after. Correct means: a package holds what its flow
  needs, and its run has what the package requires.

`PROJECT.json` lists every component and every hazard with the line where it
bites, and which property covers it.

## 2. The modules

| module | models | role |
| --- | --- | --- |
| `PendingInput` | `PendingInputService` with the worker that asks, the submitters, the aborts and the deadlines | component |
| `InputAnswer` | what the node that asked is promised: every request decided at most once, and handed over at most once | abstract specification |
| `MCPendingInput` | instance for TLC | |
| `PendingInputProofs` | proofs about `PendingInput` | proofs |
| `RuntimeSession` | the life of runtime sessions: API threads, workers, state, registries, stream, restart | component |
| `MCRuntimeSession` | instance for TLC | |
| `RuntimeSessionProofs` | proofs about `RuntimeSession` | proofs |
| `FlowGraph` | what the scheduler computes from a plan alone: exclusive branches, the tokens a node waits for, loop bodies and exits | operators |
| `FlowScheduler` | the main loop of `_run_runtime_session_sync` over a flow graph, foreach bodies, the step limit and cancellation | component |
| `FlowOrder` | what a run promises about order: a node fires first when nodes that fired before delivered all it waits for | abstract specification |
| `MCFlowScheduler` | the flows for TLC | |
| `FlowSchedulerProofs` | proofs about `FlowScheduler`, and the parts of `MCProject` together | proofs |
| `ComponentCalls` | the calls of components from the nodes of a session, their contexts and outcomes | component |
| `SessionStream` | `RuntimeSessionStreamBroker` with the HTTP handlers and clients that follow a session | component |
| `WorkbenchEvents` | `WorkbenchEventStreamBroker` with the operations that publish and the UI that follows | component |
| `DebugSession` | the thread of a debug session and the requests that steer it | component |
| `MCDebugSession` | instance for TLC | |
| `DebugHistory` | the history files of debug sessions over the event storage, with crashes | component |
| `Operations` | `HostOperationService.invoke` and its idempotency store | component |
| `BrowserTabs` | the tabs, pop-ups and frames of a session's browser | component |
| `NetworkSession` | services, long connections and requests of a session under cancellation | component |
| `ProjectDocuments` | graph and project between clients, workspace state, shared copy and files | component |
| `Configuration` | settings files, their migration at the start, and the requests that change them | component |
| `PythonRuntime` | the Python environment of a project and what prepares, clears and checks it | component |
| `Resources` | the registry of custom node graphs: create, save, delete, export, import | component |
| `GraphRules` | the rules of a graph document: normalisation against the resources, validation, patches, the compiler's stages and the runtime plan | operators |
| `GraphCompilation` | the requests that read, patch, save, validate, compile and prepare the graph | component |
| `MCGraphCompilation` | graphs, patches and requests for TLC | |
| `DocumentsProofs` | proofs about `ProjectDocuments` and `GraphCompilation` | proofs |
| `ProjectPackages` | building, loading, binding, running and unloading a package | component |
| `Filtering` | a list comprehension, as a recursive function that can be proved about | operators |
| `FilteringProofs` | what a list comprehension keeps, and in which order | lemmas |
| `ProjectProofs` | proofs about `ProjectPackages`, `Configuration`, `PythonRuntime`, `Resources` | proofs |
| `WorkbenchProofs` | proofs about `SessionStream`, `WorkbenchEvents`, `BrowserTabs`, `Operations`, `ComponentCalls`, `NetworkSession` | proofs |
| `DebugProofs` | proofs about `DebugHistory`, `DebugSession`, and the parts of `MCWorkbench` together | proofs |
| `MCProject` | composes what a project keeps and the flow's run, one part at a time, for TLC | |
| `MCWorkbench` | composes the smaller components, one part at a time, for TLC | |

Definitions named `Faulty...` are seeded faults. Each stands before the
definition it is a faulty version of; `PROJECT.json` pairs them with the property
that must fail when the faulty version takes its place. They keep the properties
honest and are used by nothing else.

### PendingInput

State: a record is spread over `status`, `value` and `deadline`, `stored` holds
the keys of `_records`, and `born` their insertion order. `pc`, `current` and
`result` are the worker inside `_execute_pending_input_request_node`;
`cancelled`, `callbacks` and `toRun` are its `CancellationContext`. One action is
one critical section: `wait()` is `RegisterCleanup`, possibly `RunCleanupNow`,
then `EnterWait`, any number of `Recheck`s and `Unregister`. `request_cancel`
takes the callbacks under the lock (`RequestCancel`) and invokes them one by one
afterwards (`RunCallback`), which is where a callback can meet a request that was
decided meanwhile, or trimmed. Time is the action `DeadlinePasses`, enabled for
every armed deadline at any moment. Answers are opaque: validation decides only
whether a submission reaches the assignment, so refused submissions are not
actions.

### RuntimeSession

State: `live`, `doc` and `history` are what the state store persists; `plans`,
`thread`, `context` and `unlocked` are the service's registries; `latest`,
`closed` and `announced` the stream as far as an observer relies on it. `wpc` is
the position of each execution of a session in `_run_runtime_session_sync`, `tpc`
the position of each API thread in its call. Every use of
`_runtime_execution_lock`, every `mutate`, every broker call and every
`request_cancel` is one action; the code between two of them runs unprotected,
and other threads' actions come in between. The loop over the nodes is three
actions: a snapshot before a node, the node and the look at the cancellation
after it, and the snapshot after it, after which the loop goes on or ends in any
of the ways it can end. A node may take any time and may never return.

Abstracted: what nodes compute, the contents of documents beside their status,
time stamps, redaction. The decryption of parameters always succeeds (a wrong
password changes nothing). The project keeps its encrypted parameters, or keeps
having none, while its sessions live.

### FlowScheduler

It is the inside of `RuntimeSession`'s actions between `WorkerStart` and the
worker's merge: one worker, so the only interleaving is with `Cancel`, which is
`CancellationContext.request_cancel` from another thread. State: `queue` is
`pending_node_entries`, `queued` and `executed` are the two sets of node ids,
`arrived` is `join_state_by_node_id`, `attempts` `retry_state_by_node_id`,
`steps` `execution_step_count`. `phase` is the position in the loop: taking a
token (`dispatch`), the checks before a node (`visit`), the node itself (`run`),
the loop over its outgoing edges (`route`), and inside a foreach the choice of
the next item or node (`loop`) and the body node (`body`). `frames` are the
activations of `_execute_runtime_foreach_body`, which calls itself for a foreach
inside a body. `chosen` and `runs` record what happened and influence nothing.

A flow is a record of nodes, kinds and edges in the order of the plan. A kind
stands for all node types that the loop treats alike (`task` is any node without
control semantics). What a node computes is a choice among the outcomes the loop
tells apart: an if takes either branch, a retry condition holds or not, a jump is
taken or not (its condition and `max_jumps`), a list has up to `MaxItems` items.
Every edge is handled in a step of its own, so that a cancellation can come
between two edges.

`FlowOrder` takes the graph as parameters (`Into`, `TokenOf`, `Required` and so
on), which `FlowScheduler` instantiates with the operators of `FlowGraph`: the
promise is about any way to compute what a node waits for.

Abstracted: variables, iteration contexts and events; the names of tokens and
ports beyond what routing compares. Not modelled: the linear mode for plans
without control edges. The two copies of the loop, for component graphs
(service 8161-8400) and for debug sessions (22393-23000), share the queueing
operations; what happens around a node in them is `ComponentCalls` and
`DebugSession`.

### ComponentCalls

`frames` are the calls under way, `contexts` the execution contexts with the
`component_call_stack` each holds. A call with its own context gets a copy of the
caller's stack; one that shares the context of its caller appends to it and never
removes, which is why `CallsAreSound` excepts sessions that did so from the claim
that a refusal is deserved. A graph is any sequence of nodes. `Verdict` is what a
loop makes of a node's result: at each level the look at the cancellation comes
after the node, so an aborted component is a failed node below and an aborted
session above, unless a foreach body takes it (`inLoop`). A node that succeeded may
still end its component: its loop fails or is cancelled (`LoopFails`,
`LoopCancelledInside`), or its jump leads nowhere (`JumpMisses`); otherwise the next
one is reached (`NextNode`). Some ends of a session fail without a look at the
cancellation: too many steps (service 6377), a missing or disabled resource of its
next node (6432), a foreach or a jump that cannot go on. So a cancelled session may
still be reported as failed; what holds (`CutShortAborts`) is that it is aborted if
the cancellation cut a node short, which is still known (`cutShort`) however many
calls that node was inside, unless a foreach body took its result.

### SessionStream and WorkbenchEvents

`SessionStream` has the broker (`log` is the bounded history, `closedIds` the
bounded set of closed sessions, `queue` the subscribers), the worker that
publishes, and two kinds of handlers: a UI handler takes one of the server's
slots and sends what its queue gets, an external one replays the history from the
client's cursor and takes items only as a reason to look again. A client that
left is noticed by the next write. The one way a handler listens for ever is a
session the broker forgot between its lookup and its subscription.

`WorkbenchEvents` subscribes in the code's three steps (copy the history, build
the snapshot, replay what came since) and follows the UI's store to what it shows:
`view` against `version`. While the graph is being reloaded (`loading`) the store
ignores a snapshot (workspaceStore.ts:82-87); `ignored` is the newest version that
was passed over in this way. `overrun` and `overtaken` mark the ways out: an event
that fell out of the history meanwhile, and an answer that arrives after the event
of a newer change or is older than a snapshot that was ignored.

### DebugSession and DebugHistory

`doc` is the stored session document, with the scheduler snapshot a pause leaves
in it; the thread's own copy is stored at every step. A request is three actions:
read the document, write the changed copy back, then signal the thread or start
one. Plans consist of plain steps, waiting steps, while loops and components with
a breakpoint inside; whether a gate stops and a risky node fails is any choice.
A restart loses the thread, the event and the flags.

`DebugHistory` persists versions of the document outside the critical section that
made them: the index, the directories it trims, and a segment of frames behind a
cursor in memory. A write may fail, or the process may die, after any prefix; a
torn frame ends a segment and is cut by the next append.

### Operations

A request reserves its key, runs the operation (one effect, which a failure may
follow), and completes or releases the key; trimming evicts the oldest finished
entries and `forgotten` counts what the store lost.

### BrowserTabs and NetworkSession

`BrowserTabs` keeps `page`, `pages`, `index`, the pending pop-ups and the frame
stack of `browser_runtime`, while pages open and close on their own. `chosen` is
the tab the flow activated last; `lost` marks a tab that closed in front of it or
itself, after which `close_tab` activates another one by its stale index.

`NetworkSession` has the worker, the thread that cancels and the loop of each
service. `close()` takes the connections and then sets the flag that refuses new
ones; a connection that is entered between the two is in `late`.

### ProjectDocuments, Configuration, PythonRuntime, Resources

`ProjectDocuments`: `store` is the workspace state behind `mutate`, `mem` the copy
all request threads share, `disk` the files, written in place one after the other.
A request is the sequence of the handler's statements; only `mutate` is atomic.
`overlapped` is set when two requests overlap and reset by a save that runs
alone: the layout is built from the shared copy.

`Configuration`: each scope's file with its format, the temporary file that takes
its place, the runtime defaults behind the scope `graph`, and the start of the
server that migrates one file after the other. A request loads everything, changes
one setting and writes everything. The start also looks into current files: response
limits of zero (`ZeroLimits`) are taken for the default of an earlier version and
removed (migration.py:22-35), whoever set them.

`PythonRuntime`: the environment is the record of its files; `prepare_runtime` is
one action per file, venv or pip run, each of which may stop half-way.
`alone` remembers that no other request that writes ran since.

`Resources`: a custom node graph is its id, its key and the names it holds; a
package is the set of graphs it holds (`NoPackage` is the empty one). An import is
read, staged into the shared copy, taken out again, compared, and, in a second
request, read again and committed with new ids where the policy says so; a new
name is one that nobody has (`FreshFor`). Assumed of what is imported is that no
resource has the id of another one as its key (`OneMeaning`): what the service
itself makes has its id as its key, and without the assumption a package exists
for which the policy "rename" gives two resources one id (section 6).

### GraphRules and GraphCompilation

A graph is the sequence of its nodes and of its edges; ports and semantic slots
are sequences of words. `Normalised` is `_normalize_graph_model`: the ports of
each node are drawn anew from its kind, its settings and the resources, and take
over the ids that the old ports of the same slots have. `Acceptable` are the
diagnostics, `Patched` a patch, `Compiled` the stages, `PlanOf` the runtime plan
and `Runnable` what the scheduler expects of one. The id of a document gives it one
of three roles: `graph:workspace` ("main") must have a start, `custom_node_graph:*`
("component") a boundary and no start, and any other ("other") needs neither. A
request may carry a document of any role; one of the third without a start is
planned without an entry, in the mode `legacy_sequence`.

A request is a program, the sequence of the steps in which it touches the store
(`gStore`, behind `mutate`) or the copy that all request threads share (`gMem`,
`self._state`); the code between two of them works on what the thread holds.
`MutateGraph` changes the store and leaves the assignment of the result to
`self._state` to a step of its own, since another thread may have mutated in
between. `crossed` records that two requests were under way at once, `lone` that
one has been alone so far, and `due` that a patch named the current revision and
made a graph that is valid, so it is owed a save.

Left out: the rules for network joins, for `metadata_schema` of Python nodes, for
parameters of builtin nodes one by one (`blank` stands for a required one without a
value), and for `share_parent_variables`; the refusal of initial variables that are
called like an encrypted parameter (service 11232, 11464), which touches no state;
labels of Python fields; the flag `is_dirty`; dots and colons inside port ids.
Files, packages and debug sessions, which also use the graph, are the subject of
other modules. `ProjectDocuments` has graphs without component nodes, whose reading
does not save (`ReadsKeepGraph`). `PlainDocuments` is what the theorem about it
needs of the samples; TLC evaluates it as `SamplesArePlain`.

### ProjectPackages

`pkSaved` is the project's file, `pkFile` the package, `pkPlaces` the session
directories, `pkStore` and `pkMem` the workspace state and its shared copy,
`pkRun` the session started last. Of a
project its flow counts (the components it uses, the external names it needs,
which have a value, which must have one) and its settings (embedded files, the
Python bundle). Requests are programs as in `GraphCompilation`. A loaded package is
read-only for edits (`CheckWritable`), but not for an update of the runtime defaults
(service 1094, `ChangeDefaults`), which sets the values of all names at once, and an
administrator can take a permission back at any time (`ForbidRequired`). `moved`
records that the workspace was exchanged, or was stale, or, for a start, that the
runtime defaults were changed beside a request, `disturbed` the same beside a run,
`revoked` that a permission was taken back since the start began. That the executors
of single nodes ask for their permission again when they run is not modelled.

## 3. What is checked

| run | instance | shows |
| --- | --- | --- |
| `PendingInputService` | 2 executions, 3 requests (two of one execution, one with a deadline), 1 finished record kept | types; the accepted answer is delivered; one open request per execution and nothing left behind (`RequestsAreSettled`); refinement of `InputAnswer`; cancellation and deadline release the waiter |
| `PendingInputReply` | the same | refutes that `submit` always reports the answer it took |
| `RuntimeSessionAbort` | 1 session, 2 API threads, 2 executions, 1 restart, start/execute/abort/close | types; one worker per session; streams end with an outcome; an abort ends its session, and an ended session's stream is closed (`AbortSettles`) |
| `RuntimeSessionEvict` | 2 sessions of which 1 document is kept, 1 API thread, encrypted, 1 restart, also executions in the calling thread | history agrees with documents; nodes run only unlocked; endings are final: aborted stays aborted and ended is never active again |
| `RuntimeSessionConflict` | 2 sessions, 2 API threads, encrypted | refutes that one session at a time executes |
| `RuntimeSessionSnapshot` | 1 session, 2 API threads | refutes that a closed stream retains a terminal snapshot |
| `Project` | `FlowScheduler` on 148 flows: 22 with every kind of control node, and all 126 with three steps behind the start, 9 steps, lists of at most 2 items; and, each by itself, `ProjectDocuments` (2 clients), `Configuration` (2 clients, 1 kill), `PythonRuntime` (2 clients, 3 requests, the third alone), `Resources` (2 clients, 3 requests), `GraphCompilation` (2 clients, 3 requests, history of 1), `ProjectPackages` (2 clients, 4 requests, 2 projects, 2 directories) | types; outcomes of the session and of its nodes agree; once each without loops; every node where nothing branches; refinement of `FlowOrder`; every run ends, a cancelled one never as completed; no unseen graph is overwritten; clean means saved; settings are kept; a prepared environment has what is required; imports keep references; prepared plans can be run; stamps are true; reading keeps the graph; packages are closed and their runs prepared |
| `Workbench` | each by itself: `SessionStream` (2 sessions, 1 client of either kind, history of 2, 1 closed session remembered), `WorkbenchEvents` (history of 1, 2 changes), `DebugSession` (2 plans), `Operations` (3 requests, 2 keys, store of 1), `ComponentCalls` (3 components, depth 2), `BrowserTabs` (3 tabs), `NetworkSession` (3 connections), `DebugHistory` (2 sessions, 2 writers, 1 fault) | types; replays without gaps; open streams are served; the UI converges; debugging follows the plan; a step is one node; debug sessions settle; a key has its effect once; calls nest and a session whose node was cut short is aborted (`CallsAreSound`); nodes act on the chosen tab; nothing stays open; histories are whole after crashes |
| `DebugSessionOrder` | a flow whose start was drawn second | refutes that a debug session without breakpoints runs in the order of a run |
| `GraphCompilationPatch` | one client, two requests, the graphs of `MCGraphCompilation` | refutes that a patch that names the revision just read is saved |
| `FlowSchedulerSkipped` | an if without else, a foreach with a back edge | refutes that only unreachable nodes are reported as such |
| `FlowSchedulerAssertion` | an assertion with both ports connected | refutes that the failed branch runs only when the assertion fails |

Bounds. Two threads, two workers and two sessions are what every race in the
code is between: each critical section touches one session and one registry
entry. `MaxLive = 1` with two sessions makes eviction happen at once;
`TerminalRecordLimit = 1` makes trimming hit records that are still in use, which
the default of 256 does only under load. Two executions of a session are a worker
and its successor. `MaxSteps = 9` stands for 1000: it lets each of the flows
finish, the loops go round at least twice, and endless loops run into it. Two
items are enough for a break to skip one and a continue to reach one. The 126
flows are every way to draw edges forward between a start and three steps that
reaches all of them, with the first a plain step or an if and the last a plain
step, an if or a join; merges, nested merges and half-connected joins are
among them.

In `Project` and `Workbench` a component runs by itself (`part`) while the others
rest in an initial state: they share nothing but what each module has as its own
environment, so nothing is lost by it and one run of TLC serves all. Clients that
are alike take turns to be first (`AdminsInOrder`, `CallersInOrder`,
`UsersInOrder`): a first step of the second one is the same behaviour with the names
exchanged. Settings begin with a file of an older version, or with a current one
from before limits had no default, since from others nothing is migrated. Three
requests for the environment are two that overlap and one alone after them
(`LastAlone`), which is when its verdict must be true again; of a lost interpreter
and a crash one happens (`OneLoss`). Requests about the graph cross in pairs, in the
graph that has a component and among those that see what the other changes
(`Mixing`); three follow each other, the last of them one of those
(`DraftersInOrder`, `FewCross`). The second client of the packages comes only beside
a request of the first (`FewGuests`): where a package is given and loaded, to change
the defaults or take a permission back beside a start; where one is built, to
unload, save, edit or register, or to do the same beside the build. Directories are
used in their order (`DirsInOrder`). That two threads unlock one session at once is
not in a run; `RunsUnlocked` proves it for any number of them. Histories, stores and
closed sessions are remembered to a depth of one or two, so that everything is
forgotten at the first opportunity. Two frames of a segment are enough for a torn
one to be followed by another. Deadlock is not checked: a service that nobody calls
rests, and a flow that has ended does too.

Fairness. `PendingInput` assumes that threads that can run do run: weak fairness
of every step of a worker and of the callbacks, none for submissions, aborts,
deadlines or for a flow reaching its next input node. `RuntimeSession` assumes
weak fairness of the steps of workers and API threads except in `node` and
`update`, where the flow's own code runs and may take forever; `AbortGivesUp` is
the join with a time limit, which is what makes `AbortSettles` hold although a
node never returns. `FlowScheduler` assumes weak fairness of the worker as a whole and
none of `Cancel`: the loop does not block, and a node that does has a time limit
or reacts to the cancellation. That a node may hang is `RuntimeSession`'s subject.
`SessionStream` assumes that workers publish on and that handlers take what is
queued; clients owe nothing. `WorkbenchEvents` assumes that operations announce
what they changed, the UI reconnects and answers arrive, and strong fairness of
`Receive`: now and then a connection lasts until an event has been handled.
`DebugSession` assumes that the thread goes on and its nodes return, and that a
request that was begun is carried out; nothing makes anybody continue a pause.

## 4. What the refuted statements show

* `TakenAnswerReported`: `submit()` trims before it reads the record for its
  reply. A caller can be told that the request was not found although its answer
  was accepted and the node continues with it. It takes 256 younger finished
  records, so long-running services meet it.
* `OneSessionExecutes`: the check for a conflicting session looks for documents
  with status `running`. Sessions of a project with encrypted parameters stay
  `unlock_required` in the workspace state until their run is merged, so a second
  one starts and executes beside the first.
* `TerminalSnapshotRetained`: "aborting" is published after the cancellation was
  requested and without a lock, so it can replace the terminal snapshot just
  before the stream closes; every later subscriber is shown a session that is
  aborting forever.
* `SkippedAreUnreachable`: a node with several incoming edges waits for all of
  them unless they are found to hang on different branches of one node. For an
  edge that leaves the branching node itself the search starts above it and does
  not find that branch. So a merge behind an if without else waits for both
  branches, and a foreach whose body is drawn back to it waits for its own body.
  The run ends as completed and reports these nodes and all behind them as
  unreachable, although a token has reached them.
* `FailedBranchNeedsFailure`: a `network.response_assert` that passes names no
  port, so all its outgoing edges are followed, the one of port `failed` as well.
* `DebugMatchesRun`: a debug session starts at the first executable node of the
  document, a run at its entry nodes. A flow whose start was drawn after another
  node is debugged from that node, without its start, and completes.
* `PatchAppliesCurrent`: applying a patch first compares the revision the client
  named, then reads the graph. The view of a component node always differs from
  what is stored, so the read saves the graph and counts the revision up, and the
  save at the end finds another revision than the client named: a conflict, with
  nobody else there.

Some exceptions inside properties that hold are real behaviour too, where no
document promises otherwise: tabs closed in front of the chosen one
(`NodesHitChosenTab`), a connection entered while the session closes
(`NothingStaysOpen`), what overlapping requests do to settings, saved files and
environments (`SettingsAreKept`, `CleanMeansSaved`, `PreparedMeansInstalled`), a
policy that a crash between two migrations loses, runtime defaults that are
overwritten while no service exists yet, and response limits of zero that a user set
and the next start removes (`SettingsAreKept`;
`tests/application/test_configuration_service.py` 159-190 asserts the removal for an
old default, which the code cannot tell from a user's choice), a rewrite of a
history that fails (`HistoryIsWhole`), packages whose keys are already taken
(`ImportsKeepReferences`), a shared context that makes a later call look recursive
(`CallsAreSound`), validation and compilation that carry a revision of another
graph when requests cross (`StampsAreTrue`), packages built or run while the
workspace is exchanged, or while `self._state` trails the store because a stale
copy was assigned last (`moved` in `PackagesAreClosed`, `disturbed` in
`PackagedRunsArePrepared`), a start of a package beside which the runtime defaults are
changed between its check of the names and its look at the flow, and a permission
taken back after its check (`PackagedRunsArePrepared`), a cancelled session that
reaches its step limit or an unusable resource and is reported as failed
(`CallsAreSound`), documents that are neither the workspace's nor a component's and
run without an entry (`PlanIsRunnable`), and a client of the bus whose events fell
out of the history or whose reload was answered with less than a snapshot it ignored
(`UiConverges`).

## 5. What is proved

**`PendingInputProofs`**, for all executions, requests, answers and retention
limits: the types (`TypeCorrect`), `TakenAnswerDelivered`, `RequestsAreSettled` (one
open request per execution, nothing left behind), and that the service implements
`InputAnswer` (`Implementation`). Assumed are that `None` is no value, request,
result or reply, and that `Owner` is a function. None of the properties is
inductive: that an answer is delivered needs to know that the record still holds it
when its node comes for it (`AnswerHeld`), which needs that only terminal records
are dropped, that a worker asks for a request nobody was handed yet
(`AskingWorker`), and that only the waiting worker times a request out
(`TimedOutHanded`). `Inv` is the conjunction, `InvStep` has one step for each action
and under it one for each conjunct that the action can disturb. `ObservedStep` maps
each step to one of `InputAnswer` or to none: both cancellation paths to `Cancel`,
the last look of `wait()` to `HandOver` or `TimeOut`.

**`RuntimeSessionProofs`**, for all sessions, API threads, executions, limits and
restarts: types, `EndingsAreFinal`, `HistoryAgrees`; and, when
nobody executes a session in the calling thread (`"run" \notin Calls`),
`OneWorkerPerSession` and `NodesRunUnlocked`. Without that condition the last two
are false, see the hazards. The argument:

* Every step leaves the workspace state alone, adds a started session, records
  one outcome, empties the lists or is a restart (`PersistedStep`); what holds of
  these five holds of all actions. So outcomes stay outcomes and aborts stay
  (`OutcomeStep`).
* `Unstarted` and `Starting` exclude that a start overwrites the document of a
  session that already has one.
* `Recorded`: a worker past its merge or its finalisation finds the session
  ended or dropped. This is why what it publishes is an outcome, and why, when
  it takes the secrets away, no later execution gets as far as a node
  (`UnlockedFirst`).
* `Registered`: a worker is the registered one from its launch until its
  cleanup. So a launch meets no other worker, and a cleanup removes its own
  registration.
* The lemmas on `Remembered` and `RunRecorded` say that the bounded lists name a
  session once, whatever is pushed out at their end.

The strengthened invariants were model-checked on the instances of section 3
before they were proved.

**`RuntimeSessionProofs`** also proves `StreamEndsWithOutcome` under the same
condition as `OneWorkerPerSession` (`StreamsEndTold`): whoever is about to close
a stream, a worker or an abort, has announced the outcome or is the one whose
announcement is next (`EndingKnown`), and a session that was dropped has nobody
left who announces anything else (`SilentGone`).

**`FlowSchedulerProofs`**, for all flows of any size, step limits and lists: types,
`RunsOnce`, `OutcomeAgrees`, `AllReached`, and that the scheduler implements
`FlowOrder` (`Implementation`). Assumed is that flows have the shape of `FlowType`
(`FlowsAssumption`) and that the bounds are numbers (`BoundsAssumption`). The
thirty-odd actions are first brought to eleven shapes (`Shapes`): the run ends and
nothing else happens (`StopStep`), a node is done and its edges are next
(`SendStep`), a step inside a loop's body (`WalkStep`), the outermost loop is left
(`LeaveStep`), and seven actions of the main loop as they are. Each invariant
is then proved once for each shape:

* `LoopMemory`, beside the types: the outermost activation is that of the foreach
  in hand, and what an `end` marker recorded as the node behind its loop is
  reached by an edge of an end marker. The main loop goes there when the loop is
  left, so order needs it.
* `OnceInv`: without loops no token is a repeat token, and a node that was counted
  is in `executed`. That a second token of a node is skipped follows.
* `OrderInv`: whoever has a token, in the queue or in hand, is ready in the sense
  of `FlowOrder`, and each token at a waiting node was delivered. Readiness is
  never lost (`ReadyStays`), since `executed` and `chosen` only grow.
* `OutcomeInv`: until the run ends, only the node in hand is not settled and
  nothing has gone wrong, so each way to end has one node to settle.
* `ReachInv`: an edge that was sent has left its token, or its target is known; a
  node that has all its tokens is known; a known node was executed or has a
  token. When no token is left, take a node that was not executed and of which
  every predecessor was (`Straight` has no cycle, so there is one): all its edges
  were sent, so it is known, a contradiction (`NothingIsLeft`).

**`WorkbenchProofs`**, operations: for all requests, keys and store limits:
types and `EffectOncePerKey`. The invariant: a request between reservation and
completion holds its entry, which is `Reserved` and cannot be evicted
(`HeldIsReserved`), and for every key the effects that happened are the
forgotten ones, one if the store has its result, and the one of the request that
is past its effect (`EffectsCounted`).

**`WorkbenchProofs`**, calls: for all components and depths, types and
`CallsAreSound` (`CallsNest` and `CutShortAborts`). What the cancellation cut short
is a cancelled node or, after its component broke, the failed node that called it,
and the cancellation is still there when the outermost loop looks (`CutInv`): no step
between forgets one of the two. Calls use the contexts in
their order (`Placed`), the stack of a context contains every call under way in
it (`Stacked`), and as long as nothing was shared it contains nothing else
(`Exact`).

**`WorkbenchProofs`**, network: for any number of contexts, connections and
requests: types and `NothingStaysOpen`. An open service or connection has a
callback that is still to come (`CleanupComes`), an open connection is known to
its service, was late, or is being started (`OpenIsKnown`), and a loop that has
tasks has been told to end them (`LoopEnds`); the callbacks' order matters
(`Order`).

**`DocumentsProofs`**, projects, for any clients, projects and edits: types,
`NoLostEdit` and `CleanMeansSaved`. That a revision names one edit of one
workspace is `SeenInv`; `SaveInv` says that a save that runs alone has built its
layout from the store, and that no other request is between two of its
statements.

**`FilteringProofs`** says what the code's list comprehensions do. `Kept` is a
recursive function, and so are the folds of the debug session; the library's
induction theorems take the claim as an operator, which the provers cannot
instantiate, but a set of natural numbers can be given to `Least` (every set of
numbers that is not empty has a least element) and to `Induction`, which follows
from it. With these, `KeptEmbeds` and `KeptElements` say that what is kept is in the
same order and is what was asked for, `KeptIsFollowed` that it is known step by
step. (`SelectSeq` is opaque to the prover, so the components that need proofs use
`Filtering` instead.) On them rest, in `WorkbenchProofs` and for any number of
sessions, clients, events and tabs:

* Streams, `ReplayIsGapless`: a history is a run of ids that ends with the last
  one issued (`LogRuns`), so what a cursor selects from it begins right behind the
  cursor, unless it expired, and a flush extends the run a client `Carries`. The
  terminal event is the last one, since nobody publishes after it.
* Streams and events, types. A subscriber count between 0 and the limit is not
  inductive alone: the slots that are free, the subscriptions that hold one and the
  handlers of a UI that are running add up (`SlotsAreCounted`, `Slotted`). An
  answer of the workbench's event stream is there only while a client waits for
  one (`Answering`).
* Tabs, `NodesHitChosenTab` and types: as long as no tab in front of it closed, the
  chosen tab is the active one, stands in the remembered place, and every tab in
  front of it is open (`ChosenIsInPlace`); so dropping the closed ones leaves the
  place right (`KeptStart`). A frame in use is one of the active tab.

**`DebugProofs`**, history, for any number of sessions, writers and faults:
`HistoryIsWhole` and types. What is readable of a file goes up to what
was acknowledged, to the cursor, and to where a thread appends (`Sound`); only
a thread that is about to rewrite the file is excepted (`Rewriting`). Only the
holder of the lock is in the middle of something (`InTurn`). The index names no
session twice.

**`DebugProofs`**, sessions: `StepRunsOneNode`, for all plans. What the
thread holds and what the document says drift apart as soon as a session is
aborted, so the invariant `Stepping` speaks of threads that are not `Doomed` (no
abort was asked for and the session is remembered) and of those that are at a
node: such a thread is `AtWork`, that is, the document has its mode, it is not
paused, and so nobody may continue. A step is counted from zero because whoever
may write a request finds the thread waiting, and a doomed thread completes its
node and then ends without looking at the mode.

`DebugFollowsPlan`, for plans of any size without loops and components
(`PlansAssumption` has the shape of a plan, and that `MaxTokens` lets the
undisturbed run of such a plan end). The argument has three parts:

* The run. It is regular (`Regular`, `Turns`): every known node is through, waits
  once in the queue, or is next. So each token completes a node (`RunCounts`), and
  as no node is completed twice there is room for all of them, by the pigeon hole
  principle (`RunHasRoom`); what is completed only grows (`RunGrows`).
* The position. Following edges depends only on what two schedules have in common
  (`Alike`, `FollowAllAlike`), not on which ids a restored schedule lists as
  queued. A thread whose position `Fits` one of the run's is therefore, after its
  node, at the run's next position (`FitsGoesOn`).
* The pauses. What a pause, a request or a restart leaves in the document `Shows`
  a position: as its current node, in front of the queue, or by the cursor. From
  what a document shows, `Resumption` gets back to that position (`ResumesThere`):
  queueing the restored tokens a second time changes nothing (`PutAllKnown`), and
  taking the current node out of the queue takes nothing else (`KeptWhole`).

The types of `DebugSession` need what the document remembers to be of the plan:
each token, node and breakpoint in it is one (`DebugTyped`, `Written`, `Copies`).

`Steered` is the invariant: the document shows a position that fits what was
executed (`DocFits`), and so does the thread, unless it is doomed or its session
has ended. The steps of `Stepping` and `Steered` have one lemma for each action.

`WorkbenchTypeSafe`: the run Workbench composes eight components, of which one
steps at a time. A behaviour of the composition is one of each component
(`EachRuns`), so each theorem about a component holds in the composition.
`ProjectTypeSafe`, at the end of `FlowSchedulerProofs`, is the same of the seven
parts of the run Project (`EachPartRuns`).

**`ProjectProofs`**, for any number of clients:

* Packages, `PackagesAreClosed`, `PackagedRunsArePrepared` and types, for all
  projects with the fields of one. `Packing`: what preflight saw is closed, and
  what is written equals it or is marked as moved. `Loading`: a tidy workspace
  holds of the package in its directory what a run depends on (`IsAsPacked`); a
  request under which nothing moved sees a copy that stems from the store
  (`Akin`). Values are another matter, since a change of the defaults takes some
  away from a loaded package: a start has no such change beside it unless it is
  disturbed, and then no value is lost from the copy to the store (`CalmIsKin`, by
  `Wider`). A start that has passed its checks found that the flow fits (`Ready`), up
  to a permission that was taken back since, and a flow that fitted goes on to fit
  (`RunFits`) since every step leaves the package in the store alone unless it
  exchanges it (`Steady`).
* Settings, `SettingsAreKept` and types. `Configured`: a request that runs alone
  knows every setting it is not to change, and the temporary file is its own
  (`KnowsSettings`); a start takes nothing but limits of zero out of a current file,
  and has taken over an older file before it goes on
  (`FilesFit`); a risky value is confirmed wherever it lies (`RisksAreConfirmed`).
* Python environment, `PreparedMeansInstalled` and types. `EnvironmentIsKnown`:
  checks write nothing, no other request that writes is beside one that is alone,
  and such a request marks what it installed (`PreparesWell`).
* Resources, `ImportsKeepReferences` and types, from the assumption on what is
  imported that section 2 names. No name means two of the resources in the
  registry, the file, the copy and the packages in hand together (`World`), and
  none is called by a name that is still to be given (`NamesAreKept`). A step
  brings only resources under a new name or under names that one resource had
  (`MayCome`). So renaming is injective and touches nothing that is kept, and a
  reference of an imported or a kept resource names after the import what it named
  before it.

**`DocumentsProofs`**, graphs, for all graphs, resources, patches and clients:

* `PlanIsRunnable`. Validation counts the branches of forks and joins by their
  slots, the scheduler waits by the ids of ports; what connects them is that a
  graph that is accepted has distinct ids. The resources do not matter for what is
  runnable, so it does no harm that they change between judgement and plan; the
  judged document is the planned one (`ThreadsAreSound`).
* `StampsAreTrue`, from the assumption that revisions are numbers. While requests
  come one after the other, a program is `Chained`: each of its steps stands
  directly behind one that provides what it relies on (`MayFollow`). Then what a
  thread holds when a step comes is what the store holds (`HoldsAt`), the shared
  copy equals the store or is about to be assigned it, and a stamp is never ahead
  of the revisions (`Stamped`); together this is `Alone`.
* Types, `GraphTypeSafe`, of the revisions, counters, history and requests (what a
  graph or a plan looks like is the subject of the other theorems): a thread has a
  copy of the state to assign only in the step before it does (`ReadySteps`,
  `Outcomes`).
* `ReadsKeepGraph` (`ReadingKeepsGraph`), for documents as clients send them
  (`PlainDocuments`: lists are lists, no field is called like a control port, no
  component graph like a node kind of the program). A document is at rest when
  `NeedsRenewal` finds nothing to do (`StateRests`). Three facts carry it.
  Normalising is idempotent: making a node that was made gives it back, for each
  kind that has ports to draw (`MadeStays`), so a normalised graph has nothing left
  to normalise as long as it calls no component (`NormalisedRests`,
  `RestsUnlessCalled`). A patch keeps a plain graph plain (`PatchedIsPlain`). And a
  program persists a document only behind the step that normalised it (`Late`), so
  what is stored, shared, in the hands of a thread or about to be assigned is at
  rest (`GraphRests`). A reader then finds nothing to renew, and no other step of
  its request saves (`OthersKeepGraph`).

Assumed throughout are the `ASSUME`s of the modules: that limits are numbers, that
values which stand for nothing are no values, and that the samples have the shape
of what they are samples of. TLC evaluates each of them.

The proofs are in eight modules, several components to one.

Only model-checked:

* the order in which a debug session goes through a plan with loops or components:
  `DebugFollowsPlan` is about plans without them, `StepRunsOneNode` and
  `DebugSettles` about all;
* all liveness (`WaiterIsReleased`, `AbortSettles`, `FlowRunEnds`,
  `StreamIsServed`, `UiConverges`, `DebugSettles`), since reasoning about fairness
  and ENABLED is beyond the prover.

## 6. What is left

Behaviour met while modelling that no property is about: a session that waits for
its password at a restart can only be aborted (service 16049); tokens at a joining
node are never taken back, so in the second turn of a loop one arrival is enough
(service 10619); a request that a network node gave up on goes on retrying
(`runtime/engine.py` 693); the marker of the Python environment lies outside the
directory it speaks of, an interrupted venv without pip is never repaired, and a
dead interpreter is kept; the preflight of an import puts resources into the copy
all threads share; close_project looks for active sessions before it resets the
state (service 3825).

Of graphs: a field of a boundary, input or Python node that is named `control` (or
`timed_out`) gets the slot of a control port, and the second normalisation of such a
graph gives it the id of that port (13489-13500), so it is saved once more when it
is read; `PlainDocuments` excludes such fields, and no sample has one.
`max_connections` counts the port ids that edges name literally (15213). A join by
quorum still waits for a token at every port (10459-10498).

Of packages: `runtime_ready` of a loaded package looks at required externals only
while a start is refused for any name without a value (19973); a Python runtime
with bundle mode "none" makes the build raise; embedded files of one name overwrite
each other, and missing ones are skipped; unloading asks neither whether a session
runs nor whether a package is loaded; loading over a package leaves the old
directory behind; resources can be changed while a package is loaded, whose
workspace is read-only otherwise.

Of resources: if a package holds a resource whose key is the id of another one in
it, importing it under "rename" (service 5023-5074) gives both the same id. The
service makes no such package.

Not modelled:

* The builtin components and the executors of single nodes: pure functions or I/O.
  A model of them would repeat their tables. Of the compiler's stages counts what
  they pass on and refuse; they keep no state.
* The UI beyond the stores that follow the two streams: presentation.
* Updates, the installer and the OCR binaries: one-shot scripts over the file system.
* The import of legacy projects: a data conversion.
* Encryption and redaction: computations on strings.
* Inside modelled components: rotation and blobs of the event storage, watch
  expressions and conditions of the debugger, the project scope of the
  configuration, TLS and proxies; pip or venv processes that outlive a killed server
  and go on writing into the environment that the next one prepares.
