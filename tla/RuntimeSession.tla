--------------------------- MODULE RuntimeSession ---------------------------
(***************************************************************************)
(* The life of a runtime session: CompilationWorkbenchService starts it,   *)
(* unlocks its encrypted parameters, runs it in a worker thread (or in the *)
(* calling thread), aborts it, records its outcome in the workspace state, *)
(* publishes it to the session's stream, and recovers after a restart.     *)
(*                                                                         *)
(* API threads and workers interleave at every critical section: one       *)
(* action is one use of _runtime_execution_lock, of the state store, of    *)
(* the stream broker or of a cancellation context.  The execution of the   *)
(* nodes is abstracted to its visible effects: a snapshot before a node,   *)
(* the check of the cancellation after it, and how the loop ends.          *)
(*                                                                         *)
(* Definitions named Faulty... are seeded faults: each is what a plausible *)
(* bug would make of the definition that follows it, and breaks a property *)
(* when it takes its place.  Nothing else uses them.                       *)
(***************************************************************************)
EXTENDS Naturals, Sequences

CONSTANTS
    Sessions,      \* session ids, each used by one start
    Threads,       \* API threads
    MaxRuns,       \* bound on the executions of one session
    MaxLive,       \* MAX_RUNTIME_LIVE_SESSION_DOCUMENTS
    MaxHistory,    \* MAX_RUNTIME_SESSION_HISTORY
    MaxRestarts,   \* bound on restarts of the service
    Encrypted,     \* whether the project has an encrypted_parameter_set
    Calls,         \* the API calls the clients make
    NoSession

ASSUME BoundsAssumption ==
    MaxRuns \in Nat \ {0} /\ MaxLive \in Nat \ {0} /\ MaxHistory \in Nat \ {0}
ASSUME RestartsAssumption == MaxRestarts \in Nat
ASSUME EncryptedAssumption == Encrypted \in BOOLEAN
ASSUME CallsAssumption ==
    Calls \subseteq {"start", "unlock", "execute", "run", "abort", "close_project"}
ASSUME NoSessionAssumption == NoSession \notin Sessions

Runs == 1 .. MaxRuns           \* the executions of a session
Contexts == 1 .. 2 * MaxRuns   \* one made by each launch, one by each setdefault
NoRun == 0

VARIABLES
    (* workspace state, the part a restart keeps *)
    live,        \* state["runtime_sessions"], newest first
    doc,         \* runtime_session["status"] of a session's document
    history,     \* execution_history["runtime_runs"], newest first
    (* memory of the service *)
    plans,       \* keys of _runtime_execution_plans
    thread,      \* _runtime_execution_threads: the run registered, or NoRun
    context,     \* _runtime_cancellation_contexts: a context, or NoRun
    unlocked,    \* keys of _runtime_sensitive_parameter_refs (and values)
    cancelled,   \* the contexts <<session, context>> that were cancelled
    (* RuntimeSessionStreamBroker *)
    latest,      \* status in _latest_snapshot_by_session_id
    closed,      \* _closed_session_id_set
    announced,   \* terminal events published on a session's stream
    (* workers *)
    launched,    \* number of executions of a session so far
    wpc,         \* where execution n of a session stands
    wctx,        \* the context it uses
    verdict,     \* its outcome, then the status it publishes
    (* API threads *)
    tpc,         \* where an API thread stands
    target,      \* the session it deals with
    caught,      \* the run abort_runtime_session found registered
    restarts

persisted == <<live, doc, history>>
registry  == <<plans, thread, context, unlocked>>
stream    == <<latest, closed, announced>>
workers   == <<launched, wpc, wctx, verdict>>
api       == <<tpc, target, caught>>
vars      == <<live, doc, history, plans, thread, context, unlocked, cancelled,
               latest, closed, announced, launched, wpc, wctx, verdict,
               tpc, target, caught, restarts>>

Outcomes  == {"completed", "failed", "aborted"}
Active    == {"running", "unlock_required"}
Documents == {"absent"} \cup Active \cup Outcomes
Visible   == {"none", "running", "unlock_required", "aborting"} \cup Outcomes

\* A worker holds the registry entries of its session until "cleanup" is over.
Executing == {"plan", "load", "dispatch", "node", "update", "close_context",
              "merge", "read_outcome", "finalize", "read_failure", "publish_snapshot",
              "publish_event", "cleanup"}
WorkerLocations == {"none", "start", "close_stream", "ended"} \cup Executing

ApiLocations == {"idle", "start_remember", "start_publish", "unlock_store",
                 "execute_unlock", "execute_launch", "run_call", "abort_cancel",
                 "abort_publish", "abort_join", "abort_lookup", "force",
                 "force_read", "force_snapshot", "force_event", "force_close",
                 "close_reset"}

HasEnded(s) == doc[s] \in Outcomes

\* The sessions whose documents are kept.
Live == {live[i] : i \in 1 .. Len(live)}

FaultyAlive(s, n) == n # NoRun /\ wpc[s][n] \notin {"none", "start", "ended"}

\* Thread.is_alive() of the worker that runs execution n.
Alive(s, n) == n # NoRun /\ wpc[s][n] \notin {"none", "ended"}

Init ==
    /\ live = <<>>
    /\ doc = [s \in Sessions |-> "absent"]
    /\ history = <<>>
    /\ plans = {}
    /\ thread = [s \in Sessions |-> NoRun]
    /\ context = [s \in Sessions |-> NoRun]
    /\ unlocked = {}
    /\ cancelled = {}
    /\ latest = [s \in Sessions |-> "none"]
    /\ closed = {}
    /\ announced = [s \in Sessions |-> {}]
    /\ launched = [s \in Sessions |-> 0]
    /\ wpc = [s \in Sessions |-> [n \in Runs |-> "none"]]
    /\ wctx = [s \in Sessions |-> [n \in Runs |-> NoRun]]
    /\ verdict = [s \in Sessions |-> [n \in Runs |-> "none"]]
    /\ tpc = [t \in Threads |-> "idle"]
    /\ target = [t \in Threads |-> NoSession]
    /\ caught = [t \in Threads |-> NoRun]
    /\ restarts = 0

-----------------------------------------------------------------------------
(* Helpers.                                                                *)

\* The newest entries are kept.
Newest(seq, bound) == SubSeq(seq, 1, IF Len(seq) < bound THEN Len(seq) ELSE bound)

\* Where a session stands in a list that names it at most once, or 0.
Position(names, s) ==
    IF \E i \in DOMAIN names : names[i] = s
    THEN CHOOSE i \in DOMAIN names : names[i] = s
    ELSE 0

Without(seq, i) == SubSeq(seq, 1, i - 1) \o SubSeq(seq, i + 1, Len(seq))

Remembered(s) == Newest(<<s>> \o Without(live, Position(live, s)), MaxLive)

Named == [i \in 1 .. Len(history) |-> history[i].session]

FaultyRunRecorded(s, st) ==
    Newest(<<[session |-> s, status |-> st]>> \o history, MaxHistory)

RunRecorded(s, st) ==
    Newest(<<[session |-> s, status |-> st]>>
             \o Without(history, Position(Named, s)), MaxHistory)

\* publish_snapshot: a closed stream drops what comes late.
PublishSnapshot(s, st) ==
    latest' = IF s \in closed THEN latest ELSE [latest EXCEPT ![s] = st]

\* publish_event, of the events that announce an outcome.
PublishOutcome(s, st) ==
    announced' = IF s \in closed THEN announced
                 ELSE [announced EXCEPT ![s] = @ \cup {st}]

Worker(s, n, from, to) ==
    /\ wpc[s][n] = from
    /\ wpc' = [wpc EXCEPT ![s][n] = to]

Api(t, from, to) ==
    /\ tpc[t] = from
    /\ tpc' = [tpc EXCEPT ![t] = to]

\* An API thread takes up a call, goes on with it, or is done with it.
Call(t, name, s, to) ==
    /\ name \in Calls
    /\ Api(t, "idle", to)
    /\ target' = [target EXCEPT ![t] = s]
    /\ UNCHANGED caught

Continue(t, from, to) == Api(t, from, to) /\ UNCHANGED <<target, caught>>

Reply(t, from) ==
    /\ Api(t, from, "idle")
    /\ target' = [target EXCEPT ![t] = NoSession]
    /\ caught' = [caught EXCEPT ![t] = NoRun]

\* The parts of the state a step leaves alone.
OnlyApi == UNCHANGED <<persisted, registry, cancelled, stream, workers, restarts>>

-----------------------------------------------------------------------------
(* start_runtime_session                                                   *)

InitialStatus == IF Encrypted THEN "unlock_required" ELSE "running"

\* _build_runtime_session_conflict_block: only "running" documents conflict.
StartPrepare(t, s) ==
    /\ doc[s] = "absent"
    /\ \A u \in Threads : target[u] # s
    /\ \A x \in Live : doc[x] # "running"
    /\ Call(t, "start", s, "start_remember")
    /\ OnlyApi

StartRemember(t) ==
    LET s == target[t] IN
    /\ Continue(t, "start_remember", "start_publish")
    /\ plans' = plans \cup {s}
    /\ live' = Remembered(s)
    /\ doc' = [doc EXCEPT ![s] = InitialStatus]
    /\ UNCHANGED <<history, thread, context, unlocked, cancelled, stream, workers,
                   restarts>>

StartPublish(t) ==
    /\ Reply(t, "start_publish")
    /\ PublishSnapshot(target[t], InitialStatus)
    /\ UNCHANGED <<persisted, registry, cancelled, closed, announced, workers, restarts>>

-----------------------------------------------------------------------------
(* unlock_runtime_session_parameters: two looks at the worker, and the     *)
(* decryption between them; with the right password.                       *)

UnlockCheck(t, s) ==
    /\ Encrypted
    /\ s \in Live
    /\ ~HasEnded(s)
    /\ ~Alive(s, thread[s])
    /\ Call(t, "unlock", s, "unlock_store")
    /\ OnlyApi

UnlockStore(t) ==
    LET s == target[t] IN
    /\ Reply(t, "unlock_store")
    /\ unlocked' = IF Alive(s, thread[s]) THEN unlocked ELSE unlocked \cup {s}
    /\ UNCHANGED <<persisted, plans, thread, context, cancelled, stream, workers,
                   restarts>>

-----------------------------------------------------------------------------
(* start_runtime_session_execution                                         *)

\* BUG PATTERN: only a session that runs already is refused.
FaultyNeedsUnlock(s) == Encrypted /\ doc[s] = "running" /\ s \notin unlocked

\* requires_runtime_session_parameter_unlock
NeedsUnlock(s) == Encrypted /\ ~HasEnded(s) /\ s \notin unlocked

ExecuteCheck(t, s) ==
    /\ s \in Live
    /\ ~HasEnded(s)
    /\ Call(t, "execute", s, "execute_unlock")
    /\ OnlyApi

ExecuteUnlock(t) ==
    LET s == target[t] IN
    /\ IF s \in Live /\ ~NeedsUnlock(s)
       THEN Continue(t, "execute_unlock", "execute_launch")
       ELSE Reply(t, "execute_unlock")
    /\ OnlyApi

\* The registered worker is reused while it lives; else a new one is started
\* with a cancellation context of its own.
ExecuteLaunch(t) ==
    LET s == target[t]
        n == launched[s] + 1
    IN
    /\ Reply(t, "execute_launch")
    /\ IF Alive(s, thread[s]) \/ n > MaxRuns
       THEN UNCHANGED <<thread, context, launched, wpc>>
       ELSE /\ launched' = [launched EXCEPT ![s] = n]
            /\ thread' = [thread EXCEPT ![s] = n]
            /\ context' = [context EXCEPT ![s] = n]
            /\ wpc' = [wpc EXCEPT ![s][n] = "start"]
    /\ UNCHANGED <<persisted, plans, unlocked, cancelled, stream, wctx, verdict, restarts>>

(* run_runtime_session: the same execution in the calling thread, which is *)
(* registered nowhere.                                                     *)

RunHere(t, s) ==
    LET n == launched[s] + 1 IN
    /\ s \in Live
    /\ ~NeedsUnlock(s)
    /\ n <= MaxRuns
    /\ "run" \in Calls
    /\ Api(t, "idle", "run_call")
    /\ target' = [target EXCEPT ![t] = s]
    /\ caught' = [caught EXCEPT ![t] = n]
    /\ launched' = [launched EXCEPT ![s] = n]
    /\ wpc' = [wpc EXCEPT ![s][n] = "start"]
    /\ UNCHANGED <<persisted, registry, cancelled, stream, wctx, verdict, restarts>>

RunReturns(t) ==
    /\ Reply(t, "run_call")
    /\ wpc[target[t]][caught[t]] = "ended"
    /\ OnlyApi

-----------------------------------------------------------------------------
(* _run_runtime_session_sync: execution n of session s.                    *)

\* An ended or missing session makes the worker stop before its try block.
WorkerStart(s, n) ==
    /\ Worker(s, n, "start", IF s \in Live /\ ~HasEnded(s) THEN "plan" ELSE "ended")
    /\ UNCHANGED <<persisted, registry, cancelled, stream, launched, wctx, verdict, api,
                   restarts>>

WorkerPlan(s, n) ==
    /\ Worker(s, n, "plan", IF s \in plans THEN "load" ELSE "finalize")
    /\ UNCHANGED <<persisted, registry, cancelled, stream, launched, wctx, verdict, api,
                   restarts>>

\* The run works on a copy of the state and on the session's registered
\* cancellation context, which it creates when there is none.
WorkerLoad(s, n) ==
    LET c == IF context[s] = NoRun THEN MaxRuns + n ELSE context[s] IN
    /\ Worker(s, n, "load", IF s \in Live THEN "dispatch" ELSE "finalize")
    /\ IF s \in Live
       THEN /\ context' = [context EXCEPT ![s] = c]
            /\ wctx' = [wctx EXCEPT ![s][n] = c]
       ELSE UNCHANGED <<context, wctx>>
    /\ UNCHANGED <<persisted, plans, thread, unlocked, cancelled, stream, launched,
                   verdict, api, restarts>>

LiveStatus(s, n) == IF <<s, wctx[s][n]>> \in cancelled THEN "aborting" ELSE "running"

\* publish_live_update before a node is executed.
WorkerDispatch(s, n) ==
    /\ Worker(s, n, "dispatch", "node")
    /\ PublishSnapshot(s, LiveStatus(s, n))
    /\ UNCHANGED <<persisted, registry, cancelled, closed, announced, launched, wctx,
                   verdict, api, restarts>>

Decide(s, n, from, v) ==
    /\ Worker(s, n, from, "close_context")
    /\ verdict' = [verdict EXCEPT ![s][n] = v]

\* The node returns.  A cancellation overrides its result, unless its resource
\* was unavailable or the executor's surroundings raised; a failure is
\* published before it is recorded.
WorkerNode(s, n) ==
    /\ \/ /\ <<s, wctx[s][n]>> \in cancelled
          /\ Decide(s, n, "node", "aborted")
          /\ UNCHANGED latest
       \/ /\ <<s, wctx[s][n]>> \notin cancelled
          /\ Worker(s, n, "node", "update")
          /\ UNCHANGED <<verdict, latest>>
       \/ Decide(s, n, "node", "failed") /\ PublishSnapshot(s, "failed")
       \/ Decide(s, n, "node", "raised") /\ UNCHANGED latest
    /\ UNCHANGED <<persisted, registry, cancelled, closed, announced, launched, wctx, api,
                   restarts>>

\* publish_live_update after a node; then the next node, the end of the flow,
\* the step limit or a control error.
WorkerUpdate(s, n) ==
    /\ \/ Worker(s, n, "update", "dispatch") /\ UNCHANGED verdict
       \/ \E v \in {"completed", "failed", "raised"} : Decide(s, n, "update", v)
    /\ PublishSnapshot(s, LiveStatus(s, n))
    /\ UNCHANGED <<persisted, registry, cancelled, closed, announced, launched, wctx, api,
                   restarts>>

\* RuntimeContext.close() cancels the context that the run owns.
WorkerCloseContext(s, n) ==
    /\ Worker(s, n, "close_context",
              IF verdict[s][n] = "raised" THEN "finalize" ELSE "merge")
    /\ cancelled' = cancelled \cup {<<s, wctx[s][n]>>}
    /\ UNCHANGED <<persisted, registry, stream, launched, wctx, verdict, api, restarts>>

FaultyMergeOutcome(s, n) ==
    /\ live' = Remembered(s)
    /\ doc' = [doc EXCEPT ![s] = verdict[s][n]]
    /\ history' = RunRecorded(s, verdict[s][n])

\* merge_runtime_execution: a document aborted meanwhile stays as it is; one
\* that was dropped meanwhile comes back.
MergeOutcome(s, n) ==
    IF s \in Live /\ doc[s] = "aborted"
    THEN UNCHANGED persisted
    ELSE /\ live' = Remembered(s)
         /\ doc' = [doc EXCEPT ![s] = verdict[s][n]]
         /\ history' = RunRecorded(s, verdict[s][n])

WorkerMerge(s, n) ==
    /\ Worker(s, n, "merge", "read_outcome")
    /\ MergeOutcome(s, n)
    /\ UNCHANGED <<registry, cancelled, stream, launched, wctx, verdict, api, restarts>>

\* get_runtime_session, whose result is what the worker publishes.
ReadBack(s, n, from, orElse) ==
    /\ Worker(s, n, from, IF s \in Live THEN "publish_snapshot" ELSE orElse)
    /\ verdict' = [verdict EXCEPT ![s][n] = IF s \in Live THEN doc[s] ELSE @]
    /\ UNCHANGED <<persisted, registry, cancelled, stream, launched, wctx, api, restarts>>

WorkerReadOutcome(s, n) == ReadBack(s, n, "read_outcome", "finalize")

FaultyWorkerFinalize(s, n) ==
    /\ Worker(s, n, "finalize", IF s \in Live THEN "publish_event" ELSE "cleanup")
    /\ verdict' = [verdict EXCEPT ![s][n] = "failed"]
    /\ UNCHANGED <<persisted, registry, cancelled, stream, launched, wctx, api, restarts>>

\* _finalize_runtime_session_after_unhandled_exception
WorkerFinalize(s, n) ==
    /\ Worker(s, n, "finalize", IF s \in Live THEN "read_failure" ELSE "cleanup")
    /\ IF s \in Live /\ ~HasEnded(s)
       THEN /\ doc' = [doc EXCEPT ![s] = "failed"]
            /\ history' = RunRecorded(s, "failed")
            /\ UNCHANGED live
       ELSE UNCHANGED persisted
    /\ UNCHANGED <<registry, cancelled, stream, launched, wctx, verdict, api, restarts>>

WorkerReadFailure(s, n) == ReadBack(s, n, "read_failure", "cleanup")

WorkerPublishSnapshot(s, n) ==
    /\ Worker(s, n, "publish_snapshot", "publish_event")
    /\ PublishSnapshot(s, verdict[s][n])
    /\ UNCHANGED <<persisted, registry, cancelled, closed, announced, launched, wctx,
                   verdict, api, restarts>>

WorkerPublishEvent(s, n) ==
    /\ Worker(s, n, "publish_event", "cleanup")
    /\ PublishOutcome(s, verdict[s][n])
    /\ UNCHANGED <<persisted, registry, cancelled, latest, closed, launched, wctx,
                   verdict, api, restarts>>

\* The finally block drops whatever is registered for the session...
WorkerCleanup(s, n) ==
    /\ Worker(s, n, "cleanup", "close_stream")
    /\ thread' = [thread EXCEPT ![s] = NoRun]
    /\ context' = [context EXCEPT ![s] = NoRun]
    /\ plans' = plans \ {s}
    /\ unlocked' = unlocked \ {s}
    /\ UNCHANGED <<persisted, cancelled, stream, launched, wctx, verdict, api, restarts>>

\* ...and ends the stream.
WorkerCloseStream(s, n) ==
    /\ Worker(s, n, "close_stream", "ended")
    /\ closed' = closed \cup {s}
    /\ UNCHANGED <<persisted, registry, cancelled, latest, announced, launched, wctx,
                   verdict, api, restarts>>

-----------------------------------------------------------------------------
(* abort_runtime_session                                                   *)

AbortCall(t, s) ==
    LET n == thread[s] IN
    /\ "abort" \in Calls
    /\ doc[s] # "absent"
    /\ target' = [target EXCEPT ![t] = s]
    /\ IF Alive(s, n) /\ context[s] # NoRun
       THEN /\ Api(t, "idle", "abort_cancel")
            /\ caught' = [caught EXCEPT ![t] = n]
       ELSE /\ Api(t, "idle", "abort_lookup")
            /\ UNCHANGED caught
    /\ OnlyApi

\* request_cancel; only the first caller publishes "aborting".  The context
\* registered with a thread is the one created for it.
AbortCancel(t) ==
    LET c == <<target[t], caught[t]>> IN
    /\ cancelled' = cancelled \cup {c}
    /\ Continue(t, "abort_cancel",
                IF c \in cancelled THEN "abort_join" ELSE "abort_publish")
    /\ UNCHANGED <<persisted, registry, stream, workers, restarts>>

\* _publish_runtime_status_snapshot, which needs an earlier snapshot.
AbortPublish(t) ==
    LET s == target[t] IN
    /\ Continue(t, "abort_publish", "abort_join")
    /\ IF latest[s] = "none" THEN UNCHANGED latest ELSE PublishSnapshot(s, "aborting")
    /\ UNCHANGED <<persisted, registry, cancelled, closed, announced, workers, restarts>>

\* join() sees the worker end: the reply says "aborted", whatever the session
\* that comes with it says.
AbortJoined(t) ==
    LET s == target[t] IN
    /\ ~Alive(s, caught[t])
    /\ Reply(t, "abort_join")
    /\ OnlyApi

FaultyAbortGivesUp(t) == FALSE /\ UNCHANGED vars

\* join() gives up after RUNTIME_ABORT_SETTLE_TIMEOUT_SECONDS.
AbortGivesUp(t) ==
    /\ Alive(target[t], caught[t])
    /\ Continue(t, "abort_join", "force")
    /\ OnlyApi

AbortLookup(t) ==
    LET s == target[t] IN
    /\ IF s \in Live /\ ~HasEnded(s)
       THEN Continue(t, "abort_lookup", "force")
       ELSE Reply(t, "abort_lookup")
    /\ OnlyApi

\* _abort_runtime_session_without_worker: the status is not looked at again.
ForceAbort(t) ==
    LET s == target[t] IN
    /\ IF s \in Live
       THEN /\ Continue(t, "force", "force_read")
            /\ doc' = [doc EXCEPT ![s] = "aborted"]
            /\ history' = RunRecorded(s, "aborted")
            /\ UNCHANGED live
       ELSE Reply(t, "force") /\ UNCHANGED persisted
    /\ UNCHANGED <<registry, cancelled, stream, workers, restarts>>

ForceRead(t) ==
    /\ IF target[t] \in Live
       THEN Continue(t, "force_read", "force_snapshot")
       ELSE Reply(t, "force_read")
    /\ OnlyApi

ForceSnapshot(t) ==
    /\ Continue(t, "force_snapshot", "force_event")
    /\ PublishSnapshot(target[t], "aborted")
    /\ UNCHANGED <<persisted, registry, cancelled, closed, announced, workers, restarts>>

ForceEvent(t) ==
    /\ Continue(t, "force_event", "force_close")
    /\ PublishOutcome(target[t], "aborted")
    /\ UNCHANGED <<persisted, registry, cancelled, latest, closed, workers, restarts>>

ForceClose(t) ==
    /\ Reply(t, "force_close")
    /\ closed' = closed \cup {target[t]}
    /\ plans' = plans \ {target[t]}
    /\ UNCHANGED <<persisted, thread, context, unlocked, cancelled, latest, announced,
                   workers, restarts>>

-----------------------------------------------------------------------------
(* close_project: the check and the reset of the workspace state.          *)

CloseCheck(t) ==
    /\ \A s \in Sessions : ~Alive(s, thread[s])
    /\ \A s \in Live : HasEnded(s)
    /\ "close_project" \in Calls
    /\ Continue(t, "idle", "close_reset")
    /\ OnlyApi

CloseReset(t) ==
    /\ Continue(t, "close_reset", "idle")
    /\ live' = <<>>
    /\ history' = <<>>
    /\ UNCHANGED <<doc, registry, cancelled, stream, workers, restarts>>

-----------------------------------------------------------------------------
(* The process ends and a new one opens the same workspace state:          *)
(* _invalidate_recovered_execution_sessions fails what was "running".      *)

FaultyRecovered(s) == IF s \in Live /\ doc[s] = "running" THEN "incomplete" ELSE doc[s]

Recovered(s) == IF s \in Live /\ doc[s] = "running" THEN "failed" ELSE doc[s]

Restart ==
    /\ restarts < MaxRestarts
    /\ restarts' = restarts + 1
    /\ doc' = [s \in Sessions |-> Recovered(s)]
    /\ history' = [i \in 1 .. Len(history) |->
                     LET h == history[i] IN
                       IF h.session \in Live /\ doc[h.session] = "running"
                       THEN [session |-> h.session, status |-> "failed"] ELSE h]
    /\ plans' = {}
    /\ thread' = [s \in Sessions |-> NoRun]
    /\ context' = [s \in Sessions |-> NoRun]
    /\ unlocked' = {}
    /\ latest' = [s \in Sessions |-> "none"]
    /\ closed' = {}
    /\ announced' = [s \in Sessions |-> {}]
    /\ wpc' = [s \in Sessions |-> [n \in Runs |->
                 IF wpc[s][n] = "none" THEN "none" ELSE "ended"]]
    /\ tpc' = [t \in Threads |-> "idle"]
    /\ target' = [t \in Threads |-> NoSession]
    /\ caught' = [t \in Threads |-> NoRun]
    /\ UNCHANGED <<live, cancelled, launched, wctx, verdict>>

-----------------------------------------------------------------------------
WorkerStep(s, n) ==
    \/ WorkerStart(s, n) \/ WorkerPlan(s, n) \/ WorkerLoad(s, n)
    \/ WorkerDispatch(s, n) \/ WorkerNode(s, n) \/ WorkerUpdate(s, n)
    \/ WorkerCloseContext(s, n)
    \/ WorkerMerge(s, n) \/ WorkerReadOutcome(s, n)
    \/ WorkerFinalize(s, n) \/ WorkerReadFailure(s, n)
    \/ WorkerPublishSnapshot(s, n) \/ WorkerPublishEvent(s, n)
    \/ WorkerCleanup(s, n) \/ WorkerCloseStream(s, n)

NewCall(t) ==
    \/ \E s \in Sessions :
         \/ StartPrepare(t, s) \/ UnlockCheck(t, s) \/ ExecuteCheck(t, s)
         \/ RunHere(t, s) \/ AbortCall(t, s)
    \/ CloseCheck(t)

ApiStep(t) ==
    \/ StartRemember(t) \/ StartPublish(t)
    \/ UnlockStore(t)
    \/ ExecuteUnlock(t) \/ ExecuteLaunch(t) \/ RunReturns(t)
    \/ AbortCancel(t) \/ AbortPublish(t) \/ AbortJoined(t) \/ AbortGivesUp(t)
    \/ AbortLookup(t)
    \/ ForceAbort(t) \/ ForceRead(t) \/ ForceSnapshot(t) \/ ForceEvent(t) \/ ForceClose(t)
    \/ CloseReset(t)

Next ==
    \/ \E s \in Sessions, n \in Runs : WorkerStep(s, n)
    \/ \E t \in Threads : NewCall(t) \/ ApiStep(t)
    \/ Restart

Spec == Init /\ [][Next]_vars

\* Threads that can run do run, joins time out; no node has to return, nobody
\* has to call, and the service does not have to restart.
Fairness ==
    /\ \A s \in Sessions, n \in Runs :
         WF_vars(WorkerStep(s, n) /\ wpc[s][n] \notin {"node", "update"})
    /\ \A t \in Threads : WF_vars(ApiStep(t))

FairSpec == Spec /\ Fairness

-----------------------------------------------------------------------------
(* Properties.                                                             *)

\* Every variable keeps its type.
TypeOK ==
    /\ live \in Seq(Sessions)
    /\ doc \in [Sessions -> Documents]
    /\ history \in Seq([session : Sessions, status : Outcomes])
    /\ plans \in SUBSET Sessions
    /\ thread \in [Sessions -> Runs \cup {NoRun}]
    /\ context \in [Sessions -> Contexts \cup {NoRun}]
    /\ unlocked \in SUBSET Sessions
    /\ cancelled \in SUBSET (Sessions \X Contexts)
    /\ latest \in [Sessions -> Visible]
    /\ closed \in SUBSET Sessions
    /\ announced \in [Sessions -> SUBSET Outcomes]
    /\ launched \in [Sessions -> 0 .. MaxRuns]
    /\ wpc \in [Sessions -> [Runs -> WorkerLocations]]
    /\ wctx \in [Sessions -> [Runs -> Contexts \cup {NoRun}]]
    /\ verdict \in [Sessions -> [Runs -> {"none", "raised"} \cup Outcomes]]
    /\ tpc \in [Threads -> ApiLocations]
    /\ target \in [Threads -> Sessions \cup {NoSession}]
    /\ caught \in [Threads -> Runs \cup {NoRun}]
    /\ restarts \in Nat

\* At most one worker executes a session: two would run its nodes twice and
\* take each other's context, plan and secrets away.
OneWorkerPerSession ==
    \A s \in Sessions : \A m, n \in Runs :
        wpc[s][m] \in Executing /\ wpc[s][n] \in Executing => m = n

\* The nodes of a project with encrypted parameters never run before its
\* parameters were unlocked, whatever aborts and starts come in between.
NodesRunUnlocked ==
    Encrypted => \A s \in Sessions, n \in Runs :
        wpc[s][n] \in {"load", "dispatch", "node", "update"} => s \in unlocked

\* A session that was aborted stays aborted as long as its document is kept,
\* however late its worker comes with another outcome.
AbortedStays ==
    [][\A s \in Sessions :
          s \in Live /\ doc[s] = "aborted" /\ s \in Live' => doc'[s] = "aborted"]_vars

\* A finished session is never active again, a restart included.
NeverActiveAgain ==
    [][\A s \in Sessions :
          s \in Live /\ HasEnded(s) => doc'[s] \in Outcomes]_vars

\* An outcome is final: an abort is not replaced by a later outcome, and nothing,
\* a restart included, makes an ended session active again.
EndingsAreFinal == AbortedStays /\ NeverActiveAgain

\* The history names a session once and tells the same outcome as its document.
HistoryAgrees ==
    /\ \A i, j \in 1 .. Len(history) : history[i].session = history[j].session => i = j
    /\ \A i \in 1 .. Len(history) :
          LET h == history[i] IN
              h.session \in Live /\ HasEnded(h.session) => doc[h.session] = h.status

\* A stream is ended only when the outcome of its session is recorded and was
\* announced on it: who reads up to the end knows how the session ended.
StreamEndsWithOutcome ==
    \A s \in closed : s \in Live => HasEnded(s) /\ announced[s] # {}

\* A session whose cancellation was requested ends, even when the node that
\* runs never returns.
AbortEnds ==
    \A s \in Sessions :
        (\E t \in Threads : target[t] = s /\ tpc[t] \in {"abort_join", "force"})
            ~> (s \notin Live \/ HasEnded(s))

\* The stream of a session that ended is closed in the end.
StreamCloses ==
    \A s \in Sessions : (s \in Live /\ HasEnded(s) /\ restarts = 0)
                          ~> (s \in closed \/ s \notin Live \/ restarts > 0)

\* An abort settles the session and its stream, whatever its nodes do.
AbortSettles == AbortEnds /\ StreamCloses

\* "runtime session conflicts with another active execution session"; refuted.
OneSessionExecutes ==
    \A s, r \in Sessions : \A m, n \in Runs :
        wpc[s][m] \in Executing /\ wpc[r][n] \in Executing => s = r

\* A closed stream retains a terminal snapshot for reconnects; refuted.
TerminalSnapshotRetained ==
    \A s \in closed : s \in Live /\ launched[s] > 0 => latest[s] \in Outcomes
=============================================================================
