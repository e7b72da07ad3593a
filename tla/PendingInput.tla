---------------------------- MODULE PendingInput ----------------------------
(***************************************************************************)
(* One-time input requests of running executions.                          *)
(*                                                                         *)
(* A worker thread runs one execution.  At an input.request node it        *)
(* creates a request, makes it submittable, publishes the prompt, and      *)
(* blocks on the Condition that all requests of the process share.  API    *)
(* threads submit answers; an abort thread cancels the execution through   *)
(* the callbacks registered with the CancellationContext; the deadline of  *)
(* a request passes at any moment.                                         *)
(*                                                                         *)
(* One action is one critical section of the Condition's lock or of the    *)
(* cancellation context's lock.  Answers are opaque values: the validation *)
(* of fields only decides whether a submission reaches the assignment.     *)
(*                                                                         *)
(* Definitions named Faulty... are seeded faults: each is what a plausible *)
(* bug would make of the definition that follows it, and breaks a property *)
(* when it takes its place.  Nothing else uses them.                       *)
(***************************************************************************)
EXTENDS Naturals, FiniteSets

CONSTANTS
    Executions,            \* execution (session) ids
    Requests,              \* request ids, unique per execution and sequence number
    Values,                \* submitted values
    Owner,                 \* Owner[r]: the execution that request r belongs to
    Timed,                 \* the requests with timeout_seconds > 0
    TerminalRecordLimit,   \* terminal_record_limit
    None                   \* no value, no request

ASSUME OwnerAssumption == Owner \in [Requests -> Executions]
ASSUME TimedAssumption == Timed \subseteq Requests
ASSUME LimitAssumption == TerminalRecordLimit \in Nat \ {0}

VARIABLES
    status,      \* _PendingInputRecord.status ("absent": no record yet)
    value,       \* _PendingInputRecord.values
    deadline,    \* deadline_monotonic: "none", "armed" or "passed"
    stored,      \* the keys of PendingInputService._records
    born,        \* position of a record in the insertion order of _records
    clock,       \* number of records created so far
    pc,          \* where the worker thread of an execution stands
    current,     \* the request the worker is dealing with
    result,      \* what wait() returned for a request
    cancelled,   \* CancellationContext._cancelled
    callbacks,   \* requests whose cleanup is in _cleanup_callbacks
    toRun,       \* callbacks taken by request_cancel and not yet invoked
    reply        \* what submit() answered to the caller whose value it took

records == <<status, value, deadline, stored, born, clock>>
worker  == <<pc, current, result>>
context == <<cancelled, callbacks, toRun>>
vars    == <<status, value, deadline, stored, born, clock, pc, current,
             result, cancelled, callbacks, toRun, reply>>

Open     == {"created", "waiting"}
Terminal == {"submitted", "timed_out", "cancelled"}
Statuses == {"absent"} \cup Open \cup Terminal
Locations == {"idle", "created", "activated", "run_now", "registered",
              "asleep", "awake", "returned", "closing", "done"}
Results == [status : Statuses, value : Values \cup {None}]
Replies == [taken : Values, answer : {"submitted", "not_found"}]

ASSUME NoneAssumption == None \notin Values \cup Requests \cup Results \cup Replies

Init ==
    /\ status    = [r \in Requests |-> "absent"]
    /\ value     = [r \in Requests |-> None]
    /\ deadline  = [r \in Requests |-> "none"]
    /\ stored    = {}
    /\ born      = [r \in Requests |-> 0]
    /\ clock     = 0
    /\ pc        = [e \in Executions |-> "idle"]
    /\ current   = [e \in Executions |-> None]
    /\ result    = [r \in Requests |-> None]
    /\ cancelled = [e \in Executions |-> FALSE]
    /\ callbacks = [e \in Executions |-> {}]
    /\ toRun     = [e \in Executions |-> {}]
    /\ reply     = [r \in Requests |-> None]

-----------------------------------------------------------------------------
(* Helpers of the service.                                                 *)

OpenRequests(e) == {r \in stored : Owner[r] = e /\ status[r] \in Open}

\* The records left once the oldest terminal ones, in insertion order, are
\* dropped beyond TerminalRecordLimit; st is the status after the operation.
Trimmed(st) ==
    LET ended == {r \in stored : st[r] \in Terminal}
        newer(r) == {q \in ended : born[q] > born[r]}
    IN  stored \ {r \in ended : Cardinality(newer(r)) >= TerminalRecordLimit}

\* Condition.notify_all: every sleeping worker competes for the lock again.
NotifyAll(at) == [e \in Executions |-> IF at[e] = "asleep" THEN "awake" ELSE at[e]]

At(e, from) == pc[e] = from
Goto(e, to) == [pc EXCEPT ![e] = to]

FaultyCancelRequest(r, at) ==
    /\ status' = [status EXCEPT ![r] = "cancelled"]
    /\ value'  = [value EXCEPT ![r] = None]
    /\ stored' = Trimmed(status')
    /\ pc'     = NotifyAll(at)

\* _cancel_request(r), called by a thread that leaves the workers at `at`.
CancelRequest(r, at) ==
    IF r \in stored /\ status[r] \in Open
    THEN /\ status' = [status EXCEPT ![r] = "cancelled"]
         /\ value'  = [value EXCEPT ![r] = None]
         /\ stored' = Trimmed(status')
         /\ pc'     = NotifyAll(at)
    ELSE /\ pc' = at
         /\ UNCHANGED <<status, value, stored>>

-----------------------------------------------------------------------------
(* The worker thread of execution e.                                       *)

\* create(): a fresh id, and no other request of the execution is open.
Create(e, r) ==
    /\ At(e, "idle")
    /\ Owner[r] = e
    /\ status[r] = "absent"
    /\ OpenRequests(e) = {}
    /\ status'  = [status EXCEPT ![r] = "created"]
    /\ stored'  = stored \cup {r}
    /\ clock'   = clock + 1
    /\ born'    = [born EXCEPT ![r] = clock']
    /\ current' = [current EXCEPT ![e] = r]
    /\ pc'      = Goto(e, "created")
    /\ UNCHANGED <<value, deadline, result, context, reply>>

\* activate(): the request can be answered before the prompt is published.
Activate(e) ==
    /\ At(e, "created")
    /\ LET r == current[e] IN
         IF status[r] = "created"
         THEN /\ status' = [status EXCEPT ![r] = "waiting"]
              /\ deadline' = [deadline EXCEPT ![r] =
                                IF r \in Timed THEN "armed" ELSE "none"]
         ELSE UNCHANGED <<status, deadline>>
    /\ pc' = Goto(e, "activated")
    /\ UNCHANGED <<value, stored, born, clock, current, result, context, reply>>

\* Publishing the prompt raises: execute_node turns it into a failed node and
\* the flow goes on, the request still waiting.
FailBeforeWait(e) ==
    /\ At(e, "activated")
    /\ pc' = Goto(e, "idle")
    /\ current' = [current EXCEPT ![e] = None]
    /\ UNCHANGED <<records, result, context, reply>>

FaultyRegisterCleanup(e) ==
    /\ At(e, "activated")
    /\ pc' = Goto(e, "registered")
    /\ callbacks' = [callbacks EXCEPT ![e] = @ \cup {current[e]}]
    /\ UNCHANGED <<records, current, result, cancelled, toRun, reply>>

\* wait() registers its cleanup; with the context already cancelled the
\* callback is invoked at once by the worker itself.
RegisterCleanup(e) ==
    /\ At(e, "activated")
    /\ IF cancelled[e]
       THEN /\ pc' = Goto(e, "run_now")
            /\ UNCHANGED callbacks
       ELSE /\ pc' = Goto(e, "registered")
            /\ callbacks' = [callbacks EXCEPT ![e] = @ \cup {current[e]}]
    /\ UNCHANGED <<records, current, result, cancelled, toRun, reply>>

RunCleanupNow(e) ==
    /\ At(e, "run_now")
    /\ CancelRequest(current[e], Goto(e, "registered"))
    /\ UNCHANGED <<deadline, born, clock, current, result, context, reply>>

\* wait() returns the record's outcome and clears the record's values.
ReturnOutcome(e, r) ==
    /\ result' = [result EXCEPT ![r] = [status |-> status[r], value |-> value[r]]]
    /\ value'  = [value EXCEPT ![r] = None]
    /\ pc'     = Goto(e, "returned")
    /\ UNCHANGED <<status, stored>>

FaultyReturnTimedOut(e, r) ==
    /\ status' = [status EXCEPT ![r] = "expired"]
    /\ result' = [result EXCEPT ![r] = [status |-> "timed_out", value |-> value[r]]]
    /\ pc'     = Goto(e, "returned")
    /\ UNCHANGED <<value, stored>>

ReturnTimedOut(e, r) ==
    /\ status' = [status EXCEPT ![r] = "timed_out"]
    /\ stored' = Trimmed(status')
    /\ result' = [result EXCEPT ![r] = [status |-> "timed_out", value |-> value[r]]]
    /\ value'  = [value EXCEPT ![r] = None]
    /\ pc'     = Goto(e, "returned")

Sleep(e) ==
    /\ pc' = Goto(e, "asleep")
    /\ UNCHANGED <<status, value, stored, result>>

FaultyWaitLoop(e, r) ==
    \/ deadline[r] = "passed" /\ ReturnTimedOut(e, r)
    \/ deadline[r] # "passed" /\ status[r] # "waiting" /\ ReturnOutcome(e, r)
    \/ deadline[r] # "passed" /\ status[r] = "waiting" /\ Sleep(e)

\* The loop of wait(), run with the lock held.
WaitLoop(e, r) ==
    \/ status[r] # "waiting" /\ ReturnOutcome(e, r)
    \/ status[r] = "waiting" /\ deadline[r] = "passed" /\ ReturnTimedOut(e, r)
    \/ status[r] = "waiting" /\ deadline[r] # "passed" /\ Sleep(e)

\* wait() looks the record up; a record trimmed meanwhile makes it raise.
EnterWait(e) ==
    /\ At(e, "registered")
    /\ LET r == current[e] IN
         IF r \in stored
         THEN WaitLoop(e, r)
         ELSE /\ pc' = Goto(e, "returned")
              /\ UNCHANGED <<status, value, stored, result>>
    /\ UNCHANGED <<deadline, born, clock, current, context, reply>>

\* A woken worker keeps its reference to the record, trimmed or not.
Recheck(e) ==
    /\ At(e, "awake")
    /\ WaitLoop(e, current[e])
    /\ UNCHANGED <<deadline, born, clock, current, context, reply>>

\* Condition.wait(timeout) ends by itself.
TimerWake(e) ==
    /\ At(e, "asleep")
    /\ deadline[current[e]] = "passed"
    /\ pc' = Goto(e, "awake")
    /\ UNCHANGED <<records, current, result, context, reply>>

\* The finally of wait(); a cancelled node ends the run of the execution.
Unregister(e) ==
    /\ At(e, "returned")
    /\ LET r == current[e] IN
         /\ callbacks' = [callbacks EXCEPT ![e] = @ \ {r}]
         /\ pc' = Goto(e, IF result[r] # None /\ result[r].status = "cancelled"
                          THEN "closing" ELSE "idle")
    /\ current' = [current EXCEPT ![e] = None]
    /\ UNCHANGED <<records, result, cancelled, toRun, reply>>

\* The run ends for another reason.
Finish(e) ==
    /\ At(e, "idle")
    /\ pc' = Goto(e, "closing")
    /\ UNCHANGED <<records, current, result, context, reply>>

FaultyCancelSession(e) ==
    /\ At(e, "closing")
    /\ status' = [r \in Requests |-> IF r \in OpenRequests(e) THEN "cancelled" ELSE status[r]]
    /\ stored' = Trimmed(status')
    /\ pc'     = NotifyAll(Goto(e, "done"))
    /\ UNCHANGED <<value, deadline, born, clock, current, result, context, reply>>

\* cancel_session(e), from the finally of the worker thread.
CancelSession(e) ==
    LET mine == {r \in stored : Owner[r] = e} IN
    /\ At(e, "closing")
    /\ status' = [r \in Requests |-> IF r \in mine /\ status[r] \in Open
                                     THEN "cancelled" ELSE status[r]]
    /\ value'  = [r \in Requests |-> IF r \in mine THEN None ELSE value[r]]
    /\ stored' = Trimmed(status')
    /\ pc'     = NotifyAll(Goto(e, "done"))
    /\ UNCHANGED <<deadline, born, clock, current, result, context, reply>>

-----------------------------------------------------------------------------
(* The other threads and the passing of time.                              *)

\* request_cancel(): the callbacks are taken under the context's lock and
\* invoked after it is released.
RequestCancel(e) ==
    /\ ~cancelled[e]
    /\ pc[e] # "done"
    /\ cancelled' = [cancelled EXCEPT ![e] = TRUE]
    /\ toRun'     = [toRun EXCEPT ![e] = callbacks[e]]
    /\ callbacks' = [callbacks EXCEPT ![e] = {}]
    /\ UNCHANGED <<records, worker, reply>>

RunCallback(e, r) ==
    /\ r \in toRun[e]
    /\ toRun' = [toRun EXCEPT ![e] = @ \ {r}]
    /\ CancelRequest(r, pc)
    /\ UNCHANGED <<deadline, born, clock, current, result, cancelled, callbacks, reply>>

\* submit(): the last statement reads the record again for the reply.  A
\* submission that is refused changes nothing and is not an action.
Submit(r, v) ==
    /\ r \in stored
    /\ status[r] = "waiting"
    /\ value'  = [value EXCEPT ![r] = v]
    /\ status' = [status EXCEPT ![r] = "submitted"]
    /\ stored' = Trimmed(status')
    /\ pc'     = NotifyAll(pc)
    /\ reply'  = [reply EXCEPT ![r] =
                    [taken |-> v,
                     answer |-> IF r \in stored' THEN "submitted" ELSE "not_found"]]
    /\ UNCHANGED <<deadline, born, clock, current, result, context>>

DeadlinePasses(r) ==
    /\ deadline[r] = "armed"
    /\ deadline' = [deadline EXCEPT ![r] = "passed"]
    /\ UNCHANGED <<status, value, stored, born, clock, worker, context, reply>>

-----------------------------------------------------------------------------
Worker(e) ==
    \/ \E r \in Requests : Create(e, r)
    \/ Activate(e)
    \/ FailBeforeWait(e)
    \/ RegisterCleanup(e)
    \/ RunCleanupNow(e)
    \/ EnterWait(e)
    \/ Recheck(e)
    \/ TimerWake(e)
    \/ Unregister(e)
    \/ Finish(e)
    \/ CancelSession(e)

Next ==
    \/ \E e \in Executions : Worker(e)
    \/ \E e \in Executions : RequestCancel(e)
    \/ \E e \in Executions, r \in Requests : RunCallback(e, r)
    \/ \E r \in Requests, v \in Values : Submit(r, v)
    \/ \E r \in Requests : DeadlinePasses(r)

\* Threads that can run do run; nobody has to answer, abort or time out, and a
\* flow may loop before its next input node for as long as it likes.
Fairness ==
    /\ \A e \in Executions :
         /\ WF_vars(Activate(e))
         /\ WF_vars(RegisterCleanup(e))
         /\ WF_vars(RunCleanupNow(e))
         /\ WF_vars(EnterWait(e))
         /\ WF_vars(Recheck(e))
         /\ WF_vars(TimerWake(e))
         /\ WF_vars(Unregister(e))
         /\ WF_vars(CancelSession(e))
    /\ \A e \in Executions, r \in Requests : WF_vars(RunCallback(e, r))

Spec == Init /\ [][Next]_vars
FairSpec == Spec /\ Fairness

-----------------------------------------------------------------------------
(* Properties.                                                             *)

\* Every variable keeps its type, and a worker that asks has a request.
TypeOK ==
    /\ status    \in [Requests -> Statuses]
    /\ value     \in [Requests -> Values \cup {None}]
    /\ deadline  \in [Requests -> {"none", "armed", "passed"}]
    /\ stored    \in SUBSET Requests
    /\ born      \in [Requests -> Nat]
    /\ clock     \in Nat
    /\ pc        \in [Executions -> Locations]
    /\ current   \in [Executions -> Requests \cup {None}]
    /\ \A e \in Executions :
          pc[e] \notin {"idle", "closing", "done"} => current[e] \in Requests
    /\ result    \in [Requests -> Results \cup {None}]
    /\ cancelled \in [Executions -> BOOLEAN]
    /\ callbacks \in [Executions -> SUBSET Requests]
    /\ toRun     \in [Executions -> SUBSET Requests]
    /\ reply     \in [Requests -> Replies \cup {None}]

\* At most one request of an execution can be answered: otherwise
\* get_snapshot_for_execution raises and the session cannot be shown.
OneOpenRequest ==
    \A r, q \in Requests :
        status[r] \in Open /\ status[q] \in Open /\ Owner[r] = Owner[q] => r = q

\* An answer that submit() took is what wait() hands to the node, whatever
\* deadline, abort, trimming or other execution comes in between.
TakenAnswerDelivered ==
    \A r \in Requests : result[r] # None =>
        /\ reply[r] # None <=> result[r].status = "submitted"
        /\ reply[r] # None => result[r].value = reply[r].taken

\* Once the worker of an execution is gone, nothing of it can be answered and
\* no answer of it stays in memory.
NothingLeftBehind ==
    \A r \in Requests : pc[Owner[r]] = "done" =>
        /\ status[r] \notin Open
        /\ r \in stored => value[r] = None

\* An execution has at most one request that can be answered while it runs, and
\* none, and no answer, afterwards.
RequestsAreSettled == OneOpenRequest /\ NothingLeftBehind

\* A worker asleep in wait() when its execution is cancelled, or when the
\* deadline of its request passes, returns from wait(): no wakeup is lost
\* between registering the cleanup, checking the record and going to sleep.
WaiterIsReleased ==
    \A e \in Executions :
        /\ pc[e] = "asleep"
        /\ cancelled[e] \/ \E r \in Requests : current[e] = r /\ deadline[r] = "passed"
        ~> pc[e] = "returned"

\* What the node that asked can observe of the service is a request answered
\* at most once, by exactly one of submission, deadline and cancellation.
Observed == INSTANCE InputAnswer WITH
    outcome <- [r \in Requests |-> IF status[r] \in Open THEN "open" ELSE status[r]],
    taken   <- [r \in Requests |-> IF reply[r] = None THEN None ELSE reply[r].taken],
    handed  <- result

ImplementsInputAnswer == Observed!Spec

\* submit() reports an answer that it took as submitted (the tests assert
\* it of every submission they make); refuted.
TakenAnswerReported ==
    \A r \in Requests : reply[r] # None => reply[r].answer = "submitted"
=============================================================================
