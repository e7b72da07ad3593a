------------------------- MODULE PendingInputProofs -------------------------
(***************************************************************************)
(* Proofs about PendingInput, for any executions, requests, answers and    *)
(* retention limit: types, the safety of requests and answers, and that    *)
(* the service implements InputAnswer.                                     *)
(***************************************************************************)
EXTENDS PendingInput, TLAPS

USE NoneAssumption, OwnerAssumption

-----------------------------------------------------------------------------
(* What the helpers do.                                                    *)

\* Trimming only drops records, and only terminal ones.
LEMMA TrimmedDropsTerminal ==
    ASSUME NEW st
    PROVE  /\ Trimmed(st) \subseteq stored
           /\ \A r \in stored : st[r] \notin Terminal => r \in Trimmed(st)
  BY DEF Trimmed

\* One round of the loop of wait() keeps the types of what it changes.
LEMMA WaitLoopType ==
    ASSUME TypeOK, NEW e \in Executions, NEW r \in Requests, WaitLoop(e, r)
    PROVE  /\ status' \in [Requests -> Statuses]
           /\ value' \in [Requests -> Values \cup {None}]
           /\ stored' \in SUBSET Requests
           /\ result' \in [Requests -> Results \cup {None}]
           /\ \/ pc' = Goto(e, "returned")
              \/ pc' = Goto(e, "asleep")
<1> USE DEF TypeOK, Statuses, Terminal, Results
<1>1. CASE ReturnOutcome(e, r)
  BY <1>1 DEF ReturnOutcome
<1>2. CASE ReturnTimedOut(e, r)
  <2>1. stored' \in SUBSET Requests
    BY <1>2, TrimmedDropsTerminal DEF ReturnTimedOut
  <2>2. QED
    BY <1>2, <2>1 DEF ReturnTimedOut
<1>3. CASE Sleep(e)
  BY <1>3 DEF Sleep
<1>4. QED
  BY <1>1, <1>2, <1>3 DEF WaitLoop

-----------------------------------------------------------------------------
\* Every step keeps the types.
LEMMA TypeStep == TypeOK /\ [Next]_vars => TypeOK'
<1> SUFFICES ASSUME TypeOK, [Next]_vars PROVE TypeOK'
  OBVIOUS
<1> USE DEF TypeOK, records, worker, context, Statuses, Open, Terminal, Locations,
            Results, Replies, At, Goto
<1>1. ASSUME NEW e \in Executions, NEW r \in Requests, Create(e, r) PROVE TypeOK'
  BY <1>1 DEF Create
<1>2. ASSUME NEW e \in Executions, Activate(e) PROVE TypeOK'
  BY <1>2, SMTT(60) DEF Activate
<1>3. ASSUME NEW e \in Executions, FailBeforeWait(e) PROVE TypeOK'
  BY <1>3 DEF FailBeforeWait
<1>4. ASSUME NEW e \in Executions, RegisterCleanup(e) PROVE TypeOK'
  BY <1>4, SMTT(60) DEF RegisterCleanup
<1>5. ASSUME NEW e \in Executions, RunCleanupNow(e) PROVE TypeOK'
  <2>1. current[e] \in Requests
    BY <1>5 DEF RunCleanupNow
  <2>2. Goto(e, "registered") \in [Executions -> Locations]
    OBVIOUS
  <2>3. CASE current[e] \in stored /\ status[current[e]] \in Open
    <3>1. /\ status' \in [Requests -> Statuses]
          /\ value' \in [Requests -> Values \cup {None}]
      BY <1>5, <2>1, <2>3 DEF RunCleanupNow, CancelRequest
    <3>2. stored' \in SUBSET Requests
      BY <1>5, <2>3, TrimmedDropsTerminal DEF RunCleanupNow, CancelRequest
    <3>3. /\ pc' \in [Executions -> Locations]
          /\ \A x \in Executions :
                pc'[x] \notin {"idle", "closing", "done"} => current[x] \in Requests
      BY <1>5, <2>1, <2>2, <2>3 DEF RunCleanupNow, CancelRequest, NotifyAll
    <3>4. QED
      BY <1>5, <3>1, <3>2, <3>3 DEF RunCleanupNow
  <2>4. CASE ~(current[e] \in stored /\ status[current[e]] \in Open)
    BY <1>5, <2>1, <2>2, <2>4 DEF RunCleanupNow, CancelRequest
  <2>5. QED
    BY <2>3, <2>4
<1>6. ASSUME NEW e \in Executions, EnterWait(e) PROVE TypeOK'
  <2>1. current[e] \in Requests
    BY <1>6 DEF EnterWait
  <2>2. CASE current[e] \in stored
    <3>1. WaitLoop(e, current[e])
      BY <1>6, <2>2 DEF EnterWait
    <3>2. /\ status' \in [Requests -> Statuses]
          /\ value' \in [Requests -> Values \cup {None}]
          /\ stored' \in SUBSET Requests
          /\ result' \in [Requests -> Results \cup {None}]
          /\ pc' = Goto(e, "returned") \/ pc' = Goto(e, "asleep")
      BY <2>1, <3>1, WaitLoopType
    <3>3. QED
      BY <1>6, <2>1, <3>2 DEF EnterWait
  <2>3. CASE current[e] \notin stored
    BY <1>6, <2>1, <2>3 DEF EnterWait
  <2>4. QED
    BY <2>2, <2>3
<1>7. ASSUME NEW e \in Executions, Recheck(e) PROVE TypeOK'
  <2>1. current[e] \in Requests
    BY <1>7 DEF Recheck
  <2>2. WaitLoop(e, current[e])
    BY <1>7 DEF Recheck
  <2>3. /\ status' \in [Requests -> Statuses]
        /\ value' \in [Requests -> Values \cup {None}]
        /\ stored' \in SUBSET Requests
        /\ result' \in [Requests -> Results \cup {None}]
        /\ pc' = Goto(e, "returned") \/ pc' = Goto(e, "asleep")
    BY <2>1, <2>2, WaitLoopType
  <2>4. /\ pc' \in [Executions -> Locations]
        /\ \A x \in Executions :
              pc'[x] \notin {"idle", "closing", "done"} => current[x] \in Requests
    BY <1>7, <2>1, <2>3
  <2>5. QED
    BY <1>7, <2>3, <2>4 DEF Recheck
<1>8. ASSUME NEW e \in Executions, TimerWake(e) PROVE TypeOK'
  BY <1>8 DEF TimerWake
<1>9. ASSUME NEW e \in Executions, Unregister(e) PROVE TypeOK'
  BY <1>9 DEF Unregister
<1>10. ASSUME NEW e \in Executions, Finish(e) PROVE TypeOK'
  BY <1>10 DEF Finish
<1>11. ASSUME NEW e \in Executions, CancelSession(e) PROVE TypeOK'
  <2>1. /\ status' \in [Requests -> Statuses]
        /\ value' \in [Requests -> Values \cup {None}]
    BY <1>11 DEF CancelSession
  <2>2. stored' \in SUBSET Requests
    BY <1>11, TrimmedDropsTerminal DEF CancelSession
  <2>3. /\ pc' \in [Executions -> Locations]
        /\ \A x \in Executions :
              pc'[x] \notin {"idle", "closing", "done"} => current[x] \in Requests
    BY <1>11 DEF CancelSession, NotifyAll
  <2>4. QED
    BY <1>11, <2>1, <2>2, <2>3 DEF CancelSession
<1>12. ASSUME NEW e \in Executions, RequestCancel(e) PROVE TypeOK'
  BY <1>12 DEF RequestCancel
<1>13. ASSUME NEW e \in Executions, NEW r \in Requests, RunCallback(e, r) PROVE TypeOK'
  <2>1. CASE r \in stored /\ status[r] \in Open
    <3>1. /\ status' \in [Requests -> Statuses]
          /\ value' \in [Requests -> Values \cup {None}]
      BY <1>13, <2>1 DEF RunCallback, CancelRequest
    <3>2. stored' \in SUBSET Requests
      BY <1>13, <2>1, TrimmedDropsTerminal DEF RunCallback, CancelRequest
    <3>3. /\ pc' \in [Executions -> Locations]
          /\ \A x \in Executions :
                pc'[x] \notin {"idle", "closing", "done"} => current[x] \in Requests
      BY <1>13, <2>1 DEF RunCallback, CancelRequest, NotifyAll
    <3>4. toRun' \in [Executions -> SUBSET Requests]
      BY <1>13 DEF RunCallback
    <3>5. QED
      BY <1>13, <3>1, <3>2, <3>3, <3>4 DEF RunCallback
  <2>2. CASE ~(r \in stored /\ status[r] \in Open)
    BY <1>13, <2>2 DEF RunCallback, CancelRequest
  <2>3. QED
    BY <2>1, <2>2
<1>14. ASSUME NEW r \in Requests, NEW v \in Values, Submit(r, v) PROVE TypeOK'
  <2>1. stored' \in SUBSET Requests
    BY <1>14, TrimmedDropsTerminal DEF Submit
  <2>2. /\ pc' \in [Executions -> Locations]
        /\ \A x \in Executions :
              pc'[x] \notin {"idle", "closing", "done"} => current[x] \in Requests
    BY <1>14 DEF Submit, NotifyAll
  <2>3. reply' \in [Requests -> Replies \cup {None}]
    BY <1>14 DEF Submit
  <2>4. QED
    BY <1>14, <2>1, <2>2, <2>3 DEF Submit
<1>15. ASSUME NEW r \in Requests, DeadlinePasses(r) PROVE TypeOK'
  BY <1>15 DEF DeadlinePasses
<1>16. CASE UNCHANGED vars
  BY <1>16 DEF vars
<1>17. QED
  BY <1>1, <1>2, <1>3, <1>4, <1>5, <1>6, <1>7, <1>8, <1>9, <1>10, <1>11, <1>12,
     <1>13, <1>14, <1>15, <1>16 DEF Next, Worker

\* Every variable of the pending-input service keeps its type, and a worker
\* that asks has a request.
THEOREM TypeCorrect == Spec => []TypeOK
<1>1. Init => TypeOK
  BY DEF Init, TypeOK, Statuses, Locations
<1>2. QED
  BY <1>1, TypeStep, PTL DEF Spec
-----------------------------------------------------------------------------
(* The inductive invariant.                                                *)

\* Where the worker of an execution has a request that is not handed over yet.
Asking == {"created", "activated", "run_now", "registered", "asleep", "awake"}

OpenStored == \A r \in Requests : status[r] \in Open => r \in stored

\* A worker asks for a request of its own, which nobody was handed yet.
AskingWorker ==
    \A e \in Executions : pc[e] \in Asking =>
        /\ Owner[current[e]] = e
        /\ result[current[e]] = None
        /\ status[current[e]] # "absent"
        /\ pc[e] # "created" => status[current[e]] # "created"

AnsweredSubmitted == \A r \in Requests : reply[r] # None <=> status[r] = "submitted"

OnlyAnswersHaveValues ==
    \A r \in Requests : status[r] # "submitted" => value[r] = None

\* The accepted answer is still there when its node comes for it.
AnswerHeld ==
    \A e \in Executions :
        pc[e] \in Asking /\ status[current[e]] = "submitted"
            => value[current[e]] = reply[current[e]].taken

HandedOutcome ==
    \A r \in Requests : result[r] # None =>
        /\ status[r] \in Terminal
        /\ result[r].status = status[r]
        /\ result[r].value = IF reply[r] = None THEN None ELSE reply[r].taken

\* Only the waiting worker times a request out, and it hands it over at once.
TimedOutHanded == \A r \in Requests : status[r] = "timed_out" => result[r] # None

Inv ==
    /\ TypeOK
    /\ OpenStored
    /\ OneOpenRequest
    /\ AskingWorker
    /\ AnsweredSubmitted
    /\ OnlyAnswersHaveValues
    /\ AnswerHeld
    /\ HandedOutcome
    /\ TimedOutHanded
    /\ NothingLeftBehind

\* Every step keeps the invariant.
LEMMA InvStep == Inv /\ [Next]_vars => Inv'
<1> SUFFICES ASSUME Inv, [Next]_vars PROVE Inv'
  OBVIOUS
<1> USE DEF Inv, TypeOK, records, worker, context, Open, Terminal, Statuses, Results,
            Replies, Asking, At, Goto
<1>0. TypeOK'
  BY TypeStep DEF Inv
<1>1. ASSUME NEW e \in Executions, NEW r \in Requests, Create(e, r)
      PROVE  Inv'
  <2>1. OpenStored'
    BY <1>1 DEF Create, OpenStored
  <2>2. OneOpenRequest'
    BY <1>1 DEF Create, OneOpenRequest, OpenRequests, OpenStored
  <2>3. AskingWorker'
    BY <1>1 DEF Create, AskingWorker, HandedOutcome
  <2>4. AnsweredSubmitted'
    BY <1>1 DEF Create, AnsweredSubmitted
  <2>5. OnlyAnswersHaveValues'
    BY <1>1 DEF Create, OnlyAnswersHaveValues
  <2>6. AnswerHeld'
    BY <1>1 DEF Create, AnswerHeld, AskingWorker
  <2>7. HandedOutcome'
    BY <1>1 DEF Create, HandedOutcome, AskingWorker, OnlyAnswersHaveValues,
        AnsweredSubmitted, AnswerHeld
  <2>8. TimedOutHanded'
    BY <1>1 DEF Create, TimedOutHanded, AskingWorker
  <2>9. NothingLeftBehind'
    BY <1>1 DEF Create, NothingLeftBehind, OpenStored, AskingWorker
  <2>10. QED
    BY <1>0, <2>1, <2>2, <2>3, <2>4, <2>5, <2>6, <2>7, <2>8, <2>9 DEF Inv
<1>2. ASSUME NEW e \in Executions, Activate(e) PROVE Inv'
  <2>1. OpenStored'
    BY <1>2 DEF Activate, OpenStored
  <2>2. OneOpenRequest'
    BY <1>2 DEF Activate, OneOpenRequest
  <2>3. AskingWorker'
    BY <1>2 DEF Activate, AskingWorker
  <2>4. AnsweredSubmitted'
    BY <1>2 DEF Activate, AnsweredSubmitted
  <2>5. OnlyAnswersHaveValues'
    BY <1>2 DEF Activate, OnlyAnswersHaveValues
  <2>6. AnswerHeld'
    BY <1>2 DEF Activate, AnswerHeld, AskingWorker
  <2>7. HandedOutcome'
    BY <1>2 DEF Activate, HandedOutcome, AskingWorker, OnlyAnswersHaveValues,
        AnsweredSubmitted, AnswerHeld
  <2>8. TimedOutHanded'
    BY <1>2 DEF Activate, TimedOutHanded, AskingWorker
  <2>9. NothingLeftBehind'
    BY <1>2 DEF Activate, NothingLeftBehind, OpenStored, AskingWorker
  <2>10. QED
    BY <1>0, <2>1, <2>2, <2>3, <2>4, <2>5, <2>6, <2>7, <2>8, <2>9 DEF Inv
<1>3. ASSUME NEW e \in Executions, FailBeforeWait(e) PROVE Inv'
  BY <1>0, <1>3 DEF FailBeforeWait, OpenStored, OneOpenRequest, AskingWorker,
         AnsweredSubmitted, OnlyAnswersHaveValues, AnswerHeld, HandedOutcome,
         TimedOutHanded, NothingLeftBehind
<1>4. ASSUME NEW e \in Executions, RegisterCleanup(e) PROVE Inv'
  BY <1>0, <1>4 DEF RegisterCleanup, OpenStored, OneOpenRequest, AskingWorker,
         AnsweredSubmitted, OnlyAnswersHaveValues, AnswerHeld, HandedOutcome,
         TimedOutHanded, NothingLeftBehind
<1>5. ASSUME NEW e \in Executions, RunCleanupNow(e) PROVE Inv'
  <2>1. OpenStored'
    BY <1>5, TrimmedDropsTerminal DEF RunCleanupNow, CancelRequest, NotifyAll,
        OpenStored
  <2>2. OneOpenRequest'
    BY <1>5 DEF RunCleanupNow, CancelRequest, NotifyAll, OneOpenRequest
  <2>3. AskingWorker'
    BY <1>5 DEF RunCleanupNow, CancelRequest, NotifyAll, AskingWorker
  <2>4. AnsweredSubmitted'
    BY <1>5 DEF RunCleanupNow, CancelRequest, NotifyAll, AnsweredSubmitted
  <2>5. OnlyAnswersHaveValues'
    BY <1>5 DEF RunCleanupNow, CancelRequest, NotifyAll, OnlyAnswersHaveValues
  <2>6. AnswerHeld'
    BY <1>5, SMTT(30) DEF RunCleanupNow, CancelRequest, NotifyAll, AnswerHeld,
        AskingWorker
  <2>7. HandedOutcome'
    BY <1>5 DEF RunCleanupNow, CancelRequest, NotifyAll, HandedOutcome, AskingWorker,
        OnlyAnswersHaveValues, AnsweredSubmitted, AnswerHeld
  <2>8. TimedOutHanded'
    BY <1>5 DEF RunCleanupNow, CancelRequest, NotifyAll, TimedOutHanded, AskingWorker
  <2>9. NothingLeftBehind'
    BY <1>5, TrimmedDropsTerminal DEF RunCleanupNow, CancelRequest, NotifyAll,
        NothingLeftBehind, OpenStored, AskingWorker
  <2>10. QED
    BY <1>0, <2>1, <2>2, <2>3, <2>4, <2>5, <2>6, <2>7, <2>8, <2>9 DEF Inv
<1>6. ASSUME NEW e \in Executions, EnterWait(e) PROVE Inv'
  <2>1. OpenStored'
    BY <1>6, TrimmedDropsTerminal DEF EnterWait, WaitLoop, ReturnOutcome,
        ReturnTimedOut, Sleep, OpenStored
  <2>2. OneOpenRequest'
    BY <1>6 DEF EnterWait, WaitLoop, ReturnOutcome, ReturnTimedOut, Sleep,
        OneOpenRequest
  <2>3. AskingWorker'
    BY <1>6 DEF EnterWait, WaitLoop, ReturnOutcome, ReturnTimedOut, Sleep,
        AskingWorker
  <2>4. AnsweredSubmitted'
    BY <1>6 DEF EnterWait, WaitLoop, ReturnOutcome, ReturnTimedOut, Sleep,
        AnsweredSubmitted
  <2>5. OnlyAnswersHaveValues'
    BY <1>6 DEF EnterWait, WaitLoop, ReturnOutcome, ReturnTimedOut, Sleep,
        OnlyAnswersHaveValues
  <2>6. AnswerHeld'
    BY <1>6 DEF EnterWait, WaitLoop, ReturnOutcome, ReturnTimedOut, Sleep, AnswerHeld,
        AskingWorker
  <2>7. HandedOutcome'
    BY <1>6 DEF EnterWait, WaitLoop, ReturnOutcome, ReturnTimedOut, Sleep,
        HandedOutcome, AskingWorker, OnlyAnswersHaveValues, AnsweredSubmitted,
        AnswerHeld
  <2>8. TimedOutHanded'
    BY <1>6 DEF EnterWait, WaitLoop, ReturnOutcome, ReturnTimedOut, Sleep,
        TimedOutHanded, AskingWorker
  <2>9. NothingLeftBehind'
    BY <1>6, TrimmedDropsTerminal DEF EnterWait, WaitLoop, ReturnOutcome,
        ReturnTimedOut, Sleep, NothingLeftBehind, OpenStored, AskingWorker
  <2>10. QED
    BY <1>0, <2>1, <2>2, <2>3, <2>4, <2>5, <2>6, <2>7, <2>8, <2>9 DEF Inv
<1>7. ASSUME NEW e \in Executions, Recheck(e) PROVE Inv'
  <2>1. OpenStored'
    BY <1>7, TrimmedDropsTerminal DEF Recheck, WaitLoop, ReturnOutcome,
        ReturnTimedOut, Sleep, OpenStored
  <2>2. OneOpenRequest'
    BY <1>7 DEF Recheck, WaitLoop, ReturnOutcome, ReturnTimedOut, Sleep,
        OneOpenRequest
  <2>3. AskingWorker'
    BY <1>7 DEF Recheck, WaitLoop, ReturnOutcome, ReturnTimedOut, Sleep, AskingWorker
  <2>4. AnsweredSubmitted'
    BY <1>7 DEF Recheck, WaitLoop, ReturnOutcome, ReturnTimedOut, Sleep,
        AnsweredSubmitted
  <2>5. OnlyAnswersHaveValues'
    BY <1>7 DEF Recheck, WaitLoop, ReturnOutcome, ReturnTimedOut, Sleep,
        OnlyAnswersHaveValues
  <2>6. AnswerHeld'
    BY <1>7 DEF Recheck, WaitLoop, ReturnOutcome, ReturnTimedOut, Sleep, AnswerHeld,
        AskingWorker
  <2>7. HandedOutcome'
    BY <1>7 DEF Recheck, WaitLoop, ReturnOutcome, ReturnTimedOut, Sleep,
        HandedOutcome, AskingWorker, OnlyAnswersHaveValues, AnsweredSubmitted,
        AnswerHeld
  <2>8. TimedOutHanded'
    BY <1>7 DEF Recheck, WaitLoop, ReturnOutcome, ReturnTimedOut, Sleep,
        TimedOutHanded, AskingWorker
  <2>9. NothingLeftBehind'
    BY <1>7, TrimmedDropsTerminal DEF Recheck, WaitLoop, ReturnOutcome,
        ReturnTimedOut, Sleep, NothingLeftBehind, OpenStored, AskingWorker
  <2>10. QED
    BY <1>0, <2>1, <2>2, <2>3, <2>4, <2>5, <2>6, <2>7, <2>8, <2>9 DEF Inv
<1>8. ASSUME NEW e \in Executions, TimerWake(e) PROVE Inv'
  BY <1>0, <1>8 DEF TimerWake, OpenStored, OneOpenRequest, AskingWorker,
         AnsweredSubmitted, OnlyAnswersHaveValues, AnswerHeld, HandedOutcome,
         TimedOutHanded, NothingLeftBehind
<1>9. ASSUME NEW e \in Executions, Unregister(e) PROVE Inv'
  BY <1>0, <1>9 DEF Unregister, OpenStored, OneOpenRequest, AskingWorker,
         AnsweredSubmitted, OnlyAnswersHaveValues, AnswerHeld, HandedOutcome,
         TimedOutHanded, NothingLeftBehind
<1>10. ASSUME NEW e \in Executions, Finish(e) PROVE Inv'
  BY <1>0, <1>10 DEF Finish, OpenStored, OneOpenRequest, AskingWorker,
         AnsweredSubmitted, OnlyAnswersHaveValues, AnswerHeld, HandedOutcome,
         TimedOutHanded, NothingLeftBehind
<1>11. ASSUME NEW e \in Executions, CancelSession(e) PROVE Inv'
  <2>1. OpenStored'
    BY <1>11, TrimmedDropsTerminal DEF CancelSession, NotifyAll, OpenStored
  <2>2. OneOpenRequest'
    BY <1>11 DEF CancelSession, NotifyAll, OneOpenRequest
  <2>3. AskingWorker'
    BY <1>11 DEF CancelSession, NotifyAll, AskingWorker
  <2>4. AnsweredSubmitted'
    BY <1>11 DEF CancelSession, NotifyAll, AnsweredSubmitted
  <2>5. OnlyAnswersHaveValues'
    BY <1>11 DEF CancelSession, NotifyAll, OnlyAnswersHaveValues
  <2>6. AnswerHeld'
    BY <1>11 DEF CancelSession, NotifyAll, AnswerHeld, AskingWorker
  <2>7. HandedOutcome'
    BY <1>11 DEF CancelSession, NotifyAll, HandedOutcome, AskingWorker,
        OnlyAnswersHaveValues, AnsweredSubmitted, AnswerHeld
  <2>8. TimedOutHanded'
    BY <1>11 DEF CancelSession, NotifyAll, TimedOutHanded, AskingWorker
  <2>9. NothingLeftBehind'
    BY <1>11, TrimmedDropsTerminal DEF CancelSession, NotifyAll, NothingLeftBehind,
        OpenStored, AskingWorker
  <2>10. QED
    BY <1>0, <2>1, <2>2, <2>3, <2>4, <2>5, <2>6, <2>7, <2>8, <2>9 DEF Inv
<1>12. ASSUME NEW e \in Executions, RequestCancel(e) PROVE Inv'
  BY <1>0, <1>12 DEF RequestCancel, OpenStored, OneOpenRequest, AskingWorker,
         AnsweredSubmitted, OnlyAnswersHaveValues, AnswerHeld, HandedOutcome,
         TimedOutHanded, NothingLeftBehind
<1>13. ASSUME NEW e \in Executions, NEW r \in Requests, RunCallback(e, r)
      PROVE  Inv'
  <2>1. OpenStored'
    BY <1>13, TrimmedDropsTerminal DEF RunCallback, CancelRequest, NotifyAll,
        OpenStored
  <2>2. OneOpenRequest'
    BY <1>13 DEF RunCallback, CancelRequest, NotifyAll, OneOpenRequest
  <2>3. AskingWorker'
    BY <1>13 DEF RunCallback, CancelRequest, NotifyAll, AskingWorker
  <2>4. AnsweredSubmitted'
    BY <1>13 DEF RunCallback, CancelRequest, NotifyAll, AnsweredSubmitted
  <2>5. OnlyAnswersHaveValues'
    BY <1>13 DEF RunCallback, CancelRequest, NotifyAll, OnlyAnswersHaveValues
  <2>6. AnswerHeld'
    BY <1>13 DEF RunCallback, CancelRequest, NotifyAll, AnswerHeld, AskingWorker
  <2>7. HandedOutcome'
    BY <1>13 DEF RunCallback, CancelRequest, NotifyAll, HandedOutcome, AskingWorker,
        OnlyAnswersHaveValues, AnsweredSubmitted, AnswerHeld
  <2>8. TimedOutHanded'
    BY <1>13 DEF RunCallback, CancelRequest, NotifyAll, TimedOutHanded, AskingWorker
  <2>9. NothingLeftBehind'
    BY <1>13, TrimmedDropsTerminal DEF RunCallback, CancelRequest, NotifyAll,
        NothingLeftBehind, OpenStored, AskingWorker
  <2>10. QED
    BY <1>0, <2>1, <2>2, <2>3, <2>4, <2>5, <2>6, <2>7, <2>8, <2>9 DEF Inv
<1>14. ASSUME NEW r \in Requests, NEW v \in Values, Submit(r, v)
      PROVE  Inv'
  <2>1. OpenStored'
    BY <1>14, TrimmedDropsTerminal DEF Submit, NotifyAll, OpenStored
  <2>2. OneOpenRequest'
    BY <1>14 DEF Submit, NotifyAll, OneOpenRequest
  <2>3. AskingWorker'
    BY <1>14 DEF Submit, NotifyAll, AskingWorker
  <2>4. AnsweredSubmitted'
    BY <1>14 DEF Submit, NotifyAll, AnsweredSubmitted
  <2>5. OnlyAnswersHaveValues'
    BY <1>14 DEF Submit, NotifyAll, OnlyAnswersHaveValues
  <2>6. AnswerHeld'
    BY <1>14 DEF Submit, NotifyAll, AnswerHeld, AskingWorker
  <2>7. HandedOutcome'
    BY <1>14 DEF Submit, NotifyAll, HandedOutcome, AskingWorker,
        OnlyAnswersHaveValues, AnsweredSubmitted, AnswerHeld
  <2>8. TimedOutHanded'
    BY <1>14 DEF Submit, NotifyAll, TimedOutHanded, AskingWorker
  <2>9. NothingLeftBehind'
    BY <1>14, TrimmedDropsTerminal DEF Submit, NotifyAll, NothingLeftBehind,
        OpenStored, AskingWorker
  <2>10. QED
    BY <1>0, <2>1, <2>2, <2>3, <2>4, <2>5, <2>6, <2>7, <2>8, <2>9 DEF Inv
<1>15. ASSUME NEW r \in Requests, DeadlinePasses(r) PROVE Inv'
  BY <1>0, <1>15 DEF DeadlinePasses, OpenStored, OneOpenRequest, AskingWorker,
         AnsweredSubmitted, OnlyAnswersHaveValues, AnswerHeld, HandedOutcome,
         TimedOutHanded, NothingLeftBehind
<1>16. CASE UNCHANGED vars
  BY <1>16 DEF vars, OpenStored, OneOpenRequest,
         AskingWorker, AnsweredSubmitted, OnlyAnswersHaveValues, AnswerHeld,
         HandedOutcome, TimedOutHanded, NothingLeftBehind
<1>17. QED
  BY <1>1, <1>2, <1>3, <1>4, <1>5, <1>6, <1>7, <1>8, <1>9, <1>10, <1>11, <1>12,
     <1>13, <1>14, <1>15, <1>16 DEF Next, Worker

\* The invariant holds at the start.
LEMMA InvInit == Init => Inv
  BY DEF Init, Inv, TypeOK, Statuses, Locations, Open, Asking, OpenStored,
         OneOpenRequest, AskingWorker, AnsweredSubmitted, OnlyAnswersHaveValues,
         AnswerHeld, HandedOutcome, TimedOutHanded, NothingLeftBehind

\* It always holds.
LEMMA Invariance == Spec => []Inv
  BY InvInit, InvStep, PTL DEF Spec

-----------------------------------------------------------------------------
(* What follows from it.                                                   *)

\* The answer that submit() took is what wait() returns to the node.
THEOREM AnswersDelivered == Spec => []TakenAnswerDelivered
<1>1. Inv => TakenAnswerDelivered
  BY DEF Inv, AnsweredSubmitted, HandedOutcome, TakenAnswerDelivered
<1>2. QED
  BY <1>1, Invariance, PTL

\* An execution never has two requests that can be answered, and once its worker
\* is gone it leaves no open request and no answer (PendingInput.tla).
THEOREM Settled == Spec => []RequestsAreSettled
<1>1. Inv => RequestsAreSettled
  BY DEF Inv, RequestsAreSettled
<1>2. QED
  BY <1>1, Invariance, PTL

-----------------------------------------------------------------------------
(* The service implements InputAnswer.                                     *)

\* The start is a start of InputAnswer.
LEMMA ObservedInit == Init => Observed!Init
  BY DEF Init, Observed!Init, Open

\* Every step is a step of InputAnswer or one that it does not see.
LEMMA ObservedStep == Inv /\ [Next]_vars => [Observed!Next]_Observed!vars
<1> SUFFICES ASSUME Inv, [Next]_vars PROVE [Observed!Next]_Observed!vars
  OBVIOUS
<1> USE DEF Inv, TypeOK, records, worker, context, Open, Terminal, Statuses, Results,
            Replies, Asking, At, Goto, Observed!vars
<1>1. ASSUME NEW e \in Executions, NEW r \in Requests, Create(e, r)
      PROVE  Observed!Ask(r)
  BY <1>1 DEF Create, Observed!Ask, OpenRequests, OpenStored, AnsweredSubmitted
<1>2. ASSUME NEW e \in Executions, Activate(e) PROVE UNCHANGED Observed!vars
  BY <1>2 DEF Activate
<1>3. ASSUME NEW r \in Requests, NEW at, CancelRequest(r, at), UNCHANGED <<result, reply>>
      PROVE  Observed!Cancel(r) \/ UNCHANGED Observed!vars
  BY <1>3 DEF CancelRequest, Observed!Cancel
<1>4. ASSUME NEW e \in Executions, pc[e] \in {"registered", "awake"},
             WaitLoop(e, current[e]), UNCHANGED reply
      PROVE  \/ \E r \in Requests : Observed!TimeOut(r) \/ Observed!HandOver(r)
             \/ UNCHANGED Observed!vars
  <2>1. CASE status[current[e]] # "waiting" /\ ReturnOutcome(e, current[e])
    <3> DEFINE r == current[e]
    <3>1. /\ r \in Requests
          /\ result[r] = None
          /\ status[r] \in {"submitted", "cancelled"}
      BY <1>4, <2>1 DEF AskingWorker, TimedOutHanded
    <3>2. value[r] = IF reply[r] = None THEN None ELSE reply[r].taken
      BY <1>4, <3>1 DEF AnswerHeld, AnsweredSubmitted, OnlyAnswersHaveValues
    <3>3. result' = [result EXCEPT ![r] = [status |-> status[r], value |-> value[r]]]
      BY <2>1 DEF ReturnOutcome
    <3>4. UNCHANGED <<status, reply>>
      BY <1>4, <2>1 DEF ReturnOutcome
    <3>5. Observed!HandOver(r)
      BY <3>1, <3>2, <3>3, <3>4 DEF Observed!HandOver
    <3>6. QED
      BY <3>1, <3>5
  <2>2. CASE status[current[e]] = "waiting" /\ ReturnTimedOut(e, current[e])
    <3>1. PICK r \in Requests : r = current[e]
      BY <1>4
    <3>2. Observed!TimeOut(r)
      BY <1>4, <2>2, <3>1, ZenonT(40) DEF ReturnTimedOut, Observed!TimeOut, AskingWorker,
         AnsweredSubmitted, OnlyAnswersHaveValues
    <3>3. QED
      BY <3>1, <3>2
  <2>3. CASE Sleep(e)
    BY <1>4, <2>3 DEF Sleep
  <2>4. QED
    BY <1>4, <2>1, <2>2, <2>3 DEF WaitLoop
<1>5. ASSUME NEW e \in Executions, CancelSession(e)
      PROVE  (\E r \in Requests : Observed!Cancel(r)) \/ UNCHANGED Observed!vars
  <2>1. CASE OpenRequests(e) = {}
    BY <1>5, <2>1 DEF CancelSession, OpenRequests, OpenStored
  <2>2. CASE OpenRequests(e) # {}
    <3>1. PICK r \in Requests : r \in OpenRequests(e)
      BY <2>2 DEF OpenRequests
    <3>2. Observed!Cancel(r)
      <4>1. \A q \in Requests : q \in OpenRequests(e) <=> q = r
        BY <3>1 DEF OpenRequests, OneOpenRequest
      <4>2. \A q \in Requests : status'[q] = IF q = r THEN "cancelled" ELSE status[q]
        BY <1>5, <4>1 DEF CancelSession, OpenRequests
      <4>3. status[r] \in Open
        BY <3>1 DEF OpenRequests
      <4>4. UNCHANGED <<result, reply>>
        BY <1>5 DEF CancelSession
      <4>5. QED
        BY <4>2, <4>3, <4>4 DEF Observed!Cancel
    <3>3. QED
      BY <3>2
  <2>3. QED
    BY <2>1, <2>2
<1>6. ASSUME NEW r \in Requests, NEW v \in Values, Submit(r, v) PROVE Observed!Take(r, v)
  <2>1. /\ status[r] \in Open
        /\ \A q \in Requests : status'[q] = IF q = r THEN "submitted" ELSE status[q]
        /\ result' = result
    BY <1>6 DEF Submit
  <2>2. \A q \in Requests : q # r => reply'[q] = reply[q]
    BY <1>6 DEF Submit
  <2>3. reply'[r] # None /\ reply'[r].taken = v
    BY <1>6 DEF Submit
  <2>4. [q \in Requests |-> IF status'[q] \in Open THEN "open" ELSE status'[q]]
          = [[q \in Requests |-> IF status[q] \in Open THEN "open" ELSE status[q]]
               EXCEPT ![r] = "submitted"]
    BY <2>1
  <2>5. [q \in Requests |-> IF reply'[q] = None THEN None ELSE reply'[q].taken]
          = [[q \in Requests |-> IF reply[q] = None THEN None ELSE reply[q].taken]
               EXCEPT ![r] = v]
    BY <2>2, <2>3
  <2>6. QED
    BY <2>1, <2>4, <2>5 DEF Observed!Take
<1>7. CASE UNCHANGED <<status, result, reply>>
  BY <1>7
<1>8. ASSUME NEW e \in Executions, Worker(e) PROVE [Observed!Next]_Observed!vars
  <2>1. ASSUME NEW r \in Requests, Create(e, r) PROVE Observed!Next
    BY <2>1, <1>1 DEF Observed!Next
  <2>2. CASE RunCleanupNow(e)
    BY <2>2, <1>3 DEF RunCleanupNow, Observed!Next
  <2>3. CASE EnterWait(e)
    <3>1. CASE current[e] \in stored
      <4>1. pc[e] = "registered" /\ WaitLoop(e, current[e]) /\ UNCHANGED reply
        BY <2>3, <3>1 DEF EnterWait
      <4>2. QED
        BY <4>1, <1>4 DEF Observed!Next
    <3>2. CASE current[e] \notin stored
      BY <2>3, <3>2, <1>7 DEF EnterWait
    <3>3. QED
      BY <3>1, <3>2
  <2>4. CASE Recheck(e)
    <3>1. pc[e] = "awake" /\ WaitLoop(e, current[e]) /\ UNCHANGED reply
      BY <2>4 DEF Recheck
    <3>2. QED
      BY <3>1, <1>4 DEF Observed!Next
  <2>5. CASE CancelSession(e)
    BY <2>5, <1>5 DEF Observed!Next
  <2>6. CASE \/ FailBeforeWait(e) \/ RegisterCleanup(e) \/ TimerWake(e)
             \/ Unregister(e) \/ Finish(e)
    BY <2>6, <1>7 DEF FailBeforeWait, RegisterCleanup, TimerWake, Unregister, Finish
  <2>7. QED
    BY <1>2, <1>8, <2>1, <2>2, <2>3, <2>4, <2>5, <2>6 DEF Worker
<1>9. ASSUME NEW e \in Executions, NEW r \in Requests, RunCallback(e, r)
      PROVE  [Observed!Next]_Observed!vars
  BY <1>9, <1>3 DEF RunCallback, Observed!Next
<1>10. ASSUME NEW e \in Executions, RequestCancel(e) PROVE UNCHANGED Observed!vars
  BY <1>10, <1>7 DEF RequestCancel
<1>11. ASSUME NEW r \in Requests, DeadlinePasses(r) PROVE UNCHANGED Observed!vars
  BY <1>11, <1>7 DEF DeadlinePasses
<1>12. CASE UNCHANGED vars
  BY <1>12, <1>7 DEF vars
<1>13. QED
  BY <1>6, <1>8, <1>9, <1>10, <1>11, <1>12 DEF Next, Observed!Next

\* The service is an implementation of InputAnswer: each request is decided at
\* most once and its node is handed that decision, with the answer if it is one.
THEOREM Implementation == Spec => ImplementsInputAnswer
  BY ObservedInit, ObservedStep, Invariance, PTL
     DEF Spec, Observed!Spec, ImplementsInputAnswer
=============================================================================
