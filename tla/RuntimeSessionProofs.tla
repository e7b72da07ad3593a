------------------------ MODULE RuntimeSessionProofs ------------------------
(***************************************************************************)
(* Proofs about RuntimeSession, for any sessions, API threads, executions  *)
(* and bounds: outcomes are final and the history agrees with them; with   *)
(* executions in worker threads only, a session has one worker and its     *)
(* nodes run on unlocked parameters.                                       *)
(*                                                                         *)
(* The order is: the bounded lists, the inductive invariant, types, how    *)
(* the workspace state changes, how threads move, the invariant again and  *)
(* the theorems, then what needs "run" \notin Calls.                       *)
(***************************************************************************)
EXTENDS RuntimeSession, SequenceTheorems, TLAPS

USE BoundsAssumption, RestartsAssumption, EncryptedAssumption, CallsAssumption,
    NoSessionAssumption

-----------------------------------------------------------------------------
(* The bounded lists of documents and of the run history.                  *)

\* Taking the newest entries keeps them where they are.
LEMMA NewestIs ==
    ASSUME NEW S, NEW seq \in Seq(S), NEW b \in Nat \ {0}
    PROVE  /\ Newest(seq, b) \in Seq(S)
           /\ Len(Newest(seq, b)) = IF Len(seq) < b THEN Len(seq) ELSE b
           /\ \A i \in 1 .. Len(Newest(seq, b)) : Newest(seq, b)[i] = seq[i]
  BY DEF Newest

\* Leaving out entry k shifts the later ones.
LEMMA WithoutIs ==
    ASSUME NEW S, NEW seq \in Seq(S), NEW k \in 0 .. Len(seq)
    PROVE  /\ Without(seq, k) \in Seq(S)
           /\ Len(Without(seq, k)) = IF k = 0 THEN Len(seq) ELSE Len(seq) - 1
           /\ \A i \in 1 .. Len(Without(seq, k)) :
                 Without(seq, k)[i] = seq[IF k = 0 \/ i < k THEN i ELSE i + 1]
<1>1. CASE k = 0
  <2>1. SubSeq(seq, 1, k - 1) = <<>>
    BY <1>1
  <2>2. SubSeq(seq, k + 1, Len(seq)) = seq
    BY <1>1
  <2>3. QED
    BY <1>1, <2>1, <2>2 DEF Without
<1>2. CASE k # 0
  <2>1. /\ SubSeq(seq, 1, k - 1) \in Seq(S)
        /\ Len(SubSeq(seq, 1, k - 1)) = k - 1
        /\ \A i \in 1 .. k - 1 : SubSeq(seq, 1, k - 1)[i] = seq[i]
    BY <1>2
  <2>2. /\ SubSeq(seq, k + 1, Len(seq)) \in Seq(S)
        /\ Len(SubSeq(seq, k + 1, Len(seq))) = Len(seq) - k
        /\ \A i \in 1 .. Len(seq) - k : SubSeq(seq, k + 1, Len(seq))[i] = seq[i + k]
    BY <1>2
  <2> DEFINE front == SubSeq(seq, 1, k - 1)
             back  == SubSeq(seq, k + 1, Len(seq))
  <2> HIDE DEF front, back
  <2>3. /\ front \o back \in Seq(S)
        /\ Len(front \o back) = Len(seq) - 1
        /\ \A i \in 1 .. Len(seq) - 1 :
              (front \o back)[i] = IF i <= k - 1 THEN front[i] ELSE back[i - (k - 1)]
    <3>1. front \in Seq(S) /\ Len(front) = k - 1
      BY <2>1 DEF front
    <3>2. back \in Seq(S) /\ Len(back) = Len(seq) - k
      BY <2>2 DEF back
    <3>3. Len(front) + Len(back) = Len(seq) - 1
      BY <1>2, <3>1, <3>2
    <3>4. QED
      BY <3>1, <3>2, <3>3, ConcatProperties, ZenonT(40)
  <2>4. \A i \in 1 .. Len(seq) - 1 :
            (front \o back)[i] = seq[IF i < k THEN i ELSE i + 1]
    <3> SUFFICES ASSUME NEW i \in 1 .. Len(seq) - 1
                 PROVE  (front \o back)[i] = seq[IF i < k THEN i ELSE i + 1]
      OBVIOUS
    <3>1. CASE i < k
      BY <3>1, <2>1, <2>3, <1>2 DEF front
    <3>2. CASE ~(i < k)
      <4>1. i - (k - 1) \in 1 .. Len(seq) - k
        BY <3>2, <1>2
      <4>2. back[i - (k - 1)] = seq[i - (k - 1) + k]
        BY <4>1, <2>2 DEF back
      <4>3. i - (k - 1) + k = i + 1
        BY <1>2
      <4>4. QED
        BY <3>2, <2>3, <4>2, <4>3
    <3>3. QED
      BY <3>1, <3>2
  <2>5. Without(seq, k) = front \o back
    BY DEF Without, front, back
  <2>6. QED
    BY <1>2, <2>3, <2>4, <2>5
<1>3. QED
  BY <1>1, <1>2

\* A new first entry e and the others without the k-th: what stands at i > 1
\* stood at i - 1 or, behind the entry left out, at i.
Pushed(new, e, seq, k) ==
    /\ Len(new) >= 1
    /\ new[1] = e
    /\ \A i \in 2 .. Len(new) :
          LET j == IF k = 0 \/ i - 1 < k THEN i - 1 ELSE i
          IN  j \in 1 .. Len(seq) /\ j # k /\ new[i] = seq[j]

LEMMA PushedIs ==
    ASSUME NEW S, NEW seq \in Seq(S), NEW k \in 0 .. Len(seq), NEW e \in S,
           NEW b \in Nat \ {0}
    PROVE  /\ Newest(<<e>> \o Without(seq, k), b) \in Seq(S)
           /\ Pushed(Newest(<<e>> \o Without(seq, k), b), e, seq, k)
<1> DEFINE rest == Without(seq, k)
           all  == <<e>> \o rest
           new  == Newest(all, b)
<1>1. /\ rest \in Seq(S)
      /\ Len(rest) = IF k = 0 THEN Len(seq) ELSE Len(seq) - 1
      /\ \A i \in 1 .. Len(rest) : rest[i] = seq[IF k = 0 \/ i < k THEN i ELSE i + 1]
  BY WithoutIs
<1> HIDE DEF rest
<1>2. /\ all \in Seq(S)
      /\ Len(all) = Len(rest) + 1
      /\ all[1] = e
      /\ \A i \in 2 .. Len(all) : all[i] = rest[i - 1]
  <2>1. <<e>> \in Seq(S) /\ Len(<<e>>) = 1 /\ <<e>>[1] = e
    OBVIOUS
  <2>2. rest \in Seq(S)
    BY <1>1
  <2>3. QED
    BY <2>1, <2>2
<1> HIDE DEF all
<1>3. /\ new \in Seq(S)
      /\ Len(new) = IF Len(all) < b THEN Len(all) ELSE b
      /\ \A i \in 1 .. Len(new) : new[i] = all[i]
  BY <1>2, NewestIs
<1> HIDE DEF new
<1>4. Len(new) >= 1 /\ new[1] = e
  <2>1. Len(all) >= 1 /\ b >= 1
    BY <1>1, <1>2
  <2>2. Len(new) >= 1
    BY <1>3, <2>1
  <2>3. QED
    BY <1>2, <1>3, <2>2
<1>5. ASSUME NEW i \in 2 .. Len(new), NEW j, j = IF k = 0 \/ i - 1 < k THEN i - 1 ELSE i
      PROVE  j \in 1 .. Len(seq) /\ j # k /\ new[i] = seq[j]
  <2>1. i \in 2 .. Len(all) /\ i - 1 \in 1 .. Len(rest)
    BY <1>1, <1>2, <1>3
  <2>2. new[i] = rest[i - 1]
    BY <1>2, <1>3, <2>1
  <2>3. j \in 1 .. Len(seq) /\ j # k
    BY <1>1, <1>5, <2>1
  <2>4. rest[i - 1] = seq[j]
    BY <1>1, <1>5, <2>1
  <2>5. QED
    BY <2>2, <2>3, <2>4
<1>6. new \in Seq(S) /\ Pushed(new, e, seq, k)
  BY <1>3, <1>4, <1>5 DEF Pushed
<1>7. QED
  BY <1>6 DEF new, all, rest

\* Position finds a session in a list.
LEMMA PositionIs ==
    ASSUME NEW names \in Seq(Sessions), NEW s
    PROVE  /\ Position(names, s) \in 0 .. Len(names)
           /\ Position(names, s) # 0 => names[Position(names, s)] = s
           /\ Position(names, s) = 0 => \A i \in 1 .. Len(names) : names[i] # s
  BY DEF Position

\* A list of different names.
Once(names) == \A i, j \in 1 .. Len(names) : names[i] = names[j] => i = j

\* Remembering a session keeps the list one of different sessions, with that
\* session in it and no other one added.
LEMMA RememberedIs ==
    ASSUME live \in Seq(Sessions), Once(live), NEW s \in Sessions
    PROVE  /\ Remembered(s) \in Seq(Sessions)
           /\ Once(Remembered(s))
           /\ \E i \in 1 .. Len(Remembered(s)) : Remembered(s)[i] = s
           /\ \A i \in 1 .. Len(Remembered(s)) : Remembered(s)[i] \in Live \cup {s}
<1> DEFINE k == Position(live, s)
           new == Remembered(s)
<1>1. /\ k \in 0 .. Len(live)
      /\ k # 0 => live[k] = s
      /\ k = 0 => \A i \in 1 .. Len(live) : live[i] # s
  BY PositionIs
<1>2. new = Newest(<<s>> \o Without(live, k), MaxLive)
  BY DEF Remembered
<1> HIDE DEF k, new
<1>3. new \in Seq(Sessions) /\ Pushed(new, s, live, k)
  <2>1. MaxLive \in Nat \ {0}
    BY BoundsAssumption
  <2>2. k \in 0 .. Len(live)
    BY <1>1
  <2>3. QED
    BY <1>2, <2>1, <2>2, PushedIs, Zenon
<1> USE DEF Pushed
<1>4. \A i \in 2 .. Len(new) : new[i] # s /\ new[i] \in Live
  BY <1>1, <1>3 DEF Once, Live
<1>5. Once(new)
  <2> SUFFICES ASSUME NEW i \in 1 .. Len(new), NEW j \in 1 .. Len(new), i < j
               PROVE  new[i] # new[j]
    BY <1>3 DEF Once
  <2>1. CASE i = 1
    BY <2>1, <1>3, <1>4
  <2>2. CASE i # 1
    <3>1. /\ new[i] = live[IF k = 0 \/ i - 1 < k THEN i - 1 ELSE i]
          /\ new[j] = live[IF k = 0 \/ j - 1 < k THEN j - 1 ELSE j]
          /\ (IF k = 0 \/ i - 1 < k THEN i - 1 ELSE i) \in 1 .. Len(live)
          /\ (IF k = 0 \/ j - 1 < k THEN j - 1 ELSE j) \in 1 .. Len(live)
      BY <2>2, <1>3
    <3>2. (IF k = 0 \/ i - 1 < k THEN i - 1 ELSE i)
              # (IF k = 0 \/ j - 1 < k THEN j - 1 ELSE j)
      BY <2>2, <1>1, <1>3
    <3>3. QED
      BY <3>1, <3>2 DEF Once
  <2>3. QED
    BY <2>1, <2>2
<1>6. QED
  BY <1>3, <1>4, <1>5 DEF new

\* What the run history is a list of.
Entries == [session : Sessions, status : Outcomes]

\* Recording an outcome puts it first and leaves no other of that session.
LEMMA RecordedIs ==
    ASSUME history \in Seq(Entries), Once(Named), NEW s \in Sessions, NEW st \in Outcomes
    PROVE  /\ RunRecorded(s, st) \in Seq(Entries)
           /\ \A i \in 1 .. Len(RunRecorded(s, st)) :
                 \/ i = 1 /\ RunRecorded(s, st)[i] = [session |-> s, status |-> st]
                 \/ \E j \in 1 .. Len(history) :
                       RunRecorded(s, st)[i] = history[j] /\ history[j].session # s
           /\ \A i, j \in 1 .. Len(RunRecorded(s, st)) :
                 RunRecorded(s, st)[i].session = RunRecorded(s, st)[j].session => i = j
<1> DEFINE k == Position(Named, s)
           new == RunRecorded(s, st)
           e == [session |-> s, status |-> st]
<1>1. Named \in Seq(Sessions) /\ Len(Named) = Len(history)
  <2>1. \A i \in 1 .. Len(history) : history[i].session \in Sessions
    <3>1. \A i \in 1 .. Len(history) : history[i] \in Entries
      OBVIOUS
    <3>2. QED
      BY <3>1 DEF Entries
  <2>2. Len(history) \in Nat
    OBVIOUS
  <2>3. QED
    BY <2>1, <2>2 DEF Named
<1>2. /\ k \in 0 .. Len(history)
      /\ k # 0 => history[k].session = s
      /\ k = 0 => \A i \in 1 .. Len(history) : history[i].session # s
  BY <1>1, PositionIs DEF Named
<1>3. new = Newest(<<e>> \o Without(history, k), MaxHistory)
  BY DEF RunRecorded
<1>4. e \in Entries /\ e.session = s
  BY DEF Entries
<1>5. \A i, j \in 1 .. Len(history) : history[i].session = history[j].session => i = j
  BY <1>1 DEF Once, Named
<1> HIDE DEF k, new, e
<1>6. new \in Seq(Entries) /\ Pushed(new, e, history, k)
  <2>1. MaxHistory \in Nat \ {0}
    BY BoundsAssumption
  <2>2. k \in 0 .. Len(history) /\ e \in Entries
    BY <1>2, <1>4
  <2>3. QED
    BY <1>3, <2>1, <2>2, PushedIs, Zenon
<1> USE DEF Pushed
<1>7. \A i \in 2 .. Len(new) : \E j \in 1 .. Len(history) :
          new[i] = history[j] /\ history[j].session # s
  BY <1>2, <1>5, <1>6
<1>8. \A i, j \in 1 .. Len(new) : new[i].session = new[j].session => i = j
  <2> SUFFICES ASSUME NEW i \in 1 .. Len(new), NEW j \in 1 .. Len(new), i < j
               PROVE  new[i].session # new[j].session
    BY <1>6
  <2>1. CASE i = 1
    BY <2>1, <1>4, <1>6, <1>7
  <2>2. CASE i # 1
    <3>1. /\ new[i] = history[IF k = 0 \/ i - 1 < k THEN i - 1 ELSE i]
          /\ new[j] = history[IF k = 0 \/ j - 1 < k THEN j - 1 ELSE j]
          /\ (IF k = 0 \/ i - 1 < k THEN i - 1 ELSE i) \in 1 .. Len(history)
          /\ (IF k = 0 \/ j - 1 < k THEN j - 1 ELSE j) \in 1 .. Len(history)
      BY <2>2, <1>6
    <3>2. (IF k = 0 \/ i - 1 < k THEN i - 1 ELSE i)
              # (IF k = 0 \/ j - 1 < k THEN j - 1 ELSE j)
      BY <2>2, <1>2, <1>6
    <3>3. QED
      BY <3>1, <3>2, <1>5
  <2>3. QED
    BY <2>1, <2>2
<1>9. \A i \in 1 .. Len(new) : i = 1 \/ i \in 2 .. Len(new)
  BY <1>6
<1>10. QED
  BY <1>6, <1>7, <1>8, <1>9 DEF new, e

-----------------------------------------------------------------------------
(* The inductive invariant.                                                *)

\* The session was dropped from the workspace state, or its outcome is known.
Done(s) == s \notin Live \/ HasEnded(s)

\* The lists name a session once.
NamedOnce == Once(live) /\ Once(Named)

\* A session that nobody started has no document, no worker and no caller but
\* the one that starts it.
Unstarted ==
    \A s \in Sessions : doc[s] = "absent" =>
        /\ s \notin Live
        /\ \A n \in Runs : wpc[s][n] = "none"
        /\ \A t \in Threads : target[t] = s => tpc[t] = "start_remember"

\* A session is started by one thread, and once.
Starting ==
    \A t \in Threads : tpc[t] = "start_remember" =>
        /\ doc[target[t]] = "absent"
        /\ \A u \in Threads : target[u] = target[t] => u = t

\* A call in progress has a session, an abort that joins has a worker to join.
Targeted ==
    \A t \in Threads :
        /\ tpc[t] \notin {"idle", "close_reset"} => target[t] \in Sessions
        /\ tpc[t] \in {"abort_cancel", "abort_publish", "abort_join"} => caught[t] \in Runs

\* A worker that executes nodes has a context, one that is done an outcome.
Deciding ==
    \A s \in Sessions, n \in Runs :
        /\ wpc[s][n] \in {"dispatch", "node", "update", "close_context"} =>
              wctx[s][n] \in Contexts
        /\ wpc[s][n] = "close_context" => verdict[s][n] # "none"
        /\ wpc[s][n] \in {"merge", "publish_snapshot", "publish_event"} =>
              verdict[s][n] \in Outcomes

\* A worker that recorded how it ended finds an outcome, its own or another.
Recorded ==
    \A s \in Sessions, n \in Runs :
        wpc[s][n] \in {"read_outcome", "read_failure", "publish_snapshot",
                       "publish_event", "cleanup"} => Done(s)

Inv == /\ TypeOK /\ NamedOnce /\ Unstarted /\ Starting /\ Targeted /\ Deciding
       /\ Recorded

-----------------------------------------------------------------------------
(* Types.                                                                  *)

\* The lists keep their types when a session is remembered or recorded.
LEMMA TypeRemembered == TypeOK /\ NamedOnce =>
    \A s \in Sessions : Remembered(s) \in Seq(Sessions)
  BY RememberedIs DEF TypeOK, NamedOnce

\* The same for recording an outcome.
LEMMA TypeRecorded == TypeOK /\ NamedOnce =>
    \A s \in Sessions, st \in Outcomes : RunRecorded(s, st) \in Seq(Entries)
  BY RecordedIs DEF TypeOK, NamedOnce, Entries

\* Every step keeps the types.
LEMMA TypeStep == Inv /\ [Next]_vars => TypeOK'
<1> SUFFICES ASSUME Inv, [Next]_vars PROVE TypeOK'
  OBVIOUS
<1> USE DEF Inv, TypeOK, persisted, registry, stream, workers, api, Worker, Api, Call,
            Continue, Reply, OnlyApi, Outcomes, Active, Documents, Visible, Executing,
            WorkerLocations, ApiLocations, HasEnded, Runs, Contexts, NoRun,
            PublishSnapshot, PublishOutcome
<1>1. ASSUME NEW s \in Sessions, NEW n \in Runs, WorkerStart(s, n) PROVE TypeOK'
  BY <1>1 DEF WorkerStart
<1>2. ASSUME NEW s \in Sessions, NEW n \in Runs, WorkerPlan(s, n) PROVE TypeOK'
  BY <1>2 DEF WorkerPlan
<1>3. ASSUME NEW s \in Sessions, NEW n \in Runs, WorkerLoad(s, n) PROVE TypeOK'
  <2> DEFINE c == IF context[s] = NoRun THEN MaxRuns + n ELSE context[s]
  <2>1. c \in Contexts
    OBVIOUS
  <2>2. \/ UNCHANGED <<context, wctx>>
        \/ /\ context' = [context EXCEPT ![s] = c]
           /\ wctx' = [wctx EXCEPT ![s][n] = c]
    BY <1>3 DEF WorkerLoad
  <2> HIDE DEF c
  <2>3. context' \in [Sessions -> Contexts \cup {NoRun}]
    BY <2>1, <2>2
  <2>4. wctx' \in [Sessions -> [Runs -> Contexts \cup {NoRun}]]
    <3>1. [wctx EXCEPT ![s][n] = c] \in [Sessions -> [Runs -> Contexts \cup {NoRun}]]
      BY <2>1
    <3>2. QED
      BY <2>2, <3>1
  <2>5. QED
    BY <1>3, <2>3, <2>4 DEF WorkerLoad
<1>4. ASSUME NEW s \in Sessions, NEW n \in Runs, WorkerDispatch(s, n) PROVE TypeOK'
  BY <1>4 DEF WorkerDispatch, LiveStatus
<1>5. ASSUME NEW s \in Sessions, NEW n \in Runs, WorkerNode(s, n) PROVE TypeOK'
  <2>1. wpc' \in [Sessions -> [Runs -> WorkerLocations]]
    <3>1. \E to \in WorkerLocations : wpc' = [wpc EXCEPT ![s][n] = to]
      BY <1>5 DEF WorkerNode, Decide
    <3>2. \A to \in WorkerLocations :
              [wpc EXCEPT ![s][n] = to] \in [Sessions -> [Runs -> WorkerLocations]]
      OBVIOUS
    <3>3. QED
      BY <3>1, <3>2
  <2>2. verdict' \in [Sessions -> [Runs -> {"none", "raised"} \cup Outcomes]]
    <3>1. \/ verdict' = verdict
          \/ \E v \in {"raised"} \cup Outcomes : verdict' = [verdict EXCEPT ![s][n] = v]
      BY <1>5 DEF WorkerNode, Decide
    <3>2. \A v \in {"raised"} \cup Outcomes :
              [verdict EXCEPT ![s][n] = v]
                \in [Sessions -> [Runs -> {"none", "raised"} \cup Outcomes]]
      OBVIOUS
    <3>3. CASE verdict' = verdict
      BY <3>3
    <3>4. ASSUME NEW v \in {"raised"} \cup Outcomes, verdict' = [verdict EXCEPT ![s][n] = v]
          PROVE  verdict' \in [Sessions -> [Runs -> {"none", "raised"} \cup Outcomes]]
      BY <3>2, <3>4
    <3>5. QED
      BY <3>1, <3>3, <3>4
  <2>3. latest' \in [Sessions -> Visible]
    BY <1>5 DEF WorkerNode
  <2>4. QED
    BY <1>5, <2>1, <2>2, <2>3 DEF WorkerNode
<1>6. ASSUME NEW s \in Sessions, NEW n \in Runs, WorkerUpdate(s, n) PROVE TypeOK'
  <2>1. wpc' \in [Sessions -> [Runs -> WorkerLocations]]
    <3>1. \E to \in WorkerLocations : wpc' = [wpc EXCEPT ![s][n] = to]
      BY <1>6 DEF WorkerUpdate, Decide
    <3>2. \A to \in WorkerLocations :
              [wpc EXCEPT ![s][n] = to] \in [Sessions -> [Runs -> WorkerLocations]]
      OBVIOUS
    <3>3. QED
      BY <3>1, <3>2
  <2>2. verdict' \in [Sessions -> [Runs -> {"none", "raised"} \cup Outcomes]]
    <3>1. \/ verdict' = verdict
          \/ \E v \in {"raised"} \cup Outcomes : verdict' = [verdict EXCEPT ![s][n] = v]
      BY <1>6 DEF WorkerUpdate, Decide
    <3>2. \A v \in {"raised"} \cup Outcomes :
              [verdict EXCEPT ![s][n] = v]
                \in [Sessions -> [Runs -> {"none", "raised"} \cup Outcomes]]
      OBVIOUS
    <3>3. CASE verdict' = verdict
      BY <3>3
    <3>4. ASSUME NEW v \in {"raised"} \cup Outcomes, verdict' = [verdict EXCEPT ![s][n] = v]
          PROVE  verdict' \in [Sessions -> [Runs -> {"none", "raised"} \cup Outcomes]]
      BY <3>2, <3>4
    <3>5. QED
      BY <3>1, <3>3, <3>4
  <2>3. latest' \in [Sessions -> Visible]
    BY <1>6 DEF WorkerUpdate, LiveStatus
  <2>4. QED
    BY <1>6, <2>1, <2>2, <2>3 DEF WorkerUpdate
<1>7. ASSUME NEW s \in Sessions, NEW n \in Runs, WorkerCloseContext(s, n) PROVE TypeOK'
  BY <1>7 DEF WorkerCloseContext, Deciding
<1>8. ASSUME NEW s \in Sessions, NEW n \in Runs, WorkerMerge(s, n) PROVE TypeOK'
  <2>1. verdict[s][n] \in Outcomes
    BY <1>8 DEF WorkerMerge, Deciding
  <2>2. /\ Remembered(s) \in Seq(Sessions)
        /\ RunRecorded(s, verdict[s][n]) \in Seq(Entries)
    BY <2>1, TypeRemembered, TypeRecorded
  <2>3. live' \in Seq(Sessions) /\ doc' \in [Sessions -> Documents]
    BY <1>8, <2>1, <2>2 DEF WorkerMerge, MergeOutcome
  <2>4. history' \in Seq(Entries)
    BY <1>8, <2>2 DEF WorkerMerge, MergeOutcome, Entries
  <2>5. QED
    BY <1>8, <2>3, <2>4 DEF WorkerMerge, Entries
<1>9. ASSUME NEW s \in Sessions, NEW n \in Runs, WorkerReadOutcome(s, n) PROVE TypeOK'
  BY <1>9 DEF WorkerReadOutcome, ReadBack, Recorded, Done
<1>10. ASSUME NEW s \in Sessions, NEW n \in Runs, WorkerFinalize(s, n) PROVE TypeOK'
  <2>1. RunRecorded(s, "failed") \in Seq(Entries)
    BY TypeRecorded
  <2>2. live' = live /\ doc' \in [Sessions -> Documents]
    BY <1>10 DEF WorkerFinalize
  <2>3. history' \in Seq(Entries)
    BY <1>10, <2>1 DEF WorkerFinalize, Entries
  <2>4. QED
    BY <1>10, <2>2, <2>3 DEF WorkerFinalize, Entries
<1>11. ASSUME NEW s \in Sessions, NEW n \in Runs, WorkerReadFailure(s, n) PROVE TypeOK'
  BY <1>11 DEF WorkerReadFailure, ReadBack, Recorded, Done
<1>12. ASSUME NEW s \in Sessions, NEW n \in Runs, WorkerPublishSnapshot(s, n) PROVE TypeOK'
  BY <1>12 DEF WorkerPublishSnapshot, Deciding
<1>13. ASSUME NEW s \in Sessions, NEW n \in Runs, WorkerPublishEvent(s, n) PROVE TypeOK'
  BY <1>13 DEF WorkerPublishEvent, Deciding
<1>14. ASSUME NEW s \in Sessions, NEW n \in Runs, WorkerCleanup(s, n) PROVE TypeOK'
  BY <1>14 DEF WorkerCleanup
<1>15. ASSUME NEW s \in Sessions, NEW n \in Runs, WorkerCloseStream(s, n) PROVE TypeOK'
  BY <1>15 DEF WorkerCloseStream
<1>16. ASSUME NEW t \in Threads, NEW s \in Sessions, StartPrepare(t, s) PROVE TypeOK'
  BY <1>16 DEF StartPrepare
<1>17. ASSUME NEW t \in Threads, NEW s \in Sessions, UnlockCheck(t, s) PROVE TypeOK'
  BY <1>17 DEF UnlockCheck, Alive
<1>18. ASSUME NEW t \in Threads, NEW s \in Sessions, ExecuteCheck(t, s) PROVE TypeOK'
  BY <1>18 DEF ExecuteCheck
<1>19. ASSUME NEW t \in Threads, NEW s \in Sessions, RunHere(t, s) PROVE TypeOK'
  BY <1>19 DEF RunHere
<1>20. ASSUME NEW t \in Threads, NEW s \in Sessions, AbortCall(t, s) PROVE TypeOK'
  BY <1>20, ZenonT(40) DEF AbortCall, Alive
<1>21. ASSUME NEW t \in Threads, CloseCheck(t) PROVE TypeOK'
  BY <1>21 DEF CloseCheck
<1>22. ASSUME NEW t \in Threads, StartRemember(t) PROVE TypeOK'
  <2>1. target[t] \in Sessions
    BY <1>22 DEF StartRemember, Targeted
  <2>2. live' \in Seq(Sessions)
    BY <1>22, <2>1, TypeRemembered DEF StartRemember
  <2>3. QED
    BY <1>22, <2>1, <2>2 DEF StartRemember, InitialStatus
<1>23. ASSUME NEW t \in Threads, StartPublish(t) PROVE TypeOK'
  BY <1>23 DEF StartPublish, Targeted, InitialStatus
<1>24. ASSUME NEW t \in Threads, UnlockStore(t) PROVE TypeOK'
  BY <1>24 DEF UnlockStore, Targeted
<1>25. ASSUME NEW t \in Threads, ExecuteUnlock(t) PROVE TypeOK'
  BY <1>25 DEF ExecuteUnlock, Targeted
<1>26. ASSUME NEW t \in Threads, ExecuteLaunch(t) PROVE TypeOK'
  <2>1. target[t] \in Sessions
    BY <1>26 DEF ExecuteLaunch, Targeted
  <2>2. /\ launched' \in [Sessions -> 0 .. MaxRuns]
        /\ thread' \in [Sessions -> Runs \cup {NoRun}]
        /\ context' \in [Sessions -> Contexts \cup {NoRun}]
        /\ wpc' \in [Sessions -> [Runs -> WorkerLocations]]
    <3> DEFINE k == launched[target[t]] + 1
    <3>1. CASE k > MaxRuns \/ Alive(target[t], thread[target[t]])
      BY <1>26, <3>1 DEF ExecuteLaunch
    <3>2. CASE ~(k > MaxRuns) /\ ~Alive(target[t], thread[target[t]])
      <4>1. k \in Runs /\ k \in Contexts /\ k \in 0 .. MaxRuns
        BY <2>1, <3>2
      <4>2. /\ launched' = [launched EXCEPT ![target[t]] = k]
            /\ thread' = [thread EXCEPT ![target[t]] = k]
            /\ context' = [context EXCEPT ![target[t]] = k]
            /\ wpc' = [wpc EXCEPT ![target[t]][k] = "start"]
        BY <1>26, <3>2 DEF ExecuteLaunch
      <4> HIDE DEF k
      <4>3. QED
        BY <2>1, <4>1, <4>2
    <3>3. QED
      BY <3>1, <3>2
  <2>3. QED
    BY <1>26, <2>1, <2>2 DEF ExecuteLaunch
<1>27. ASSUME NEW t \in Threads, RunReturns(t) PROVE TypeOK'
  BY <1>27 DEF RunReturns, Targeted
<1>28. ASSUME NEW t \in Threads, AbortCancel(t) PROVE TypeOK'
  <2>1. target[t] \in Sessions /\ caught[t] \in Contexts
    <3>1. tpc[t] = "abort_cancel"
      BY <1>28 DEF AbortCancel
    <3>2. target[t] \in Sessions /\ caught[t] \in Runs
      BY <3>1 DEF Targeted
    <3>3. QED
      BY <3>2
  <2>2. cancelled' \in SUBSET (Sessions \X Contexts)
    BY <1>28, <2>1 DEF AbortCancel
  <2>3. tpc' \in [Threads -> ApiLocations]
    BY <1>28 DEF AbortCancel
  <2>4. QED
    BY <1>28, <2>2, <2>3 DEF AbortCancel
<1>29. ASSUME NEW t \in Threads, AbortPublish(t) PROVE TypeOK'
  BY <1>29 DEF AbortPublish, Targeted
<1>30. ASSUME NEW t \in Threads, AbortJoined(t) PROVE TypeOK'
  BY <1>30 DEF AbortJoined, Targeted
<1>31. ASSUME NEW t \in Threads, AbortGivesUp(t) PROVE TypeOK'
  BY <1>31 DEF AbortGivesUp, Targeted
<1>32. ASSUME NEW t \in Threads, AbortLookup(t) PROVE TypeOK'
  <2>1. \/ Continue(t, "abort_lookup", "force")
        \/ Reply(t, "abort_lookup")
    BY <1>32 DEF AbortLookup
  <2>2. QED
    BY <1>32, <2>1 DEF AbortLookup
<1>33. ASSUME NEW t \in Threads, ForceAbort(t) PROVE TypeOK'
  <2>1. target[t] \in Sessions
    BY <1>33 DEF ForceAbort, Targeted
  <2>2. RunRecorded(target[t], "aborted") \in Seq(Entries)
    BY <2>1, TypeRecorded
  <2>3. live' = live /\ doc' \in [Sessions -> Documents]
    BY <1>33, <2>1 DEF ForceAbort
  <2>4. history' \in Seq(Entries)
    BY <1>33, <2>2 DEF ForceAbort, Entries
  <2>5. QED
    BY <1>33, <2>3, <2>4 DEF ForceAbort, Entries
<1>34. ASSUME NEW t \in Threads, ForceRead(t) PROVE TypeOK'
  BY <1>34 DEF ForceRead, Targeted
<1>35. ASSUME NEW t \in Threads, ForceSnapshot(t) PROVE TypeOK'
  BY <1>35 DEF ForceSnapshot, Targeted
<1>36. ASSUME NEW t \in Threads, ForceEvent(t) PROVE TypeOK'
  BY <1>36 DEF ForceEvent, Targeted
<1>37. ASSUME NEW t \in Threads, ForceClose(t) PROVE TypeOK'
  BY <1>37 DEF ForceClose, Targeted
<1>38. ASSUME NEW t \in Threads, CloseReset(t) PROVE TypeOK'
  BY <1>38 DEF CloseReset
<1>39. ASSUME Restart PROVE TypeOK'
  <2>1. doc' \in [Sessions -> Documents]
    BY <1>39 DEF Restart, Recovered
  <2>2. history' \in Seq(Entries)
    <3>1. \A i \in 1 .. Len(history) : history[i] \in Entries
      <4>1. history \in Seq(Entries)
        BY DEF Entries
      <4>2. QED
        BY <4>1
    <3> DEFINE entry(i) ==
                 IF history[i].session \in Live /\ doc[history[i].session] = "running"
                           THEN [session |-> history[i].session, status |-> "failed"]
                           ELSE history[i]
    <3>2. \A i \in 1 .. Len(history) : entry(i) \in Entries
      BY <3>1 DEF Entries
    <3>3. history' = [i \in 1 .. Len(history) |-> entry(i)]
      BY <1>39 DEF Restart
    <3>4. Len(history) \in Nat
      OBVIOUS
    <3> HIDE DEF entry
    <3>5. QED
      BY <3>2, <3>3, <3>4
  <2>3. wpc' \in [Sessions -> [Runs -> WorkerLocations]]
    BY <1>39 DEF Restart
  <2>4. QED
    BY <1>39, <2>1, <2>2, <2>3 DEF Restart, Entries
<1>40. CASE UNCHANGED vars
  BY <1>40 DEF vars
<1> HIDE DEF Inv, TypeOK, persisted, registry, stream, workers, api, Worker, Api, Call,
             Continue, Reply, OnlyApi, Outcomes, Active, Documents, Visible, Executing,
             WorkerLocations, ApiLocations, HasEnded, Runs, Contexts, NoRun,
             PublishSnapshot, PublishOutcome
<1>41. ASSUME NEW s \in Sessions, NEW n \in Runs, WorkerStep(s, n) PROVE TypeOK'
  BY <1>41, <1>1, <1>2, <1>3, <1>4, <1>5, <1>6, <1>7, <1>8, <1>9, <1>10, <1>11,
     <1>12, <1>13, <1>14, <1>15 DEF WorkerStep
<1>42. ASSUME NEW t \in Threads, NewCall(t) PROVE TypeOK'
  BY <1>42, <1>16, <1>17, <1>18, <1>19, <1>20, <1>21 DEF NewCall
<1>43. ASSUME NEW t \in Threads, ApiStep(t) PROVE TypeOK'
  BY <1>43, <1>22, <1>23, <1>24, <1>25, <1>26, <1>27, <1>28, <1>29, <1>30, <1>31,
     <1>32, <1>33, <1>34, <1>35, <1>36, <1>37, <1>38 DEF ApiStep
<1>44. QED
  BY <1>39, <1>40, <1>41, <1>42, <1>43 DEF Next

-----------------------------------------------------------------------------
(* How the workspace state changes.                                        *)

\* The outcome st of session s is recorded, by its worker or by an abort.
Records(s, st) ==
    /\ doc[s] # "absent"
    /\ s \in Live /\ doc[s] = "aborted" => st = "aborted"
    /\ doc' = [doc EXCEPT ![s] = st]
    /\ history' = RunRecorded(s, st)
    /\ \/ s \in Live /\ live' = live
       \/ live' = Remembered(s)

\* close_project empties the lists.
Forgets == live' = <<>> /\ history' = <<>> /\ doc' = doc

\* The workspace state stays, gains a started session, records an outcome, is
\* emptied or is recovered by a restart.
LEMMA PersistedStep ==
    Inv /\ [Next]_vars =>
        \/ UNCHANGED persisted
        \/ \E t \in Threads : StartRemember(t)
        \/ \E s \in Sessions, st \in Outcomes : Records(s, st)
        \/ Forgets
        \/ Restart
<1> SUFFICES ASSUME Inv, [Next]_vars
             PROVE  \/ UNCHANGED persisted
                    \/ \E t \in Threads : StartRemember(t)
                    \/ \E s \in Sessions, st \in Outcomes : Records(s, st)
                    \/ Forgets
                    \/ Restart
  OBVIOUS
<1>1. ASSUME NEW s \in Sessions, NEW n \in Runs, WorkerMerge(s, n)
      PROVE  UNCHANGED persisted \/ \E st \in Outcomes : Records(s, st)
  <2>1. verdict[s][n] \in Outcomes /\ doc[s] # "absent"
    BY <1>1 DEF WorkerMerge, Worker, Inv, Deciding, Unstarted
  <2>2. UNCHANGED persisted \/ Records(s, verdict[s][n])
    BY <1>1, <2>1 DEF WorkerMerge, MergeOutcome, Records, persisted
  <2>3. QED
    BY <2>1, <2>2
<1>2. ASSUME NEW s \in Sessions, NEW n \in Runs, WorkerFinalize(s, n)
      PROVE  UNCHANGED persisted \/ Records(s, "failed")
  BY <1>2 DEF WorkerFinalize, Records, HasEnded, Outcomes, Inv, Unstarted, persisted
<1>3. ASSUME NEW s \in Sessions, NEW n \in Runs, WorkerStep(s, n)
      PROVE  UNCHANGED persisted \/ \E st \in Outcomes : Records(s, st)
  BY <1>1, <1>2, <1>3 DEF WorkerStep, WorkerStart, WorkerPlan, WorkerLoad,
     WorkerDispatch,
     WorkerNode, WorkerUpdate, WorkerCloseContext, WorkerReadOutcome, WorkerReadFailure,
     ReadBack, WorkerPublishSnapshot, WorkerPublishEvent, WorkerCleanup, WorkerCloseStream,
     persisted, Outcomes
<1>4. ASSUME NEW t \in Threads, NewCall(t) PROVE UNCHANGED persisted
  BY <1>4 DEF NewCall, StartPrepare, UnlockCheck, ExecuteCheck, RunHere, AbortCall,
     CloseCheck, OnlyApi, persisted
<1>5. ASSUME NEW t \in Threads, ForceAbort(t)
      PROVE  UNCHANGED persisted
               \/ \E s \in Sessions : Records(s, "aborted")
  <2>1. target[t] \in Sessions
    BY <1>5 DEF ForceAbort, Continue, Reply, Api, Inv, Targeted
  <2>2. UNCHANGED persisted \/ Records(target[t], "aborted")
    BY <1>5, <2>1 DEF ForceAbort, Records, Inv, Unstarted, persisted
  <2>3. QED
    BY <2>1, <2>2
<1>6. ASSUME NEW t \in Threads, ApiStep(t), ~StartRemember(t)
      PROVE  \/ UNCHANGED persisted
             \/ \E s \in Sessions : Records(s, "aborted")
             \/ Forgets
  BY <1>5, <1>6 DEF ApiStep, StartPublish, UnlockStore, ExecuteUnlock, ExecuteLaunch,
     RunReturns, AbortCancel, AbortPublish, AbortJoined, AbortGivesUp, AbortLookup,
     ForceRead, ForceSnapshot, ForceEvent, ForceClose, CloseReset, OnlyApi, Forgets,
     persisted
<1>7. CASE UNCHANGED vars
  BY <1>7 DEF vars, persisted
<1>8. "aborted" \in Outcomes
  BY DEF Outcomes
<1>9. QED
  BY <1>3, <1>4, <1>6, <1>7, <1>8 DEF Next

\* Remembering a session adds no other one.
LEMMA LiveRemembered ==
    ASSUME Inv, NEW s \in Sessions, live' = Remembered(s)
    PROVE  Live' \subseteq Live \cup {s}
<1>1. \A i \in 1 .. Len(Remembered(s)) : Remembered(s)[i] \in Live \cup {s}
  BY RememberedIs DEF Inv, TypeOK, NamedOnce
<1>2. QED
  BY <1>1 DEF Live

\* Documents come back only with an outcome, or as one just started.
LEMMA LiveStep ==
    Inv /\ [Next]_vars =>
        \A x \in Sessions : x \in Live' =>
            \/ x \in Live
            \/ \E st \in Outcomes : Records(x, st)
            \/ \E t \in Threads : StartRemember(t) /\ target[t] = x
<1> SUFFICES ASSUME Inv, [Next]_vars, NEW x \in Sessions, x \in Live', x \notin Live
             PROVE  \/ \E st \in Outcomes : Records(x, st)
                    \/ \E t \in Threads : StartRemember(t) /\ target[t] = x
  OBVIOUS
<1>2. ASSUME NEW s \in Sessions, live' = Remembered(s) PROVE x = s
  BY <1>2, LiveRemembered
<1>3. CASE UNCHANGED persisted
  BY <1>3 DEF persisted, Live
<1>4. ASSUME NEW t \in Threads, StartRemember(t) PROVE target[t] = x
  <2>1. target[t] \in Sessions
    BY <1>4 DEF StartRemember, Continue, Api, Inv, Targeted
  <2>2. QED
    BY <1>2, <1>4, <2>1 DEF StartRemember
<1>5. ASSUME NEW s \in Sessions, NEW st \in Outcomes, Records(s, st) PROVE s = x
  BY <1>2, <1>5 DEF Records, Live
<1>6. CASE Forgets
  BY <1>6 DEF Forgets, Live
<1>7. CASE Restart
  BY <1>7 DEF Restart, Live
<1>8. QED
  BY <1>3, <1>4, <1>5, <1>6, <1>7, PersistedStep

\* An absent document stays absent or belongs to a session just started; it is
\* not listed.
LEMMA AbsentStep ==
    Inv /\ [Next]_vars =>
        \A x \in Sessions : doc'[x] = "absent" =>
            doc[x] = "absent" /\ x \notin Live'
<1> SUFFICES ASSUME Inv, [Next]_vars, NEW x \in Sessions, doc'[x] = "absent"
             PROVE  doc[x] = "absent" /\ x \notin Live'
  OBVIOUS
<1>1. doc \in [Sessions -> Documents]
  BY DEF Inv, TypeOK
<1>2. ASSUME NEW t \in Threads, StartRemember(t)
      PROVE  doc[x] = "absent" /\ target[t] # x
  <2>1. target[t] \in Sessions
    BY <1>2 DEF StartRemember, Continue, Api, Inv, Targeted
  <2>2. QED
    BY <1>1, <1>2, <2>1 DEF StartRemember, InitialStatus
<1>3. ASSUME NEW s \in Sessions, NEW st \in Outcomes, Records(s, st)
      PROVE  doc[x] = "absent" /\ s # x
  BY <1>1, <1>3 DEF Records, Outcomes
<1>4. doc[x] = "absent"
  <2>1. CASE UNCHANGED persisted
    BY <2>1 DEF persisted
  <2>2. CASE Forgets
    BY <2>2 DEF Forgets
  <2>3. CASE Restart
    BY <2>3, <1>1 DEF Restart, Recovered
  <2>4. QED
    BY <1>2, <1>3, <2>1, <2>2, <2>3, PersistedStep
<1>5. x \notin Live
  BY <1>4 DEF Inv, Unstarted
<1>6. QED
  BY <1>2, <1>3, <1>4, <1>5, LiveStep

\* Only the start of a session makes its document.
LEMMA StartedStep ==
    Inv /\ [Next]_vars =>
        \A x \in Sessions : doc[x] = "absent" /\ doc'[x] # "absent" =>
            \E t \in Threads : StartRemember(t) /\ target[t] = x
<1> SUFFICES ASSUME Inv, [Next]_vars, NEW x \in Sessions,
                    doc[x] = "absent", doc'[x] # "absent"
             PROVE  \E t \in Threads : StartRemember(t) /\ target[t] = x
  OBVIOUS
<1>1. doc \in [Sessions -> Documents]
  BY DEF Inv, TypeOK
<1>2. ASSUME NEW t \in Threads, StartRemember(t) PROVE target[t] = x
  BY <1>1, <1>2 DEF StartRemember
<1>3. ~\E s \in Sessions, st \in Outcomes : Records(s, st)
  BY <1>1 DEF Records
<1>4. ~UNCHANGED persisted /\ ~Forgets
  BY DEF persisted, Forgets
<1>5. ~Restart
  BY DEF Restart, Recovered
<1>6. QED
  BY <1>2, <1>3, <1>4, <1>5, PersistedStep

\* An outcome is final as far as a session that is kept is concerned: it may be
\* another one, but an abort is never taken back.
LEMMA OutcomeStep ==
    Inv /\ [Next]_vars =>
        \A x \in Sessions :
            /\ HasEnded(x) => HasEnded(x)'
            /\ x \in Live /\ doc[x] = "aborted" => doc'[x] = "aborted"
            /\ doc[x] # "absent" /\ Done(x) => Done(x)'
<1> SUFFICES ASSUME Inv, [Next]_vars, NEW x \in Sessions
             PROVE  /\ HasEnded(x) => HasEnded(x)'
                    /\ x \in Live /\ doc[x] = "aborted" => doc'[x] = "aborted"
                    /\ doc[x] # "absent" /\ Done(x) => Done(x)'
  OBVIOUS
<1>1. doc \in [Sessions -> Documents]
  BY DEF Inv, TypeOK
<1>2. ASSUME NEW t \in Threads, StartRemember(t)
      PROVE  /\ target[t] \in Sessions /\ doc[target[t]] = "absent"
             /\ target[t] # x => doc'[x] = doc[x]
  BY <1>1, <1>2 DEF StartRemember, Continue, Api, Inv, Targeted, Starting
<1>3. ASSUME NEW s \in Sessions, NEW st \in Outcomes, Records(s, st)
      PROVE  /\ s = x => doc'[x] = st
             /\ s # x => doc'[x] = doc[x]
             /\ x \in Live /\ doc[x] = "aborted" => doc'[x] = "aborted"
  BY <1>1, <1>3 DEF Records
<1>4. HasEnded(x) => HasEnded(x)'
  <2>1. CASE UNCHANGED persisted
    BY <2>1 DEF persisted, HasEnded
  <2>2. CASE \E t \in Threads : StartRemember(t)
    BY <1>2, <2>2 DEF HasEnded, Outcomes
  <2>3. CASE \E s \in Sessions, st \in Outcomes : Records(s, st)
    BY <1>3, <2>3 DEF HasEnded
  <2>4. CASE Forgets
    BY <2>4 DEF Forgets, HasEnded
  <2>5. CASE Restart
    BY <2>5 DEF Restart, Recovered, HasEnded, Outcomes
  <2>6. QED
    BY <2>1, <2>2, <2>3, <2>4, <2>5, PersistedStep
<1>5. x \in Live /\ doc[x] = "aborted" => doc'[x] = "aborted"
  <2>1. CASE UNCHANGED persisted
    BY <2>1 DEF persisted
  <2>2. CASE \E t \in Threads : StartRemember(t)
    BY <1>2, <2>2
  <2>3. CASE \E s \in Sessions, st \in Outcomes : Records(s, st)
    BY <1>3, <2>3
  <2>4. CASE Forgets
    BY <2>4 DEF Forgets
  <2>5. CASE Restart
    BY <2>5 DEF Restart, Recovered
  <2>6. QED
    BY <2>1, <2>2, <2>3, <2>4, <2>5, PersistedStep
<1>6. ASSUME doc[x] # "absent", Done(x) PROVE Done(x)'
  <2>1. CASE HasEnded(x)
    BY <2>1, <1>4 DEF Done
  <2>2. CASE x \notin Live
    <3>1. ASSUME NEW st \in Outcomes, Records(x, st) PROVE HasEnded(x)'
      BY <1>3, <3>1 DEF HasEnded
    <3>2. ASSUME NEW t \in Threads, StartRemember(t), target[t] = x PROVE FALSE
      BY <1>2, <1>6, <3>2
    <3>3. QED
      BY <2>2, <3>1, <3>2, LiveStep DEF Done
  <2>3. QED
    BY <1>6, <2>1, <2>2 DEF Done
<1>7. QED
  BY <1>4, <1>5, <1>6

\* The lists go on naming a session once.
LEMMA NamedOnceStep == Inv /\ [Next]_vars => NamedOnce'
<1> SUFFICES ASSUME Inv, [Next]_vars PROVE NamedOnce'
  OBVIOUS
<1>1. /\ live \in Seq(Sessions) /\ Once(live)
      /\ history \in Seq(Entries) /\ Once(Named)
  BY DEF Inv, TypeOK, NamedOnce, Entries
<1>2. \A s \in Sessions : Once(Remembered(s))
  BY <1>1, RememberedIs
<1>3. ASSUME NEW s \in Sessions, NEW st \in Outcomes, history' = RunRecorded(s, st)
      PROVE  Once(Named)'
  <2>1. \A i, j \in 1 .. Len(history') : history'[i].session = history'[j].session => i = j
    BY <1>1, <1>3, RecordedIs
  <2>2. Len(history') \in Nat
    BY <1>1, <1>3, RecordedIs
  <2>3. QED
    BY <2>1, <2>2 DEF Once, Named
<1>4. CASE UNCHANGED persisted
  <2>1. live' = live /\ Named' = Named
    BY <1>4 DEF persisted, Named
  <2>2. QED
    BY <1>1, <2>1 DEF NamedOnce, Once
<1>5. ASSUME NEW t \in Threads, StartRemember(t) PROVE NamedOnce'
  <2>1. target[t] \in Sessions
    BY <1>5 DEF StartRemember, Continue, Api, Inv, Targeted
  <2>2. live' = Remembered(target[t]) /\ history' = history
    BY <1>5 DEF StartRemember
  <2>3. Once(live)'
    BY <1>2, <2>1, <2>2 DEF Once
  <2>4. Once(Named)'
    <3>1. Named' = Named
      BY <2>2 DEF Named
    <3>2. QED
      BY <1>1, <3>1 DEF Once
  <2>5. QED
    BY <2>3, <2>4 DEF NamedOnce
<1>6. ASSUME NEW s \in Sessions, NEW st \in Outcomes, Records(s, st) PROVE NamedOnce'
  <2>1. Once(live)'
    BY <1>1, <1>2, <1>6 DEF Once, Records
  <2>2. Once(Named)'
    BY <1>3, <1>6 DEF Records
  <2>3. QED
    BY <2>1, <2>2 DEF NamedOnce
<1>7. CASE Forgets
  BY <1>7 DEF Forgets, NamedOnce, Once, Named
<1>8. CASE Restart
  <2>1. live' = live /\ Len(history') = Len(history)
    BY <1>1, <1>8 DEF Restart
  <2>2. \A i \in 1 .. Len(history) : history'[i].session = history[i].session
    BY <1>8 DEF Restart
  <2>3. Named' = Named
    BY <2>1, <2>2 DEF Named
  <2>4. QED
    BY <1>1, <2>1, <2>3 DEF NamedOnce, Once
<1>9. QED
  BY <1>4, <1>5, <1>6, <1>7, <1>8, PersistedStep

\* What the history says of a session agrees with its document.
LEMMA HistoryStep == Inv /\ HistoryAgrees /\ [Next]_vars => HistoryAgrees'
<1> SUFFICES ASSUME Inv, HistoryAgrees, [Next]_vars PROVE HistoryAgrees'
  OBVIOUS
<1>1. /\ doc \in [Sessions -> Documents]
      /\ history \in Seq(Entries) /\ Once(Named)
  BY DEF Inv, TypeOK, NamedOnce, Entries
<1>2. \A i \in 1 .. Len(history) : history[i] \in Entries /\ history[i].session \in Sessions
  <2>1. \A i \in 1 .. Len(history) : history[i] \in Entries
    BY <1>1
  <2>2. QED
    BY <2>1 DEF Entries
<1>3. /\ Len(history') \in Nat
      /\ \A i, j \in 1 .. Len(history') : history'[i].session = history'[j].session => i = j
  <2>1. NamedOnce' /\ TypeOK'
    BY NamedOnceStep, TypeStep
  <2>2. Len(history') \in Nat
    BY <2>1 DEF TypeOK
  <2>3. QED
    BY <2>1, <2>2 DEF NamedOnce, Once, Named
<1> SUFFICES ASSUME NEW i \in 1 .. Len(history'), NEW x, x = history'[i].session,
                    x \in Live', HasEnded(x)'
             PROVE  doc'[x] = history'[i].status
  BY <1>3 DEF HistoryAgrees
<1>4. ASSUME NEW j \in 1 .. Len(history), history'[i] = history[j], x \in Live,
             doc'[x] = doc[x]
      PROVE  doc'[x] = history'[i].status
  BY <1>4 DEF HistoryAgrees, HasEnded
<1>5. CASE UNCHANGED persisted
  BY <1>4, <1>5 DEF persisted, Live
<1>6. ASSUME NEW t \in Threads, StartRemember(t)
      PROVE  doc'[x] = history'[i].status
  <2>1. /\ target[t] \in Sessions /\ history' = history
        /\ doc' = [doc EXCEPT ![target[t]] = InitialStatus]
        /\ live' = Remembered(target[t])
    BY <1>6 DEF StartRemember, Continue, Api, Inv, Targeted
  <2>2. x \in Sessions /\ i \in 1 .. Len(history) /\ x = history[i].session
    BY <1>2, <2>1
  <2>3. x # target[t]
    BY <1>1, <2>1 DEF HasEnded, Outcomes, InitialStatus
  <2>4. doc'[x] = doc[x]
    BY <1>1, <2>1, <2>2, <2>3
  <2>5. x \in Live
    BY <2>1, <2>3, LiveRemembered
  <2>6. QED
    BY <1>4, <2>1, <2>2, <2>4, <2>5
<1>7. ASSUME NEW s \in Sessions, NEW st \in Outcomes, Records(s, st)
      PROVE  doc'[x] = history'[i].status
  <2>1. doc' = [doc EXCEPT ![s] = st] /\ history' = RunRecorded(s, st)
    BY <1>7 DEF Records
  <2>2. Live' \subseteq Live \cup {s}
    BY <1>7, LiveRemembered DEF Records, Live
  <2>3. \/ history'[i] = [session |-> s, status |-> st]
        \/ \E j \in 1 .. Len(history) :
              history'[i] = history[j] /\ history[j].session # s
    BY <1>1, <2>1, RecordedIs
  <2>4. CASE history'[i] = [session |-> s, status |-> st]
    BY <1>1, <2>1, <2>4
  <2>5. ASSUME NEW j \in 1 .. Len(history), history'[i] = history[j],
               history[j].session # s
        PROVE  doc'[x] = history'[i].status
    <3>1. x # s /\ x \in Sessions
      BY <1>2, <2>5
    <3>2. x \in Live /\ doc'[x] = doc[x]
      BY <1>1, <2>1, <2>2, <3>1
    <3>3. QED
      BY <1>4, <2>5, <3>2
  <2>6. QED
    BY <2>3, <2>4, <2>5
<1>8. CASE Forgets
  BY <1>8 DEF Forgets, Live
<1>9. CASE Restart
  <2>1. i \in 1 .. Len(history) /\ Live' = Live
    BY <1>1, <1>9 DEF Restart, Live
  <2>2. history'[i] = IF history[i].session \in Live /\ doc[history[i].session] = "running"
                      THEN [session |-> history[i].session, status |-> "failed"]
                      ELSE history[i]
    BY <1>9, <2>1 DEF Restart
  <2>3. x = history[i].session /\ x \in Sessions /\ x \in Live
    BY <1>2, <2>1, <2>2
  <2>4. doc'[x] = IF doc[x] = "running" THEN "failed" ELSE doc[x]
    BY <1>9, <2>3 DEF Restart, Recovered
  <2>5. QED
    BY <1>4, <2>1, <2>2, <2>3, <2>4
<1>10. QED
  BY <1>5, <1>6, <1>7, <1>8, <1>9, PersistedStep

-----------------------------------------------------------------------------
(* How workers and API threads move.                                       *)

\* A step of a worker moves that worker only, and never back to its start.
LEMMA WorkerMoves ==
    ASSUME Inv, NEW s \in Sessions, NEW n \in Runs, WorkerStep(s, n)
    PROVE  /\ wpc[s][n] \notin {"none", "ended"}
           /\ wpc'[s][n] \notin {"none", "start"}
           /\ \A x \in Sessions, m \in Runs :
                 x # s \/ m # n => wpc'[x][m] = wpc[x][m]
           /\ UNCHANGED <<launched, tpc, target, caught, restarts>>
<1>1. PICK to \in WorkerLocations \ {"none", "start"} :
          wpc[s][n] \notin {"none", "ended"} /\ wpc' = [wpc EXCEPT ![s][n] = to]
  BY DEF WorkerStep, WorkerStart, WorkerPlan, WorkerLoad, WorkerDispatch, WorkerNode,
     WorkerUpdate, Decide, WorkerCloseContext, WorkerMerge, WorkerReadOutcome,
     WorkerFinalize, WorkerReadFailure, ReadBack, WorkerPublishSnapshot,
     WorkerPublishEvent, WorkerCleanup, WorkerCloseStream, Worker, WorkerLocations,
     Executing
<1>2. UNCHANGED <<launched, tpc, target, caught, restarts>>
  BY DEF WorkerStep, WorkerStart, WorkerPlan, WorkerLoad, WorkerDispatch, WorkerNode,
     WorkerUpdate, Decide, WorkerCloseContext, WorkerMerge, WorkerReadOutcome,
     WorkerFinalize, WorkerReadFailure, ReadBack, WorkerPublishSnapshot,
     WorkerPublishEvent, WorkerCleanup, WorkerCloseStream, workers, api
<1>3. QED
  BY <1>1, <1>2 DEF Inv, TypeOK

\* An API thread in a call moves itself only, and keeps its session until it
\* is done.
LEMMA ApiMoves ==
    ASSUME Inv, NEW t \in Threads, ApiStep(t)
    PROVE  /\ tpc[t] # "idle"
           /\ tpc[t] = "start_remember" => StartRemember(t)
           /\ \A u \in Threads : u # t =>
                 tpc'[u] = tpc[u] /\ target'[u] = target[u] /\ caught'[u] = caught[u]
           /\ \/ tpc'[t] = "idle" /\ target'[t] = NoSession
              \/ tpc[t] = "close_reset" /\ tpc'[t] = "idle" /\ target'[t] = target[t]
              \/ /\ tpc[t] # "close_reset"
                 /\ tpc'[t] \notin {"idle", "close_reset", "start_remember", "abort_cancel"}
                 /\ tpc'[t] \in {"abort_publish", "abort_join"} =>
                       tpc[t] \in {"abort_cancel", "abort_publish"}
                 /\ target'[t] = target[t] /\ caught'[t] = caught[t]
<1>1. \/ \E from \in ApiLocations \ {"idle"} :
            Reply(t, from) /\ (from = "start_remember" => StartRemember(t))
      \/ Continue(t, "close_reset", "idle")
      \/ \E from \in ApiLocations \ {"idle", "close_reset"},
            to \in ApiLocations
                    \ {"idle", "close_reset", "start_remember", "abort_cancel"} :
            /\ Continue(t, from, to)
            /\ to \in {"abort_publish", "abort_join"} =>
                  from \in {"abort_cancel", "abort_publish"}
            /\ from = "start_remember" => StartRemember(t)
  BY DEF ApiStep, StartRemember, StartPublish, UnlockStore, ExecuteUnlock,
     ExecuteLaunch,
     RunReturns, AbortCancel, AbortPublish, AbortJoined, AbortGivesUp, AbortLookup,
     ForceAbort, ForceRead, ForceSnapshot, ForceEvent, ForceClose, CloseReset,
     ApiLocations
<1>2. QED
  BY <1>1 DEF Reply, Continue, Api, Inv, TypeOK

\* The steps of API threads and a restart start and end workers.
LEMMA OthersMove ==
    ASSUME Inv, NEW t \in Threads, NewCall(t) \/ ApiStep(t)
    PROVE  /\ UNCHANGED <<wctx, verdict>>
           /\ \/ UNCHANGED <<wpc, thread>>
              \/ \E n \in Runs :
                    /\ ExecuteLaunch(t) /\ ~Alive(target[t], thread[target[t]])
                    /\ thread' = [thread EXCEPT ![target[t]] = n]
                    /\ wpc' = [wpc EXCEPT ![target[t]][n] = "start"]
              \/ \E s \in Sessions, n \in Runs :
                    RunHere(t, s) /\ wpc' = [wpc EXCEPT ![s][n] = "start"]
<1>1. CASE ExecuteLaunch(t)
  <2> DEFINE n == launched[target[t]] + 1
  <2>1. target[t] \in Sessions
    BY <1>1 DEF ExecuteLaunch, Reply, Api, Inv, Targeted
  <2>2. CASE Alive(target[t], thread[target[t]]) \/ n > MaxRuns
    BY <1>1, <2>2 DEF ExecuteLaunch
  <2>3. CASE ~(Alive(target[t], thread[target[t]]) \/ n > MaxRuns)
    <3>1. /\ thread' = [thread EXCEPT ![target[t]] = n]
          /\ wpc' = [wpc EXCEPT ![target[t]][n] = "start"]
          /\ UNCHANGED <<wctx, verdict>>
      BY <1>1, <2>3 DEF ExecuteLaunch
    <3>2. n \in Runs
      BY <2>1, <2>3 DEF Inv, TypeOK, Runs
    <3> HIDE DEF n
    <3>3. QED
      BY <1>1, <2>3, <3>1, <3>2
  <2>4. QED
    BY <2>2, <2>3
<1>2. ASSUME NEW s \in Sessions, RunHere(t, s)
      PROVE  /\ UNCHANGED <<wctx, verdict>>
             /\ \E n \in Runs : wpc' = [wpc EXCEPT ![s][n] = "start"]
  <2>1. launched[s] + 1 \in Runs
    BY <1>2 DEF RunHere, Inv, TypeOK, Runs
  <2>2. /\ UNCHANGED <<wctx, verdict>>
        /\ wpc' = [wpc EXCEPT ![s][launched[s] + 1] = "start"]
    BY <1>2 DEF RunHere
  <2>3. QED
    BY <2>1, <2>2
<1>3. CASE /\ ~ExecuteLaunch(t)
           /\ \A s \in Sessions : ~RunHere(t, s)
  BY <1>3 DEF NewCall, StartPrepare, UnlockCheck, ExecuteCheck, AbortCall, CloseCheck,
     ApiStep, StartRemember, StartPublish, UnlockStore, ExecuteUnlock,
     RunReturns, AbortCancel, AbortPublish, AbortJoined, AbortGivesUp, AbortLookup,
     ForceAbort, ForceRead, ForceSnapshot, ForceEvent, ForceClose, CloseReset,
     OnlyApi, workers, registry
<1>4. QED
  BY <1>1, <1>2, <1>3

\* Calls in progress keep what they are about, and sessions are started once.
LEMMA CallersStep == Inv /\ [Next]_vars => Unstarted' /\ Starting' /\ Targeted'
<1> SUFFICES ASSUME Inv, [Next]_vars PROVE Unstarted' /\ Starting' /\ Targeted'
  OBVIOUS
<1>1. \A x \in Sessions : doc'[x] = "absent" => doc[x] = "absent" /\ x \notin Live'
  BY AbsentStep
<1>2. ASSUME NEW s \in Sessions, NEW n \in Runs, WorkerStep(s, n)
      PROVE  Unstarted' /\ Starting' /\ Targeted'
  <2>1. /\ wpc[s][n] # "none"
        /\ \A x \in Sessions, m \in Runs : x # s \/ m # n => wpc'[x][m] = wpc[x][m]
        /\ UNCHANGED <<tpc, target, caught>>
    BY <1>2, WorkerMoves
  <2>2. Unstarted'
    BY <1>1, <2>1 DEF Unstarted, Inv
  <2>3. Starting'
    <3>1. \A t \in Threads : ~StartRemember(t)
      BY <1>2, <2>1 DEF StartRemember, Continue, Api, Inv, TypeOK
    <3>2. QED
      BY <2>1, <3>1, StartedStep DEF Starting, Targeted, Inv
  <2>4. Targeted'
    BY <2>1 DEF Targeted, Inv
  <2>5. QED
    BY <2>2, <2>3, <2>4
<1>3. ASSUME NEW t \in Threads, NewCall(t)
      PROVE  Unstarted' /\ Starting' /\ Targeted'
  <2> USE DEF Call, Continue, Api
  <2>1. /\ tpc[t] = "idle"
        /\ \A u \in Threads : u # t =>
              tpc'[u] = tpc[u] /\ target'[u] = target[u] /\ caught'[u] = caught[u]
        /\ doc' = doc /\ live' = live
    BY <1>3 DEF NewCall, StartPrepare, UnlockCheck, ExecuteCheck, RunHere, AbortCall,
       CloseCheck, OnlyApi, persisted, Inv, TypeOK
  <2>2. \/ \E s \in Sessions : StartPrepare(t, s)
        \/ \E s \in Sessions :
             /\ doc[s] # "absent" /\ target'[t] = s
             /\ tpc'[t] \notin {"idle", "close_reset", "start_remember", "abort_publish",
                                "abort_join"}
             /\ tpc'[t] = "abort_cancel" => caught'[t] \in Runs
        \/ tpc'[t] = "close_reset" /\ target'[t] = target[t]
    BY <1>3 DEF NewCall, UnlockCheck, ExecuteCheck, RunHere, AbortCall, CloseCheck,
       Inv, TypeOK, Unstarted, Alive
  <2>3. \A s \in Sessions : StartPrepare(t, s) =>
           /\ doc[s] = "absent" /\ tpc'[t] = "start_remember" /\ target'[t] = s
           /\ \A u \in Threads : target[u] # s
    BY DEF StartPrepare, Inv, TypeOK
  <2>4. \A x \in Sessions, n \in Runs : doc[x] = "absent" => wpc'[x][n] = "none"
    <3>1. ~ExecuteLaunch(t)
      BY <2>1 DEF ExecuteLaunch, Reply
    <3>2. \A s \in Sessions : RunHere(t, s) => doc[s] # "absent"
      BY DEF RunHere, Inv, Unstarted
    <3>3. QED
      <4>1. \A x \in Sessions, n \in Runs : doc[x] = "absent" => wpc[x][n] = "none"
        BY DEF Inv, Unstarted
      <4>2. ASSUME NEW s \in Sessions, NEW n \in Runs, RunHere(t, s),
                   wpc' = [wpc EXCEPT ![s][n] = "start"]
            PROVE  \A x \in Sessions, m \in Runs :
                      doc[x] = "absent" => wpc'[x][m] = wpc[x][m]
        BY <3>2, <4>2 DEF Inv, TypeOK
      <4>3. QED
        BY <1>3, <3>1, <4>1, <4>2, OthersMove
  <2>5. Unstarted'
    BY <1>1, <2>1, <2>2, <2>3, <2>4 DEF Unstarted, Inv
  <2>6. Starting'
    BY <2>1, <2>2, <2>3 DEF Starting, Unstarted, Targeted, Inv
  <2>7. Targeted'
    BY <2>1, <2>2, <2>3 DEF Targeted, Inv
  <2>8. QED
    BY <2>5, <2>6, <2>7
<1>4. ASSUME NEW t \in Threads, ApiStep(t)
      PROVE  Unstarted' /\ Starting' /\ Targeted'
  <2>1. \A x \in Sessions : doc'[x] = "absent" => target[t] # x
    <3>1. SUFFICES ASSUME NEW x \in Sessions, doc'[x] = "absent", target[t] = x
                   PROVE  FALSE
      OBVIOUS
    <3>2. StartRemember(t)
      BY <1>1, <1>4, <3>1, ApiMoves DEF Unstarted, Inv
    <3>3. doc'[x] = InitialStatus
      BY <3>1, <3>2 DEF StartRemember, Inv, TypeOK
    <3>4. QED
      BY <3>1, <3>3 DEF InitialStatus
  <2>2. \A x \in Sessions, n \in Runs : doc'[x] = "absent" => wpc'[x][n] = "none"
    <3>1. \A s \in Sessions : ~RunHere(t, s)
      BY <1>4, ApiMoves DEF RunHere, Api
    <3>2. \A x \in Sessions, n \in Runs : doc'[x] = "absent" => wpc[x][n] = "none"
      BY <1>1 DEF Unstarted, Inv
    <3>3. CASE wpc' = wpc
      BY <3>2, <3>3
    <3>4. ASSUME NEW n \in Runs, ExecuteLaunch(t),
                 wpc' = [wpc EXCEPT ![target[t]][n] = "start"]
          PROVE  \A x \in Sessions, m \in Runs :
                    doc'[x] = "absent" => wpc'[x][m] = wpc[x][m]
      BY <2>1, <3>4 DEF Inv, TypeOK
    <3>5. QED
      BY <1>4, <3>1, <3>2, <3>3, <3>4, OthersMove
  <2>3. \A u \in Threads, x \in Sessions :
            doc'[x] = "absent" /\ target'[u] = x => u # t
    BY <1>4, <2>1, ApiMoves, NoSessionAssumption
  <2>4. \A u \in Threads : u # t =>
            tpc'[u] = tpc[u] /\ target'[u] = target[u]
    BY <1>4, ApiMoves
  <2>5. Unstarted'
    BY <1>1, <2>2, <2>3, <2>4 DEF Unstarted, Inv
  <2>6. Starting'
    <3>1. SUFFICES ASSUME NEW u \in Threads, tpc'[u] = "start_remember"
                   PROVE  /\ doc'[target'[u]] = "absent"
                          /\ \A q \in Threads : target'[q] = target'[u] => q = u
      BY DEF Starting
    <3>2. /\ u # t /\ tpc[u] = "start_remember" /\ target'[u] = target[u]
          /\ target[u] \in Sessions /\ target[t] # target[u]
      BY <1>4, <2>4, <3>1, ApiMoves DEF Starting, Targeted, Inv
    <3>3. doc'[target[u]] = "absent"
      <4>1. ~StartRemember(u)
        BY <3>1 DEF StartRemember, Continue, Api, Inv, TypeOK
      <4>2. doc[target[u]] = "absent" /\ \A q \in Threads : target[q] = target[u] => q = u
        BY <3>2 DEF Starting, Inv
      <4>3. QED
        BY <3>2, <4>1, <4>2, StartedStep
    <3>4. target'[t] # target[u]
      BY <1>4, <3>2, ApiMoves, NoSessionAssumption
    <3>5. QED
      BY <2>4, <3>2, <3>3, <3>4 DEF Starting, Inv
  <2>7. Targeted'
    BY <1>4, ApiMoves DEF Targeted, Inv
  <2>8. QED
    BY <2>5, <2>6, <2>7
<1>5. CASE Restart
  BY <1>1, <1>5 DEF Restart, Unstarted, Starting, Targeted, Inv
<1>6. CASE UNCHANGED vars
  BY <1>6 DEF vars, Unstarted, Starting, Targeted, Inv, Live
<1>7. QED
  BY <1>2, <1>3, <1>4, <1>5, <1>6 DEF Next

\* Workers go on deciding what they record and publish.
LEMMA DecidingStep == Inv /\ [Next]_vars => Deciding'
<1> SUFFICES ASSUME Inv, [Next]_vars PROVE Deciding'
  OBVIOUS
<1> DEFINE D(s, n) ==
      /\ wpc[s][n] \in {"dispatch", "node", "update", "close_context"} =>
            wctx[s][n] \in Contexts
      /\ wpc[s][n] = "close_context" => verdict[s][n] # "none"
      /\ wpc[s][n] \in {"merge", "publish_snapshot", "publish_event"} =>
            verdict[s][n] \in Outcomes
<1>1. ASSUME NEW s \in Sessions, NEW n \in Runs, WorkerStep(s, n) PROVE Deciding'
  <2>1. \A x \in Sessions, m \in Runs : x # s \/ m # n =>
           /\ wpc'[x][m] = wpc[x][m]
           /\ wctx'[x][m] = wctx[x][m]
           /\ verdict'[x][m] = verdict[x][m]
    <3>1. \/ wctx' = wctx
          \/ \E c : wctx' = [wctx EXCEPT ![s][n] = c]
      BY <1>1 DEF WorkerStep, WorkerStart, WorkerPlan, WorkerLoad, WorkerDispatch,
         WorkerNode, WorkerUpdate, WorkerCloseContext, WorkerMerge,
         WorkerReadOutcome, WorkerFinalize, WorkerReadFailure, ReadBack,
         WorkerPublishSnapshot, WorkerPublishEvent, WorkerCleanup, WorkerCloseStream
    <3>2. \/ verdict' = verdict
          \/ \E v : verdict' = [verdict EXCEPT ![s][n] = v]
      BY <1>1 DEF WorkerStep, WorkerStart, WorkerPlan, WorkerLoad, WorkerDispatch,
         WorkerNode, WorkerUpdate, Decide, WorkerCloseContext, WorkerMerge,
         WorkerReadOutcome, WorkerFinalize, WorkerReadFailure, ReadBack,
         WorkerPublishSnapshot, WorkerPublishEvent, WorkerCleanup, WorkerCloseStream
    <3>3. QED
      BY <1>1, <3>1, <3>2, WorkerMoves DEF Inv, TypeOK
  <2>2. /\ wctx[s][n] \in Contexts \cup {NoRun}
        /\ verdict[s][n] \in {"none", "raised"} \cup Outcomes
        /\ context[s] \in Contexts \cup {NoRun}
        /\ doc[s] \in Documents
    BY DEF Inv, TypeOK
  <2>3. D(s, n)'
    <3> USE DEF Worker, Outcomes
    <3>1. CASE WorkerLoad(s, n)
      <4>1. IF context[s] = NoRun THEN MaxRuns + n \in Contexts ELSE context[s] \in Contexts
        BY <2>2 DEF Contexts, Runs
      <4>2. wpc'[s][n] = "dispatch" => wctx'[s][n] \in Contexts
        BY <3>1, <4>1 DEF WorkerLoad, Inv, TypeOK
      <4>3. wpc'[s][n] \in {"dispatch", "finalize"}
        BY <3>1 DEF WorkerLoad, Inv, TypeOK
      <4>4. QED
        BY <4>2, <4>3
    <3>2. CASE WorkerDispatch(s, n)
      BY <3>2 DEF WorkerDispatch, Inv, TypeOK, Deciding
    <3>3. CASE WorkerNode(s, n) \/ WorkerUpdate(s, n)
      <4>1. wctx'[s][n] = wctx[s][n] /\ wctx[s][n] \in Contexts
        BY <3>3 DEF WorkerNode, WorkerUpdate, Decide, Inv, Deciding
      <4>2. \/ wpc'[s][n] \in {"update", "dispatch"}
            \/ wpc'[s][n] = "close_context" /\ verdict'[s][n] # "none"
        BY <3>3 DEF WorkerNode, WorkerUpdate, Decide, Inv, TypeOK
      <4>3. QED
        BY <4>1, <4>2
    <3>4. CASE WorkerCloseContext(s, n)
      BY <2>2, <3>4 DEF WorkerCloseContext, Inv, TypeOK, Deciding
    <3>5. CASE WorkerReadOutcome(s, n) \/ WorkerReadFailure(s, n)
      <4>1. s \in Live => doc[s] \in Outcomes
        BY <3>5 DEF WorkerReadOutcome, WorkerReadFailure, ReadBack, Inv, Recorded, Done,
           HasEnded
      <4>2. \/ s \notin Live /\ wpc'[s][n] \in {"finalize", "cleanup"}
            \/ s \in Live /\ wpc'[s][n] = "publish_snapshot" /\ verdict'[s][n] = doc[s]
        BY <3>5 DEF WorkerReadOutcome, WorkerReadFailure, ReadBack, Inv, TypeOK
      <4>3. QED
        BY <4>1, <4>2
    <3>6. CASE WorkerPublishSnapshot(s, n)
      BY <3>6 DEF WorkerPublishSnapshot, Inv, TypeOK, Deciding
    <3>7. CASE \/ WorkerStart(s, n) \/ WorkerPlan(s, n) \/ WorkerMerge(s, n)
               \/ WorkerFinalize(s, n) \/ WorkerPublishEvent(s, n)
               \/ WorkerCleanup(s, n) \/ WorkerCloseStream(s, n)
      <4>1. wpc'[s][n] \in {"plan", "ended", "load", "finalize", "read_outcome",
                            "read_failure", "cleanup", "close_stream"}
        BY <3>7 DEF WorkerStart, WorkerPlan, WorkerMerge, WorkerFinalize,
           WorkerPublishEvent, WorkerCleanup, WorkerCloseStream, Inv, TypeOK
      <4>2. QED
        BY <4>1
    <3>8. QED
      BY <1>1, <3>1, <3>2, <3>3, <3>4, <3>5, <3>6, <3>7 DEF WorkerStep
  <2>4. QED
    BY <2>1, <2>3 DEF Deciding, Inv
<1>2. ASSUME NEW t \in Threads, NewCall(t) \/ ApiStep(t) PROVE Deciding'
  <2>1. \A s \in Sessions, n \in Runs :
            wpc'[s][n] = wpc[s][n] \/ wpc'[s][n] = "start"
    <3>1. ASSUME NEW n \in Runs, wpc' = [wpc EXCEPT ![target[t]][n] = "start"]
          PROVE  \A s \in Sessions, m \in Runs :
                    wpc'[s][m] = wpc[s][m] \/ wpc'[s][m] = "start"
      BY <3>1 DEF Inv, TypeOK
    <3>2. ASSUME NEW x \in Sessions, NEW n \in Runs, wpc' = [wpc EXCEPT ![x][n] = "start"]
          PROVE  \A s \in Sessions, m \in Runs :
                    wpc'[s][m] = wpc[s][m] \/ wpc'[s][m] = "start"
      BY <3>2 DEF Inv, TypeOK
    <3>3. QED
      BY <1>2, <3>1, <3>2, OthersMove
  <2>2. UNCHANGED <<wctx, verdict>>
    BY <1>2, OthersMove
  <2>3. QED
    BY <2>1, <2>2 DEF Deciding, Inv
<1>3. CASE Restart
  BY <1>3 DEF Restart, Deciding
<1>4. CASE UNCHANGED vars
  BY <1>4 DEF vars, Deciding, Inv
<1>5. QED
  BY <1>1, <1>2, <1>3, <1>4 DEF Next

\* A worker past the recording of its outcome finds one.
LEMMA RecordedStep == Inv /\ [Next]_vars => Recorded'
<1> SUFFICES ASSUME Inv, [Next]_vars, NEW s \in Sessions, NEW n \in Runs,
                    wpc'[s][n] \in {"read_outcome", "read_failure", "publish_snapshot",
                                    "publish_event", "cleanup"}
             PROVE  Done(s)'
  BY DEF Recorded
<1>1. ASSUME wpc[s][n] # "none", Done(s) PROVE Done(s)'
  BY <1>1, OutcomeStep DEF Inv, Unstarted
<1>2. CASE wpc'[s][n] = wpc[s][n]
  BY <1>1, <1>2 DEF Inv, Recorded
<1>3. CASE WorkerStep(s, n)
  <2> USE DEF Worker, Inv, TypeOK
  <2>1. CASE WorkerMerge(s, n)
    <3>1. verdict[s][n] \in Outcomes
      BY <2>1 DEF WorkerMerge, Deciding
    <3>2. QED
      BY <2>1, <3>1 DEF WorkerMerge, MergeOutcome, HasEnded, Outcomes, Done, persisted
  <2>2. CASE WorkerFinalize(s, n)
    BY <2>2 DEF WorkerFinalize, HasEnded, Outcomes, Done, Live, persisted
  <2>3. CASE WorkerReadOutcome(s, n) \/ WorkerReadFailure(s, n)
    BY <1>1, <2>3 DEF WorkerReadOutcome, WorkerReadFailure, ReadBack, Recorded
  <2>4. CASE WorkerPublishSnapshot(s, n) \/ WorkerPublishEvent(s, n)
    BY <1>1, <2>4 DEF WorkerPublishSnapshot, WorkerPublishEvent, Recorded
  <2>5. CASE \/ WorkerStart(s, n) \/ WorkerPlan(s, n) \/ WorkerLoad(s, n)
             \/ WorkerDispatch(s, n) \/ WorkerNode(s, n) \/ WorkerUpdate(s, n)
             \/ WorkerCloseContext(s, n) \/ WorkerCleanup(s, n) \/ WorkerCloseStream(s, n)
    <3>1. wpc'[s][n] \notin {"read_outcome", "read_failure", "publish_snapshot",
                             "publish_event", "cleanup"}
      BY <2>5 DEF WorkerStart, WorkerPlan, WorkerLoad, WorkerDispatch, WorkerNode,
         WorkerUpdate, Decide, WorkerCloseContext, WorkerCleanup, WorkerCloseStream
    <3>2. QED
      BY <3>1
  <2>6. QED
    BY <1>3, <2>1, <2>2, <2>3, <2>4, <2>5 DEF WorkerStep
<1>4. ASSUME NEW x \in Sessions, NEW m \in Runs, WorkerStep(x, m), x # s \/ m # n
      PROVE  wpc'[s][n] = wpc[s][n]
  BY <1>4, WorkerMoves
<1>5. ASSUME NEW t \in Threads, NewCall(t) \/ ApiStep(t) PROVE wpc'[s][n] = wpc[s][n]
  <2>1. ASSUME NEW x, NEW m \in Runs, wpc' = [wpc EXCEPT ![x][m] = "start"]
        PROVE  wpc'[s][n] = wpc[s][n] \/ wpc'[s][n] = "start"
    BY <2>1 DEF Inv, TypeOK
  <2>2. QED
    BY <1>5, <2>1, OthersMove
<1>6. CASE Restart
  BY <1>6 DEF Restart
<1>7. CASE UNCHANGED vars
  BY <1>2, <1>7 DEF vars
<1>8. QED
  BY <1>2, <1>3, <1>4, <1>5, <1>6, <1>7 DEF Next

-----------------------------------------------------------------------------
(* The invariant and what follows from it.                                 *)

\* The invariant holds at the start...
LEMMA InvInit == Init => Inv
  BY DEF Init, Inv, TypeOK, NamedOnce, Once, Named, Unstarted, Starting, Targeted,
     Deciding, Recorded, Live, Documents, Visible, WorkerLocations, ApiLocations

\* ...and each step keeps it.
LEMMA InvStep == Inv /\ [Next]_vars => Inv'
  BY TypeStep, NamedOnceStep, CallersStep, DecidingStep, RecordedStep DEF Inv

\* So it always holds.
LEMMA Invariance == Spec => []Inv
  BY InvInit, InvStep, PTL DEF Spec

\* Every variable keeps its type.
THEOREM TypeCorrect == Spec => []TypeOK
<1>1. Inv => TypeOK
  BY DEF Inv
<1>2. QED
  BY <1>1, Invariance, PTL

\* An outcome is final: an aborted session stays aborted while its document is
\* kept, however late its worker comes with another outcome, and a session that
\* ended is never active again.
THEOREM EndsAreFinal == Spec => EndingsAreFinal
<1>1. Inv /\ [Next]_vars =>
        [\A s \in Sessions :
            s \in Live /\ doc[s] = "aborted" /\ s \in Live' => doc'[s] = "aborted"]_vars
  BY OutcomeStep
<1>2. Inv /\ [Next]_vars =>
        [\A s \in Sessions : s \in Live /\ HasEnded(s) => doc'[s] \in Outcomes]_vars
  BY OutcomeStep DEF HasEnded
<1>3. QED
  BY <1>1, <1>2, Invariance, PTL DEF Spec, EndingsAreFinal, AbortedStays, NeverActiveAgain

\* The run history and the documents agree.
THEOREM HistoryIsTrue == Spec => []HistoryAgrees
<1>1. Init => HistoryAgrees
  BY DEF Init, HistoryAgrees
<1>2. QED
  BY <1>1, HistoryStep, Invariance, PTL DEF Spec

-----------------------------------------------------------------------------
(* Executions in worker threads only: a calling thread that executes a     *)
(* session itself is not registered, and none of the following holds.      *)

\* A worker is registered from its launch until its cleanup.
Registered ==
    \A s \in Sessions, n \in Runs :
        wpc[s][n] \in Executing \cup {"start"} => thread[s] = n

\* Each step keeps workers registered: a cleanup meets its own registration,
\* and a launch no other worker.
LEMMA RegisteredStep ==
    ASSUME "run" \notin Calls
    PROVE  Inv /\ Registered /\ [Next]_vars => Registered'
<1> SUFFICES ASSUME Inv, Registered, [Next]_vars, NEW s \in Sessions, NEW n \in Runs,
                    wpc'[s][n] \in Executing \cup {"start"}
             PROVE  thread'[s] = n
  BY DEF Registered
<1>1. CASE wpc'[s][n] = wpc[s][n] /\ thread'[s] = thread[s]
  BY <1>1 DEF Registered
<1>2. ASSUME NEW x \in Sessions, NEW m \in Runs, WorkerStep(x, m) PROVE thread'[s] = n
  <2>1. wpc[s][n] \in Executing \cup {"start"}
    <3>1. CASE x # s \/ m # n
      BY <1>2, <3>1, WorkerMoves
    <3>2. CASE x = s /\ m = n
      <4>1. wpc[s][n] \notin {"none", "ended"} /\ wpc[s][n] \in WorkerLocations
        BY <1>2, <3>2, WorkerMoves DEF Inv, TypeOK
      <4>2. ~WorkerCloseStream(s, n)
        BY DEF WorkerCloseStream, Worker, Inv, TypeOK, Executing
      <4>3. wpc[s][n] # "close_stream"
        BY <1>2, <3>2, <4>2 DEF WorkerStep, WorkerStart, WorkerPlan, WorkerLoad,
           WorkerDispatch, WorkerNode, WorkerUpdate, Decide, WorkerCloseContext,
           WorkerMerge, WorkerReadOutcome, WorkerFinalize, WorkerReadFailure, ReadBack,
           WorkerPublishSnapshot, WorkerPublishEvent, WorkerCleanup, Worker
      <4>4. QED
        BY <4>1, <4>3 DEF WorkerLocations
    <3>3. QED
      BY <3>1, <3>2
  <2>2. thread[s] = n
    BY <2>1 DEF Registered
  <2>3. CASE WorkerCleanup(x, m)
    <3>1. /\ wpc[x][m] = "cleanup" /\ thread' = [thread EXCEPT ![x] = NoRun]
          /\ wpc'[x][m] = "close_stream"
      BY <2>3 DEF WorkerCleanup, Worker, Inv, TypeOK
    <3>2. thread[x] = m
      BY <3>1 DEF Registered, Executing
    <3>3. x # s
      BY <2>2, <3>1, <3>2 DEF Executing
    <3>4. QED
      BY <2>2, <3>1, <3>3 DEF Inv, TypeOK
  <2>4. CASE ~WorkerCleanup(x, m)
    BY <1>2, <2>2, <2>4 DEF WorkerStep, WorkerStart, WorkerPlan, WorkerLoad,
       WorkerDispatch, WorkerNode, WorkerUpdate, WorkerCloseContext, WorkerMerge,
       WorkerReadOutcome, WorkerFinalize, WorkerReadFailure, ReadBack,
       WorkerPublishSnapshot, WorkerPublishEvent, WorkerCloseStream, registry
  <2>5. QED
    BY <2>3, <2>4
<1>3. ASSUME NEW t \in Threads, NewCall(t) \/ ApiStep(t) PROVE thread'[s] = n
  <2>1. \A x \in Sessions : ~RunHere(t, x)
    BY DEF RunHere
  <2>2. ASSUME NEW k \in Runs, ExecuteLaunch(t), ~Alive(target[t], thread[target[t]]),
               thread' = [thread EXCEPT ![target[t]] = k],
               wpc' = [wpc EXCEPT ![target[t]][k] = "start"]
        PROVE  thread'[s] = n
    <3>1. CASE target[t] = s
      <4>1. CASE n = k
        BY <2>2, <3>1, <4>1 DEF Inv, TypeOK
      <4>2. CASE n # k
        <5>1. wpc[s][n] \in Executing \cup {"start"}
          BY <2>2, <3>1, <4>2 DEF Inv, TypeOK
        <5>2. thread[s] = n
          BY <5>1 DEF Registered
        <5>3. Alive(s, n)
          BY <5>1 DEF Alive, Executing, Runs, NoRun
        <5>4. QED
          BY <2>2, <3>1, <5>2, <5>3
      <4>3. QED
        BY <4>1, <4>2
    <3>2. CASE target[t] # s
      BY <1>1, <2>2, <3>2 DEF Inv, TypeOK
    <3>3. QED
      BY <3>1, <3>2
  <2>3. CASE UNCHANGED <<wpc, thread>>
    BY <1>1, <2>3
  <2>4. QED
    BY <1>3, <2>1, <2>2, <2>3, OthersMove
<1>4. CASE Restart
  BY <1>4 DEF Restart, Executing
<1>5. CASE UNCHANGED vars
  BY <1>1, <1>5 DEF vars
<1>6. QED
  BY <1>2, <1>3, <1>4, <1>5 DEF Next

\* With executions in worker threads only, at most one executes a session.
THEOREM OneWorker ==
    ASSUME "run" \notin Calls PROVE Spec => []OneWorkerPerSession
<1>1. Init => Registered
  BY DEF Init, Registered, Executing
<1>2. Registered => OneWorkerPerSession
  BY DEF Registered, OneWorkerPerSession
<1>3. QED
  BY <1>1, <1>2, RegisteredStep, Invariance, PTL DEF Spec

\* Who may execute a session has its parameters, or will find it has ended.
UnlockedFirst ==
    /\ \A t \in Threads : tpc[t] = "execute_launch" =>
          Done(target[t]) \/ target[t] \in unlocked
    /\ \A s \in Sessions, n \in Runs :
          /\ wpc[s][n] = "start" => Done(s) \/ s \in unlocked
          /\ wpc[s][n] \in {"plan", "load", "dispatch", "node", "update"} => s \in unlocked

\* The parameters of a session are dropped by a worker that is done with it
\* and by a restart.
LEMMA UnlockedStep ==
    Inv /\ [Next]_vars =>
        \A x \in Sessions : x \in unlocked =>
            \/ x \in unlocked'
            \/ \E m \in Runs : WorkerCleanup(x, m)
            \/ Restart
<1> SUFFICES ASSUME Inv, [Next]_vars, NEW x \in Sessions, x \in unlocked, x \notin unlocked'
             PROVE  (\E m \in Runs : WorkerCleanup(x, m)) \/ Restart
  OBVIOUS
<1>1. ASSUME NEW s \in Sessions, NEW n \in Runs, WorkerStep(s, n) PROVE WorkerCleanup(x, n)
  BY <1>1 DEF WorkerStep, WorkerStart, WorkerPlan, WorkerLoad, WorkerDispatch,
     WorkerNode, WorkerUpdate, WorkerCloseContext, WorkerMerge, WorkerReadOutcome,
     WorkerFinalize, WorkerReadFailure, ReadBack, WorkerPublishSnapshot,
     WorkerPublishEvent, WorkerCleanup, WorkerCloseStream, registry
<1>2. ASSUME NEW t \in Threads, NewCall(t) \/ ApiStep(t) PROVE FALSE
  BY <1>2 DEF NewCall, StartPrepare, UnlockCheck, ExecuteCheck, RunHere, AbortCall,
     CloseCheck, ApiStep, StartRemember, StartPublish, UnlockStore, ExecuteUnlock,
     ExecuteLaunch, RunReturns, AbortCancel, AbortPublish, AbortJoined, AbortGivesUp,
     AbortLookup, ForceAbort, ForceRead, ForceSnapshot, ForceEvent, ForceClose,
     CloseReset, OnlyApi, registry
<1>3. CASE UNCHANGED vars
  BY <1>3 DEF vars
<1>4. QED
  BY <1>1, <1>2, <1>3 DEF Next

\* Each step keeps executions behind the unlocking.
LEMMA UnlockedFirstStep ==
    ASSUME Encrypted
    PROVE  Inv /\ Registered /\ UnlockedFirst /\ [Next]_vars => UnlockedFirst'
<1> SUFFICES ASSUME Inv, Registered, UnlockedFirst, [Next]_vars PROVE UnlockedFirst'
  OBVIOUS
<1>1. CASE Restart
  BY <1>1 DEF Restart, UnlockedFirst
<1>2. ASSUME ~Restart, NEW x \in Sessions, doc[x] # "absent", Done(x) \/ x \in unlocked
      PROVE  Done(x)' \/ x \in unlocked'
  <2>1. ASSUME NEW m \in Runs, WorkerCleanup(x, m) PROVE Done(x)
    BY <2>1 DEF WorkerCleanup, Worker, Inv, Recorded
  <2>2. QED
    BY <1>2, <2>1, UnlockedStep, OutcomeStep
<1>3. ASSUME ~Restart, NEW t \in Threads, tpc'[t] = "execute_launch"
      PROVE  Done(target[t])' \/ target'[t] \in unlocked'
  <2>1. CASE tpc'[t] = tpc[t] /\ target'[t] = target[t]
    <3>1. /\ target[t] \in Sessions /\ doc[target[t]] # "absent"
          /\ Done(target[t]) \/ target[t] \in unlocked
      BY <1>3, <2>1 DEF Inv, Targeted, Unstarted, UnlockedFirst
    <3>2. Done(target[t])' <=> target[t] \notin Live' \/ doc'[target[t]] \in Outcomes
      BY <2>1 DEF Done, HasEnded
    <3>3. QED
      BY <1>2, <1>3, <2>1, <3>1, <3>2 DEF Done, HasEnded
  <2>2. ASSUME NEW s \in Sessions, NEW n \in Runs, WorkerStep(s, n)
        PROVE  tpc'[t] = tpc[t] /\ target'[t] = target[t]
    BY <2>2, WorkerMoves
  <2>3. ASSUME NEW u \in Threads, NewCall(u)
        PROVE  tpc'[t] = tpc[t] /\ target'[t] = target[t]
    BY <1>3, <2>3 DEF NewCall, StartPrepare, UnlockCheck, ExecuteCheck, RunHere,
       AbortCall,
       CloseCheck, Call, Continue, Api, Inv, TypeOK
  <2>4. ASSUME NEW u \in Threads, ApiStep(u), u # t
        PROVE  tpc'[t] = tpc[t] /\ target'[t] = target[t]
    BY <2>4, ApiMoves
  <2>5. ASSUME ApiStep(t) PROVE Done(target[t])' \/ target'[t] \in unlocked'
    <3>1. ExecuteUnlock(t)
      BY <1>3, <2>5 DEF ApiStep, StartRemember, StartPublish, UnlockStore,
         ExecuteLaunch,
         RunReturns, AbortCancel, AbortPublish, AbortJoined, AbortGivesUp, AbortLookup,
         ForceAbort, ForceRead, ForceSnapshot, ForceEvent, ForceClose, CloseReset,
         Reply, Continue, Api, Inv, TypeOK
    <3>2. /\ ~NeedsUnlock(target[t]) /\ target'[t] = target[t]
          /\ UNCHANGED <<doc, unlocked>>
      BY <1>3, <3>1 DEF ExecuteUnlock, Reply, Continue, Api, OnlyApi, persisted,
         registry,
         Inv, TypeOK
    <3>3. QED
      BY <3>2 DEF NeedsUnlock, Done, HasEnded
  <2>6. CASE UNCHANGED vars
    BY <2>1, <2>6 DEF vars
  <2>7. QED
    BY <1>3, <2>1, <2>2, <2>3, <2>4, <2>5, <2>6 DEF Next
<1>4. ASSUME ~Restart, NEW s \in Sessions, NEW n \in Runs, wpc'[s][n] = "start"
      PROVE  Done(s)' \/ s \in unlocked'
  <2>1. CASE wpc[s][n] = "start"
    BY <1>2, <1>4, <2>1 DEF Inv, Unstarted, UnlockedFirst
  <2>2. ASSUME NEW t \in Threads, ExecuteLaunch(t), target[t] = s
        PROVE  Done(s)' \/ s \in unlocked'
    <3>1. tpc[t] = "execute_launch"
      BY <2>2 DEF ExecuteLaunch, Reply, Api
    <3>2. doc[s] # "absent" /\ (Done(s) \/ s \in unlocked)
      BY <2>2, <3>1 DEF Inv, Unstarted, UnlockedFirst
    <3>3. QED
      BY <1>2, <1>4, <3>2
  <2>3. ASSUME NEW t \in Threads, RunHere(t, s) PROVE Done(s)' \/ s \in unlocked'
    BY <2>3 DEF RunHere, NeedsUnlock, Done, HasEnded, persisted, registry
  <2>4. ASSUME NEW x \in Sessions, NEW m \in Runs, WorkerStep(x, m)
        PROVE  wpc[s][n] = "start"
    BY <1>4, <2>4, WorkerMoves
  <2>5. ASSUME NEW t \in Threads, NewCall(t) \/ ApiStep(t)
        PROVE  Done(s)' \/ s \in unlocked'
    <3>1. CASE wpc' = wpc
      BY <1>4, <2>1, <3>1
    <3>2. ASSUME NEW m \in Runs, ExecuteLaunch(t),
                 wpc' = [wpc EXCEPT ![target[t]][m] = "start"]
          PROVE  Done(s)' \/ s \in unlocked'
      <4>1. target[t] = s \/ wpc'[s][n] = wpc[s][n]
        BY <3>2 DEF Inv, TypeOK
      <4>2. QED
        BY <1>4, <2>1, <2>2, <3>2, <4>1
    <3>3. ASSUME NEW x \in Sessions, NEW m \in Runs, RunHere(t, x),
                 wpc' = [wpc EXCEPT ![x][m] = "start"]
          PROVE  Done(s)' \/ s \in unlocked'
      <4>1. x = s \/ wpc'[s][n] = wpc[s][n]
        BY <3>3 DEF Inv, TypeOK
      <4>2. QED
        BY <1>4, <2>1, <2>3, <3>3, <4>1
    <3>4. QED
      BY <2>5, <3>1, <3>2, <3>3, OthersMove
  <2>6. CASE UNCHANGED vars
    BY <1>4, <2>1, <2>6 DEF vars
  <2>7. QED
    BY <1>4, <2>1, <2>4, <2>5, <2>6 DEF Next
<1>5. ASSUME ~Restart, NEW s \in Sessions, NEW n \in Runs,
             wpc'[s][n] \in {"plan", "load", "dispatch", "node", "update"}
      PROVE  s \in unlocked'
  <2> DEFINE before == {"plan", "load", "dispatch", "node", "update"}
  <2>1. \/ wpc[s][n] \in before
        \/ WorkerStart(s, n) /\ wpc'[s][n] = "plan"
    <3>1. CASE wpc'[s][n] = wpc[s][n]
      BY <1>5, <3>1
    <3>2. ASSUME WorkerStep(s, n), ~WorkerStart(s, n) PROVE wpc[s][n] \in before
      BY <1>5, <3>2 DEF WorkerStep, WorkerPlan, WorkerLoad, WorkerDispatch, WorkerNode,
         WorkerUpdate, Decide, WorkerCloseContext, WorkerMerge, WorkerReadOutcome,
         WorkerFinalize, WorkerReadFailure, ReadBack, WorkerPublishSnapshot,
         WorkerPublishEvent, WorkerCleanup, WorkerCloseStream, Worker, Inv, TypeOK
    <3>3. WorkerStart(s, n) => wpc'[s][n] = "plan"
      BY <1>5 DEF WorkerStart, Worker, Inv, TypeOK
    <3>4. ASSUME NEW x \in Sessions, NEW m \in Runs, WorkerStep(x, m), x # s \/ m # n
          PROVE  wpc'[s][n] = wpc[s][n]
      BY <3>4, WorkerMoves
    <3>5. ASSUME NEW t \in Threads, NewCall(t) \/ ApiStep(t) PROVE wpc'[s][n] = wpc[s][n]
      <4>1. ASSUME NEW x, NEW m \in Runs, wpc' = [wpc EXCEPT ![x][m] = "start"]
            PROVE  wpc'[s][n] = wpc[s][n] \/ wpc'[s][n] = "start"
        BY <4>1 DEF Inv, TypeOK
      <4>2. QED
        BY <1>5, <3>5, <4>1, OthersMove
    <3>6. CASE UNCHANGED vars
      BY <3>1, <3>6 DEF vars
    <3>7. QED
      BY <1>5, <3>1, <3>2, <3>3, <3>4, <3>5, <3>6 DEF Next
  <2>2. s \in unlocked
    <3>1. CASE wpc[s][n] \in before
      BY <3>1 DEF UnlockedFirst
    <3>2. CASE WorkerStart(s, n) /\ wpc'[s][n] = "plan"
      <4>1. wpc[s][n] = "start" /\ s \in Live /\ ~HasEnded(s)
        BY <3>2 DEF WorkerStart, Worker, Inv, TypeOK
      <4>2. QED
        BY <4>1 DEF UnlockedFirst, Done
    <3>3. QED
      BY <2>1, <3>1, <3>2
  <2>3. ASSUME NEW m \in Runs, WorkerCleanup(s, m) PROVE FALSE
    <3>1. wpc[s][m] = "cleanup" /\ wpc'[s][m] = "close_stream"
      BY <2>3 DEF WorkerCleanup, Worker, Inv, TypeOK
    <3>2. wpc[s][n] \in Executing \cup {"start"}
      BY <2>1 DEF WorkerStart, Worker, Executing
    <3>3. m = n
      BY <3>1, <3>2 DEF Registered, Executing
    <3>4. QED
      BY <1>5, <3>1, <3>3
  <2>4. QED
    BY <1>5, <2>2, <2>3, UnlockedStep
<1>6. QED
  BY <1>1, <1>3, <1>4, <1>5 DEF UnlockedFirst

\* With executions in worker threads only, the nodes of a project with
\* encrypted parameters run after these were unlocked, and while they are.
THEOREM RunsUnlocked ==
    ASSUME "run" \notin Calls PROVE Spec => []NodesRunUnlocked
<1>1. CASE Encrypted
  <2>1. Init => Registered /\ UnlockedFirst
    BY DEF Init, Registered, UnlockedFirst, Executing
  <2>2. UnlockedFirst => NodesRunUnlocked
    BY DEF UnlockedFirst, NodesRunUnlocked
  <2>3. Inv /\ Registered /\ UnlockedFirst /\ [Next]_vars => UnlockedFirst'
    BY <1>1, UnlockedFirstStep
  <2>4. QED
    BY <2>1, <2>2, <2>3, RegisteredStep, Invariance, PTL DEF Spec
<1>2. CASE ~Encrypted
  <2>1. NodesRunUnlocked
    BY <1>2 DEF NodesRunUnlocked
  <2>2. QED
    BY <2>1, PTL
<1>3. QED
  BY <1>1, <1>2

-----------------------------------------------------------------------------
(* The end of a stream.                                                    *)

Forcing == {"force_read", "force_snapshot", "force_event", "force_close"}

\* Somebody has published what there is to publish and will close the stream.
Ending(s) ==
    \/ s \in closed
    \/ \E n \in Runs : wpc[s][n] \in {"cleanup", "close_stream"}
    \/ \E t \in Threads : target[t] = s /\ tpc[t] = "force_close"

\* A worker that holds a copy of the session's document, and will bring it
\* back when it was dropped.
Carrying(s) == \E n \in Runs :
    wpc[s][n] \in {"dispatch", "node", "update", "close_context", "merge"}

\* Who is about to close a stream has found the session ended or dropped; and
\* when nothing was announced, it was dropped for good.
EndingKnown ==
    /\ \A t \in Threads : tpc[t] \in Forcing => Done(target[t])
    /\ \A s \in Sessions : Ending(s) => doc[s] # "absent" /\ Done(s)

SilentGone ==
    \A s \in Sessions : Ending(s) /\ announced[s] = {} => s \notin Live /\ ~Carrying(s)

\* A step of one thread or worker leaves the stages of the others alone.
LEMMA WorkerStages ==
    ASSUME Inv, NEW s \in Sessions, NEW n \in Runs, WorkerStep(s, n)
    PROVE  /\ WorkerCloseStream(s, n) => closed' = closed \cup {s}
           /\ ~WorkerCloseStream(s, n) => closed' = closed
           /\ wpc'[s][n] = "close_stream" => wpc[s][n] = "cleanup"
           /\ wpc[s][n] = "close_stream" => WorkerCloseStream(s, n)
           /\ WorkerCloseStream(s, n) => wpc[s][n] = "close_stream"
           /\ wpc'[s][n] = "cleanup" =>
                 \/ WorkerPublishEvent(s, n)
                 \/ s \notin Live /\ announced' = announced /\ live' = live
                    /\ wpc[s][n] \in {"finalize", "read_failure"}
  BY DEF WorkerStep, WorkerStart, WorkerPlan, WorkerLoad, WorkerDispatch, WorkerNode,
     WorkerUpdate, Decide, WorkerCloseContext, WorkerMerge, WorkerReadOutcome,
     WorkerFinalize, WorkerReadFailure, ReadBack, WorkerPublishSnapshot,
     WorkerPublishEvent, WorkerCleanup, WorkerCloseStream, Worker, Inv, TypeOK, stream,
     persisted

LEMMA ApiStages ==
    ASSUME Inv, NEW t \in Threads, NewCall(t) \/ ApiStep(t)
    PROVE  /\ ForceClose(t) => closed' = closed \cup {target[t]} /\ tpc[t] = "force_close"
           /\ ~ForceClose(t) => closed' = closed
           /\ tpc'[t] = "force_close" => ForceEvent(t)
           /\ tpc'[t] \in Forcing => tpc[t] \in Forcing \/ ForceAbort(t)
           /\ tpc'[t] \in Forcing => target'[t] = target[t]
           /\ \A u \in Threads : u # t => tpc'[u] = tpc[u] /\ target'[u] = target[u]
  BY DEF NewCall, StartPrepare, UnlockCheck, ExecuteCheck, RunHere, AbortCall,
     CloseCheck, Call, ApiStep, StartRemember, StartPublish, UnlockStore, ExecuteUnlock,
     ExecuteLaunch, RunReturns, AbortCancel, AbortPublish, AbortJoined, AbortGivesUp,
     AbortLookup, ForceAbort, ForceRead, ForceSnapshot, ForceEvent, ForceClose, CloseReset,
     OnlyApi, Continue, Reply, Api, stream, Forcing, Inv, TypeOK

\* What was announced stays announced.
LEMMA AnnouncedGrows ==
    ASSUME Inv, [Next]_vars, ~Restart, NEW x \in Sessions
    PROVE  announced[x] # {} => announced'[x] # {}
<1>1. ASSUME NEW s \in Sessions, NEW st, PublishOutcome(s, st)
      PROVE  announced[x] # {} => announced'[x] # {}
  BY <1>1 DEF PublishOutcome, Inv, TypeOK
<1>2. ASSUME NEW s \in Sessions, NEW n \in Runs, WorkerStep(s, n)
      PROVE  announced' = announced \/ \E st : PublishOutcome(s, st)
  BY <1>2 DEF WorkerStep, WorkerStart, WorkerPlan, WorkerLoad,
     WorkerDispatch, WorkerNode, WorkerUpdate, WorkerCloseContext, WorkerMerge,
     WorkerReadOutcome, WorkerFinalize, WorkerReadFailure, ReadBack,
     WorkerPublishSnapshot, WorkerPublishEvent, WorkerCleanup, WorkerCloseStream, stream
<1>3. ASSUME NEW t \in Threads, NewCall(t) \/ ApiStep(t)
      PROVE  announced' = announced \/ \E st : PublishOutcome(target[t], st) /\ ForceEvent(t)
  BY <1>3 DEF NewCall, StartPrepare, UnlockCheck, ExecuteCheck, RunHere, AbortCall,
     CloseCheck, ApiStep, StartRemember, StartPublish, UnlockStore, ExecuteUnlock,
     ExecuteLaunch, RunReturns, AbortCancel, AbortPublish, AbortJoined, AbortGivesUp,
     AbortLookup, ForceAbort, ForceRead, ForceSnapshot, ForceEvent, ForceClose, CloseReset,
     OnlyApi, stream
<1>4. ASSUME NEW t \in Threads, ForceEvent(t) PROVE target[t] \in Sessions
  BY <1>4 DEF ForceEvent, Continue, Api, Inv, Targeted
<1>5. QED
  BY <1>1, <1>2, <1>3, <1>4 DEF Next, vars

\* After a restart no stream is about to end.
LEMMA RestartEndsNothing ==
    ASSUME Restart
    PROVE  /\ \A s \in Sessions : ~Ending(s)'
           /\ \A t \in Threads : tpc'[t] = "idle"
<1>1. closed' = {} /\ \A t \in Threads : tpc'[t] = "idle"
  BY DEF Restart
<1>2. \A s \in Sessions, n \in Runs : wpc'[s][n] \in {"none", "ended"}
  BY DEF Restart
<1>3. QED
  BY <1>1, <1>2 DEF Ending

\* A stream begins to end after an announcement, or when its session is gone.
LEMMA EndingBegins ==
    ASSUME Inv, [Next]_vars, NEW x \in Sessions, Ending(x)', ~Ending(x)
    PROVE  \/ announced'[x] # {}
           \/ x \notin Live /\ x \notin Live'
              /\ \E n \in Runs : /\ wpc[x][n] \in {"finalize", "read_failure"}
                                 /\ wpc'[x][n] = "cleanup" /\ WorkerStep(x, n)
<1>1. ~Restart
  BY RestartEndsNothing
<1>2. ASSUME NEW s \in Sessions, NEW n \in Runs, WorkerStep(s, n)
      PROVE  \/ announced'[x] # {}
             \/ x \notin Live /\ x \notin Live'
                /\ \E m \in Runs : /\ wpc[x][m] \in {"finalize", "read_failure"}
                                   /\ wpc'[x][m] = "cleanup" /\ WorkerStep(x, m)
  <2>1. x \notin closed'
    BY <1>2, WorkerStages DEF Ending
  <2>2. tpc' = tpc /\ target' = target
    BY <1>2, WorkerMoves
  <2>3. PICK m \in Runs : wpc'[x][m] \in {"cleanup", "close_stream"}
    BY <2>1, <2>2 DEF Ending
  <2>4. wpc[x][m] \notin {"cleanup", "close_stream"} /\ x \notin closed
    BY DEF Ending
  <2>5. s = x /\ n = m
    BY <1>2, <2>3, <2>4, WorkerMoves
  <2>6. wpc'[x][m] = "cleanup"
    BY <1>2, <2>3, <2>4, <2>5, WorkerStages
  <2>7. ASSUME WorkerPublishEvent(x, m) PROVE announced'[x] # {}
    BY <2>4, <2>7 DEF WorkerPublishEvent, PublishOutcome, Inv, TypeOK
  <2>8. ASSUME live' = live, x \notin Live PROVE x \notin Live'
    BY <2>8 DEF Live
  <2>9. QED
    BY <1>2, <2>5, <2>6, <2>7, <2>8, WorkerStages
<1>3. ASSUME NEW t \in Threads, NewCall(t) \/ ApiStep(t) PROVE announced'[x] # {}
  <2>1. \A n \in Runs : wpc'[x][n] \notin {"cleanup", "close_stream"}
    <3>1. ASSUME NEW s, NEW m \in Runs, wpc' = [wpc EXCEPT ![s][m] = "start"], NEW n \in Runs
          PROVE  wpc'[x][n] = wpc[x][n] \/ wpc'[x][n] = "start"
      BY <3>1 DEF Inv, TypeOK
    <3>2. QED
      BY <1>3, <3>1, OthersMove DEF Ending
  <2>2. x \notin closed'
    BY <1>3, ApiStages DEF Ending
  <2>3. PICK u \in Threads : target'[u] = x /\ tpc'[u] = "force_close"
    BY <2>1, <2>2 DEF Ending
  <2>4. u = t
    BY <1>3, <2>3, ApiStages DEF Ending
  <2>5. ForceEvent(t) /\ target[t] = x /\ x \notin closed
    BY <1>3, <2>3, <2>4, ApiStages DEF Forcing, Ending
  <2>6. QED
    BY <2>5 DEF ForceEvent, PublishOutcome, Inv, TypeOK
<1>4. CASE UNCHANGED vars
  BY <1>4 DEF vars, Ending
<1>5. QED
  BY <1>1, <1>2, <1>3, <1>4 DEF Next

\* A worker takes up a document only while it is kept.
LEMMA CarryingBegins ==
    ASSUME Inv, [Next]_vars, NEW x \in Sessions, Carrying(x)', ~Carrying(x)
    PROVE  x \in Live
<1> DEFINE Stages == {"dispatch", "node", "update", "close_context", "merge"}
<1>1. PICK n \in Runs : wpc'[x][n] \in Stages /\ wpc[x][n] \notin Stages
  BY DEF Carrying
<1>2. ASSUME NEW s \in Sessions, NEW m \in Runs, WorkerStep(s, m) PROVE x \in Live
  <2>1. s = x /\ m = n
    BY <1>1, <1>2, WorkerMoves
  <2>2. QED
    BY <1>1, <1>2, <2>1 DEF WorkerStep, WorkerStart, WorkerPlan, WorkerLoad,
       WorkerDispatch, WorkerNode, WorkerUpdate, Decide, WorkerCloseContext, WorkerMerge,
       WorkerReadOutcome, WorkerFinalize, WorkerReadFailure, ReadBack,
       WorkerPublishSnapshot, WorkerPublishEvent, WorkerCleanup, WorkerCloseStream, Worker,
       Inv, TypeOK
<1>3. ASSUME NEW t \in Threads, NewCall(t) \/ ApiStep(t) PROVE FALSE
  <2>1. ASSUME NEW s, NEW m \in Runs, wpc' = [wpc EXCEPT ![s][m] = "start"]
        PROVE  wpc'[x][n] = wpc[x][n] \/ wpc'[x][n] = "start"
    BY <2>1 DEF Inv, TypeOK
  <2>2. QED
    BY <1>1, <1>3, <2>1, OthersMove
<1>4. ~Restart
  BY <1>1 DEF Restart
<1>5. ~UNCHANGED vars
  BY <1>1 DEF vars
<1>6. QED
  BY <1>2, <1>3, <1>4, <1>5 DEF Next

\* A dropped session comes back by its worker, or was never started before.
LEMMA ReturnsByMerge ==
    ASSUME Inv, [Next]_vars, NEW x \in Sessions, x \in Live', x \notin Live
    PROVE  Carrying(x) \/ doc[x] = "absent"
<1>1. ASSUME NEW s \in Sessions, live' = Remembered(s) PROVE x = s
  BY <1>1, LiveRemembered
<1>2. ASSUME live' = live \/ live' = <<>> PROVE FALSE
  BY <1>2 DEF Live
<1>3. ASSUME NEW s \in Sessions, NEW n \in Runs, WorkerStep(s, n) PROVE Carrying(x)
  <2>1. CASE WorkerMerge(s, n)
    BY <1>1, <1>2, <2>1 DEF WorkerMerge, Worker, MergeOutcome, persisted, Carrying
  <2>2. CASE ~WorkerMerge(s, n)
    BY <1>2, <1>3, <2>2 DEF WorkerStep, WorkerStart, WorkerPlan, WorkerLoad,
       WorkerDispatch, WorkerNode, WorkerUpdate, WorkerCloseContext, WorkerReadOutcome,
       WorkerFinalize, WorkerReadFailure, ReadBack, WorkerPublishSnapshot,
       WorkerPublishEvent, WorkerCleanup, WorkerCloseStream, persisted
  <2>3. QED
    BY <2>1, <2>2
<1>4. ASSUME NEW t \in Threads, StartRemember(t) PROVE doc[x] = "absent"
  <2>1. target[t] \in Sessions /\ doc[target[t]] = "absent" /\ live' = Remembered(target[t])
    BY <1>4 DEF StartRemember, Continue, Api, Inv, Targeted, Starting
  <2>2. QED
    BY <1>1, <2>1
<1>5. ASSUME NEW t \in Threads, NewCall(t) \/ ApiStep(t), ~StartRemember(t) PROVE FALSE
  BY <1>2, <1>5 DEF NewCall, StartPrepare, UnlockCheck, ExecuteCheck, RunHere, AbortCall,
     CloseCheck, ApiStep, StartPublish, UnlockStore, ExecuteUnlock,
     ExecuteLaunch, RunReturns, AbortCancel, AbortPublish, AbortJoined, AbortGivesUp,
     AbortLookup, ForceAbort, ForceRead, ForceSnapshot, ForceEvent, ForceClose, CloseReset,
     OnlyApi, persisted
<1>6. QED
  BY <1>2, <1>3, <1>4, <1>5 DEF Next, vars, Restart

\* A stream begins to end at a cleanup or when an abort comes to close it.
LEMMA EndingHow ==
    ASSUME Inv, [Next]_vars, NEW x \in Sessions, Ending(x)', ~Ending(x)
    PROVE  \/ \E n \in Runs : wpc'[x][n] = "cleanup"
           \/ \E t \in Threads : target'[t] = x /\ tpc'[t] = "force_close"
<1>1. x \notin closed' /\ \A n \in Runs : wpc'[x][n] # "close_stream"
  <2>1. ASSUME NEW s \in Sessions, NEW n \in Runs, WorkerStep(s, n)
        PROVE  x \notin closed' /\ \A m \in Runs : wpc'[x][m] # "close_stream"
    BY <2>1, WorkerStages, WorkerMoves DEF Ending
  <2>2. ASSUME NEW t \in Threads, NewCall(t) \/ ApiStep(t)
        PROVE  x \notin closed' /\ \A m \in Runs : wpc'[x][m] # "close_stream"
    <3>1. ASSUME NEW s, NEW n \in Runs, wpc' = [wpc EXCEPT ![s][n] = "start"], NEW m \in Runs
          PROVE  wpc'[x][m] = wpc[x][m] \/ wpc'[x][m] = "start"
      BY <3>1 DEF Inv, TypeOK
    <3>2. \A m \in Runs : wpc'[x][m] # "close_stream"
      BY <2>2, <3>1, OthersMove DEF Ending
    <3>3. x \notin closed'
      BY <2>2, ApiStages DEF Ending
    <3>4. QED
      BY <3>2, <3>3
  <2>3. ~Restart
    BY RestartEndsNothing
  <2>4. ~UNCHANGED vars
    BY DEF vars, Ending
  <2>5. QED
    BY <2>1, <2>2, <2>3, <2>4 DEF Next
<1>2. QED
  BY <1>1 DEF Ending

LEMMA EndingKnownStep == Inv /\ EndingKnown /\ [Next]_vars => EndingKnown'
<1> SUFFICES ASSUME Inv, EndingKnown, [Next]_vars PROVE EndingKnown'
  OBVIOUS
<1>0. Inv'
  BY InvStep
<1>1. ASSUME NEW x \in Sessions, doc[x] # "absent", Done(x) PROVE doc'[x] # "absent" /\ Done(x)'
  BY <1>1, AbsentStep, OutcomeStep
<1>2. ASSUME NEW t \in Threads, tpc'[t] \in Forcing
      PROVE  target'[t] \in Sessions /\ doc'[target'[t]] # "absent" /\ Done(target[t])'
  <2>1. target'[t] \in Sessions /\ doc'[target'[t]] # "absent"
    BY <1>0, <1>2 DEF Inv, Targeted, Unstarted, Forcing
  <2>2. CASE tpc[t] \in Forcing /\ target'[t] = target[t]
    <3>1. target[t] \in Sessions /\ doc[target[t]] # "absent" /\ Done(target[t])
      BY <2>2 DEF Inv, Targeted, Unstarted, Forcing, EndingKnown
    <3>2. target[t] \notin Live' \/ doc'[target[t]] \in Outcomes
      BY <1>1, <3>1 DEF Done, HasEnded
    <3>3. QED
      BY <2>1, <2>2, <3>2 DEF Done, HasEnded
  <2>3. CASE ForceAbort(t) /\ target'[t] = target[t]
    <3>1. target[t] \in Sessions /\ tpc[t] = "force"
      BY <2>1, <2>3 DEF ForceAbort, Continue, Reply, Api
    <3>2. target[t] \in Live
      BY <1>2, <2>3, <3>1 DEF ForceAbort, Reply, Api, Forcing, Inv, TypeOK
    <3>3. doc'[target[t]] = "aborted"
      BY <2>3, <3>1, <3>2 DEF ForceAbort, Inv, TypeOK
    <3>4. QED
      BY <2>1, <2>3, <3>3 DEF Done, HasEnded, Outcomes
  <2>4. ASSUME NEW s \in Sessions, NEW n \in Runs, WorkerStep(s, n)
        PROVE  tpc[t] \in Forcing /\ target'[t] = target[t]
    BY <1>2, <2>4, WorkerMoves
  <2>5. ASSUME NEW u \in Threads, NewCall(u) \/ ApiStep(u)
        PROVE  (tpc[t] \in Forcing \/ ForceAbort(t)) /\ target'[t] = target[t]
    <3>1. CASE u = t
      BY <1>2, <2>5, <3>1, ApiStages
    <3>2. CASE u # t
      BY <1>2, <2>5, <3>2, ApiStages
    <3>3. QED
      BY <3>1, <3>2
  <2>6. ~Restart
    BY <1>2, RestartEndsNothing DEF Forcing
  <2>7. QED
    BY <1>2, <2>1, <2>2, <2>3, <2>4, <2>5, <2>6 DEF Next, vars
<1>3. ASSUME NEW x \in Sessions, Ending(x)' PROVE doc'[x] # "absent" /\ Done(x)'
  <2>1. CASE Ending(x)
    BY <1>1, <2>1 DEF EndingKnown
  <2>2. ASSUME NEW n \in Runs, wpc'[x][n] = "cleanup" PROVE doc'[x] # "absent" /\ Done(x)'
    BY <1>0, <2>2 DEF Inv, Unstarted, Recorded
  <2>3. ASSUME NEW t \in Threads, target'[t] = x, tpc'[t] = "force_close"
        PROVE  doc'[x] # "absent" /\ Done(x)'
    <3>1. doc'[target'[t]] # "absent" /\ Done(target[t])'
      BY <1>2, <2>3 DEF Forcing
    <3>2. QED
      BY <2>3, <3>1 DEF Done, HasEnded
  <2>4. QED
    BY <1>3, <2>1, <2>2, <2>3, EndingHow
<1>4. QED
  BY <1>2, <1>3 DEF EndingKnown

LEMMA SilentGoneStep ==
    ASSUME "run" \notin Calls
    PROVE  Inv /\ Registered /\ EndingKnown /\ SilentGone /\ [Next]_vars => SilentGone'
<1> SUFFICES ASSUME Inv, Registered, EndingKnown, SilentGone, [Next]_vars,
                    NEW x \in Sessions, Ending(x)', announced'[x] = {}
             PROVE  x \notin Live' /\ ~Carrying(x)'
  BY DEF SilentGone
<1>1. ~Restart
  BY RestartEndsNothing
<1>2. CASE Ending(x)
  <2>1. x \notin Live /\ ~Carrying(x)
    BY <1>1, <1>2, AnnouncedGrows DEF SilentGone
  <2>2. doc[x] # "absent"
    BY <1>2 DEF EndingKnown
  <2>3. QED
    BY <2>1, <2>2, ReturnsByMerge, CarryingBegins
<1>3. CASE ~Ending(x)
  <2>1. x \notin Live /\ x \notin Live'
    BY <1>3, EndingBegins
  <2>2. PICK n \in Runs : /\ wpc[x][n] \in {"finalize", "read_failure"}
                          /\ wpc'[x][n] = "cleanup" /\ WorkerStep(x, n)
    BY <1>3, EndingBegins
  <2>3. ASSUME NEW m \in Runs,
               wpc'[x][m] \in {"dispatch", "node", "update", "close_context", "merge"}
        PROVE  FALSE
    <3>1. m # n
      BY <2>2, <2>3
    <3>2. wpc[x][m] = wpc'[x][m]
      BY <2>2, <3>1, WorkerMoves
    <3>3. thread[x] = m /\ thread[x] = n
      BY <2>2, <2>3, <3>2 DEF Registered, Executing
    <3>4. QED
      BY <3>1, <3>3
  <2>4. QED
    BY <2>1, <2>3 DEF Carrying
<1>4. QED
  BY <1>2, <1>3

\* With executions in worker threads only, a stream is ended only when the
\* outcome of its session is recorded and was announced on it, as long as the
\* session's document is kept: the finalisation that announces nothing found
\* the document dropped, and nobody is left who could bring it back.
THEOREM StreamsEndTold ==
    ASSUME "run" \notin Calls PROVE Spec => []StreamEndsWithOutcome
<1>1. Init => Registered /\ EndingKnown /\ SilentGone
  BY DEF Init, Registered, Executing, EndingKnown, SilentGone, Ending, Forcing
<1>2. Inv /\ EndingKnown /\ SilentGone => StreamEndsWithOutcome
  <2>1. SUFFICES ASSUME Inv, EndingKnown, SilentGone,
                        NEW s \in Sessions, s \in closed, s \in Live
                 PROVE  HasEnded(s) /\ announced[s] # {}
    BY DEF StreamEndsWithOutcome, Inv, TypeOK
  <2>2. Ending(s)
    BY <2>1 DEF Ending
  <2>3. QED
    BY <2>1, <2>2 DEF EndingKnown, SilentGone, Done
<1>3. QED
  BY <1>1, <1>2, RegisteredStep, EndingKnownStep, SilentGoneStep, Invariance, PTL DEF Spec
=============================================================================
