------------------------ MODULE FlowSchedulerProofs ------------------------
(***************************************************************************)
(* Proofs about FlowScheduler, for any flows and bounds: the types, the    *)
(* order of nodes (FlowOrder), the agreement of outcomes, and that flows   *)
(* without loops run every node at most once, straight ones exactly once.  *)
(*                                                                         *)
(* The order is: facts about flows, the shapes of a step, then one         *)
(* invariant after the other, each from the shapes. Last come the          *)
(* components of a project together, from what is proved of each.          *)
(***************************************************************************)
EXTENDS MCProject, DocumentsProofs, ProjectProofs, FiniteSetTheorems, TLAPS

-----------------------------------------------------------------------------
(* Numbers.                                                                 *)

\* A set of numbers that is not empty has a least member: the intervals up to
\* them are finite sets, of which one contains no other.
LEMMA LeastNumber ==
    ASSUME NEW S \in SUBSET Nat, S # {}
    PROVE  \E m \in S : \A k \in S : m <= k
<1> DEFINE upTo == {1 .. k : k \in S}
<1>1. upTo \subseteq FiniteSubsetsOf(Nat) /\ upTo # {}
  <2>1. \A k \in S : 1 .. k \in FiniteSubsetsOf(Nat)
    <3>1. TAKE k \in S
    <3>2. IsFiniteSet(1 .. k)
      BY FS_Interval
    <3>3. QED
      BY <3>2 DEF FiniteSubsetsOf
  <2>2. QED
    BY <2>1
<1>2. PICK x \in upTo : \A y \in upTo : <<y, x>> \notin StrictSubsetOrdering(Nat)
  BY <1>1, FS_StrictSubsetOrderingWellFounded, WFMin
<1>3. PICK m \in S : x = 1 .. m
  OBVIOUS
<1>4. ASSUME NEW k \in S, k < m
      PROVE  FALSE
  <2>1. 1 .. k \in upTo
    OBVIOUS
  <2>2. 1 .. k \subseteq 1 .. m /\ 1 .. k # 1 .. m
    <3>1. m \in 1 .. m /\ m \notin 1 .. k
      BY <1>4
    <3>2. QED
      BY <1>4, <3>1
  <2>3. 1 .. k \in SUBSET Nat /\ 1 .. m \in SUBSET Nat
    OBVIOUS
  <2>4. <<1 .. k, x>> \in StrictSubsetOrdering(Nat)
    BY <1>3, <2>2, <2>3 DEF StrictSubsetOrdering
  <2>5. QED
    BY <1>2, <2>1, <2>4
<1>5. QED
  BY <1>4

\* What is in a sequence.
LEMMA SeqIs ==
    ASSUME NEW T, NEW s \in Seq(T)
    PROVE  /\ Len(s) \in Nat
           /\ DOMAIN s = 1 .. Len(s)
           /\ \A i \in 1 .. Len(s) : s[i] \in T
  OBVIOUS

\* A sequence with one entry changed.
LEMMA SeqUpdate ==
    ASSUME NEW T, NEW s \in Seq(T), NEW k \in 1 .. Len(s), NEW v \in T
    PROVE  /\ [s EXCEPT ![k] = v] \in Seq(T)
           /\ Len([s EXCEPT ![k] = v]) = Len(s)
           /\ \A i \in 1 .. Len(s) :
                 [s EXCEPT ![k] = v][i] = IF i = k THEN v ELSE s[i]
  OBVIOUS

-----------------------------------------------------------------------------
(* Facts about flows.                                                       *)

\* What an edge leads to, and through which ports.
EdgeSet(f) == [port : STRING, to : Nodes(f), at : STRING]

LEMMA FlowTyped ==
    ASSUME NEW f \in Flows, NEW n \in Nodes(f)
    PROVE  /\ FlowType(f)
           /\ f.out[n] \in Seq(EdgeSet(f))
           /\ Len(f.out[n]) \in Nat
           /\ DOMAIN f.out[n] = 1 .. Len(f.out[n])
           /\ \A i \in 1 .. Len(f.out[n]) : f.out[n][i] \in EdgeSet(f)
<1>1. FlowType(f)
  BY FlowsAssumption
<1>2. f.out[n] \in Seq(EdgeSet(f))
  BY <1>1 DEF FlowType, EdgeSet
<1>3. QED
  BY <1>1, <1>2, SeqIs

\* The k-th edge of a node leads to a node and enters it.
LEMMA EdgeFacts ==
    ASSUME NEW f \in Flows, NEW n \in Nodes(f), NEW i \in DOMAIN f.out[n]
    PROVE  /\ EdgeOf(f, <<n, i>>).to \in Nodes(f)
           /\ <<n, i>> \in Edges(f)
           /\ <<n, i>> \in Into(f, EdgeOf(f, <<n, i>>).to)
<1>1. f.out[n][i] \in EdgeSet(f)
  BY FlowTyped
<1>2. f.out[n][i].to \in Nodes(f)
  BY <1>1 DEF EdgeSet
<1>3. <<n, i>> \in Edges(f)
  BY DEF Edges
<1>4. QED
  BY <1>2, <1>3 DEF EdgeOf, Into

\* An edge is named by a node and a position.
LEMMA EdgeIs ==
    ASSUME NEW f, NEW e \in Edges(f)
    PROVE  e = <<e[1], e[2]>> /\ e[1] \in Nodes(f) /\ e[2] \in DOMAIN f.out[e[1]]
  BY DEF Edges

\* A foreach's body and exit are nodes, if there are any.
LEMMA LoopTargets ==
    ASSUME NEW f \in Flows, NEW n \in Nodes(f)
    PROVE  /\ LoopBody(f, n) \in Nodes(f) \cup {NoNode}
           /\ LoopExit(f, n) \in Nodes(f) \cup {NoNode}
<1>1. \A i \in 1 .. Len(f.out[n]) : f.out[n][i].to \in Nodes(f)
  BY FlowTyped, EdgeFacts DEF EdgeOf
<1>2. Len(f.out[n]) \in Nat
  BY FlowTyped
<1>3. QED
  BY <1>1, <1>2 DEF LoopBody, LoopExit

\* The successor that is found is reached by an edge.
LEMMA FirstOutIs ==
    ASSUME NEW f \in Flows, NEW n \in Nodes(f), NEW X,
           FirstOut(f, n, X) # NoNode
    PROVE  \E i \in DOMAIN f.out[n] : FirstOut(f, n, X) = EdgeOf(f, <<n, i>>).to
<1> DEFINE good == {i \in DOMAIN f.out[n] : f.out[n][i].to \notin X}
<1>1. good \subseteq Nat /\ good # {}
  <2>1. DOMAIN f.out[n] = 1 .. Len(f.out[n])
    BY FlowTyped
  <2>2. good \subseteq Nat
    BY <2>1
  <2>3. good # {}
    BY Zenon DEF FirstOut
  <2>4. QED
    BY <2>2, <2>3
<1>2. \E i \in good : \A j \in good : i <= j
  BY <1>1, LeastNumber
<1>3. PICK i : i \in good /\ FirstOut(f, n, X) = f.out[n][i].to
  BY <1>1, <1>2 DEF FirstOut
<1>4. QED
  BY <1>3 DEF EdgeOf

LEMMA FirstOutTyped ==
    ASSUME NEW f \in Flows, NEW n \in Nodes(f), NEW X
    PROVE  FirstOut(f, n, X) \in Nodes(f) \cup {NoNode}
<1>1. CASE FirstOut(f, n, X) # NoNode
  <2>1. PICK i \in DOMAIN f.out[n] : FirstOut(f, n, X) = EdgeOf(f, <<n, i>>).to
    BY <1>1, FirstOutIs
  <2>2. QED
    BY <2>1, EdgeFacts
<1>2. QED
  BY <1>1

-----------------------------------------------------------------------------
(* The shapes of a step.  TypeOK in parts, by what changes together.        *)

Scalars ==
    /\ flow \in Flows
    /\ phase \in Phases
    /\ attempts \in [Nodes(flow) -> Nat]
    /\ steps \in 0..MaxSteps
    /\ status \in [Nodes(flow) -> Statuses]
    /\ session \in {"running", "completed", "failed", "aborted"}
    /\ reason \in {"none", "node", "limit", "cycle", "no_body", "no_target"}
    /\ cancelled \in BOOLEAN
    /\ runs \in [Nodes(flow) -> 0..2]

Tokens ==
    /\ cur \in Token \cup {[node |-> NoNode, again |-> FALSE]}
    /\ phase \notin {"dispatch", "end"} => cur.node \in Nodes(flow)
    /\ queue \in Seq(Token)
    /\ queued \subseteq Nodes(flow)
    /\ executed \subseteq Nodes(flow)

Waiting ==
    /\ DOMAIN arrived = Nodes(flow)
    /\ \A n \in Nodes(flow) :
          arrived[n] \subseteq {TokenOf(flow, e) : e \in Into(flow, n)}
    /\ route \in [port : Ports, again : BOOLEAN, next : Nat \ {0}]
    /\ DOMAIN chosen = Nodes(flow)
    /\ \A n \in Nodes(flow) : chosen[n] \subseteq Selectable(flow, n)

Loops ==
    /\ frames \in Seq(Frame)
    /\ phase \in {"loop", "body"} <=> frames # <<>> /\ phase # "end"

LEMMA TypeParts == TypeOK <=> Scalars /\ Tokens /\ Waiting /\ Loops
  BY DEF TypeOK, Scalars, Tokens, Waiting, Loops

\* The node an end marker names as the one behind its loop follows it.
AfterEnd(fr) ==
    fr.after = NoNode \/ \E e \in Into(flow, fr.after) : flow.kind[e[1]] = "end"

\* The activations are those of the foreach in hand.
LoopMemory ==
    /\ phase \in {"loop", "body"} =>
          /\ flow.kind[cur.node] = "foreach"
          /\ frames[1].node = cur.node
    /\ phase = "body" => Top.at # NoNode
    /\ \A i \in DOMAIN frames : AfterEnd(frames[i])

\* The run ends; what it remembers stays.
StopStep ==
    /\ phase # "end" /\ phase' = "end"
    /\ UNCHANGED <<flow, cur, queueing, executed, memory, cancelled, route,
                   frames, history>>

\* The node in hand is done and its edges are next.
SendStep ==
    /\ phase = "run"
    /\ \E p \in Selectable(flow, cur.node), again \in BOOLEAN :
          /\ Send(p, again)
          /\ flow.kind[cur.node] \notin {"while", "retry"} /\ again => cur.again
    /\ arrived' \in {arrived, [arrived EXCEPT ![cur.node] = {}]}
    /\ flow.kind[cur.node] # "while" => arrived' = arrived

\* A step within a loop's body.
WalkStep ==
    /\ phase \in {"loop", "body"} /\ phase' \in {"loop", "body"}
    /\ frames' \in Seq(Frame) /\ frames' # <<>>
    /\ frames'[1].node = frames[1].node
    /\ phase' = "body" => Top'.at # NoNode
    /\ \A i \in DOMAIN frames' : AfterEnd(frames'[i])
    /\ UNCHANGED <<flow, cur, queueing, executed, memory, cancelled, route, history>>

\* The outermost loop is left.
LeaveStep ==
    /\ phase \in {"loop", "body"} /\ phase' = "dispatch"
    /\ frames' = <<>>
    /\ chosen' = [chosen EXCEPT ![cur.node] = @ \cup {LoopLeft}]
    /\ LET next == Behind(frames[1])
       IN  IF next # NoNode THEN Enqueue(next, cur.again) ELSE UNCHANGED queueing
    /\ UNCHANGED <<flow, cur, executed, memory, cancelled, route, runs>>

\* Every step of the main loop that ends the run does nothing else.
LEMMA MainStops ==
    ASSUME Exhausted \/ LimitReached \/ ResourceMissing \/ NodeCancelled
             \/ NodeFails \/ JumpFails \/ ForeachHasNoBody
    PROVE  StopStep
<1>1. ASSUME Exhausted \/ LimitReached PROVE StopStep
  BY <1>1 DEF Exhausted, LimitReached, MayDispatch, EndAs, StopStep
<1>2. ASSUME ResourceMissing \/ NodeCancelled \/ NodeFails PROVE StopStep
  BY <1>2 DEF ResourceMissing, NodeCancelled, NodeFails, Running, EndAs, StopStep
<1>3. ASSUME JumpFails \/ ForeachHasNoBody PROVE StopStep
  BY <1>3 DEF JumpFails, ForeachHasNoBody, Completes, Running, EndAs, StopStep
<1>4. QED
  BY <1>1, <1>2, <1>3

\* The same of a loop's body.
LEMMA LoopStops ==
    ASSUME LoopCancelled \/ BodyLimitReached \/ BodyRevisit \/ BodyFails
             \/ BodyCancelled \/ BodyForeachHasNoBody
    PROVE  StopStep
<1>1. ASSUME LoopCancelled \/ BodyLimitReached \/ BodyRevisit PROVE StopStep
  BY <1>1 DEF LoopCancelled, BodyLimitReached, BodyRevisit, AtBodyNode, EndAs, StopStep
<1>2. ASSUME BodyFails \/ BodyCancelled \/ BodyForeachHasNoBody PROVE StopStep
  BY <1>2 DEF BodyFails, BodyCancelled, BodyForeachHasNoBody, EndAs, StopStep
<1>3. QED
  BY <1>1, <1>2

\* What the token in hand is.
LEMMA CurTyped ==
    ASSUME Tokens
    PROVE  /\ cur.again \in BOOLEAN
           /\ phase \notin {"dispatch", "end"} => cur \in Token /\ cur.node \in Nodes(flow)
<1>1. CASE cur \in Token
  BY <1>1 DEF Tokens, Token
<1>2. CASE cur = [node |-> NoNode, again |-> FALSE]
  <2>1. cur.node = NoNode /\ cur.again = FALSE
    BY <1>2
  <2>2. phase \notin {"dispatch", "end"} => cur \in Token
    <3>1. ASSUME cur.node \in Nodes(flow) PROVE cur \in Token
      <4>1. cur = [node |-> cur.node, again |-> cur.again]
        BY <1>2, <2>1
      <4>2. QED
        BY <2>1, <3>1, <4>1 DEF Token
    <3>2. QED
      BY <3>1 DEF Tokens
  <2>3. QED
    BY <2>1, <2>2 DEF Tokens
<1>3. QED
  BY <1>1, <1>2 DEF Tokens

\* Every node that goes on along its edges does it in the same way.
LEMMA NodeSends ==
    ASSUME Tokens, Waiting,
           PlainDone \/ AskDone \/ AssertDone \/ BranchDone \/ WhileDone
             \/ RetryDone \/ JumpSkipped
    PROVE  SendStep
<1>1. ASSUME PlainDone PROVE SendStep
  <2>1. AnyPort \in Selectable(flow, cur.node)
    BY <1>1 DEF PlainDone, Selectable
  <2>2. QED
    BY <1>1, <2>1, CurTyped DEF PlainDone, Completes, Running, SendStep, memory
<1>2. ASSUME AskDone PROVE SendStep
  BY <1>2, CurTyped DEF AskDone, Completes, Running, SendStep, Selectable, memory
<1>3. ASSUME AssertDone PROVE SendStep
  BY <1>3, CurTyped DEF AssertDone, Completes, Running, SendStep, Selectable, memory
<1>4. ASSUME BranchDone PROVE SendStep
  BY <1>4 DEF BranchDone, Completes, Running, SendStep, memory
<1>5. ASSUME WhileDone PROVE SendStep
  BY <1>5 DEF WhileDone, Completes, Running, SendStep, Selectable
<1>6. ASSUME RetryDone PROVE SendStep
  BY <1>6 DEF RetryDone, Completes, Running, SendStep, Selectable
<1>7. ASSUME JumpSkipped PROVE SendStep
  BY <1>7 DEF JumpSkipped, Completes, Running, SendStep, Selectable, memory
<1>8. QED
  BY <1>1, <1>2, <1>3, <1>4, <1>5, <1>6, <1>7

\* The activations, and the innermost of them.
LEMMA FramesAre ==
    ASSUME Loops
    PROVE  /\ Len(frames) \in Nat
           /\ DOMAIN frames = 1 .. Len(frames)
           /\ \A i \in 1 .. Len(frames) : frames[i] \in Frame
           /\ frames # <<>> => Len(frames) \in 1 .. Len(frames) /\ Top \in Frame
<1>1. frames \in Seq(Frame)
  BY DEF Loops
<1>2. QED
  BY <1>1, SeqIs DEF Top

LEMMA ReplaceTopIs ==
    ASSUME Loops, frames # <<>>, NEW fr \in Frame
    PROVE  /\ ReplaceTop(fr) \in Seq(Frame)
           /\ Len(ReplaceTop(fr)) = Len(frames)
           /\ \A i \in 1 .. Len(frames) :
                 ReplaceTop(fr)[i] = IF i = Len(frames) THEN fr ELSE frames[i]
  BY FramesAre DEF ReplaceTop, Loops

\* What an activation consists of.
LEMMA FrameIs ==
    ASSUME NEW fr
    PROVE  fr \in Frame <=>
             /\ fr = [node |-> fr.node, left |-> fr.left, at |-> fr.at,
                      seen |-> fr.seen, after |-> fr.after]
             /\ fr.node \in Nodes(flow) /\ fr.left \in 0 .. MaxItems
             /\ fr.at \in Nodes(flow) \cup {NoNode}
             /\ fr.seen \in SUBSET Nodes(flow)
             /\ fr.after \in Nodes(flow) \cup {NoNode}
  BY DEF Frame

\* The innermost activation changes, but not its foreach.
LEMMA WalkTop ==
    ASSUME Loops, LoopMemory, phase \in {"loop", "body"}, phase' \in {"loop", "body"},
           NEW fr \in Frame, fr.node = Top.node, AfterEnd(fr),
           frames' = ReplaceTop(fr), flow' = flow
    PROVE  /\ frames' \in Seq(Frame) /\ frames' # <<>>
           /\ frames'[1].node = frames[1].node
           /\ \A i \in DOMAIN frames' : AfterEnd(frames'[i])
<1>1. frames # <<>> /\ Len(frames) \in Nat \ {0}
  BY FramesAre DEF Loops
<1>2. frames' \in Seq(Frame) /\ Len(frames') = Len(frames)
  BY <1>1, ReplaceTopIs
<1>3. frames' # <<>> /\ DOMAIN frames' = 1 .. Len(frames)
  BY <1>1, <1>2, SeqIs
<1>4. \A i \in 1 .. Len(frames) :
         frames'[i] = IF i = Len(frames) THEN fr ELSE frames[i]
  BY <1>1, ReplaceTopIs
<1>5. frames'[1].node = frames[1].node
  BY <1>1, <1>4 DEF Top
<1>6. \A i \in DOMAIN frames' : AfterEnd(frames'[i])
  BY <1>1, <1>3, <1>4, FramesAre DEF LoopMemory
<1>7. QED
  BY <1>2, <1>3, <1>5, <1>6

\* Activations return; the innermost that is left goes on somewhere.
LEMMA WalkCut ==
    ASSUME Loops, LoopMemory, phase \in {"loop", "body"}, phase' \in {"loop", "body"},
           NEW k \in 1 .. Len(frames), NEW x \in Nodes(flow) \cup {NoNode},
           frames' = [SubSeq(frames, 1, k) EXCEPT ![k].at = x], flow' = flow
    PROVE  /\ frames' \in Seq(Frame) /\ frames' # <<>>
           /\ frames'[1].node = frames[1].node
           /\ \A i \in DOMAIN frames' : AfterEnd(frames'[i])
<1> DEFINE s == SubSeq(frames, 1, k)
           fr == [node |-> frames[k].node, left |-> frames[k].left, at |-> x,
                  seen |-> frames[k].seen, after |-> frames[k].after]
<1>1. /\ s \in Seq(Frame) /\ Len(s) = k
      /\ \A i \in 1 .. k : s[i] = frames[i]
  BY FramesAre DEF Loops
<1>2. fr \in Frame
  <2>1. frames[k] \in Frame
    BY FramesAre
  <2>2. QED
    BY <2>1, FrameIs DEF Frame
<1>3. [s[k] EXCEPT !.at = x] = fr
  <2>1. frames[k] \in Frame
    BY FramesAre
  <2>2. QED
    BY <1>1, <2>1 DEF Frame
<1> HIDE DEF s, fr
<1>4. frames' = [s EXCEPT ![k] = fr]
  BY <1>3 DEF s
<1>5. /\ frames' \in Seq(Frame) /\ Len(frames') = k
      /\ \A i \in 1 .. k : frames'[i] = IF i = k THEN fr ELSE s[i]
  <2>1. k \in 1 .. Len(s)
    BY <1>1, FramesAre
  <2>2. /\ frames' \in Seq(Frame)
        /\ Len(frames') = Len(s)
        /\ \A i \in 1 .. Len(s) : frames'[i] = IF i = k THEN fr ELSE s[i]
    <3>1. s \in Seq(Frame)
      BY <1>1
    <3>2. /\ [s EXCEPT ![k] = fr] \in Seq(Frame)
          /\ Len([s EXCEPT ![k] = fr]) = Len(s)
          /\ \A i \in 1 .. Len(s) :
                [s EXCEPT ![k] = fr][i] = IF i = k THEN fr ELSE s[i]
      BY <1>2, <2>1, <3>1, SeqUpdate
    <3>3. QED
      BY <1>4, <3>2
  <2>3. QED
    BY <1>1, <2>2
<1>6. k \in Nat \ {0} /\ frames' # <<>> /\ DOMAIN frames' = 1 .. k
  BY <1>5, FramesAre, SeqIs
<1>7. fr.node = frames[k].node /\ fr.after = frames[k].after
  BY DEF fr
<1>8. frames'[1].node = frames[1].node
  BY <1>1, <1>5, <1>6, <1>7
<1>9. \A i \in 1 .. k : AfterEnd(frames'[i])
  <2>1. \A i \in 1 .. k : i \in DOMAIN frames
    BY FramesAre
  <2>2. AfterEnd(frames[k])
    BY <1>6, <2>1 DEF LoopMemory
  <2>3. AfterEnd(fr)
    BY <1>7, <2>2 DEF AfterEnd
  <2>4. QED
    BY <1>1, <1>5, <2>1, <2>3 DEF LoopMemory
<1>10. QED
  BY <1>5, <1>6, <1>8, <1>9

\* Where a foreach goes on is a node, if it goes on.
LEMMA BehindTyped ==
    ASSUME flow \in Flows, NEW fr \in Frame
    PROVE  Behind(fr) \in Nodes(flow) \cup {NoNode}
<1>1. fr.node \in Nodes(flow) /\ fr.after \in Nodes(flow) \cup {NoNode}
  BY FrameIs
<1>2. QED
  BY <1>1, LoopTargets DEF Behind

\* Activations that return leave a loop to go on with, or the loops.
LEMMA Returns ==
    ASSUME flow \in Flows, Loops, LoopMemory, phase \in {"loop", "body"},
           NEW k \in 0 .. Len(frames) - 1, ReturnTo(k),
           UNCHANGED <<flow, cur, executed, memory, cancelled, route, runs>>
    PROVE  WalkStep \/ LeaveStep
<1>1. Len(frames) \in Nat /\ k \in Nat
  BY FramesAre
<1>2. CASE k > 0
  <2>1. k + 1 \in 1 .. Len(frames) /\ k \in 1 .. Len(frames)
    BY <1>1, <1>2
  <2>2. Behind(frames[k + 1]) \in Nodes(flow) \cup {NoNode}
    BY <2>1, FramesAre, BehindTyped
  <2>3. /\ frames' = [SubSeq(frames, 1, k) EXCEPT ![k].at = Behind(frames[k + 1])]
        /\ phase' = "loop" /\ UNCHANGED <<queueing, chosen>>
    BY <1>2 DEF ReturnTo
  <2>4. /\ frames' \in Seq(Frame) /\ frames' # <<>>
        /\ frames'[1].node = frames[1].node
        /\ \A i \in DOMAIN frames' : AfterEnd(frames'[i])
    BY <2>1, <2>2, <2>3, WalkCut
  <2>5. QED
    BY <2>3, <2>4 DEF WalkStep, history
<1>3. CASE k = 0
  <2>1. QED
    BY <1>3 DEF ReturnTo, LeaveStep
<1>4. QED
  BY <1>1, <1>2, <1>3

\* The next item of a loop, or the next node of an item.
LEMMA BodyWalks ==
    ASSUME Scalars, Loops, LoopMemory,
           NextItem \/ BodyStart \/ BodyGoesOn \/ BodyEnd
    PROVE  WalkStep
<1>1. /\ phase \in {"loop", "body"} /\ phase' \in {"loop", "body"}
      /\ UNCHANGED <<flow, cur, queueing, executed, memory, cancelled, route, history>>
  <2>1. CASE NextItem
    BY <2>1 DEF NextItem
  <2>2. CASE BodyStart
    BY <2>2 DEF BodyStart, AtBodyNode
  <2>3. CASE BodyGoesOn
    BY <2>3 DEF BodyGoesOn, BodyCompletes, history
  <2>4. CASE BodyEnd
    BY <2>4 DEF BodyEnd, BodyCompletes, history
  <2>5. QED
    BY <2>1, <2>2, <2>3, <2>4
<1>2. Top \in Frame /\ AfterEnd(Top) /\ frames # <<>>
  BY <1>1, FramesAre DEF Loops, LoopMemory, Top
<1>3. Top.node \in Nodes(flow) /\ flow \in Flows
  BY <1>2, FrameIs DEF Scalars
<1>4. \E fr \in Frame : fr.node = Top.node /\ AfterEnd(fr) /\ frames' = ReplaceTop(fr)
  <2>1. CASE NextItem
    <3> DEFINE fr == [Top EXCEPT !.left = @ - 1, !.seen = {}, !.at = LoopBody(flow, Top.node)]
    <3>1. LoopBody(flow, Top.node) \in Nodes(flow) \cup {NoNode}
      BY <1>3, LoopTargets
    <3>2. Top.left - 1 \in 0 .. MaxItems
      BY <1>2, <2>1, FrameIs, BoundsAssumption DEF NextItem
    <3>3. fr \in Frame /\ fr.node = Top.node /\ fr.after = Top.after
      BY <1>2, <3>1, <3>2 DEF Frame
    <3>4. QED
      BY <1>2, <2>1, <3>3 DEF NextItem, AfterEnd
  <2>2. CASE BodyStart
    <3> DEFINE fr == [Top EXCEPT !.seen = @ \cup {Top.at}]
    <3>1. Top.at \in Nodes(flow) \cup {NoNode} /\ Top.at # NoNode
      BY <1>2, <2>2, FrameIs DEF BodyStart, AtBodyNode
    <3>2. fr \in Frame /\ fr.node = Top.node /\ fr.after = Top.after
      BY <1>2, <3>1 DEF Frame
    <3>3. QED
      BY <1>2, <2>2, <3>2 DEF BodyStart, AfterEnd
  <2>3. CASE BodyGoesOn
    <3> DEFINE next == FirstOut(flow, Top.at, {Top.node, LoopExit(flow, Top.node)})
               fr   == [Top EXCEPT !.at = next]
    <3>1. Top.at \in Nodes(flow)
      BY <1>2, <2>3, FrameIs DEF BodyGoesOn, BodyCompletes, LoopMemory
    <3>2. next \in Nodes(flow) \cup {NoNode}
      BY <1>3, <3>1, FirstOutTyped
    <3>3. fr \in Frame /\ fr.node = Top.node /\ fr.after = Top.after
      BY <1>2, <3>2 DEF Frame
    <3>4. QED
      BY <1>2, <2>3, <3>3 DEF BodyGoesOn, AfterEnd
  <2>4. CASE BodyEnd
    <3> DEFINE next  == FirstOut(flow, Top.at, {Top.node, Top.at})
               after == IF Top.after # NoNode THEN Top.after ELSE next
               fr    == [Top EXCEPT !.at = NoNode, !.after = after]
    <3>1. Top.at \in Nodes(flow) /\ flow.kind[Top.at] = "end"
      BY <1>2, <2>4, FrameIs DEF BodyEnd, BodyCompletes, BodyKind, LoopMemory
    <3>2. next = NoNode \/ \E e \in Into(flow, next) : flow.kind[e[1]] = "end"
      <4>1. CASE next # NoNode
        <5>1. PICK i \in DOMAIN flow.out[Top.at] : next = EdgeOf(flow, <<Top.at, i>>).to
          BY <1>3, <3>1, <4>1, FirstOutIs
        <5>2. <<Top.at, i>> \in Into(flow, next)
          BY <1>3, <3>1, <5>1, EdgeFacts
        <5>3. QED
          BY <3>1, <5>2
      <4>2. QED
        BY <4>1
    <3>3. next \in Nodes(flow) \cup {NoNode}
      BY <1>3, <3>1, FirstOutTyped
    <3>4. after \in Nodes(flow) \cup {NoNode}
      BY <1>2, <3>3, FrameIs
    <3>5. after = NoNode \/ \E e \in Into(flow, after) : flow.kind[e[1]] = "end"
      BY <1>2, <3>2 DEF AfterEnd
    <3>6. frames' = ReplaceTop(fr)
      BY <2>4 DEF BodyEnd
    <3> HIDE DEF after
    <3>7. fr \in Frame /\ fr.node = Top.node /\ fr.after = after
      BY <1>2, <3>4 DEF Frame
    <3>8. QED
      BY <3>5, <3>6, <3>7 DEF AfterEnd
  <2>5. QED
    BY <2>1, <2>2, <2>3, <2>4
<1>5. phase' = "body" => Top'.at # NoNode
  <2>1. CASE BodyStart
    <3>1. Top.at # NoNode
      BY <2>1 DEF BodyStart, AtBodyNode
    <3>2. Top \in Frame
      BY <1>2
    <3>3. [Top EXCEPT !.seen = @ \cup {Top.at}].at = Top.at
      BY <3>2 DEF Frame
    <3>4. [Top EXCEPT !.seen = @ \cup {Top.at}] \in Frame
      BY <1>2, <3>1, FrameIs DEF Frame
    <3>5. Len(frames) \in 1 .. Len(frames)
      BY <1>2, FramesAre
    <3>6. Len(frames') = Len(frames) /\ frames'[Len(frames)] = [Top EXCEPT !.seen = @ \cup {Top.at}]
      BY <1>2, <2>1, <3>4, <3>5, ReplaceTopIs DEF BodyStart
    <3>7. QED
      BY <3>1, <3>3, <3>6 DEF Top
  <2>2. CASE ~BodyStart
    <3>1. phase' = "loop"
      <4>1. CASE NextItem
        BY <4>1 DEF NextItem
      <4>2. CASE BodyGoesOn \/ BodyEnd
        BY <4>2 DEF BodyGoesOn, BodyEnd
      <4>3. QED
        BY <2>2, <4>1, <4>2
    <3>2. QED
      BY <3>1
  <2>3. QED
    BY <2>1, <2>2
<1>6. QED
  BY <1>1, <1>2, <1>4, <1>5, WalkTop DEF WalkStep

\* How far a break or continue reaches.
LEMMA LowestTyped ==
    ASSUME Scalars, Loops, LoopMemory, phase = "body"
    PROVE  Lowest(flow.level[Top.at]) \in 0 .. Len(frames) - 1
<1>1. frames # <<>> /\ Top \in Frame /\ Len(frames) \in Nat \ {0}
  BY FramesAre DEF Loops
<1>2. Top.at \in Nodes(flow) /\ flow \in Flows
  BY <1>1, FrameIs DEF LoopMemory, Scalars
<1>3. flow.level[Top.at] \in Nat \ {0}
  <2>1. FlowType(flow)
    BY <1>2, FlowsAssumption
  <2>2. flow.level \in [Nodes(flow) -> Nat \ {0}]
    BY <2>1 DEF FlowType
  <2>3. QED
    BY <1>2, <2>2
<1>4. QED
  BY <1>1, <1>3 DEF Lowest

\* A loop is through, is left by a break, or starts within another one.
LEMMA BodyReturns ==
    ASSUME Scalars, Loops, LoopMemory,
           LoopIsThrough \/ BodyBreak \/ BodyContinue \/ BodyForeach
    PROVE  WalkStep \/ LeaveStep
<1>1. flow \in Flows /\ phase \in {"loop", "body"}
  BY DEF Scalars, LoopIsThrough, BodyBreak, BodyContinue, BodyForeach, BodyCompletes
<1>2. frames # <<>> /\ Len(frames) \in Nat \ {0}
  BY <1>1, FramesAre DEF Loops
<1>3. CASE LoopIsThrough
  <2>1. Len(frames) - 1 \in 0 .. Len(frames) - 1
    BY <1>2
  <2>2. QED
    BY <1>1, <1>3, <2>1, Returns DEF LoopIsThrough, memory
<1>4. CASE BodyBreak
  <2>1. Lowest(flow.level[Top.at]) \in 0 .. Len(frames) - 1
    BY <1>4, LowestTyped DEF BodyBreak, BodyCompletes
  <2>2. QED
    BY <1>1, <1>4, <2>1, Returns DEF BodyBreak, BodyCompletes, memory
<1>5. CASE BodyContinue
  <2>1. PICK k \in 1 .. Len(frames) : NextItemOf(k)
    <3>1. Lowest(flow.level[Top.at]) \in 0 .. Len(frames) - 1
      BY <1>5, LowestTyped DEF BodyContinue, BodyCompletes
    <3>2. Lowest(flow.level[Top.at]) + 1 \in 1 .. Len(frames)
      BY <1>2, <3>1
    <3>3. QED
      BY <1>5, <3>2 DEF BodyContinue
  <2>2. /\ frames' = [SubSeq(frames, 1, k) EXCEPT ![k].at = NoNode]
        /\ phase' = "loop" /\ UNCHANGED <<queueing, chosen>>
        /\ UNCHANGED <<flow, cur, executed, memory, cancelled, route, runs>>
    BY <1>5, <2>1 DEF BodyContinue, BodyCompletes, NextItemOf
  <2>3. /\ frames' \in Seq(Frame) /\ frames' # <<>>
        /\ frames'[1].node = frames[1].node
        /\ \A i \in DOMAIN frames' : AfterEnd(frames'[i])
    BY <1>1, <2>1, <2>2, WalkCut
  <2>4. QED
    BY <1>1, <2>2, <2>3 DEF WalkStep, history
<1>6. CASE BodyForeach
  <2>1. Top.at \in Nodes(flow)
    BY <1>2, <1>6, FramesAre, FrameIs DEF BodyForeach, BodyCompletes, LoopMemory
  <2>2. PICK items \in 0 .. MaxItems : frames' = Append(frames, NewFrame(Top.at, items))
    BY <1>6 DEF BodyForeach
  <2> DEFINE fr == NewFrame(Top.at, items)
  <2>3. fr \in Frame /\ fr.after = NoNode
    BY <2>1 DEF NewFrame, Frame
  <2> HIDE DEF fr
  <2>4. /\ frames' \in Seq(Frame) /\ Len(frames') = Len(frames) + 1
        /\ \A i \in 1 .. Len(frames) + 1 :
              frames'[i] = IF i = Len(frames) + 1 THEN fr ELSE frames[i]
    <3>1. frames' = Append(frames, fr) /\ frames \in Seq(Frame)
      BY <2>2 DEF fr, Loops
    <3>2. QED
      BY <2>3, <3>1
  <2>5. frames' # <<>> /\ DOMAIN frames' = 1 .. Len(frames) + 1
    BY <1>2, <2>4, SeqIs
  <2>6. frames'[1].node = frames[1].node
    BY <1>2, <2>4
  <2>7. flow' = flow
    BY <1>6 DEF BodyForeach, BodyCompletes
  <2>8. \A i \in DOMAIN frames' : AfterEnd(frames'[i])
    <3>1. \A i \in 1 .. Len(frames) : AfterEnd(frames[i])
      BY FramesAre DEF LoopMemory
    <3>2. AfterEnd(fr)
      BY <2>3 DEF AfterEnd
    <3>3. QED
      BY <1>2, <2>4, <2>5, <3>1, <3>2
  <2>9. /\ phase' = "loop"
        /\ UNCHANGED <<flow, cur, queueing, executed, memory, cancelled, route, history>>
    BY <1>6 DEF BodyForeach, BodyCompletes, history
  <2>10. QED
    BY <1>1, <2>4, <2>5, <2>6, <2>8, <2>9 DEF WalkStep
<1>7. QED
  BY <1>3, <1>4, <1>5, <1>6

\* The shapes, all of them.
Shape ==
    \/ Dispatch \/ Skip \/ StartNode \/ SendStep \/ SendEdge \/ JumpDone
    \/ ForeachStarts \/ WalkStep \/ LeaveStep \/ StopStep \/ Cancel

LEMMA Shapes ==
    ASSUME TypeOK, LoopMemory, Next
    PROVE  Shape
<1>1. Scalars /\ Tokens /\ Waiting /\ Loops
  BY TypeParts
<1>2. CASE MainStep
  <2>1. CASE Exhausted \/ LimitReached \/ ResourceMissing \/ NodeCancelled
               \/ NodeFails \/ JumpFails \/ ForeachHasNoBody
    BY <2>1, MainStops DEF Shape
  <2>2. CASE PlainDone \/ AskDone \/ AssertDone \/ BranchDone \/ WhileDone
               \/ RetryDone \/ JumpSkipped
    BY <1>1, <2>2, NodeSends DEF Shape
  <2>3. QED
    BY <1>2, <2>1, <2>2 DEF MainStep, Shape
<1>3. CASE LoopStep
  <2>1. CASE LoopCancelled \/ BodyLimitReached \/ BodyRevisit \/ BodyFails
               \/ BodyCancelled \/ BodyForeachHasNoBody
    BY <2>1, LoopStops DEF Shape
  <2>2. CASE NextItem \/ BodyStart \/ BodyGoesOn \/ BodyEnd
    BY <1>1, <2>2, BodyWalks DEF Shape
  <2>3. CASE LoopIsThrough \/ BodyBreak \/ BodyContinue \/ BodyForeach
    BY <1>1, <2>3, BodyReturns DEF Shape
  <2>4. QED
    BY <1>3, <2>1, <2>2, <2>3 DEF LoopStep
<1>4. QED
  BY <1>2, <1>3 DEF Next, Shape

-----------------------------------------------------------------------------
(* Types.                                                                   *)

LEMMA ScalarsOfMain ==
    ASSUME Scalars, MainStep \/ Cancel
    PROVE  Scalars'
<1> USE DEF Scalars, Phases, Statuses
<1>1. CASE Dispatch \/ Exhausted \/ LimitReached \/ Cancel
  BY <1>1 DEF Dispatch, Exhausted, LimitReached, Cancel, EndAs, memory, ending, history
<1>2. CASE Skip
  BY <1>2, BoundsAssumption DEF Skip, StepsLeft, memory, ending, history
<1>3. CASE StartNode
  <2>1. /\ steps' \in 0 .. MaxSteps
        /\ UNCHANGED <<flow, attempts, session, reason, cancelled>> /\ phase' = "run"
    BY <1>3, BoundsAssumption DEF StartNode, StepsLeft, memory, ending
  <2>2. status' \in [Nodes(flow) -> Statuses]
    BY <1>3 DEF StartNode
  <2>3. runs' \in [Nodes(flow) -> 0..2]
    <3>1. runs \in [Nodes(flow) -> 0..2]
      OBVIOUS
    <3>2. \A v \in 0..2 : (IF v < 2 THEN v + 1 ELSE v) \in 0..2
      OBVIOUS
    <3>3. runs' = [runs EXCEPT ![cur.node] = IF @ < 2 THEN @ + 1 ELSE @]
      BY <1>3 DEF StartNode
    <3>4. QED
      BY <3>1, <3>2, <3>3
  <2>4. QED
    BY <2>1, <2>2, <2>3
<1>4. CASE ResourceMissing \/ NodeCancelled \/ NodeFails \/ JumpFails
  BY <1>4 DEF ResourceMissing, NodeCancelled, NodeFails, JumpFails, EndAs, memory, history
<1>5. CASE PlainDone \/ AskDone \/ AssertDone \/ BranchDone
  BY <1>5 DEF PlainDone, AskDone, AssertDone, BranchDone, Completes, Send, memory, ending
<1>6. CASE WhileDone \/ JumpSkipped \/ JumpDone
  BY <1>6 DEF WhileDone, JumpSkipped, JumpDone, Completes, Send, memory, ending
<1>7. CASE RetryDone
  <2>1. attempts' = [attempts EXCEPT ![cur.node] = @ + 1]
    BY <1>7 DEF RetryDone
  <2>2. attempts' \in [Nodes(flow) -> Nat]
    <3>1. attempts \in [Nodes(flow) -> Nat] /\ \A v \in Nat : v + 1 \in Nat
      OBVIOUS
    <3>2. QED
      BY <2>1, <3>1
  <2>3. QED
    BY <1>7, <2>2 DEF RetryDone, Completes, Send, ending
<1>8. CASE ForeachStarts \/ ForeachHasNoBody
  BY <1>8 DEF ForeachStarts, ForeachHasNoBody, Completes, EndAs, memory, ending, history
<1>9. CASE SendEdge
  BY <1>9 DEF SendEdge, ending, history
<1>10. QED
  BY <1>1, <1>2, <1>3, <1>4, <1>5, <1>6, <1>7, <1>8, <1>9 DEF MainStep

LEMMA ScalarsOfLoop ==
    ASSUME Scalars, LoopStep
    PROVE  Scalars'
<1> USE DEF Scalars, Phases, Statuses
<1>1. CASE NextItem \/ LoopCancelled \/ BodyLimitReached
  BY <1>1 DEF NextItem, LoopCancelled, BodyLimitReached, EndAs, memory, ending, history
<1>2. CASE LoopIsThrough
  BY <1>2 DEF LoopIsThrough, ReturnTo, memory, ending
<1>3. CASE BodyRevisit \/ BodyStart
  BY <1>3, BoundsAssumption
     DEF BodyRevisit, BodyStart, AtBodyNode, StepsLeft, EndAs, memory, ending, history
<1>4. CASE BodyFails \/ BodyCancelled \/ BodyForeachHasNoBody
  BY <1>4 DEF BodyFails, BodyCancelled, BodyForeachHasNoBody, EndAs, memory, history
<1>5. CASE BodyGoesOn \/ BodyForeach \/ BodyEnd
  BY <1>5 DEF BodyGoesOn, BodyForeach, BodyEnd, BodyCompletes, memory, ending
<1>6. CASE BodyBreak
  BY <1>6 DEF BodyBreak, ReturnTo, BodyCompletes, memory, ending
<1>7. CASE BodyContinue
  BY <1>7 DEF BodyContinue, NextItemOf, BodyCompletes, memory, ending
<1>8. QED
  BY <1>1, <1>2, <1>3, <1>4, <1>5, <1>6, <1>7 DEF LoopStep

\* What a step does to the queue.
LEMMA EnqueueTyped ==
    ASSUME Tokens, NEW n \in Nodes(flow), NEW again \in BOOLEAN, Enqueue(n, again)
    PROVE  queue' \in Seq(Token) /\ queued' \subseteq Nodes(flow)
<1>1. [node |-> n, again |-> TRUE] \in Token /\ [node |-> n, again |-> FALSE] \in Token
  BY DEF Token
<1>2. queue \in Seq(Token) /\ queued \subseteq Nodes(flow)
  BY DEF Tokens
<1>3. \A t \in Token : Append(queue, t) \in Seq(Token)
  BY <1>2
<1>4. QED
  BY <1>1, <1>2, <1>3 DEF Enqueue, queueing

\* An edge of the node in hand, when it is its turn.
LEMMA EdgeInTurn ==
    ASSUME Scalars, Tokens, Waiting, SendEdge
    PROVE  /\ cur.node \in Nodes(flow) /\ flow \in Flows
           /\ route.next \in DOMAIN flow.out[cur.node]
           /\ EdgeOf(flow, <<cur.node, route.next>>).to \in Nodes(flow)
           /\ <<cur.node, route.next>> \in
                 Into(flow, EdgeOf(flow, <<cur.node, route.next>>).to)
           /\ Again(<<cur.node, route.next>>, route.again) \in BOOLEAN
<1>1. cur.node \in Nodes(flow) /\ flow \in Flows
  BY DEF Tokens, Scalars, SendEdge
<1>2. route.next \in Nat \ {0} /\ route.again \in BOOLEAN
  BY DEF Waiting
<1>3. route.next \in DOMAIN flow.out[cur.node]
  BY <1>1, <1>2, FlowTyped DEF SendEdge
<1>4. Again(<<cur.node, route.next>>, route.again) \in BOOLEAN
  BY <1>2 DEF Again
<1>5. QED
  BY <1>1, <1>3, <1>4, EdgeFacts

\* A jump that is taken leads to a node.
LEMMA JumpTyped ==
    ASSUME Scalars, Tokens, JumpDone
    PROVE  cur.node \in Nodes(flow) /\ flow.target[cur.node] \in Nodes(flow)
<1>1. cur.node \in Nodes(flow) /\ flow \in Flows
  BY DEF Tokens, Scalars, JumpDone, Completes, Running
<1>2. flow.target \in [Nodes(flow) -> Nodes(flow) \cup {NoNode}]
  BY <1>1, FlowTyped DEF FlowType
<1>3. QED
  BY <1>1, <1>2 DEF JumpDone

LEMMA TokensStep ==
    ASSUME Scalars, Tokens, Waiting, Loops, Shape
    PROVE  Tokens'
<1> USE DEF Tokens
<1>1. CASE Dispatch
  <2>1. Head(queue) \in Token /\ Tail(queue) \in Seq(Token)
    BY <1>1 DEF Dispatch
  <2>2. Head(queue).node \in Nodes(flow)
    BY <2>1 DEF Token
  <2>3. QED
    BY <1>1, <2>1, <2>2 DEF Dispatch, Token
<1>2. CASE Skip
  BY <1>2 DEF Skip, queueing, Token
<1>3. CASE StartNode
  BY <1>3 DEF StartNode, queueing, Token
<1>4. CASE SendStep
  BY <1>4 DEF SendStep, Send, queueing, Token
<1>5. CASE SendEdge
  <2>1. queue' \in Seq(Token) /\ queued' \subseteq Nodes(flow)
    BY <1>5, EdgeInTurn, EnqueueTyped DEF SendEdge, Deliver, queueing
  <2>2. QED
    BY <1>5, <2>1 DEF SendEdge, Token
<1>6. CASE JumpDone
  <2>1. queue' \in Seq(Token) /\ queued' \subseteq Nodes(flow)
    BY <1>6, JumpTyped, EnqueueTyped DEF JumpDone
  <2>2. QED
    BY <1>6, <2>1 DEF JumpDone, Token
<1>7. CASE ForeachStarts
  BY <1>7 DEF ForeachStarts, Completes, Running, queueing, Token
<1>8. CASE WalkStep
  BY <1>8 DEF WalkStep, queueing, Token
<1>9. CASE LeaveStep
  <2>1. frames[1] \in Frame
    BY <1>9, FramesAre DEF LeaveStep, Loops
  <2>2. Behind(frames[1]) \in Nodes(flow) \cup {NoNode}
    BY <2>1, BehindTyped DEF Scalars
  <2>3. queue' \in Seq(Token) /\ queued' \subseteq Nodes(flow)
    BY <1>9, <2>2, CurTyped, EnqueueTyped DEF LeaveStep, queueing
  <2>4. QED
    BY <1>9, <2>3 DEF LeaveStep, Token
<1>10. CASE StopStep
  BY <1>10 DEF StopStep, queueing, Token
<1>11. CASE Cancel
  BY <1>11 DEF Cancel, queueing, Token
<1>12. QED
  BY <1>1, <1>2, <1>3, <1>4, <1>5, <1>6, <1>7, <1>8, <1>9, <1>10, <1>11 DEF Shape

\* What was chosen, and what has arrived, only grows.
LEMMA ChosenTyped ==
    ASSUME Waiting, flow' = flow, NEW n \in Nodes(flow), NEW p \in Selectable(flow, n),
           chosen' = [chosen EXCEPT ![n] = @ \cup {p}]
    PROVE  /\ DOMAIN chosen' = Nodes(flow)
           /\ \A m \in Nodes(flow) : chosen'[m] \subseteq Selectable(flow, m)
  BY DEF Waiting

LEMMA WaitingStep ==
    ASSUME Scalars, Tokens, Waiting, Loops, LoopMemory, Shape
    PROVE  Waiting'
<1> USE DEF Waiting
<1>1. CASE UNCHANGED <<flow, arrived, route, chosen>>
  BY <1>1 DEF Ports
<1>2. CASE SendStep
  <2>1. cur.node \in Nodes(flow) /\ flow' = flow
    BY <1>2 DEF SendStep, Send, Tokens
  <2>2. PICK p \in Selectable(flow, cur.node), again \in BOOLEAN : Send(p, again)
    BY <1>2 DEF SendStep
  <2>3. route' \in [port : Ports, again : BOOLEAN, next : Nat \ {0}]
    BY <2>1, <2>2 DEF Send, Ports
  <2>4. /\ DOMAIN chosen' = Nodes(flow)
        /\ \A m \in Nodes(flow) : chosen'[m] \subseteq Selectable(flow, m)
    BY <2>1, <2>2, ChosenTyped DEF Send
  <2>5. /\ DOMAIN arrived' = Nodes(flow)
        /\ \A n \in Nodes(flow) : arrived'[n] \subseteq arrived[n]
    BY <1>2, <2>1 DEF SendStep
  <2>6. QED
    BY <2>1, <2>3, <2>4, <2>5 DEF Ports
<1>3. CASE SendEdge
  <2> DEFINE e == <<cur.node, route.next>>
             n == EdgeOf(flow, e).to
  <2>1. n \in Nodes(flow) /\ e \in Into(flow, n)
    BY <1>3, EdgeInTurn
  <2>2. arrived' = arrived \/ arrived' = [arrived EXCEPT ![n] = arrived[n] \cup {TokenOf(flow, e)}]
    BY <1>3 DEF SendEdge, Deliver
  <2>3. UNCHANGED <<flow, chosen>> /\ route' = [route EXCEPT !.next = @ + 1]
    BY <1>3 DEF SendEdge, history
  <2> HIDE DEF n, e
  <2>4. /\ DOMAIN arrived' = Nodes(flow)
        /\ \A m \in Nodes(flow) :
              arrived'[m] \subseteq {TokenOf(flow, d) : d \in Into(flow, m)}
    BY <2>1, <2>2
  <2>5. route' \in [port : Ports, again : BOOLEAN, next : Nat \ {0}]
    BY <2>3
  <2>6. QED
    BY <2>3, <2>4, <2>5 DEF Ports
<1>4. CASE JumpDone
  <2>1. UNCHANGED <<flow, arrived, route>>
    BY <1>4 DEF JumpDone, memory
  <2>2. cur.node \in Nodes(flow) /\ Jumped \in Selectable(flow, cur.node)
    BY <1>4, JumpTyped DEF JumpDone, Selectable
  <2>3. /\ DOMAIN chosen' = Nodes(flow)
        /\ \A m \in Nodes(flow) : chosen'[m] \subseteq Selectable(flow, m)
    BY <1>4, <2>1, <2>2, ChosenTyped DEF JumpDone
  <2>4. QED
    BY <2>1, <2>3 DEF Ports
<1>5. CASE LeaveStep
  <2>1. UNCHANGED <<flow, arrived, route>>
    BY <1>5 DEF LeaveStep, memory
  <2>2. cur.node \in Nodes(flow) /\ LoopLeft \in Selectable(flow, cur.node)
    BY <1>5 DEF LeaveStep, LoopMemory, Selectable, Tokens
  <2>3. /\ DOMAIN chosen' = Nodes(flow)
        /\ \A m \in Nodes(flow) : chosen'[m] \subseteq Selectable(flow, m)
    BY <1>5, <2>1, <2>2, ChosenTyped DEF LeaveStep
  <2>4. QED
    BY <2>1, <2>3 DEF Ports
<1>6. ASSUME Dispatch \/ Skip \/ StartNode \/ ForeachStarts \/ WalkStep \/ StopStep \/ Cancel
      PROVE  UNCHANGED <<flow, arrived, route, chosen>>
  BY <1>6 DEF Dispatch, Skip, StartNode, ForeachStarts, Completes, WalkStep, StopStep,
              Cancel, memory, history
<1>7. QED
  BY <1>1, <1>2, <1>3, <1>4, <1>5, <1>6 DEF Shape

\* Outside a loop's body there are no activations.
LEMMA NoLoop ==
    ASSUME Loops, phase \notin {"loop", "body", "end"}
    PROVE  frames = <<>>
  BY DEF Loops

LEMMA LoopsStep ==
    ASSUME Scalars, Tokens, Loops, LoopMemory, Shape
    PROVE  Loops' /\ LoopMemory'
<1>1. CASE WalkStep
  <2>1. Loops'
    <3>1. Frame' = Frame
      BY <1>1 DEF WalkStep, Frame
    <3>2. QED
      BY <1>1, <3>1 DEF WalkStep, Loops
  <2>2. (\A i \in DOMAIN frames : AfterEnd(frames[i]))'
    BY <1>1 DEF WalkStep, AfterEnd
  <2>3. QED
    BY <1>1, <2>1, <2>2 DEF WalkStep, LoopMemory, Top
<1>2. CASE ForeachStarts
  <2>1. PICK items \in 0 .. MaxItems : frames' = <<NewFrame(cur.node, items)>>
    BY <1>2 DEF ForeachStarts
  <2>2. /\ cur.node \in Nodes(flow) /\ flow.kind[cur.node] = "foreach"
        /\ phase' = "loop" /\ UNCHANGED <<flow, cur>>
    BY <1>2 DEF ForeachStarts, Completes, Running, Tokens
  <2> DEFINE fr == NewFrame(cur.node, items)
  <2>3. fr \in Frame /\ fr.node = cur.node /\ fr.after = NoNode
    BY <2>2 DEF NewFrame, Frame
  <2> HIDE DEF fr
  <2>4. frames' = <<fr>>
    BY <2>1 DEF fr
  <2>5. frames' \in Seq(Frame) /\ frames' # <<>> /\ DOMAIN frames' = {1} /\ frames'[1] = fr
    BY <2>3, <2>4
  <2>6. Frame' = Frame
    BY <2>2 DEF Frame
  <2>7. Loops'
    BY <2>2, <2>5, <2>6 DEF Loops
  <2>8. (\A i \in DOMAIN frames : AfterEnd(frames[i]))'
    BY <2>3, <2>5 DEF AfterEnd
  <2>9. QED
    BY <2>2, <2>3, <2>5, <2>7, <2>8 DEF LoopMemory
<1>3. CASE StopStep \/ Cancel
  <2>1. UNCHANGED <<flow, frames, cur>> /\ (phase' = "end" \/ phase' = phase)
    BY <1>3 DEF StopStep, Cancel
  <2>2. Frame' = Frame /\ \A i \in DOMAIN frames : AfterEnd(frames[i])' <=> AfterEnd(frames[i])
    BY <2>1 DEF Frame, AfterEnd
  <2>3. QED
    BY <2>1, <2>2 DEF Loops, LoopMemory, Top
<1>4. CASE \/ Dispatch \/ Skip \/ StartNode \/ SendStep \/ SendEdge \/ JumpDone \/ LeaveStep
  <2>1. frames' = <<>> /\ phase' \notin {"loop", "body", "end"}
    <3>1. CASE Dispatch
      BY <3>1, NoLoop DEF Dispatch, MayDispatch
    <3>2. CASE Skip \/ StartNode
      BY <3>2, NoLoop DEF Skip, StartNode
    <3>3. CASE SendStep
      BY <3>3, NoLoop DEF SendStep, Send
    <3>4. CASE SendEdge
      BY <3>4, NoLoop DEF SendEdge
    <3>5. CASE JumpDone
      BY <3>5, NoLoop DEF JumpDone, Completes, Running
    <3>6. CASE LeaveStep
      BY <3>6 DEF LeaveStep
    <3>7. QED
      BY <1>4, <3>1, <3>2, <3>3, <3>4, <3>5, <3>6
  <2>2. frames' \in Seq(Frame') /\ DOMAIN frames' = {}
    BY <2>1
  <2>3. QED
    BY <2>1, <2>2 DEF Loops, LoopMemory
<1>5. QED
  BY <1>1, <1>2, <1>3, <1>4 DEF Shape

-----------------------------------------------------------------------------
(* Types and loops, as one invariant.                                       *)

FlowInv == TypeOK /\ LoopMemory

LEMMA TypeInit == Init => FlowInv
<1> SUFFICES ASSUME Init PROVE FlowInv
  OBVIOUS
<1>1. flow \in Flows /\ FlowType(flow)
  BY FlowsAssumption DEF Init
<1>2. Scalars
  <2>1. attempts \in [Nodes(flow) -> Nat] /\ runs \in [Nodes(flow) -> 0..2]
    BY DEF Init
  <2>2. status \in [Nodes(flow) -> Statuses]
    BY DEF Init, Statuses
  <2>3. steps \in 0..MaxSteps
    BY BoundsAssumption DEF Init
  <2>4. QED
    BY <1>1, <2>1, <2>2, <2>3 DEF Init, Scalars, Phases
<1>3. Tokens
  <2>1. flow.entry \in Seq(Nodes(flow))
    BY <1>1 DEF FlowType
  <2>2. DOMAIN flow.entry = 1 .. Len(flow.entry) /\ Len(flow.entry) \in Nat
        /\ \A i \in 1 .. Len(flow.entry) : flow.entry[i] \in Nodes(flow)
    BY <2>1, SeqIs
  <2>3. queue \in Seq(Token)
    BY <2>2 DEF Init, Token
  <2>4. queued \subseteq Nodes(flow)
    BY <2>2 DEF Init
  <2>5. QED
    BY <2>3, <2>4 DEF Init, Tokens
<1>4. Waiting
  BY <1>1 DEF Init, Waiting, Ports
<1>5. Loops /\ LoopMemory
  <2>1. frames = <<>> /\ phase = "dispatch"
    BY DEF Init
  <2>2. frames \in Seq(Frame) /\ DOMAIN frames = {}
    BY <2>1
  <2>3. QED
    BY <2>1, <2>2 DEF Loops, LoopMemory
<1>6. QED
  BY <1>2, <1>3, <1>4, <1>5, TypeParts DEF FlowInv

LEMMA TypeStep == FlowInv /\ [Next]_vars => FlowInv'
<1>1. ASSUME FlowInv, Next PROVE FlowInv'
  <2>1. Shape /\ Scalars /\ Tokens /\ Waiting /\ Loops /\ LoopMemory
    BY <1>1, Shapes, TypeParts DEF FlowInv
  <2>2. Scalars'
    BY <1>1, <2>1, ScalarsOfMain, ScalarsOfLoop DEF Next
  <2>3. Tokens' /\ Waiting' /\ Loops' /\ LoopMemory'
    BY <2>1, TokensStep, WaitingStep, LoopsStep
  <2>4. TypeOK'
    BY <2>2, <2>3 DEF TypeOK, Scalars, Tokens, Waiting, Loops
  <2>5. QED
    BY <2>3, <2>4 DEF FlowInv
<1>2. ASSUME FlowInv, UNCHANGED vars PROVE FlowInv'
  <2>1. Scalars /\ Tokens /\ Waiting /\ Loops /\ LoopMemory
    BY <1>2, TypeParts DEF FlowInv
  <2>2. UNCHANGED <<flow, phase, cur, queue, queued, executed>>
        /\ UNCHANGED <<arrived, attempts, steps, status, session, reason>>
        /\ UNCHANGED <<cancelled, route, frames, chosen, runs>>
    BY <1>2 DEF vars
  <2>3. Scalars'
    BY <2>1, <2>2 DEF Scalars
  <2>4. Tokens'
    BY <2>1, <2>2 DEF Tokens, Token
  <2>5. Waiting'
    BY <2>1, <2>2 DEF Waiting, Ports
  <2>6. Loops' /\ LoopMemory'
    BY <2>1, <2>2 DEF Loops, LoopMemory, Frame, AfterEnd, Top
  <2>7. TypeOK'
    BY <2>3, <2>4, <2>5, <2>6 DEF TypeOK, Scalars, Tokens, Waiting, Loops
  <2>8. QED
    BY <2>6, <2>7 DEF FlowInv
<1>3. QED
  BY <1>1, <1>2

\* Variables have the values they should, what is queued, awaited and chosen
\* belongs to the flow, and the steps stay below their limit.
THEOREM TypeCorrect == Spec => []TypeOK
<1>1. FlowInv => TypeOK
  BY DEF FlowInv
<1>2. QED
  BY <1>1, TypeInit, TypeStep, PTL DEF Spec

-----------------------------------------------------------------------------
(* Tokens.                                                                  *)

\* What a step adds to the queue is the token it asked for, unless the node
\* was known before.
LEMMA EnqueueIs ==
    ASSUME queue \in Seq(Token), NEW n, NEW again \in BOOLEAN, Enqueue(n, again)
    PROVE  /\ \A i \in DOMAIN queue' :
                 \/ i \in DOMAIN queue /\ queue'[i] = queue[i]
                 \/ queue'[i] = [node |-> n, again |-> again]
           /\ \A i \in DOMAIN queue : i \in DOMAIN queue' /\ queue'[i] = queue[i]
           /\ queued \subseteq queued'
           /\ \A m \in queued' \ queued :
                 m = n /\ \E i \in DOMAIN queue' : queue'[i].node = m
           /\ again \/ n \in executed \cup queued'
<1>1. CASE queue' = queue /\ queued' = queued
  <2>1. again \/ n \in executed \cup queued'
    BY <1>1 DEF Enqueue, queueing
  <2>2. QED
    BY <1>1, <2>1
<1>2. CASE queue' = Append(queue, [node |-> n, again |-> again])
  <2>1. /\ Len(queue) \in Nat /\ DOMAIN queue = 1 .. Len(queue)
        /\ DOMAIN queue' = 1 .. Len(queue) + 1
        /\ \A i \in 1 .. Len(queue) : queue'[i] = queue[i]
        /\ queue'[Len(queue) + 1] = [node |-> n, again |-> again]
    BY <1>2
  <2>2. queued \subseteq queued' /\ \A m \in queued' \ queued : m = n
    BY DEF Enqueue, queueing
  <2>3. again \/ n \in executed \cup queued'
    BY DEF Enqueue, queueing
  <2>4. Len(queue) + 1 \in DOMAIN queue' /\ queue'[Len(queue) + 1].node = n
    BY <2>1
  <2>5. QED
    BY <2>1, <2>2, <2>3, <2>4
<1>3. QED
  BY <1>1, <1>2 DEF Enqueue, queueing

\* Taking the first token moves the others up.
LEMMA TailIs ==
    ASSUME NEW T, NEW s \in Seq(T), s # <<>>
    PROVE  /\ Head(s) = s[1] /\ 1 \in DOMAIN s
           /\ \A i \in DOMAIN Tail(s) : i + 1 \in DOMAIN s /\ Tail(s)[i] = s[i + 1]
           /\ \A i \in DOMAIN s : i # 1 => i - 1 \in DOMAIN Tail(s) /\ Tail(s)[i - 1] = s[i]
<1>1. /\ Len(s) \in Nat \ {0} /\ DOMAIN s = 1 .. Len(s)
      /\ DOMAIN Tail(s) = 1 .. Len(s) - 1
      /\ \A i \in 1 .. Len(s) - 1 : Tail(s)[i] = s[i + 1]
  OBVIOUS
<1>2. QED
  BY <1>1

-----------------------------------------------------------------------------
(* Once.                                                                    *)

\* In a flow without loops no token repeats, and a node that ran is known.
OnceInv ==
    LoopFree(flow) \/ Straight(flow) =>
        /\ ~cur.again /\ ~route.again
        /\ \A i \in DOMAIN queue : ~queue[i].again
        /\ \A n \in Nodes(flow) : runs[n] = 0 \/ (runs[n] = 1 /\ n \in executed)

LEMMA OnceInit == Init => OnceInv
<1> SUFFICES ASSUME Init PROVE OnceInv
  OBVIOUS
<1>1. /\ ~cur.again /\ ~route.again
      /\ \A i \in DOMAIN queue : ~queue[i].again
  BY DEF Init
<1>2. \A n \in Nodes(flow) : runs[n] = 0
  BY DEF Init
<1>3. QED
  BY <1>1, <1>2 DEF OnceInv

LEMMA OnceStep == FlowInv /\ OnceInv /\ [Next]_vars => OnceInv'
<1> SUFFICES ASSUME FlowInv, OnceInv, [Next]_vars, (LoopFree(flow) \/ Straight(flow))'
               PROVE  OnceInv'
  BY DEF OnceInv
<1>1. CASE UNCHANGED vars
  BY <1>1 DEF vars, OnceInv
<1>2. CASE Next
  <2>1. Shape /\ Scalars /\ Tokens /\ Waiting /\ Loops /\ LoopMemory
    BY <1>2, Shapes, TypeParts DEF FlowInv
  <2>2. flow' = flow
    BY <2>1 DEF Shape, Dispatch, Skip, StartNode, SendStep, Send, SendEdge, JumpDone,
                ForeachStarts, WalkStep, LeaveStep, StopStep, Cancel
  <2>3. /\ LoopFree(flow) \/ Straight(flow)
        /\ ~cur.again /\ ~route.again
        /\ \A i \in DOMAIN queue : ~queue[i].again
        /\ \A n \in Nodes(flow) : runs[n] = 0 \/ (runs[n] = 1 /\ n \in executed)
    BY <2>2 DEF OnceInv
  <2>4. \A n \in Nodes(flow) : flow.kind[n] \notin {"while", "retry", "jump", "foreach"}
    BY <2>3 DEF LoopFree, Straight
  <2>5. CASE Dispatch
    <3>1. queue \in Seq(Token) /\ queue # <<>>
      BY <2>1, <2>5 DEF Tokens, Dispatch
    <3>2. QED
      BY <2>2, <2>3, <2>5, <3>1, TailIs DEF Dispatch, OnceInv, history
  <2>6. CASE StartNode
    <3>1. cur.node \in Nodes(flow) /\ cur.node \notin executed /\ runs[cur.node] = 0
      BY <2>1, <2>3, <2>6 DEF StartNode, Tokens
    <3>2. \A n \in Nodes(flow) : runs'[n] = IF n = cur.node THEN 1 ELSE runs[n]
      BY <2>1, <2>6, <3>1 DEF StartNode, Scalars
    <3>3. QED
      BY <2>2, <2>3, <2>6, <3>1, <3>2 DEF StartNode, OnceInv, queueing
  <2>7. CASE SendStep
    <3>1. PICK p \in Selectable(flow, cur.node), again \in BOOLEAN :
             /\ Send(p, again)
             /\ flow.kind[cur.node] \notin {"while", "retry"} /\ again => cur.again
      BY <2>7 DEF SendStep
    <3>2. cur.node \in Nodes(flow)
      BY <2>1, <2>7 DEF SendStep, Tokens
    <3>3. ~again
      BY <2>3, <2>4, <3>1, <3>2
    <3>4. ~route'.again
      BY <3>1, <3>3 DEF Send
    <3>5. QED
      BY <2>2, <2>3, <3>1, <3>4 DEF Send, OnceInv, queueing
  <2>8. CASE SendEdge
    <3> DEFINE e == <<cur.node, route.next>>
               n == EdgeOf(flow, e).to
    <3>1. n \in Nodes(flow) /\ e \in Into(flow, n)
      BY <2>1, <2>8, EdgeInTurn
    <3>2. Again(e, route.again) = FALSE
      <4>1. EdgeOf(flow, e).at # "repeat" \/ flow.kind[n] \notin {"if", "while"}
        BY <2>3, <3>1 DEF LoopFree, Straight, Into
      <4>2. QED
        BY <2>3, <2>4, <3>1, <4>1 DEF Again
    <3>3. UNCHANGED queueing \/ Enqueue(n, FALSE)
      BY <2>8, <3>2 DEF SendEdge, Deliver
    <3>4. \A i \in DOMAIN queue' : ~queue'[i].again
      <4>1. queue \in Seq(Token)
        BY <2>1 DEF Tokens
      <4>2. CASE Enqueue(n, FALSE)
        <5>1. \A i \in DOMAIN queue' :
                 \/ i \in DOMAIN queue /\ queue'[i] = queue[i]
                 \/ queue'[i] = [node |-> n, again |-> FALSE]
          BY <4>1, <4>2, EnqueueIs
        <5>2. QED
          BY <2>3, <5>1
      <4>3. QED
        BY <2>3, <3>3, <4>2 DEF queueing
    <3>5. UNCHANGED <<cur, executed, runs>> /\ route' = [route EXCEPT !.next = @ + 1]
      BY <2>8 DEF SendEdge, history
    <3>6. route'.again = route.again
      BY <2>1, <3>5 DEF Waiting
    <3>7. QED
      BY <2>2, <2>3, <3>4, <3>5, <3>6 DEF OnceInv
  <2>9. CASE JumpDone
    BY <2>1, <2>4, <2>9, JumpTyped DEF JumpDone
  <2>10. CASE LeaveStep
    BY <2>1, <2>4, <2>10 DEF LeaveStep, LoopMemory, Tokens
  <2>11. CASE Skip \/ ForeachStarts \/ WalkStep \/ StopStep \/ Cancel
    <3>1. UNCHANGED <<cur, route, queue, runs, executed>>
      BY <2>11 DEF Skip, ForeachStarts, WalkStep, StopStep, Cancel, queueing, history
    <3>2. QED
      BY <2>2, <2>3, <3>1 DEF OnceInv
  <2>12. QED
    BY <2>1, <2>5, <2>6, <2>7, <2>8, <2>9, <2>10, <2>11 DEF Shape
<1>3. QED
  BY <1>1, <1>2

\* In a flow without loops, retries and jumps no node runs twice, in whatever
\* order tokens arrive, are held back and released.
THEOREM NodesRunOnce == Spec => []RunsOnce
<1>1. OnceInv => RunsOnce
  BY DEF OnceInv, RunsOnce
<1>2. QED
  BY <1>1, TypeInit, TypeStep, OnceInit, OnceStep, PTL DEF Spec

-----------------------------------------------------------------------------
(* Order.                                                                   *)

\* A token for n is in hand or in the queue.
HasToken(n) ==
    \/ phase = "visit" /\ cur.node = n
    \/ \E i \in DOMAIN queue : queue[i].node = n

\* Where tokens come from: each one that is queued, in hand or has arrived was
\* delivered by nodes that ran, through ports they chose.
OrderInv ==
    /\ phase \in {"run", "route", "loop", "body"} => cur.node \in executed
    /\ \A n : HasToken(n) => Order!Ready(n)
    /\ \A n \in Nodes(flow) : \A t \in arrived[n] :
          \E e \in Into(flow, n) : Order!Delivered(e) /\ TokenOf(flow, e) = t
    /\ phase = "route" => route.port \in chosen[cur.node]

LEMMA OrderInit == Init => OrderInv
<1> SUFFICES ASSUME Init PROVE OrderInv
  OBVIOUS
<1>1. ASSUME NEW n, HasToken(n) PROVE Order!Ready(n)
  <2>1. \E i \in DOMAIN flow.entry : flow.entry[i] = n
    BY <1>1 DEF Init, HasToken
  <2>2. QED
    BY <2>1 DEF Order!Ready
<1>2. QED
  BY <1>1 DEF Init, OrderInv

\* The plan stays, and what ran and what was chosen only grows.
LEMMA Grows ==
    ASSUME Tokens, Waiting, Shape
    PROVE  /\ flow' = flow
           /\ executed \subseteq executed'
           /\ \A n \in Nodes(flow) : chosen[n] \subseteq chosen'[n]
<1>1. CASE SendStep \/ JumpDone \/ LeaveStep
  <2>1. flow' = flow /\ executed' = executed
    BY <1>1 DEF SendStep, Send, JumpDone, LeaveStep
  <2>2. \E p : chosen' = [chosen EXCEPT ![cur.node] = @ \cup {p}]
    BY <1>1 DEF SendStep, Send, JumpDone, LeaveStep
  <2>3. QED
    BY <2>1, <2>2 DEF Waiting
<1>2. CASE StartNode
  BY <1>2 DEF StartNode
<1>3. CASE Dispatch \/ Skip \/ SendEdge \/ ForeachStarts \/ WalkStep \/ StopStep \/ Cancel
  BY <1>3 DEF Dispatch, Skip, SendEdge, ForeachStarts, Completes, WalkStep, StopStep,
              Cancel, history
<1>4. QED
  BY <1>1, <1>2, <1>3 DEF Shape

\* What was delivered stays delivered, and a node that is ready stays ready.
LEMMA ReadyStays ==
    ASSUME FlowInv, Shape
    PROVE  /\ \A e : Order!Delivered(e) => Order!Delivered(e)'
           /\ \A n : Order!Ready(n) => Order!Ready(n)'
<1>1. /\ flow' = flow /\ executed \subseteq executed'
      /\ executed \subseteq Nodes(flow)
      /\ \A n \in Nodes(flow) : chosen[n] \subseteq chosen'[n]
  BY Grows, TypeParts DEF FlowInv, Tokens
<1>2. \A e : Order!Delivered(e) => Order!Delivered(e)'
  BY <1>1 DEF Order!Delivered
<1>3. ASSUME NEW n, Order!Directed(n) PROVE Order!Directed(n)'
  <2>1. PICK m \in executed :
           \/ Jumped \in chosen[m] /\ flow.target[m] = n
           \/ /\ LoopLeft \in chosen[m]
              /\ \/ LoopExit(flow, m) = n
                 \/ /\ LoopExit(flow, m) = NoNode
                    /\ \E e \in Into(flow, n) : flow.kind[e[1]] = "end"
    BY <1>3 DEF Order!Directed
  <2>2. m \in executed' /\ chosen[m] \subseteq chosen'[m]
    BY <1>1
  <2>3. QED
    BY <1>1, <2>1, <2>2 DEF Order!Directed
<1>4. ASSUME NEW n, Order!AllDelivered(n) PROVE Order!AllDelivered(n)'
  BY <1>1, <1>2, <1>4 DEF Order!AllDelivered
<1>5. \A n : Order!Ready(n) => Order!Ready(n)'
  BY <1>1, <1>3, <1>4 DEF Order!Ready
<1>6. QED
  BY <1>2, <1>5

\* A token is added for a node that is ready: so are all that have one.
LEMMA TokensReady ==
    ASSUME FlowInv, OrderInv, Shape, phase' # "visit",
           NEW n, NEW again \in BOOLEAN,
           UNCHANGED queueing \/ (Enqueue(n, again) /\ Order!Ready(n)')
    PROVE  \A m : HasToken(m)' => Order!Ready(m)'
<1>1. queue \in Seq(Token)
  BY TypeParts DEF FlowInv, Tokens
<1>2. \A m : HasToken(m) => Order!Ready(m)'
  BY ReadyStays DEF OrderInv
<1>3. \A m : HasToken(m)' => HasToken(m) \/ Order!Ready(m)'
  <2>1. CASE UNCHANGED queueing
    BY <2>1 DEF queueing, HasToken
  <2>2. CASE Enqueue(n, again) /\ Order!Ready(n)'
    <3>1. \A i \in DOMAIN queue' :
             \/ i \in DOMAIN queue /\ queue'[i] = queue[i]
             \/ queue'[i] = [node |-> n, again |-> again]
      BY <1>1, <2>2, EnqueueIs
    <3>2. ASSUME NEW m, HasToken(m)' PROVE HasToken(m) \/ m = n
      BY <3>1, <3>2 DEF HasToken
    <3>3. QED
      BY <2>2, <3>2
  <2>3. QED
    BY <2>1, <2>2
<1>4. QED
  BY <1>2, <1>3

\* The edge that is sent was delivered, so what it releases is ready.
LEMMA SendEdgeReady ==
    ASSUME FlowInv, OrderInv, SendEdge
    PROVE  /\ \E n : \E again \in BOOLEAN :
                 UNCHANGED queueing \/ (Enqueue(n, again) /\ Order!Ready(n)')
           /\ (\A n \in Nodes(flow) : \A t \in arrived[n] :
                  \E e \in Into(flow, n) : Order!Delivered(e) /\ TokenOf(flow, e) = t)'
<1>e. PICK e : e = <<cur.node, route.next>>
  OBVIOUS
<1>n. PICK n : n = EdgeOf(flow, e).to
  OBVIOUS
<1>a. PICK again : again = Again(e, route.again)
  OBVIOUS
<1> DEFINE have == arrived[n] \cup {TokenOf(flow, e)}
<1>1. Scalars /\ Tokens /\ Waiting
  BY TypeParts DEF FlowInv
<1>2. n \in Nodes(flow) /\ e \in Into(flow, n) /\ again \in BOOLEAN
  BY <1>1, <1>e, <1>n, <1>a, EdgeInTurn
<1>3. UNCHANGED <<flow, executed, chosen>>
  BY DEF SendEdge, history
<1>4. CASE ~Follows(e)
  <2>1. UNCHANGED <<queueing, arrived>>
    BY <1>e, <1>4 DEF SendEdge
  <2>2. QED
    BY <1>3, <2>1 DEF OrderInv, Order!Delivered
<1>5. CASE Follows(e)
  <2>1. Order!Delivered(e)
    <3>1. cur.node \in executed /\ route.port \in chosen[cur.node]
      BY DEF OrderInv, SendEdge
    <3>2. route.port \in {AnyPort, EdgeOf(flow, e).port}
      BY <1>5 DEF Follows
    <3>3. QED
      BY <1>e, <3>1, <3>2 DEF Order!Delivered
  <2>2. \A d : Order!Delivered(d)' <=> Order!Delivered(d)
    BY <1>3 DEF Order!Delivered
  <2>3. Deliver(e, route.again)
    BY <1>e, <1>5 DEF SendEdge
  <2>4. \/ Required(flow, n) = {} /\ UNCHANGED arrived
        \/ arrived' = [arrived EXCEPT ![n] = have]
    BY <1>n, <2>3 DEF Deliver
  <2>5. \A t \in have : \E d \in Into(flow, n) : Order!Delivered(d) /\ TokenOf(flow, d) = t
    BY <1>2, <2>1 DEF OrderInv
  <2>6. ASSUME NEW m \in Nodes(flow), NEW t \in arrived'[m]
        PROVE  \E d \in Into(flow, m) : Order!Delivered(d) /\ TokenOf(flow, d) = t
    <3>1. t \in arrived[m] \/ (m = n /\ t \in have)
      BY <1>1, <2>4 DEF Waiting
    <3>2. QED
      BY <2>5, <3>1 DEF OrderInv
  <2>7. (\A m \in Nodes(flow) : \A t \in arrived[m] :
             \E d \in Into(flow, m) : Order!Delivered(d) /\ TokenOf(flow, d) = t)'
    BY <1>3, <2>2, <2>6
  <2>8. ASSUME ~UNCHANGED queueing
        PROVE  Enqueue(n, again) /\ Order!Ready(n)'
    <3>1. Enqueue(n, again) /\ Required(flow, n) \subseteq have
      BY <1>n, <1>a, <2>3, <2>8 DEF Deliver, Released
    <3>2. \A t \in Required(flow, n) :
             \E d \in Into(flow, n) : Order!Delivered(d)' /\ TokenOf(flow, d) = t
      BY <2>2, <2>5, <3>1
    <3>3. Order!AllDelivered(n)'
      BY <1>2, <1>3, <2>1, <2>2, <3>2 DEF Order!AllDelivered
    <3>4. QED
      BY <3>1, <3>3 DEF Order!Ready
  <2>9. QED
    BY <1>2, <2>7, <2>8
<1>6. QED
  BY <1>4, <1>5

LEMMA OrderStep == FlowInv /\ OrderInv /\ [Next]_vars => OrderInv'
<1>1. ASSUME FlowInv, OrderInv, UNCHANGED vars PROVE OrderInv'
  <2>1. UNCHANGED <<flow, phase, cur, queue, executed, arrived, route, chosen>>
    BY <1>1 DEF vars
  <2>2. \A e : Order!Delivered(e)' <=> Order!Delivered(e)
    BY <2>1 DEF Order!Delivered
  <2>3. \A n : Order!Ready(n)' <=> Order!Ready(n)
    BY <2>1, <2>2 DEF Order!Ready, Order!Directed, Order!AllDelivered
  <2>4. \A n : HasToken(n)' <=> HasToken(n)
    BY <2>1 DEF HasToken
  <2>5. QED
    BY <1>1, <2>1, <2>2, <2>3, <2>4 DEF OrderInv
<1>2. ASSUME FlowInv, OrderInv, Next PROVE OrderInv'
  <2>1. Shape /\ Scalars /\ Tokens /\ Waiting /\ Loops /\ LoopMemory
    BY <1>2, Shapes, TypeParts DEF FlowInv
  <2>2. /\ flow' = flow /\ executed \subseteq executed'
        /\ \A n \in Nodes(flow) : chosen[n] \subseteq chosen'[n]
        /\ \A e : Order!Delivered(e) => Order!Delivered(e)'
        /\ \A n : Order!Ready(n) => Order!Ready(n)'
    BY <1>2, <2>1, Grows, ReadyStays
  <2>3. ASSUME \A n \in Nodes(flow) : arrived'[n] \subseteq arrived[n]
        PROVE  (\A n \in Nodes(flow) : \A t \in arrived[n] :
                  \E e \in Into(flow, n) : Order!Delivered(e) /\ TokenOf(flow, e) = t)'
    BY <1>2, <2>2, <2>3 DEF OrderInv
  <2>4. ASSUME UNCHANGED queueing, phase' # "visit"
        PROVE  \A m : HasToken(m)' => Order!Ready(m)'
    BY <1>2, <2>1, <2>4, TokensReady
  <2>5. CASE Dispatch
    <3>1. UNCHANGED <<arrived, executed>> /\ phase' = "visit"
      BY <2>5 DEF Dispatch, memory
    <3>2. \A m : HasToken(m)' => HasToken(m)
      <4>1. queue \in Seq(Token) /\ queue # <<>>
        BY <2>1, <2>5 DEF Tokens, Dispatch
      <4>2. cur' = queue[1] /\ 1 \in DOMAIN queue
        BY <2>5, <4>1, TailIs DEF Dispatch
      <4>3. \A i \in DOMAIN queue' : i + 1 \in DOMAIN queue /\ queue'[i] = queue[i + 1]
        BY <2>5, <4>1, TailIs DEF Dispatch
      <4>4. QED
        BY <4>2, <4>3 DEF HasToken
    <3>3. QED
      BY <1>2, <2>2, <2>3, <3>1, <3>2 DEF OrderInv
  <2>6. CASE Skip \/ StartNode
    <3>1. UNCHANGED <<arrived, queueing, cur>> /\ phase' \in {"dispatch", "run"}
      BY <2>6 DEF Skip, StartNode, memory
    <3>2. phase' = "run" => cur.node \in executed'
      BY <2>6 DEF Skip, StartNode
    <3>3. QED
      BY <2>3, <2>4, <3>1, <3>2 DEF OrderInv
  <2>7. CASE SendStep
    <3>1. PICK p \in Selectable(flow, cur.node), again \in BOOLEAN : Send(p, again)
      BY <2>7 DEF SendStep
    <3>2. cur.node \in Nodes(flow) /\ cur.node \in executed
      BY <1>2, <2>1, <2>7 DEF SendStep, Tokens, OrderInv
    <3>3. route'.port \in chosen'[cur.node]
      BY <2>1, <3>1, <3>2 DEF Send, Waiting
    <3>4. \A n \in Nodes(flow) : arrived'[n] \subseteq arrived[n]
      BY <2>1, <2>7 DEF SendStep, Waiting
    <3>5. UNCHANGED <<queueing, cur, executed>> /\ phase' = "route"
      BY <3>1 DEF Send
    <3>6. QED
      BY <2>3, <2>4, <3>2, <3>3, <3>4, <3>5 DEF OrderInv
  <2>8. CASE SendEdge
    <3>1. UNCHANGED <<phase, cur, executed, chosen>> /\ phase = "route"
      BY <2>8 DEF SendEdge, history
    <3>2. \A m : HasToken(m)' => Order!Ready(m)'
      BY <1>2, <2>1, <2>8, <3>1, SendEdgeReady, TokensReady
    <3>3. route'.port = route.port
      BY <2>1, <2>8 DEF SendEdge, Waiting
    <3>4. QED
      BY <1>2, <2>8, <3>1, <3>2, <3>3, SendEdgeReady DEF OrderInv
  <2>9. CASE JumpDone
    <3>1. UNCHANGED <<flow, arrived, executed>> /\ phase' = "dispatch"
      BY <2>9 DEF JumpDone, memory
    <3>m. PICK m : m = cur.node
      OBVIOUS
    <3>n. PICK n : n = flow.target[m]
      OBVIOUS
    <3>2. m \in Nodes(flow) /\ m \in executed
      BY <1>2, <2>1, <2>9, <3>m, JumpTyped DEF JumpDone, Completes, Running, OrderInv
    <3>3. Jumped \in chosen'[m]
      BY <2>1, <2>9, <3>m, <3>2 DEF JumpDone, Waiting
    <3>4. Order!Directed(n)'
      BY <3>1, <3>n, <3>2, <3>3 DEF Order!Directed
    <3>5. Enqueue(n, TRUE) /\ Order!Ready(n)'
      BY <2>9, <3>m, <3>n, <3>4 DEF JumpDone, Order!Ready
    <3>6. \A x : HasToken(x)' => Order!Ready(x)'
      BY <1>2, <2>1, <3>1, <3>5, TokensReady
    <3>7. QED
      BY <2>3, <3>1, <3>6 DEF OrderInv
  <2>10. CASE LeaveStep
    <3>m. PICK m : m = cur.node
      OBVIOUS
    <3>n. PICK n : n = Behind(frames[1])
      OBVIOUS
    <3>1. UNCHANGED <<flow, arrived, executed>> /\ phase' = "dispatch"
      BY <2>10 DEF LeaveStep, memory
    <3>2. m \in Nodes(flow) /\ m \in executed /\ frames[1].node = m
      BY <1>2, <2>1, <2>10, <3>m DEF LeaveStep, LoopMemory, Tokens, OrderInv
    <3>3. LoopLeft \in chosen'[m]
      BY <2>1, <2>10, <3>m, <3>2 DEF LeaveStep, Waiting
    <3>4. n # NoNode => Order!Directed(n)'
      <4>1. AfterEnd(frames[1])
        <5>1. 1 \in DOMAIN frames
          BY <2>1, <2>10, FramesAre DEF LeaveStep, Loops
        <5>2. QED
          BY <2>1, <5>1 DEF LoopMemory
      <4>2. CASE LoopExit(flow, m) # NoNode
        BY <3>n, <3>1, <3>2, <3>3, <4>2 DEF Behind, Order!Directed
      <4>3. CASE LoopExit(flow, m) = NoNode
        <5>1. n = frames[1].after
          BY <3>n, <3>2, <4>3 DEF Behind
        <5>2. n # NoNode => \E e \in Into(flow, n) : flow.kind[e[1]] = "end"
          BY <4>1, <5>1 DEF AfterEnd
        <5>3. QED
          BY <3>1, <3>2, <3>3, <4>3, <5>2 DEF Order!Directed
      <4>4. QED
        BY <4>2, <4>3
    <3>5. PICK again \in BOOLEAN : again = cur.again
      BY <2>1, CurTyped
    <3>6. UNCHANGED queueing \/ (Enqueue(n, again) /\ Order!Ready(n)')
      BY <2>10, <3>n, <3>4, <3>5 DEF LeaveStep, Order!Ready
    <3>7. \A k : HasToken(k)' => Order!Ready(k)'
      BY <1>2, <2>1, <3>1, <3>6, TokensReady
    <3>8. QED
      BY <2>3, <3>1, <3>7 DEF OrderInv
  <2>11. CASE ForeachStarts \/ WalkStep
    <3>1. UNCHANGED <<arrived, queueing, cur, executed>> /\ phase' \in {"loop", "body"}
      BY <2>11 DEF ForeachStarts, WalkStep, memory
    <3>2. cur.node \in executed
      BY <1>2, <2>11 DEF ForeachStarts, Completes, Running, WalkStep, OrderInv
    <3>3. QED
      BY <2>3, <2>4, <3>1, <3>2 DEF OrderInv
  <2>12. CASE StopStep
    <3>1. UNCHANGED <<arrived, queueing>> /\ phase' = "end"
      BY <2>12 DEF StopStep, memory
    <3>2. QED
      BY <2>3, <2>4, <3>1 DEF OrderInv
  <2>13. CASE Cancel
    <3>1. UNCHANGED <<arrived, queue, cur, executed, phase, route, chosen>>
      BY <2>13 DEF Cancel, memory, queueing, history
    <3>2. \A m : HasToken(m)' => HasToken(m)
      BY <3>1 DEF HasToken
    <3>3. QED
      BY <1>2, <2>2, <2>3, <3>1, <3>2 DEF OrderInv
  <2>14. QED
    BY <2>1, <2>5, <2>6, <2>7, <2>8, <2>9, <2>10, <2>11, <2>12, <2>13 DEF Shape
<1>3. QED
  BY <1>1, <1>2

\* A step of the scheduler fires a node that is ready, records a port that
\* a node chose, or is none of FlowOrder's business.
LEMMA ObservedStep ==
    ASSUME FlowInv, OrderInv, Next
    PROVE  Order!Next \/ UNCHANGED <<flow, executed, chosen>>
<1>1. Shape /\ Scalars /\ Tokens /\ Waiting /\ Loops /\ LoopMemory
  BY Shapes, TypeParts DEF FlowInv
<1>2. CASE StartNode
  <2>1. cur.node \in Nodes(flow) /\ Order!Ready(cur.node)
    BY <1>1, <1>2 DEF StartNode, Tokens, OrderInv, HasToken
  <2>2. executed' = executed \cup {cur.node} /\ UNCHANGED <<flow, chosen>>
    BY <1>2 DEF StartNode
  <2>3. CASE cur.node \in executed
    BY <2>2, <2>3
  <2>4. CASE cur.node \notin executed
    <3>1. Order!Fire(cur.node)
      BY <2>1, <2>2, <2>4 DEF Order!Fire
    <3>2. QED
      BY <2>1, <3>1 DEF Order!Next
  <2>5. QED
    BY <2>3, <2>4
<1>3. CASE SendStep \/ JumpDone \/ LeaveStep
  <2>1. cur.node \in Nodes(flow) /\ cur.node \in executed /\ UNCHANGED <<flow, executed>>
    BY <1>1, <1>3
       DEF SendStep, Send, JumpDone, Completes, Running, LeaveStep, Tokens, OrderInv
  <2>2. \E p \in Selectable(flow, cur.node) :
           chosen' = [chosen EXCEPT ![cur.node] = @ \cup {p}]
    <3>1. CASE SendStep
      BY <3>1 DEF SendStep, Send
    <3>2. CASE JumpDone
      BY <3>2 DEF JumpDone, Selectable
    <3>3. CASE LeaveStep
      BY <1>1, <3>3 DEF LeaveStep, LoopMemory, Selectable
    <3>4. QED
      BY <1>3, <3>1, <3>2, <3>3
  <2>3. \E p \in Selectable(flow, cur.node) : Order!Choose(cur.node, p)
    BY <2>1, <2>2 DEF Order!Choose
  <2>4. QED
    BY <2>1, <2>3 DEF Order!Next
<1>4. CASE Dispatch \/ Skip \/ SendEdge \/ ForeachStarts \/ WalkStep \/ StopStep \/ Cancel
  BY <1>4 DEF Dispatch, Skip, SendEdge, ForeachStarts, Completes, WalkStep, StopStep,
              Cancel, history
<1>5. QED
  BY <1>1, <1>2, <1>3, <1>4 DEF Shape

\* The scheduler keeps the order that FlowOrder promises: a node starts only
\* after nodes that ran before delivered every token it waits for.
THEOREM Implementation == Spec => ImplementsFlowOrder
<1>1. Init => Order!Init
  BY DEF Init, Order!Init
<1>2. FlowInv /\ OrderInv /\ [Next]_vars => [Order!Next]_Order!vars
  <2>1. UNCHANGED vars => UNCHANGED Order!vars
    BY DEF vars, Order!vars
  <2>2. FlowInv /\ OrderInv /\ Next => Order!Next \/ UNCHANGED Order!vars
    BY ObservedStep DEF Order!vars
  <2>3. QED
    BY <2>1, <2>2
<1>3. QED
  BY <1>1, <1>2, TypeInit, TypeStep, OrderInit, OrderStep, PTL
     DEF Spec, ImplementsFlowOrder, Order!Spec

-----------------------------------------------------------------------------
(* Outcomes.                                                                *)

\* Until the run ends, only the node in hand is not settled, and nothing has
\* gone wrong.
Undecided ==
    phase # "end" =>
        /\ session = "running" /\ reason = "none"
        /\ \A n \in Nodes(flow) :
              \/ status[n] \in {"pending", "completed"}
              \/ phase = "run" /\ n = cur.node
              \/ phase = "body" /\ n = Top.at

OutcomeInv == Undecided /\ OutcomeAgrees

\* The node in hand; the others are settled.
OnlyOpen(n) ==
    /\ phase # "end" /\ n \in Nodes(flow)
    /\ \A m \in Nodes(flow) : m # n => status[m] \in {"pending", "completed"}

AllSettled ==
    phase # "end" /\ \A m \in Nodes(flow) : status[m] \in {"pending", "completed"}

LEMMA OneIsOpen ==
    ASSUME FlowInv, OutcomeInv
    PROVE  /\ phase = "run" => OnlyOpen(cur.node)
           /\ phase = "body" => OnlyOpen(Top.at)
           /\ phase \notin {"run", "body", "end"} => AllSettled
<1>1. Scalars /\ Tokens /\ Loops /\ LoopMemory
  BY TypeParts DEF FlowInv
<1>2. phase = "run" => cur.node \in Nodes(flow)
  BY <1>1 DEF Tokens
<1>3. phase = "body" => Top.at \in Nodes(flow)
  BY <1>1, FramesAre, FrameIs DEF Loops, LoopMemory
<1>4. QED
  BY <1>2, <1>3 DEF OutcomeInv, Undecided, OnlyOpen, AllSettled

\* Ends of a run between nodes, and at the node in hand.
LEMMA EndsBetween ==
    ASSUME AllSettled, UNCHANGED <<flow, status, cancelled>>, phase' = "end",
           \/ session' = "completed" /\ reason' = "none"
           \/ session' = "failed" /\ reason' \in {"limit", "cycle"}
           \/ session' = "aborted" /\ reason' = "none" /\ cancelled
    PROVE  OutcomeInv'
  BY DEF AllSettled, OutcomeInv, Undecided, OutcomeAgrees

LEMMA EndsAt ==
    ASSUME FlowInv, NEW n, NEW v, OnlyOpen(n), UNCHANGED <<flow, cancelled>>,
           phase' = "end", status' = [status EXCEPT ![n] = v],
           \/ v = "completed" /\ session' = "failed" /\ reason' = "no_body"
           \/ v = "failed" /\ session' = "failed" /\ reason' \in {"node", "no_target"}
           \/ v = "aborted" /\ session' = "aborted" /\ reason' = "none" /\ cancelled
    PROVE  OutcomeInv'
<1>1. n \in Nodes(flow) /\ status'[n] = v
      /\ \A m \in Nodes(flow) : m # n => status'[m] \in {"pending", "completed"}
  BY TypeParts DEF FlowInv, Scalars, OnlyOpen
<1>2. QED
  BY <1>1 DEF OutcomeInv, Undecided, OutcomeAgrees

\* The node in hand completes and the run goes on.
LEMMA OutcomeGoesOn ==
    ASSUME FlowInv, NEW n, OnlyOpen(n), OutcomeInv, UNCHANGED <<flow, session, reason>>,
           phase' \notin {"run", "body", "end"},
           status' = [status EXCEPT ![n] = "completed"]
    PROVE  OutcomeInv'
<1>1. \A m \in Nodes(flow) : status'[m] \in {"pending", "completed"}
  BY TypeParts DEF FlowInv, Scalars, OnlyOpen
<1>2. QED
  BY <1>1 DEF OutcomeInv, Undecided, OutcomeAgrees, OnlyOpen

LEMMA OutcomeOfMain ==
    ASSUME FlowInv, OutcomeInv, MainStep
    PROVE  OutcomeInv'
<1>1. CASE Exhausted \/ LimitReached
  <2>1. AllSettled
    BY <1>1, OneIsOpen DEF Exhausted, LimitReached, MayDispatch
  <2>2. QED
    BY <1>1, <2>1, EndsBetween DEF Exhausted, LimitReached, EndAs
<1>2. CASE ResourceMissing \/ NodeFails \/ JumpFails
  <2>1. OnlyOpen(cur.node)
    BY <1>2, OneIsOpen DEF ResourceMissing, NodeFails, JumpFails, Running
  <2>2. QED
    BY <1>2, <2>1, EndsAt DEF ResourceMissing, NodeFails, JumpFails, EndAs
<1>3. CASE NodeCancelled
  <2>1. OnlyOpen(cur.node)
    BY <1>3, OneIsOpen DEF NodeCancelled, Running
  <2>2. QED
    BY <1>3, <2>1, EndsAt DEF NodeCancelled, EndAs
<1>4. CASE ForeachHasNoBody
  <2>1. OnlyOpen(cur.node)
    BY <1>4, OneIsOpen DEF ForeachHasNoBody, Completes, Running
  <2>2. QED
    BY <1>4, <2>1, EndsAt DEF ForeachHasNoBody, Completes, EndAs
<1>5. CASE PlainDone \/ AskDone \/ AssertDone \/ BranchDone \/ WhileDone
             \/ RetryDone \/ JumpSkipped \/ JumpDone \/ ForeachStarts
  <2>1. Completes /\ UNCHANGED <<flow, session, reason>>
        /\ phase' \notin {"run", "body", "end"}
    BY <1>5 DEF PlainDone, AskDone, AssertDone, BranchDone, WhileDone, RetryDone,
                JumpSkipped, JumpDone, ForeachStarts, Send, ending
  <2>2. OnlyOpen(cur.node)
    BY <2>1, OneIsOpen DEF Completes, Running
  <2>3. QED
    BY <2>1, <2>2, OutcomeGoesOn DEF Completes
<1>6. CASE Dispatch \/ Skip \/ SendEdge
  <2>1. /\ AllSettled /\ UNCHANGED <<flow, status, session, reason>>
        /\ phase' \notin {"run", "body", "end"}
    BY <1>6, OneIsOpen DEF Dispatch, Skip, SendEdge, MayDispatch, ending
  <2>2. QED
    BY <2>1 DEF AllSettled, OutcomeInv, Undecided, OutcomeAgrees
<1>7. CASE StartNode
  <2>1. AllSettled /\ UNCHANGED <<flow, cur, session, reason>> /\ phase' = "run"
    BY <1>7, OneIsOpen DEF StartNode, ending
  <2>2. status' = [status EXCEPT ![cur.node] = "running"]
    BY <1>7 DEF StartNode
  <2>3. \A m \in Nodes(flow) : m # cur.node => status'[m] \in {"pending", "completed"}
    BY <2>1, <2>2, TypeParts DEF FlowInv, Scalars, AllSettled
  <2>4. QED
    BY <2>1, <2>3 DEF AllSettled, OutcomeInv, Undecided, OutcomeAgrees
<1>8. QED
  BY <1>1, <1>2, <1>3, <1>4, <1>5, <1>6, <1>7 DEF MainStep

LEMMA OutcomeOfLoop ==
    ASSUME FlowInv, OutcomeInv, LoopStep
    PROVE  OutcomeInv'
<1>1. CASE LoopCancelled \/ BodyLimitReached \/ BodyRevisit
  <2>1. AllSettled
    BY <1>1, OneIsOpen DEF LoopCancelled, BodyLimitReached, BodyRevisit, AtBodyNode
  <2>2. QED
    BY <1>1, <2>1, EndsBetween
       DEF LoopCancelled, BodyLimitReached, BodyRevisit, AtBodyNode, EndAs
<1>2. CASE BodyFails \/ BodyCancelled \/ BodyForeachHasNoBody
  <2>1. OnlyOpen(Top.at)
    BY <1>2, OneIsOpen DEF BodyFails, BodyCancelled, BodyForeachHasNoBody
  <2>2. QED
    BY <1>2, <2>1, EndsAt DEF BodyFails, BodyCancelled, BodyForeachHasNoBody, EndAs
<1>3. CASE BodyGoesOn \/ BodyForeach \/ BodyBreak \/ BodyContinue \/ BodyEnd
  <2>1. BodyCompletes /\ phase' \notin {"run", "body", "end"}
    BY <1>3 DEF BodyGoesOn, BodyForeach, BodyBreak, BodyContinue, BodyEnd, ReturnTo,
                NextItemOf
  <2>2. OnlyOpen(Top.at)
    BY <2>1, OneIsOpen DEF BodyCompletes
  <2>3. QED
    BY <2>1, <2>2, OutcomeGoesOn DEF BodyCompletes, ending
<1>4. CASE NextItem \/ LoopIsThrough
  <2>1. /\ AllSettled /\ UNCHANGED <<flow, status, session, reason>>
        /\ phase' \notin {"run", "body", "end"}
    BY <1>4, OneIsOpen DEF NextItem, LoopIsThrough, ReturnTo, ending
  <2>2. QED
    BY <2>1 DEF AllSettled, OutcomeInv, Undecided, OutcomeAgrees
<1>5. CASE BodyStart
  <2>1. AllSettled /\ UNCHANGED <<flow, session, reason>> /\ phase' = "body"
    BY <1>5, OneIsOpen DEF BodyStart, AtBodyNode, ending
  <2>2. status' = [status EXCEPT ![Top.at] = "running"]
    BY <1>5 DEF BodyStart
  <2>3. Top'.at = Top.at
    <3>1. frames # <<>> /\ Top \in Frame /\ Loops
      BY <1>5, TypeParts, FramesAre DEF BodyStart, AtBodyNode, FlowInv, Loops
    <3>2. Top.at \in Nodes(flow)
      BY <1>5, <3>1, FrameIs DEF BodyStart, AtBodyNode
    <3>3. PICK fr : fr = [Top EXCEPT !.seen = @ \cup {Top.at}]
      OBVIOUS
    <3>4. fr \in Frame /\ fr.at = Top.at
      BY <3>1, <3>2, <3>3 DEF Frame
    <3>5. frames' = ReplaceTop(fr)
      BY <1>5, <3>3 DEF BodyStart
    <3>6. Len(frames) \in 1 .. Len(frames)
      BY <3>1, FramesAre
    <3>7. Len(frames') = Len(frames) /\ frames'[Len(frames)] = fr
      BY <3>1, <3>4, <3>5, <3>6, ReplaceTopIs
    <3>8. QED
      BY <3>4, <3>7 DEF Top
  <2>4. \A m \in Nodes(flow) : m # Top.at => status'[m] \in {"pending", "completed"}
    BY <2>1, <2>2, TypeParts DEF FlowInv, Scalars, AllSettled
  <2>5. QED
    BY <2>1, <2>3, <2>4 DEF AllSettled, OutcomeInv, Undecided, OutcomeAgrees
<1>6. QED
  BY <1>1, <1>2, <1>3, <1>4, <1>5 DEF LoopStep

LEMMA OutcomeInit == Init => OutcomeInv
<1> SUFFICES ASSUME Init PROVE OutcomeInv
  OBVIOUS
<1>1. \A n \in Nodes(flow) : status[n] = "pending"
  BY DEF Init
<1>2. QED
  BY <1>1 DEF Init, OutcomeInv, Undecided, OutcomeAgrees

LEMMA OutcomeStep == FlowInv /\ OutcomeInv /\ [Next]_vars => OutcomeInv'
<1>1. ASSUME FlowInv, OutcomeInv, UNCHANGED vars PROVE OutcomeInv'
  BY <1>1 DEF vars, OutcomeInv, Undecided, OutcomeAgrees, Top
<1>2. ASSUME FlowInv, OutcomeInv, Cancel PROVE OutcomeInv'
  <2>1. /\ UNCHANGED <<flow, phase, cur, frames, status, session, reason>>
        /\ phase # "end"
    BY <1>2 DEF Cancel, ending
  <2>2. QED
    BY <1>2, <2>1 DEF OutcomeInv, Undecided, OutcomeAgrees, Top
<1>3. QED
  BY <1>1, <1>2, OutcomeOfMain, OutcomeOfLoop DEF Next

\* However a run ends, what it reports of the session agrees with what it
\* reports of the nodes.
THEOREM OutcomesAgree == Spec => []OutcomeAgrees
<1>1. OutcomeInv => OutcomeAgrees
  BY DEF OutcomeInv
<1>2. QED
  BY <1>1, TypeInit, TypeStep, OutcomeInit, OutcomeStep, PTL DEF Spec

-----------------------------------------------------------------------------
(* Straight flows.                                                          *)

\* The loop over the edges of e's source has been past e.
Sent(e) ==
    /\ e[1] \in executed
    /\ cur.node = e[1] => phase # "run" /\ (phase = "route" => e[2] < route.next)

\* What an edge that was sent leaves behind: its token, or its target known.
HasBrought(e) ==
    LET n == EdgeOf(flow, e).to
    IN  IF Required(flow, n) = {} THEN n \in executed \cup queued
        ELSE TokenOf(flow, e) \in arrived[n]

\* Nothing is lost between the queue, the waiting nodes and the nodes that ran.
ReachInv ==
    Straight(flow) /\ phase # "end" =>
        /\ \A n \in queued : n \in executed \/ HasToken(n)
        /\ \A i \in DOMAIN flow.entry : flow.entry[i] \in queued
        /\ \A e \in Edges(flow) : Sent(e) => HasBrought(e)
        /\ \A n \in Nodes(flow) :
              Required(flow, n) # {} /\ Required(flow, n) \subseteq arrived[n]
                 => n \in executed \cup queued
        /\ phase = "route" =>
              route.port = AnyPort
                \/ (flow.kind[cur.node] = "join" /\ route.port = "out")

LEMMA ReachInit == Init => ReachInv
<1> SUFFICES ASSUME Init PROVE ReachInv
  OBVIOUS
<1>1. \A n \in queued : HasToken(n)
  <2>1. \A i \in DOMAIN flow.entry : i \in DOMAIN queue /\ queue[i].node = flow.entry[i]
    BY DEF Init
  <2>2. QED
    BY <2>1 DEF Init, HasToken
<1>2. \A i \in DOMAIN flow.entry : flow.entry[i] \in queued
  BY DEF Init
<1>3. \A e : ~Sent(e)
  BY DEF Init, Sent
<1>4. \A n \in Nodes(flow) : arrived[n] = {}
  BY DEF Init
<1>5. phase # "route"
  BY DEF Init
<1>6. QED
  BY <1>1, <1>2, <1>3, <1>4, <1>5 DEF ReachInv

\* An edge whose turn has come is followed, and brings what it should.
LEMMA EdgeBrings ==
    ASSUME FlowInv, OnceInv, ReachInv, SendEdge, Straight(flow)
    PROVE  ReachInv'
<1>e. PICK e : e = <<cur.node, route.next>>
  OBVIOUS
<1>n. PICK n : n = EdgeOf(flow, e).to
  OBVIOUS
<1>1. Scalars /\ Tokens /\ Waiting /\ phase = "route" /\ phase' = "route"
  BY TypeParts DEF FlowInv, SendEdge
<1>2. n \in Nodes(flow) /\ e \in Into(flow, n) /\ cur.node \in Nodes(flow)
      /\ e \in Edges(flow)
  BY <1>1, <1>e, <1>n, EdgeInTurn DEF Into
<1>3. UNCHANGED <<flow, cur, executed>>
  BY DEF SendEdge
<1>4. route'.next = route.next + 1 /\ route'.port = route.port /\ route.next \in Nat
  BY <1>1 DEF SendEdge, Waiting
<1>5. Follows(e)
  <2>1. CASE route.port = AnyPort
    BY <2>1 DEF Follows
  <2>2. CASE flow.kind[cur.node] = "join" /\ route.port = "out"
    <3>1. OutPorts(flow, cur.node) \subseteq {"out"}
      BY <1>2, <2>2 DEF Straight
    <3>2. EdgeOf(flow, e).port \in OutPorts(flow, cur.node)
      BY <1>1, <1>e, EdgeInTurn DEF EdgeOf, OutPorts
    <3>3. QED
      BY <2>2, <3>1, <3>2 DEF Follows
  <2>3. QED
    BY <1>1, <2>1, <2>2 DEF ReachInv
<1>6. Again(e, route.again) = FALSE
  <2>1. ~route.again
    BY DEF OnceInv
  <2>2. flow.kind[n] \notin {"if", "while", "retry"}
    BY <1>2 DEF Straight
  <2>3. QED
    BY <1>n, <2>1, <2>2 DEF Again
<1>7. /\ Required(flow, n) = {} => Enqueue(n, FALSE) /\ arrived' = arrived
      /\ Required(flow, n) # {} =>
            /\ arrived' = [arrived EXCEPT ![n] = arrived[n] \cup {TokenOf(flow, e)}]
            /\ IF Required(flow, n) \subseteq arrived[n] \cup {TokenOf(flow, e)}
               THEN Enqueue(n, FALSE) ELSE UNCHANGED queueing
  <2>1. Deliver(e, route.again)
    BY <1>e, <1>5 DEF SendEdge
  <2>2. QED
    BY <1>n, <1>6, <2>1 DEF Deliver, Released
<1>8. UNCHANGED queueing \/ Enqueue(n, FALSE)
  BY <1>7
<1>9. queue \in Seq(Token)
  BY <1>1 DEF Tokens
<1>10. /\ queued \subseteq queued'
       /\ Enqueue(n, FALSE) => n \in executed \cup queued'
  BY <1>8, <1>9, EnqueueIs DEF queueing
<1>11. \A m \in queued' : m \in executed' \/ HasToken(m)'
  <2>1. \A m \in queued : m \in executed \/ \E i \in DOMAIN queue : queue[i].node = m
    BY <1>1 DEF ReachInv, HasToken
  <2>2. \A m \in queued' : m \in executed \/ \E i \in DOMAIN queue' : queue'[i].node = m
    <3>1. CASE UNCHANGED queueing
      BY <2>1, <3>1 DEF queueing
    <3>2. CASE Enqueue(n, FALSE)
      <4>1. /\ \A i \in DOMAIN queue : i \in DOMAIN queue' /\ queue'[i] = queue[i]
            /\ \A m \in queued' \ queued :
                  \E i \in DOMAIN queue' : queue'[i].node = m
        BY <1>9, <3>2, EnqueueIs
      <4>2. QED
        BY <2>1, <4>1
    <3>3. QED
      BY <1>8, <3>1, <3>2
  <2>3. QED
    BY <1>3, <2>2 DEF HasToken
<1>12. ASSUME NEW d \in Edges(flow), Sent(d)' PROVE HasBrought(d)'
  <2>1. CASE d = e
    <3>1. EdgeOf(flow, d).to = n
      BY <1>n, <2>1
    <3>2. CASE Required(flow, n) = {}
      BY <1>3, <1>7, <1>10, <3>1, <3>2 DEF HasBrought
    <3>3. CASE Required(flow, n) # {}
      <4>1. TokenOf(flow, d) \in arrived'[n]
        BY <1>1, <1>2, <1>7, <2>1, <3>3 DEF Waiting
      <4>2. QED
        BY <1>3, <3>1, <3>3, <4>1 DEF HasBrought
    <3>4. QED
      BY <3>2, <3>3
  <2>2. CASE d # e
    <3>1. Sent(d)
      <4>1. d = <<d[1], d[2]>> /\ d[2] \in Nat
        <5>1. d = <<d[1], d[2]>> /\ d[1] \in Nodes(flow) /\ d[2] \in DOMAIN flow.out[d[1]]
          BY EdgeIs
        <5>2. QED
          BY <1>1, <5>1, FlowTyped DEF Scalars
      <4>2. CASE cur.node = d[1]
        <5>1. d[2] # route.next
          BY <1>e, <2>2, <4>1, <4>2
        <5>2. d[2] < route.next + 1
          BY <1>1, <1>3, <1>4, <1>12, <4>2 DEF Sent
        <5>3. d[2] < route.next
          BY <1>4, <4>1, <5>1, <5>2
        <5>4. QED
          BY <1>1, <1>3, <1>12, <5>3 DEF Sent
      <4>3. CASE cur.node # d[1]
        BY <1>3, <1>12, <4>3 DEF Sent
      <4>4. QED
        BY <4>2, <4>3
    <3>2. HasBrought(d)
      BY <1>1, <3>1 DEF ReachInv
    <3>3. EdgeOf(flow, d).to \in Nodes(flow)
      <4>1. d = <<d[1], d[2]>> /\ d[1] \in Nodes(flow) /\ d[2] \in DOMAIN flow.out[d[1]]
        BY EdgeIs
      <4>2. QED
        BY <1>1, <4>1, EdgeFacts DEF Scalars
    <3>4. \A m \in Nodes(flow) : arrived[m] \subseteq arrived'[m]
      BY <1>1, <1>7 DEF Waiting
    <3>5. QED
      BY <1>3, <1>10, <3>2, <3>3, <3>4 DEF HasBrought
  <2>3. QED
    BY <2>1, <2>2
<1>13. ASSUME NEW m \in Nodes(flow), Required(flow, m) # {},
              Required(flow, m) \subseteq arrived'[m]
       PROVE  m \in executed \cup queued'
  <2>1. CASE m = n
    <3>1. arrived'[n] = arrived[n] \cup {TokenOf(flow, e)}
      BY <1>1, <1>2, <1>7, <1>13, <2>1 DEF Waiting
    <3>2. Enqueue(n, FALSE)
      BY <1>7, <1>13, <2>1, <3>1
    <3>3. QED
      BY <1>10, <2>1, <3>2
  <2>2. CASE m # n
    <3>1. arrived'[m] = arrived[m]
      BY <1>1, <1>7, <2>2 DEF Waiting
    <3>2. QED
      BY <1>1, <1>10, <1>13, <3>1 DEF ReachInv
  <2>3. QED
    BY <2>1, <2>2
<1>14. \A d \in Edges(flow) : Sent(d)' => HasBrought(d)'
  BY <1>12
<1>15. QED
  BY <1>1, <1>3, <1>4, <1>10, <1>11, <1>13, <1>14 DEF ReachInv

LEMMA ReachStep == FlowInv /\ OnceInv /\ ReachInv /\ [Next]_vars => ReachInv'
<1> SUFFICES ASSUME FlowInv, OnceInv, ReachInv, [Next]_vars,
                    (Straight(flow) /\ phase # "end")'
               PROVE  ReachInv'
  BY DEF ReachInv
<1>1. CASE UNCHANGED vars
  BY <1>1 DEF vars, ReachInv, HasToken, Sent, HasBrought, memory
<1>2. CASE Next
  <2>1. Shape /\ Scalars /\ Tokens /\ Waiting /\ Loops /\ LoopMemory
    BY <1>2, Shapes, TypeParts DEF FlowInv
  <2>2. flow' = flow
    BY <2>1 DEF Shape, Dispatch, Skip, StartNode, SendStep, Send, SendEdge, JumpDone,
                ForeachStarts, WalkStep, LeaveStep, StopStep, Cancel
  <2>3. Straight(flow)
    BY <2>2
  <2>4. phase # "end"
    BY <2>1 DEF Shape, Dispatch, MayDispatch, Skip, StartNode, SendStep, SendEdge,
                JumpDone, ForeachStarts, Completes, Running, WalkStep, LeaveStep,
                StopStep, Cancel
  <2>5. /\ \A n \in queued : n \in executed \/ HasToken(n)
        /\ \A i \in DOMAIN flow.entry : flow.entry[i] \in queued
        /\ \A e \in Edges(flow) : Sent(e) => HasBrought(e)
        /\ \A n \in Nodes(flow) :
              Required(flow, n) # {} /\ Required(flow, n) \subseteq arrived[n]
                 => n \in executed \cup queued
        /\ phase = "route" =>
              route.port = AnyPort
                \/ (flow.kind[cur.node] = "join" /\ route.port = "out")
    BY <2>3, <2>4 DEF ReachInv
  <2>6. \A n \in Nodes(flow) : flow.kind[n] \in {"start", "task", "fork", "join"}
    BY <2>3 DEF Straight
  \* Steps that send no edge: nothing that was known is forgotten.
  <2>7. ASSUME UNCHANGED <<queued, arrived>>, executed \subseteq executed',
               \A n \in queued : HasToken(n) => n \in executed' \/ HasToken(n)',
               \A e \in Edges(flow) : Sent(e)' => Sent(e),
               phase' = "route" =>
                  \/ route'.port = AnyPort
                  \/ flow.kind[cur.node] = "join" /\ route'.port = "out" /\ cur' = cur
        PROVE  ReachInv'
    <3>1. \A n \in queued' : n \in executed' \/ HasToken(n)'
      BY <2>5, <2>7
    <3>2. \A e \in Edges(flow) : Sent(e)' => HasBrought(e)'
      BY <2>2, <2>5, <2>7 DEF HasBrought
    <3>3. \A n \in Nodes(flow) :
             Required(flow, n) # {} /\ Required(flow, n) \subseteq arrived'[n]
                 => n \in executed' \cup queued'
      BY <2>5, <2>7
    <3>4. QED
      BY <2>2, <2>5, <2>7, <3>1, <3>2, <3>3 DEF ReachInv
  <2>8. CASE Dispatch
    <3>1. queue \in Seq(Token) /\ queue # <<>>
      BY <2>1, <2>8 DEF Tokens, Dispatch
    <3>2. /\ UNCHANGED <<queued, arrived, executed>> /\ phase' = "visit"
          /\ cur' = Head(queue) /\ queue' = Tail(queue)
      BY <2>8 DEF Dispatch, memory
    <3>3. \A n \in queued : HasToken(n) => HasToken(n)'
      <4>1. ASSUME NEW n, NEW i \in DOMAIN queue, queue[i].node = n
            PROVE  cur'.node = n \/ \E j \in DOMAIN queue' : queue'[j].node = n
        BY <3>1, <3>2, <4>1, TailIs
      <4>2. phase # "visit"
        BY <2>8 DEF Dispatch, MayDispatch
      <4>3. QED
        BY <3>2, <4>1, <4>2 DEF HasToken
    <3>4. ASSUME NEW e \in Edges(flow), Sent(e)' PROVE Sent(e)
      <4>1. e[1] \in executed
        BY <3>2, <3>4 DEF Sent
      <4>2. CASE phase = "route" /\ cur.node = e[1]
        <5>1. e[1] \in Nodes(flow) /\ e[2] \in DOMAIN flow.out[e[1]]
          BY EdgeIs
        <5>2. e[2] \in 1 .. Len(flow.out[e[1]]) /\ Len(flow.out[e[1]]) \in Nat
          BY <2>1, <5>1, FlowTyped DEF Scalars
        <5>3. route.next > Len(flow.out[e[1]]) /\ route.next \in Nat
          BY <2>1, <2>8, <4>2 DEF Dispatch, MayDispatch, Waiting
        <5>4. e[2] < route.next
          BY <5>2, <5>3
        <5>5. QED
          BY <4>1, <4>2, <5>4 DEF Sent
      <4>3. CASE ~(phase = "route" /\ cur.node = e[1])
        BY <2>8, <4>1, <4>3 DEF Sent, Dispatch, MayDispatch
      <4>4. QED
        BY <4>2, <4>3
    <3>5. QED
      BY <2>7, <3>2, <3>3, <3>4
  <2>9. CASE Skip
    <3>1. /\ UNCHANGED <<queue, queued, arrived, executed, cur>>
          /\ phase = "visit" /\ phase' = "dispatch" /\ cur.node \in executed
      BY <2>9 DEF Skip, memory, queueing
    <3>2. \A n \in queued : HasToken(n) => n \in executed' \/ HasToken(n)'
      BY <3>1 DEF HasToken
    <3>3. \A e \in Edges(flow) : Sent(e)' => Sent(e)
      BY <3>1 DEF Sent
    <3>4. QED
      BY <2>7, <3>1, <3>2, <3>3
  <2>10. CASE StartNode
    <3>1. /\ UNCHANGED <<queue, queued, arrived, cur>>
          /\ phase = "visit" /\ phase' = "run" /\ executed' = executed \cup {cur.node}
      BY <2>10 DEF StartNode, memory, queueing
    <3>2. \A n \in queued : HasToken(n) => n \in executed' \/ HasToken(n)'
      BY <3>1 DEF HasToken
    <3>3. \A e \in Edges(flow) : Sent(e)' => Sent(e)
      BY <3>1 DEF Sent
    <3>4. QED
      BY <2>7, <3>1, <3>2, <3>3
  <2>11. CASE SendStep
    <3>1. cur.node \in Nodes(flow) /\ phase = "run"
      BY <2>1, <2>11 DEF SendStep, Tokens
    <3>2. PICK p \in Selectable(flow, cur.node), again \in BOOLEAN : Send(p, again)
      BY <2>11 DEF SendStep
    <3>3. /\ UNCHANGED <<queue, queued, executed, cur>> /\ phase' = "route"
          /\ route'.port = p /\ route'.next = 1
      BY <3>2 DEF Send, queueing
    <3>4. arrived' = arrived
      BY <2>6, <2>11, <3>1 DEF SendStep
    <3>5. p = AnyPort \/ (flow.kind[cur.node] = "join" /\ p = "out")
      BY <2>6, <3>1, <3>2 DEF Selectable
    <3>6. \A n \in queued : HasToken(n) => HasToken(n)'
      BY <3>1, <3>3 DEF HasToken
    <3>7. ASSUME NEW e \in Edges(flow), Sent(e)' PROVE Sent(e)
      <4>1. e[2] \in 1 .. Len(flow.out[e[1]]) /\ Len(flow.out[e[1]]) \in Nat
        <5>1. e[1] \in Nodes(flow) /\ e[2] \in DOMAIN flow.out[e[1]]
          BY EdgeIs
        <5>2. QED
          BY <2>1, <5>1, FlowTyped DEF Scalars
      <4>2. ~(e[2] < 1)
        BY <4>1
      <4>3. cur.node # e[1]
        BY <3>3, <3>7, <4>2 DEF Sent
      <4>4. QED
        BY <3>3, <3>7, <4>3 DEF Sent
    <3>8. QED
      BY <2>7, <3>3, <3>4, <3>5, <3>6, <3>7
  <2>12. CASE SendEdge
    BY <2>3, <2>12, EdgeBrings
  <2>13. CASE JumpDone
    BY <2>1, <2>6, <2>13, JumpTyped DEF JumpDone
  <2>14. CASE ForeachStarts
    BY <2>1, <2>6, <2>14 DEF ForeachStarts, Completes, Running, Tokens
  <2>15. CASE WalkStep \/ LeaveStep
    BY <2>1, <2>6, <2>15 DEF WalkStep, LeaveStep, LoopMemory, Tokens
  <2>16. CASE StopStep
    BY <2>16 DEF StopStep
  <2>17. CASE Cancel
    <3>1. UNCHANGED <<queue, queued, arrived, executed, cur, phase, route>>
      BY <2>17 DEF Cancel, memory, queueing
    <3>2. QED
      BY <2>2, <2>3, <2>5, <3>1 DEF ReachInv, HasToken, Sent, HasBrought
  <2>18. QED
    BY <2>1, <2>8, <2>9, <2>10, <2>11, <2>12, <2>13, <2>14, <2>15, <2>16, <2>17
       DEF Shape
<1>3. QED
  BY <1>1, <1>2

\* A session completes only when the last node is done and no token is left.
LEMMA OnlyExhausted ==
    ASSUME FlowInv, OutcomeInv, Next, session # "completed", session' = "completed"
    PROVE  Exhausted
<1>1. CASE MainStep
  <2>1. CASE Dispatch \/ Skip \/ StartNode \/ SendEdge \/ JumpDone \/ ForeachStarts
    BY <2>1 DEF Dispatch, Skip, StartNode, SendEdge, JumpDone, ForeachStarts, ending
  <2>2. CASE PlainDone \/ AskDone \/ AssertDone \/ BranchDone \/ WhileDone
               \/ RetryDone \/ JumpSkipped
    BY <2>2 DEF PlainDone, AskDone, AssertDone, BranchDone, WhileDone, RetryDone,
                JumpSkipped, Send, ending
  <2>3. CASE LimitReached \/ ResourceMissing \/ NodeCancelled \/ NodeFails
               \/ JumpFails \/ ForeachHasNoBody
    BY <2>3 DEF LimitReached, ResourceMissing, NodeCancelled, NodeFails, JumpFails,
                ForeachHasNoBody, EndAs
  <2>4. QED
    BY <1>1, <2>1, <2>2, <2>3 DEF MainStep
<1>2. CASE LoopStep
  <2>1. CASE LoopCancelled \/ BodyLimitReached \/ BodyRevisit \/ BodyFails
               \/ BodyCancelled \/ BodyForeachHasNoBody
    BY <2>1 DEF LoopCancelled, BodyLimitReached, BodyRevisit, BodyFails,
                BodyCancelled, BodyForeachHasNoBody, EndAs
  <2>2. CASE NextItem \/ LoopIsThrough \/ BodyStart \/ BodyGoesOn \/ BodyForeach
               \/ BodyBreak \/ BodyContinue \/ BodyEnd
    BY <2>2 DEF NextItem, LoopIsThrough, BodyStart, BodyGoesOn, BodyForeach, BodyBreak,
                BodyContinue, BodyEnd, BodyCompletes, ending
  <2>3. QED
    BY <1>2, <2>1, <2>2 DEF LoopStep
<1>3. CASE Cancel
  BY <1>3 DEF Cancel, ending
<1>4. QED
  BY <1>1, <1>2, <1>3 DEF Next

\* When no token is left, a node that did not run would have to wait for one
\* that did not run either; in a flow without cycles some node does not.
LEMMA NothingIsLeft ==
    ASSUME FlowInv, ReachInv, Exhausted, Straight(flow)
    PROVE  executed = Nodes(flow)
<1>1. Scalars /\ Tokens /\ Waiting /\ phase # "end" /\ queue = <<>>
      /\ phase \notin {"visit", "run"}
  BY TypeParts DEF FlowInv, Exhausted, MayDispatch
<1>2. executed \subseteq Nodes(flow)
  BY <1>1 DEF Tokens
<1>3. queued \subseteq executed
  BY <1>1 DEF ReachInv, HasToken
<1>4. ASSUME NEW e \in Edges(flow), e[1] \in executed PROVE HasBrought(e)
  <2>1. CASE cur.node = e[1] /\ phase = "route"
    <3>1. e[1] \in Nodes(flow) /\ e[2] \in DOMAIN flow.out[e[1]]
      BY EdgeIs
    <3>2. e[2] \in 1 .. Len(flow.out[e[1]]) /\ Len(flow.out[e[1]]) \in Nat
      BY <1>1, <3>1, FlowTyped DEF Scalars
    <3>3. route.next > Len(flow.out[e[1]]) /\ route.next \in Nat
      BY <1>1, <2>1 DEF Exhausted, MayDispatch, Waiting
    <3>4. e[2] < route.next
      BY <3>2, <3>3
    <3>5. QED
      BY <1>1, <1>4, <2>1, <3>4 DEF Sent, ReachInv
  <2>2. CASE ~(cur.node = e[1] /\ phase = "route")
    BY <1>1, <1>4, <2>2 DEF Sent, ReachInv
  <2>3. QED
    BY <2>1, <2>2
<1>5. ASSUME Nodes(flow) \ executed # {} PROVE FALSE
  <2>1. PICK n \in Nodes(flow) \ executed :
               \A e \in Into(flow, n) : e[1] \notin Nodes(flow) \ executed
    <3>1. Nodes(flow) \ executed \in SUBSET Nodes(flow)
      OBVIOUS
    <3>2. \A S \in SUBSET Nodes(flow) :
             S # {} => \E m \in S : \A e \in Into(flow, m) : e[1] \notin S
      BY DEF Straight
    <3>3. QED
      BY <1>5, <3>1, <3>2
  <2>2. \A e \in Into(flow, n) : e \in Edges(flow) /\ EdgeOf(flow, e).to = n /\ HasBrought(e)
    <3>1. TAKE e \in Into(flow, n)
    <3>2. e \in Edges(flow) /\ EdgeOf(flow, e).to = n
      BY DEF Into
    <3>3. e[1] \in executed
      BY <2>1, <3>2, EdgeIs
    <3>4. QED
      BY <1>4, <3>2, <3>3
  <2>3. \A i \in DOMAIN flow.entry : flow.entry[i] # n
    BY <1>1, <1>3, <2>1 DEF ReachInv
  <2>4. Into(flow, n) # {}
    BY <2>1, <2>3 DEF Straight
  <2>5. CASE Required(flow, n) = {}
    BY <1>3, <2>1, <2>2, <2>4, <2>5 DEF HasBrought
  <2>6. CASE Required(flow, n) # {}
    <3>1. \A e \in Into(flow, n) : TokenOf(flow, e) \in arrived[n]
      BY <2>2, <2>6 DEF HasBrought
    <3>2. Required(flow, n) \subseteq {TokenOf(flow, e) : e \in Into(flow, n)}
      <4>1. CASE flow.kind[n] = "join"
        <5>1. Required(flow, n) = {<<p>> : p \in flow.branches[n]}
          BY <4>1 DEF Required
        <5>2. \A p \in flow.branches[n] : \E e \in Into(flow, n) : EdgeOf(flow, e).at = p
          BY <2>1, <4>1 DEF Straight
        <5>3. \A e \in Into(flow, n) : TokenOf(flow, e) = <<EdgeOf(flow, e).at>>
          BY <2>2, <4>1 DEF TokenOf
        <5>4. QED
          BY <5>1, <5>2, <5>3
      <4>2. CASE flow.kind[n] # "join"
        <5>1. Required(flow, n) \subseteq Into(flow, n)
          BY <4>2 DEF Required
        <5>2. \A e \in Into(flow, n) : TokenOf(flow, e) = e
          BY <2>2, <4>2 DEF TokenOf
        <5>3. QED
          BY <5>1, <5>2
      <4>3. QED
        BY <4>1, <4>2
    <3>3. Required(flow, n) \subseteq arrived[n]
      BY <3>1, <3>2
    <3>4. n \in executed \cup queued
      BY <1>1, <2>1, <2>6, <3>3 DEF ReachInv
    <3>5. QED
      BY <1>3, <2>1, <3>4
  <2>7. QED
    BY <2>5, <2>6
<1>6. QED
  BY <1>2, <1>5

LEMMA ReachedStep ==
    FlowInv /\ OutcomeInv /\ ReachInv /\ AllReached /\ [Next]_vars => AllReached'
<1> SUFFICES ASSUME FlowInv, OutcomeInv, ReachInv, AllReached, [Next]_vars,
                    session' = "completed", Straight(flow)'
               PROVE  (executed = Nodes(flow))'
  BY DEF AllReached
<1>1. CASE UNCHANGED vars
  BY <1>1 DEF vars, AllReached, ending
<1>2. CASE Next
  <2>1. Shape
    BY <1>2, Shapes DEF FlowInv
  <2>2. phase # "end" /\ flow' = flow
    BY <2>1 DEF Shape, Dispatch, MayDispatch, Skip, StartNode, SendStep, Send, SendEdge,
                JumpDone, ForeachStarts, Completes, Running, WalkStep, LeaveStep,
                StopStep, Cancel
  <2>3. session # "completed"
    BY <2>2 DEF OutcomeInv, Undecided
  <2>4. Exhausted
    BY <1>2, <2>3, OnlyExhausted
  <2>5. UNCHANGED <<flow, executed>>
    BY <2>4 DEF Exhausted
  <2>6. QED
    BY <2>4, <2>5, NothingIsLeft
<1>3. QED
  BY <1>1, <1>2

\* In a flow of steps, forks and joins that is fully connected and has no
\* cycle, a session that completes has executed every node: no node waits for
\* a token that never comes.
THEOREM EveryNodeIsReached == Spec => []AllReached
<1>1. Init => AllReached
  BY DEF Init, AllReached
<1>2. QED
  BY <1>1, TypeInit, TypeStep, OnceInit, OnceStep, OutcomeInit, OutcomeStep, ReachInit,
     ReachStep, ReachedStep, PTL DEF Spec


---------------------------------------------------------------------------
(* The components of a project, one of which runs.                       *)

\* Each of them sees a run of its own: what the others do is no step of it.
LEMMA EachPartRuns ==
    ProjectSpec => /\ Spec /\ DocumentsSpec /\ ConfigurationSpec
                   /\ PythonSpec /\ ResourcesSpec /\ GraphSpec /\ PackagesSpec
<1>1. ProjectInit => /\ Init /\ DocumentsInit /\ ConfigurationInit
                     /\ PythonInit /\ ResourcesInit /\ GraphInit /\ PackagesInit
  BY DEF ProjectInit
<1>2. [ProjectNext]_projectVars => /\ [Next]_vars /\ [DocumentsNext]_docVars
                                   /\ [ConfigurationNext]_confVars
                                   /\ [PythonNext]_pyVars /\ [ResourcesNext]_resVars
                                   /\ [GraphNext]_graphVars /\ [PackagesNext]_pkVars
  <2> SUFFICES ASSUME [ProjectNext]_projectVars
               PROVE  /\ [Next]_vars /\ [DocumentsNext]_docVars
                      /\ [ConfigurationNext]_confVars
                      /\ [PythonNext]_pyVars /\ [ResourcesNext]_resVars
                      /\ [GraphNext]_graphVars /\ [PackagesNext]_pkVars
    OBVIOUS
  <2>1. CASE UNCHANGED projectVars
    BY <2>1 DEF projectVars
  <2>2. CASE ProjectNext
    <3>1. CASE Next /\ UNCHANGED <<docVars, confVars, pyVars, resVars, graphVars, pkVars>>
      BY <3>1
    <3>2. CASE DocumentsNext /\ UNCHANGED <<vars, confVars, pyVars, resVars, graphVars, pkVars>>
      BY <3>2
    <3>3. CASE ConfigurationNext /\ UNCHANGED <<vars, docVars, pyVars, resVars, graphVars, pkVars>>
      BY <3>3
    <3>4. CASE PythonNext /\ UNCHANGED <<vars, docVars, confVars, resVars, graphVars, pkVars>>
      BY <3>4
    <3>5. CASE ResourcesNext /\ UNCHANGED <<vars, docVars, confVars, pyVars, graphVars, pkVars>>
      BY <3>5
    <3>6. CASE GraphNext /\ UNCHANGED <<vars, docVars, confVars, pyVars, resVars, pkVars>>
      BY <3>6
    <3>7. CASE PackagesNext /\ UNCHANGED <<vars, docVars, confVars, pyVars, resVars, graphVars>>
      BY <3>7
    <3> QED
      BY <2>2, <3>1, <3>2, <3>3, <3>4, <3>5, <3>6, <3>7 DEF ProjectNext
  <2> QED
    BY <2>1, <2>2
<1> QED
  BY <1>1, <1>2, PTL DEF ProjectSpec, Spec, DocumentsSpec, ConfigurationSpec,
                         PythonSpec, ResourcesSpec, GraphSpec, PackagesSpec

\* Whichever component runs, the variables of all of them keep their types.
THEOREM ProjectTypeSafe == ProjectSpec => []ProjectTypeOK
<1>1. /\ TypeOK /\ DocumentsTypeOK /\ ConfigurationTypeOK
      /\ PythonTypeOK /\ ResourcesTypeOK /\ GraphTypeOK /\ PackagesTypeOK
      => ProjectTypeOK
  BY DEF ProjectTypeOK
<1> QED
  BY <1>1, EachPartRuns, TypeCorrect, DocumentsTypes, ConfigurationTypeSafe,
     PythonTypeSafe, ResourcesTypeSafe, GraphTypeSafe, PackagesTypeSafe, PTL
=============================================================================
