-------------------------- MODULE DocumentsProofs --------------------------
(***************************************************************************)
(* Proofs about documents, for any clients, graphs, projects and sessions: *)
(* what a graph that the validation accepts compiles to can be run, and so *)
(* can every plan that a request has prepared, and what the workspace says *)
(* of its graph is true as long as requests follow each other; a graph that *)
(* was normalised has nothing left to normalise, so that reading saves     *)
(* nothing; and no client overwrites a graph it has not seen, and a        *)
(* workspace that calls itself saved is.                                   *)
(***************************************************************************)
EXTENDS GraphCompilation, ProjectDocuments, FilteringProofs, TLAPS

-----------------------------------------------------------------------------
(* GraphRules: plans.                                                        *)

LEMMA EntryIsSingle ==
    ASSUME NEW g, NEW R, StartIsSound(g), BoundaryIsSound(g)
    PROVE  /\ ~Several(PlanOf(g, R).entry)
           /\ g.role \in {"main", "component"} => Single(PlanOf(g, R).entry)
<1>1. CASE g.role = "component"
  <2>1. Single(OfKind(g, "entry"))
    BY <1>1 DEF BoundaryIsSound
  <2>2. OfKind(g, "entry") \cup OfKind(g, "exit") # {}
    BY <2>1 DEF Single
  <2> QED
    BY <2>1, <2>2 DEF PlanOf, PlanFrom, Single, Several
<1>2. CASE g.role # "component"
  <2>1. OfKind(g, "entry") \cup OfKind(g, "exit") = {}
    BY <1>2 DEF BoundaryIsSound
  <2>2. PlanOf(g, R).entry = OfKind(g, "start")
    BY <2>1 DEF PlanOf, PlanFrom
  <2>3. ~Several(OfKind(g, "start")) /\ (g.role = "main" => OfKind(g, "start") # {})
    BY DEF StartIsSound
  <2> QED
    BY <1>2, <2>2, <2>3 DEF Single, Several
<1> QED
  BY <1>1, <1>2

\* A join of an accepted graph waits for several ports: the validation counts
\* its branches by their slots, the scheduler collects the ids of the ports.
LEMMA JoinWaitsForSeveral ==
    ASSUME NEW g, IdsAreDistinct(g), NEW n \in Elems(g.nodes), n.kind = "join",
           ControlIsSound(n)
    PROVE  Several(WaitsFor(n))
<1>1. Several(BranchPorts(n, In))
  BY DEF ControlIsSound
<1>2. PICK i, j \in BranchPorts(n, In) : i # j
  BY <1>1 DEF Several
<1>3. i \in DOMAIN n.ports /\ j \in DOMAIN n.ports
  BY <1>2 DEF BranchPorts
<1>4. n.ports[i].id # n.ports[j].id
  BY <1>2, <1>3 DEF IdsAreDistinct
<1>5. ASSUME NEW k \in BranchPorts(n, In) PROVE n.ports[k].id \in WaitsFor(n)
  <2>1. /\ k \in DOMAIN n.ports /\ n.ports[k].dir = In
        /\ Len(n.ports[k].slot) > 2 /\ n.ports[k].slot[2] = "branch" /\ n.ports[k].slot[1] = "in"
    BY <1>5 DEF BranchPorts
  <2>2. n.ports[k] \in Elems(n.ports)
    BY <2>1 DEF Elems
  <2> QED
    BY <2>1, <2>2 DEF WaitsFor
<1> QED
  BY <1>2, <1>4, <1>5 DEF Several

\* An accepted graph with nodes makes a plan that can be run, whatever the resources are by
\* the time the plan is built.
LEMMA AcceptedIsRunnable ==
    ASSUME NEW g, NEW R, NEW S, Acceptable(g, R), g.nodes # <<>>
    PROVE  Runnable(PlanOf(g, S))
<1> DEFINE p == PlanOf(g, S)
<1>1. /\ p.nodes = g.nodes /\ p.edges = g.edges /\ p.role = g.role
      /\ p.mode = IF p.entry = {} THEN "legacy_sequence" ELSE "flow_graph"
  BY DEF PlanOf, PlanFrom
<1>2. ~Several(p.entry) /\ (g.role \in {"main", "component"} => Single(p.entry))
  BY EntryIsSingle DEF Acceptable
<1>3. ASSUME NEW e \in Elems(g.edges)
      PROVE  /\ \E m, n \in Elems(g.nodes) : m.id = e.from /\ n.id = e.to
             /\ \A m, n \in Elems(g.nodes) :
                   (m.id = e.from /\ n.id = e.to /\ e.fromPort # NoPort /\ e.toPort # NoPort)
                   => /\ Named(m, e.fromPort, Out) # {} /\ Named(n, e.toPort, In) # {}
                      /\ PortNamed(m, e.fromPort, Out).layer = PortNamed(n, e.toPort, In).layer
  <2>1. EdgeIsSound(g, e)
    BY <1>3 DEF Acceptable
  <2>2. \E m, n \in Elems(g.nodes) : m.id = e.from /\ n.id = e.to
    BY <2>1 DEF EdgeIsSound, NodeIds, Elems
  <2> QED
    BY <2>1, <2>2 DEF EdgeIsSound
<1>4. ASSUME NEW e \in Elems(g.edges), e.layer = "control", NEW i \in p.entry,
             g.nodes[i].kind = "start"
      PROVE  e.to # g.nodes[i].id
  <2>1. i \in OfKind(g, "start")
    BY <1>4 DEF PlanOf, PlanFrom, OfKind
  <2>2. PICK k \in DOMAIN g.edges : e = g.edges[k]
    BY <1>4 DEF Elems
  <2> QED
    BY <1>4, <2>1, <2>2 DEF Acceptable, StartIsSound
<1>5. ASSUME NEW n \in Elems(g.nodes)
      PROVE  /\ n.kind = "join" => Several(WaitsFor(n))
             /\ n.kind = "retry" => n.cfg.attempts >= 1
             /\ \A m \in Elems(g.nodes) : m.id = n.id => m = n
  <2>1. ControlIsSound(n) /\ IdsAreDistinct(g)
    BY <1>5 DEF Acceptable
  <2>2. n.kind = "join" => Several(WaitsFor(n))
    BY <1>5, <2>1, JoinWaitsForSeveral
  <2>3. n.kind = "retry" => n.cfg.attempts >= 1
    BY <2>1 DEF ControlIsSound
  <2>4. \A m \in Elems(g.nodes) : m.id = n.id => m = n
    BY <1>5, <2>1 DEF IdsAreDistinct, Elems
  <2> QED
    BY <2>2, <2>3, <2>4
<1>6. /\ p.role \in {"main", "component"} => p.mode = "flow_graph"
      /\ p.mode = "flow_graph" => Single(p.entry)
  BY <1>1, <1>2 DEF Single, Several
<1> QED
  BY <1>1, <1>2, <1>3, <1>4, <1>5, <1>6 DEF Runnable

\* Whether a plan can be run does not depend on the states of the resources.
LEMMA ResourcesDoNotMatter ==
    ASSUME NEW g, NEW R, NEW S, Runnable(PlanOf(g, R))
    PROVE  Runnable(PlanOf(g, S))
<1>1. /\ PlanOf(g, S).nodes = PlanOf(g, R).nodes
      /\ PlanOf(g, S).edges = PlanOf(g, R).edges
      /\ PlanOf(g, S).entry = PlanOf(g, R).entry
      /\ PlanOf(g, S).role = PlanOf(g, R).role /\ PlanOf(g, S).mode = PlanOf(g, R).mode
  BY DEF PlanOf, PlanFrom
<1> QED
  BY <1>1 DEF Runnable

(* ---------------------------------------------------------------- *)
(* The requests. The plan is built by the last step of a request that *)
(* was preceded by its judgement, so the program of a thread is one of *)
(* a few that end in a plan or one without.                           *)

OtherSteps ==
    {"assign", "refresh", "read", "validate", "stamp", "view", "normalise", "persist", "note",
     "check", "patch", "judge", "reserve", "remember", "toggle", "redraw"}
Planning ==
    {<<"read", "judge", "plan">>, <<"normalise", "judge", "plan">>,
     <<"assign", "judge", "plan">>, <<"judge", "plan">>, <<"plan">>}

Fields == DOMAIN Idling("none", FALSE, FALSE)

\* A thread plans only what it judged, with a good result, as a document; what
\* it has planned can be run.
ThreadIsSound(t) ==
    /\ DOMAIN t = Fields
    /\ t.todo \in Seq(OtherSteps) \cup Planning
    /\ t.todo \in Planning => t.ask \in {"prepare", "prepare_document"}
    /\ (t.todo = <<"plan">> /\ t.ok) => Runnable(PlanOf(Compiled(t.doc), {}))
    /\ t.answer = "planned" => Runnable(t.plan)

ThreadsAreSound ==
    /\ thread = [c \in Clients |-> thread[c]]
    /\ \A c \in Clients : ThreadIsSound(thread[c])

LEMMA FieldNames ==
    Fields = {"todo", "ask", "doc", "ops", "named", "strict", "noted", "seq", "ok", "plan",
              "copy", "answer", "due", "lone"}
BY DEF Fields, Idling

LEMMA IdlingIsSound ==
    ASSUME NEW answer, NEW due, NEW lone, NEW plan, NEW ask,
           answer = "planned" => Runnable(plan)
    PROVE  ThreadIsSound([Idling(answer, due, lone) EXCEPT !.plan = plan, !.ask = ask])
<1> DEFINE t == [Idling(answer, due, lone) EXCEPT !.plan = plan, !.ask = ask]
<1>1. t.todo = <<>> /\ t.answer = answer /\ t.plan = plan
  BY DEF Idling
<1>2. DOMAIN t = Fields
  BY FieldNames DEF Idling
<1>3. <<>> \in Seq(OtherSteps)
  OBVIOUS
<1>4. <<>> \notin Planning /\ <<>> # <<"plan">>
  BY DEF Planning
<1> HIDE DEF t
<1>5. ThreadIsSound(t)
  BY <1>1, <1>2, <1>3, <1>4 DEF ThreadIsSound
<1> QED
  BY <1>5 DEF t

\* A step of a thread that leaves it sound keeps the invariant.
LEMMA GoKeepsSound ==
    ASSUME ThreadsAreSound, NEW c \in Clients, NEW t, Go(c, t), ThreadIsSound(t)
    PROVE  ThreadsAreSound'
<1> DEFINE u == IF t.todo = <<>>
                THEN [Idling(t.answer, t.due, t.lone) EXCEPT !.plan = t.plan, !.ask = t.ask]
                ELSE t
<1>1. thread' = [thread EXCEPT ![c] = u]
  BY DEF Go
<1>2. ThreadIsSound(u)
  BY IdlingIsSound DEF ThreadIsSound
<1>3. thread' = [d \in Clients |-> IF d = c THEN u ELSE thread[d]]
  BY <1>1 DEF ThreadsAreSound
<1>4. \A d \in Clients : ThreadIsSound(thread'[d])
  BY <1>2, <1>3 DEF ThreadsAreSound
<1>5. thread' = [d \in Clients |-> thread'[d]]
  BY <1>3
<1> QED
  BY <1>4, <1>5 DEF ThreadsAreSound

\* What is left of a program after a step that neither judges nor plans.
LEMMA Left ==
    ASSUME NEW u, ThreadIsSound(u), u.todo # <<>>, Head(u.todo) \notin {"judge", "plan"}
    PROVE  \/ Tail(u.todo) \in Seq(OtherSteps)
           \/ u.todo \in Planning /\ Tail(u.todo) = <<"judge", "plan">>
<1>1. CASE u.todo \in Seq(OtherSteps)
  BY <1>1
<1>2. CASE u.todo \in Planning
  <2>1. \A a, b, d : Tail(<<a, b, d>>) = <<b, d>>
    OBVIOUS
  <2>2. Head(<<"judge", "plan">>) = "judge" /\ Head(<<"plan">>) = "plan"
    OBVIOUS
  <2>3. u.todo \in {<<"read", "judge", "plan">>, <<"normalise", "judge", "plan">>,
                    <<"assign", "judge", "plan">>}
    BY <1>2, <2>2 DEF Planning
  <2>4. PICK x : u.todo = <<x, "judge", "plan">>
    BY <2>3
  <2>5. Tail(u.todo) = <<"judge", "plan">>
    BY <2>1, <2>4
  <2> QED
    BY <1>2, <2>5
<1> QED
  BY <1>1, <1>2 DEF ThreadIsSound

LEMMA NoPlanAmongOthers ==
    ASSUME NEW s \in Seq(OtherSteps)
    PROVE  s \notin Planning
<1> SUFFICES ASSUME s \in Planning PROVE FALSE
  OBVIOUS
<1>1. s # <<>> /\ s[Len(s)] = "plan"
  <2>1. \A a, b : LET t == <<a, b, "plan">> IN t # <<>> /\ t[Len(t)] = "plan"
    OBVIOUS
  <2>2. \A a : LET t == <<a, "plan">> IN t # <<>> /\ t[Len(t)] = "plan"
    OBVIOUS
  <2>3. <<"plan">> # <<>> /\ <<"plan">>[Len(<<"plan">>)] = "plan"
    OBVIOUS
  <2> QED
    BY <2>1, <2>2, <2>3 DEF Planning
<1>2. s[Len(s)] \in OtherSteps
  BY <1>1
<1> QED
  BY <1>1, <1>2 DEF OtherSteps

\* The thread goes on with less to do, and with what it has planned so far.
LEMMA LessToDoIsSound ==
    ASSUME NEW u, ThreadIsSound(u), NEW t, DOMAIN t = Fields, t.ask = u.ask,
           \/ t.todo \in Seq(OtherSteps)
           \/ u.todo \in Planning /\ t.todo \in Planning /\ t.todo # <<"plan">>,
           t.answer = "planned" => u.answer = "planned" /\ t.plan = u.plan
    PROVE  ThreadIsSound(t)
<1>1. CASE t.todo \in Seq(OtherSteps)
  <2>1. t.todo \notin Planning
    BY <1>1, NoPlanAmongOthers
  <2>2. t.todo # <<"plan">>
    BY <2>1 DEF Planning
  <2> QED
    BY <1>1, <2>1, <2>2 DEF ThreadIsSound
<1>2. CASE u.todo \in Planning /\ t.todo \in Planning /\ t.todo # <<"plan">>
  BY <1>2 DEF ThreadIsSound
<1> QED
  BY <1>1, <1>2

LEMMA Prepended ==
    ASSUME NEW a, NEW b, NEW d
    PROVE  <<a>> \o <<b, d>> = <<a, b, d>>
<1> DEFINE S == {a, b, d}
<1>1. <<a>> \in Seq(S) /\ <<b, d>> \in Seq(S)
  OBVIOUS
<1>2. /\ <<a>> \o <<b, d>> \in Seq(S) /\ Len(<<a>> \o <<b, d>>) = 3
      /\ (<<a>> \o <<b, d>>)[1] = a /\ (<<a>> \o <<b, d>>)[2] = b /\ (<<a>> \o <<b, d>>)[3] = d
  BY <1>1
<1>3. ASSUME NEW w \in Seq(S), Len(w) = 3, w[1] = a, w[2] = b, w[3] = d
      PROVE  w = <<a, b, d>>
  <2>1. <<a, b, d>> \in Seq(S) /\ Len(<<a, b, d>>) = 3
    OBVIOUS
  <2> QED
    BY <1>3, <2>1, SeqEqual
<1> QED
  BY <1>2, <1>3

\* The step that writes the store, with the assignment that follows it.
LEMMA MutateKeepsSound ==
    ASSUME ThreadsAreSound, NEW c \in Clients, NEW state, NEW t, MutateGraph(c, state, t),
           DOMAIN t = Fields, t.ask = thread[c].ask,
           \/ t.todo \in Seq(OtherSteps)
           \/ thread[c].todo \in Planning /\ t.todo = <<"judge", "plan">>,
           t.answer = "planned" => thread[c].answer = "planned" /\ t.plan = thread[c].plan
    PROVE  ThreadsAreSound'
<1> DEFINE w == [t EXCEPT !.todo = <<"assign">> \o @, !.copy = <<state>>]
<1>1. Go(c, w)
  BY DEF MutateGraph
<1>2. /\ DOMAIN w = Fields /\ w.todo = <<"assign">> \o t.todo
      /\ w.ask = t.ask /\ w.answer = t.answer /\ w.plan = t.plan
  BY FieldNames
<1> HIDE DEF w
<1>3. \/ w.todo \in Seq(OtherSteps)
      \/ thread[c].todo \in Planning /\ w.todo \in Planning /\ w.todo # <<"plan">>
  <2>1. CASE t.todo \in Seq(OtherSteps)
    <3>1. <<"assign">> \in Seq(OtherSteps)
      BY DEF OtherSteps
    <3> QED
      BY <1>2, <2>1, <3>1
  <2>2. CASE thread[c].todo \in Planning /\ t.todo = <<"judge", "plan">>
    <3>1. w.todo = <<"assign">> \o <<"judge", "plan">>
      BY <1>2, <2>2
    <3>2. w.todo = <<"assign", "judge", "plan">>
      BY <3>1, Prepended
    <3>3. <<"assign", "judge", "plan">> # <<"plan">>
      OBVIOUS
    <3> QED
      BY <2>2, <3>2, <3>3 DEF Planning
  <2> QED
    BY <2>1, <2>2
<1>4. ThreadIsSound(thread[c])
  BY DEF ThreadsAreSound
<1>5. ThreadIsSound(w)
  BY <1>2, <1>3, <1>4, LessToDoIsSound
<1> QED
  BY <1>1, <1>5, GoKeepsSound

LEMMA ProgramsAreSound ==
    ASSUME NEW ask \in GraphAsks
    PROVE  /\ Program(ask) \in Seq(OtherSteps) \cup Planning
           /\ Program(ask) \in Planning => ask \in {"prepare", "prepare_document"}
           /\ Program(ask) # <<"plan">>
<1>1. /\ Revalidate \in Seq(OtherSteps) /\ View \in Seq(OtherSteps) /\ Saving \in Seq(OtherSteps)
      /\ <<"read", "read", "note">> \in Seq(OtherSteps)
      /\ <<"check", "read", "patch">> \in Seq(OtherSteps)
      /\ <<"check", "read", "patch", "refresh">> \in Seq(OtherSteps)
      /\ <<"read", "note", "judge", "reserve", "remember">> \in Seq(OtherSteps)
      /\ <<"note", "judge", "reserve", "remember">> \in Seq(OtherSteps)
      /\ <<"judge", "reserve", "remember">> \in Seq(OtherSteps)
      /\ <<"toggle">> \in Seq(OtherSteps) /\ <<"redraw">> \in Seq(OtherSteps)
  BY DEF Revalidate, View, Saving, OtherSteps
<1>2. CASE ask \in {"prepare", "prepare_document"}
  BY <1>2 DEF Program, Planning
<1>3. CASE ask \notin {"prepare", "prepare_document"}
  <2>1. Program(ask) \in Seq(OtherSteps)
    BY <1>1, <1>3 DEF Program, GraphAsks
  <2>2. Program(ask) \notin Planning
    BY <2>1, NoPlanAmongOthers
  <2> QED
    BY <2>1, <2>2 DEF Planning
<1> QED
  BY <1>2, <1>3

(* ---------------------------------------------------------------- *)
(* The actions.                                                     *)

\* A step that neither judges nor plans, and changes nothing else that matters.
LEMMA PlainStep ==
    ASSUME ThreadsAreSound, NEW c \in Clients, NEW t, Go(c, t), Underway(c),
           Head(thread[c].todo) \notin {"judge", "plan"},
           DOMAIN t = Fields, t.ask = thread[c].ask,
           t.todo \in Seq(OtherSteps) \/ t.todo = Remaining(c),
           t.answer = "planned" => thread[c].answer = "planned" /\ t.plan = thread[c].plan
    PROVE  ThreadsAreSound'
<1>1. ThreadIsSound(thread[c])
  BY DEF ThreadsAreSound
<1>2. \/ t.todo \in Seq(OtherSteps)
      \/ thread[c].todo \in Planning /\ t.todo = <<"judge", "plan">>
  BY <1>1, Left DEF Underway, Remaining
<1>3. <<"judge", "plan">> \in Planning /\ <<"judge", "plan">> # <<"plan">>
  BY DEF Planning
<1>4. ThreadIsSound(t)
  BY <1>1, <1>2, <1>3, LessToDoIsSound
<1> QED
  BY <1>4, GoKeepsSound

LEMMA WritingStep ==
    ASSUME ThreadsAreSound, NEW c \in Clients, NEW state, NEW t, MutateGraph(c, state, t),
           Underway(c), Head(thread[c].todo) \notin {"judge", "plan"},
           DOMAIN t = Fields, t.ask = thread[c].ask, t.todo = Remaining(c),
           t.answer = "planned" => thread[c].answer = "planned" /\ t.plan = thread[c].plan
    PROVE  ThreadsAreSound'
<1>1. ThreadIsSound(thread[c])
  BY DEF ThreadsAreSound
<1>2. \/ t.todo \in Seq(OtherSteps)
      \/ thread[c].todo \in Planning /\ t.todo = <<"judge", "plan">>
  BY <1>1, Left DEF Underway, Remaining
<1> QED
  BY <1>2, MutateKeepsSound

LEMMA StoppingStep ==
    ASSUME ThreadsAreSound, NEW c \in Clients, NEW answer, GiveUp(c, answer),
           answer # "planned"
    PROVE  ThreadsAreSound'
<1> DEFINE t == [thread[c] EXCEPT !.todo = <<>>, !.answer = answer]
<1>1. ThreadIsSound(thread[c])
  BY DEF ThreadsAreSound
<1>2. DOMAIN thread[c] = Fields
  BY <1>1 DEF ThreadIsSound
<1>3. DOMAIN t = Fields /\ t.todo = <<>> /\ t.answer = answer /\ t.ask = thread[c].ask
  BY <1>2, FieldNames
<1>4. Go(c, t)
  BY DEF GiveUp
<1> HIDE DEF t
<1>5. t.todo \in Seq(OtherSteps)
  BY <1>3
<1>6. ThreadIsSound(t)
  BY <1>1, <1>3, <1>5, LessToDoIsSound
<1> QED
  BY <1>4, <1>6, GoKeepsSound

\* A request that enters finds a program, no result and no plan.
LEMMA EnterKeepsSound ==
    ASSUME GraphAssumption, ThreadsAreSound, NEW c \in Clients, EnterRequest(c)
    PROVE  ThreadsAreSound'
<1> DEFINE lone == \A d \in Clients : ~Underway(d)
           made(r) == Patched(Normalised(gStore.graph, gStore.res), r.ops, gStore.res)
           hasDue(r, named) == /\ lone /\ r.ask = "apply" /\ named = gStore.rev
                               /\ made(r) # Rejected /\ Valid(made(r), gStore.res)
<1>1. PICK r \in Requests, named \in {gStore.rev, gStore.rev - 1} \cap Nat :
        thread' = [d \in Clients |->
           IF d # c THEN [thread[d] EXCEPT !.lone = FALSE]
           ELSE [Idling("none", hasDue(r, named), lone) EXCEPT
                   !.todo = Program(r.ask), !.ask = r.ask, !.doc = r.doc,
                   !.ops = r.ops, !.named = named, !.strict = r.strict]]
  BY Zenon DEF EnterRequest
<1> DEFINE due == hasDue(r, named)
<1> HIDE DEF lone, made, hasDue
<1> DEFINE u(d) == [thread[d] EXCEPT !.lone = FALSE]
           t == [Idling("none", due, lone) EXCEPT
                   !.todo = Program(r.ask), !.ask = r.ask, !.doc = r.doc,
                   !.ops = r.ops, !.named = named, !.strict = r.strict]
<1>2. ASSUME NEW d \in Clients PROVE ThreadIsSound(u(d))
  <2>1. ThreadIsSound(thread[d]) /\ DOMAIN thread[d] = Fields
    BY DEF ThreadsAreSound, ThreadIsSound
  <2>2. /\ DOMAIN u(d) = Fields /\ u(d).todo = thread[d].todo /\ u(d).ask = thread[d].ask
        /\ u(d).ok = thread[d].ok /\ u(d).doc = thread[d].doc
        /\ u(d).answer = thread[d].answer /\ u(d).plan = thread[d].plan
    BY <2>1, FieldNames
  <2> HIDE DEF u
  <2> QED
    BY <2>1, <2>2 DEF ThreadIsSound
<1>3. ThreadIsSound(t)
  <2>1. DOMAIN t = Fields /\ t.todo = Program(r.ask) /\ t.ask = r.ask /\ t.answer = "none"
    BY FieldNames DEF Idling
  <2>2. r.ask \in GraphAsks
    BY DEF GraphAssumption
  <2> HIDE DEF t
  <2> QED
    BY <2>1, <2>2, ProgramsAreSound DEF ThreadIsSound
<1>4. thread' = [d \in Clients |-> IF d # c THEN u(d) ELSE t]
  BY <1>1
<1> HIDE DEF u, t
<1>5. \A d \in Clients : ThreadIsSound(thread'[d])
  BY <1>2, <1>3, <1>4
<1>6. thread' = [d \in Clients |-> thread'[d]]
  BY <1>4
<1> QED
  BY <1>5, <1>6 DEF ThreadsAreSound

\* What is judged well can be run once it is a plan.
LEMMA JudgeKeepsSound ==
    ASSUME ThreadsAreSound, NEW c \in Clients, JudgeGraph(c)
    PROVE  ThreadsAreSound'
<1> DEFINE u == thread[c]
           good == (u.ask = "source" \/ Acceptable(u.doc, gMem.res)) /\ Compiled(u.doc) # Rejected
           t == [u EXCEPT !.todo = Remaining(c), !.ok = good]
<1>1. ThreadIsSound(u) /\ DOMAIN u = Fields
  BY DEF ThreadsAreSound, ThreadIsSound
<1>2. u.todo # <<>> /\ Head(u.todo) = "judge" /\ Go(c, t)
  BY DEF JudgeGraph, AtStep, Underway
<1>3. /\ DOMAIN t = Fields /\ t.todo = Tail(u.todo) /\ t.ok = good /\ t.doc = u.doc
      /\ t.ask = u.ask /\ t.answer = u.answer /\ t.plan = u.plan
  BY <1>1, FieldNames DEF Remaining
<1>4. CASE u.todo \in Seq(OtherSteps)
  <2>1. Tail(u.todo) \in Seq(OtherSteps)
    BY <1>2, <1>4
  <2> HIDE DEF t, u
  <2>2. ThreadIsSound(t)
    BY <1>1, <1>3, <2>1, LessToDoIsSound
  <2> QED
    BY <1>2, <2>2, GoKeepsSound
<1>5. CASE u.todo \in Planning
  <2>1. u.todo = <<"judge", "plan">>
    <3>1. \A x, y, z : Head(<<x, y, z>>) = x
      OBVIOUS
    <3>2. Head(<<"plan">>) = "plan"
      OBVIOUS
    <3> QED
      BY <1>2, <1>5, <3>1, <3>2 DEF Planning
  <2>2. Tail(u.todo) = <<"plan">>
    BY <2>1
  <2>3. u.ask \in {"prepare", "prepare_document"}
    BY <1>1, <1>5 DEF ThreadIsSound
  <2>4. ASSUME good PROVE Runnable(PlanOf(Compiled(u.doc), {}))
    <3>1. Acceptable(u.doc, gMem.res) /\ Compiled(u.doc) = u.doc /\ u.doc.nodes # <<>>
      BY <2>3, <2>4 DEF Compiled
    <3> QED
      BY <3>1, AcceptedIsRunnable
  <2>5. <<"plan">> \in Planning
    BY DEF Planning
  <2> HIDE DEF t, u, good
  <2>6. ThreadIsSound(t)
    BY <1>1, <1>3, <2>2, <2>3, <2>4, <2>5 DEF ThreadIsSound
  <2> QED
    BY <1>2, <2>6, GoKeepsSound
<1> QED
  BY <1>1, <1>4, <1>5 DEF ThreadIsSound

LEMMA PlanKeepsSound ==
    ASSUME ThreadsAreSound, NEW c \in Clients, BuildPlan(c)
    PROVE  ThreadsAreSound'
<1> DEFINE u == thread[c]
<1>1. ThreadIsSound(u) /\ DOMAIN u = Fields
  BY DEF ThreadsAreSound, ThreadIsSound
<1>2. u.todo # <<>> /\ Head(u.todo) = "plan"
  BY DEF BuildPlan, AtStep, Underway
<1>3. u.todo = <<"plan">>
  <2>1. u.todo \notin Seq(OtherSteps)
    BY <1>2 DEF OtherSteps
  <2>2. \A x, y, z : Head(<<x, y, z>>) = x
    OBVIOUS
  <2>3. Head(<<"judge", "plan">>) = "judge"
    OBVIOUS
  <2> QED
    BY <1>1, <1>2, <2>1, <2>2, <2>3 DEF Planning, ThreadIsSound
<1>4. Remaining(c) = <<>> /\ <<>> \in Seq(OtherSteps)
  BY <1>3 DEF Remaining
<1>5. <<>> \notin Planning /\ <<>> # <<"plan">>
  BY <1>4, NoPlanAmongOthers
<1>6. CASE u.ok
  <2> DEFINE t == [u EXCEPT !.todo = Remaining(c), !.answer = "planned",
                            !.plan = PlanOf(Compiled(u.doc), gMem.res)]
  <2>1. Go(c, t)
    BY <1>6 DEF BuildPlan
  <2>2. DOMAIN t = Fields /\ t.todo = <<>> /\ t.plan = PlanOf(Compiled(u.doc), gMem.res)
    BY <1>1, <1>4, FieldNames
  <2>3. Runnable(PlanOf(Compiled(u.doc), gMem.res))
    BY <1>1, <1>3, <1>6, ResourcesDoNotMatter DEF ThreadIsSound
  <2> HIDE DEF t
  <2>4. ThreadIsSound(t)
    BY <1>4, <1>5, <2>2, <2>3 DEF ThreadIsSound
  <2> QED
    BY <2>1, <2>4, GoKeepsSound
<1>7. CASE ~u.ok
  <2> DEFINE t == [u EXCEPT !.todo = Remaining(c), !.answer = "failed"]
  <2>1. Go(c, t)
    BY <1>7 DEF BuildPlan
  <2>2. DOMAIN t = Fields /\ t.todo = <<>> /\ t.answer = "failed" /\ t.ask = u.ask
    BY <1>1, <1>4, FieldNames
  <2> HIDE DEF t, u
  <2>3. ThreadIsSound(t)
    BY <1>1, <1>4, <2>2, LessToDoIsSound
  <2> QED
    BY <2>1, <2>3, GoKeepsSound
<1> QED
  BY <1>6, <1>7

LEMMA ThreadFields ==
    ASSUME ThreadsAreSound, NEW c \in Clients
    PROVE  DOMAIN thread[c] = Fields
BY DEF ThreadsAreSound, ThreadIsSound

LEMMA SoundNext ==
    ASSUME GraphAssumption, ThreadsAreSound, GraphNext
    PROVE  ThreadsAreSound'
<1>1. PICK c \in Clients :
        \/ EnterRequest(c) \/ AssignGraph(c) \/ Refresh(c) \/ ReadGraph(c)
        \/ NormaliseDocument(c) \/ PersistDocument(c) \/ CheckRevision(c) \/ ApplyPatch(c)
        \/ ValidateGraph(c) \/ StampSnapshot(c) \/ ShowSnapshot(c) \/ NoteRevision(c)
        \/ JudgeGraph(c) \/ ReserveSequence(c) \/ RememberCompile(c) \/ BuildPlan(c)
        \/ ToggleResource(c) \/ RedrawComponent(c)
  BY DEF GraphNext
<1> DEFINE u == thread[c]
<1>2. DOMAIN u = Fields
  BY ThreadFields
<1>3. CASE AssignGraph(c)
  <2> DEFINE t == [u EXCEPT !.todo = Remaining(c), !.copy = <<>>]
  <2>1. Go(c, t) /\ Underway(c) /\ Head(u.todo) = "assign"
    BY <1>3 DEF AssignGraph, AtStep
  <2>2. /\ DOMAIN t = Fields /\ t.ask = u.ask /\ t.todo = Remaining(c)
        /\ t.answer = u.answer /\ t.plan = u.plan
    BY <1>2, FieldNames
  <2> HIDE DEF t
  <2> QED
    BY <2>1, <2>2, PlainStep
<1>4. CASE Refresh(c)
  <2> DEFINE t == [u EXCEPT !.todo = Remaining(c)]
  <2>1. Go(c, t) /\ Underway(c) /\ Head(u.todo) = "refresh"
    BY <1>4 DEF Refresh, StepOn, AtStep
  <2>2. /\ DOMAIN t = Fields /\ t.ask = u.ask /\ t.todo = Remaining(c)
        /\ t.answer = u.answer /\ t.plan = u.plan
    BY <1>2, FieldNames
  <2> HIDE DEF t
  <2> QED
    BY <2>1, <2>2, PlainStep
<1>5. CASE NormaliseDocument(c)
  <2> DEFINE t == [u EXCEPT !.todo = Remaining(c), !.doc = Normalised(@, gMem.res)]
  <2>1. Go(c, t) /\ Underway(c) /\ Head(u.todo) = "normalise"
    BY <1>5 DEF NormaliseDocument, AtStep
  <2>2. /\ DOMAIN t = Fields /\ t.ask = u.ask /\ t.todo = Remaining(c)
        /\ t.answer = u.answer /\ t.plan = u.plan
    BY <1>2, FieldNames
  <2> HIDE DEF t
  <2> QED
    BY <2>1, <2>2, PlainStep
<1>6. CASE ValidateGraph(c)
  <2> DEFINE t == [u EXCEPT !.todo = Remaining(c), !.ok = Valid(thread[c].doc, gMem.res)]
  <2>1. Go(c, t) /\ Underway(c) /\ Head(u.todo) = "validate"
    BY <1>6 DEF ValidateGraph, AtStep
  <2>2. /\ DOMAIN t = Fields /\ t.ask = u.ask /\ t.todo = Remaining(c)
        /\ t.answer = u.answer /\ t.plan = u.plan
    BY <1>2, FieldNames
  <2> HIDE DEF t
  <2> QED
    BY <2>1, <2>2, PlainStep
<1>7. CASE NoteRevision(c)
  <2> DEFINE t == [u EXCEPT !.todo = Remaining(c), !.noted = gMem.rev]
  <2>1. Go(c, t) /\ Underway(c) /\ Head(u.todo) = "note"
    BY <1>7 DEF NoteRevision, AtStep
  <2>2. /\ DOMAIN t = Fields /\ t.ask = u.ask /\ t.todo = Remaining(c)
        /\ t.answer = u.answer /\ t.plan = u.plan
    BY <1>2, FieldNames
  <2> HIDE DEF t
  <2> QED
    BY <2>1, <2>2, PlainStep
<1>8. CASE StampSnapshot(c)
  <2> DEFINE t == [u EXCEPT !.todo = Remaining(c)]
  <2>1. Underway(c) /\ Head(u.todo) = "stamp"
    BY <1>8 DEF StampSnapshot, AtStep
  <2>2. /\ DOMAIN t = Fields /\ t.ask = u.ask /\ t.todo = Remaining(c)
        /\ t.answer = u.answer /\ t.plan = u.plan
    BY <1>2, FieldNames
  <2>3. PICK state : MutateGraph(c, state, t)
    BY <1>8 DEF StampSnapshot
  <2> HIDE DEF t
  <2> QED
    BY <2>1, <2>2, <2>3, WritingStep
<1>9. CASE ReserveSequence(c)
  <2> DEFINE t == [u EXCEPT !.todo = Remaining(c), !.seq = gStore.counter + 1]
  <2>1. Underway(c) /\ Head(u.todo) = "reserve"
    BY <1>9 DEF ReserveSequence, AtStep
  <2>2. /\ DOMAIN t = Fields /\ t.ask = u.ask /\ t.todo = Remaining(c)
        /\ t.answer = u.answer /\ t.plan = u.plan
    BY <1>2, FieldNames
  <2>3. PICK state : MutateGraph(c, state, t)
    BY <1>9 DEF ReserveSequence
  <2> HIDE DEF t
  <2> QED
    BY <2>1, <2>2, <2>3, WritingStep
<1>10. CASE RememberCompile(c)
  <2> DEFINE t == [u EXCEPT !.todo = Remaining(c), !.answer = "compiled"]
  <2>1. Underway(c) /\ Head(u.todo) = "remember"
    BY <1>10 DEF RememberCompile, AtStep
  <2>2. /\ DOMAIN t = Fields /\ t.ask = u.ask /\ t.todo = Remaining(c)
        /\ t.answer # "planned" /\ t.plan = u.plan
    BY <1>2, FieldNames
  <2>3. PICK state : MutateGraph(c, state, t)
    BY <1>10 DEF RememberCompile
  <2> HIDE DEF t
  <2> QED
    BY <2>1, <2>2, <2>3, WritingStep
<1>11. CASE ToggleResource(c)
  <2> DEFINE t == [u EXCEPT !.todo = Remaining(c)]
  <2>1. Underway(c) /\ Head(u.todo) = "toggle"
    BY <1>11 DEF ToggleResource, AtStep
  <2>2. /\ DOMAIN t = Fields /\ t.ask = u.ask /\ t.todo = Remaining(c)
        /\ t.answer = u.answer /\ t.plan = u.plan
    BY <1>2, FieldNames
  <2>3. PICK state : MutateGraph(c, state, t)
    BY <1>11 DEF ToggleResource
  <2> HIDE DEF t
  <2> QED
    BY <2>1, <2>2, <2>3, WritingStep
<1>12. CASE EnterRequest(c)
  BY <1>12, EnterKeepsSound
<1>13. CASE JudgeGraph(c)
  BY <1>13, JudgeKeepsSound
<1>14. CASE BuildPlan(c)
  BY <1>14, PlanKeepsSound
<1>15. CASE CheckRevision(c)
  <2>1. Underway(c) /\ Head(u.todo) = "check"
    BY <1>15 DEF CheckRevision, AtStep
  <2>2. CASE GiveUp(c, "conflict")
    BY <2>2, StoppingStep
  <2>3. CASE StepOn(c)
    <3> DEFINE t == [u EXCEPT !.todo = Remaining(c)]
    <3>1. Go(c, t)
      BY <2>3 DEF StepOn
    <3>2. /\ DOMAIN t = Fields /\ t.ask = u.ask /\ t.todo = Remaining(c)
          /\ t.answer = u.answer /\ t.plan = u.plan
      BY <1>2, FieldNames
    <3> HIDE DEF t
    <3> QED
      BY <2>1, <3>1, <3>2, PlainStep
  <2> QED
    BY <1>15, <2>2, <2>3 DEF CheckRevision
<1>16. CASE ReadGraph(c)
  <2> DEFINE g == Normalised(gMem.graph, gMem.res)
             t == [u EXCEPT !.todo = Remaining(c), !.doc = g]
  <2>1. Underway(c) /\ Head(u.todo) = "read"
    BY <1>16 DEF ReadGraph, AtStep
  <2>2. /\ DOMAIN t = Fields /\ t.ask = u.ask /\ t.todo = Remaining(c)
        /\ t.answer = u.answer /\ t.plan = u.plan
    BY <1>2, FieldNames
  <2>3. (\E state : MutateGraph(c, state, t)) \/ Go(c, t)
    BY <1>16 DEF ReadGraph
  <2> HIDE DEF t
  <2> QED
    BY <2>1, <2>2, <2>3, WritingStep, PlainStep
<1>17. CASE PersistDocument(c)
  <2> DEFINE t == [u EXCEPT !.todo = Remaining(c), !.answer = "saved"]
  <2>1. Underway(c) /\ Head(u.todo) = "persist"
    BY <1>17 DEF PersistDocument, AtStep
  <2>2. DOMAIN t = Fields /\ t.ask = u.ask /\ t.todo = Remaining(c) /\ t.answer = "saved"
    BY <1>2, FieldNames
  <2>3. (\E state : MutateGraph(c, state, t)) \/ GiveUp(c, "conflict")
    BY <1>17 DEF PersistDocument
  <2> HIDE DEF t
  <2> QED
    BY <2>1, <2>2, <2>3, WritingStep, StoppingStep
<1>18. CASE ApplyPatch(c)
  <2> DEFINE made == Patched(u.doc, u.ops, gMem'.res)
             t == [u EXCEPT !.todo = Remaining(c), !.doc = made]
  <2>1. Underway(c) /\ Head(u.todo) = "patch"
    BY <1>18 DEF ApplyPatch, AtStep
  <2>2. /\ DOMAIN t = Fields /\ t.ask = u.ask /\ t.todo = Remaining(c)
        /\ t.answer = u.answer /\ t.plan = u.plan
    BY <1>2, FieldNames
  <2>3. Go(c, t) \/ GiveUp(c, "refused")
    BY <1>18 DEF ApplyPatch
  <2> HIDE DEF t
  <2> QED
    BY <2>1, <2>2, <2>3, PlainStep, StoppingStep
<1>19. CASE ShowSnapshot(c)
  <2> DEFINE fresh == gMem.snap.rev = gMem.rev /\ gMem.snap.regs = gMem.regs
             next == (IF fresh THEN <<>> ELSE Revalidate) \o Remaining(c)
             t == [u EXCEPT !.todo = next]
  <2>1. u.todo # <<>> /\ Head(u.todo) = "view" /\ Underway(c) /\ Go(c, t)
    BY <1>19 DEF ShowSnapshot, AtStep, Underway
  <2>2. /\ DOMAIN t = Fields /\ t.ask = u.ask /\ t.todo = next
        /\ t.answer = u.answer /\ t.plan = u.plan
    BY <1>2, FieldNames
  <2>3. u.todo \in Seq(OtherSteps)
    <3>1. \A x, y, z : Head(<<x, y, z>>) = x
      OBVIOUS
    <3>2. Head(<<"judge", "plan">>) = "judge" /\ Head(<<"plan">>) = "plan"
      OBVIOUS
    <3>3. ThreadIsSound(u)
      BY DEF ThreadsAreSound
    <3> QED
      BY <2>1, <3>1, <3>2, <3>3 DEF Planning, ThreadIsSound
  <2>4. Revalidate \in Seq(OtherSteps) /\ <<>> \in Seq(OtherSteps)
    BY DEF Revalidate, OtherSteps
  <2>5. Remaining(c) \in Seq(OtherSteps)
    BY <2>1, <2>3 DEF Remaining
  <2>6. next \in Seq(OtherSteps)
    BY <2>4, <2>5
  <2> HIDE DEF t, next
  <2> QED
    BY <2>1, <2>2, <2>6, PlainStep
<1>20. CASE RedrawComponent(c)
  <2> DEFINE t == [u EXCEPT !.todo = Remaining(c)]
  <2>1. Underway(c) /\ Head(u.todo) = "redraw"
    BY <1>20 DEF RedrawComponent, AtStep
  <2>2. /\ DOMAIN t = Fields /\ t.ask = u.ask /\ t.todo = Remaining(c)
        /\ t.answer = u.answer /\ t.plan = u.plan
    BY <1>2, FieldNames
  <2>3. (\E state : MutateGraph(c, state, t)) \/ GiveUp(c, "refused")
    BY <1>20 DEF RedrawComponent
  <2> HIDE DEF t
  <2> QED
    BY <2>1, <2>2, <2>3, WritingStep, StoppingStep
<1> QED
  BY <1>1, <1>3, <1>4, <1>5, <1>6, <1>7, <1>8, <1>9, <1>10, <1>11, <1>12, <1>13, <1>14,
     <1>15, <1>16, <1>17, <1>18, <1>19, <1>20

(* ---------------------------------------------------------------- *)
(* The theorem.                                                     *)

LEMMA SoundInit == GraphInit => ThreadsAreSound
<1> SUFFICES ASSUME GraphInit PROVE ThreadsAreSound
  OBVIOUS
<1>1. thread = [c \in Clients |-> Idling("none", FALSE, FALSE)]
  BY DEF GraphInit
<1>2. /\ Idling("none", FALSE, FALSE).todo = <<>>
      /\ Idling("none", FALSE, FALSE).answer = "none"
  BY DEF Idling
<1>3. <<>> \in Seq(OtherSteps) /\ <<>> \notin Planning /\ <<>> # <<"plan">>
  BY DEF Planning
<1>4. ThreadIsSound(Idling("none", FALSE, FALSE))
  BY <1>2, <1>3 DEF ThreadIsSound, Fields
<1> QED
  BY <1>1, <1>4 DEF ThreadsAreSound

LEMMA StutteringKeepsSound == ThreadsAreSound /\ UNCHANGED graphVars => ThreadsAreSound'
BY DEF ThreadsAreSound, ThreadIsSound, graphVars

\* Whatever the workspaces, requests and resources are and however the requests
\* of many clients mix, what is prepared for execution is a plan with edges that
\* fit, joins that wait for several branches, and one entry, or none and then only
\* for a graph that is neither the workspace's nor a component's: _prepare_execution
\* builds it only from the very graph that it has judged.
THEOREM PlansAreRunnable == GraphSpec => []PlanIsRunnable
<1>1. GraphInit => ThreadsAreSound
  BY SoundInit
<1>2. ThreadsAreSound /\ [GraphNext]_graphVars => ThreadsAreSound'
  BY SoundNext, StutteringKeepsSound, GraphAssumption
<1>3. ThreadsAreSound => PlanIsRunnable
  BY DEF ThreadsAreSound, ThreadIsSound, PlanIsRunnable
<1> QED
  BY <1>1, <1>2, <1>3, PTL DEF GraphSpec

(* ---------------------------------------------------------------- *)
(* The stamps. While requests come one after the other, what a       *)
(* request carries from one step to the next is still what the store *)
(* holds when it writes it down.                                     *)

Compiling == {"compile", "compile_document"}
AllSteps == OtherSteps \cup {"plan"}

\* What a step may come directly behind, for the steps that rely on it. What is
\* to be assigned is assigned before anything else.
MayFollow(ask, a, b) ==
    /\ b # "assign"
    /\ b = "validate" => a \in {"read", "assign"}
    /\ b = "stamp" => a = "validate"
    /\ b = "note" => a \in {"read", "persist", "assign"}
    /\ (b = "judge" /\ ask \in Compiling) => a = "note"
    /\ b = "reserve" => a = "judge" /\ ask \in Compiling \cup {"source"}
    /\ b = "remember" => a \in {"reserve", "assign"} /\ ask \in Compiling \cup {"source"}
Chained(ask, s) ==
    /\ s \in Seq(AllSteps)
    /\ \A i \in 1 .. (Len(s) - 1) : MayFollow(ask, s[i], s[i + 1])
InOrder(t) == Chained(t.ask, t.todo)

\* The step x is next, but for an assignment of what was written.
Comes(t, x) ==
    \/ t.todo # <<>> /\ t.todo[1] = x
    \/ Len(t.todo) > 1 /\ t.todo[1] = "assign" /\ t.todo[2] = x

\* What the thread holds when x comes is what S holds.
HoldsAt(t, x, S) ==
    /\ x = "validate" => t.doc = S.graph
    /\ x = "stamp" => t.ok = Valid(S.graph, S.res)
    /\ (x \in {"note", "judge", "reserve", "remember"} /\ t.ask \in Compiling) => t.doc = S.graph
    /\ (x \in {"judge", "reserve", "remember"} /\ t.ask \in Compiling) => t.noted = S.rev
    /\ x \in {"reserve", "remember"} => t.ask \in Compiling \cup {"source"}
Holds(t, S) == \A x \in AllSteps : Comes(t, x) => HoldsAt(t, x, S)

StoreFields == {"graph", "rev", "res", "regs", "snap", "counter", "compiles"}

\* Stamps are not ahead of the revisions, and those that carry them are true.
Stamped(S) ==
    /\ DOMAIN S = StoreFields
    /\ S.rev \in Nat /\ S.regs \in Nat
    /\ S.snap.rev \in Nat /\ S.snap.rev <= S.rev
    /\ S.snap.regs \in Nat /\ S.snap.regs <= S.regs
    /\ (S.rev > 0 /\ S.snap.rev = S.rev /\ S.snap.regs = S.regs)
          => S.snap.valid = Valid(S.graph, S.res)
    /\ \E X : S.compiles \in Seq(X)
    /\ (S.compiles # <<>> /\ S.compiles[1].saved) =>
          /\ S.compiles[1].rev \in Nat /\ S.compiles[1].rev <= S.rev
          /\ S.compiles[1].rev = S.rev => S.compiles[1].graph = S.graph

\* A thread that is about to assign has what the store holds; else the shared
\* copy has it.
Alone ==
    ~crossed =>
        /\ \A c, d \in Clients : Underway(c) /\ Underway(d) => c = d
        /\ \A c \in Clients : Underway(c) => InOrder(thread[c]) /\ Holds(thread[c], gStore)
        /\ \A c \in Clients : AtStep(c, "assign") => thread[c].copy = <<gStore>>
        /\ (\A c \in Clients : ~AtStep(c, "assign")) => gMem = gStore
        /\ Stamped(gStore)

\* The steps that write the store.
WritingSteps == {"read", "persist", "stamp", "reserve", "remember", "toggle", "redraw"}

LEMMA HeadIsFirst ==
    ASSUME NEW S, NEW s \in Seq(S), s # <<>>
    PROVE  /\ Head(s) = s[1] /\ Len(s) \in Nat /\ Len(s) > 0
           /\ Tail(s) \in Seq(S) /\ Len(Tail(s)) = Len(s) - 1
           /\ \A i \in 1 .. (Len(s) - 1) : Tail(s)[i] = s[i + 1]
OBVIOUS

\* Whatever comes next may come behind the step that was taken.
LEMMA StillInOrder ==
    ASSUME NEW u, InOrder(u), u.todo # <<>>, NEW t, t.ask = u.ask,
           \/ t.todo = Tail(u.todo)
           \/ t.todo = <<"assign">> \o Tail(u.todo) /\ u.todo[1] \in WritingSteps
    PROVE  /\ InOrder(t)
           /\ \A x \in AllSteps \ {"assign"} : Comes(t, x) => MayFollow(u.ask, u.todo[1], x)
           /\ t.todo = Tail(u.todo) => ~(t.todo # <<>> /\ t.todo[1] = "assign")
<1> DEFINE r == Tail(u.todo)
           n == Len(u.todo)
<1>1. /\ u.todo \in Seq(AllSteps) /\ n \in Nat /\ n > 0
      /\ r \in Seq(AllSteps) /\ Len(r) = n - 1
      /\ \A i \in 1 .. (n - 1) : r[i] = u.todo[i + 1]
  BY HeadIsFirst DEF InOrder, Chained
<1>2. \A i \in 1 .. (n - 1) : MayFollow(u.ask, u.todo[i], u.todo[i + 1])
  BY DEF InOrder, Chained
<1>3. r # <<>> => n > 1 /\ r[1] = u.todo[2] /\ MayFollow(u.ask, u.todo[1], r[1])
  <2> SUFFICES ASSUME r # <<>> PROVE n > 1 /\ r[1] = u.todo[2] /\ MayFollow(u.ask, u.todo[1], r[1])
    OBVIOUS
  <2>1. Len(r) > 0
    BY <1>1
  <2>2. 1 \in 1 .. (n - 1)
    BY <1>1, <2>1
  <2> QED
    BY <1>1, <1>2, <2>1, <2>2
<1>4. \A i \in 1 .. (Len(r) - 1) : MayFollow(u.ask, r[i], r[i + 1])
  <2> TAKE i \in 1 .. (Len(r) - 1)
  <2>1. /\ i \in 1 .. (n - 1) /\ i + 1 \in 1 .. (n - 1)
    BY <1>1
  <2>2. r[i] = u.todo[i + 1] /\ r[i + 1] = u.todo[i + 1 + 1]
    BY <1>1, <2>1
  <2> QED
    BY <1>2, <2>1, <2>2
<1> HIDE DEF r, n
<1>5. CASE t.todo = r
  <2>1. InOrder(t)
    BY <1>1, <1>4, <1>5 DEF InOrder, Chained
  <2>2. t.todo # <<>> => t.todo[1] # "assign"
    BY <1>3, <1>5 DEF MayFollow
  <2>3. ASSUME NEW x \in AllSteps \ {"assign"}, Comes(t, x)
        PROVE  MayFollow(u.ask, u.todo[1], x)
    <3>1. t.todo # <<>> /\ t.todo[1] = x
      <4>1. Len(t.todo) > 1 => t.todo # <<>>
        BY <1>1, <1>5
      <4> QED
        BY <2>2, <2>3, <4>1 DEF Comes
    <3> QED
      BY <1>3, <1>5, <3>1
  <2> QED
    BY <2>1, <2>2, <2>3
<1>6. CASE t.todo = <<"assign">> \o r /\ u.todo[1] \in WritingSteps
  <2>1. <<"assign">> \in Seq(AllSteps)
    BY DEF AllSteps, OtherSteps
  <2>2. /\ t.todo \in Seq(AllSteps) /\ Len(t.todo) = Len(r) + 1 /\ t.todo[1] = "assign"
        /\ \A i \in 1 .. Len(r) : t.todo[i + 1] = r[i]
    BY <1>1, <1>6, <2>1
  <2>3. ASSUME NEW i \in 1 .. (Len(t.todo) - 1)
        PROVE  MayFollow(t.ask, t.todo[i], t.todo[i + 1])
    <3>1. CASE i = 1
      <4>1. r # <<>> /\ t.todo[2] = r[1]
        BY <1>1, <2>2, <2>3, <3>1
      <4>2. MayFollow(u.ask, u.todo[1], t.todo[2])
        BY <1>3, <4>1
      <4>3. MayFollow(u.ask, "assign", t.todo[2])
        BY <1>6, <4>2 DEF MayFollow, WritingSteps
      <4> QED
        BY <2>2, <3>1, <4>3
    <3>2. CASE i # 1
      <4>1. i - 1 \in 1 .. (Len(r) - 1) /\ i - 1 \in 1 .. Len(r) /\ i \in 1 .. Len(r)
        BY <1>1, <2>2, <2>3, <3>2
      <4>2. t.todo[(i - 1) + 1] = r[i - 1] /\ t.todo[i + 1] = r[i] /\ (i - 1) + 1 = i
        BY <2>2, <4>1
      <4>3. MayFollow(u.ask, r[i - 1], r[(i - 1) + 1])
        BY <1>4, <4>1
      <4> QED
        BY <4>2, <4>3
    <3> QED
      BY <3>1, <3>2
  <2>4. InOrder(t)
    BY <2>2, <2>3 DEF InOrder, Chained
  <2>5. ASSUME NEW x \in AllSteps \ {"assign"}, Comes(t, x)
        PROVE  MayFollow(u.ask, u.todo[1], x)
    <3>1. Len(t.todo) > 1 /\ t.todo[2] = x
      BY <2>2, <2>5 DEF Comes
    <3>2. r # <<>> /\ t.todo[1 + 1] = r[1]
      BY <1>1, <2>2, <3>1
    <3> QED
      BY <1>3, <3>1, <3>2
  <2>6. t.todo # r
    BY <1>1, <2>2
  <2> QED
    BY <2>4, <2>5, <2>6 DEF r
<1> QED
  BY <1>5, <1>6 DEF r

\* What is known of the thread that is under way while nobody else is.
LEMMA WhoIsAlone ==
    ASSUME Alone, ~crossed, NEW c \in Clients, Underway(c)
    PROVE  /\ InOrder(thread[c]) /\ Holds(thread[c], gStore) /\ Stamped(gStore)
           /\ thread[c].todo # <<>> /\ Head(thread[c].todo) = thread[c].todo[1]
           /\ thread[c].todo[1] \in AllSteps
           /\ AtStep(c, "assign") => thread[c].copy = <<gStore>>
           /\ ~AtStep(c, "assign") => gMem = gStore
           /\ \A d \in Clients : d # c => ~Underway(d)
<1>1. thread[c].todo \in Seq(AllSteps) /\ thread[c].todo # <<>>
  BY DEF Alone, InOrder, Chained, Underway
<1>2. Head(thread[c].todo) = thread[c].todo[1] /\ thread[c].todo[1] \in AllSteps
  BY <1>1, HeadIsFirst
<1>3. \A d \in Clients : d # c => ~Underway(d)
  BY DEF Alone
<1>4. ~AtStep(c, "assign") => gMem = gStore
  BY <1>3 DEF Alone, AtStep
<1> QED
  BY <1>1, <1>2, <1>3, <1>4 DEF Alone

\* One thread goes on.
LEMMA OneGoes ==
    ASSUME ThreadsAreSound, Alone, NEW c \in Clients, Underway(c), NEW t, Go(c, t),
           UNCHANGED crossed,
           ~crossed =>
             /\ Stamped(gStore')
             /\ t.todo # <<>> => InOrder(t) /\ Holds(t, gStore')
             /\ IF t.todo # <<>> /\ t.todo[1] = "assign" THEN t.copy = <<gStore'>>
                ELSE gMem' = gStore'
    PROVE  Alone'
<1> SUFFICES ASSUME ~crossed PROVE Alone'
  BY DEF Alone
<1>1. \A d \in Clients : d # c => ~Underway(d)
  BY WhoIsAlone
<1> DEFINE i == [Idling(t.answer, t.due, t.lone) EXCEPT !.plan = t.plan, !.ask = t.ask]
<1>2. /\ \A d \in Clients : d # c => thread'[d] = thread[d]
      /\ thread'[c] = IF t.todo = <<>> THEN i ELSE t
  BY DEF Go, ThreadsAreSound
<1>3. i.todo = <<>>
  BY DEF Idling
<1> HIDE DEF i
<1>4. \A d \in Clients : Underway(d)' => d = c /\ t.todo # <<>> /\ thread'[c] = t
  BY <1>1, <1>2, <1>3 DEF Underway
<1>5. CASE t.todo # <<>>
  <2>1. thread'[c] = t /\ InOrder(t) /\ Holds(t, gStore')
    BY <1>2, <1>5
  <2>2. t.todo \in Seq(AllSteps) /\ Head(t.todo) = t.todo[1]
    BY <1>5, <2>1, HeadIsFirst DEF InOrder, Chained
  <2>3. AtStep(c, "assign")' <=> t.todo[1] = "assign"
    BY <1>5, <2>1, <2>2 DEF AtStep, Underway
  <2>4. \A d \in Clients : AtStep(d, "assign")' => d = c
    BY <1>4 DEF AtStep
  <2>5. (\A d \in Clients : ~AtStep(d, "assign")') => gMem' = gStore'
    BY <1>5, <2>3
  <2>6. \A d \in Clients : AtStep(d, "assign")' => thread'[d].copy = <<gStore'>>
    BY <1>5, <2>1, <2>3, <2>4
  <2>7. \A d \in Clients : Underway(d)' => InOrder(thread'[d]) /\ Holds(thread'[d], gStore')
    BY <1>4, <2>1
  <2>8. \A d, e \in Clients : Underway(d)' /\ Underway(e)' => d = e
    BY <1>4
  <2> QED
    BY <2>5, <2>6, <2>7, <2>8 DEF Alone, InOrder, Chained, Holds, HoldsAt, Comes, Stamped
<1>6. CASE t.todo = <<>>
  <2>1. \A d \in Clients : ~Underway(d)' /\ ~AtStep(d, "assign")'
    BY <1>4, <1>6 DEF AtStep
  <2>2. gMem' = gStore' /\ Stamped(gStore')
    BY <1>6
  <2> QED
    BY <2>1, <2>2 DEF Alone, Stamped
<1> QED
  BY <1>5, <1>6

LEMMA GivesUp ==
    ASSUME ThreadsAreSound, Alone, NEW c \in Clients, NEW x \in AllSteps \ {"assign"},
           AtStep(c, x), NEW answer, GiveUp(c, answer),
           UNCHANGED <<gStore, crossed>>, gMem' \in {gMem, gStore}
    PROVE  Alone'
<1> DEFINE t == [thread[c] EXCEPT !.todo = <<>>, !.answer = answer]
<1>1. Underway(c) /\ Go(c, t) /\ ~AtStep(c, "assign")
  BY DEF GiveUp, AtStep
<1>2. DOMAIN thread[c] = Fields
  BY ThreadFields
<1>3. t.todo = <<>>
  BY <1>2, FieldNames
<1> HIDE DEF t
<1>4. ~crossed => Stamped(gStore') /\ gMem' = gStore'
  BY <1>1, WhoIsAlone
<1> QED
  BY <1>1, <1>3, <1>4, OneGoes

\* A step that writes nothing.
LEMMA StepIsTaken ==
    ASSUME ThreadsAreSound, Alone, NEW c \in Clients, NEW x \in AllSteps \ {"assign"},
           AtStep(c, x), NEW t, Go(c, t), t.ask = thread[c].ask, t.todo = Remaining(c),
           UNCHANGED <<gStore, crossed>>, gMem' \in {gMem, gStore},
           ~crossed => \A y \in AllSteps \ {"assign"} :
               MayFollow(t.ask, x, y) => HoldsAt(t, y, gStore)
    PROVE  Alone'
<1>1. Underway(c) /\ Head(thread[c].todo) = x /\ ~AtStep(c, "assign")
  BY DEF AtStep
<1>2. ASSUME ~crossed
      PROVE  /\ Stamped(gStore') /\ gMem' = gStore'
             /\ InOrder(t) /\ Holds(t, gStore') /\ ~(t.todo # <<>> /\ t.todo[1] = "assign")
  <2>1. /\ InOrder(thread[c]) /\ thread[c].todo # <<>> /\ thread[c].todo[1] = x
        /\ Stamped(gStore) /\ gMem = gStore
    BY <1>1, <1>2, WhoIsAlone
  <2>2. t.todo = Tail(thread[c].todo)
    BY DEF Remaining
  <2>3. /\ InOrder(t) /\ ~(t.todo # <<>> /\ t.todo[1] = "assign")
        /\ \A y \in AllSteps \ {"assign"} : Comes(t, y) => MayFollow(thread[c].ask, x, y)
    BY <2>1, <2>2, StillInOrder
  <2>4. HoldsAt(t, "assign", gStore)
    BY DEF HoldsAt
  <2>5. Holds(t, gStore)
    BY <1>2, <2>3, <2>4 DEF Holds
  <2> QED
    BY <2>1, <2>3, <2>5
<1> QED
  BY <1>1, <1>2, OneGoes

\* A step that writes the store, with the assignment that follows it.
LEMMA Writes ==
    ASSUME ThreadsAreSound, Alone, NEW c \in Clients, NEW x \in WritingSteps,
           AtStep(c, x), NEW t, NEW state, MutateGraph(c, state, t), DOMAIN t = Fields,
           t.ask = thread[c].ask, t.todo = Remaining(c), UNCHANGED crossed,
           ~crossed =>
             /\ Stamped(state)
             /\ \A y \in AllSteps \ {"assign"} :
                  MayFollow(t.ask, x, y) => HoldsAt(t, y, state)
    PROVE  Alone'
<1> DEFINE w == [t EXCEPT !.todo = <<"assign">> \o @, !.copy = <<state>>]
<1>1. Underway(c) /\ Head(thread[c].todo) = x /\ Go(c, w) /\ gStore' = state
  BY DEF AtStep, MutateGraph
<1>2. /\ w.todo = <<"assign">> \o t.todo /\ w.copy = <<state>> /\ w.ask = t.ask
      /\ w.doc = t.doc /\ w.ok = t.ok /\ w.noted = t.noted
  BY FieldNames
<1> HIDE DEF w
<1>3. ASSUME ~crossed
      PROVE  /\ Stamped(gStore') /\ InOrder(w) /\ Holds(w, gStore')
             /\ w.todo # <<>> /\ w.todo[1] = "assign" /\ w.copy = <<gStore'>>
  <2>1. /\ InOrder(thread[c]) /\ thread[c].todo # <<>> /\ thread[c].todo[1] = x
    BY <1>1, <1>3, WhoIsAlone
  <2>2. w.todo = <<"assign">> \o Tail(thread[c].todo) /\ w.ask = thread[c].ask
    BY <1>2 DEF Remaining
  <2>3. /\ InOrder(w)
        /\ \A y \in AllSteps \ {"assign"} : Comes(w, y) => MayFollow(thread[c].ask, x, y)
    BY <2>1, <2>2, StillInOrder
  <2>4. Tail(thread[c].todo) \in Seq(AllSteps)
    BY <2>1, HeadIsFirst DEF InOrder, Chained
  <2>5. <<"assign">> \in Seq(AllSteps)
    BY DEF AllSteps, OtherSteps
  <2>6. w.todo # <<>> /\ w.todo[1] = "assign"
    BY <2>2, <2>4, <2>5
  <2>7. \A y \in AllSteps \ {"assign"} : Comes(w, y) => HoldsAt(t, y, state)
    BY <1>3, <2>3
  <2>8. \A y \in AllSteps : Comes(w, y) => HoldsAt(w, y, state)
    BY <1>2, <2>7 DEF HoldsAt
  <2> QED
    BY <1>1, <1>2, <1>3, <2>3, <2>6, <2>8 DEF Holds
<1> QED
  BY <1>1, <1>3, OneGoes

\* The assignment: what comes behind it came already.
LEMMA AssignIsAlone ==
    ASSUME ThreadsAreSound, Alone, NEW c \in Clients, AssignGraph(c)
    PROVE  Alone'
<1> DEFINE u == thread[c]
           t == [u EXCEPT !.todo = Remaining(c), !.copy = <<>>]
<1>1. /\ AtStep(c, "assign") /\ Underway(c) /\ Go(c, t)
      /\ gMem' = u.copy[1] /\ UNCHANGED <<gStore, crossed>>
  BY DEF AssignGraph, AtStep
<1>2. DOMAIN u = Fields
  BY ThreadFields
<1>3. /\ t.todo = Tail(u.todo) /\ t.ask = u.ask
      /\ t.doc = u.doc /\ t.ok = u.ok /\ t.noted = u.noted
  BY <1>2, FieldNames DEF Remaining
<1> HIDE DEF t
<1>4. ASSUME ~crossed
      PROVE  /\ Stamped(gStore') /\ gMem' = gStore'
             /\ InOrder(t) /\ Holds(t, gStore') /\ ~(t.todo # <<>> /\ t.todo[1] = "assign")
  <2>1. /\ InOrder(u) /\ Holds(u, gStore) /\ u.todo # <<>> /\ u.todo[1] = "assign"
        /\ Stamped(gStore) /\ u.copy = <<gStore>>
    BY <1>1, <1>4, WhoIsAlone DEF AtStep
  <2>2. InOrder(t) /\ ~(t.todo # <<>> /\ t.todo[1] = "assign")
    BY <1>3, <2>1, StillInOrder
  <2>3. ASSUME NEW y \in AllSteps, Comes(t, y) PROVE Comes(u, y)
    <3>1. /\ Len(u.todo) \in Nat /\ Len(t.todo) = Len(u.todo) - 1
          /\ \A i \in 1 .. (Len(u.todo) - 1) : t.todo[i] = u.todo[i + 1]
      BY <1>3, <2>1, HeadIsFirst DEF InOrder, Chained
    <3>2. t.todo # <<>>
      BY <2>3, <3>1 DEF Comes
    <3>3. t.todo \in Seq(AllSteps)
      BY <2>2 DEF InOrder, Chained
    <3>4. Len(t.todo) > 0 /\ t.todo[1] = y
      BY <2>2, <2>3, <3>2, <3>3 DEF Comes
    <3>5. Len(u.todo) > 1 /\ u.todo[1 + 1] = y
      BY <3>1, <3>4
    <3> QED
      BY <2>1, <3>5 DEF Comes
  <2>4. \A y \in AllSteps : Comes(t, y) => HoldsAt(t, y, gStore)
    BY <1>3, <2>1, <2>3 DEF Holds, HoldsAt
  <2> QED
    BY <1>1, <2>1, <2>2, <2>4 DEF Holds
<1> QED
  BY <1>1, <1>4, OneGoes

(* ---------------------------------------------------------------- *)
(* What the steps write.                                            *)

LEMMA GraphStaysStamped ==
    ASSUME NEW S, Stamped(S), NEW g
    PROVE  Stamped([S EXCEPT !.graph = g, !.rev = @ + 1])
<1> DEFINE T == [S EXCEPT !.graph = g, !.rev = @ + 1]
<1>1. /\ DOMAIN T = StoreFields /\ T.graph = g /\ T.rev = S.rev + 1 /\ T.res = S.res
      /\ T.regs = S.regs /\ T.snap = S.snap /\ T.compiles = S.compiles
  BY DEF Stamped, StoreFields
<1> HIDE DEF T
<1>2. /\ T.rev \in Nat /\ T.regs \in Nat /\ T.snap.rev \in Nat /\ T.snap.rev <= T.rev
      /\ T.snap.regs \in Nat /\ T.snap.regs <= T.regs /\ T.snap.rev # T.rev
  BY <1>1 DEF Stamped
<1>3. \E X : T.compiles \in Seq(X)
  BY <1>1 DEF Stamped
<1>4. (T.compiles # <<>> /\ T.compiles[1].saved) =>
        T.compiles[1].rev \in Nat /\ T.compiles[1].rev <= T.rev /\ T.compiles[1].rev # T.rev
  BY <1>1 DEF Stamped
<1>5. Stamped(T)
  BY <1>1, <1>2, <1>3, <1>4 DEF Stamped
<1> QED
  BY <1>5 DEF T

LEMMA ResourcesStayStamped ==
    ASSUME NEW S, Stamped(S), NEW R
    PROVE  Stamped([S EXCEPT !.res = R, !.regs = @ + 1])
<1> DEFINE T == [S EXCEPT !.res = R, !.regs = @ + 1]
<1>1. /\ DOMAIN T = StoreFields /\ T.graph = S.graph /\ T.rev = S.rev
      /\ T.regs = S.regs + 1 /\ T.snap = S.snap /\ T.compiles = S.compiles
  BY DEF Stamped, StoreFields
<1> HIDE DEF T
<1>2. /\ T.rev \in Nat /\ T.regs \in Nat /\ T.snap.rev \in Nat /\ T.snap.rev <= T.rev
      /\ T.snap.regs \in Nat /\ T.snap.regs <= T.regs /\ T.snap.regs # T.regs
  BY <1>1 DEF Stamped
<1>3. \E X : T.compiles \in Seq(X)
  BY <1>1 DEF Stamped
<1>4. Stamped(T)
  BY <1>1, <1>2, <1>3 DEF Stamped
<1> QED
  BY <1>4 DEF T

LEMMA SnapshotIsStamped ==
    ASSUME NEW S, Stamped(S), NEW ok, ok = Valid(S.graph, S.res)
    PROVE  Stamped([S EXCEPT !.snap = [rev |-> S.rev, regs |-> S.regs, valid |-> ok]])
<1> DEFINE s == [rev |-> S.rev, regs |-> S.regs, valid |-> ok]
           T == [S EXCEPT !.snap = s]
<1>1. /\ DOMAIN T = StoreFields /\ T.graph = S.graph /\ T.rev = S.rev /\ T.res = S.res
      /\ T.regs = S.regs /\ T.snap = s /\ T.compiles = S.compiles
  BY DEF Stamped, StoreFields
<1>2. s.rev = S.rev /\ s.regs = S.regs /\ s.valid = ok
  OBVIOUS
<1> HIDE DEF T, s
<1>3. Stamped(T)
  BY <1>1, <1>2 DEF Stamped
<1> QED
  BY <1>3 DEF T, s

LEMMA CounterStaysStamped ==
    ASSUME NEW S, Stamped(S), NEW n
    PROVE  Stamped([S EXCEPT !.counter = n])
<1> DEFINE T == [S EXCEPT !.counter = n]
<1>1. /\ DOMAIN T = StoreFields /\ T.graph = S.graph /\ T.rev = S.rev /\ T.res = S.res
      /\ T.regs = S.regs /\ T.snap = S.snap /\ T.compiles = S.compiles
  BY DEF Stamped, StoreFields
<1> HIDE DEF T
<1>2. Stamped(T)
  BY <1>1 DEF Stamped
<1> QED
  BY <1>2 DEF T

\* The newest compilation is the first of the list, however long it is.
LEMMA CompilationIsStamped ==
    ASSUME GraphAssumption, NEW S, Stamped(S), NEW done,
           done.saved => done.rev = S.rev /\ done.graph = S.graph
    PROVE  LET all == <<done>> \o S.compiles
           IN  Stamped([S EXCEPT !.compiles =
                  SubSeq(all, 1, IF Len(all) > MaxHistory THEN MaxHistory ELSE Len(all))])
<1> DEFINE all == <<done>> \o S.compiles
           n == IF Len(all) > MaxHistory THEN MaxHistory ELSE Len(all)
           list == SubSeq(all, 1, n)
           T == [S EXCEPT !.compiles = list]
<1>1. PICK X : S.compiles \in Seq(X)
  BY DEF Stamped
<1>2. PICK Y : Y = X \cup {done}
  OBVIOUS
<1>3. S.compiles \in Seq(Y) /\ <<done>> \in Seq(Y)
  BY <1>1, <1>2
<1>4. /\ all \in Seq(Y) /\ Len(all) \in Nat /\ Len(all) >= 1 /\ all[1] = done
  BY <1>3
<1> HIDE DEF all
<1>5. n \in 1 .. Len(all)
  BY <1>4 DEF GraphAssumption
<1> HIDE DEF n
<1>6. list \in Seq(Y) /\ Len(list) = n /\ list[1] = done
  BY <1>4, <1>5
<1> HIDE DEF list
<1>7. /\ DOMAIN T = StoreFields /\ T.graph = S.graph /\ T.rev = S.rev /\ T.res = S.res
      /\ T.regs = S.regs /\ T.snap = S.snap /\ T.compiles = list
  BY DEF Stamped, StoreFields
<1> HIDE DEF T
<1>8. \E Z : T.compiles \in Seq(Z)
  BY <1>6, <1>7
<1>9. T.compiles[1] = done /\ T.rev \in Nat
  BY <1>6, <1>7 DEF Stamped
<1>10. T.compiles[1].saved => T.compiles[1].rev = T.rev /\ T.compiles[1].graph = T.graph
  BY <1>7, <1>9
<1>11. Stamped(T)
  BY <1>7, <1>8, <1>9, <1>10 DEF Stamped
<1> QED
  BY <1>11 DEF T, list, n, all

(* ---------------------------------------------------------------- *)
(* The steps, one by one.                                           *)

LEMMA QuietStepsAreAlone ==
    ASSUME ThreadsAreSound, Alone, NEW c \in Clients,
           \/ Refresh(c) \/ NormaliseDocument(c) \/ CheckRevision(c) \/ ApplyPatch(c)
           \/ BuildPlan(c)
    PROVE  Alone'
<1> DEFINE u == thread[c]
<1>1. DOMAIN u = Fields
  BY ThreadFields
<1>2. ASSUME NEW x \in {"refresh", "normalise", "check", "patch", "plan"}, NEW t,
             NEW y \in AllSteps \ {"assign"}, MayFollow(t.ask, x, y)
      PROVE  HoldsAt(t, y, gStore)
  BY <1>2 DEF MayFollow, HoldsAt
<1>3. {"refresh", "normalise", "check", "patch", "plan"} \subseteq AllSteps \ {"assign"}
  BY DEF AllSteps, OtherSteps
<1>4. ASSUME NEW x \in {"refresh", "normalise", "check", "patch", "plan"}, AtStep(c, x),
             NEW t, Go(c, t), t.ask = u.ask, t.todo = Remaining(c),
             UNCHANGED <<gStore, crossed>>, gMem' \in {gMem, gStore}
      PROVE  Alone'
  BY <1>2, <1>3, <1>4, StepIsTaken
<1>5. CASE Refresh(c)
  <2> DEFINE t == [u EXCEPT !.todo = Remaining(c)]
  <2>1. Go(c, t) /\ AtStep(c, "refresh") /\ UNCHANGED <<gStore, crossed>> /\ gMem' = gStore
    BY <1>5 DEF Refresh, StepOn
  <2>2. t.ask = u.ask /\ t.todo = Remaining(c)
    BY <1>1, FieldNames
  <2> HIDE DEF t
  <2> QED
    BY <1>4, <2>1, <2>2
<1>6. CASE NormaliseDocument(c)
  <2> DEFINE t == [u EXCEPT !.todo = Remaining(c), !.doc = Normalised(@, gMem.res)]
  <2>1. Go(c, t) /\ AtStep(c, "normalise") /\ UNCHANGED <<gStore, gMem, crossed>>
    BY <1>6 DEF NormaliseDocument
  <2>2. t.ask = u.ask /\ t.todo = Remaining(c)
    BY <1>1, FieldNames
  <2> HIDE DEF t
  <2> QED
    BY <1>4, <2>1, <2>2
<1>7. CASE CheckRevision(c)
  <2>1. AtStep(c, "check") /\ UNCHANGED <<gStore, gMem, crossed>>
    BY <1>7 DEF CheckRevision
  <2>2. CASE GiveUp(c, "conflict")
    BY <1>3, <2>1, <2>2, GivesUp
  <2>3. CASE StepOn(c)
    <3> DEFINE t == [u EXCEPT !.todo = Remaining(c)]
    <3>1. Go(c, t)
      BY <2>3 DEF StepOn
    <3>2. t.ask = u.ask /\ t.todo = Remaining(c)
      BY <1>1, FieldNames
    <3> HIDE DEF t
    <3> QED
      BY <1>4, <2>1, <3>1, <3>2
  <2> QED
    BY <1>7, <2>2, <2>3 DEF CheckRevision
<1>8. CASE ApplyPatch(c)
  <2> DEFINE made == Patched(u.doc, u.ops, gMem'.res)
             t == [u EXCEPT !.todo = Remaining(c), !.doc = made]
  <2>1. AtStep(c, "patch") /\ UNCHANGED <<gStore, crossed>> /\ gMem' \in {gMem, gStore}
    BY <1>8 DEF ApplyPatch
  <2>2. t.ask = u.ask /\ t.todo = Remaining(c)
    BY <1>1, FieldNames
  <2>3. Go(c, t) \/ GiveUp(c, "refused")
    BY <1>8 DEF ApplyPatch
  <2> HIDE DEF t
  <2>4. CASE Go(c, t)
    BY <1>4, <2>1, <2>2, <2>4
  <2>5. CASE GiveUp(c, "refused")
    BY <1>3, <2>1, <2>5, GivesUp
  <2> QED
    BY <2>3, <2>4, <2>5
<1>9. CASE BuildPlan(c)
  <2> DEFINE t == IF u.ok
                  THEN [u EXCEPT !.todo = Remaining(c), !.answer = "planned",
                                 !.plan = PlanOf(Compiled(u.doc), gMem.res)]
                  ELSE [u EXCEPT !.todo = Remaining(c), !.answer = "failed"]
  <2>1. Go(c, t) /\ AtStep(c, "plan") /\ UNCHANGED <<gStore, gMem, crossed>>
    BY <1>9 DEF BuildPlan
  <2>2. t.ask = u.ask /\ t.todo = Remaining(c)
    BY <1>1, FieldNames
  <2> HIDE DEF t
  <2> QED
    BY <1>4, <2>1, <2>2
<1> QED
  BY <1>5, <1>6, <1>7, <1>8, <1>9

LEMMA ValidateIsAlone ==
    ASSUME ThreadsAreSound, Alone, NEW c \in Clients, ValidateGraph(c)
    PROVE  Alone'
<1> DEFINE u == thread[c]
           t == [u EXCEPT !.todo = Remaining(c), !.ok = Valid(u.doc, gMem.res)]
<1>1. /\ Go(c, t) /\ AtStep(c, "validate") /\ Underway(c)
      /\ UNCHANGED <<gStore, gMem, crossed>> /\ "validate" \in AllSteps \ {"assign"}
  BY DEF ValidateGraph, AllSteps, OtherSteps, AtStep
<1>2. DOMAIN u = Fields
  BY ThreadFields
<1>3. /\ t.ask = u.ask /\ t.todo = Remaining(c) /\ t.doc = u.doc
      /\ t.ok = Valid(u.doc, gMem.res)
  BY <1>2, FieldNames
<1> HIDE DEF t
<1>4. ASSUME ~crossed, NEW y \in AllSteps \ {"assign"}, MayFollow(t.ask, "validate", y)
      PROVE  HoldsAt(t, y, gStore)
  <2>1. Holds(u, gStore) /\ gMem = gStore /\ Comes(u, "validate")
    BY <1>1, <1>4, WhoIsAlone DEF AtStep, Comes
  <2>2. u.doc = gStore.graph
    BY <1>1, <2>1 DEF Holds, HoldsAt
  <2> QED
    BY <1>3, <1>4, <2>1, <2>2 DEF MayFollow, HoldsAt
<1> QED
  BY <1>1, <1>3, <1>4, StepIsTaken

LEMMA NoteIsAlone ==
    ASSUME ThreadsAreSound, Alone, NEW c \in Clients, NoteRevision(c)
    PROVE  Alone'
<1> DEFINE u == thread[c]
           t == [u EXCEPT !.todo = Remaining(c), !.noted = gMem.rev]
<1>1. /\ Go(c, t) /\ AtStep(c, "note") /\ Underway(c)
      /\ UNCHANGED <<gStore, gMem, crossed>> /\ "note" \in AllSteps \ {"assign"}
  BY DEF NoteRevision, AllSteps, OtherSteps, AtStep
<1>2. DOMAIN u = Fields
  BY ThreadFields
<1>3. /\ t.ask = u.ask /\ t.todo = Remaining(c) /\ t.doc = u.doc /\ t.noted = gMem.rev
  BY <1>2, FieldNames
<1> HIDE DEF t
<1>4. ASSUME ~crossed, NEW y \in AllSteps \ {"assign"}, MayFollow(t.ask, "note", y)
      PROVE  HoldsAt(t, y, gStore)
  <2>1. Holds(u, gStore) /\ gMem = gStore /\ Comes(u, "note")
    BY <1>1, <1>4, WhoIsAlone DEF AtStep, Comes
  <2>2. u.ask \in Compiling => u.doc = gStore.graph
    BY <1>1, <2>1 DEF Holds, HoldsAt
  <2> QED
    BY <1>3, <1>4, <2>1, <2>2 DEF MayFollow, HoldsAt
<1> QED
  BY <1>1, <1>3, <1>4, StepIsTaken

LEMMA JudgeIsAlone ==
    ASSUME ThreadsAreSound, Alone, NEW c \in Clients, JudgeGraph(c)
    PROVE  Alone'
<1> DEFINE u == thread[c]
           good == (u.ask = "source" \/ Acceptable(u.doc, gMem.res)) /\ Compiled(u.doc) # Rejected
           t == [u EXCEPT !.todo = Remaining(c), !.ok = good]
<1>1. /\ Go(c, t) /\ AtStep(c, "judge") /\ Underway(c)
      /\ UNCHANGED <<gStore, gMem, crossed>> /\ "judge" \in AllSteps \ {"assign"}
  BY DEF JudgeGraph, AllSteps, OtherSteps, AtStep
<1>2. DOMAIN u = Fields
  BY ThreadFields
<1>3. /\ t.ask = u.ask /\ t.todo = Remaining(c) /\ t.doc = u.doc /\ t.noted = u.noted
  BY <1>2, FieldNames
<1> HIDE DEF t
<1>4. ASSUME ~crossed, NEW y \in AllSteps \ {"assign"}, MayFollow(t.ask, "judge", y)
      PROVE  HoldsAt(t, y, gStore)
  <2>1. Holds(u, gStore) /\ Comes(u, "judge")
    BY <1>1, <1>4, WhoIsAlone DEF AtStep, Comes
  <2>2. u.ask \in Compiling => u.doc = gStore.graph /\ u.noted = gStore.rev
    BY <1>1, <2>1 DEF Holds, HoldsAt
  <2> QED
    BY <1>3, <1>4, <2>2 DEF MayFollow, HoldsAt
<1> QED
  BY <1>1, <1>3, <1>4, StepIsTaken

LEMMA ReadIsAlone ==
    ASSUME ThreadsAreSound, Alone, NEW c \in Clients, ReadGraph(c)
    PROVE  Alone'
<1> DEFINE u == thread[c]
           g == Normalised(gMem.graph, gMem.res)
           t == [u EXCEPT !.todo = Remaining(c), !.doc = g]
           new == [gStore EXCEPT !.graph = g, !.rev = @ + 1]
<1>1. /\ AtStep(c, "read") /\ Underway(c) /\ UNCHANGED crossed
      /\ "read" \in WritingSteps /\ "read" \in AllSteps \ {"assign"}
  BY DEF ReadGraph, AllSteps, OtherSteps, AtStep, WritingSteps
<1>2. DOMAIN u = Fields
  BY ThreadFields
<1>3. DOMAIN t = Fields /\ t.ask = u.ask /\ t.todo = Remaining(c) /\ t.doc = g
  BY <1>2, FieldNames
<1>4. IF NeedsRenewal(gMem.graph, gMem.res) THEN MutateGraph(c, new, t)
      ELSE Go(c, t) /\ UNCHANGED <<gStore, gMem>>
  BY DEF ReadGraph
<1>5. ASSUME NEW S, S.graph = g, NEW y \in AllSteps \ {"assign"}, MayFollow(t.ask, "read", y)
      PROVE  HoldsAt(t, y, S)
  <2> HIDE DEF t, g
  <2> QED
    BY <1>3, <1>5 DEF MayFollow, HoldsAt
<1>6. CASE NeedsRenewal(gMem.graph, gMem.res)
  <2>1. ASSUME ~crossed PROVE Stamped(new) /\ new.graph = g
    <3>1. Stamped(gStore)
      BY <1>1, <2>1, WhoIsAlone
    <3>2. DOMAIN gStore = StoreFields
      BY <3>1 DEF Stamped
    <3> QED
      BY <3>1, <3>2, GraphStaysStamped DEF StoreFields
  <2> HIDE DEF new, t, g
  <2> QED
    BY <1>1, <1>3, <1>4, <1>5, <1>6, <2>1, Writes
<1>7. CASE ~NeedsRenewal(gMem.graph, gMem.res)
  <2>1. ~crossed => gStore.graph = g
    <3>1. ~crossed => gMem = gStore
      BY <1>1, WhoIsAlone DEF AtStep
    <3> QED
      BY <1>7, <3>1 DEF Normalised
  <2> HIDE DEF new, t, g
  <2> QED
    BY <1>1, <1>3, <1>4, <1>5, <1>7, <2>1, StepIsTaken
<1> QED
  BY <1>6, <1>7

LEMMA PersistIsAlone ==
    ASSUME ThreadsAreSound, Alone, NEW c \in Clients, PersistDocument(c)
    PROVE  Alone'
<1> DEFINE u == thread[c]
           t == [u EXCEPT !.todo = Remaining(c), !.answer = "saved"]
           new == [gStore EXCEPT !.graph = u.doc, !.rev = @ + 1]
<1>1. /\ AtStep(c, "persist") /\ Underway(c) /\ UNCHANGED crossed
      /\ "persist" \in WritingSteps /\ "persist" \in AllSteps \ {"assign"}
  BY DEF PersistDocument, AllSteps, OtherSteps, AtStep, WritingSteps
<1>2. DOMAIN u = Fields
  BY ThreadFields
<1>3. DOMAIN t = Fields /\ t.ask = u.ask /\ t.todo = Remaining(c) /\ t.doc = u.doc
  BY <1>2, FieldNames
<1>4. \/ GiveUp(c, "conflict") /\ UNCHANGED <<gStore, gMem>>
      \/ MutateGraph(c, new, t)
  BY DEF PersistDocument
<1>5. CASE GiveUp(c, "conflict") /\ UNCHANGED <<gStore, gMem>>
  BY <1>1, <1>5, GivesUp
<1>6. CASE MutateGraph(c, new, t)
  <2>1. ASSUME ~crossed PROVE Stamped(new) /\ new.graph = u.doc
    <3>1. Stamped(gStore)
      BY <1>1, <2>1, WhoIsAlone
    <3>2. DOMAIN gStore = StoreFields
      BY <3>1 DEF Stamped
    <3> QED
      BY <3>1, <3>2, GraphStaysStamped DEF StoreFields
  <2> HIDE DEF new, t
  <2>2. ASSUME ~crossed, NEW y \in AllSteps \ {"assign"}, MayFollow(t.ask, "persist", y)
        PROVE  HoldsAt(t, y, new)
    BY <1>3, <2>1, <2>2 DEF MayFollow, HoldsAt
  <2> QED
    BY <1>1, <1>3, <1>6, <2>1, <2>2, Writes
<1> QED
  BY <1>4, <1>5, <1>6

LEMMA StampIsAlone ==
    ASSUME ThreadsAreSound, Alone, NEW c \in Clients, StampSnapshot(c)
    PROVE  Alone'
<1> DEFINE u == thread[c]
           t == [u EXCEPT !.todo = Remaining(c)]
           new == [gStore EXCEPT !.snap = [rev |-> gMem.rev, regs |-> gMem.regs, valid |-> u.ok]]
<1>1. /\ AtStep(c, "stamp") /\ Underway(c) /\ UNCHANGED crossed
      /\ "stamp" \in WritingSteps /\ "stamp" \in AllSteps /\ MutateGraph(c, new, t)
  BY DEF StampSnapshot, AllSteps, OtherSteps, AtStep, WritingSteps
<1>2. DOMAIN u = Fields
  BY ThreadFields
<1>3. DOMAIN t = Fields /\ t.ask = u.ask /\ t.todo = Remaining(c)
  BY <1>2, FieldNames
<1>4. ASSUME ~crossed PROVE Stamped(new)
  <2>1. Holds(u, gStore) /\ gMem = gStore /\ Comes(u, "stamp") /\ Stamped(gStore)
    BY <1>1, <1>4, WhoIsAlone DEF AtStep, Comes
  <2>2. u.ok = Valid(gStore.graph, gStore.res)
    BY <1>1, <2>1 DEF Holds, HoldsAt
  <2> QED
    BY <2>1, <2>2, SnapshotIsStamped
<1> HIDE DEF new, t
<1>5. ASSUME NEW y \in AllSteps \ {"assign"}, MayFollow(t.ask, "stamp", y)
      PROVE  HoldsAt(t, y, new)
  BY <1>5 DEF MayFollow, HoldsAt
<1> QED
  BY <1>1, <1>3, <1>4, <1>5, Writes

LEMMA ReserveIsAlone ==
    ASSUME ThreadsAreSound, Alone, NEW c \in Clients, ReserveSequence(c)
    PROVE  Alone'
<1> DEFINE u == thread[c]
           t == [u EXCEPT !.todo = Remaining(c), !.seq = gStore.counter + 1]
           new == [gStore EXCEPT !.counter = @ + 1]
<1>1. /\ AtStep(c, "reserve") /\ Underway(c) /\ UNCHANGED crossed
      /\ "reserve" \in WritingSteps /\ "reserve" \in AllSteps /\ MutateGraph(c, new, t)
  BY DEF ReserveSequence, AllSteps, OtherSteps, AtStep, WritingSteps
<1>2. DOMAIN u = Fields
  BY ThreadFields
<1>3. DOMAIN t = Fields /\ t.ask = u.ask /\ t.todo = Remaining(c) /\ t.doc = u.doc
      /\ t.noted = u.noted
  BY <1>2, FieldNames
<1>4. ASSUME ~crossed
      PROVE  /\ Stamped(new) /\ new.graph = gStore.graph /\ new.rev = gStore.rev
             /\ u.ask \in Compiling => u.doc = gStore.graph /\ u.noted = gStore.rev
             /\ u.ask \in Compiling \cup {"source"}
  <2>1. Holds(u, gStore) /\ Comes(u, "reserve") /\ Stamped(gStore)
    BY <1>1, <1>4, WhoIsAlone DEF AtStep, Comes
  <2>2. /\ u.ask \in Compiling => u.doc = gStore.graph /\ u.noted = gStore.rev
        /\ u.ask \in Compiling \cup {"source"}
    BY <1>1, <2>1 DEF Holds, HoldsAt
  <2>3. DOMAIN gStore = StoreFields
    BY <2>1 DEF Stamped
  <2>4. new = [gStore EXCEPT !.counter = gStore.counter + 1]
    OBVIOUS
  <2> QED
    BY <2>1, <2>2, <2>3, <2>4, CounterStaysStamped DEF StoreFields
<1> HIDE DEF new, t
<1>5. ASSUME ~crossed, NEW y \in AllSteps \ {"assign"}, MayFollow(t.ask, "reserve", y)
      PROVE  HoldsAt(t, y, new)
  BY <1>3, <1>4, <1>5 DEF MayFollow, HoldsAt
<1> QED
  BY <1>1, <1>3, <1>4, <1>5, Writes

LEMMA RememberIsAlone ==
    ASSUME GraphAssumption, ThreadsAreSound, Alone, NEW c \in Clients, RememberCompile(c)
    PROVE  Alone'
<1> DEFINE u == thread[c]
           done == [seq |-> u.seq, ok |-> u.ok, saved |-> u.ask # "source",
                    rev |-> u.noted, graph |-> u.doc]
           all == <<done>> \o gStore.compiles
           t == [u EXCEPT !.todo = Remaining(c), !.answer = "compiled"]
           new == [gStore EXCEPT !.compiles =
                     SubSeq(all, 1, IF Len(all) > MaxHistory THEN MaxHistory ELSE Len(all))]
<1>1. /\ AtStep(c, "remember") /\ Underway(c) /\ UNCHANGED crossed
      /\ "remember" \in WritingSteps /\ "remember" \in AllSteps /\ MutateGraph(c, new, t)
  BY DEF RememberCompile, AllSteps, OtherSteps, AtStep, WritingSteps
<1>2. DOMAIN u = Fields
  BY ThreadFields
<1>3. DOMAIN t = Fields /\ t.ask = u.ask /\ t.todo = Remaining(c)
  BY <1>2, FieldNames
<1>4. ASSUME ~crossed PROVE Stamped(new)
  <2>1. Holds(u, gStore) /\ Comes(u, "remember") /\ Stamped(gStore)
    BY <1>1, <1>4, WhoIsAlone DEF AtStep, Comes
  <2>2. u.ask # "source" => u.doc = gStore.graph /\ u.noted = gStore.rev
    BY <1>1, <2>1 DEF Holds, HoldsAt
  <2>3. done.saved => done.rev = gStore.rev /\ done.graph = gStore.graph
    BY <2>2
  <2> HIDE DEF done
  <2> QED
    BY <2>1, <2>3, CompilationIsStamped
<1> HIDE DEF new, t
<1>5. ASSUME NEW y \in AllSteps \ {"assign"}, MayFollow(t.ask, "remember", y)
      PROVE  HoldsAt(t, y, new)
  BY <1>5 DEF MayFollow, HoldsAt
<1> QED
  BY <1>1, <1>3, <1>4, <1>5, Writes

LEMMA ResourceStepsAreAlone ==
    ASSUME ThreadsAreSound, Alone, NEW c \in Clients, ToggleResource(c) \/ RedrawComponent(c)
    PROVE  Alone'
<1> DEFINE u == thread[c]
           t == [u EXCEPT !.todo = Remaining(c)]
           new(R) == [gStore EXCEPT !.res = R, !.regs = @ + 1]
<1>1. DOMAIN u = Fields
  BY ThreadFields
<1>2. DOMAIN t = Fields /\ t.ask = u.ask /\ t.todo = Remaining(c)
  BY <1>1, FieldNames
<1>3. PICK x \in {"toggle", "redraw"} : AtStep(c, x) /\ Underway(c) /\ UNCHANGED crossed
        /\ \/ \E R : MutateGraph(c, new(R), t)
           \/ GiveUp(c, "refused") /\ UNCHANGED <<gStore, gMem>>
  <2>1. CASE ToggleResource(c)
    <3>1. AtStep(c, "toggle") /\ Underway(c) /\ UNCHANGED crossed
      BY <2>1 DEF ToggleResource, AtStep
    <3>2. PICK r \in gStore.res :
            MutateGraph(c, [gStore EXCEPT !.res = (@ \ {r}) \cup {[r EXCEPT !.enabled = ~@]},
                                          !.regs = @ + 1], t)
      BY <2>1 DEF ToggleResource
    <3>3. MutateGraph(c, new((gStore.res \ {r}) \cup {[r EXCEPT !.enabled = ~@]}), t)
      BY <3>2
    <3> QED
      BY <3>1, <3>3
  <2>2. CASE RedrawComponent(c)
    <3>1. AtStep(c, "redraw") /\ Underway(c) /\ UNCHANGED crossed
      BY <2>2 DEF RedrawComponent, AtStep
    <3>2. CASE Known(gStore.res, ComponentKey)
      <4> DEFINE r == ResourceOf(gStore.res, ComponentKey)
      <4>1. PICK fields \in Redrawn :
              MutateGraph(c, [gStore EXCEPT !.res = (@ \ {r}) \cup
                                {[r EXCEPT !.inputs = fields, !.needed = Elems(fields)]},
                                            !.regs = @ + 1], t)
        BY <2>2, <3>2 DEF RedrawComponent
      <4>2. MutateGraph(c, new((gStore.res \ {r}) \cup
                          {[r EXCEPT !.inputs = fields, !.needed = Elems(fields)]}), t)
        BY <4>1
      <4> QED
        BY <3>1, <4>2
    <3>3. CASE ~Known(gStore.res, ComponentKey)
      BY <2>2, <3>1, <3>3 DEF RedrawComponent
    <3> QED
      BY <3>2, <3>3
  <2> QED
    BY <2>1, <2>2
<1>4. x \in WritingSteps /\ x \in AllSteps \ {"assign"}
  BY DEF AllSteps, OtherSteps, WritingSteps
<1>5. CASE \E R : MutateGraph(c, new(R), t)
  <2>1. PICK R : MutateGraph(c, new(R), t)
    BY <1>5
  <2>2. ~crossed => Stamped(new(R))
    BY <1>3, WhoIsAlone, ResourcesStayStamped
  <2> HIDE DEF new, t
  <2>3. ASSUME NEW y \in AllSteps \ {"assign"}, MayFollow(t.ask, x, y)
        PROVE  HoldsAt(t, y, new(R))
    BY <2>3 DEF MayFollow, HoldsAt
  <2> QED
    BY <1>2, <1>3, <1>4, <2>1, <2>2, <2>3, Writes
<1>6. CASE GiveUp(c, "refused") /\ UNCHANGED <<gStore, gMem>>
  BY <1>3, <1>4, <1>6, GivesUp
<1> QED
  BY <1>3, <1>5, <1>6

\* Two programs one after the other.
LEMMA ChainedBoth ==
    ASSUME NEW ask, NEW s, NEW r, Chained(ask, s), Chained(ask, r), s # <<>>,
           r # <<>> => MayFollow(ask, s[Len(s)], r[1])
    PROVE  Chained(ask, s \o r) /\ s \o r # <<>> /\ (s \o r)[1] = s[1]
           /\ (r # <<>> => (s \o r)[Len(s \o r)] = r[Len(r)])
<1> DEFINE q == s \o r
           m == Len(s)
           n == Len(r)
<1>1. s \in Seq(AllSteps) /\ r \in Seq(AllSteps)
  BY DEF Chained
<1>2. /\ m \in Nat /\ n \in Nat /\ m > 0 /\ q \in Seq(AllSteps) /\ Len(q) = m + n
      /\ \A i \in 1 .. m : q[i] = s[i]
      /\ \A i \in 1 .. n : q[m + i] = r[i]
      /\ (r # <<>> <=> n > 0)
  BY <1>1
<1> HIDE DEF q
<1>3. \A i \in 1 .. (m - 1) : MayFollow(ask, s[i], s[i + 1])
  BY DEF Chained
<1>4. \A i \in 1 .. (n - 1) : MayFollow(ask, r[i], r[i + 1])
  BY DEF Chained
<1>5. ASSUME NEW i \in 1 .. (Len(q) - 1) PROVE MayFollow(ask, q[i], q[i + 1])
  <2>1. CASE i < m
    <3>1. i \in 1 .. (m - 1) /\ q[i] = s[i] /\ q[i + 1] = s[i + 1]
      BY <1>2, <2>1
    <3> QED
      BY <1>3, <3>1
  <2>2. CASE i = m
    <3>1. n > 0 /\ q[i] = s[m] /\ q[i + 1] = r[1]
      BY <1>2, <2>2
    <3> QED
      BY <1>2, <3>1
  <2>3. CASE i > m
    <3>1. i - m \in 1 .. (n - 1) /\ i = m + (i - m) /\ i + 1 = m + ((i - m) + 1)
      BY <1>2, <2>3
    <3>2. q[i] = r[i - m] /\ q[i + 1] = r[(i - m) + 1]
      BY <1>2, <3>1
    <3> QED
      BY <1>4, <3>1, <3>2, SMTT(30)
  <2> QED
    BY <1>2, <2>1, <2>2, <2>3
<1>6. q # <<>> /\ q[1] = s[1] /\ (r # <<>> => q[Len(q)] = r[n])
  BY <1>2
<1> QED
  BY <1>2, <1>5, <1>6 DEF Chained, q

LEMMA RevalidationIsChained ==
    ASSUME NEW ask
    PROVE  /\ Chained(ask, Revalidate) /\ Revalidate # <<>>
           /\ Revalidate[1] = "refresh" /\ Revalidate[Len(Revalidate)] = "stamp"
<1>1. Revalidate \in Seq(AllSteps) /\ Len(Revalidate) = 4
  BY DEF Revalidate, AllSteps, OtherSteps
<1>2. \A i \in 1 .. 3 : MayFollow(ask, Revalidate[i], Revalidate[i + 1])
  <2> TAKE i \in 1 .. 3
  <2>1. CASE i = 1
    BY <2>1 DEF MayFollow, Revalidate
  <2>2. CASE i = 2
    BY <2>2 DEF MayFollow, Revalidate
  <2>3. CASE i = 3
    BY <2>3 DEF MayFollow, Revalidate
  <2> QED
    BY <2>1, <2>2, <2>3
<1> QED
  BY <1>1, <1>2 DEF Chained, Revalidate

LEMMA ShortChains ==
    ASSUME NEW ask
    PROVE  /\ Chained(ask, <<"read", "read", "note">>)
           /\ Chained(ask, View) /\ Chained(ask, Saving) /\ Chained(ask, <<"view">>)
           /\ Chained(ask, <<"check", "read", "patch">>)
           /\ Chained(ask, <<"check", "read", "patch", "refresh">>)
           /\ ask \in Compiling => Chained(ask, <<"read", "note", "judge", "reserve", "remember">>)
           /\ ask \in Compiling => Chained(ask, <<"note", "judge", "reserve", "remember">>)
           /\ ask \notin Compiling => Chained(ask, <<"read", "judge", "plan">>)
           /\ ask \notin Compiling => Chained(ask, <<"normalise", "judge", "plan">>)
           /\ ask = "source" => Chained(ask, <<"judge", "reserve", "remember">>)
           /\ Chained(ask, <<"toggle">>) /\ Chained(ask, <<"redraw">>)
<1>1. \A a \in AllSteps : Chained(ask, <<a>>)
  BY DEF Chained
<1>2. \A a, b \in AllSteps : MayFollow(ask, a, b) => Chained(ask, <<a, b>>)
  <2> TAKE a \in AllSteps, b \in AllSteps
  <2> HAVE MayFollow(ask, a, b)
  <2>1. <<a, b>> \in Seq(AllSteps) /\ Len(<<a, b>>) = 2
    OBVIOUS
  <2> QED
    BY <2>1 DEF Chained
<1>3. \A a, b, d \in AllSteps :
        MayFollow(ask, a, b) /\ MayFollow(ask, b, d) => Chained(ask, <<a, b, d>>)
  <2> TAKE a \in AllSteps, b \in AllSteps, d \in AllSteps
  <2> HAVE MayFollow(ask, a, b) /\ MayFollow(ask, b, d)
  <2>1. <<a, b, d>> \in Seq(AllSteps) /\ Len(<<a, b, d>>) = 3
    OBVIOUS
  <2> QED
    BY <2>1 DEF Chained
<1>4. \A a, b, d, e \in AllSteps :
        MayFollow(ask, a, b) /\ MayFollow(ask, b, d) /\ MayFollow(ask, d, e)
          => Chained(ask, <<a, b, d, e>>)
  <2> TAKE a \in AllSteps, b \in AllSteps, d \in AllSteps, e \in AllSteps
  <2> HAVE MayFollow(ask, a, b) /\ MayFollow(ask, b, d) /\ MayFollow(ask, d, e)
  <2>1. <<a, b, d, e>> \in Seq(AllSteps) /\ Len(<<a, b, d, e>>) = 4
    OBVIOUS
  <2> QED
    BY <2>1 DEF Chained
<1>5. \A a, b, d, e, f \in AllSteps :
        MayFollow(ask, a, b) /\ MayFollow(ask, b, d) /\ MayFollow(ask, d, e) /\ MayFollow(ask, e, f)
          => Chained(ask, <<a, b, d, e, f>>)
  <2> TAKE a \in AllSteps, b \in AllSteps, d \in AllSteps, e \in AllSteps, f \in AllSteps
  <2> HAVE MayFollow(ask, a, b) /\ MayFollow(ask, b, d) /\ MayFollow(ask, d, e) /\ MayFollow(ask, e, f)
  <2>1. <<a, b, d, e, f>> \in Seq(AllSteps) /\ Len(<<a, b, d, e, f>>) = 5
    OBVIOUS
  <2> QED
    BY <2>1 DEF Chained
<1>6. OtherSteps \subseteq AllSteps /\ "plan" \in AllSteps
  BY DEF AllSteps
<1>7. Chained(ask, <<"read", "read", "note">>) /\ Chained(ask, <<"check", "read", "patch">>)
  BY <1>3, <1>6 DEF MayFollow, OtherSteps
<1>8. Chained(ask, View) /\ Chained(ask, Saving)
  BY <1>2, <1>6 DEF MayFollow, OtherSteps, View, Saving
<1>9. Chained(ask, <<"check", "read", "patch", "refresh">>)
  BY <1>4, <1>6 DEF MayFollow, OtherSteps
<1>10. ask \in Compiling => Chained(ask, <<"read", "note", "judge", "reserve", "remember">>)
  BY <1>5, <1>6 DEF MayFollow, OtherSteps
<1>11. ask \in Compiling => Chained(ask, <<"note", "judge", "reserve", "remember">>)
  BY <1>4, <1>6 DEF MayFollow, OtherSteps
<1>12. ask \notin Compiling =>
         Chained(ask, <<"read", "judge", "plan">>) /\ Chained(ask, <<"normalise", "judge", "plan">>)
  BY <1>3, <1>6 DEF MayFollow, OtherSteps
<1>13. ask = "source" => Chained(ask, <<"judge", "reserve", "remember">>)
  <2>1. "source" \notin Compiling
    BY DEF Compiling
  <2> QED
    BY <1>3, <1>6, <2>1 DEF MayFollow, OtherSteps
<1>14. Chained(ask, <<"toggle">>) /\ Chained(ask, <<"redraw">>) /\ Chained(ask, <<"view">>)
  BY <1>1, <1>6 DEF OtherSteps
<1> QED
  BY <1>7, <1>8, <1>9, <1>10, <1>11, <1>12, <1>13, <1>14

\* A program is in order, and begins with a step that relies on nothing.
Beginning == {"read", "check", "normalise", "judge", "toggle", "redraw"}

LEMMA ProgramsAreChained ==
    ASSUME NEW ask \in GraphAsks
    PROVE  /\ Chained(ask, Program(ask)) /\ Program(ask) # <<>>
           /\ Program(ask)[1] \in Beginning
           /\ Program(ask)[1] = "judge" => ask = "source"
<1>1. View # <<>> /\ View[1] = "view" /\ Saving # <<>> /\ Saving[1] = "normalise"
      /\ Saving[Len(Saving)] = "persist"
  BY DEF View, Saving
<1>2. Chained(ask, Revalidate \o View) /\ (Revalidate \o View)[1] = "refresh"
      /\ Revalidate \o View # <<>>
  BY <1>1, RevalidationIsChained, ShortChains, ChainedBoth DEF MayFollow
<1>3. Chained(ask, Saving \o Revalidate) /\ (Saving \o Revalidate)[1] = "normalise"
      /\ Saving \o Revalidate # <<>> /\ (Saving \o Revalidate)[Len(Saving \o Revalidate)] = "stamp"
  BY <1>1, RevalidationIsChained, ShortChains, ChainedBoth DEF MayFollow
<1>4. CASE ask = "load"
  <2> DEFINE s == <<"read", "read", "note">>
  <2>1. s # <<>> /\ s[1] = "read" /\ s[Len(s)] = "note" /\ Chained(ask, s)
    BY ShortChains
  <2> HIDE DEF s
  <2>2. Chained(ask, s \o View) /\ s \o View # <<>> /\ (s \o View)[1] = "read"
    BY <1>1, <2>1, ShortChains, ChainedBoth DEF MayFollow
  <2>3. Program(ask) = s \o View
    BY <1>4 DEF Program, s
  <2> QED
    BY <2>2, <2>3 DEF Beginning
<1>5. CASE ask = "preview"
  <2>1. Program(ask) = <<"check", "read", "patch">>
    BY <1>5 DEF Program
  <2> QED
    BY <2>1, ShortChains DEF Beginning
<1>6. CASE ask = "apply"
  <2> DEFINE s == <<"check", "read", "patch", "refresh">>
             r == Saving \o Revalidate
  <2>1. s # <<>> /\ s[1] = "check" /\ s[Len(s)] = "refresh" /\ Chained(ask, s)
    BY ShortChains
  <2>2. Program(ask) = s \o Saving \o Revalidate \o View
    BY <1>6 DEF Program
  <2> HIDE DEF s
  <2> DEFINE p == s \o Saving
             q == p \o Revalidate
  <2>3. Chained(ask, p) /\ p # <<>> /\ p[1] = "check" /\ p[Len(p)] = "persist"
    BY <1>1, <2>1, ShortChains, ChainedBoth DEF MayFollow
  <2> HIDE DEF p
  <2>4. Chained(ask, q) /\ q # <<>> /\ q[1] = "check" /\ q[Len(q)] = "stamp"
    BY <2>3, RevalidationIsChained, ChainedBoth DEF MayFollow
  <2> HIDE DEF q
  <2>5. Chained(ask, q \o View) /\ q \o View # <<>> /\ (q \o View)[1] = "check"
    BY <1>1, <2>4, ShortChains, ChainedBoth DEF MayFollow
  <2>6. Program(ask) = q \o View
    BY <2>2 DEF p, q
  <2> QED
    BY <2>5, <2>6 DEF Beginning
<1>7. CASE ask = "save"
  <2> DEFINE q == Saving \o Revalidate
  <2>3. Chained(ask, q) /\ q # <<>> /\ q[1] = "normalise" /\ q[Len(q)] = "stamp"
    BY <1>3
  <2> HIDE DEF q
  <2>1. Chained(ask, q \o View) /\ q \o View # <<>> /\ (q \o View)[1] = "normalise"
    BY <1>1, <2>3, ShortChains, ChainedBoth DEF MayFollow
  <2>2. Program(ask) = q \o View
    BY <1>7 DEF Program, q
  <2> QED
    BY <2>1, <2>2 DEF Beginning
<1>8. CASE ask = "compile"
  <2>1. Program(ask) = <<"read", "note", "judge", "reserve", "remember">> /\ ask \in Compiling
    BY <1>8 DEF Program, Compiling
  <2> QED
    BY <2>1, ShortChains DEF Beginning
<1>9. CASE ask = "compile_document"
  <2> DEFINE r == <<"note", "judge", "reserve", "remember">>
  <2>1. r # <<>> /\ r[1] = "note" /\ Chained(ask, r)
    BY <1>9, ShortChains DEF Compiling
  <2>2. Program(ask) = Saving \o r
    BY <1>9 DEF Program
  <2> HIDE DEF r
  <2>3. Chained(ask, Saving \o r) /\ Saving \o r # <<>> /\ (Saving \o r)[1] = "normalise"
    BY <1>1, <2>1, ShortChains, ChainedBoth DEF MayFollow
  <2> QED
    BY <2>2, <2>3 DEF Beginning
<1>10. CASE ask = "prepare"
  <2>1. Program(ask) = <<"read", "judge", "plan">> /\ ask \notin Compiling
    BY <1>10 DEF Program, Compiling
  <2> QED
    BY <2>1, ShortChains DEF Beginning
<1>11. CASE ask = "prepare_document"
  <2>1. Program(ask) = <<"normalise", "judge", "plan">> /\ ask \notin Compiling
    BY <1>11 DEF Program, Compiling
  <2> QED
    BY <2>1, ShortChains DEF Beginning
<1>12. CASE ask = "source"
  <2>1. Program(ask) = <<"judge", "reserve", "remember">>
    BY <1>12 DEF Program
  <2> QED
    BY <1>12, <2>1, ShortChains DEF Beginning
<1>13. CASE ask = "toggle"
  <2>1. Program(ask) = <<"toggle">>
    BY <1>13 DEF Program
  <2> QED
    BY <2>1, ShortChains DEF Beginning
<1>14. CASE ask = "redraw"
  <2> DEFINE s == <<"redraw">>
             p == s \o Revalidate
             q == p \o Revalidate
  <2>1. s # <<>> /\ s[1] = "redraw" /\ s[Len(s)] = "redraw" /\ Chained(ask, s)
    BY ShortChains
  <2>2. Program(ask) = q \o Revalidate
    BY <1>14 DEF Program
  <2> HIDE DEF s
  <2>3. Chained(ask, p) /\ p # <<>> /\ p[1] = "redraw" /\ p[Len(p)] = "stamp"
    BY <2>1, RevalidationIsChained, ChainedBoth DEF MayFollow
  <2> HIDE DEF p
  <2>4. Chained(ask, q) /\ q # <<>> /\ q[1] = "redraw" /\ q[Len(q)] = "stamp"
    BY <2>3, RevalidationIsChained, ChainedBoth DEF MayFollow
  <2> HIDE DEF q
  <2>5. Chained(ask, q \o Revalidate) /\ q \o Revalidate # <<>> /\ (q \o Revalidate)[1] = "redraw"
    BY <2>4, RevalidationIsChained, ChainedBoth DEF MayFollow
  <2> QED
    BY <2>2, <2>5 DEF Beginning
<1> QED
  BY <1>4, <1>5, <1>6, <1>7, <1>8, <1>9, <1>10, <1>11, <1>12, <1>13, <1>14 DEF GraphAsks

LEMMA ShowIsAlone ==
    ASSUME ThreadsAreSound, Alone, NEW c \in Clients, ShowSnapshot(c)
    PROVE  Alone'
<1> DEFINE u == thread[c]
           fresh == gMem.snap.rev = gMem.rev /\ gMem.snap.regs = gMem.regs
           t == [u EXCEPT !.todo = (IF fresh THEN <<>> ELSE Revalidate) \o Remaining(c)]
<1>1. /\ Go(c, t) /\ AtStep(c, "view") /\ Underway(c)
      /\ UNCHANGED <<gStore, gMem, crossed>> /\ "view" \in AllSteps \ {"assign"}
  BY DEF ShowSnapshot, AllSteps, OtherSteps, AtStep
<1>2. DOMAIN u = Fields
  BY ThreadFields
<1>3. t.ask = u.ask /\ t.todo = (IF fresh THEN <<>> ELSE Revalidate) \o Remaining(c)
  BY <1>2, FieldNames
<1> HIDE DEF t
<1>4. \A y \in AllSteps \ {"assign"} : MayFollow(t.ask, "view", y) => HoldsAt(t, y, gStore)
  BY DEF MayFollow, HoldsAt
<1>5. ASSUME ~crossed
      PROVE  /\ InOrder(u) /\ u.todo # <<>> /\ u.todo[1] = "view" /\ gMem = gStore
             /\ Stamped(gStore) /\ Remaining(c) \in Seq(AllSteps)
  <2>1. /\ InOrder(u) /\ u.todo # <<>> /\ u.todo[1] = "view" /\ gMem = gStore /\ Stamped(gStore)
    BY <1>1, <1>5, WhoIsAlone DEF AtStep
  <2>2. Remaining(c) \in Seq(AllSteps)
    BY <2>1, HeadIsFirst DEF InOrder, Chained, Remaining
  <2> QED
    BY <2>1, <2>2
<1>6. ASSUME ~crossed
      PROVE  /\ InOrder(t) /\ Holds(t, gStore) /\ ~(t.todo # <<>> /\ t.todo[1] = "assign")
  <2> DEFINE r == [u EXCEPT !.todo = Remaining(c)]
  <2>1. r.ask = u.ask /\ r.todo = Tail(u.todo)
    BY <1>2, FieldNames DEF Remaining
  <2> HIDE DEF r
  <2>2. /\ InOrder(r) /\ ~(r.todo # <<>> /\ r.todo[1] = "assign")
        /\ \A y \in AllSteps \ {"assign"} : Comes(r, y) => MayFollow(u.ask, "view", y)
    BY <1>5, <1>6, <2>1, StillInOrder
  <2>3. r.todo = Remaining(c) /\ Chained(u.ask, r.todo)
    BY <2>1, <2>2 DEF InOrder, Remaining
  <2>4. CASE fresh
    <3>1. t.todo = r.todo
      BY <1>3, <1>5, <1>6, <2>3, <2>4
    <3>2. \A y \in AllSteps : Comes(t, y) => Comes(r, y)
      BY <3>1 DEF Comes
    <3>3. HoldsAt(t, "assign", gStore)
      BY DEF HoldsAt
    <3>4. InOrder(t)
      BY <1>3, <2>3, <3>1 DEF InOrder
    <3> QED
      BY <1>3, <1>4, <2>2, <3>1, <3>2, <3>3, <3>4 DEF Holds
  <2>5. CASE ~fresh
    <3>1. t.todo = Revalidate \o r.todo
      BY <1>3, <2>3, <2>5
    <3>2. r.todo # <<>> => MayFollow(u.ask, "stamp", r.todo[1])
      <4> SUFFICES ASSUME r.todo # <<>> PROVE MayFollow(u.ask, "stamp", r.todo[1])
        OBVIOUS
      <4>1. r.todo \in Seq(AllSteps)
        BY <2>3 DEF Chained
      <4>2. r.todo[1] \in AllSteps \ {"assign"} /\ Comes(r, r.todo[1])
        BY <2>2, <4>1 DEF Comes
      <4>3. MayFollow(u.ask, "view", r.todo[1])
        BY <2>2, <4>2
      <4> QED
        BY <4>3 DEF MayFollow
    <3>3. Chained(u.ask, t.todo) /\ t.todo # <<>> /\ t.todo[1] = "refresh"
      <4>1. /\ Chained(u.ask, Revalidate) /\ Revalidate # <<>>
            /\ Revalidate[1] = "refresh" /\ Revalidate[Len(Revalidate)] = "stamp"
        BY RevalidationIsChained
      <4> QED
        BY <2>3, <3>1, <3>2, <4>1, ChainedBoth
    <3>4. \A y \in AllSteps : Comes(t, y) => y = "refresh"
      BY <3>3 DEF Comes
    <3>5. HoldsAt(t, "refresh", gStore)
      BY DEF HoldsAt
    <3> QED
      BY <1>3, <3>3, <3>4, <3>5 DEF InOrder, Holds
  <2> QED
    BY <2>4, <2>5
<1> QED
  BY <1>1, <1>5, <1>6, OneGoes

\* A request that enters beside none finds the copy renewed, or as it was left.
LEMMA EnterIsAlone ==
    ASSUME GraphAssumption, ThreadsAreSound, Alone, NEW c \in Clients, EnterRequest(c)
    PROVE  Alone'
<1> DEFINE lone == \A d \in Clients : ~Underway(d)
           made(r) == Patched(Normalised(gStore.graph, gStore.res), r.ops, gStore.res)
           hasDue(r, named) == /\ lone /\ r.ask = "apply" /\ named = gStore.rev
                               /\ made(r) # Rejected /\ Valid(made(r), gStore.res)
<1>1. PICK r \in Requests, named \in {gStore.rev, gStore.rev - 1} \cap Nat :
        /\ crossed' = (crossed \/ ~lone)
        /\ gMem' = IF r.ask = "source" THEN gMem ELSE gStore
        /\ gStore' = gStore
        /\ thread' = [d \in Clients |->
             IF d # c THEN [thread[d] EXCEPT !.lone = FALSE]
             ELSE [Idling("none", hasDue(r, named), lone) EXCEPT
                     !.todo = Program(r.ask), !.ask = r.ask, !.doc = r.doc,
                     !.ops = r.ops, !.named = named, !.strict = r.strict]]
  BY Zenon DEF EnterRequest
<1> DEFINE due == hasDue(r, named)
           t == [Idling("none", due, lone) EXCEPT
                   !.todo = Program(r.ask), !.ask = r.ask, !.doc = r.doc,
                   !.ops = r.ops, !.named = named, !.strict = r.strict]
<1> SUFFICES ASSUME ~crossed' PROVE Alone'
  BY DEF Alone
<1>2. ~crossed /\ \A d \in Clients : ~Underway(d) /\ ~AtStep(d, "assign")
  BY <1>1 DEF AtStep
<1>3. gMem = gStore /\ Stamped(gStore)
  BY <1>2 DEF Alone
<1>4. t.todo = Program(r.ask) /\ t.ask = r.ask
  BY DEF Idling
<1>5. r.ask \in GraphAsks
  BY DEF GraphAssumption
<1>6. thread'[c] = t
  BY <1>1
<1>7. ASSUME NEW d \in Clients, d # c PROVE thread'[d].todo = <<>>
  <2>1. thread[d].todo = <<>> /\ DOMAIN thread[d] = Fields
    BY <1>2, ThreadFields DEF Underway
  <2>2. thread'[d] = [thread[d] EXCEPT !.lone = FALSE]
    BY <1>1, <1>7
  <2> QED
    BY <2>1, <2>2, FieldNames
<1> HIDE DEF t, due, lone
<1>8. InOrder(t) /\ t.todo # <<>> /\ t.todo[1] \in Beginning /\ (t.todo[1] = "judge" => t.ask = "source")
  BY <1>4, <1>5, ProgramsAreChained DEF InOrder
<1>9. Holds(t, gStore)
  <2>1. ASSUME NEW x \in AllSteps, Comes(t, x) PROVE t.todo[1] = x
    BY <1>8, <2>1 DEF Comes, Beginning
  <2>2. ASSUME NEW x \in Beginning, x = "judge" => t.ask = "source" PROVE HoldsAt(t, x, gStore)
    BY <2>2 DEF HoldsAt, Beginning, Compiling
  <2> QED
    BY <1>8, <2>1, <2>2 DEF Holds
<1>10. \A d \in Clients : Underway(d)' => d = c
  BY <1>7 DEF Underway
<1>11. ~AtStep(c, "assign")'
  <2>1. t.todo \in Seq(AllSteps)
    BY <1>8 DEF InOrder, Chained
  <2>2. Head(t.todo) = t.todo[1]
    BY <1>8, <2>1, HeadIsFirst
  <2>3. t.todo[1] # "assign"
    BY <1>8 DEF Beginning
  <2> QED
    BY <1>6, <2>2, <2>3 DEF AtStep
<1>12. gMem' = gStore'
  BY <1>1, <1>3
<1>13. /\ \A d, e \in Clients : Underway(d)' /\ Underway(e)' => d = e
       /\ \A d \in Clients : Underway(d)' => InOrder(thread'[d]) /\ Holds(thread'[d], gStore')
       /\ \A d \in Clients : ~AtStep(d, "assign")'
  <2>1. \A d \in Clients : AtStep(d, "assign")' => d = c
    BY <1>10 DEF AtStep
  <2> QED
    BY <1>1, <1>6, <1>8, <1>9, <1>10, <1>11, <2>1
<1> QED
  BY <1>1, <1>3, <1>12, <1>13 DEF Alone, InOrder, Chained, Holds, HoldsAt, Comes, Stamped

LEMMA AloneStarts == GraphInit => Alone
<1> SUFFICES ASSUME GraphInit PROVE Alone
  OBVIOUS
<1>1. PICK w \in Workspaces : gStore = Opened(w)
  BY DEF GraphInit
<1>2. w.rev \in Nat
  BY GraphAssumption DEF GraphAssumption
<1>3. \A c \in Clients : ~Underway(c) /\ ~AtStep(c, "assign")
  BY DEF GraphInit, Idling, Underway, AtStep
<1>4. Stamped(gStore)
  <2>1. /\ DOMAIN gStore = StoreFields /\ gStore.rev = w.rev /\ gStore.regs = 0
        /\ gStore.snap.rev = 0 /\ gStore.snap.regs = 0 /\ gStore.compiles = <<>>
    BY <1>1 DEF Opened, StoreFields
  <2>2. <<>> \in Seq({})
    OBVIOUS
  <2>3. \E X : gStore.compiles \in Seq(X)
    BY <2>1, <2>2
  <2> QED
    BY <1>2, <2>1, <2>3 DEF Stamped
<1>5. gMem = gStore
  BY DEF GraphInit
<1> QED
  BY <1>3, <1>4, <1>5 DEF Alone

LEMMA AloneStays == ThreadsAreSound /\ Alone /\ [GraphNext]_graphVars => Alone'
<1> SUFFICES ASSUME ThreadsAreSound, Alone, [GraphNext]_graphVars PROVE Alone'
  OBVIOUS
<1>1. CASE GraphNext
  BY <1>1, GraphAssumption, EnterIsAlone, AssignIsAlone, QuietStepsAreAlone, ReadIsAlone,
     PersistIsAlone,
     ValidateIsAlone, StampIsAlone, ShowIsAlone, NoteIsAlone, JudgeIsAlone, ReserveIsAlone,
     RememberIsAlone, ResourceStepsAreAlone DEF GraphNext
<1>2. CASE UNCHANGED graphVars
  BY <1>2 DEF graphVars, Alone, Underway, AtStep, InOrder, Chained, Holds, HoldsAt, Comes, Stamped
<1> QED
  BY <1>1, <1>2

\* Whatever is read, patched, saved and compiled, one request after the other:
\* a validation that carries the current revisions is that of the saved graph,
\* and a compilation that carries the current revision compiled it.
\* (_refresh_workspace_graph_validation_snapshot, _remember_compile)
THEOREM StampsStayTrue == GraphSpec => []StampsAreTrue
<1>1. GraphInit => ThreadsAreSound /\ Alone
  BY SoundInit, AloneStarts
<1>2. ThreadsAreSound /\ Alone /\ [GraphNext]_graphVars => (ThreadsAreSound /\ Alone)'
  BY SoundNext, StutteringKeepsSound, GraphAssumption, AloneStays
<1>3. Alone => StampsAreTrue
  BY DEF Alone, Stamped, StampsAreTrue
<1> QED
  BY <1>1, <1>2, <1>3, PTL DEF GraphSpec

(* ---------------------------------------------------------------- *)
(* Types.                                                           *)

Outcomes == {"none", "saved", "conflict", "refused", "compiled", "planned", "failed"}
ReadySteps == AllSteps \ {"assign"}

StateIsTyped(S) ==
    /\ DOMAIN S = StoreFields
    /\ S.rev \in Nat /\ S.regs \in Nat /\ S.counter \in Nat
    /\ Len(S.compiles) <= MaxHistory /\ \E X : S.compiles \in Seq(X)

\* A thread holds a copy of the state exactly while it is about to assign it.
ThreadIsTyped(t) ==
    /\ t.ask \in GraphAsks /\ t.answer \in Outcomes
    /\ \/ t.todo \in Seq(ReadySteps) /\ t.copy = <<>>
       \/ \E rest \in Seq(ReadySteps) : \E S :
             StateIsTyped(S) /\ t.todo = <<"assign">> \o rest /\ t.copy = <<S>>

GraphIsTyped ==
    /\ asked \in 0 .. MaxTurns /\ crossed \in BOOLEAN
    /\ StateIsTyped(gStore) /\ StateIsTyped(gMem)
    /\ \A c \in Clients : ThreadIsTyped(thread[c])

LEMMA ProgramsAreReady ==
    ASSUME NEW ask \in GraphAsks
    PROVE  Program(ask) \in Seq(ReadySteps)
<1> DEFINE T == Seq(ReadySteps)
<1>1. /\ Revalidate \in T /\ View \in T /\ Saving \in T
      /\ <<"read", "read", "note">> \in T /\ <<"check", "read", "patch">> \in T
      /\ <<"check", "read", "patch", "refresh">> \in T
      /\ <<"read", "note", "judge", "reserve", "remember">> \in T
      /\ <<"note", "judge", "reserve", "remember">> \in T
      /\ <<"judge", "reserve", "remember">> \in T
      /\ <<"read", "judge", "plan">> \in T /\ <<"normalise", "judge", "plan">> \in T
      /\ <<"toggle">> \in T /\ <<"redraw">> \in T
  BY DEF Revalidate, View, Saving, ReadySteps, AllSteps, OtherSteps
<1>2. \A p \in T, q \in T : p \o q \in T
  OBVIOUS
<1> HIDE DEF T
<1>3. Program(ask) \in T
  BY <1>1, <1>2 DEF Program, GraphAsks
<1> QED
  BY <1>3 DEF T

\* A thread that is at another step than the assignment holds no copy.
LEMMA WithoutCopy ==
    ASSUME GraphIsTyped, NEW c \in Clients, Underway(c), Head(thread[c].todo) # "assign"
    PROVE  /\ thread[c].copy = <<>> /\ Remaining(c) \in Seq(ReadySteps)
           /\ thread[c].ask \in GraphAsks /\ thread[c].answer \in Outcomes
<1>1. ThreadIsTyped(thread[c]) /\ thread[c].todo # <<>>
  BY DEF GraphIsTyped, Underway
<1>2. ASSUME NEW rest \in Seq(ReadySteps), thread[c].todo = <<"assign">> \o rest PROVE FALSE
  <2>1. rest \in Seq(ReadySteps \cup {"assign"})
    OBVIOUS
  <2>2. <<"assign">> \in Seq(ReadySteps \cup {"assign"})
    OBVIOUS
  <2>3. Head(<<"assign">> \o rest) = "assign"
    BY <2>1, <2>2
  <2> QED
    BY <1>2, <2>3
<1>3. thread[c].todo \in Seq(ReadySteps) /\ thread[c].copy = <<>>
  BY <1>1, <1>2 DEF ThreadIsTyped
<1> QED
  BY <1>1, <1>3 DEF ThreadIsTyped, Remaining

LEMMA GoTyped ==
    ASSUME ThreadsAreSound, GraphIsTyped, NEW c \in Clients, NEW t, Go(c, t), ThreadIsTyped(t)
    PROVE  \A d \in Clients : ThreadIsTyped(thread'[d])
<1> DEFINE u == IF t.todo = <<>>
                THEN [Idling(t.answer, t.due, t.lone) EXCEPT !.plan = t.plan, !.ask = t.ask]
                ELSE t
<1>1. thread' = [thread EXCEPT ![c] = u]
  BY DEF Go
<1>2. ThreadIsTyped(u)
  <2>1. CASE t.todo = <<>>
    <3>1. u.todo = <<>> /\ u.copy = <<>> /\ u.ask = t.ask /\ u.answer = t.answer
      BY <2>1 DEF Idling
    <3>2. <<>> \in Seq(ReadySteps)
      OBVIOUS
    <3> HIDE DEF u
    <3> QED
      BY <3>1, <3>2 DEF ThreadIsTyped
  <2> QED
    BY <2>1
<1> HIDE DEF u
<1>3. \A d \in Clients : thread'[d] = IF d = c THEN u ELSE thread[d]
  BY <1>1 DEF ThreadsAreSound
<1> QED
  BY <1>2, <1>3 DEF GraphIsTyped

\* A step that writes nothing.
LEMMA QuietTyped ==
    ASSUME ThreadsAreSound, GraphIsTyped, NEW c \in Clients, NEW t, Go(c, t),
           t.todo \in Seq(ReadySteps), t.copy = <<>>, t.ask \in GraphAsks, t.answer \in Outcomes,
           gStore' = gStore, gMem' \in {gMem, gStore}, UNCHANGED <<asked, crossed>>
    PROVE  GraphIsTyped'
<1>1. \A d \in Clients : ThreadIsTyped(thread'[d])
  BY GoTyped DEF ThreadIsTyped
<1>2. StateIsTyped(gStore') /\ StateIsTyped(gMem') /\ UNCHANGED <<asked, crossed>>
  BY DEF GraphIsTyped
<1> QED
  BY <1>1, <1>2 DEF GraphIsTyped, ThreadIsTyped, StateIsTyped

LEMMA WritesTyped ==
    ASSUME ThreadsAreSound, GraphIsTyped, NEW c \in Clients, NEW state, NEW t,
           MutateGraph(c, state, t), StateIsTyped(state), DOMAIN t = Fields,
           t.todo \in Seq(ReadySteps), t.ask \in GraphAsks, t.answer \in Outcomes,
           UNCHANGED <<asked, crossed>>
    PROVE  GraphIsTyped'
<1> DEFINE w == [t EXCEPT !.todo = <<"assign">> \o @, !.copy = <<state>>]
<1>1. Go(c, w) /\ gStore' = state /\ gMem' = gMem
  BY DEF MutateGraph
<1>2. /\ w.todo = <<"assign">> \o t.todo /\ w.copy = <<state>>
      /\ w.ask = t.ask /\ w.answer = t.answer
  BY FieldNames
<1> HIDE DEF w
<1>3. ThreadIsTyped(w)
  BY <1>2 DEF ThreadIsTyped
<1>4. \A d \in Clients : ThreadIsTyped(thread'[d])
  BY <1>1, <1>3, GoTyped
<1>5. StateIsTyped(gStore') /\ StateIsTyped(gMem')
  BY <1>1 DEF GraphIsTyped
<1> QED
  BY <1>4, <1>5 DEF GraphIsTyped, ThreadIsTyped, StateIsTyped

LEMMA StopsTyped ==
    ASSUME ThreadsAreSound, GraphIsTyped, NEW c \in Clients, NEW answer \in Outcomes,
           Underway(c), Head(thread[c].todo) # "assign", GiveUp(c, answer),
           gStore' = gStore, gMem' \in {gMem, gStore}, UNCHANGED <<asked, crossed>>
    PROVE  GraphIsTyped'
<1> DEFINE t == [thread[c] EXCEPT !.todo = <<>>, !.answer = answer]
<1>1. /\ Go(c, t) /\ t.todo = <<>> /\ t.answer = answer /\ t.copy = thread[c].copy
      /\ t.ask = thread[c].ask
  BY ThreadFields, FieldNames DEF GiveUp
<1>2. <<>> \in Seq(ReadySteps)
  OBVIOUS
<1> HIDE DEF t
<1> QED
  BY <1>1, <1>2, WithoutCopy, QuietTyped

LEMMA GraphTypesStart == GraphInit => GraphIsTyped
<1> SUFFICES ASSUME GraphInit PROVE GraphIsTyped
  OBVIOUS
<1>1. PICK w \in Workspaces : gStore = Opened(w)
  BY DEF GraphInit
<1>2. w.rev \in Nat /\ MaxHistory \in Nat /\ MaxTurns \in Nat
  BY GraphAssumption DEF GraphAssumption
<1>3. StateIsTyped(gStore)
  <2>1. /\ DOMAIN gStore = StoreFields /\ gStore.rev = w.rev /\ gStore.regs = 0
        /\ gStore.counter = 0 /\ gStore.compiles = <<>>
    BY <1>1 DEF Opened, StoreFields
  <2>2. <<>> \in Seq({}) /\ Len(<<>>) = 0
    OBVIOUS
  <2> QED
    BY <1>2, <2>1, <2>2 DEF StateIsTyped
<1>4. ASSUME NEW c \in Clients PROVE ThreadIsTyped(thread[c])
  <2>1. /\ thread[c].todo = <<>> /\ thread[c].copy = <<>> /\ thread[c].ask = "load"
        /\ thread[c].answer = "none"
    BY DEF GraphInit, Idling
  <2>2. <<>> \in Seq(ReadySteps)
    OBVIOUS
  <2> QED
    BY <2>1, <2>2 DEF ThreadIsTyped, GraphAsks, Outcomes
<1>5. asked \in 0 .. MaxTurns
  BY <1>2 DEF GraphInit
<1>6. crossed \in BOOLEAN /\ gMem = gStore
  BY DEF GraphInit
<1>7. StateIsTyped(gMem)
  BY <1>3, <1>6
<1> QED
  BY <1>3, <1>4, <1>5, <1>6, <1>7 DEF GraphIsTyped

LEMMA EnterTyped ==
    ASSUME ThreadsAreSound, GraphIsTyped, NEW c \in Clients, EnterRequest(c)
    PROVE  GraphIsTyped'
<1>1. asked < MaxTurns /\ asked' = asked + 1 /\ gStore' = gStore
  BY DEF EnterRequest
<1> DEFINE made(r) == Patched(Normalised(gStore.graph, gStore.res), r.ops, gStore.res)
           lone == \A d \in Clients : ~Underway(d)
           hasDue(r, named) == /\ lone /\ r.ask = "apply" /\ named = gStore.rev
                               /\ made(r) # Rejected /\ Valid(made(r), gStore.res)
<1>2. PICK r \in Requests, named \in {gStore.rev, gStore.rev - 1} \cap Nat :
        /\ crossed' = (crossed \/ ~lone)
        /\ gMem' = IF r.ask = "source" THEN gMem ELSE gStore
        /\ thread' = [d \in Clients |->
              IF d # c THEN [thread[d] EXCEPT !.lone = FALSE]
              ELSE [Idling("none", hasDue(r, named), lone) EXCEPT
                      !.todo = Program(r.ask), !.ask = r.ask, !.doc = r.doc,
                      !.ops = r.ops, !.named = named, !.strict = r.strict]]
  BY Zenon DEF EnterRequest
<1> DEFINE due == hasDue(r, named)
<1> HIDE DEF lone, made, hasDue
<1>3. r.ask \in GraphAsks /\ MaxTurns \in Nat
  BY GraphAssumption DEF GraphAssumption
<1>7. asked' \in 0 .. MaxTurns
  BY <1>1, <1>3 DEF GraphIsTyped
<1>8. crossed' \in BOOLEAN
  BY Zenon, <1>2
<1>4. asked' \in 0 .. MaxTurns /\ crossed' \in BOOLEAN /\ gMem' \in {gMem, gStore}
  BY <1>2, <1>7, <1>8
<1>5. ASSUME NEW d \in Clients PROVE ThreadIsTyped(thread'[d])
  <2>1. CASE d # c
    <3>1. thread'[d] = [thread[d] EXCEPT !.lone = FALSE]
      BY <1>2, <2>1
    <3>2. /\ thread'[d].todo = thread[d].todo /\ thread'[d].copy = thread[d].copy
          /\ thread'[d].ask = thread[d].ask /\ thread'[d].answer = thread[d].answer
      BY <3>1, ThreadFields, FieldNames
    <3> QED
      BY <3>2 DEF GraphIsTyped, ThreadIsTyped
  <2>2. CASE d = c
    <3>1. /\ thread'[d].todo = Program(r.ask) /\ thread'[d].copy = <<>>
          /\ thread'[d].ask = r.ask /\ thread'[d].answer = "none"
      BY <1>2, <2>2 DEF Idling
    <3> QED
      BY <1>3, <3>1, ProgramsAreReady DEF ThreadIsTyped, Outcomes
  <2> QED
    BY <2>1, <2>2
<1>6. StateIsTyped(gStore') /\ StateIsTyped(gMem')
  BY <1>1, <1>2 DEF GraphIsTyped
<1> QED
  BY <1>4, <1>5, <1>6 DEF GraphIsTyped, ThreadIsTyped, StateIsTyped

LEMMA AssignTyped ==
    ASSUME ThreadsAreSound, GraphIsTyped, NEW c \in Clients, AssignGraph(c)
    PROVE  GraphIsTyped'
<1> DEFINE t == [thread[c] EXCEPT !.todo = Remaining(c), !.copy = <<>>]
<1>1. /\ gMem' = thread[c].copy[1] /\ Go(c, t) /\ UNCHANGED <<gStore, asked, crossed>>
      /\ thread[c].todo # <<>> /\ Head(thread[c].todo) = "assign"
  BY DEF AssignGraph, AtStep, Underway
<1>2. /\ t.todo = Tail(thread[c].todo) /\ t.copy = <<>> /\ t.ask = thread[c].ask
      /\ t.answer = thread[c].answer
  BY ThreadFields, FieldNames DEF Remaining
<1> HIDE DEF t
<1>3. ThreadIsTyped(thread[c])
  BY DEF GraphIsTyped
<1>4. thread[c].todo \notin Seq(ReadySteps)
  BY <1>1 DEF ReadySteps
<1>5. PICK rest \in Seq(ReadySteps) : \E S :
        StateIsTyped(S) /\ thread[c].todo = <<"assign">> \o rest /\ thread[c].copy = <<S>>
  BY <1>3, <1>4 DEF ThreadIsTyped
<1>6. PICK S : StateIsTyped(S) /\ thread[c].todo = <<"assign">> \o rest /\ thread[c].copy = <<S>>
  BY <1>5
<1>7. Tail(<<"assign">> \o rest) = rest
  <2>1. rest \in Seq(ReadySteps \cup {"assign"}) /\ <<"assign">> \in Seq(ReadySteps \cup {"assign"})
    OBVIOUS
  <2> QED
    BY <2>1
<1>8. ThreadIsTyped(t)
  BY <1>2, <1>3, <1>6, <1>7 DEF ThreadIsTyped
<1>9. \A d \in Clients : ThreadIsTyped(thread'[d])
  BY <1>1, <1>8, GoTyped
<1>10. StateIsTyped(gStore') /\ StateIsTyped(gMem')
  BY <1>1, <1>6 DEF GraphIsTyped
<1> QED
  BY <1>1, <1>9, <1>10 DEF GraphIsTyped, ThreadIsTyped, StateIsTyped

LEMMA GraphTypesStay == ThreadsAreSound /\ GraphIsTyped /\ [GraphNext]_graphVars => GraphIsTyped'
<1> SUFFICES ASSUME ThreadsAreSound, GraphIsTyped, [GraphNext]_graphVars PROVE GraphIsTyped'
  OBVIOUS
<1>1. CASE UNCHANGED graphVars
  BY <1>1 DEF graphVars, GraphIsTyped, ThreadIsTyped, StateIsTyped
<1>2. ASSUME NEW c \in Clients, NEW step, step # "assign", AtStep(c, step)
      PROVE  /\ Underway(c) /\ Head(thread[c].todo) # "assign" /\ DOMAIN thread[c] = Fields
             /\ thread[c].copy = <<>> /\ Remaining(c) \in Seq(ReadySteps)
             /\ thread[c].ask \in GraphAsks /\ thread[c].answer \in Outcomes
  BY <1>2, WithoutCopy, ThreadFields DEF AtStep
<1>3. ASSUME NEW c \in Clients, Refresh(c) PROVE GraphIsTyped'
  <2>1. AtStep(c, "refresh") /\ StepOn(c) /\ gMem' = gStore /\ UNCHANGED <<gStore, asked, crossed>>
    BY <1>3 DEF Refresh
  <2> DEFINE t == [thread[c] EXCEPT !.todo = Remaining(c)]
  <2>2. /\ Go(c, t) /\ t.todo = Remaining(c) /\ t.copy = thread[c].copy /\ t.ask = thread[c].ask
        /\ t.answer = thread[c].answer
    BY <1>2, <2>1, FieldNames DEF StepOn
  <2> HIDE DEF t
  <2> QED
    BY <1>2, <2>1, <2>2, QuietTyped
<1>4. ASSUME NEW c \in Clients, ReadGraph(c) PROVE GraphIsTyped'
  <2> DEFINE g == Normalised(gMem.graph, gMem.res)
             t == [thread[c] EXCEPT !.todo = Remaining(c), !.doc = g]
             s == [gStore EXCEPT !.graph = g, !.rev = @ + 1]
  <2>1. /\ AtStep(c, "read") /\ UNCHANGED <<asked, crossed>>
        /\ IF NeedsRenewal(gMem.graph, gMem.res)
           THEN MutateGraph(c, s, t)
           ELSE Go(c, t) /\ UNCHANGED <<gStore, gMem>>
    BY <1>4 DEF ReadGraph
  <2>2. /\ t.todo = Remaining(c) /\ t.copy = thread[c].copy /\ t.ask = thread[c].ask
        /\ t.answer = thread[c].answer /\ DOMAIN t = Fields
    BY <1>2, <2>1, FieldNames
  <2>3. StateIsTyped(s)
    BY DEF GraphIsTyped, StateIsTyped, StoreFields
  <2> HIDE DEF g, t, s
  <2> QED
    BY <1>2, <2>1, <2>2, <2>3, QuietTyped, WritesTyped
<1>5. ASSUME NEW c \in Clients, NormaliseDocument(c) PROVE GraphIsTyped'
  <2>1. AtStep(c, "normalise") /\ UNCHANGED <<gStore, gMem, asked, crossed>>
    BY <1>5 DEF NormaliseDocument
  <2> DEFINE t == [thread[c] EXCEPT !.todo = Remaining(c), !.doc = Normalised(@, gMem.res)]
  <2>2. /\ Go(c, t) /\ t.todo = Remaining(c) /\ t.copy = thread[c].copy /\ t.ask = thread[c].ask
        /\ t.answer = thread[c].answer
    BY <1>2, <1>5, <2>1, FieldNames DEF NormaliseDocument
  <2> HIDE DEF t
  <2> QED
    BY <1>2, <2>1, <2>2, QuietTyped
<1>6. ASSUME NEW c \in Clients, PersistDocument(c) PROVE GraphIsTyped'
  <2> DEFINE u == thread[c]
             t == [u EXCEPT !.todo = Remaining(c), !.answer = "saved"]
             s == [gStore EXCEPT !.graph = u.doc, !.rev = @ + 1]
  <2>1. AtStep(c, "persist") /\ UNCHANGED <<asked, crossed>>
    BY <1>6 DEF PersistDocument
  <2>2. \/ GiveUp(c, "conflict") /\ UNCHANGED <<gStore, gMem>>
        \/ MutateGraph(c, s, t)
    BY <1>6 DEF PersistDocument
  <2>3. /\ t.todo = Remaining(c) /\ t.ask = thread[c].ask /\ t.answer = "saved" /\ DOMAIN t = Fields
    BY <1>2, <2>1, FieldNames
  <2>4. StateIsTyped(s)
    BY DEF GraphIsTyped, StateIsTyped, StoreFields
  <2>5. "saved" \in Outcomes /\ "conflict" \in Outcomes
    BY DEF Outcomes
  <2> HIDE DEF u, t, s
  <2> QED
    BY <1>2, <2>1, <2>2, <2>3, <2>4, <2>5, StopsTyped, WritesTyped
<1>7. ASSUME NEW c \in Clients, CheckRevision(c) PROVE GraphIsTyped'
  <2>1. AtStep(c, "check") /\ UNCHANGED <<gStore, gMem, asked, crossed>>
    BY <1>7 DEF CheckRevision
  <2>2. GiveUp(c, "conflict") \/ StepOn(c)
    BY <1>7 DEF CheckRevision
  <2> DEFINE t == [thread[c] EXCEPT !.todo = Remaining(c)]
  <2>3. /\ t.todo = Remaining(c) /\ t.copy = thread[c].copy /\ t.ask = thread[c].ask
        /\ t.answer = thread[c].answer
    BY <1>2, <2>1, FieldNames
  <2>4. "conflict" \in Outcomes
    BY DEF Outcomes
  <2>5. StepOn(c) => Go(c, t)
    BY DEF StepOn
  <2> HIDE DEF t
  <2> QED
    BY <1>2, <2>1, <2>2, <2>3, <2>4, <2>5, StopsTyped, QuietTyped
<1>8. ASSUME NEW c \in Clients, ApplyPatch(c) PROVE GraphIsTyped'
  <2> DEFINE made == Patched(thread[c].doc, thread[c].ops, gMem'.res)
             t == [thread[c] EXCEPT !.todo = Remaining(c), !.doc = made]
  <2>1. AtStep(c, "patch") /\ UNCHANGED <<gStore, asked, crossed>> /\ gMem' \in {gMem, gStore}
    BY <1>8 DEF ApplyPatch
  <2>2. GiveUp(c, "refused") \/ Go(c, t)
    BY <1>8 DEF ApplyPatch
  <2>3. /\ t.todo = Remaining(c) /\ t.copy = thread[c].copy /\ t.ask = thread[c].ask
        /\ t.answer = thread[c].answer
    BY <1>2, <2>1, FieldNames
  <2>4. "refused" \in Outcomes
    BY DEF Outcomes
  <2> HIDE DEF made, t
  <2> QED
    BY <1>2, <2>1, <2>2, <2>3, <2>4, StopsTyped, QuietTyped
<1>9. ASSUME NEW c \in Clients, ValidateGraph(c) PROVE GraphIsTyped'
  <2>1. AtStep(c, "validate") /\ UNCHANGED <<gStore, gMem, asked, crossed>>
    BY <1>9 DEF ValidateGraph
  <2> DEFINE t == [thread[c] EXCEPT !.todo = Remaining(c), !.ok = Valid(thread[c].doc, gMem.res)]
  <2>2. /\ Go(c, t) /\ t.todo = Remaining(c) /\ t.copy = thread[c].copy /\ t.ask = thread[c].ask
        /\ t.answer = thread[c].answer
    BY <1>2, <1>9, <2>1, FieldNames DEF ValidateGraph
  <2> HIDE DEF t
  <2> QED
    BY <1>2, <2>1, <2>2, QuietTyped
<1>10. ASSUME NEW c \in Clients, StampSnapshot(c) PROVE GraphIsTyped'
  <2> DEFINE snap == [rev |-> gMem.rev, regs |-> gMem.regs, valid |-> thread[c].ok]
             s == [gStore EXCEPT !.snap = snap]
             t == [thread[c] EXCEPT !.todo = Remaining(c)]
  <2>1. AtStep(c, "stamp") /\ MutateGraph(c, s, t) /\ UNCHANGED <<asked, crossed>>
    BY <1>10 DEF StampSnapshot
  <2>2. /\ t.todo = Remaining(c) /\ t.ask = thread[c].ask /\ t.answer = thread[c].answer
        /\ DOMAIN t = Fields
    BY <1>2, <2>1, FieldNames
  <2>3. StateIsTyped(s)
    BY DEF GraphIsTyped, StateIsTyped, StoreFields
  <2> HIDE DEF snap, s, t
  <2> QED
    BY <1>2, <2>1, <2>2, <2>3, WritesTyped
<1>11. ASSUME NEW c \in Clients, ShowSnapshot(c) PROVE GraphIsTyped'
  <2> DEFINE fresh == gMem.snap.rev = gMem.rev /\ gMem.snap.regs = gMem.regs
             t == [thread[c] EXCEPT !.todo = (IF fresh THEN <<>> ELSE Revalidate) \o Remaining(c)]
  <2>1. AtStep(c, "view") /\ Go(c, t) /\ UNCHANGED <<gStore, gMem, asked, crossed>>
    BY <1>11 DEF ShowSnapshot
  <2>2. /\ t.todo = (IF fresh THEN <<>> ELSE Revalidate) \o Remaining(c)
        /\ t.copy = thread[c].copy /\ t.ask = thread[c].ask /\ t.answer = thread[c].answer
    BY <1>2, <2>1, FieldNames
  <2> HIDE DEF fresh, t
  <2>3. <<>> \in Seq(ReadySteps) /\ Revalidate \in Seq(ReadySteps)
    BY DEF Revalidate, ReadySteps, AllSteps, OtherSteps
  <2>4. Remaining(c) \in Seq(ReadySteps)
    BY <1>2, <2>1
  <2>5. t.todo \in Seq(ReadySteps)
    BY <2>2, <2>3, <2>4
  <2> QED
    BY <1>2, <2>1, <2>2, <2>5, QuietTyped
<1>12. ASSUME NEW c \in Clients, NoteRevision(c) PROVE GraphIsTyped'
  <2>1. AtStep(c, "note") /\ UNCHANGED <<gStore, gMem, asked, crossed>>
    BY <1>12 DEF NoteRevision
  <2> DEFINE t == [thread[c] EXCEPT !.todo = Remaining(c), !.noted = gMem.rev]
  <2>2. /\ Go(c, t) /\ t.todo = Remaining(c) /\ t.copy = thread[c].copy /\ t.ask = thread[c].ask
        /\ t.answer = thread[c].answer
    BY <1>2, <1>12, <2>1, FieldNames DEF NoteRevision
  <2> HIDE DEF t
  <2> QED
    BY <1>2, <2>1, <2>2, QuietTyped
<1>13. ASSUME NEW c \in Clients, JudgeGraph(c) PROVE GraphIsTyped'
  <2>1. AtStep(c, "judge") /\ UNCHANGED <<gStore, gMem, asked, crossed>>
    BY <1>13 DEF JudgeGraph
  <2> DEFINE good == (thread[c].ask = "source" \/ Acceptable(thread[c].doc, gMem.res))
                     /\ Compiled(thread[c].doc) # Rejected
             t == [thread[c] EXCEPT !.todo = Remaining(c), !.ok = good]
  <2>2. Go(c, t)
    BY <1>13 DEF JudgeGraph
  <2>3. /\ t.todo = Remaining(c) /\ t.copy = thread[c].copy /\ t.ask = thread[c].ask
        /\ t.answer = thread[c].answer
    BY <1>2, <2>1, FieldNames
  <2> HIDE DEF good, t
  <2> QED
    BY <1>2, <2>1, <2>2, <2>3, QuietTyped
<1>14. ASSUME NEW c \in Clients, ReserveSequence(c) PROVE GraphIsTyped'
  <2> DEFINE s == [gStore EXCEPT !.counter = @ + 1]
             t == [thread[c] EXCEPT !.todo = Remaining(c), !.seq = gStore.counter + 1]
  <2>1. AtStep(c, "reserve") /\ MutateGraph(c, s, t) /\ UNCHANGED <<asked, crossed>>
    BY <1>14 DEF ReserveSequence
  <2>2. /\ t.todo = Remaining(c) /\ t.ask = thread[c].ask /\ t.answer = thread[c].answer
        /\ DOMAIN t = Fields
    BY <1>2, <2>1, FieldNames
  <2>3. StateIsTyped(s)
    BY DEF GraphIsTyped, StateIsTyped, StoreFields
  <2> HIDE DEF s, t
  <2> QED
    BY <1>2, <2>1, <2>2, <2>3, WritesTyped
<1>15. ASSUME NEW c \in Clients, RememberCompile(c) PROVE GraphIsTyped'
  <2> DEFINE u == thread[c]
             done == [seq |-> u.seq, ok |-> u.ok, saved |-> u.ask # "source",
                      rev |-> u.noted, graph |-> u.doc]
             all == <<done>> \o gStore.compiles
             n == IF Len(all) > MaxHistory THEN MaxHistory ELSE Len(all)
             s == [gStore EXCEPT !.compiles = SubSeq(all, 1, n)]
             t == [u EXCEPT !.todo = Remaining(c), !.answer = "compiled"]
  <2>1. AtStep(c, "remember") /\ MutateGraph(c, s, t) /\ UNCHANGED <<asked, crossed>>
    BY <1>15 DEF RememberCompile
  <2>2. /\ t.todo = Remaining(c) /\ t.ask = thread[c].ask /\ t.answer = "compiled"
        /\ DOMAIN t = Fields
    BY <1>2, <2>1, FieldNames
  <2> HIDE DEF u, done, t
  <2>3. PICK X : gStore.compiles \in Seq(X)
    BY DEF GraphIsTyped, StateIsTyped
  <2>4. gStore.compiles \in Seq(X \cup {done}) /\ <<done>> \in Seq(X \cup {done})
    BY <2>3
  <2>5. all \in Seq(X \cup {done}) /\ Len(all) \in Nat /\ Len(all) >= 1
    BY <2>4
  <2>6. MaxHistory \in Nat \ {0}
    BY GraphAssumption DEF GraphAssumption
  <2> HIDE DEF all
  <2>7. n \in 1 .. Len(all) /\ n <= MaxHistory
    BY <2>5, <2>6
  <2> HIDE DEF n
  <2>8. SubSeq(all, 1, n) \in Seq(X \cup {done}) /\ Len(SubSeq(all, 1, n)) = n
    BY <2>5, <2>7
  <2>9. /\ DOMAIN s = StoreFields /\ s.rev = gStore.rev /\ s.regs = gStore.regs
        /\ s.counter = gStore.counter /\ s.compiles = SubSeq(all, 1, n)
    BY DEF GraphIsTyped, StateIsTyped, StoreFields
  <2> HIDE DEF s
  <2>10. StateIsTyped(s)
    BY <2>7, <2>8, <2>9 DEF GraphIsTyped, StateIsTyped
  <2>11. "compiled" \in Outcomes
    BY DEF Outcomes
  <2> QED
    BY <1>2, <2>1, <2>2, <2>10, <2>11, WritesTyped
<1>16. ASSUME NEW c \in Clients, BuildPlan(c) PROVE GraphIsTyped'
  <2> DEFINE t == thread[c]
             good == [t EXCEPT !.todo = Remaining(c), !.answer = "planned",
                               !.plan = PlanOf(Compiled(t.doc), gMem.res)]
             bad == [t EXCEPT !.todo = Remaining(c), !.answer = "failed"]
  <2>1. AtStep(c, "plan") /\ UNCHANGED <<gStore, gMem, asked, crossed>>
    BY <1>16 DEF BuildPlan
  <2>2. Go(c, good) \/ Go(c, bad)
    BY <1>16 DEF BuildPlan
  <2>3. /\ good.todo = Remaining(c) /\ good.copy = t.copy /\ good.ask = t.ask /\ good.answer = "planned"
        /\ bad.todo = Remaining(c) /\ bad.copy = t.copy /\ bad.ask = t.ask /\ bad.answer = "failed"
    BY <1>2, <2>1, FieldNames
  <2>4. "planned" \in Outcomes /\ "failed" \in Outcomes
    BY DEF Outcomes
  <2> HIDE DEF good, bad
  <2> QED
    BY <1>2, <2>1, <2>2, <2>3, <2>4, QuietTyped
<1>17. ASSUME NEW c \in Clients, NEW state, DOMAIN state = StoreFields, state.rev = gStore.rev,
              state.regs = gStore.regs + 1, state.counter = gStore.counter,
              state.compiles = gStore.compiles, NEW step, step # "assign", AtStep(c, step),
              MutateGraph(c, state, [thread[c] EXCEPT !.todo = Remaining(c)]),
              UNCHANGED <<asked, crossed>>
       PROVE  GraphIsTyped'
  <2> DEFINE t == [thread[c] EXCEPT !.todo = Remaining(c)]
  <2>1. /\ t.todo = Remaining(c) /\ t.ask = thread[c].ask /\ t.answer = thread[c].answer
        /\ DOMAIN t = Fields
    BY <1>2, <1>17, FieldNames
  <2>2. MutateGraph(c, state, t)
    BY <1>17
  <2>3. StateIsTyped(state)
    BY <1>17 DEF GraphIsTyped, StateIsTyped
  <2> HIDE DEF t
  <2> QED
    BY <1>2, <1>17, <2>1, <2>2, <2>3, WritesTyped
<1>18. ASSUME NEW c \in Clients, ToggleResource(c) PROVE GraphIsTyped'
  <2>1. PICK r \in gStore.res :
          MutateGraph(c, [gStore EXCEPT !.res = (@ \ {r}) \cup {[r EXCEPT !.enabled = ~@]},
                                        !.regs = @ + 1],
                      [thread[c] EXCEPT !.todo = Remaining(c)])
    BY <1>18 DEF ToggleResource
  <2> DEFINE s == [gStore EXCEPT !.res = (@ \ {r}) \cup {[r EXCEPT !.enabled = ~@]}, !.regs = @ + 1]
  <2>2. /\ DOMAIN s = StoreFields /\ s.rev = gStore.rev /\ s.regs = gStore.regs + 1
        /\ s.counter = gStore.counter /\ s.compiles = gStore.compiles
    BY DEF GraphIsTyped, StateIsTyped, StoreFields
  <2> HIDE DEF s
  <2>3. AtStep(c, "toggle") /\ UNCHANGED <<asked, crossed>>
    BY <1>18 DEF ToggleResource
  <2>4. MutateGraph(c, s, [thread[c] EXCEPT !.todo = Remaining(c)])
    BY <2>1 DEF s
  <2> QED
    BY <1>17, <2>2, <2>3, <2>4
<1>19. ASSUME NEW c \in Clients, RedrawComponent(c) PROVE GraphIsTyped'
  <2>1. AtStep(c, "redraw") /\ UNCHANGED <<asked, crossed>>
    BY <1>19 DEF RedrawComponent
  <2>2. CASE ~Known(gStore.res, ComponentKey)
    <3>1. GiveUp(c, "refused") /\ UNCHANGED <<gStore, gMem>> /\ "refused" \in Outcomes
      BY <1>19, <2>2 DEF RedrawComponent, Outcomes
    <3> QED
      BY <1>2, <2>1, <3>1, StopsTyped
  <2>3. CASE Known(gStore.res, ComponentKey)
    <3> DEFINE r == ResourceOf(gStore.res, ComponentKey)
    <3>1. PICK fields \in Redrawn :
            MutateGraph(c, [gStore EXCEPT !.res = (@ \ {r}) \cup
                                {[r EXCEPT !.inputs = fields, !.needed = Elems(fields)]},
                                          !.regs = @ + 1],
                        [thread[c] EXCEPT !.todo = Remaining(c)])
      BY <1>19, <2>3 DEF RedrawComponent
    <3> DEFINE s == [gStore EXCEPT !.res = (@ \ {r}) \cup
                          {[r EXCEPT !.inputs = fields, !.needed = Elems(fields)]},
                                   !.regs = @ + 1]
    <3>2. /\ DOMAIN s = StoreFields /\ s.rev = gStore.rev /\ s.regs = gStore.regs + 1
          /\ s.counter = gStore.counter /\ s.compiles = gStore.compiles
      BY DEF GraphIsTyped, StateIsTyped, StoreFields
    <3>3. MutateGraph(c, s, [thread[c] EXCEPT !.todo = Remaining(c)])
      BY <3>1
    <3> HIDE DEF s
    <3> QED
      BY <1>17, <2>1, <3>2, <3>3
  <2> QED
    BY <2>2, <2>3
<1>20. CASE GraphNext
  BY <1>3, <1>4, <1>5, <1>6, <1>7, <1>8, <1>9, <1>10, <1>11, <1>12, <1>13, <1>14, <1>15, <1>16,
     <1>18, <1>19, <1>20, EnterTyped, AssignTyped DEF GraphNext
<1> QED
  BY <1>1, <1>20

\* Requests stay within their bounds and the compile history of the store and of
\* the shared copy within its limit, their revisions and counters are numbers,
\* and a request is about to assign at most one copy of the state, for all
\* graphs, resources and clients.
THEOREM GraphTypeSafe == GraphSpec => []GraphTypeOK
<1>1. GraphIsTyped => GraphTypeOK
  <2> SUFFICES ASSUME GraphIsTyped PROVE GraphTypeOK
    OBVIOUS
  <2>1. ASSUME NEW c \in Clients PROVE Len(thread[c].copy) <= 1
    <3>1. ThreadIsTyped(thread[c])
      BY DEF GraphIsTyped
    <3>2. thread[c].copy = <<>> \/ \E S : thread[c].copy = <<S>>
      BY <3>1 DEF ThreadIsTyped
    <3>3. CASE thread[c].copy = <<>>
      BY <3>3
    <3>4. CASE \E S : thread[c].copy = <<S>>
      <4>1. PICK S : thread[c].copy = <<S>>
        BY <3>4
      <4> QED
        BY <4>1
    <3> QED
      BY <3>2, <3>3, <3>4
  <2> QED
    BY <2>1 DEF GraphIsTyped, ThreadIsTyped, StateIsTyped, Outcomes, GraphTypeOK
<1> QED
  BY <1>1, SoundInit, SoundNext, StutteringKeepsSound, GraphAssumption, GraphTypesStart,
     GraphTypesStay,
     PTL DEF GraphSpec

-----------------------------------------------------------------------------
(* GraphRules: lists, and what is kept of them once.                       *)

LEMMA SequencesAreLists ==
    ASSUME NEW X, NEW s \in Seq(X)
    PROVE  IsList(s) /\ \A i \in 1 .. Len(s) : s[i] \in Elems(s)
<1>1. \A i \in 1 .. Len(s) : s[i] \in Elems(s)
  BY DEF Elems
<1> QED
  BY <1>1 DEF IsList

LEMMA ListsAreIndexed ==
    ASSUME NEW s, IsList(s)
    PROVE  Len(s) \in Nat /\ DOMAIN s = 1 .. Len(s) /\ \A i \in DOMAIN s : s[i] \in Elems(s)
BY DEF IsList, Elems

LEMMA MadeList ==
    ASSUME NEW n \in Nat, NEW f, f = [i \in 1 .. n |-> f[i]]
    PROVE  IsList(f) /\ Len(f) = n
<1>1. \A i \in 1 .. n : f[i] \in Elems(f)
  BY DEF Elems
<1>2. f \in Seq(Elems(f)) /\ Len(f) = n
  BY <1>1
<1> QED
  BY <1>2 DEF IsList

LEMMA ListsJoin ==
    ASSUME NEW s, NEW t, IsList(s), IsList(t)
    PROVE  /\ IsList(s \o t) /\ Len(s \o t) = Len(s) + Len(t)
           /\ \A i \in 1 .. Len(s) : (s \o t)[i] = s[i]
           /\ \A i \in 1 .. Len(t) : (s \o t)[Len(s) + i] = t[i]
           /\ \A i \in DOMAIN (s \o t) :
                \/ i \in DOMAIN s /\ (s \o t)[i] = s[i]
                \/ i - Len(s) \in DOMAIN t /\ (s \o t)[i] = t[i - Len(s)]
<1> DEFINE X == Elems(s) \cup Elems(t)
<1>1. s \in Seq(X) /\ t \in Seq(X)
  BY DEF IsList
<1> HIDE DEF X
<1>2. /\ s \o t \in Seq(X) /\ Len(s \o t) = Len(s) + Len(t)
      /\ \A i \in 1 .. Len(s) : (s \o t)[i] = s[i]
      /\ \A i \in 1 .. Len(t) : (s \o t)[Len(s) + i] = t[i]
  BY <1>1
<1>3. Len(s) \in Nat /\ Len(t) \in Nat /\ DOMAIN s = 1 .. Len(s) /\ DOMAIN t = 1 .. Len(t)
  BY <1>1
<1>4. ASSUME NEW i \in DOMAIN (s \o t)
      PROVE  \/ i \in DOMAIN s /\ (s \o t)[i] = s[i]
             \/ i - Len(s) \in DOMAIN t /\ (s \o t)[i] = t[i - Len(s)]
  <2>1. i \in 1 .. Len(s) + Len(t)
    BY <1>2
  <2>2. CASE i <= Len(s)
    BY <1>2, <1>3, <2>1, <2>2
  <2>3. CASE i > Len(s)
    <3>1. i - Len(s) \in 1 .. Len(t) /\ Len(s) + (i - Len(s)) = i
      BY <1>3, <2>1, <2>3
    <3>2. (s \o t)[Len(s) + (i - Len(s))] = t[i - Len(s)]
      BY <1>2, <3>1
    <3> QED
      BY <1>3, <3>1, <3>2
  <2> QED
    BY <1>3, <2>1, <2>2, <2>3
<1>5. IsList(s \o t)
  BY <1>2, SequencesAreLists
<1> QED
  BY <1>2, <1>4, <1>5

LEMMA Pair ==
    ASSUME NEW a, NEW b
    PROVE  <<a>> \o <<b>> = <<a, b>>
<1> DEFINE S == {a, b}
<1>1. <<a>> \in Seq(S) /\ <<b>> \in Seq(S) /\ <<a, b>> \in Seq(S) /\ Len(<<a, b>>) = 2
  OBVIOUS
<1>2. /\ <<a>> \o <<b>> \in Seq(S) /\ Len(<<a>> \o <<b>>) = 2
      /\ (<<a>> \o <<b>>)[1] = a /\ (<<a>> \o <<b>>)[2] = b
  BY <1>1
<1>3. ASSUME NEW w \in Seq(S), Len(w) = 2, w[1] = a, w[2] = b
      PROVE  w = <<a, b>>
  BY <1>1, <1>3, SeqEqual
<1> QED
  BY <1>2, <1>3

IsDistinct(s) == \A i, j \in DOMAIN s : s[i] = s[j] => i = j

\* _normalize_control_branch_entries keeps each key once, all of them, and does
\* nothing the second time.
LEMMA EachOnceIsDistinct ==
    ASSUME NEW s, IsList(s)
    PROVE  /\ IsList(EachOnce(s)) /\ IsDistinct(EachOnce(s))
           /\ Elems(EachOnce(s)) \subseteq Elems(s)
<1> DEFINE idx == [i \in DOMAIN s |-> i]
           K == {i \in DOMAIN s : \A j \in 1..(i - 1) : s[j] # s[i]}
           at == Kept(idx, K)
           t == [k \in DOMAIN at |-> s[at[k]]]
<1>1. EachOnce(s) = t
  BY DEF EachOnce
<1>2. Len(s) \in Nat /\ DOMAIN s = 1 .. Len(s) /\ \A i \in DOMAIN s : s[i] \in Elems(s)
  BY ListsAreIndexed
<1>3. idx \in Seq(Nat) /\ Len(idx) = Len(s) /\ \A i \in 1 .. Len(s) : idx[i] = i
  BY <1>2
<1> HIDE DEF idx
<1>4. at \in Seq(Nat)
  BY <1>3, KeptEmbeds
<1>5. PICK g : Embeds(g, at, idx, K, Len(idx))
  BY <1>3, KeptEmbeds
<1> HIDE DEF at
<1>6. /\ Len(at) \in Nat /\ DOMAIN at = 1 .. Len(at)
      /\ \A k \in 1 .. Len(at) : g[k] \in 1 .. Len(s) /\ at[k] = g[k] /\ at[k] \in K
      /\ \A k, l \in 1 .. Len(at) : k < l => g[k] < g[l]
  <2>1. Len(at) \in Nat /\ DOMAIN at = 1 .. Len(at)
    BY <1>4
  <2>2. \A k \in 1 .. Len(at) : g[k] \in 1 .. Len(s) /\ at[k] = idx[g[k]] /\ idx[g[k]] \in K
    BY <1>3, <1>5 DEF Embeds
  <2>3. \A k, l \in 1 .. Len(at) : k < l => g[k] < g[l]
    BY <1>5 DEF Embeds
  <2> HIDE DEF K
  <2> QED
    BY <1>3, <2>1, <2>2, <2>3
<1>7. \A k, l \in 1 .. Len(at) : k < l => s[at[k]] # s[at[l]]
  <2> TAKE k, l \in 1 .. Len(at)
  <2> SUFFICES ASSUME k < l PROVE s[at[k]] # s[at[l]]
    OBVIOUS
  <2>1. at[l] \in K /\ at[k] \in 1 .. (at[l] - 1)
    BY <1>6
  <2> QED
    BY <2>1
<1>8. IsDistinct(t)
  <2> SUFFICES ASSUME NEW k \in 1 .. Len(at), NEW l \in 1 .. Len(at), k # l
               PROVE  t[k] # t[l]
    BY <1>6 DEF IsDistinct
  <2>1. t[k] = s[at[k]] /\ t[l] = s[at[l]]
    BY <1>6
  <2>2. k < l \/ l < k
    BY <1>6
  <2> QED
    BY <1>7, <2>1, <2>2
<1>9. IsList(t) /\ Elems(t) \subseteq Elems(s)
  <2>1. \A k \in 1 .. Len(at) : t[k] = s[at[k]] /\ at[k] \in DOMAIN s
    BY <1>2, <1>6
  <2>2. t = [k \in 1 .. Len(at) |-> t[k]] /\ DOMAIN t = 1 .. Len(at)
    BY <1>6
  <2> HIDE DEF t
  <2> QED
    BY <1>6, <2>1, <2>2, MadeList DEF Elems
<1> QED
  BY <1>1, <1>8, <1>9

LEMMA OnceIsEnough ==
    ASSUME NEW s, IsList(s), IsDistinct(s)
    PROVE  EachOnce(s) = s
<1> DEFINE idx == [i \in DOMAIN s |-> i]
           K == {i \in DOMAIN s : \A j \in 1..(i - 1) : s[j] # s[i]}
<1>1. Len(s) \in Nat /\ DOMAIN s = 1 .. Len(s) /\ s \in Seq(Elems(s))
  BY ListsAreIndexed DEF IsList
<1>2. idx \in Seq(Nat) /\ Len(idx) = Len(s) /\ DOMAIN idx = 1 .. Len(s)
      /\ \A i \in 1 .. Len(s) : idx[i] = i
  BY <1>1
<1>3. \A i \in 1 .. Len(s) : i \in K
  <2> TAKE i \in 1 .. Len(s)
  <2>1. \A j \in 1 .. (i - 1) : j \in DOMAIN s /\ j # i
    BY <1>1
  <2> QED
    BY <1>1, <2>1 DEF IsDistinct
<1> HIDE DEF idx, K
<1>4. Kept(idx, K) = idx
  BY <1>2, <1>3, KeptWhole
<1>5. EachOnce(s) = [k \in DOMAIN idx |-> s[idx[k]]]
  BY <1>4 DEF EachOnce, idx, K
<1>6. EachOnce(s) = [k \in 1 .. Len(s) |-> s[k]]
  BY <1>2, <1>5
<1> QED
  BY <1>1, <1>6

LEMMA KeysAreListed ==
    ASSUME NEW ports, IsList(ports), NEW kind
    PROVE  IsList(KeysOf(ports, kind))
<1> DEFINE idx == [i \in DOMAIN ports |-> i]
           K == {i \in DOMAIN ports : KeyOf(ports[i], kind) # <<>>}
           at == Kept(idx, K)
<1>1. idx \in Seq(Nat)
  BY ListsAreIndexed
<1>2. at \in Seq(Nat)
  BY <1>1, KeptEmbeds
<1> HIDE DEF at
<1>3. DOMAIN at = 1 .. Len(at) /\ Len(at) \in Nat
  BY <1>2
<1> DEFINE t == [k \in DOMAIN at |-> KeyOf(ports[at[k]], kind)[1]]
<1>4. KeysOf(ports, kind) = t
  BY DEF KeysOf, at
<1>5. t = [k \in 1 .. Len(at) |-> t[k]]
  BY <1>3
<1> HIDE DEF t
<1> QED
  BY <1>3, <1>4, <1>5, MadeList

-----------------------------------------------------------------------------
(* GraphRules: a graph that was normalised has nothing left to normalise.  *)
(* A port that is made anew finds the one it was made as, whose id and     *)
(* slot it takes.                                                          *)

LEMMA ValidatedPort ==
    ASSUME NEW id, NEW dir, NEW layer, NEW slot, NEW label
    PROVE  Validated(Port(id, dir, layer, slot, label)) = Port(id, dir, layer, slot, label)
BY DEF Validated, Port

LEMMA FirstOf ==
    ASSUME NEW I, I \subseteq Nat, I # {}
    PROVE  First(I) \in I
<1>1. \E i \in I : \A j \in I : i <= j
  BY Least
<1> QED
  BY <1>1 DEF First

\* All ports that answer to a slot have the same id, which the new one takes.
LEMMA IdStays ==
    ASSUME NEW m, IsList(m.ports), NEW dir, NEW S, NEW fallback, NEW i \in DOMAIN m.ports,
           m.ports[i].dir = dir, m.ports[i].slot \in S,
           \A j \in DOMAIN m.ports :
              m.ports[j].dir = dir /\ m.ports[j].slot \in S => m.ports[j].id = m.ports[i].id
    PROVE  IdFor(m, S, dir, fallback) = m.ports[i].id
<1> DEFINE H == Holding(m, S, dir)
<1>1. H \subseteq Nat /\ i \in H
  BY ListsAreIndexed DEF Holding
<1>2. First(H) \in H
  BY <1>1, FirstOf
<1>3. m.ports[First(H)].id = m.ports[i].id
  BY <1>2 DEF Holding
<1> QED
  BY <1>1, <1>3 DEF IdFor

LEMMA SlotStays ==
    ASSUME NEW m, IsList(m.ports), NEW dir, NEW slot, NEW i \in DOMAIN m.ports,
           m.ports[i].dir = dir, m.ports[i].slot \in SlotNames(slot),
           \A j \in DOMAIN m.ports :
              m.ports[j].dir = dir /\ m.ports[j].slot \in SlotNames(slot)
              => m.ports[j].slot = m.ports[i].slot
    PROVE  SlotFor(m, slot, dir) = m.ports[i].slot
<1> DEFINE H == Holding(m, SlotNames(slot), dir)
<1>1. H \subseteq Nat /\ i \in H
  BY ListsAreIndexed DEF Holding
<1>2. First(H) \in H
  BY <1>1, FirstOf
<1>3. m.ports[First(H)].slot = m.ports[i].slot
  BY <1>2 DEF Holding
<1> QED
  BY <1>1, <1>3 DEF SlotFor

\* The slots of a field and of the control ports.
LEMMA FieldSlot ==
    ASSUME NEW w \in {"in", "out"}, NEW f, f \notin ControlNames
    PROVE  /\ SlotNames(<<w, f>>) = {<<w, f>>}
           /\ \A s \in {<<"in", "control">>, <<"out", "control">>, <<"out", "timed_out">>} :
                 <<w, f>> \notin SlotNames(s)
<1>1. f # "control" /\ f # "timed_out" /\ f # "timeout"
  BY DEF ControlNames
<1>2. \A a, b : <<w, f>> = <<a, b>> => w = a /\ f = b
  OBVIOUS
<1>3. /\ <<w, f>> # <<"in", "control">> /\ <<w, f>> # <<"out", "control">>
      /\ <<w, f>> # <<"out", "timed_out">> /\ <<w, f>> # <<"out", "timeout">>
      /\ <<w, f>> # <<"control", "previous">> /\ <<w, f>> # <<"control", "in">>
      /\ <<w, f>> # <<"control", "next">> /\ <<w, f>> # <<"control", "out">>
      /\ <<w, f>> # <<"control", "timeout">>
  BY <1>1, <1>2
<1> QED
  BY <1>3 DEF SlotNames

LEMMA ControlSlots ==
    /\ SlotNames(<<"in", "control">>) = {<<"in", "control">>, <<"control", "previous">>, <<"control", "in">>}
    /\ SlotNames(<<"out", "control">>) = {<<"out", "control">>, <<"control", "next">>, <<"control", "out">>}
    /\ SlotNames(<<"out", "timed_out">>)
         = {<<"out", "timed_out">>, <<"control", "timeout">>, <<"out", "timeout">>}
    /\ SlotNames(<<"out", "control">>) \cap SlotNames(<<"out", "timed_out">>) = {}
<1>1. /\ <<"in", "control">> # <<"out", "control">> /\ <<"in", "control">> # <<"out", "timed_out">>
      /\ <<"out", "control">> # <<"out", "timed_out">>
  OBVIOUS
<1>2. /\ SlotNames(<<"in", "control">>)
           = {<<"in", "control">>, <<"control", "previous">>, <<"control", "in">>}
      /\ SlotNames(<<"out", "control">>)
           = {<<"out", "control">>, <<"control", "next">>, <<"control", "out">>}
      /\ SlotNames(<<"out", "timed_out">>)
           = {<<"out", "timed_out">>, <<"control", "timeout">>, <<"out", "timeout">>}
  BY <1>1 DEF SlotNames
<1> QED
  BY <1>2

\* A list of fields that no control port is called like.
PlainFields(fields) == IsList(fields) /\ Elems(fields) \cap ControlNames = {}

FieldPort(n, f, dir, w, idp, labelled) ==
    Port(IdFor(n, {<<w, f>>}, dir, idp \o <<f>>), dir, "data", <<w, f>>,
         IF labelled THEN <<f>> ELSE NoPort)

\* What the ports of fields look like.
AreFieldPorts(F, n, fields, dir, w, idp, labelled) ==
    /\ IsList(F) /\ DOMAIN F = DOMAIN fields /\ Len(F) = Len(fields)
    /\ \A i \in DOMAIN F :
          /\ F[i] = FieldPort(n, fields[i], dir, w, idp, labelled)
          /\ Validated(F[i]) = F[i] /\ F[i].dir = dir /\ F[i].slot = <<w, fields[i]>>
          /\ fields[i] \notin ControlNames

LEMMA FieldPortsShape ==
    ASSUME NEW n, NEW fields, PlainFields(fields), NEW dir, NEW w \in {"in", "out"},
           NEW idp, NEW labelled
    PROVE  AreFieldPorts(FieldPorts(n, fields, dir, <<w>>, idp, labelled),
                         n, fields, dir, w, idp, labelled)
<1> DEFINE F == FieldPorts(n, fields, dir, <<w>>, idp, labelled)
<1>1. /\ Len(fields) \in Nat /\ DOMAIN fields = 1 .. Len(fields)
      /\ \A i \in DOMAIN fields : fields[i] \notin ControlNames
  BY ListsAreIndexed DEF PlainFields
<1>2. \A i \in DOMAIN fields : <<w>> \o <<fields[i]>> = <<w, fields[i]>>
  BY Pair
<1>3. \A i \in DOMAIN fields : SlotNames(<<w, fields[i]>>) = {<<w, fields[i]>>}
  BY <1>1, FieldSlot
<1>4. F = [i \in DOMAIN fields |->
             Port(IdFor(n, SlotNames(<<w>> \o <<fields[i]>>), dir, idp \o <<fields[i]>>),
                  dir, "data", <<w>> \o <<fields[i]>>,
                  IF labelled THEN <<fields[i]>> ELSE NoPort)]
  BY DEF FieldPorts
<1>5. \A i \in DOMAIN fields : F[i] = FieldPort(n, fields[i], dir, w, idp, labelled)
  <2> TAKE i \in DOMAIN fields
  <2>1. F[i] = Port(IdFor(n, SlotNames(<<w>> \o <<fields[i]>>), dir, idp \o <<fields[i]>>),
                    dir, "data", <<w>> \o <<fields[i]>>,
                    IF labelled THEN <<fields[i]>> ELSE NoPort)
    BY <1>4
  <2> QED
    BY <1>2, <1>3, <2>1 DEF FieldPort
<1>6. DOMAIN F = DOMAIN fields /\ F = [i \in 1 .. Len(fields) |-> F[i]]
  BY <1>1, <1>4
<1> HIDE DEF F
<1>7. IsList(F) /\ Len(F) = Len(fields)
  BY <1>1, <1>6, MadeList
<1>8. ASSUME NEW i \in DOMAIN F
      PROVE  Validated(F[i]) = F[i] /\ F[i].dir = dir /\ F[i].slot = <<w, fields[i]>>
  <2>1. F[i] = FieldPort(n, fields[i], dir, w, idp, labelled)
    BY <1>5, <1>6
  <2> DEFINE p == FieldPort(n, fields[i], dir, w, idp, labelled)
  <2>2. Validated(p) = p
    BY ValidatedPort DEF FieldPort
  <2>3. p.dir = dir /\ p.slot = <<w, fields[i]>>
    BY DEF Port, FieldPort
  <2> HIDE DEF p
  <2> QED
    BY <2>1, <2>2, <2>3 DEF p
<1>9. AreFieldPorts(F, n, fields, dir, w, idp, labelled)
  BY <1>1, <1>5, <1>6, <1>7, <1>8 DEF AreFieldPorts
<1> QED
  BY <1>9 DEF F

\* A node m whose ports hold those of the fields, and none other of their slots.
HoldsFieldPorts(m, F, dir, w) ==
    /\ IsList(m.ports)
    /\ \A i \in DOMAIN F : \E j \in DOMAIN m.ports : m.ports[j] = F[i]
    /\ \A j \in DOMAIN m.ports : m.ports[j].dir = dir =>
          \/ \E i \in DOMAIN F : m.ports[j] = F[i]
          \/ \A f : f \notin ControlNames => m.ports[j].slot # <<w, f>>

LEMMA FieldPortsStay ==
    ASSUME NEW n, NEW fields, PlainFields(fields), NEW dir, NEW w \in {"in", "out"},
           NEW idp, NEW labelled, NEW m,
           HoldsFieldPorts(m, FieldPorts(n, fields, dir, <<w>>, idp, labelled), dir, w)
    PROVE  FieldPorts(m, fields, dir, <<w>>, idp, labelled)
             = FieldPorts(n, fields, dir, <<w>>, idp, labelled)
<1> DEFINE F == FieldPorts(n, fields, dir, <<w>>, idp, labelled)
           G == FieldPorts(m, fields, dir, <<w>>, idp, labelled)
<1>1. /\ AreFieldPorts(F, n, fields, dir, w, idp, labelled)
      /\ AreFieldPorts(G, m, fields, dir, w, idp, labelled)
  BY FieldPortsShape
<1>2. HoldsFieldPorts(m, F, dir, w)
  OBVIOUS
<1> HIDE DEF F, G
<1>3. /\ IsList(F) /\ DOMAIN F = DOMAIN fields /\ Len(F) = Len(fields)
      /\ IsList(G) /\ DOMAIN G = DOMAIN fields /\ Len(G) = Len(fields)
      /\ \A i \in DOMAIN fields :
            /\ F[i] = FieldPort(n, fields[i], dir, w, idp, labelled)
            /\ G[i] = FieldPort(m, fields[i], dir, w, idp, labelled)
            /\ F[i].dir = dir /\ F[i].slot = <<w, fields[i]>> /\ fields[i] \notin ControlNames
  BY <1>1 DEF AreFieldPorts
<1>4. ASSUME NEW i \in DOMAIN fields
      PROVE  G[i] = F[i]
  <2>1. PICK j \in DOMAIN m.ports : m.ports[j] = F[i]
    BY <1>2, <1>3 DEF HoldsFieldPorts
  <2>2. m.ports[j].dir = dir /\ m.ports[j].slot \in {<<w, fields[i]>>}
    BY <1>3, <2>1
  <2>3. ASSUME NEW k \in DOMAIN m.ports, m.ports[k].dir = dir, m.ports[k].slot \in {<<w, fields[i]>>}
        PROVE  m.ports[k].id = m.ports[j].id
    <3>1. PICK l \in DOMAIN F : m.ports[k] = F[l]
      BY <1>2, <1>3, <2>3 DEF HoldsFieldPorts
    <3>2. <<w, fields[l]>> = <<w, fields[i]>>
      BY <1>3, <2>3, <3>1
    <3>3. fields[l] = fields[i]
      BY <3>2
    <3> QED
      BY <1>3, <2>1, <3>1, <3>3
  <2>4. IdFor(m, {<<w, fields[i]>>}, dir, idp \o <<fields[i]>>) = m.ports[j].id
    BY <1>2, <2>2, <2>3, IdStays DEF HoldsFieldPorts
  <2>5. F[i].id = IdFor(n, {<<w, fields[i]>>}, dir, idp \o <<fields[i]>>)
    BY <1>3 DEF FieldPort, Port
  <2>6. IdFor(m, {<<w, fields[i]>>}, dir, idp \o <<fields[i]>>)
          = IdFor(n, {<<w, fields[i]>>}, dir, idp \o <<fields[i]>>)
    BY <2>1, <2>4, <2>5
  <2>7. FieldPort(m, fields[i], dir, w, idp, labelled) = FieldPort(n, fields[i], dir, w, idp, labelled)
    BY <2>6 DEF FieldPort
  <2> QED
    BY <1>3, <2>7
<1>5. G = F
  <2>1. G \in Seq(Elems(G)) /\ F \in Seq(Elems(F)) /\ DOMAIN fields = 1 .. Len(fields)
    BY <1>3, ListsAreIndexed DEF IsList, PlainFields
  <2>2. G \in Seq(Elems(G) \cup Elems(F)) /\ F \in Seq(Elems(G) \cup Elems(F))
    BY <2>1
  <2> QED
    BY <1>3, <1>4, <2>1, <2>2, SeqEqual
<1> QED
  BY <1>5 DEF F, G

\* A list of ports that a graph model holds as they are.
AreWhole(p) == IsList(p) /\ \A x \in Elems(p) : Validated(x) = x

LEMMA ElemsOfBoth ==
    ASSUME NEW s, NEW t, IsList(s), IsList(t)
    PROVE  Elems(s \o t) = Elems(s) \cup Elems(t)
<1>1. /\ IsList(s \o t) /\ Len(s \o t) = Len(s) + Len(t)
      /\ \A i \in 1 .. Len(s) : (s \o t)[i] = s[i]
      /\ \A i \in 1 .. Len(t) : (s \o t)[Len(s) + i] = t[i]
      /\ \A i \in DOMAIN (s \o t) :
           \/ i \in DOMAIN s /\ (s \o t)[i] = s[i]
           \/ i - Len(s) \in DOMAIN t /\ (s \o t)[i] = t[i - Len(s)]
  BY ListsJoin
<1>2. /\ Len(s) \in Nat /\ DOMAIN s = 1 .. Len(s) /\ Len(t) \in Nat /\ DOMAIN t = 1 .. Len(t)
      /\ DOMAIN (s \o t) = 1 .. Len(s) + Len(t)
  BY <1>1, ListsAreIndexed
<1>3. ASSUME NEW x \in Elems(s \o t) PROVE x \in Elems(s) \cup Elems(t)
  BY <1>1, <1>3 DEF Elems
<1>4. ASSUME NEW x \in Elems(s) PROVE x \in Elems(s \o t)
  <2>1. PICK i \in 1 .. Len(s) : s[i] = x
    BY <1>2, <1>4 DEF Elems
  <2>2. i \in DOMAIN (s \o t) /\ (s \o t)[i] = x
    BY <1>1, <1>2, <2>1
  <2> QED
    BY <2>2 DEF Elems
<1>5. ASSUME NEW x \in Elems(t) PROVE x \in Elems(s \o t)
  <2>1. PICK i \in 1 .. Len(t) : t[i] = x
    BY <1>2, <1>5 DEF Elems
  <2>2. Len(s) + i \in DOMAIN (s \o t) /\ (s \o t)[Len(s) + i] = x
    BY <1>1, <1>2, <2>1
  <2> QED
    BY <2>2 DEF Elems
<1> QED
  BY <1>3, <1>4, <1>5

LEMMA OneElem ==
    ASSUME NEW a PROVE IsList(<<a>>) /\ Elems(<<a>>) = {a}
<1>1. Elems(<<a>>) = {a}
  BY DEF Elems
<1> QED
  BY <1>1 DEF IsList

LEMMA TwoElems ==
    ASSUME NEW a, NEW b PROVE IsList(<<a, b>>) /\ Elems(<<a, b>>) = {a, b}
<1>1. Elems(<<a, b>>) = {a, b}
  BY DEF Elems
<1> QED
  BY <1>1 DEF IsList

LEMMA ThreeElems ==
    ASSUME NEW a, NEW b, NEW d PROVE IsList(<<a, b, d>>) /\ Elems(<<a, b, d>>) = {a, b, d}
<1>1. Elems(<<a, b, d>>) = {a, b, d}
  BY DEF Elems
<1> QED
  BY <1>1 DEF IsList

LEMMA WholeJoined ==
    ASSUME NEW s, NEW t, AreWhole(s), AreWhole(t)
    PROVE  AreWhole(s \o t) /\ Elems(s \o t) = Elems(s) \cup Elems(t)
BY ListsJoin, ElemsOfBoth DEF AreWhole

ControlSlot == {<<"in", "control">>, <<"out", "control">>, <<"out", "timed_out">>}

\* A control port of a request for input keeps the slot it is known under.
AskPort(n, slot, dir, id) ==
    Port(IdFor(n, SlotNames(slot), dir, id), dir, "control", SlotFor(n, slot, dir), NoPort)

LEMMA ControlPortShape ==
    ASSUME NEW n, IsList(n.ports), NEW slot \in ControlSlot, NEW dir, NEW id
    PROVE  /\ LET p == LegacyPort(n, slot, dir, id)
              IN  Validated(p) = p /\ p.dir = dir /\ p.slot = slot /\ slot \in SlotNames(slot)
           /\ LET p == AskPort(n, slot, dir, id)
              IN  Validated(p) = p /\ p.dir = dir /\ p.slot \in SlotNames(slot)
<1>1. slot \in SlotNames(slot)
  BY ControlSlots DEF ControlSlot
<1>2. LET p == LegacyPort(n, slot, dir, id)
      IN  Validated(p) = p /\ p.dir = dir /\ p.slot = slot
  BY ValidatedPort DEF LegacyPort, Port
<1>3. SlotFor(n, slot, dir) \in SlotNames(slot)
  <2> DEFINE H == Holding(n, SlotNames(slot), dir)
  <2>1. CASE H = {}
    BY <1>1, <2>1 DEF SlotFor
  <2>2. CASE H # {}
    <3>1. H \subseteq Nat
      BY ListsAreIndexed DEF Holding
    <3>2. First(H) \in H
      BY <2>2, <3>1, FirstOf
    <3>3. n.ports[First(H)].slot \in SlotNames(slot)
      BY <3>2 DEF Holding
    <3> QED
      BY <2>2, <3>3 DEF SlotFor
  <2> QED
    BY <2>1, <2>2
<1>4. LET p == AskPort(n, slot, dir, id)
      IN  Validated(p) = p /\ p.dir = dir /\ p.slot \in SlotNames(slot)
  BY <1>3, ValidatedPort DEF AskPort, Port
<1> QED
  BY <1>1, <1>2, <1>4

\* p is the only port of m that answers to a control slot.
OnlyPort(m, p, slot, dir) ==
    /\ IsList(m.ports) /\ p \in Elems(m.ports)
    /\ \A q \in Elems(m.ports) : q.dir = dir /\ q.slot \in SlotNames(slot) => q = p

\* It is made as it was.
LEMMA OnlyPortStays ==
    ASSUME NEW slot \in ControlSlot, NEW dir, NEW id, NEW m, NEW p, OnlyPort(m, p, slot, dir),
           p.dir = dir, p.slot \in SlotNames(slot)
    PROVE  IdFor(m, SlotNames(slot), dir, id) = p.id /\ SlotFor(m, slot, dir) = p.slot
<1>1. PICK i \in DOMAIN m.ports : m.ports[i] = p
  BY DEF Elems, OnlyPort
<1>2. \A j \in DOMAIN m.ports :
        m.ports[j].dir = dir /\ m.ports[j].slot \in SlotNames(slot) => m.ports[j] = p
  BY DEF Elems, OnlyPort
<1> QED
  BY <1>1, <1>2, IdStays, SlotStays DEF OnlyPort

LEMMA LegacyPortStays ==
    ASSUME NEW n, IsList(n.ports), NEW slot \in ControlSlot, NEW dir, NEW id,
           NEW m, OnlyPort(m, LegacyPort(n, slot, dir, id), slot, dir)
    PROVE  LegacyPort(m, slot, dir, id) = LegacyPort(n, slot, dir, id)
<1> DEFINE p == LegacyPort(n, slot, dir, id)
<1>1. p.dir = dir /\ p.slot \in SlotNames(slot)
  BY ControlPortShape
<1>2. p.id = IdFor(n, SlotNames(slot), dir, id)
  BY DEF LegacyPort, Port
<1>3. IdFor(m, SlotNames(slot), dir, id) = p.id
  BY <1>1, OnlyPortStays
<1> HIDE DEF p
<1>4. IdFor(m, SlotNames(slot), dir, id) = IdFor(n, SlotNames(slot), dir, id)
  BY <1>2, <1>3
<1> QED
  BY <1>4, Zenon DEF LegacyPort

LEMMA AskPortStays ==
    ASSUME NEW n, IsList(n.ports), NEW slot \in ControlSlot, NEW dir, NEW id,
           NEW m, OnlyPort(m, AskPort(n, slot, dir, id), slot, dir)
    PROVE  AskPort(m, slot, dir, id) = AskPort(n, slot, dir, id)
<1> DEFINE p == AskPort(n, slot, dir, id)
<1>1. p.dir = dir /\ p.slot \in SlotNames(slot)
  BY ControlPortShape
<1>2. p.id = IdFor(n, SlotNames(slot), dir, id) /\ p.slot = SlotFor(n, slot, dir)
  BY DEF AskPort, Port
<1>3. IdFor(m, SlotNames(slot), dir, id) = p.id /\ SlotFor(m, slot, dir) = p.slot
  BY <1>1, OnlyPortStays
<1> HIDE DEF p
<1>4. /\ IdFor(m, SlotNames(slot), dir, id) = IdFor(n, SlotNames(slot), dir, id)
      /\ SlotFor(m, slot, dir) = SlotFor(n, slot, dir)
  BY <1>2, <1>3
<1> QED
  BY <1>4, Zenon DEF AskPort

\* What the other lemmas need of the ports of fields.
LEMMA FieldPortsAmong ==
    ASSUME NEW n, NEW fields, PlainFields(fields), NEW dir, NEW w \in {"in", "out"},
           NEW idp, NEW labelled
    PROVE  LET F == FieldPorts(n, fields, dir, <<w>>, idp, labelled)
           IN  /\ AreWhole(F)
               /\ \A p \in Elems(F) : p.dir = dir /\ \A s \in ControlSlot : p.slot \notin SlotNames(s)
<1> DEFINE F == FieldPorts(n, fields, dir, <<w>>, idp, labelled)
<1>1. AreFieldPorts(F, n, fields, dir, w, idp, labelled)
  BY FieldPortsShape
<1> HIDE DEF F
<1>2. IsList(F) /\ \A p \in Elems(F) : \E i \in DOMAIN F :
         Validated(p) = p /\ p.dir = dir /\ p.slot = <<w, fields[i]>> /\ fields[i] \notin ControlNames
  BY <1>1 DEF AreFieldPorts, Elems
<1>3. \A p \in Elems(F) : p.dir = dir /\ \A s \in ControlSlot : p.slot \notin SlotNames(s)
  BY <1>2, FieldSlot DEF ControlSlot
<1>4. AreWhole(F)
  BY <1>2 DEF AreWhole
<1> QED
  BY <1>3, <1>4 DEF F

\* No control port has the slot of a field.
LEMMA ControlIsNoField ==
    ASSUME NEW slot \in ControlSlot, NEW s \in SlotNames(slot), NEW w \in {"in", "out"}
    PROVE  \A f : f \notin ControlNames => s # <<w, f>>
BY FieldSlot DEF ControlSlot

\* The ports of fields F among other ports of m that have no field's slot.
AreAmong(F, m, others, dir) ==
    /\ IsList(m.ports) /\ Elems(m.ports) = others \cup Elems(F)
    /\ \A q \in others : q.dir = dir => \E s \in ControlSlot : q.slot \in SlotNames(s)

LEMMA FieldPortsStayAmong ==
    ASSUME NEW n, NEW fields, PlainFields(fields), NEW dir, NEW w \in {"in", "out"},
           NEW idp, NEW labelled, NEW m, NEW others,
           AreAmong(FieldPorts(n, fields, dir, <<w>>, idp, labelled), m, others, dir)
    PROVE  FieldPorts(m, fields, dir, <<w>>, idp, labelled)
             = FieldPorts(n, fields, dir, <<w>>, idp, labelled)
<1> DEFINE F == FieldPorts(n, fields, dir, <<w>>, idp, labelled)
<1>1. AreAmong(F, m, others, dir)
  OBVIOUS
<1> HIDE DEF F
<1>2. \A i \in DOMAIN F : \E j \in DOMAIN m.ports : m.ports[j] = F[i]
  BY <1>1 DEF Elems, AreAmong
<1>3. ASSUME NEW j \in DOMAIN m.ports, m.ports[j].dir = dir
      PROVE  \/ \E i \in DOMAIN F : m.ports[j] = F[i]
             \/ \A f : f \notin ControlNames => m.ports[j].slot # <<w, f>>
  <2>1. CASE m.ports[j] \in Elems(F)
    BY <2>1 DEF Elems
  <2>2. CASE m.ports[j] \in others
    <3>1. PICK s \in ControlSlot : m.ports[j].slot \in SlotNames(s)
      BY <1>1, <1>3, <2>2 DEF AreAmong
    <3> QED
      BY <3>1, ControlIsNoField
  <2> QED
    BY <1>1, <2>1, <2>2 DEF Elems, AreAmong
<1>4. HoldsFieldPorts(m, F, dir, w)
  BY <1>1, <1>2, <1>3 DEF HoldsFieldPorts, AreAmong
<1> QED
  BY <1>4, FieldPortsStay DEF F

\* An entry or exit, a script and a request for input.
ControlThenFields(n, slot, dir, id, fields, w, idp, labelled) ==
    <<LegacyPort(n, slot, dir, id)>> \o FieldPorts(n, fields, dir, <<w>>, idp, labelled)

LEMMA ControlThenFieldsStay ==
    ASSUME NEW n, IsList(n.ports), NEW slot \in ControlSlot, NEW dir, NEW id,
           NEW fields, PlainFields(fields), NEW w \in {"in", "out"}, NEW idp, NEW labelled, NEW m,
           m.ports = ControlThenFields(n, slot, dir, id, fields, w, idp, labelled)
    PROVE  AreWhole(m.ports) /\ ControlThenFields(m, slot, dir, id, fields, w, idp, labelled) = m.ports
<1> DEFINE a == LegacyPort(n, slot, dir, id)
           h == <<a>>
           F == FieldPorts(n, fields, dir, <<w>>, idp, labelled)
<1>1. Validated(a) = a /\ a.dir = dir /\ a.slot \in SlotNames(slot)
  BY ControlPortShape
<1>2. AreWhole(F) /\ \A p \in Elems(F) : \A s \in ControlSlot : p.slot \notin SlotNames(s)
  BY FieldPortsAmong
<1>3. m.ports = h \o F
  BY DEF ControlThenFields
<1> HIDE DEF a, F
<1>4. AreWhole(h) /\ Elems(h) = {a}
  BY <1>1, OneElem DEF AreWhole
<1> HIDE DEF h
<1>5. AreWhole(m.ports) /\ Elems(m.ports) = {a} \cup Elems(F)
  BY <1>2, <1>3, <1>4, WholeJoined
<1>6. LegacyPort(m, slot, dir, id) = a
  <2>1. OnlyPort(m, a, slot, dir)
    BY <1>2, <1>5 DEF AreWhole, OnlyPort
  <2> QED
    BY <2>1, LegacyPortStays DEF a
<1>7. FieldPorts(m, fields, dir, <<w>>, idp, labelled) = F
  <2>1. AreAmong(F, m, {a}, dir)
    BY <1>1, <1>5 DEF AreWhole, AreAmong
  <2> QED
    BY <2>1, FieldPortsStayAmong DEF F
<1> QED
  BY <1>3, <1>5, <1>6, <1>7 DEF h, ControlThenFields

LEMMA BoundaryStays ==
    ASSUME NEW n, IsList(n.ports), n.kind \in {"entry", "exit"},
           PlainFields(n.cfg.inputs), PlainFields(n.cfg.outputs),
           NEW m, m.kind = n.kind, m.cfg = n.cfg, m.ports = BoundaryPorts(n)
    PROVE  AreWhole(m.ports) /\ BoundaryPorts(m) = m.ports
<1>1. <<"in", "control">> \in ControlSlot /\ <<"out", "control">> \in ControlSlot
  BY DEF ControlSlot
<1>2. CASE n.kind = "entry"
  <2>1. \A x : x.kind = "entry" /\ x.cfg = n.cfg =>
           BoundaryPorts(x) = ControlThenFields(x, <<"out", "control">>, Out, <<"out">>,
                                                n.cfg.inputs, "out", <<"out">>, FALSE)
    BY DEF BoundaryPorts, ControlThenFields
  <2>2. m.ports = ControlThenFields(n, <<"out", "control">>, Out, <<"out">>,
                                   n.cfg.inputs, "out", <<"out">>, FALSE)
    BY <1>2, <2>1, Zenon
  <2>3. BoundaryPorts(m) = ControlThenFields(m, <<"out", "control">>, Out, <<"out">>,
                                             n.cfg.inputs, "out", <<"out">>, FALSE)
    BY <1>2, <2>1, Zenon
  <2>4. \A l : m.ports = ControlThenFields(n, <<"out", "control">>, Out, <<"out">>,
                                          n.cfg.inputs, "out", <<"out">>, l)
               => AreWhole(m.ports) /\ ControlThenFields(m, <<"out", "control">>, Out, <<"out">>,
                                          n.cfg.inputs, "out", <<"out">>, l) = m.ports
    BY <1>1, ControlThenFieldsStay
  <2> QED
    BY <2>2, <2>3, <2>4, Zenon
<1>3. CASE n.kind = "exit"
  <2>1. \A x : x.kind = "exit" /\ x.cfg = n.cfg =>
           BoundaryPorts(x) = ControlThenFields(x, <<"in", "control">>, In, <<"in">>,
                                                n.cfg.outputs, "in", <<"in">>, FALSE)
    BY DEF BoundaryPorts, ControlThenFields
  <2>2. m.ports = ControlThenFields(n, <<"in", "control">>, In, <<"in">>,
                                   n.cfg.outputs, "in", <<"in">>, FALSE)
    BY <1>3, <2>1, Zenon
  <2>3. BoundaryPorts(m) = ControlThenFields(m, <<"in", "control">>, In, <<"in">>,
                                             n.cfg.outputs, "in", <<"in">>, FALSE)
    BY <1>3, <2>1, Zenon
  <2>4. \A l : m.ports = ControlThenFields(n, <<"in", "control">>, In, <<"in">>,
                                          n.cfg.outputs, "in", <<"in">>, l)
               => AreWhole(m.ports) /\ ControlThenFields(m, <<"in", "control">>, In, <<"in">>,
                                          n.cfg.outputs, "in", <<"in">>, l) = m.ports
    BY <1>1, ControlThenFieldsStay
  <2> QED
    BY <2>2, <2>3, <2>4, Zenon
<1> QED
  BY <1>2, <1>3

LEMMA ScriptStays ==
    ASSUME NEW n, IsList(n.ports), PlainFields(n.cfg.inputs), PlainFields(n.cfg.outputs),
           NEW m, m.id = n.id, m.cfg = n.cfg, m.ports = PythonPorts(n)
    PROVE  AreWhole(m.ports) /\ PythonPorts(m) = m.ports
<1> DEFINE a == LegacyPort(n, <<"in", "control">>, In, <<"in">>)
           b == LegacyPort(n, <<"out", "control">>, Out, <<"out">>)
           h == <<a, b>>
           ip == <<n.id, "python", "in">>
           op == <<n.id, "python", "out">>
           F == FieldPorts(n, n.cfg.inputs, In, <<"in">>, ip, FALSE)
           G == FieldPorts(n, n.cfg.outputs, Out, <<"out">>, op, FALSE)
<1>0. In # Out
  BY DEF In, Out
<1>1. <<"in", "control">> \in ControlSlot /\ <<"out", "control">> \in ControlSlot
  BY DEF ControlSlot
<1>2. /\ Validated(a) = a /\ a.dir = In /\ a.slot \in SlotNames(<<"in", "control">>)
      /\ Validated(b) = b /\ b.dir = Out /\ b.slot \in SlotNames(<<"out", "control">>)
  BY <1>1, ControlPortShape
<1>3. /\ AreWhole(F) /\ \A p \in Elems(F) : p.dir = In /\ \A s \in ControlSlot : p.slot \notin SlotNames(s)
      /\ AreWhole(G) /\ \A p \in Elems(G) : p.dir = Out /\ \A s \in ControlSlot : p.slot \notin SlotNames(s)
  BY FieldPortsAmong
<1>4. m.ports = h \o F \o G
  BY DEF PythonPorts
<1>5. PythonPorts(m) = <<LegacyPort(m, <<"in", "control">>, In, <<"in">>),
                         LegacyPort(m, <<"out", "control">>, Out, <<"out">>)>>
                       \o FieldPorts(m, n.cfg.inputs, In, <<"in">>, ip, FALSE)
                       \o FieldPorts(m, n.cfg.outputs, Out, <<"out">>, op, FALSE)
  BY DEF PythonPorts
<1> HIDE DEF a, b, F, G, ip, op
<1>6. AreWhole(h) /\ Elems(h) = {a, b}
  BY <1>2, TwoElems DEF AreWhole
<1> HIDE DEF h
<1>7. AreWhole(m.ports) /\ Elems(m.ports) = {a, b} \cup Elems(F) \cup Elems(G)
  BY <1>3, <1>4, <1>6, WholeJoined
<1>8. LegacyPort(m, <<"in", "control">>, In, <<"in">>) = a
  <2>1. OnlyPort(m, a, <<"in", "control">>, In)
    BY <1>0, <1>1, <1>2, <1>3, <1>7 DEF AreWhole, OnlyPort
  <2> QED
    BY <1>1, <2>1, LegacyPortStays DEF a
<1>9. LegacyPort(m, <<"out", "control">>, Out, <<"out">>) = b
  <2>1. OnlyPort(m, b, <<"out", "control">>, Out)
    BY <1>0, <1>1, <1>2, <1>3, <1>7 DEF AreWhole, OnlyPort
  <2> QED
    BY <1>1, <2>1, LegacyPortStays DEF b
<1>10. FieldPorts(m, n.cfg.inputs, In, <<"in">>, ip, FALSE) = F
  <2>1. AreAmong(F, m, {a, b} \cup Elems(G), In)
    BY <1>0, <1>1, <1>2, <1>3, <1>7 DEF AreWhole, AreAmong
  <2>2. \A l : AreAmong(FieldPorts(n, n.cfg.inputs, In, <<"in">>, ip, l), m, {a, b} \cup Elems(G), In)
               => FieldPorts(m, n.cfg.inputs, In, <<"in">>, ip, l)
                    = FieldPorts(n, n.cfg.inputs, In, <<"in">>, ip, l)
    BY FieldPortsStayAmong
  <2> QED
    BY <2>1, <2>2, Zenon DEF F
<1>11. FieldPorts(m, n.cfg.outputs, Out, <<"out">>, op, FALSE) = G
  <2>1. AreAmong(G, m, {a, b} \cup Elems(F), Out)
    BY <1>0, <1>1, <1>2, <1>3, <1>7 DEF AreWhole, AreAmong
  <2>2. \A l : AreAmong(FieldPorts(n, n.cfg.outputs, Out, <<"out">>, op, l), m, {a, b} \cup Elems(F), Out)
               => FieldPorts(m, n.cfg.outputs, Out, <<"out">>, op, l)
                    = FieldPorts(n, n.cfg.outputs, Out, <<"out">>, op, l)
    BY FieldPortsStayAmong
  <2> QED
    BY <2>1, <2>2, Zenon DEF G
<1> QED
  BY <1>4, <1>5, <1>7, <1>8, <1>9, <1>10, <1>11 DEF h

LEMMA AskStays ==
    ASSUME NEW n, IsList(n.ports), PlainFields(n.cfg.outputs),
           NEW m, m.cfg = n.cfg, m.ports = AskPorts(n)
    PROVE  AreWhole(m.ports) /\ AskPorts(m) = m.ports
<1> DEFINE fields == EachOnce(n.cfg.outputs)
           a == AskPort(n, <<"in", "control">>, In, <<"in">>)
           b == AskPort(n, <<"out", "control">>, Out, <<"out">>)
           d == AskPort(n, <<"out", "timed_out">>, Out, <<"timed_out">>)
           h == <<a, b, d>>
           F == FieldPorts(n, fields, Out, <<"out">>, <<"out">>, TRUE)
<1>0. In # Out
  BY DEF In, Out
<1>1. /\ <<"in", "control">> \in ControlSlot /\ <<"out", "control">> \in ControlSlot
      /\ <<"out", "timed_out">> \in ControlSlot
  BY DEF ControlSlot
<1>2. PlainFields(fields)
  BY EachOnceIsDistinct DEF PlainFields
<1>3. m.ports = h \o F
  BY DEF AskPorts, AskPort
<1>4. AskPorts(m) = <<AskPort(m, <<"in", "control">>, In, <<"in">>),
                      AskPort(m, <<"out", "control">>, Out, <<"out">>),
                      AskPort(m, <<"out", "timed_out">>, Out, <<"timed_out">>)>>
                    \o FieldPorts(m, fields, Out, <<"out">>, <<"out">>, TRUE)
  BY DEF AskPorts, AskPort
<1> HIDE DEF fields
<1>5. /\ Validated(a) = a /\ a.dir = In /\ a.slot \in SlotNames(<<"in", "control">>)
      /\ Validated(b) = b /\ b.dir = Out /\ b.slot \in SlotNames(<<"out", "control">>)
      /\ Validated(d) = d /\ d.dir = Out /\ d.slot \in SlotNames(<<"out", "timed_out">>)
  BY <1>1, ControlPortShape
<1>6. AreWhole(F) /\ \A p \in Elems(F) : p.dir = Out /\ \A s \in ControlSlot : p.slot \notin SlotNames(s)
  BY <1>2, FieldPortsAmong
<1> HIDE DEF a, b, d, F
<1>7. AreWhole(h) /\ Elems(h) = {a, b, d}
  BY <1>5, ThreeElems DEF AreWhole
<1> HIDE DEF h
<1>8. AreWhole(m.ports) /\ Elems(m.ports) = {a, b, d} \cup Elems(F)
  BY <1>3, <1>6, <1>7, WholeJoined
<1>9. AskPort(m, <<"in", "control">>, In, <<"in">>) = a
  <2>1. OnlyPort(m, a, <<"in", "control">>, In)
    BY <1>0, <1>1, <1>5, <1>6, <1>8 DEF AreWhole, OnlyPort
  <2> QED
    BY <1>1, <2>1, AskPortStays DEF a
<1>10. AskPort(m, <<"out", "control">>, Out, <<"out">>) = b
  <2>1. d.slot \notin SlotNames(<<"out", "control">>)
    BY <1>5, ControlSlots
  <2>2. OnlyPort(m, b, <<"out", "control">>, Out)
    BY <1>0, <1>1, <1>5, <1>6, <1>8, <2>1 DEF AreWhole, OnlyPort
  <2> QED
    BY <1>1, <2>2, AskPortStays DEF b
<1>11. AskPort(m, <<"out", "timed_out">>, Out, <<"timed_out">>) = d
  <2>1. b.slot \notin SlotNames(<<"out", "timed_out">>)
    BY <1>5, ControlSlots
  <2>2. OnlyPort(m, d, <<"out", "timed_out">>, Out)
    BY <1>0, <1>1, <1>5, <1>6, <1>8, <2>1 DEF AreWhole, OnlyPort
  <2> QED
    BY <1>1, <2>2, AskPortStays DEF d
<1>12. FieldPorts(m, fields, Out, <<"out">>, <<"out">>, TRUE) = F
  <2>1. AreAmong(F, m, {a, b, d}, Out)
    BY <1>0, <1>1, <1>5, <1>8 DEF AreWhole, AreAmong
  <2>2. \A l : AreAmong(FieldPorts(n, fields, Out, <<"out">>, <<"out">>, l), m, {a, b, d}, Out)
               => FieldPorts(m, fields, Out, <<"out">>, <<"out">>, l)
                    = FieldPorts(n, fields, Out, <<"out">>, <<"out">>, l)
    BY <1>2, FieldPortsStayAmong
  <2> QED
    BY <2>1, <2>2, Zenon DEF F
<1> QED
  BY <1>3, <1>4, <1>8, <1>9, <1>10, <1>11, <1>12 DEF h

\* The ports of the branches of a fork or join, each with a slot of its own.
BranchPort(n, at, pre, dir, k) ==
    Port(IdFor(n, {<<at, "branch", k>>}, dir, <<pre, k>>), dir, "control",
         <<at, "branch", k>>, <<k>>)
BranchList(n, key, at, pre, dir) == [i \in DOMAIN key |-> BranchPort(n, at, pre, dir, key[i])]

IsBranchPort(p, n, at, pre, dir, k) ==
    /\ Validated(p) = p /\ p.dir = dir /\ p.slot = <<at, "branch", k>>
    /\ p.id = IdFor(n, {<<at, "branch", k>>}, dir, <<pre, k>>)

LEMMA BranchPortShape ==
    ASSUME NEW n, NEW at, NEW pre, NEW dir, NEW k
    PROVE  IsBranchPort(BranchPort(n, at, pre, dir, k), n, at, pre, dir, k)
<1> DEFINE p == BranchPort(n, at, pre, dir, k)
<1>1. Validated(p) = p
  BY ValidatedPort DEF BranchPort
<1>2. p.dir = dir /\ p.slot = <<at, "branch", k>> /\ p.id = IdFor(n, {<<at, "branch", k>>}, dir, <<pre, k>>)
  BY DEF BranchPort, Port
<1> QED
  BY <1>1, <1>2 DEF IsBranchPort

\* What they look like.
AreBranches(B, n, key, at, pre, dir) ==
    /\ AreWhole(B) /\ Len(B) = Len(key) /\ DOMAIN B = DOMAIN key
    /\ \A i \in DOMAIN key : B[i] = BranchPort(n, at, pre, dir, key[i]) /\ B[i] \in Elems(B)
    /\ \A p \in Elems(B) : p.dir = dir

LEMMA BranchListShape ==
    ASSUME NEW n, NEW key, IsList(key), NEW at, NEW pre, NEW dir
    PROVE  AreBranches(BranchList(n, key, at, pre, dir), n, key, at, pre, dir)
<1> DEFINE B == BranchList(n, key, at, pre, dir)
<1>1. Len(key) \in Nat /\ DOMAIN key = 1 .. Len(key)
  BY ListsAreIndexed
<1>2. /\ B = [i \in 1 .. Len(key) |-> B[i]] /\ DOMAIN B = DOMAIN key
      /\ \A i \in DOMAIN key : B[i] = BranchPort(n, at, pre, dir, key[i])
  BY <1>1 DEF BranchList
<1> HIDE DEF B
<1>3. IsList(B) /\ Len(B) = Len(key)
  BY <1>1, <1>2, MadeList
<1>4. \A p \in Elems(B) : Validated(p) = p /\ p.dir = dir
  <2> TAKE p \in Elems(B)
  <2>1. PICK i \in DOMAIN key : p = B[i]
    BY <1>2 DEF Elems
  <2>2. p = BranchPort(n, at, pre, dir, key[i])
    BY <1>2, <2>1
  <2>3. IsBranchPort(p, n, at, pre, dir, key[i])
    BY <2>2, BranchPortShape, Zenon
  <2> QED
    BY <2>3 DEF IsBranchPort
<1>5. \A i \in DOMAIN key : B[i] \in Elems(B)
  BY <1>2 DEF Elems
<1>6. AreBranches(B, n, key, at, pre, dir)
  BY <1>2, <1>3, <1>4, <1>5 DEF AreBranches, AreWhole
<1> QED
  BY <1>6 DEF B

\* The ports of p are those of m with the direction dir.
Faces(m, p, dir) ==
    /\ IsList(m.ports) /\ IsList(p) /\ Elems(p) \subseteq Elems(m.ports)
    /\ \A q \in Elems(m.ports) : q.dir = dir => q \in Elems(p)

LEMMA BranchListStays ==
    ASSUME NEW n, NEW key, IsList(key), IsDistinct(key), NEW at, NEW pre, NEW dir,
           NEW m, Faces(m, BranchList(n, key, at, pre, dir), dir)
    PROVE  BranchList(m, key, at, pre, dir) = BranchList(n, key, at, pre, dir)
<1> DEFINE B == BranchList(n, key, at, pre, dir)
           C == BranchList(m, key, at, pre, dir)
<1>1. AreBranches(B, n, key, at, pre, dir) /\ AreBranches(C, m, key, at, pre, dir)
  BY BranchListShape
<1>3. Faces(m, B, dir)
  OBVIOUS
<1> HIDE DEF B, C
<1>2. /\ AreWhole(B) /\ Len(B) = Len(key) /\ DOMAIN B = DOMAIN key
      /\ AreWhole(C) /\ Len(C) = Len(key) /\ DOMAIN C = DOMAIN key
      /\ \A i \in DOMAIN key :
            /\ B[i] = BranchPort(n, at, pre, dir, key[i]) /\ B[i] \in Elems(B)
            /\ C[i] = BranchPort(m, at, pre, dir, key[i])
  BY <1>1 DEF AreBranches
<1>4. ASSUME NEW i \in DOMAIN key PROVE C[i] = B[i]
  <2> DEFINE k == key[i]
  <2>1. PICK j \in DOMAIN m.ports : m.ports[j] = B[i]
    BY <1>2, <1>3 DEF Faces, Elems
  <2>2. B[i].dir = dir /\ B[i].slot = <<at, "branch", k>>
        /\ B[i].id = IdFor(n, {<<at, "branch", k>>}, dir, <<pre, k>>)
    <3>1. B[i] = BranchPort(n, at, pre, dir, k)
      BY <1>2
    <3>2. IsBranchPort(B[i], n, at, pre, dir, k)
      BY <3>1, BranchPortShape, Zenon
    <3> QED
      BY <3>2 DEF IsBranchPort
  <2>3. ASSUME NEW l \in DOMAIN m.ports, m.ports[l].dir = dir,
               m.ports[l].slot \in {<<at, "branch", k>>}
        PROVE  m.ports[l].id = m.ports[j].id
    <3>1. m.ports[l] \in Elems(B)
      BY <1>3, <2>3 DEF Faces, Elems
    <3>2. PICK h \in DOMAIN key : m.ports[l] = B[h]
      BY <1>2, <3>1 DEF Elems
    <3>3. B[h].slot = <<at, "branch", key[h]>>
      <4>1. B[h] = BranchPort(n, at, pre, dir, key[h])
        BY <1>2
      <4>2. IsBranchPort(B[h], n, at, pre, dir, key[h])
        BY <4>1, BranchPortShape, Zenon
      <4> QED
        BY <4>2 DEF IsBranchPort
    <3>4. <<at, "branch", key[h]>> = <<at, "branch", k>>
      BY <2>3, <3>2, <3>3
    <3>5. key[h] = key[i]
      BY <3>4
    <3>6. h = i
      BY <3>5 DEF IsDistinct
    <3> QED
      BY <2>1, <3>2, <3>6
  <2>4. IdFor(m, {<<at, "branch", k>>}, dir, <<pre, k>>) = m.ports[j].id
    <3>1. IsList(m.ports) /\ m.ports[j].dir = dir /\ m.ports[j].slot \in {<<at, "branch", k>>}
      BY <1>3, <2>1, <2>2 DEF Faces
    <3> QED
      BY <2>3, <3>1, IdStays
  <2>5. IdFor(m, {<<at, "branch", k>>}, dir, <<pre, k>>)
          = IdFor(n, {<<at, "branch", k>>}, dir, <<pre, k>>)
    BY <2>1, <2>2, <2>4
  <2>6. BranchPort(m, at, pre, dir, k) = BranchPort(n, at, pre, dir, k)
    BY <2>5, Zenon DEF BranchPort
  <2> QED
    BY <1>2, <2>6
<1>5. B \in Seq(Elems(B) \cup Elems(C)) /\ C \in Seq(Elems(B) \cup Elems(C))
  BY <1>2 DEF AreWhole, IsList
<1>6. DOMAIN key = 1 .. Len(key)
  BY ListsAreIndexed
<1>7. C = B
  BY <1>2, <1>4, <1>5, <1>6, SeqEqual
<1> QED
  BY <1>7 DEF B, C

IsControlPort(p, n, slot, dir, id) ==
    Validated(p) = p /\ p.dir = dir /\ p.slot = slot /\ p.id = IdFor(n, {slot}, dir, id)

LEMMA ControlPortIsWhole ==
    ASSUME NEW n, NEW slot, NEW dir, NEW id
    PROVE  IsControlPort(ControlPort(n, slot, dir, id), n, slot, dir, id)
<1> DEFINE p == ControlPort(n, slot, dir, id)
<1>1. Validated(p) = p
  BY ValidatedPort DEF ControlPort
<1>2. p.dir = dir /\ p.slot = slot /\ p.id = IdFor(n, {slot}, dir, id)
  BY DEF ControlPort, Port
<1> QED
  BY <1>1, <1>2 DEF IsControlPort

LEMMA ControlPortStays ==
    ASSUME NEW n, NEW slot, NEW dir, NEW id, NEW m,
           Faces(m, <<ControlPort(n, slot, dir, id)>>, dir)
    PROVE  ControlPort(m, slot, dir, id) = ControlPort(n, slot, dir, id)
<1> DEFINE p == ControlPort(n, slot, dir, id)
<1>1. p.dir = dir /\ p.slot = slot /\ p.id = IdFor(n, {slot}, dir, id)
  BY ControlPortIsWhole DEF IsControlPort
<1>2. Faces(m, <<p>>, dir)
  OBVIOUS
<1> HIDE DEF p
<1>3. Elems(<<p>>) = {p}
  BY OneElem
<1>4. PICK j \in DOMAIN m.ports : m.ports[j] = p
  BY <1>2, <1>3 DEF Faces, Elems
<1>5. \A l \in DOMAIN m.ports : m.ports[l].dir = dir => m.ports[l] = p
  BY <1>2, <1>3 DEF Faces, Elems
<1>6. IdFor(m, {slot}, dir, id) = p.id
  <2>1. IsList(m.ports) /\ m.ports[j].dir = dir /\ m.ports[j].slot \in {slot}
    BY <1>1, <1>2, <1>4 DEF Faces
  <2> QED
    BY <1>4, <1>5, <2>1, IdStays
<1>7. IdFor(m, {slot}, dir, id) = IdFor(n, {slot}, dir, id)
  BY <1>1, <1>6
<1> QED
  BY <1>7, Zenon DEF ControlPort

LEMMA BranchesStay ==
    ASSUME NEW n, IsList(n.ports), IsList(n.cfg.branches), n.kind \in {"fork", "join"},
           NEW m, m.kind = n.kind, m.cfg.listed = TRUE, m.cfg.branches = Branches(n),
           m.ports = BranchPortsOf(n)
    PROVE  /\ IsList(Branches(n)) /\ Branches(m) = Branches(n)
           /\ AreWhole(m.ports) /\ BranchPortsOf(m) = m.ports
<1> DEFINE key == Branches(n)
<1>1. IsList(key) /\ IsDistinct(key)
  <2>1. IsList(IF n.cfg.listed THEN n.cfg.branches ELSE KeysOf(n.ports, n.kind))
    BY KeysAreListed
  <2> QED
    BY <2>1, EachOnceIsDistinct DEF Branches
<1>2. Branches(m) = key
  <2>1. Branches(m) = EachOnce(key)
    BY DEF Branches
  <2> HIDE DEF key
  <2> QED
    BY <1>1, <2>1, OnceIsEnough
<1>0. In # Out
  BY DEF In, Out
<1>3. CASE n.kind = "join"
  <2> DEFINE B == BranchList(n, key, "in", "in", In)
             c == ControlPort(n, <<"out", "control">>, Out, <<"out">>)
             h == <<c>>
  <2>1. m.ports = B \o h
    BY <1>3 DEF BranchPortsOf, BranchList, BranchPort, BranchDir
  <2>2. BranchPortsOf(m) = BranchList(m, key, "in", "in", In)
                           \o <<ControlPort(m, <<"out", "control">>, Out, <<"out">>)>>
    BY <1>2, <1>3 DEF BranchPortsOf, BranchList, BranchPort, BranchDir
  <2> HIDE DEF key
  <2>10. AreBranches(B, n, key, "in", "in", In)
    BY <1>1, BranchListShape
  <2>11. IsControlPort(c, n, <<"out", "control">>, Out, <<"out">>)
    BY ControlPortIsWhole, Zenon
  <2>4. Validated(c) = c /\ c.dir = Out
    BY <2>11 DEF IsControlPort
  <2> HIDE DEF B, c
  <2>3. AreWhole(B) /\ \A p \in Elems(B) : p.dir = In
    BY <2>10 DEF AreBranches
  <2>5. AreWhole(h) /\ Elems(h) = {c}
    BY <2>4, OneElem DEF AreWhole
  <2> HIDE DEF h
  <2>6. AreWhole(m.ports) /\ Elems(m.ports) = Elems(B) \cup {c}
    BY <2>1, <2>3, <2>5, WholeJoined
  <2>7. Faces(m, B, In) /\ Faces(m, h, Out)
    BY <1>0, <2>3, <2>4, <2>5, <2>6 DEF Faces, AreWhole
  <2>8. BranchList(m, key, "in", "in", In) = B
    BY <1>1, <2>7, BranchListStays DEF B
  <2>9. ControlPort(m, <<"out", "control">>, Out, <<"out">>) = c
    BY <2>7, ControlPortStays DEF h, c
  <2> QED
    BY <1>1, <1>2, <2>1, <2>2, <2>6, <2>8, <2>9 DEF h, key
<1>4. CASE n.kind = "fork"
  <2> DEFINE B == BranchList(n, key, "out", "branch", Out)
             c == ControlPort(n, <<"in", "control">>, In, <<"in">>)
             h == <<c>>
  <2>1. m.ports = h \o B
    BY <1>4 DEF BranchPortsOf, BranchList, BranchPort, BranchDir
  <2>2. BranchPortsOf(m) = <<ControlPort(m, <<"in", "control">>, In, <<"in">>)>>
                           \o BranchList(m, key, "out", "branch", Out)
    BY <1>2, <1>4 DEF BranchPortsOf, BranchList, BranchPort, BranchDir
  <2> HIDE DEF key
  <2>10. AreBranches(B, n, key, "out", "branch", Out)
    BY <1>1, BranchListShape
  <2>11. IsControlPort(c, n, <<"in", "control">>, In, <<"in">>)
    BY ControlPortIsWhole, Zenon
  <2>4. Validated(c) = c /\ c.dir = In
    BY <2>11 DEF IsControlPort
  <2> HIDE DEF B, c
  <2>3. AreWhole(B) /\ \A p \in Elems(B) : p.dir = Out
    BY <2>10 DEF AreBranches
  <2>5. AreWhole(h) /\ Elems(h) = {c}
    BY <2>4, OneElem DEF AreWhole
  <2> HIDE DEF h
  <2>6. AreWhole(m.ports) /\ Elems(m.ports) = Elems(B) \cup {c}
    BY <2>1, <2>3, <2>5, WholeJoined
  <2>7. Faces(m, B, Out) /\ Faces(m, h, In)
    BY <1>0, <2>3, <2>4, <2>5, <2>6 DEF Faces, AreWhole
  <2>8. BranchList(m, key, "out", "branch", Out) = B
    BY <1>1, <2>7, BranchListStays DEF B
  <2>9. ControlPort(m, <<"in", "control">>, In, <<"in">>) = c
    BY <2>7, ControlPortStays DEF h, c
  <2> QED
    BY <1>1, <1>2, <2>1, <2>2, <2>6, <2>8, <2>9 DEF h, key
<1> QED
  BY <1>3, <1>4

LEMMA NoInstances ==
    ASSUME NEW k PROVE ~IsInstance({}, k)
BY DEF IsInstance, Known

LEMMA WholeIsValidated ==
    ASSUME NEW p, AreWhole(p)
    PROVE  [i \in DOMAIN p |-> Validated(p[i])] = p
<1>1. p \in Seq(Elems(p)) /\ \A i \in DOMAIN p : Validated(p[i]) = p[i]
  BY ListsAreIndexed DEF AreWhole, IsList
<1>2. p = [i \in 1 .. Len(p) |-> p[i]] /\ DOMAIN p = 1 .. Len(p)
  BY <1>1
<1> QED
  BY <1>1, <1>2

\* A node of a kind whose ports are made anew, made once more.
LEMMA MadeStays ==
    ASSUME NEW n, PlainNode(n), n.kind \in MadeKinds,
           NEW m, m.kind = n.kind, m.id = n.id,
           m.cfg = SettingsFor(n, {}), m.ports = PortsFor(n, {})
    PROVE  /\ AreWhole(m.ports) /\ PlainSettings(m.cfg)
           /\ SettingsFor(m, {}) = m.cfg /\ PortsFor(m, {}) = m.ports
<1>1. /\ IsList(n.ports) /\ PlainSettings(n.cfg) /\ IsList(n.cfg.branches)
      /\ PlainFields(n.cfg.inputs) /\ PlainFields(n.cfg.outputs)
  BY DEF PlainNode, PlainSettings, PlainFields
<1>2. \A x : ~IsInstance({}, x)
  BY NoInstances
<1>3. CASE n.kind \in {"fork", "join"}
  <2>1. m.cfg = [n.cfg EXCEPT !.branches = Branches(n), !.listed = TRUE]
    BY <1>3 DEF SettingsFor
  <2>2. m.ports = BranchPortsOf(n) /\ PortsFor(m, {}) = BranchPortsOf(m)
    BY <1>3, <1>2 DEF PortsFor
  <2>3. /\ m.cfg.branches = Branches(n) /\ m.cfg.listed = TRUE
        /\ m.cfg.inputs = n.cfg.inputs /\ m.cfg.outputs = n.cfg.outputs
        /\ DOMAIN m.cfg = DOMAIN n.cfg
    BY <1>1, <2>1 DEF PlainSettings
  <2>4. /\ IsList(Branches(n)) /\ Branches(m) = Branches(n)
        /\ AreWhole(m.ports) /\ BranchPortsOf(m) = m.ports
    BY <1>1, <1>3, <2>2, <2>3, BranchesStay
  <2>5. SettingsFor(m, {}) = [m.cfg EXCEPT !.branches = Branches(n), !.listed = TRUE]
    BY <1>3, <2>4 DEF SettingsFor
  <2>6. SettingsFor(m, {}) = m.cfg
    BY <2>1, <2>5
  <2>7. PlainSettings(m.cfg)
    BY <1>1, <2>3, <2>4 DEF PlainSettings
  <2> QED
    BY <2>2, <2>4, <2>6, <2>7
<1>4. CASE n.kind \in {"entry", "exit"}
  <2>1. m.cfg = n.cfg /\ SettingsFor(m, {}) = m.cfg
    BY <1>2, <1>4 DEF SettingsFor
  <2>2. m.ports = BoundaryPorts(n) /\ PortsFor(m, {}) = BoundaryPorts(m)
    BY <1>2, <1>4 DEF PortsFor
  <2> QED
    BY <1>1, <1>4, <2>1, <2>2, BoundaryStays
<1>5. CASE n.kind = "python"
  <2>1. m.cfg = n.cfg /\ SettingsFor(m, {}) = m.cfg
    BY <1>2, <1>5 DEF SettingsFor
  <2>2. m.ports = PythonPorts(n) /\ PortsFor(m, {}) = PythonPorts(m)
    BY <1>2, <1>5 DEF PortsFor
  <2> QED
    BY <1>1, <1>5, <2>1, <2>2, ScriptStays
<1>6. CASE n.kind = "ask"
  <2>1. m.cfg = n.cfg /\ SettingsFor(m, {}) = m.cfg
    BY <1>2, <1>6 DEF SettingsFor
  <2>2. m.ports = AskPorts(n) /\ PortsFor(m, {}) = AskPorts(m)
    BY <1>2, <1>6 DEF PortsFor
  <2> QED
    BY <1>1, <1>6, <2>1, <2>2, AskStays
<1> QED
  BY <1>3, <1>4, <1>5, <1>6 DEF MadeKinds

LEMMA InstanceIsPlain ==
    ASSUME NEW R, PlainResources(R), NEW k, IsInstance(R, k)
    PROVE  k \notin MadeKinds /\ IsList(InstancePorts(ResourceOf(R, k)))
<1> DEFINE r == ResourceOf(R, k)
<1>1. r \in R /\ r.key = k /\ r.graph
  BY DEF IsInstance, Known, ResourceOf
<1>2. k \notin MadeKinds /\ IsList(r.inputs) /\ IsList(r.outputs)
  BY <1>1 DEF PlainResources
<1> HIDE DEF r
<1> DEFINE a == [i \in DOMAIN r.inputs |->
                   Draft(<<"in", r.inputs[i]>>, In, "data", <<"in", r.inputs[i]>>)]
           b == [i \in DOMAIN r.outputs |->
                   Draft(<<"out", r.outputs[i]>>, Out, "data", <<"out", r.outputs[i]>>)]
           h == <<Draft(<<"in">>, In, "control", <<"in", "control">>)>>
           l == <<Draft(<<"out">>, Out, "control", <<"out", "control">>)>>
<1>3. InstancePorts(r) = h \o a \o l \o b
  BY DEF InstancePorts
<1>4. /\ Len(r.inputs) \in Nat /\ DOMAIN r.inputs = 1 .. Len(r.inputs)
      /\ Len(r.outputs) \in Nat /\ DOMAIN r.outputs = 1 .. Len(r.outputs)
  BY <1>2, ListsAreIndexed
<1>5. /\ a = [i \in 1 .. Len(r.inputs) |-> a[i]] /\ b = [i \in 1 .. Len(r.outputs) |-> b[i]]
  BY <1>4
<1>6. IsList(h) /\ IsList(l)
  BY OneElem
<1> HIDE DEF a, b, h, l
<1>7. IsList(a) /\ IsList(b)
  BY <1>4, <1>5, MadeList
<1>8. IsList(h \o a \o l \o b)
  BY <1>6, <1>7, ListsJoin
<1> QED
  BY <1>2, <1>3, <1>8 DEF r

LEMMA CalledIsPlain ==
    ASSUME NEW R, NEW n, PlainNode(n)
    PROVE  PlainNode(Called(n, R)) /\ Called(n, {}) = n
<1>1. Called(n, {}) = n
  BY NoInstances DEF Called
<1>2. PlainNode(Called(n, R))
  BY DEF Called, PlainNode
<1> QED
  BY <1>1, <1>2

LEMMA RenewedFields ==
    ASSUME NEW R, NEW n, PlainNode(n)
    PROVE  LET m == Renewed(n, R)
               c == Called(n, R)
               p == PortsFor(c, R)
           IN  /\ m.kind = c.kind /\ m.id = c.id /\ DOMAIN m = DOMAIN c
               /\ m.cfg = SettingsFor(c, R) /\ m.ports = [i \in DOMAIN p |-> Validated(p[i])]
<1> DEFINE c == Called(n, R)
           s == SettingsFor(c, R)
           p == PortsFor(c, R)
           q == [i \in DOMAIN p |-> Validated(p[i])]
           m == [c EXCEPT !.cfg = s, !.ports = q]
<1>1. Renewed(n, R) = m
  BY DEF Renewed
<1>2. PlainNode(c)
  BY CalledIsPlain
<1> HIDE DEF c, s, q
<1>3. m.kind = c.kind /\ m.id = c.id /\ DOMAIN m = DOMAIN c /\ m.cfg = s /\ m.ports = q
  BY <1>2 DEF PlainNode
<1> HIDE DEF m
<1> QED
  BY <1>1, <1>3 DEF c, s, q

\* A node that nothing but the resources could change.
NodeRests(n) == PlainNode(n) /\ ~Changed(n, {})

LEMMA RenewedRests ==
    ASSUME NEW R, PlainResources(R), NEW n, PlainNode(n)
    PROVE  NodeRests(Renewed(n, R))
<1> DEFINE m == Renewed(n, R)
           c == Called(n, R)
           p == PortsFor(c, R)
           q == [i \in DOMAIN p |-> Validated(p[i])]
<1>1. /\ m.kind = c.kind /\ m.id = c.id /\ DOMAIN m = DOMAIN c
      /\ m.cfg = SettingsFor(c, R) /\ m.ports = q
  BY RenewedFields
<1>2. PlainNode(c)
  BY CalledIsPlain
<1>3. \A x : ~IsInstance({}, x)
  BY NoInstances
<1> HIDE DEF m, c
<1>4. SUFFICES /\ IsList(m.ports) /\ PlainSettings(m.cfg)
               /\ SettingsFor(m, {}) = m.cfg /\ PortsFor(m, {}) = m.ports
  <2>1. Called(m, {}) = m
    BY <1>3 DEF Called
  <2>2. ~Changed(m, {})
    BY <1>4, <2>1 DEF Changed
  <2>3. PlainNode(m)
    BY <1>1, <1>2, <1>4 DEF PlainNode
  <2> QED
    BY <2>2, <2>3 DEF NodeRests, m
<1>5. CASE c.kind \in MadeKinds
  <2>1. ~IsInstance(R, c.kind)
    BY <1>5, InstanceIsPlain
  <2>2. SettingsFor(c, R) = SettingsFor(c, {}) /\ p = PortsFor(c, {})
    BY <1>3, <1>5, <2>1 DEF SettingsFor, PortsFor, MadeKinds
  <2> DEFINE w == [kind |-> c.kind, id |-> c.id, cfg |-> SettingsFor(c, {}), ports |-> p]
  <2>3. w.kind = c.kind /\ w.id = c.id /\ w.cfg = SettingsFor(c, {}) /\ w.ports = p
    OBVIOUS
  <2> HIDE DEF p, w
  <2>4. AreWhole(p)
    BY <1>2, <1>5, <2>2, <2>3, MadeStays
  <2>5. m.ports = p
    BY <1>1, <2>4, WholeIsValidated
  <2>6. /\ AreWhole(m.ports) /\ PlainSettings(m.cfg)
        /\ SettingsFor(m, {}) = m.cfg /\ PortsFor(m, {}) = m.ports
    BY <1>1, <1>2, <1>5, <2>2, <2>5, MadeStays
  <2> QED
    BY <2>6 DEF AreWhole
<1>6. CASE c.kind \notin MadeKinds
  <2>1. SettingsFor(m, {}) = m.cfg /\ PortsFor(m, {}) = m.ports
    BY <1>1, <1>3, <1>6 DEF SettingsFor, PortsFor, MadeKinds
  <2>2. PlainSettings(SettingsFor(c, R))
    <3>1. CASE IsInstance(R, c.kind)
      <4> DEFINE r == ResourceOf(R, c.kind)
                 s == [c.cfg EXCEPT !.given = @ \cup Elems(r.inputs), !.taken = @ \cup Elems(r.outputs)]
      <4>1. SettingsFor(c, R) = s
        BY <1>6, <3>1 DEF SettingsFor, MadeKinds
      <4>2. PlainSettings(c.cfg)
        BY <1>2 DEF PlainNode
      <4>3. PlainSettings(s)
        BY <4>2 DEF PlainSettings
      <4> QED
        BY <4>1, <4>3
    <3>2. CASE ~IsInstance(R, c.kind)
      BY <1>2, <1>6, <3>2 DEF SettingsFor, PlainNode, MadeKinds
    <3> QED
      BY <3>1, <3>2
  <2>3. IsList(p)
    <3>1. CASE IsInstance(R, c.kind)
      <4>1. p = InstancePorts(ResourceOf(R, c.kind))
        BY <1>6, <3>1 DEF PortsFor, MadeKinds
      <4> QED
        BY <3>1, <4>1, InstanceIsPlain
    <3>2. CASE ~IsInstance(R, c.kind)
      <4>1. p = c.ports
        BY <1>6, <3>2 DEF PortsFor, MadeKinds
      <4> QED
        BY <1>2, <4>1 DEF PlainNode
    <3> QED
      BY <3>1, <3>2
  <2> HIDE DEF p
  <2>4. Len(p) \in Nat /\ DOMAIN p = 1 .. Len(p)
    BY <2>3, ListsAreIndexed
  <2>5. q = [i \in 1 .. Len(p) |-> q[i]]
    BY <2>4
  <2> HIDE DEF q
  <2>6. IsList(q)
    BY <2>4, <2>5, MadeList
  <2> QED
    BY <1>1, <2>1, <2>2, <2>6
<1> QED
  BY <1>5, <1>6

LEMMA NormalisedRests ==
    ASSUME NEW R, PlainResources(R), NEW g, PlainGraph(g)
    PROVE  PlainGraph(Normalised(g, R)) /\ Settled(Normalised(g, R))
<1>1. /\ "nodes" \in DOMAIN g /\ IsList(g.nodes) /\ Len(g.nodes) \in Nat
      /\ DOMAIN g.nodes = 1 .. Len(g.nodes)
      /\ \A i \in DOMAIN g.nodes : PlainNode(g.nodes[i])
  BY ListsAreIndexed DEF PlainGraph
<1>2. CASE NeedsRenewal(g, R)
  <2> DEFINE w == [i \in DOMAIN g.nodes |-> Renewed(g.nodes[i], R)]
             h == [g EXCEPT !.nodes = w]
  <2>1. \A i \in DOMAIN g.nodes : NodeRests(Renewed(g.nodes[i], R))
    BY <1>1, RenewedRests
  <2>2. /\ w = [i \in 1 .. Len(g.nodes) |-> w[i]] /\ DOMAIN w = DOMAIN g.nodes
        /\ \A i \in DOMAIN w : NodeRests(w[i])
    BY <1>1, <2>1
  <2>3. Normalised(g, R) = h
    BY <1>2 DEF Normalised
  <2> HIDE DEF w
  <2>4. "nodes" \in DOMAIN h /\ h.nodes = w
    BY <1>1
  <2> HIDE DEF h
  <2>5. IsList(w)
    BY <1>1, <2>2, MadeList
  <2>6. \A x \in Elems(w) : PlainNode(x)
    BY <2>2 DEF Elems, NodeRests
  <2>7. PlainGraph(h) /\ Settled(h)
    BY <2>2, <2>4, <2>5, <2>6 DEF PlainGraph, Settled, NeedsRenewal, NodeRests
  <2> QED
    BY <2>3, <2>7
<1>3. CASE ~NeedsRenewal(g, R)
  <2>1. Normalised(g, R) = g
    BY <1>3 DEF Normalised
  <2>2. ASSUME NEW i \in DOMAIN g.nodes PROVE ~Changed(g.nodes[i], {})
    <3> DEFINE n == g.nodes[i]
    <3>1. ~Changed(n, R)
      BY <1>3 DEF NeedsRenewal
    <3>2. Called(n, R) = n /\ SettingsFor(n, R) = n.cfg /\ PortsFor(n, R) = n.ports
      BY <3>1 DEF Changed
    <3>3. Called(n, {}) = n
      BY <1>1, CalledIsPlain
    <3> HIDE DEF n
    <3>4. SettingsFor(n, {}) = n.cfg /\ PortsFor(n, {}) = n.ports
      <4>1. \A x : ~IsInstance({}, x)
        BY NoInstances
      <4>2. CASE IsInstance(R, n.kind)
        <5>1. n.kind \notin MadeKinds
          BY <4>2, InstanceIsPlain
        <5> QED
          BY <4>1, <5>1 DEF SettingsFor, PortsFor, MadeKinds
      <4>3. CASE ~IsInstance(R, n.kind)
        BY <3>2, <4>1, <4>3 DEF SettingsFor, PortsFor
      <4> QED
        BY <4>2, <4>3
    <3>5. ~Changed(n, {})
      BY <3>3, <3>4 DEF Changed
    <3> QED
      BY <3>5 DEF n
  <2> QED
    BY <2>1, <2>2 DEF Settled, NeedsRenewal
<1> QED
  BY <1>2, <1>3

\* Reading has nothing to save unless the resources bring something new.
LEMMA RestsUnlessCalled ==
    ASSUME NEW R, NEW g, PlainGraph(g), Settled(g), ~HasInstance(g, R)
    PROVE  ~NeedsRenewal(g, R)
<1> SUFFICES ASSUME NEW i \in DOMAIN g.nodes PROVE ~Changed(g.nodes[i], R)
  BY DEF NeedsRenewal
<1> DEFINE n == g.nodes[i]
<1>1. PlainNode(n) /\ ~Changed(n, {}) /\ ~IsInstance(R, Called(n, R).kind)
  BY ListsAreIndexed DEF PlainGraph, Settled, NeedsRenewal, HasInstance
<1> HIDE DEF n
<1>2. Called(n, {}) = n
  BY <1>1, CalledIsPlain
<1>3. Called(n, R) = n
  <2>1. CASE n.kind = "call" /\ IsInstance(R, n.cfg.target)
    <3>1. Called(n, R) = [n EXCEPT !.kind = n.cfg.target] /\ "kind" \in DOMAIN n
      BY <1>1, <2>1 DEF Called, PlainNode
    <3>2. Called(n, R).kind = n.cfg.target
      BY <3>1
    <3> QED
      BY <1>1, <2>1, <3>2
  <2>2. CASE ~(n.kind = "call" /\ IsInstance(R, n.cfg.target))
    BY <2>2 DEF Called
  <2> QED
    BY <2>1, <2>2
<1>4. SettingsFor(n, {}) = n.cfg /\ PortsFor(n, {}) = n.ports
  BY <1>1, <1>2 DEF Changed
<1>5. ~IsInstance(R, n.kind) /\ ~IsInstance({}, n.kind)
  BY <1>1, <1>3, NoInstances
<1>6. SettingsFor(n, R) = n.cfg /\ PortsFor(n, R) = n.ports
  BY <1>4, <1>5 DEF SettingsFor, PortsFor
<1>7. ~Changed(n, R)
  BY <1>3, <1>6 DEF Changed
<1> QED
  BY <1>7 DEF n

-----------------------------------------------------------------------------
(* GraphRules: a patch makes a plain graph of a plain graph.               *)

PatchNames == {"node.add", "node.update", "node.remove", "edge.add", "edge.remove"}
PlainOperation(op) ==
    /\ op.op \in PatchNames
    /\ op.op = "node.add" => PlainNode(op.node)
    /\ op.op = "node.update" => PlainSettings(op.cfg)

LEMMA PlainWithNodes ==
    ASSUME NEW g, PlainGraph(g), NEW w, IsList(w), \A n \in Elems(w) : PlainNode(n)
    PROVE  PlainGraph([g EXCEPT !.nodes = w])
<1> DEFINE h == [g EXCEPT !.nodes = w]
<1>1. "nodes" \in DOMAIN h /\ h.nodes = w
  BY DEF PlainGraph
<1> HIDE DEF h
<1>2. PlainGraph(h)
  BY <1>1 DEF PlainGraph
<1> QED
  BY <1>2 DEF h

LEMMA PlainWithEdges ==
    ASSUME NEW g, PlainGraph(g), NEW w
    PROVE  PlainGraph([g EXCEPT !.edges = w])
<1> DEFINE h == [g EXCEPT !.edges = w]
<1>1. "nodes" \in DOMAIN h /\ h.nodes = g.nodes
  BY DEF PlainGraph
<1> HIDE DEF h
<1>2. PlainGraph(h)
  BY <1>1 DEF PlainGraph
<1> QED
  BY <1>2 DEF h

LEMMA PatchStepIsPlain ==
    ASSUME NEW R, NEW g, PlainGraph(g), NEW op, PlainOperation(op)
    PROVE  PatchStep(g, op, R) = Rejected \/ PlainGraph(PatchStep(g, op, R))
<1>1. IsList(g.nodes) /\ g.nodes \in Seq(Elems(g.nodes)) /\ \A n \in Elems(g.nodes) : PlainNode(n)
  BY DEF PlainGraph, IsList
<1>2. CASE op.op = "node.add"
  <2> DEFINE w == Append(g.nodes, op.node)
  <2>1. PatchStep(g, op, R) \in {Rejected, [g EXCEPT !.nodes = w]}
    BY <1>2 DEF PatchStep
  <2>2. w = g.nodes \o <<op.node>>
    BY <1>1
  <2>3. IsList(w) /\ Elems(w) = Elems(g.nodes) \cup {op.node}
    BY <1>1, <2>2, OneElem, ElemsOfBoth, ListsJoin
  <2>4. PlainNode(op.node)
    BY <1>2 DEF PlainOperation
  <2> HIDE DEF w
  <2>5. PlainGraph([g EXCEPT !.nodes = w])
    BY <1>1, <2>3, <2>4, PlainWithNodes
  <2> QED
    BY <2>1, <2>5
<1>3. CASE op.op = "node.update"
  <2> DEFINE new(n) == IF n.id = op.id THEN [n EXCEPT !.cfg = op.cfg] ELSE n
             w == [i \in DOMAIN g.nodes |-> new(g.nodes[i])]
  <2>1. PatchStep(g, op, R) \in {Rejected, [g EXCEPT !.nodes = w]}
    BY <1>3 DEF PatchStep
  <2>2. ASSUME NEW n, PlainNode(n) PROVE PlainNode(new(n))
    <3>1. PlainSettings(op.cfg)
      BY <1>3 DEF PlainOperation
    <3> DEFINE m == [n EXCEPT !.cfg = op.cfg]
    <3>2. DOMAIN m = DOMAIN n /\ m.cfg = op.cfg /\ m.ports = n.ports
      BY <2>2 DEF PlainNode
    <3> HIDE DEF m
    <3>3. PlainNode(m)
      BY <2>2, <3>1, <3>2 DEF PlainNode
    <3> QED
      BY <2>2, <3>3 DEF m
  <2>3. Len(g.nodes) \in Nat /\ DOMAIN g.nodes = 1 .. Len(g.nodes)
    BY <1>1
  <2>4. /\ w = [i \in 1 .. Len(g.nodes) |-> w[i]] /\ DOMAIN w = DOMAIN g.nodes
        /\ \A i \in DOMAIN w : PlainNode(w[i])
    BY <1>1, <2>2, <2>3 DEF Elems
  <2> HIDE DEF w
  <2>5. IsList(w) /\ \A n \in Elems(w) : PlainNode(n)
    BY <2>3, <2>4, MadeList DEF Elems
  <2> QED
    BY <2>1, <2>5, PlainWithNodes
<1>4. CASE op.op = "node.remove"
  <2> DEFINE K == {n \in Elems(g.nodes) : n.id # op.id}
             w == Kept(g.nodes, K)
  <2>1. PatchStep(g, op, R) \in {Rejected, [g EXCEPT !.nodes = w]}
    BY <1>4 DEF PatchStep
  <2>2. w \in Seq(Elems(g.nodes))
    BY <1>1, KeptElements
  <2> HIDE DEF w
  <2>3. IsList(w) /\ Elems(w) \subseteq Elems(g.nodes)
    BY <2>2, SequencesAreLists DEF Elems
  <2> QED
    BY <1>1, <2>1, <2>3, PlainWithNodes
<1>5. CASE op.op \in {"edge.add", "edge.remove"}
  <2>1. \/ PatchStep(g, op, R) = Rejected
        \/ \E w : PatchStep(g, op, R) = [g EXCEPT !.edges = w]
    BY <1>5 DEF PatchStep
  <2> QED
    BY <2>1, PlainWithEdges
<1> QED
  BY <1>2, <1>3, <1>4, <1>5 DEF PlainOperation, PatchNames

\* f is the graph after each of the first n operations.
Applies(f, g, ops, R, n) ==
    /\ f = [i \in 0 .. n |-> f[i]] /\ f[0] = g
    /\ \A i \in 1 .. n :
          f[i] = IF f[i - 1] = Rejected THEN Rejected ELSE PatchStep(f[i - 1], ops[i], R)

LEMMA ApplierExists ==
    ASSUME NEW g, NEW ops, NEW R, NEW n \in Nat
    PROVE  \E f : Applies(f, g, ops, R, n)
<1> DEFINE T == {m \in Nat : \E f : Applies(f, g, ops, R, m)}
<1>1. 0 \in T
  <2>1. Applies([i \in 0 .. 0 |-> g], g, ops, R, 0)
    BY DEF Applies
  <2> QED
    BY <2>1
<1>2. ASSUME NEW m \in Nat, m \in T PROVE m + 1 \in T
  <2>1. PICK f : Applies(f, g, ops, R, m)
    BY <1>2
  <2> DEFINE h == [i \in 0 .. m + 1 |->
                     IF i <= m THEN f[i]
                     ELSE IF f[i - 1] = Rejected THEN Rejected ELSE PatchStep(f[i - 1], ops[i], R)]
  <2>2. h = [i \in 0 .. m + 1 |-> h[i]] /\ h[0] = g
    BY <2>1 DEF Applies
  <2>3. ASSUME NEW i \in 1 .. m + 1
        PROVE  h[i] = IF h[i - 1] = Rejected THEN Rejected ELSE PatchStep(h[i - 1], ops[i], R)
    <3>1. i - 1 \in 0 .. m /\ i - 1 <= m /\ h[i - 1] = f[i - 1]
      OBVIOUS
    <3>2. CASE i <= m
      <4>1. i \in 1 .. m /\ h[i] = f[i]
        BY <3>2
      <4> QED
        BY <2>1, <3>1, <4>1 DEF Applies
    <3>3. CASE i = m + 1
      BY <3>1, <3>3
    <3> QED
      BY <3>2, <3>3
  <2> HIDE DEF h
  <2>4. Applies(h, g, ops, R, m + 1)
    BY <2>2, <2>3 DEF Applies
  <2> QED
    BY <2>4
<1>3. T = Nat
  <2> HIDE DEF T
  <2>1. T \subseteq Nat
    BY DEF T
  <2> QED
    BY <1>1, <1>2, <2>1, Induction
<1> QED
  BY <1>3

LEMMA PatchedIsApplied ==
    ASSUME NEW g, NEW ops, IsList(ops), NEW R
    PROVE  \E f : Applies(f, g, ops, R, Len(ops)) /\ Patched(g, ops, R) = f[Len(ops)]
<1> DEFINE n == Len(ops)
           Grow(f) == [i \in 0 .. n |->
                 IF i = 0 THEN g
                 ELSE IF f[i - 1] = Rejected THEN Rejected ELSE PatchStep(f[i - 1], ops[i], R)]
           applier == CHOOSE f : f = Grow(f)
<1>0. n \in Nat
  BY ListsAreIndexed
<1>1. PICK h : Applies(h, g, ops, R, n)
  BY <1>0, ApplierExists
<1>2. h = Grow(h)
  <2>1. ASSUME NEW i \in 0 .. n
        PROVE  h[i] = IF i = 0 THEN g
                      ELSE IF h[i - 1] = Rejected THEN Rejected ELSE PatchStep(h[i - 1], ops[i], R)
    <3>1. i = 0 \/ i \in 1 .. n
      BY <1>0
    <3> QED
      BY <1>1, <3>1 DEF Applies
  <2>2. h = [i \in 0 .. n |-> h[i]]
    BY <1>1 DEF Applies
  <2> QED
    BY <2>1, <2>2
<1>3. applier = Grow(applier)
  BY <1>2
<1>4. Applies(applier, g, ops, R, n)
  <2> HIDE DEF applier, n
  <2>1. applier = [i \in 0 .. n |-> applier[i]] /\ applier[0] = g
    BY <1>0, <1>3
  <2>2. ASSUME NEW i \in 1 .. n
        PROVE  applier[i] = IF applier[i - 1] = Rejected THEN Rejected
                            ELSE PatchStep(applier[i - 1], ops[i], R)
    <3>1. i \in 0 .. n /\ i # 0
      BY <1>0
    <3> QED
      BY <1>3, <3>1
  <2> QED
    BY <2>1, <2>2 DEF Applies
<1>5. Patched(g, ops, R) = applier[n]
  BY DEF Patched
<1> QED
  BY <1>4, <1>5

LEMMA PatchedIsPlain ==
    ASSUME NEW g, PlainGraph(g), NEW ops, PlainPatch(ops), NEW R
    PROVE  Patched(g, ops, R) = Rejected \/ PlainGraph(Patched(g, ops, R))
<1>1. IsList(ops) /\ Len(ops) \in Nat /\ \A i \in 1 .. Len(ops) : PlainOperation(ops[i])
  BY ListsAreIndexed DEF PlainPatch, PlainOperation, PatchNames
<1>2. PICK f : Applies(f, g, ops, R, Len(ops)) /\ Patched(g, ops, R) = f[Len(ops)]
  BY <1>1, PatchedIsApplied
<1> DEFINE Good(x) == x = Rejected \/ PlainGraph(x)
           T == {m \in Nat : m <= Len(ops) => Good(f[m])}
<1>3. 0 \in T
  BY <1>2 DEF Applies
<1>4. ASSUME NEW m \in Nat, m \in T PROVE m + 1 \in T
  <2> SUFFICES ASSUME m + 1 <= Len(ops) PROVE Good(f[m + 1])
    OBVIOUS
  <2>1. m + 1 \in 1 .. Len(ops) /\ m + 1 - 1 = m /\ Good(f[m])
    BY <1>1, <1>4
  <2>2. f[m + 1] = IF f[m] = Rejected THEN Rejected ELSE PatchStep(f[m], ops[m + 1], R)
    <3>1. \A i \in 1 .. Len(ops) :
            f[i] = IF f[i - 1] = Rejected THEN Rejected ELSE PatchStep(f[i - 1], ops[i], R)
      BY <1>2, Zenon DEF Applies
    <3> HIDE DEF T, Good
    <3> QED
      BY <2>1, <3>1
  <2>3. PlainOperation(ops[m + 1])
    BY <1>1, <2>1
  <2> QED
    BY <2>1, <2>2, <2>3, PatchStepIsPlain
<1>5. T = Nat
  <2> HIDE DEF T
  <2>1. T \subseteq Nat
    BY DEF T
  <2> QED
    BY <1>3, <1>4, <2>1, Induction
<1> QED
  BY <1>1, <1>2, <1>5

-----------------------------------------------------------------------------
(* A request that only reads saves nothing. The saved graph, the copy in   *)
(* memory and those about to be assigned are always at rest: only the      *)
(* resources could give them something new.                                *)

StateRests(S) == PlainGraph(S.graph) /\ Settled(S.graph) /\ PlainResources(S.res)

\* Only a request that saves has a document to persist, and normalises it first.
Late(ask, s) ==
    \A k \in DOMAIN s : s[k] = "persist" => ask \notin ReadOnly /\ k > 1 /\ s[k - 1] = "normalise"
IsReady(t) ==
    /\ PlainGraph(t.doc) /\ PlainPatch(t.ops)
    /\ \/ Late(t.ask, t.todo)
       \/ /\ Head(t.todo) = "persist" /\ t.ask \notin ReadOnly /\ Settled(t.doc)
          /\ Late(t.ask, Tail(t.todo))
ThreadRests(t) ==
    /\ t.todo # <<>> => IsReady(t)
    /\ t.copy # <<>> => \E S : t.copy = <<S>> /\ StateRests(S)
GraphRests ==
    StateRests(gStore) /\ StateRests(gMem) /\ \A c \in Clients : ThreadRests(thread[c])

LEMMA LateTail ==
    ASSUME NEW ask, NEW s \in Seq(AllSteps), s # <<>>, Late(ask, s)
    PROVE  /\ Head(s) # "persist"
           /\ Head(s) # "normalise" => Late(ask, Tail(s))
           /\ \/ Late(ask, Tail(s))
              \/ /\ Head(Tail(s)) = "persist" /\ ask \notin ReadOnly /\ Late(ask, Tail(Tail(s)))
<1> DEFINE u == Tail(s)
           v == Tail(u)
<1>1. /\ Len(s) \in Nat /\ Len(s) >= 1 /\ DOMAIN s = 1 .. Len(s) /\ Head(s) = s[1]
      /\ u \in Seq(AllSteps) /\ Len(u) = Len(s) - 1 /\ DOMAIN u = 1 .. Len(u)
      /\ \A k \in 1 .. Len(u) : u[k] = s[k + 1]
  OBVIOUS
<1> HIDE DEF u
<1>2. ASSUME NEW k \in 1 .. Len(u), u[k] = "persist"
      PROVE  ask \notin ReadOnly /\ (IF k = 1 THEN Head(s) = "normalise" ELSE u[k - 1] = "normalise")
  <2>1. k + 1 \in DOMAIN s /\ s[k + 1] = "persist" /\ k + 1 - 1 = k
    BY <1>1, <1>2
  <2>2. ask \notin ReadOnly /\ s[k] = "normalise"
    BY <2>1 DEF Late
  <2>3. CASE k = 1
    BY <1>1, <2>2, <2>3
  <2>4. CASE k # 1
    <3>1. k - 1 \in 1 .. Len(u) /\ k - 1 + 1 = k
      BY <1>1, <2>4
    <3> QED
      BY <1>1, <2>2, <2>4, <3>1
  <2> QED
    BY <2>3, <2>4
<1>3. Head(s) # "persist"
  <2>1. 1 \in DOMAIN s /\ ~(1 > 1)
    BY <1>1
  <2> QED
    BY <1>1, <2>1 DEF Late
<1>4. CASE Len(u) = 0 \/ u[1] # "persist"
  <2>1. Late(ask, u)
    BY <1>1, <1>2, <1>4 DEF Late
  <2> QED
    BY <1>3, <2>1 DEF u
<1>5. CASE Len(u) # 0 /\ u[1] = "persist"
  <2>0. u \in Seq(AllSteps) /\ Len(u) \in Nat /\ Len(u) # 0 /\ u # <<>>
    BY <1>1, <1>5
  <2>1. /\ Head(u) = "persist" /\ v \in Seq(AllSteps) /\ Len(v) = Len(u) - 1
        /\ DOMAIN v = 1 .. Len(v) /\ \A k \in 1 .. Len(v) : v[k] = u[k + 1]
    BY <1>5, <2>0
  <2>2. ask \notin ReadOnly /\ Head(s) = "normalise"
    BY <1>1, <1>2, <1>5
  <2> HIDE DEF v
  <2>3. ASSUME NEW k \in 1 .. Len(v), v[k] = "persist"
        PROVE  k > 1 /\ v[k - 1] = "normalise"
    <3>1. k + 1 \in 1 .. Len(u) /\ u[k + 1] = "persist" /\ k + 1 # 1 /\ k + 1 - 1 = k
      BY <1>1, <2>1, <2>3
    <3>2. u[k] = "normalise"
      BY <1>2, <3>1
    <3>3. k # 1
      BY <1>5, <3>2
    <3>4. k - 1 \in 1 .. Len(v) /\ k - 1 + 1 = k
      BY <1>1, <2>1, <3>3
    <3> QED
      BY <2>1, <3>2, <3>3, <3>4
  <2>4. Late(ask, v)
    BY <2>1, <2>2, <2>3 DEF Late
  <2> QED
    BY <1>3, <2>1, <2>2, <2>4 DEF u, v
<1> QED
  BY <1>1, <1>4, <1>5

LEMMA LateBoth ==
    ASSUME NEW ask, NEW s \in Seq(AllSteps), NEW t \in Seq(AllSteps), Late(ask, s), Late(ask, t)
    PROVE  s \o t \in Seq(AllSteps) /\ Late(ask, s \o t)
<1> DEFINE u == s \o t
<1>1. /\ u \in Seq(AllSteps) /\ Len(s) \in Nat /\ Len(t) \in Nat /\ Len(u) = Len(s) + Len(t)
      /\ DOMAIN u = 1 .. Len(u) /\ DOMAIN s = 1 .. Len(s) /\ DOMAIN t = 1 .. Len(t)
      /\ \A k \in 1 .. Len(u) : u[k] = IF k <= Len(s) THEN s[k] ELSE t[k - Len(s)]
  OBVIOUS
<1> HIDE DEF u
<1>2. ASSUME NEW k \in 1 .. Len(u), u[k] = "persist"
      PROVE  ask \notin ReadOnly /\ k > 1 /\ u[k - 1] = "normalise"
  <2>1. CASE k <= Len(s)
    <3>1. k \in DOMAIN s /\ s[k] = "persist"
      BY <1>1, <1>2, <2>1
    <3>2. ask \notin ReadOnly /\ k > 1 /\ s[k - 1] = "normalise"
      BY <3>1 DEF Late
    <3>3. k - 1 \in 1 .. Len(u) /\ k - 1 <= Len(s)
      BY <1>1, <2>1, <3>2
    <3> QED
      BY <1>1, <3>2, <3>3
  <2>2. CASE k > Len(s)
    <3> DEFINE j == k - Len(s)
    <3>1. j \in DOMAIN t /\ t[j] = "persist"
      BY <1>1, <1>2, <2>2
    <3>2. ask \notin ReadOnly /\ j > 1 /\ t[j - 1] = "normalise"
      BY <3>1 DEF Late
    <3>3. k - 1 \in 1 .. Len(u) /\ ~(k - 1 <= Len(s)) /\ k - 1 - Len(s) = j - 1 /\ k > 1
      BY <1>1, <2>2, <3>2
    <3> QED
      BY <1>1, <3>2, <3>3
  <2> QED
    BY <1>1, <2>1, <2>2
<1>3. Late(ask, u)
  BY <1>1, <1>2 DEF Late
<1> QED
  BY <1>1, <1>3 DEF u

LEMMA LateWithout ==
    ASSUME NEW ask, NEW s \in Seq(AllSteps \ {"persist"})
    PROVE  s \in Seq(AllSteps) /\ Late(ask, s)
BY DEF Late

LEMMA ProgramsAreLate ==
    ASSUME NEW ask \in GraphAsks
    PROVE  Program(ask) \in Seq(AllSteps) /\ Late(ask, Program(ask))
<1> DEFINE T == Seq(AllSteps \ {"persist"})
           G == {s \in Seq(AllSteps) : Late(ask, s)}
<1>1. /\ Revalidate \in T /\ View \in T
      /\ <<"read", "read", "note">> \in T /\ <<"check", "read", "patch">> \in T
      /\ <<"check", "read", "patch", "refresh">> \in T
      /\ <<"read", "note", "judge", "reserve", "remember">> \in T
      /\ <<"note", "judge", "reserve", "remember">> \in T
      /\ <<"judge", "reserve", "remember">> \in T
      /\ <<"read", "judge", "plan">> \in T /\ <<"normalise", "judge", "plan">> \in T
      /\ <<"toggle">> \in T /\ <<"redraw">> \in T
  BY DEF Revalidate, View, AllSteps, OtherSteps
<1>2. \A s \in T : s \in G
  BY LateWithout
<1>3. ask \notin ReadOnly => Saving \in G
  <2>1. /\ Saving \in Seq(AllSteps) /\ DOMAIN Saving = {1, 2}
        /\ Saving[1] = "normalise" /\ Saving[2] = "persist"
    BY DEF Saving, AllSteps, OtherSteps
  <2>2. ask \notin ReadOnly => Late(ask, Saving)
    BY <2>1 DEF Late
  <2> QED
    BY <2>1, <2>2
<1>4. \A p \in G, q \in G : p \o q \in G
  BY LateBoth
<1> HIDE DEF T, G
<1>5. Program(ask) \in G
  BY <1>1, <1>2, <1>3, <1>4 DEF Program, GraphAsks, ReadOnly
<1> QED
  BY <1>5 DEF G

LEMMA GoRests ==
    ASSUME ThreadsAreSound, GraphRests, NEW c \in Clients, NEW t, Go(c, t), ThreadRests(t)
    PROVE  \A d \in Clients : ThreadRests(thread'[d])
<1> DEFINE u == IF t.todo = <<>>
                THEN [Idling(t.answer, t.due, t.lone) EXCEPT !.plan = t.plan, !.ask = t.ask]
                ELSE t
<1>1. thread' = [thread EXCEPT ![c] = u]
  BY DEF Go
<1>2. ThreadRests(u)
  <2>1. CASE t.todo = <<>>
    <3>1. u.todo = <<>> /\ u.copy = <<>>
      BY <2>1 DEF Idling
    <3> HIDE DEF u
    <3> QED
      BY <3>1 DEF ThreadRests
  <2> QED
    BY <2>1
<1> HIDE DEF u
<1>3. \A d \in Clients : thread'[d] = IF d = c THEN u ELSE thread[d]
  BY <1>1 DEF ThreadsAreSound
<1> QED
  BY <1>2, <1>3 DEF GraphRests

LEMMA TodoIsListed ==
    ASSUME ThreadsAreSound, NEW c \in Clients
    PROVE  thread[c].todo \in Seq(AllSteps)
<1>1. thread[c].todo \in Seq(OtherSteps) \cup Planning
  BY DEF ThreadsAreSound, ThreadIsSound
<1>2. \A p \in Planning : p \in Seq(AllSteps)
  <2>1. {"read", "judge", "plan", "normalise", "assign"} \subseteq AllSteps
    BY DEF AllSteps, OtherSteps
  <2>2. /\ <<"read", "judge", "plan">> \in Seq(AllSteps)
        /\ <<"normalise", "judge", "plan">> \in Seq(AllSteps)
        /\ <<"assign", "judge", "plan">> \in Seq(AllSteps)
        /\ <<"judge", "plan">> \in Seq(AllSteps) /\ <<"plan">> \in Seq(AllSteps)
    BY <2>1
  <2> QED
    BY <2>2 DEF Planning
<1>3. \A p \in Seq(OtherSteps) : p \in Seq(AllSteps)
  BY DEF AllSteps
<1> QED
  BY <1>1, <1>2, <1>3

\* What a thread that is not about to assign has at hand.
LEMMA ReadyThread ==
    ASSUME ThreadsAreSound, GraphIsTyped, GraphRests, NEW c \in Clients, NEW step,
           step \notin {"assign", "normalise"}, AtStep(c, step)
    PROVE  /\ thread[c].copy = <<>> /\ DOMAIN thread[c] = Fields
           /\ PlainGraph(thread[c].doc) /\ PlainPatch(thread[c].ops)
           /\ Remaining(c) \in Seq(AllSteps) /\ Late(thread[c].ask, Remaining(c))
           /\ step = "persist" => thread[c].ask \notin ReadOnly /\ Settled(thread[c].doc)
<1>1. Underway(c) /\ thread[c].todo # <<>> /\ Head(thread[c].todo) = step
  BY DEF AtStep, Underway
<1>2. /\ thread[c].copy = <<>> /\ Remaining(c) \in Seq(ReadySteps) /\ DOMAIN thread[c] = Fields
  BY <1>1, WithoutCopy, ThreadFields
<1>3. Remaining(c) \in Seq(AllSteps)
  BY <1>2 DEF ReadySteps
<1>4. IsReady(thread[c])
  BY <1>1 DEF GraphRests, ThreadRests
<1>5. thread[c].todo \in Seq(AllSteps)
  BY TodoIsListed
<1>6. CASE Late(thread[c].ask, thread[c].todo)
  <2>1. step # "persist" /\ Late(thread[c].ask, Remaining(c))
    BY <1>1, <1>5, <1>6, LateTail DEF Remaining
  <2> QED
    BY <1>2, <1>3, <1>4, <2>1 DEF IsReady
<1>7. CASE ~Late(thread[c].ask, thread[c].todo)
  <2>1. thread[c].ask \notin ReadOnly /\ Settled(thread[c].doc) /\ Late(thread[c].ask, Remaining(c))
    BY <1>4, <1>7 DEF IsReady, Remaining
  <2> QED
    BY <1>2, <1>3, <1>4, <2>1 DEF IsReady
<1> QED
  BY <1>6, <1>7

\* A step that writes nothing.
LEMMA QuietRests ==
    ASSUME ThreadsAreSound, GraphRests, NEW c \in Clients, NEW t, Go(c, t),
           t.copy = <<>>, t.todo # <<>> => IsReady(t),
           gStore' = gStore, gMem' \in {gMem, gStore}
    PROVE  GraphRests'
<1>1. \A d \in Clients : ThreadRests(thread'[d])
  BY GoRests DEF ThreadRests
<1>2. StateRests(gStore') /\ StateRests(gMem')
  BY DEF GraphRests
<1> QED
  BY <1>1, <1>2 DEF GraphRests, ThreadRests, StateRests, IsReady

LEMMA WritesRest ==
    ASSUME ThreadsAreSound, GraphRests, NEW c \in Clients, NEW state, NEW t,
           MutateGraph(c, state, t), StateRests(state), DOMAIN t = Fields,
           t.todo \in Seq(AllSteps), Late(t.ask, t.todo), PlainGraph(t.doc), PlainPatch(t.ops)
    PROVE  GraphRests'
<1> DEFINE w == [t EXCEPT !.todo = <<"assign">> \o @, !.copy = <<state>>]
<1>1. Go(c, w) /\ gStore' = state /\ gMem' = gMem
  BY DEF MutateGraph
<1>2. /\ w.todo = <<"assign">> \o t.todo /\ w.copy = <<state>>
      /\ w.ask = t.ask /\ w.doc = t.doc /\ w.ops = t.ops
  BY FieldNames
<1> HIDE DEF w
<1>3. <<"assign">> \in Seq(AllSteps \ {"persist"})
  BY DEF AllSteps, OtherSteps
<1>4. Late(t.ask, <<"assign">> \o t.todo)
  BY <1>3, LateBoth, LateWithout
<1>5. ThreadRests(w)
  BY <1>2, <1>4 DEF ThreadRests, IsReady
<1>6. \A d \in Clients : ThreadRests(thread'[d])
  BY <1>1, <1>5, GoRests
<1>7. StateRests(gStore') /\ StateRests(gMem')
  BY <1>1 DEF GraphRests
<1> QED
  BY <1>6, <1>7 DEF GraphRests, ThreadRests, StateRests, IsReady

LEMMA StopsRest ==
    ASSUME ThreadsAreSound, GraphIsTyped, GraphRests, NEW c \in Clients, NEW answer,
           Underway(c), Head(thread[c].todo) # "assign", GiveUp(c, answer),
           gStore' = gStore, gMem' \in {gMem, gStore}
    PROVE  GraphRests'
<1> DEFINE t == [thread[c] EXCEPT !.todo = <<>>, !.answer = answer]
<1>1. Go(c, t) /\ t.todo = <<>> /\ t.copy = thread[c].copy
  BY ThreadFields, FieldNames DEF GiveUp
<1> HIDE DEF t
<1> QED
  BY <1>1, WithoutCopy, QuietRests

LEMMA RestsStart == PlainDocuments /\ GraphInit => GraphRests
<1> SUFFICES ASSUME PlainDocuments, GraphInit PROVE GraphRests
  OBVIOUS
<1>1. PICK w \in Workspaces : gStore = Opened(w)
  BY DEF GraphInit
<1>2. gStore.graph = w.graph /\ gStore.res = w.res /\ gMem = gStore
  BY <1>1 DEF Opened, GraphInit
<1>3. StateRests(gStore)
  BY <1>2 DEF PlainDocuments, StateRests
<1>4. ASSUME NEW c \in Clients PROVE ThreadRests(thread[c])
  <2>1. thread[c].todo = <<>> /\ thread[c].copy = <<>>
    BY DEF GraphInit, Idling
  <2> QED
    BY <2>1 DEF ThreadRests
<1> QED
  BY <1>2, <1>3, <1>4 DEF GraphRests

LEMMA EnterRests ==
    ASSUME PlainDocuments, ThreadsAreSound, GraphRests, NEW c \in Clients, EnterRequest(c)
    PROVE  GraphRests'
<1> DEFINE made(r) == Patched(Normalised(gStore.graph, gStore.res), r.ops, gStore.res)
           lone == \A d \in Clients : ~Underway(d)
           hasDue(r, named) == /\ lone /\ r.ask = "apply" /\ named = gStore.rev
                               /\ made(r) # Rejected /\ Valid(made(r), gStore.res)
<1>1. PICK r \in Requests, named \in {gStore.rev, gStore.rev - 1} \cap Nat :
        /\ crossed' = (crossed \/ ~lone)
        /\ gMem' = IF r.ask = "source" THEN gMem ELSE gStore
        /\ thread' = [d \in Clients |->
              IF d # c THEN [thread[d] EXCEPT !.lone = FALSE]
              ELSE [Idling("none", hasDue(r, named), lone) EXCEPT
                      !.todo = Program(r.ask), !.ask = r.ask, !.doc = r.doc,
                      !.ops = r.ops, !.named = named, !.strict = r.strict]]
  BY Zenon DEF EnterRequest
<1> HIDE DEF lone, made, hasDue
<1>2. r.ask \in GraphAsks /\ PlainGraph(r.doc) /\ PlainPatch(r.ops)
  BY GraphAssumption DEF GraphAssumption, PlainDocuments
<1>3. gStore' = gStore /\ gMem' \in {gMem, gStore}
  BY <1>1 DEF EnterRequest
<1>4. ASSUME NEW d \in Clients PROVE ThreadRests(thread'[d])
  <2>1. CASE d # c
    <3>1. thread'[d] = [thread[d] EXCEPT !.lone = FALSE]
      BY <1>1, <2>1
    <3>2. /\ thread'[d].todo = thread[d].todo /\ thread'[d].copy = thread[d].copy
          /\ thread'[d].ask = thread[d].ask /\ thread'[d].doc = thread[d].doc
          /\ thread'[d].ops = thread[d].ops
      BY <3>1, ThreadFields, FieldNames
    <3> QED
      BY <3>2 DEF GraphRests, ThreadRests, IsReady
  <2>2. CASE d = c
    <3>1. /\ thread'[d].todo = Program(r.ask) /\ thread'[d].copy = <<>>
          /\ thread'[d].ask = r.ask /\ thread'[d].doc = r.doc /\ thread'[d].ops = r.ops
      BY <1>1, <2>2 DEF Idling
    <3> QED
      BY <1>2, <3>1, ProgramsAreLate DEF ThreadRests, IsReady
  <2> QED
    BY <2>1, <2>2
<1>5. StateRests(gStore') /\ StateRests(gMem')
  BY <1>3 DEF GraphRests
<1> QED
  BY <1>4, <1>5 DEF GraphRests, ThreadRests, IsReady, StateRests

LEMMA AssignRests ==
    ASSUME ThreadsAreSound, GraphIsTyped, GraphRests, NEW c \in Clients, AssignGraph(c)
    PROVE  GraphRests'
<1> DEFINE t == [thread[c] EXCEPT !.todo = Remaining(c), !.copy = <<>>]
<1>1. /\ gMem' = thread[c].copy[1] /\ Go(c, t) /\ gStore' = gStore
      /\ thread[c].todo # <<>> /\ Head(thread[c].todo) = "assign"
  BY DEF AssignGraph, AtStep, Underway
<1>2. /\ t.todo = Tail(thread[c].todo) /\ t.copy = <<>> /\ t.ask = thread[c].ask
      /\ t.doc = thread[c].doc /\ t.ops = thread[c].ops
  BY ThreadFields, FieldNames DEF Remaining
<1> HIDE DEF t
<1>3. ThreadIsTyped(thread[c]) /\ ThreadRests(thread[c])
  BY DEF GraphIsTyped, GraphRests
<1>4. thread[c].todo \notin Seq(ReadySteps)
  BY <1>1 DEF ReadySteps
<1>5. PICK rest \in Seq(ReadySteps) : \E S :
        StateIsTyped(S) /\ thread[c].todo = <<"assign">> \o rest /\ thread[c].copy = <<S>>
  BY <1>3, <1>4 DEF ThreadIsTyped
<1>6. PICK S : thread[c].copy = <<S>> /\ StateRests(S)
  BY <1>3, <1>5 DEF ThreadRests
<1>7. gMem' = S
  BY <1>1, <1>6
<1>8. rest \in Seq(AllSteps) /\ <<"assign">> \in Seq(AllSteps)
  BY DEF ReadySteps, AllSteps, OtherSteps
<1>9. thread[c].todo \in Seq(AllSteps)
  BY <1>5, <1>8
<1>10. IsReady(t)
  <2>1. IsReady(thread[c])
    BY <1>1, <1>3 DEF ThreadRests
  <2>2. Late(thread[c].ask, thread[c].todo)
    BY <1>1, <2>1 DEF IsReady
  <2>3. Late(thread[c].ask, t.todo)
    BY <1>1, <1>2, <1>9, <2>2, LateTail
  <2> QED
    BY <1>2, <2>1, <2>3 DEF IsReady
<1>11. \A d \in Clients : ThreadRests(thread'[d])
  BY <1>1, <1>2, <1>10, GoRests DEF ThreadRests
<1>12. StateRests(gStore') /\ StateRests(gMem')
  BY <1>1, <1>6, <1>7 DEF GraphRests
<1> QED
  BY <1>11, <1>12 DEF GraphRests, ThreadRests, StateRests, IsReady

LEMMA NormaliseRests ==
    ASSUME ThreadsAreSound, GraphIsTyped, GraphRests, NEW c \in Clients, NormaliseDocument(c)
    PROVE  GraphRests'
<1> DEFINE t == [thread[c] EXCEPT !.todo = Remaining(c), !.doc = Normalised(@, gMem.res)]
<1>1. /\ Go(c, t) /\ AtStep(c, "normalise") /\ UNCHANGED <<gStore, gMem>>
  BY DEF NormaliseDocument
<1>2. Underway(c) /\ thread[c].todo # <<>> /\ Head(thread[c].todo) = "normalise"
  BY <1>1 DEF AtStep, Underway
<1>3. /\ t.todo = Remaining(c) /\ t.copy = thread[c].copy /\ t.ask = thread[c].ask
      /\ t.ops = thread[c].ops /\ t.doc = Normalised(thread[c].doc, gMem.res)
  BY ThreadFields, FieldNames
<1> HIDE DEF t
<1>4. thread[c].copy = <<>> /\ Remaining(c) \in Seq(ReadySteps)
  BY <1>2, WithoutCopy
<1>5. IsReady(thread[c]) /\ PlainResources(gMem.res)
  BY <1>2 DEF GraphRests, ThreadRests, StateRests
<1>6. PlainGraph(t.doc) /\ Settled(t.doc) /\ PlainPatch(t.ops)
  BY <1>3, <1>5, NormalisedRests DEF IsReady
<1>7. Late(thread[c].ask, thread[c].todo)
  BY <1>2, <1>5 DEF IsReady
<1>8. thread[c].todo \in Seq(AllSteps)
  BY TodoIsListed
<1>9. IsReady(t)
  BY <1>2, <1>3, <1>6, <1>7, <1>8, LateTail DEF IsReady, Remaining
<1> QED
  BY <1>1, <1>3, <1>4, <1>9, QuietRests

LEMMA RestsStay ==
    PlainDocuments /\ ThreadsAreSound /\ GraphIsTyped /\ GraphRests /\ [GraphNext]_graphVars
      => GraphRests'
<1> SUFFICES ASSUME PlainDocuments, ThreadsAreSound, GraphIsTyped, GraphRests, [GraphNext]_graphVars
             PROVE  GraphRests'
  OBVIOUS
<1>1. CASE UNCHANGED graphVars
  BY <1>1 DEF graphVars, GraphRests, ThreadRests, StateRests, IsReady
<1>2. ASSUME NEW c \in Clients, NEW step, step \notin {"assign", "normalise"}, AtStep(c, step)
      PROVE  /\ Underway(c) /\ Head(thread[c].todo) # "assign"
             /\ thread[c].copy = <<>> /\ DOMAIN thread[c] = Fields
             /\ PlainGraph(thread[c].doc) /\ PlainPatch(thread[c].ops)
             /\ Remaining(c) \in Seq(AllSteps) /\ Late(thread[c].ask, Remaining(c))
  BY <1>2, ReadyThread DEF AtStep
\* A step that writes nothing and leaves the document as it is.
<1>3. ASSUME NEW c \in Clients, NEW step, step \notin {"assign", "normalise"}, AtStep(c, step),
             NEW t, Go(c, t), t.copy = thread[c].copy, t.ask = thread[c].ask,
             t.doc = thread[c].doc, t.ops = thread[c].ops, t.todo = Remaining(c),
             gStore' = gStore, gMem' \in {gMem, gStore}
      PROVE  GraphRests'
  <2>1. IsReady(t) /\ t.copy = <<>>
    BY <1>2, <1>3 DEF IsReady
  <2> QED
    BY <1>3, <2>1, QuietRests
\* One that writes a state whose graph and resources are at rest.
<1>4. ASSUME NEW c \in Clients, NEW step, step \notin {"assign", "normalise"}, AtStep(c, step),
             NEW t, NEW state, MutateGraph(c, state, t), DOMAIN t = Fields, StateRests(state),
             t.ask = thread[c].ask, PlainGraph(t.doc), t.ops = thread[c].ops,
             t.todo = Remaining(c)
      PROVE  GraphRests'
  BY <1>2, <1>4, WritesRest
<1>5. ASSUME NEW c \in Clients, Refresh(c) PROVE GraphRests'
  <2> DEFINE t == [thread[c] EXCEPT !.todo = Remaining(c)]
  <2>1. AtStep(c, "refresh") /\ Go(c, t) /\ gMem' = gStore /\ gStore' = gStore
    BY <1>5 DEF Refresh, StepOn
  <2>2. /\ t.todo = Remaining(c) /\ t.copy = thread[c].copy /\ t.ask = thread[c].ask
        /\ t.doc = thread[c].doc /\ t.ops = thread[c].ops
    BY <1>2, <2>1, FieldNames
  <2> HIDE DEF t
  <2> QED
    BY <1>3, <2>1, <2>2
<1>6. ASSUME NEW c \in Clients, ReadGraph(c) PROVE GraphRests'
  <2> DEFINE g == Normalised(gMem.graph, gMem.res)
             t == [thread[c] EXCEPT !.todo = Remaining(c), !.doc = g]
             s == [gStore EXCEPT !.graph = g, !.rev = @ + 1]
  <2>1. AtStep(c, "read")
    BY <1>6 DEF ReadGraph
  <2>0. IF NeedsRenewal(gMem.graph, gMem.res) THEN MutateGraph(c, s, t)
        ELSE Go(c, t) /\ UNCHANGED <<gStore, gMem>>
    BY <1>6, Zenon DEF ReadGraph
  <2>3. /\ t.todo = Remaining(c) /\ t.copy = thread[c].copy /\ t.ask = thread[c].ask
        /\ t.doc = g /\ t.ops = thread[c].ops /\ DOMAIN t = Fields
    BY <1>2, <2>1, FieldNames
  <2>4. PlainGraph(g) /\ Settled(g)
    BY NormalisedRests DEF GraphRests, StateRests
  <2> HIDE DEF g, t
  <2>5. s.graph = g /\ s.res = gStore.res
    BY DEF GraphIsTyped, StateIsTyped, StoreFields
  <2> HIDE DEF s
  <2>6. StateRests(s)
    BY <2>4, <2>5 DEF GraphRests, StateRests
  <2>7. CASE NeedsRenewal(gMem.graph, gMem.res)
    <3>1. MutateGraph(c, s, t)
      BY <2>0, <2>7
    <3> QED
      BY <1>4, <2>1, <2>3, <2>4, <2>6, <3>1
  <2>8. CASE ~NeedsRenewal(gMem.graph, gMem.res)
    <3>1. Go(c, t) /\ UNCHANGED <<gStore, gMem>>
      BY <2>0, <2>8
    <3>2. IsReady(t) /\ t.copy = <<>>
      BY <1>2, <2>1, <2>3, <2>4 DEF IsReady
    <3> QED
      BY <3>1, <3>2, QuietRests
  <2> QED
    BY <2>7, <2>8
<1>7. ASSUME NEW c \in Clients, PersistDocument(c) PROVE GraphRests'
  <2> DEFINE u == thread[c]
             t == [u EXCEPT !.todo = Remaining(c), !.answer = "saved"]
             s == [gStore EXCEPT !.graph = u.doc, !.rev = @ + 1]
  <2>1. AtStep(c, "persist")
    BY <1>7 DEF PersistDocument
  <2>2. \/ GiveUp(c, "conflict") /\ UNCHANGED <<gStore, gMem>>
        \/ MutateGraph(c, s, t)
    BY <1>7 DEF PersistDocument
  <2>3. PlainGraph(u.doc) /\ Settled(u.doc)
    BY <2>1, ReadyThread
  <2>4. /\ t.todo = Remaining(c) /\ t.ask = thread[c].ask /\ t.doc = thread[c].doc
        /\ t.ops = thread[c].ops /\ DOMAIN t = Fields
    BY <1>2, <2>1, FieldNames
  <2> HIDE DEF t
  <2>5. s.graph = u.doc /\ s.res = gStore.res
    BY DEF GraphIsTyped, StateIsTyped, StoreFields
  <2> HIDE DEF s
  <2>6. StateRests(s)
    BY <2>3, <2>5 DEF GraphRests, StateRests
  <2>7. CASE MutateGraph(c, s, t)
    BY <1>4, <2>1, <2>3, <2>4, <2>6, <2>7
  <2>8. CASE GiveUp(c, "conflict") /\ UNCHANGED <<gStore, gMem>>
    BY <1>2, <2>1, <2>8, StopsRest
  <2> QED
    BY <2>2, <2>7, <2>8
<1>8. ASSUME NEW c \in Clients, CheckRevision(c) PROVE GraphRests'
  <2> DEFINE t == [thread[c] EXCEPT !.todo = Remaining(c)]
  <2>1. AtStep(c, "check") /\ UNCHANGED <<gStore, gMem>>
    BY <1>8 DEF CheckRevision
  <2>2. GiveUp(c, "conflict") \/ Go(c, t)
    BY <1>8 DEF CheckRevision, StepOn
  <2>3. /\ t.todo = Remaining(c) /\ t.copy = thread[c].copy /\ t.ask = thread[c].ask
        /\ t.doc = thread[c].doc /\ t.ops = thread[c].ops
    BY <1>2, <2>1, FieldNames
  <2> HIDE DEF t
  <2>4. GiveUp(c, "conflict") => GraphRests'
    BY <1>2, <2>1, StopsRest
  <2>5. Go(c, t) => GraphRests'
    BY <1>3, <2>1, <2>3
  <2> QED
    BY <2>2, <2>4, <2>5
<1>9. ASSUME NEW c \in Clients, ApplyPatch(c) PROVE GraphRests'
  <2> DEFINE made == Patched(thread[c].doc, thread[c].ops, gMem'.res)
             t == [thread[c] EXCEPT !.todo = Remaining(c), !.doc = made]
  <2>1. AtStep(c, "patch") /\ gStore' = gStore /\ gMem' \in {gMem, gStore}
    BY <1>9 DEF ApplyPatch
  <2>0. IF made = Rejected \/ ~Valid(made, gMem'.res) THEN GiveUp(c, "refused") ELSE Go(c, t)
    BY <1>9, Zenon DEF ApplyPatch
  <2>3. /\ t.todo = Remaining(c) /\ t.copy = thread[c].copy /\ t.ask = thread[c].ask
        /\ t.doc = made /\ t.ops = thread[c].ops
    BY <1>2, <2>1, FieldNames
  <2>4. made = Rejected \/ PlainGraph(made)
    BY <1>2, <2>1, PatchedIsPlain
  <2> HIDE DEF made, t
  <2>5. GiveUp(c, "refused") => GraphRests'
    BY <1>2, <2>1, StopsRest
  <2>6. CASE made = Rejected \/ ~Valid(made, gMem'.res)
    BY <2>0, <2>5, <2>6
  <2>7. CASE ~(made = Rejected \/ ~Valid(made, gMem'.res))
    <3>1. Go(c, t)
      BY <2>0, <2>7
    <3>2. IsReady(t) /\ t.copy = <<>>
      BY <1>2, <2>1, <2>3, <2>4, <2>7 DEF IsReady
    <3> QED
      BY <2>1, <3>1, <3>2, QuietRests
  <2> QED
    BY <2>6, <2>7
<1>10. ASSUME NEW c \in Clients, ValidateGraph(c) PROVE GraphRests'
  <2> DEFINE t == [thread[c] EXCEPT !.todo = Remaining(c), !.ok = Valid(thread[c].doc, gMem.res)]
  <2>1. AtStep(c, "validate") /\ Go(c, t) /\ UNCHANGED <<gStore, gMem>>
    BY <1>10 DEF ValidateGraph
  <2>2. /\ t.todo = Remaining(c) /\ t.copy = thread[c].copy /\ t.ask = thread[c].ask
        /\ t.doc = thread[c].doc /\ t.ops = thread[c].ops
    BY <1>2, <2>1, FieldNames
  <2> HIDE DEF t
  <2> QED
    BY <1>3, <2>1, <2>2
<1>11. ASSUME NEW c \in Clients, StampSnapshot(c) PROVE GraphRests'
  <2> DEFINE snap == [rev |-> gMem.rev, regs |-> gMem.regs, valid |-> thread[c].ok]
             s == [gStore EXCEPT !.snap = snap]
             t == [thread[c] EXCEPT !.todo = Remaining(c)]
  <2>1. AtStep(c, "stamp") /\ MutateGraph(c, s, t)
    BY <1>11 DEF StampSnapshot
  <2>2. /\ t.todo = Remaining(c) /\ t.ask = thread[c].ask /\ t.doc = thread[c].doc
        /\ t.ops = thread[c].ops /\ DOMAIN t = Fields
    BY <1>2, <2>1, FieldNames
  <2>3. s.graph = gStore.graph /\ s.res = gStore.res
    BY DEF GraphIsTyped, StateIsTyped, StoreFields
  <2> HIDE DEF snap, s, t
  <2> QED
    BY <1>2, <1>4, <2>1, <2>2, <2>3 DEF GraphRests, StateRests
<1>12. ASSUME NEW c \in Clients, ShowSnapshot(c) PROVE GraphRests'
  <2> DEFINE fresh == gMem.snap.rev = gMem.rev /\ gMem.snap.regs = gMem.regs
             due == IF fresh THEN <<>> ELSE Revalidate
             t == [thread[c] EXCEPT !.todo = due \o Remaining(c)]
  <2>1. AtStep(c, "view") /\ Go(c, t) /\ UNCHANGED <<gStore, gMem>>
    BY <1>12 DEF ShowSnapshot
  <2>2. /\ t.todo = due \o Remaining(c) /\ t.copy = thread[c].copy /\ t.ask = thread[c].ask
        /\ t.doc = thread[c].doc /\ t.ops = thread[c].ops
    BY <1>2, <2>1, FieldNames
  <2> HIDE DEF fresh, t
  <2>0. <<>> \in Seq(AllSteps \ {"persist"}) /\ Revalidate \in Seq(AllSteps \ {"persist"})
    BY DEF Revalidate, AllSteps, OtherSteps
  <2>3. due \in Seq(AllSteps \ {"persist"})
    BY <2>0
  <2> HIDE DEF due
  <2>4. Late(thread[c].ask, t.todo)
    <3>1. due \in Seq(AllSteps) /\ Late(thread[c].ask, due)
      BY <2>3, LateWithout
    <3> QED
      BY <1>2, <2>1, <2>2, <3>1, LateBoth
  <2>5. IsReady(t) /\ t.copy = <<>>
    BY <1>2, <2>1, <2>2, <2>4 DEF IsReady
  <2> QED
    BY <2>1, <2>5, QuietRests
<1>13. ASSUME NEW c \in Clients, NoteRevision(c) PROVE GraphRests'
  <2> DEFINE t == [thread[c] EXCEPT !.todo = Remaining(c), !.noted = gMem.rev]
  <2>1. AtStep(c, "note") /\ Go(c, t) /\ UNCHANGED <<gStore, gMem>>
    BY <1>13 DEF NoteRevision
  <2>2. /\ t.todo = Remaining(c) /\ t.copy = thread[c].copy /\ t.ask = thread[c].ask
        /\ t.doc = thread[c].doc /\ t.ops = thread[c].ops
    BY <1>2, <2>1, FieldNames
  <2> HIDE DEF t
  <2> QED
    BY <1>3, <2>1, <2>2
<1>14. ASSUME NEW c \in Clients, JudgeGraph(c) PROVE GraphRests'
  <2> DEFINE good == (thread[c].ask = "source" \/ Acceptable(thread[c].doc, gMem.res))
                     /\ Compiled(thread[c].doc) # Rejected
             t == [thread[c] EXCEPT !.todo = Remaining(c), !.ok = good]
  <2>1. AtStep(c, "judge") /\ Go(c, t) /\ UNCHANGED <<gStore, gMem>>
    BY <1>14 DEF JudgeGraph
  <2>2. /\ t.todo = Remaining(c) /\ t.copy = thread[c].copy /\ t.ask = thread[c].ask
        /\ t.doc = thread[c].doc /\ t.ops = thread[c].ops
    BY <1>2, <2>1, FieldNames
  <2> HIDE DEF good, t
  <2> QED
    BY <1>3, <2>1, <2>2
<1>15. ASSUME NEW c \in Clients, ReserveSequence(c) PROVE GraphRests'
  <2> DEFINE s == [gStore EXCEPT !.counter = @ + 1]
             t == [thread[c] EXCEPT !.todo = Remaining(c), !.seq = gStore.counter + 1]
  <2>1. AtStep(c, "reserve") /\ MutateGraph(c, s, t)
    BY <1>15 DEF ReserveSequence
  <2>2. /\ t.todo = Remaining(c) /\ t.ask = thread[c].ask /\ t.doc = thread[c].doc
        /\ t.ops = thread[c].ops /\ DOMAIN t = Fields
    BY <1>2, <2>1, FieldNames
  <2>3. s.graph = gStore.graph /\ s.res = gStore.res
    BY DEF GraphIsTyped, StateIsTyped, StoreFields
  <2> HIDE DEF s, t
  <2> QED
    BY <1>2, <1>4, <2>1, <2>2, <2>3 DEF GraphRests, StateRests
<1>16. ASSUME NEW c \in Clients, RememberCompile(c) PROVE GraphRests'
  <2> DEFINE u == thread[c]
             done == [seq |-> u.seq, ok |-> u.ok, saved |-> u.ask # "source",
                      rev |-> u.noted, graph |-> u.doc]
             all == <<done>> \o gStore.compiles
             kept == SubSeq(all, 1, IF Len(all) > MaxHistory THEN MaxHistory ELSE Len(all))
             s == [gStore EXCEPT !.compiles = kept]
             t == [u EXCEPT !.todo = Remaining(c), !.answer = "compiled"]
  <2>1. AtStep(c, "remember") /\ MutateGraph(c, s, t)
    BY <1>16 DEF RememberCompile
  <2>2. /\ t.todo = Remaining(c) /\ t.ask = thread[c].ask /\ t.doc = thread[c].doc
        /\ t.ops = thread[c].ops /\ DOMAIN t = Fields
    BY <1>2, <2>1, FieldNames
  <2> HIDE DEF kept
  <2>3. s.graph = gStore.graph /\ s.res = gStore.res
    BY DEF GraphIsTyped, StateIsTyped, StoreFields
  <2> HIDE DEF s, t
  <2> QED
    BY <1>2, <1>4, <2>1, <2>2, <2>3 DEF GraphRests, StateRests
<1>17. ASSUME NEW c \in Clients, BuildPlan(c) PROVE GraphRests'
  <2> DEFINE u == thread[c]
             plan == PlanOf(Compiled(u.doc), gMem.res)
             good == [u EXCEPT !.todo = Remaining(c), !.answer = "planned", !.plan = plan]
             bad == [u EXCEPT !.todo = Remaining(c), !.answer = "failed"]
  <2>1. AtStep(c, "plan") /\ UNCHANGED <<gStore, gMem>>
    BY <1>17 DEF BuildPlan
  <2>2. Go(c, good) \/ Go(c, bad)
    BY <1>17 DEF BuildPlan
  <2> HIDE DEF plan
  <2>3. /\ good.todo = Remaining(c) /\ good.copy = thread[c].copy /\ good.ask = thread[c].ask
        /\ good.doc = thread[c].doc /\ good.ops = thread[c].ops
        /\ bad.todo = Remaining(c) /\ bad.copy = thread[c].copy /\ bad.ask = thread[c].ask
        /\ bad.doc = thread[c].doc /\ bad.ops = thread[c].ops
    BY <1>2, <2>1, FieldNames
  <2> HIDE DEF good, bad
  <2> QED
    BY <1>3, <2>1, <2>2, <2>3
<1>18. ASSUME NEW c \in Clients, ToggleResource(c) PROVE GraphRests'
  <2>1. PICK r \in gStore.res :
          MutateGraph(c, [gStore EXCEPT !.res = (@ \ {r}) \cup {[r EXCEPT !.enabled = ~@]},
                                        !.regs = @ + 1],
                      [thread[c] EXCEPT !.todo = Remaining(c)])
    BY <1>18 DEF ToggleResource
  <2> DEFINE n == [r EXCEPT !.enabled = ~@]
             s == [gStore EXCEPT !.res = (@ \ {r}) \cup {n}, !.regs = @ + 1]
             t == [thread[c] EXCEPT !.todo = Remaining(c)]
  <2>2. AtStep(c, "toggle") /\ MutateGraph(c, s, t)
    BY <1>18, <2>1 DEF ToggleResource
  <2>3. /\ t.todo = Remaining(c) /\ t.ask = thread[c].ask /\ t.doc = thread[c].doc
        /\ t.ops = thread[c].ops /\ DOMAIN t = Fields
    BY <1>2, <2>2, FieldNames
  <2>4. /\ DOMAIN n = DOMAIN r /\ n.key = r.key /\ n.graph = r.graph
        /\ n.inputs = r.inputs /\ n.outputs = r.outputs
    BY DEF GraphRests, StateRests, PlainResources
  <2> HIDE DEF n
  <2>5. s.graph = gStore.graph /\ s.res = (gStore.res \ {r}) \cup {n}
    BY DEF GraphIsTyped, StateIsTyped, StoreFields
  <2> HIDE DEF s, t
  <2>6. PlainResources(s.res)
    BY <2>4, <2>5 DEF GraphRests, StateRests, PlainResources
  <2> QED
    BY <1>2, <1>4, <2>2, <2>3, <2>5, <2>6 DEF GraphRests, StateRests
<1>19. ASSUME NEW c \in Clients, RedrawComponent(c) PROVE GraphRests'
  <2>1. AtStep(c, "redraw")
    BY <1>19 DEF RedrawComponent
  <2>2. CASE ~Known(gStore.res, ComponentKey)
    <3>1. GiveUp(c, "refused") /\ UNCHANGED <<gStore, gMem>>
      BY <1>19, <2>2 DEF RedrawComponent
    <3> QED
      BY <1>2, <2>1, <3>1, StopsRest
  <2>3. CASE Known(gStore.res, ComponentKey)
    <3> DEFINE r == ResourceOf(gStore.res, ComponentKey)
    <3>1. PICK fields \in Redrawn :
            MutateGraph(c, [gStore EXCEPT !.res = (@ \ {r}) \cup
                                {[r EXCEPT !.inputs = fields, !.needed = Elems(fields)]},
                                          !.regs = @ + 1],
                        [thread[c] EXCEPT !.todo = Remaining(c)])
      BY <1>19, <2>3 DEF RedrawComponent
    <3> DEFINE n == [r EXCEPT !.inputs = fields, !.needed = Elems(fields)]
               s == [gStore EXCEPT !.res = (@ \ {r}) \cup {n}, !.regs = @ + 1]
               t == [thread[c] EXCEPT !.todo = Remaining(c)]
    <3>2. MutateGraph(c, s, t)
      BY <3>1
    <3>3. /\ t.todo = Remaining(c) /\ t.ask = thread[c].ask /\ t.doc = thread[c].doc
          /\ t.ops = thread[c].ops /\ DOMAIN t = Fields
      BY <1>2, <2>1, FieldNames
    <3>4. r \in gStore.res
      BY <2>3 DEF Known, ResourceOf
    <3> HIDE DEF r
    <3>5. /\ DOMAIN n = DOMAIN r /\ n.key = r.key /\ n.graph = r.graph
          /\ n.inputs = fields /\ n.outputs = r.outputs
      BY <3>4 DEF GraphRests, StateRests, PlainResources
    <3>6. IsList(fields)
      BY DEF PlainDocuments
    <3> HIDE DEF n
    <3>7. s.graph = gStore.graph /\ s.res = (gStore.res \ {r}) \cup {n}
      BY DEF GraphIsTyped, StateIsTyped, StoreFields
    <3> HIDE DEF s, t
    <3>8. PlainResources(s.res)
      BY <3>4, <3>5, <3>6, <3>7 DEF GraphRests, StateRests, PlainResources
    <3> QED
      BY <1>2, <1>4, <2>1, <3>2, <3>3, <3>7, <3>8 DEF GraphRests, StateRests
  <2> QED
    BY <2>2, <2>3
<1>20. CASE GraphNext
  BY <1>5, <1>6, <1>7, <1>8, <1>9, <1>10, <1>11, <1>12, <1>13, <1>14, <1>15, <1>16, <1>17,
     <1>18, <1>19, <1>20, EnterRests, AssignRests, NormaliseRests DEF GraphNext
<1> QED
  BY <1>1, <1>20

\* No step but reading and saving changes the saved graph.
LEMMA OthersKeepGraph ==
    ASSUME ThreadsAreSound, GraphIsTyped, NEW c \in Clients,
           \/ EnterRequest(c) \/ AssignGraph(c) \/ Refresh(c) \/ NormaliseDocument(c)
           \/ CheckRevision(c) \/ ApplyPatch(c) \/ ValidateGraph(c) \/ StampSnapshot(c)
           \/ ShowSnapshot(c) \/ NoteRevision(c) \/ JudgeGraph(c) \/ ReserveSequence(c)
           \/ RememberCompile(c) \/ BuildPlan(c) \/ ToggleResource(c) \/ RedrawComponent(c)
    PROVE  gStore'.graph = gStore.graph /\ gStore'.rev = gStore.rev
<1>1. ASSUME gStore' = gStore PROVE gStore'.graph = gStore.graph /\ gStore'.rev = gStore.rev
  BY <1>1
<1>2. ASSUME NEW x, gStore' = [gStore EXCEPT !.snap = x]
             \/ gStore' = [gStore EXCEPT !.counter = x] \/ gStore' = [gStore EXCEPT !.compiles = x]
             \/ \E y : gStore' = [gStore EXCEPT !.res = x, !.regs = y]
      PROVE  gStore'.graph = gStore.graph /\ gStore'.rev = gStore.rev
  BY <1>2 DEF GraphIsTyped, StateIsTyped, StoreFields
<1>3. CASE EnterRequest(c) \/ AssignGraph(c) \/ Refresh(c) \/ NormaliseDocument(c)
  BY <1>1, <1>3 DEF EnterRequest, AssignGraph, Refresh, NormaliseDocument
<1>4. CASE CheckRevision(c) \/ ApplyPatch(c) \/ ValidateGraph(c) \/ ShowSnapshot(c)
  BY <1>1, <1>4 DEF CheckRevision, ApplyPatch, ValidateGraph, ShowSnapshot
<1>5. CASE NoteRevision(c) \/ JudgeGraph(c) \/ BuildPlan(c)
  BY <1>1, <1>5 DEF NoteRevision, JudgeGraph, BuildPlan
<1>6. CASE StampSnapshot(c)
  <2>1. \E x : gStore' = [gStore EXCEPT !.snap = x]
    BY <1>6 DEF StampSnapshot, MutateGraph
  <2> QED
    BY <1>2, <2>1
<1>7. CASE ReserveSequence(c)
  <2>1. \E x : gStore' = [gStore EXCEPT !.counter = x]
    BY <1>7 DEF ReserveSequence, MutateGraph
  <2> QED
    BY <1>2, <2>1
<1>8. CASE RememberCompile(c)
  <2>1. \E x : gStore' = [gStore EXCEPT !.compiles = x]
    BY <1>8, Zenon DEF RememberCompile, MutateGraph
  <2> QED
    BY <1>2, <2>1
<1>9. CASE ToggleResource(c)
  <2>1. \E x, y : gStore' = [gStore EXCEPT !.res = x, !.regs = y]
    BY <1>9 DEF ToggleResource, MutateGraph
  <2> QED
    BY <1>2, <2>1
<1>10. CASE RedrawComponent(c)
  <2>1. CASE ~Known(gStore.res, ComponentKey)
    BY <1>1, <1>10, <2>1 DEF RedrawComponent
  <2>2. CASE Known(gStore.res, ComponentKey)
    <3>1. \E x, y : gStore' = [gStore EXCEPT !.res = x, !.regs = y]
      BY <1>10, <2>2 DEF RedrawComponent, MutateGraph
    <3> QED
      BY <1>2, <3>1
  <2> QED
    BY <2>1, <2>2
<1> QED
  BY <1>3, <1>4, <1>5, <1>6, <1>7, <1>8, <1>9, <1>10

LEMMA OnlyOwnSteps ==
    ASSUME ThreadsAreSound, NEW c \in Clients, NEW d \in Clients, d # c,
           ReadGraph(c) \/ PersistDocument(c)
    PROVE  thread'[d] = thread[d]
<1>1. \E t : Go(c, t)
  BY DEF ReadGraph, PersistDocument, GiveUp, MutateGraph
<1>2. \E u : thread' = [thread EXCEPT ![c] = u]
  BY <1>1 DEF Go
<1> QED
  BY <1>2 DEF ThreadsAreSound

\* A request that only reads leaves a graph without component graphs, and its
\* revision, as they are, whatever other requests do meanwhile: for all plain
\* documents, any number of clients and any resources. What is saved was
\* normalised before (_persist_graph_document behind _normalize_graph_model),
\* so _get_graph_document_model finds nothing to renew.
THEOREM ReadingKeepsGraph == PlainDocuments /\ GraphSpec => ReadsKeepGraph
<1> SUFFICES ASSUME PlainDocuments PROVE GraphSpec => ReadsKeepGraph
  OBVIOUS
<1> DEFINE IInv == ThreadsAreSound /\ GraphIsTyped /\ GraphRests
           Keeps == \A c \in Clients :
                       (Underway(c) /\ thread[c].ask \in ReadOnly /\ thread'[c] # thread[c]
                          /\ ~HasInstance(gMem.graph, gMem.res))
                       => <<gStore.graph, gStore.rev>>' = <<gStore.graph, gStore.rev>>
<1>1. GraphInit => IInv
  BY SoundInit, GraphTypesStart, RestsStart
<1>2. IInv /\ [GraphNext]_graphVars => IInv'
  BY SoundNext, StutteringKeepsSound, GraphAssumption, GraphTypesStay, RestsStay
<1>3. IInv /\ [GraphNext]_graphVars => [Keeps]_graphVars
  <2> SUFFICES ASSUME ThreadsAreSound, GraphIsTyped, GraphRests, GraphNext, NEW c \in Clients,
                      Underway(c), thread[c].ask \in ReadOnly, thread'[c] # thread[c],
                      ~HasInstance(gMem.graph, gMem.res)
               PROVE  gStore'.graph = gStore.graph /\ gStore'.rev = gStore.rev
    OBVIOUS
  <2>1. CASE ReadGraph(c)
    <3>1. ~NeedsRenewal(gMem.graph, gMem.res)
      BY RestsUnlessCalled DEF GraphRests, StateRests
    <3> QED
      BY <2>1, <3>1 DEF ReadGraph
  <2>2. ~PersistDocument(c)
    <3>1. SUFFICES ASSUME PersistDocument(c) PROVE FALSE
      OBVIOUS
    <3>2. AtStep(c, "persist")
      BY <3>1 DEF PersistDocument
    <3> QED
      BY <3>2, ReadyThread
  <2>3. ASSUME NEW d \in Clients, d # c PROVE ~(ReadGraph(d) \/ PersistDocument(d))
    BY <2>3, OnlyOwnSteps
  <2> QED
    BY <2>1, <2>2, <2>3, OthersKeepGraph DEF GraphNext
<1> QED
  BY <1>1, <1>2, <1>3, PTL DEF GraphSpec, ReadsKeepGraph

-----------------------------------------------------------------------------
(* ProjectDocuments: types, edits and what is saved.                       *)

USE DocumentsAssumption

-----------------------------------------------------------------------------
(* Types.                                                                  *)

Disk == [Projects -> [graph : Graph \cup {Torn}, rev : Nat \cup {Torn}]]

LEMMA WorkspaceTypes ==
    /\ EmptyGraph \in Graph /\ InitialWorkspace \in Workspace /\ IdleEditor \in EditorStates
    /\ \A e \in EditorStates : Resting(e) \in EditorStates
<1>1. EmptyGraph \in Graph
  BY DEF EmptyGraph, Graph
<1>2. InitialWorkspace \in Workspace
  BY <1>1 DEF InitialWorkspace, Workspace
<1>3. IdleEditor \in EditorStates
  BY <1>2 DEF IdleEditor, EditorStates, Places, Asks
<1>4. ASSUME NEW e \in EditorStates PROVE Resting(e) \in EditorStates
  <2>1. e.seen \in [edit : Nat, rev : Nat, epoch : Nat]
    BY DEF EditorStates
  <2>2. QED
    BY <1>2, <2>1 DEF Resting, IdleEditor, EditorStates, Places, Asks
<1>5. QED
  BY <1>1, <1>2, <1>3, <1>4

\* A thread goes on: only its own entry changes.
LEMMA ContinueEffect ==
    ASSUME DocumentsTypeOK, NEW c \in Editors, NEW e, Continue(c, e)
    PROVE  /\ editor'[c] = e
           /\ \A d \in Editors \ {c} : editor'[d] = editor[d]
           /\ e \in EditorStates => editor' \in [Editors -> EditorStates]
  BY DEF DocumentsTypeOK, Continue

LEMMA MutateEffect ==
    ASSUME DocumentsTypeOK, NEW c \in Editors, NEW s \in Workspace, NEW n \in Places,
           NEW e \in EditorStates, Mutate(c, s, n, e)
    PROVE  /\ store' = s /\ store' \in Workspace
           /\ editor'[c].at = "assign" /\ editor'[c].next = n /\ editor'[c].copy = s
           /\ editor'[c].seen = e.seen /\ editor'[c].alone = e.alone
           /\ \A d \in Editors \ {c} : editor'[d] = editor[d]
           /\ editor' \in [Editors -> EditorStates]
<1>1. PICK f : f = [e EXCEPT !.at = "assign", !.next = n, !.copy = s]
  OBVIOUS
<1>2. /\ f \in EditorStates /\ f.at = "assign" /\ f.next = n /\ f.copy = s
      /\ f.seen = e.seen /\ f.alone = e.alone
  BY <1>1 DEF EditorStates, Places
<1>3. Continue(c, f) /\ store' = s
  BY <1>1 DEF Mutate
<1>4. QED
  BY <1>2, <1>3, ContinueEffect

\* A request enters.
LEMMA EnterEffect ==
    ASSUME DocumentsTypeOK, NEW c \in Editors, NEW e \in EditorStates, Enter(c, e)
    PROVE  /\ mem' = store /\ UNCHANGED <<store, disk, epoch, restarts>> /\ At(c, "idle")
           /\ overlapped' \in BOOLEAN /\ editor' \in [Editors -> EditorStates]
           /\ \A d \in Editors \ {c} : editor'[d] = [editor[d] EXCEPT !.alone = FALSE]
           /\ editor'[c] = [e EXCEPT !.alone = editor'[c].alone]
           /\ ~overlapped' => ~overlapped /\ editor'[c].alone
           /\ editor'[c].alone => \A d \in Editors : At(d, "idle")
<1>1. PICK alone \in BOOLEAN : alone = (\A d \in Editors : ~Busy(d))
  OBVIOUS
<1>2. /\ mem' = store /\ UNCHANGED <<store, disk, epoch, restarts>> /\ At(c, "idle")
      /\ overlapped' = (overlapped \/ ~alone)
      /\ editor' = [d \in Editors |-> IF d = c THEN [e EXCEPT !.alone = alone]
                                      ELSE [editor[d] EXCEPT !.alone = FALSE]]
  BY <1>1 DEF Enter, Busy
<1>3. [e EXCEPT !.alone = alone] \in EditorStates /\ [e EXCEPT !.alone = alone].alone = alone
  BY DEF EditorStates
<1>4. \A d \in Editors : [editor[d] EXCEPT !.alone = FALSE] \in EditorStates
  BY DEF DocumentsTypeOK, EditorStates
<1>5. /\ editor' \in [Editors -> EditorStates]
      /\ \A d \in Editors \ {c} : editor'[d] = [editor[d] EXCEPT !.alone = FALSE]
      /\ editor'[c] = [e EXCEPT !.alone = alone] /\ editor'[c].alone = alone
  BY <1>2, <1>3, <1>4
<1>6. overlapped' \in BOOLEAN
  BY <1>2 DEF DocumentsTypeOK
<1>7. alone => \A d \in Editors : At(d, "idle")
  BY <1>1 DEF Busy
<1>8. QED
  BY <1>2, <1>5, <1>6, <1>7

-----------------------------------------------------------------------------
(* The shapes of a step.                                                   *)

\* The files a crash leaves: what was there, or torn.
TornFrom(disk1) ==
    /\ disk1 \in Disk
    /\ \A p \in Projects : /\ disk1[p].graph \in {disk[p].graph, Torn}
                           /\ disk1[p].rev \in {disk[p].rev, Torn}

LEMMA CrashEffect ==
    ASSUME DocumentsTypeOK, Crash
    PROVE  /\ UNCHANGED <<store, edits, epoch, overlapped>> /\ mem' = store
           /\ TornFrom(disk') /\ restarts' \in Nat
           /\ editor' \in [Editors -> EditorStates]
           /\ \A d \in Editors : editor'[d] = Resting(editor[d])
<1>1. PICK cut \in SUBSET {c \in Editors : editor[c].at \in {"graph", "manifest"}} :
          disk' = [p \in Projects |->
                     [graph |-> IF \E c \in cut : At(c, "graph") /\ editor[c].path = p
                                THEN Torn ELSE disk[p].graph,
                      rev |-> IF \E c \in cut : At(c, "manifest") /\ editor[c].path = p
                              THEN Torn ELSE disk[p].rev]]
  BY DEF Crash
<1>2. \A p \in Projects : /\ disk'[p].graph \in {disk[p].graph, Torn}
                          /\ disk'[p].rev \in {disk[p].rev, Torn}
  BY <1>1
<1>3. disk' \in Disk
  BY <1>1 DEF Disk, DocumentsTypeOK
<1>4. /\ editor' = [c \in Editors |-> Resting(editor[c])] /\ restarts' = restarts + 1
      /\ UNCHANGED <<store, edits, epoch, overlapped>> /\ mem' = store
  BY DEF Crash
<1>5. \A d \in Editors : Resting(editor[d]) \in EditorStates
  BY WorkspaceTypes DEF DocumentsTypeOK
<1>6. QED
  BY <1>2, <1>3, <1>4, <1>5 DEF DocumentsTypeOK, TornFrom

\* The thread of c takes a step: of the editors it changes its own only.
LEMMA OwnEntryOnly ==
    ASSUME DocumentsTypeOK, NEW c \in Editors, RequestThread(c) \/ LoadGraph(c)
    PROVE  \A d \in Editors \ {c} : editor'[d] = editor[d]
  BY ContinueEffect
     DEF DocumentsTypeOK, RequestThread, LoadGraph, Answered, Mutate, Continue, Assign,
         PersistGraph, RefreshSnapshot, ReadPath, SetDefaults, BuildLayout, WriteGraphFile,
         WriteManifest, MarkClean, ReadGraphFile, ReplaceWorkspace, ResetWorkspace

\* What a request enters with, by what it asks for.
Entering(c, e) ==
    /\ e \in EditorStates /\ e.seen = editor[c].seen
    /\ \/ e.at = "persist"
       \/ e.at = "build" /\ e.path \in Projects
       \/ e.at = "read_graph" /\ e.path \in Projects
          /\ e.copy = [editor[c].copy EXCEPT !.rev = disk[e.path].rev]
       \/ e.at = "reset"

LEMMA ClientSteps ==
    ASSUME DocumentsTypeOK, NEW c \in Editors, Client(c)
    PROVE  \/ LoadGraph(c)
           \/ \E e : Entering(c, e) /\ Enter(c, e) /\ edits' \in Nat
<1>0. editor[c] \in EditorStates /\ edits \in Nat /\ store \in Workspace
  BY DEF DocumentsTypeOK
<1>1. ASSUME AskSaveProject(c) PROVE \E e : Entering(c, e) /\ Enter(c, e) /\ edits' \in Nat
  <2>1. PICK e : e = [editor[c] EXCEPT !.at = "build", !.ask = "save_project", !.path = store.path]
    OBVIOUS
  <2>2. e \in EditorStates /\ e.seen = editor[c].seen /\ e.at = "build" /\ e.path = store.path
    BY <1>0, <2>1 DEF EditorStates, Places, Asks, Workspace
  <2>3. store.path \in Projects
    BY <1>0, <1>1 DEF AskSaveProject, Workspace
  <2>4. Enter(c, e) /\ edits' = edits
    BY <1>1, <2>1 DEF AskSaveProject
  <2>5. QED
    BY <1>0, <2>2, <2>3, <2>4 DEF Entering
<1>2. ASSUME AskDefaults(c) PROVE \E e : Entering(c, e) /\ Enter(c, e) /\ edits' \in Nat
  <2>1. PICK e : e = [editor[c] EXCEPT !.at = "persist", !.ask = "defaults"]
    OBVIOUS
  <2>2. e \in EditorStates /\ e.seen = editor[c].seen /\ e.at = "persist"
    BY <1>0, <2>1 DEF EditorStates, Places, Asks
  <2>3. QED
    BY <1>0, <1>2, <2>1, <2>2 DEF Entering, AskDefaults
<1>3. ASSUME NEW strict \in BOOLEAN, AskSave(c, strict)
      PROVE \E e : Entering(c, e) /\ Enter(c, e) /\ edits' \in Nat
  <2>1. PICK draft \in Nat : draft = edits + 1
    BY <1>0
  <2>2. PICK e : e = [editor[c] EXCEPT !.at = "persist", !.ask = "save",
                                       !.strict = strict, !.draft = draft]
    OBVIOUS
  <2>3. e.seen = editor[c].seen /\ e.at = "persist"
    BY <1>0, <2>2 DEF EditorStates
  <2>4. e \in EditorStates
    BY <1>0, <2>1, <2>2 DEF EditorStates, Places, Asks
  <2>5. Enter(c, e) /\ edits' = edits + 1
    BY <1>3, <2>1, <2>2 DEF AskSave
  <2>6. QED
    BY <2>1, <2>3, <2>4, <2>5 DEF Entering
<1>4. ASSUME NEW discard \in BOOLEAN, AskClose(c, discard)
      PROVE \E e : Entering(c, e) /\ Enter(c, e) /\ edits' \in Nat
  <2>1. PICK e : e = [editor[c] EXCEPT !.at = "reset", !.ask = "close"]
    OBVIOUS
  <2>2. e \in EditorStates /\ e.seen = editor[c].seen /\ e.at = "reset"
    BY <1>0, <2>1 DEF EditorStates, Places, Asks
  <2>3. QED
    BY <1>0, <1>4, <2>1, <2>2 DEF Entering, AskClose
<1>5. ASSUME NEW p \in Projects, AskSaveAs(c, p)
      PROVE \E e : Entering(c, e) /\ Enter(c, e) /\ edits' \in Nat
  <2>1. PICK e : e = [editor[c] EXCEPT !.at = "build", !.ask = "save_as", !.path = p]
    OBVIOUS
  <2>2. e \in EditorStates /\ e.seen = editor[c].seen /\ e.at = "build" /\ e.path = p
    BY <1>0, <2>1 DEF EditorStates, Places, Asks
  <2>3. QED
    BY <1>0, <1>5, <2>1, <2>2 DEF Entering, AskSaveAs
<1>6. ASSUME NEW p \in Projects, AskOpen(c, p)
      PROVE \E e : Entering(c, e) /\ Enter(c, e) /\ edits' \in Nat
  <2>1. PICK e : e = [editor[c] EXCEPT !.at = "read_graph", !.ask = "open", !.path = p,
                                       !.copy.rev = disk[p].rev]
    OBVIOUS
  <2>2. disk[p].rev \in Nat
    BY <1>6 DEF AskOpen, DocumentsTypeOK
  <2>3. editor[c].copy \in Workspace
    BY <1>0 DEF EditorStates
  <2>4. PICK copy : copy = [editor[c].copy EXCEPT !.rev = disk[p].rev]
    OBVIOUS
  <2>5. copy \in Workspace
    BY <2>2, <2>3, <2>4 DEF Workspace
  <2>6. e = [editor[c] EXCEPT !.at = "read_graph", !.ask = "open", !.path = p, !.copy = copy]
    BY <2>1, <2>4
  <2>7. /\ e \in EditorStates /\ e.seen = editor[c].seen /\ e.at = "read_graph"
        /\ e.path = p /\ e.copy = copy
    BY <1>0, <2>5, <2>6 DEF EditorStates, Places, Asks
  <2>8. QED
    BY <1>0, <1>6, <2>1, <2>4, <2>7 DEF Entering, AskOpen
<1>7. QED
  BY <1>1, <1>2, <1>3, <1>4, <1>5, <1>6 DEF Client

\* The answer reaches the client.
LEMMA AnswerEffect ==
    ASSUME DocumentsTypeOK, NEW c \in Editors, Answered(c)
    PROVE  /\ editor'[c] \in EditorStates /\ editor'[c].at = "idle"
           /\ editor'[c].copy = InitialWorkspace /\ editor'[c].seen = editor[c].seen
           /\ editor' \in [Editors -> EditorStates]
<1>1. PICK e : e = Resting(editor[c])
  OBVIOUS
<1>2. e \in EditorStates /\ e.at = "idle" /\ e.copy = InitialWorkspace /\ e.seen = editor[c].seen
  BY <1>1, WorkspaceTypes DEF Resting, IdleEditor, DocumentsTypeOK
<1>3. Continue(c, e)
  BY <1>1 DEF Answered
<1>4. QED
  BY <1>2, <1>3, ContinueEffect

\* The thread goes on at another place, with another path or copy in hand.
LEMMA GoOnEffect ==
    ASSUME DocumentsTypeOK, NEW c \in Editors, NEW place \in Places,
           NEW path \in Projects \cup {NoProject}, NEW copy \in Workspace,
           Continue(c, [editor[c] EXCEPT !.at = place, !.path = path, !.copy = copy])
    PROVE  /\ editor' \in [Editors -> EditorStates]
           /\ editor'[c].at = place /\ editor'[c].path = path /\ editor'[c].copy = copy
           /\ editor'[c].seen = editor[c].seen /\ editor'[c].alone = editor[c].alone
           /\ editor'[c].ask = editor[c].ask /\ editor'[c].next = editor[c].next
<1>1. PICK e : e = [editor[c] EXCEPT !.at = place, !.path = path, !.copy = copy]
  OBVIOUS
<1>2. editor[c] \in EditorStates
  BY DEF DocumentsTypeOK
<1>3. /\ e \in EditorStates /\ e.at = place /\ e.path = path /\ e.copy = copy
      /\ e.seen = editor[c].seen /\ e.alone = editor[c].alone
      /\ e.ask = editor[c].ask /\ e.next = editor[c].next
  BY <1>1, <1>2 DEF EditorStates
<1>4. Continue(c, e)
  BY <1>1
<1>5. QED
  BY <1>3, <1>4, ContinueEffect

\* c goes on at place with path and copy, and nothing else of its entry changes.
EditorGoesOn(c, place, path, copy) ==
    /\ editor' \in [Editors -> EditorStates]
    /\ editor'[c].at = place /\ editor'[c].path = path /\ editor'[c].copy = copy
    /\ editor'[c].seen = editor[c].seen /\ editor'[c].alone = editor[c].alone
    /\ editor'[c].ask = editor[c].ask /\ editor'[c].next = editor[c].next

EditorAnswers(c) ==
    /\ editor' \in [Editors -> EditorStates]
    /\ editor'[c].at = "idle" /\ editor'[c].copy = InitialWorkspace
    /\ editor'[c].seen = editor[c].seen

\* c changed the store and is about to assign the copy.
Mutates(c, state, place, path) ==
    /\ editor' \in [Editors -> EditorStates]
    /\ store' = state /\ store' \in Workspace
    /\ editor'[c].at = "assign" /\ editor'[c].next = place /\ editor'[c].copy = state
    /\ editor'[c].path = path /\ editor'[c].alone = editor[c].alone

LEMMA AssignEffect ==
    ASSUME DocumentsTypeOK, NEW c \in Editors, Assign(c)
    PROVE  /\ At(c, "assign") /\ mem' = editor[c].copy /\ mem' \in Workspace
           /\ UNCHANGED <<store, disk, edits, epoch, overlapped, restarts>>
           /\ \/ EditorAnswers(c) /\ editor[c].next = "idle"
              \/ EditorGoesOn(c, editor[c].next, editor[c].path, InitialWorkspace)
                 /\ editor[c].next # "idle"
<1>1. /\ At(c, "assign") /\ mem' = editor[c].copy
      /\ UNCHANGED <<store, disk, edits, epoch, overlapped, restarts>>
  BY DEF Assign
<1>2. /\ editor[c] \in EditorStates /\ editor[c].copy \in Workspace
      /\ editor[c].next \in Places /\ editor[c].path \in Projects \cup {NoProject}
  BY DEF DocumentsTypeOK, EditorStates
<1>3. CASE editor[c].next = "idle"
  BY <1>1, <1>2, <1>3, AnswerEffect DEF Assign, EditorAnswers
<1>4. CASE editor[c].next # "idle"
  <2>1. Continue(c, [editor[c] EXCEPT !.at = editor[c].next, !.copy = InitialWorkspace])
    BY <1>4 DEF Assign
  <2>2. [editor[c] EXCEPT !.at = editor[c].next, !.copy = InitialWorkspace]
        = [editor[c] EXCEPT !.at = editor[c].next, !.path = editor[c].path,
                            !.copy = InitialWorkspace]
    BY <1>2 DEF EditorStates
  <2>3. Continue(c, [editor[c] EXCEPT !.at = editor[c].next, !.path = editor[c].path,
                                      !.copy = InitialWorkspace])
    BY <2>1, <2>2
  <2>4. EditorGoesOn(c, editor[c].next, editor[c].path, InitialWorkspace)
    BY ONLY <1>2, <2>3, GoOnEffect, WorkspaceTypes, DocumentsTypeOK, c \in Editors
       DEF EditorGoesOn
  <2>5. QED
    BY <1>1, <1>2, <1>4, <2>4
<1>5. QED
  BY <1>3, <1>4

LEMMA PersistEffect ==
    ASSUME DocumentsTypeOK, NEW c \in Editors, PersistGraph(c)
    PROVE  /\ At(c, "persist") /\ editor[c].ask = "save"
           /\ UNCHANGED <<mem, disk, edits, epoch, overlapped, restarts>>
           /\ \/ EditorAnswers(c) /\ store' = store
              \/ /\ Accepts(editor[c], store)
                 /\ Mutates(c, store', "snapshot", editor[c].path)
                 /\ store'.path = store.path /\ store'.dirty /\ store'.rev = store.rev + 1
                 /\ editor'[c].seen = [edit |-> store'.graph.edit, rev |-> store'.rev,
                                       epoch |-> epoch]
<1>1. /\ At(c, "persist") /\ editor[c].ask = "save"
      /\ UNCHANGED <<mem, disk, edits, epoch, overlapped, restarts>>
  BY DEF PersistGraph
<1>2. /\ editor[c] \in EditorStates /\ editor[c].draft \in Nat /\ epoch \in Nat
      /\ store \in Workspace /\ store.graph \in Graph /\ store.rev \in Nat
  BY DEF DocumentsTypeOK, EditorStates, Workspace
<1>3. CASE ~Accepts(editor[c], store)
  BY <1>1, <1>3, AnswerEffect DEF PersistGraph, EditorAnswers
<1>4. CASE Accepts(editor[c], store)
  <2>1. PICK graph : graph = [store.graph EXCEPT !.edit = editor[c].draft, !.defaults = FALSE]
    OBVIOUS
  <2>2. graph \in Graph /\ graph.edit = editor[c].draft
    BY <1>2, <2>1 DEF Graph
  <2>3. PICK rev \in Nat : rev = store.rev + 1
    BY <1>2
  <2>4. PICK state : state = [store EXCEPT !.graph = graph, !.rev = rev, !.dirty = TRUE]
    OBVIOUS
  <2>5. /\ state \in Workspace /\ state.graph = graph /\ state.rev = rev
        /\ state.path = store.path /\ state.dirty
    BY <1>2, <2>2, <2>3, <2>4 DEF Workspace
  <2>6. PICK seen : seen = [edit |-> editor[c].draft, rev |-> rev, epoch |-> epoch]
    OBVIOUS
  <2>7. PICK e : e = [editor[c] EXCEPT !.draft = 0, !.seen = seen]
    OBVIOUS
  <2>8. /\ e \in EditorStates /\ e.seen = seen /\ e.alone = editor[c].alone
        /\ e.path = editor[c].path
    BY <1>2, <2>3, <2>6, <2>7 DEF EditorStates
  <2>9. Mutate(c, state, "snapshot", e)
    BY <1>4, <2>1, <2>3, <2>4, <2>5, <2>6, <2>7 DEF PersistGraph
  <2>10. editor'[c] = [e EXCEPT !.at = "assign", !.next = "snapshot", !.copy = state]
    BY <2>9, ContinueEffect DEF Mutate
  <2>11. editor'[c].path = editor[c].path
    BY <2>8, <2>10 DEF EditorStates
  <2>12. "snapshot" \in Places
    BY DEF Places
  <2>13. Mutates(c, state, "snapshot", editor[c].path) /\ editor'[c].seen = seen
    BY <2>5, <2>8, <2>9, <2>11, <2>12, MutateEffect DEF Mutates
  <2>14. store' = state
    BY <2>13 DEF Mutates
  <2>15. QED
    BY <1>1, <1>4, <2>2, <2>3, <2>5, <2>6, <2>13, <2>14
<1>5. QED
  BY <1>3, <1>4

\* The store changes beside a revision: the other calls of mutate.
LEMMA MutateKeepsSeen ==
    ASSUME DocumentsTypeOK, NEW c \in Editors, NEW state \in Workspace, NEW place \in Places,
           NEW path \in Projects \cup {NoProject},
           Mutate(c, state, place, [editor[c] EXCEPT !.path = path])
    PROVE  /\ Mutates(c, state, place, path) /\ editor'[c].seen = editor[c].seen
<1>1. PICK e : e = [editor[c] EXCEPT !.path = path]
  OBVIOUS
<1>2. editor[c] \in EditorStates
  BY DEF DocumentsTypeOK
<1>3. /\ e \in EditorStates /\ e.path = path /\ e.seen = editor[c].seen
      /\ e.alone = editor[c].alone
  BY <1>1, <1>2 DEF EditorStates
<1>4. Mutate(c, state, place, e)
  BY <1>1
<1>5. editor'[c] = [e EXCEPT !.at = "assign", !.next = place, !.copy = state]
  BY <1>4, ContinueEffect DEF Mutate
<1>6. editor'[c].path = path
  BY <1>3, <1>5 DEF EditorStates
<1>7. QED
  BY <1>3, <1>4, <1>6, MutateEffect DEF Mutates

LEMMA SamePath ==
    ASSUME DocumentsTypeOK, NEW c \in Editors
    PROVE  /\ [editor[c] EXCEPT !.path = editor[c].path] = editor[c]
           /\ editor[c].path \in Projects \cup {NoProject}
  BY DEF DocumentsTypeOK, EditorStates

LEMMA RefreshEffect ==
    ASSUME DocumentsTypeOK, NEW c \in Editors, RefreshSnapshot(c)
    PROVE  /\ At(c, "snapshot") /\ UNCHANGED <<mem, disk, edits, epoch, overlapped, restarts>>
           /\ Mutates(c, store, "path", editor[c].path) /\ editor'[c].seen = editor[c].seen
<1>1. Mutate(c, store, "path", [editor[c] EXCEPT !.path = editor[c].path])
  BY SamePath DEF RefreshSnapshot
<1>2. store \in Workspace /\ "path" \in Places
  BY DEF DocumentsTypeOK, Places
<1>3. At(c, "snapshot") /\ UNCHANGED <<mem, disk, edits, epoch, overlapped, restarts>>
  BY DEF RefreshSnapshot
<1>4. QED
  BY <1>1, <1>2, <1>3, MutateKeepsSeen, SamePath

LEMMA DefaultsEffect ==
    ASSUME DocumentsTypeOK, NEW c \in Editors, SetDefaults(c)
    PROVE  /\ At(c, "persist") /\ editor[c].ask = "defaults"
           /\ UNCHANGED <<mem, disk, edits, epoch, overlapped, restarts>>
           /\ Mutates(c, store', "path", editor[c].path) /\ editor'[c].seen = editor[c].seen
           /\ store'.path = store.path /\ store'.dirty /\ store'.rev = store.rev
           /\ store'.graph.edit = store.graph.edit
<1>1. PICK graph : graph = [store.graph EXCEPT !.defaults = TRUE]
  OBVIOUS
<1>2. store \in Workspace /\ store.graph \in Graph
  BY DEF DocumentsTypeOK, Workspace
<1>3. graph \in Graph /\ graph.edit = store.graph.edit
  BY <1>1, <1>2 DEF Graph
<1>4. PICK state : state = [store EXCEPT !.graph = graph, !.dirty = TRUE]
  OBVIOUS
<1>5. /\ state \in Workspace /\ state.graph = graph /\ state.rev = store.rev
      /\ state.path = store.path /\ state.dirty
  BY <1>2, <1>3, <1>4 DEF Workspace
<1>6. Mutate(c, state, "path", editor[c])
  BY <1>1, <1>4 DEF SetDefaults
<1>7. Mutate(c, state, "path", [editor[c] EXCEPT !.path = editor[c].path])
  BY <1>6, SamePath
<1>8. "path" \in Places
  BY DEF Places
<1>9. Mutates(c, state, "path", editor[c].path) /\ editor'[c].seen = editor[c].seen
  BY <1>5, <1>7, <1>8, MutateKeepsSeen, SamePath
<1>10. store' = state
  BY <1>9 DEF Mutates
<1>11. /\ At(c, "persist") /\ editor[c].ask = "defaults"
       /\ UNCHANGED <<mem, disk, edits, epoch, overlapped, restarts>>
  BY DEF SetDefaults
<1>12. QED
  BY <1>3, <1>5, <1>9, <1>10, <1>11

LEMMA MarkCleanEffect ==
    ASSUME DocumentsTypeOK, NEW c \in Editors, MarkClean(c)
    PROVE  /\ At(c, "clean") /\ UNCHANGED <<mem, disk, edits, epoch, restarts>>
           /\ overlapped' = (overlapped /\ ~editor[c].alone) /\ overlapped' \in BOOLEAN
           /\ Mutates(c, store', "idle", NoProject) /\ editor'[c].seen = editor[c].seen
           /\ store'.path = editor[c].path /\ store'.rev = store.rev
           /\ store'.graph = store.graph
<1>1. PICK state : state = [store EXCEPT !.path = editor[c].path, !.dirty = FALSE]
  OBVIOUS
<1>2. store \in Workspace
  BY DEF DocumentsTypeOK
<1>3. /\ state \in Workspace /\ state.graph = store.graph /\ state.rev = store.rev
      /\ state.path = editor[c].path
  BY <1>1, <1>2, SamePath DEF Workspace
<1>4. Mutate(c, state, "idle", [editor[c] EXCEPT !.path = NoProject])
  BY <1>1 DEF MarkClean
<1>5. "idle" \in Places /\ NoProject \in Projects \cup {NoProject}
  BY DEF Places
<1>6. Mutates(c, state, "idle", NoProject) /\ editor'[c].seen = editor[c].seen
  BY <1>3, <1>4, <1>5, MutateKeepsSeen
<1>7. store' = state
  BY <1>6 DEF Mutates
<1>8. /\ At(c, "clean") /\ UNCHANGED <<mem, disk, edits, epoch, restarts>>
      /\ overlapped' = (overlapped /\ ~editor[c].alone)
  BY DEF MarkClean
<1>9. overlapped' \in BOOLEAN
  BY <1>8 DEF DocumentsTypeOK
<1>10. QED
  BY <1>3, <1>6, <1>7, <1>8, <1>9

LEMMA ReplaceEffect ==
    ASSUME DocumentsTypeOK, NEW c \in Editors, ReplaceWorkspace(c)
    PROVE  /\ At(c, "replace") /\ UNCHANGED <<mem, disk, edits, overlapped, restarts>>
           /\ epoch' = epoch + 1 /\ editor'[c].seen = editor[c].seen
           /\ Mutates(c, editor[c].copy, "idle", editor[c].path)
<1>1. Mutate(c, editor[c].copy, "idle", [editor[c] EXCEPT !.path = editor[c].path])
  BY SamePath DEF ReplaceWorkspace
<1>2. editor[c].copy \in Workspace /\ "idle" \in Places
  BY DEF DocumentsTypeOK, EditorStates, Places
<1>3. /\ At(c, "replace") /\ UNCHANGED <<mem, disk, edits, overlapped, restarts>>
      /\ epoch' = epoch + 1
  BY DEF ReplaceWorkspace
<1>4. QED
  BY <1>1, <1>2, <1>3, MutateKeepsSeen, SamePath

LEMMA ResetEffect ==
    ASSUME DocumentsTypeOK, NEW c \in Editors, ResetWorkspace(c)
    PROVE  /\ At(c, "reset") /\ UNCHANGED <<mem, disk, edits, overlapped, restarts>>
           /\ epoch' = epoch + 1 /\ editor'[c].seen = editor[c].seen
           /\ Mutates(c, InitialWorkspace, "idle", editor[c].path)
<1>1. Mutate(c, InitialWorkspace, "idle", [editor[c] EXCEPT !.path = editor[c].path])
  BY SamePath DEF ResetWorkspace
<1>2. InitialWorkspace \in Workspace /\ "idle" \in Places
  BY WorkspaceTypes DEF Places
<1>3. /\ At(c, "reset") /\ UNCHANGED <<mem, disk, edits, overlapped, restarts>>
      /\ epoch' = epoch + 1
  BY DEF ResetWorkspace
<1>4. QED
  BY <1>1, <1>2, <1>3, MutateKeepsSeen, SamePath

\* The steps that leave the store as it is.
LEMMA GoesOnEffect ==
    ASSUME DocumentsTypeOK, NEW c \in Editors, NEW place \in Places,
           NEW path \in Projects \cup {NoProject}, NEW copy \in Workspace,
           Continue(c, [editor[c] EXCEPT !.at = place, !.path = path, !.copy = copy])
    PROVE  EditorGoesOn(c, place, path, copy)
  BY GoOnEffect DEF EditorGoesOn

LEMMA EntryUpdates ==
    ASSUME DocumentsTypeOK, NEW c \in Editors, NEW place, NEW path, NEW copy
    PROVE  /\ editor[c].copy \in Workspace /\ editor[c].path \in Projects \cup {NoProject}
           /\ [editor[c] EXCEPT !.at = place]
              = [editor[c] EXCEPT !.at = place, !.path = editor[c].path,
                                  !.copy = editor[c].copy]
           /\ [editor[c] EXCEPT !.at = place, !.path = path]
              = [editor[c] EXCEPT !.at = place, !.path = path, !.copy = editor[c].copy]
           /\ [editor[c] EXCEPT !.at = place, !.copy = copy]
              = [editor[c] EXCEPT !.at = place, !.path = editor[c].path, !.copy = copy]
<1>1. editor[c] \in EditorStates
  BY DEF DocumentsTypeOK
<1>2. QED
  BY <1>1 DEF EditorStates

LEMMA ReadPathEffect ==
    ASSUME DocumentsTypeOK, NEW c \in Editors, ReadPath(c)
    PROVE  /\ At(c, "path") /\ UNCHANGED <<store, mem, disk, edits, epoch, overlapped, restarts>>
           /\ \/ EditorAnswers(c)
              \/ mem.path \in Projects /\ EditorGoesOn(c, "build", mem.path, editor[c].copy)
<1>1. At(c, "path") /\ UNCHANGED <<store, mem, disk, edits, epoch, overlapped, restarts>>
  BY DEF ReadPath
<1>2. CASE mem.path = NoProject
  BY <1>1, <1>2, AnswerEffect DEF ReadPath, EditorAnswers
<1>3. CASE mem.path # NoProject
  <2>1. Continue(c, [editor[c] EXCEPT !.at = "build", !.path = mem.path])
    BY <1>3 DEF ReadPath
  <2>2. mem.path \in Projects
    BY <1>3 DEF DocumentsTypeOK, Workspace
  <2>3. "build" \in Places
    BY DEF Places
  <2>4. Continue(c, [editor[c] EXCEPT !.at = "build", !.path = mem.path,
                                      !.copy = editor[c].copy])
    BY <2>1, EntryUpdates
  <2>5. EditorGoesOn(c, "build", mem.path, editor[c].copy)
    BY <2>2, <2>3, <2>4, GoesOnEffect, EntryUpdates
  <2>6. QED
    BY <1>1, <2>2, <2>5
<1>4. QED
  BY <1>2, <1>3

LEMMA BuildEffect ==
    ASSUME DocumentsTypeOK, NEW c \in Editors, BuildLayout(c)
    PROVE  /\ At(c, "build") /\ UNCHANGED <<store, mem, disk, edits, epoch, overlapped, restarts>>
           /\ EditorGoesOn(c, "graph", editor[c].path, mem)
<1>1. Continue(c, [editor[c] EXCEPT !.at = "graph", !.path = editor[c].path, !.copy = mem])
  BY EntryUpdates DEF BuildLayout
<1>2. mem \in Workspace /\ "graph" \in Places
  BY DEF DocumentsTypeOK, Places
<1>3. EditorGoesOn(c, "graph", editor[c].path, mem)
  BY <1>1, <1>2, GoesOnEffect, EntryUpdates
<1>4. QED
  BY <1>3 DEF BuildLayout

LEMMA GraphFileEffect ==
    ASSUME DocumentsTypeOK, NEW c \in Editors, WriteGraphFile(c)
    PROVE  /\ At(c, "graph") /\ UNCHANGED <<store, mem, edits, epoch, overlapped, restarts>>
           /\ EditorGoesOn(c, "manifest", editor[c].path, editor[c].copy)
           /\ disk' \in Disk
           /\ \A p \in Projects :
                 /\ disk'[p].rev = disk[p].rev
                 /\ disk'[p].graph = IF p = editor[c].path THEN editor[c].copy.graph
                                     ELSE disk[p].graph
<1>1. Continue(c, [editor[c] EXCEPT !.at = "manifest", !.path = editor[c].path,
                                    !.copy = editor[c].copy])
  BY EntryUpdates DEF WriteGraphFile
<1>2. "manifest" \in Places
  BY DEF Places
<1>3. EditorGoesOn(c, "manifest", editor[c].path, editor[c].copy)
  BY <1>1, <1>2, GoesOnEffect, EntryUpdates
<1>4. editor[c].copy.graph \in Graph
  BY EntryUpdates DEF Workspace
<1>5. PICK graph \in Graph : graph = editor[c].copy.graph
  BY <1>4
<1>6. disk' = [disk EXCEPT ![editor[c].path].graph = graph]
  BY <1>5 DEF WriteGraphFile
<1>7. disk \in Disk
  BY DEF Disk, DocumentsTypeOK
<1>8. /\ disk' \in Disk
      /\ \A p \in Projects :
            /\ disk'[p].rev = disk[p].rev
            /\ disk'[p].graph = IF p = editor[c].path THEN graph ELSE disk[p].graph
  BY <1>5, <1>6, <1>7 DEF Disk
<1>9. QED
  BY <1>3, <1>5, <1>8 DEF WriteGraphFile

LEMMA ManifestEffect ==
    ASSUME DocumentsTypeOK, NEW c \in Editors, WriteManifest(c)
    PROVE  /\ At(c, "manifest") /\ UNCHANGED <<store, mem, edits, epoch, overlapped, restarts>>
           /\ EditorAnswers(c) \/ EditorGoesOn(c, "clean", editor[c].path, InitialWorkspace)
           /\ disk' \in Disk
           /\ \A p \in Projects :
                 /\ disk'[p].graph = disk[p].graph
                 /\ disk'[p].rev = IF p = editor[c].path THEN editor[c].copy.rev
                                   ELSE disk[p].rev
<1>2. ASSUME editor[c].ask # "save"
      PROVE  EditorGoesOn(c, "clean", editor[c].path, InitialWorkspace)
  <2>1. Continue(c, [editor[c] EXCEPT !.at = "clean", !.copy = InitialWorkspace])
    BY <1>2 DEF WriteManifest
  <2>2. Continue(c, [editor[c] EXCEPT !.at = "clean", !.path = editor[c].path,
                                      !.copy = InitialWorkspace])
    BY <2>1, EntryUpdates
  <2>3. "clean" \in Places
    BY DEF Places
  <2>4. QED
    BY <2>2, <2>3, GoesOnEffect, EntryUpdates, WorkspaceTypes
<1>3. EditorAnswers(c) \/ EditorGoesOn(c, "clean", editor[c].path, InitialWorkspace)
  <2>1. CASE editor[c].ask = "save"
    BY <2>1, AnswerEffect DEF WriteManifest, EditorAnswers
  <2>2. QED
    BY <1>2, <2>1
<1>4. editor[c].copy.rev \in Nat
  BY EntryUpdates DEF Workspace
<1>5. PICK rev \in Nat : rev = editor[c].copy.rev
  BY <1>4
<1>6. disk' = [disk EXCEPT ![editor[c].path].rev = rev]
  BY <1>5 DEF WriteManifest
<1>7. disk \in Disk
  BY DEF Disk, DocumentsTypeOK
<1>8. /\ disk' \in Disk
      /\ \A p \in Projects :
            /\ disk'[p].graph = disk[p].graph
            /\ disk'[p].rev = IF p = editor[c].path THEN rev ELSE disk[p].rev
  BY <1>5, <1>6, <1>7 DEF Disk
<1>9. QED
  BY <1>3, <1>5, <1>8 DEF WriteManifest

LEMMA ReadFileEffect ==
    ASSUME DocumentsTypeOK, NEW c \in Editors, ReadGraphFile(c), editor[c].path \in Projects
    PROVE  /\ At(c, "read_graph")
           /\ UNCHANGED <<store, mem, disk, edits, epoch, overlapped, restarts>>
           /\ \/ EditorAnswers(c)
              \/ \E copy \in Workspace :
                    /\ EditorGoesOn(c, "replace", editor[c].path, copy)
                    /\ copy.path = editor[c].path /\ copy.graph = disk[editor[c].path].graph
                    /\ copy.rev = editor[c].copy.rev /\ copy.dirty = editor[c].copy.dirty
<1>1. /\ At(c, "read_graph")
      /\ UNCHANGED <<store, mem, disk, edits, epoch, overlapped, restarts>>
  BY DEF ReadGraphFile
<1>2. CASE disk[editor[c].path].graph = Torn
  BY <1>1, <1>2, AnswerEffect DEF ReadGraphFile, EditorAnswers
<1>3. CASE disk[editor[c].path].graph # Torn
  <2>1. PICK copy : copy = [editor[c].copy EXCEPT !.path = editor[c].path,
                                                  !.graph = disk[editor[c].path].graph]
    OBVIOUS
  <2>2. PICK e : e = [editor[c] EXCEPT !.at = "replace", !.copy.path = editor[c].path,
                                       !.copy.graph = disk[editor[c].path].graph]
    OBVIOUS
  <2>3. Continue(c, e)
    BY <1>3, <2>2 DEF ReadGraphFile
  <2>4. editor[c] \in EditorStates
    BY DEF DocumentsTypeOK
  <2>5. e = [editor[c] EXCEPT !.at = "replace", !.path = editor[c].path, !.copy = copy]
    BY <2>1, <2>2, <2>4 DEF EditorStates
  <2>6. disk[editor[c].path].graph \in Graph
    BY <1>3 DEF DocumentsTypeOK
  <2>7. /\ copy \in Workspace /\ copy.path = editor[c].path
        /\ copy.graph = disk[editor[c].path].graph
        /\ copy.rev = editor[c].copy.rev /\ copy.dirty = editor[c].copy.dirty
    BY <2>1, <2>6, EntryUpdates DEF Workspace
  <2>8. "replace" \in Places
    BY DEF Places
  <2>9. EditorGoesOn(c, "replace", editor[c].path, copy)
    BY <2>3, <2>5, <2>7, <2>8, GoesOnEffect, EntryUpdates
  <2>10. QED
    BY <1>1, <2>7, <2>9
<1>4. QED
  BY <1>2, <1>3

-----------------------------------------------------------------------------
(* Types, with what a request holds in its hand at each place.             *)

Placed(c) ==
    /\ At(c, "idle") => editor[c].copy = InitialWorkspace
    /\ editor[c].at \in {"build", "graph", "manifest", "clean", "read_graph", "replace"}
       => editor[c].path \in Projects
    /\ At(c, "assign") => editor[c].next \in {"idle", "snapshot", "path"}

DocumentsInv == DocumentsTypeOK /\ \A c \in Editors : Placed(c)

LEMMA TypesInit == DocumentsInit => DocumentsInv
<1> SUFFICES ASSUME DocumentsInit PROVE DocumentsInv
  OBVIOUS
<1>2. EmptyFiles \in [graph : Graph \cup {Torn}, rev : Nat \cup {Torn}]
  BY DEF EmptyFiles
<1>3. IdleEditor.at = "idle" /\ IdleEditor.copy = InitialWorkspace
  BY DEF IdleEditor
<1>4. \A c \in Editors : editor[c] = IdleEditor
  BY DEF DocumentsInit
<1>5. /\ store \in Workspace /\ mem \in Workspace /\ usage \in Sessions
      /\ editor \in [Editors -> EditorStates]
  BY WorkspaceTypes DEF DocumentsInit
<1>6. disk \in [Projects -> [graph : Graph \cup {Torn}, rev : Nat \cup {Torn}]]
  BY <1>2 DEF DocumentsInit
<1>7. edits \in Nat /\ epoch \in Nat /\ restarts \in Nat /\ overlapped \in BOOLEAN
  BY DEF DocumentsInit
<1>8. \A c \in Editors : Placed(c)
  BY <1>3, <1>4 DEF Placed, At
<1>9. QED
  BY <1>5, <1>6, <1>7, <1>8 DEF DocumentsInv, DocumentsTypeOK

\* The steps of a thread, in the shapes above.
LEMMA ThreadTypes ==
    ASSUME DocumentsInv, NEW c \in Editors, RequestThread(c), UNCHANGED usage
    PROVE  DocumentsTypeOK' /\ Placed(c)'
<1>0. DocumentsTypeOK /\ Placed(c) /\ editor[c].path \in Projects \cup {NoProject}
  BY SamePath DEF DocumentsInv
<1>1. CASE Assign(c)
  <2>1. DocumentsTypeOK'
    BY <1>0, <1>1, AssignEffect DEF DocumentsTypeOK, EditorAnswers, EditorGoesOn
  <2>2. Placed(c)'
    BY <1>0, <1>1, AssignEffect DEF Placed, At, EditorAnswers, EditorGoesOn
  <2>3. QED
    BY <2>1, <2>2
<1>2. CASE PersistGraph(c)
  <2>1. DocumentsTypeOK'
    BY <1>0, <1>2, PersistEffect DEF DocumentsTypeOK, EditorAnswers, Mutates
  <2>2. Placed(c)'
    BY <1>0, <1>2, PersistEffect DEF Placed, At, EditorAnswers, Mutates
  <2>3. QED
    BY <2>1, <2>2
<1>3. CASE RefreshSnapshot(c)
  <2>1. DocumentsTypeOK'
    BY <1>0, <1>3, RefreshEffect DEF DocumentsTypeOK, Mutates
  <2>2. Placed(c)'
    BY <1>0, <1>3, RefreshEffect DEF Placed, At, Mutates
  <2>3. QED
    BY <2>1, <2>2
<1>4. CASE ReadPath(c)
  <2>1. DocumentsTypeOK'
    BY <1>0, <1>4, ReadPathEffect DEF DocumentsTypeOK, EditorAnswers, EditorGoesOn
  <2>2. Placed(c)'
    BY <1>0, <1>4, ReadPathEffect DEF Placed, At, EditorAnswers, EditorGoesOn
  <2>3. QED
    BY <2>1, <2>2
<1>5. CASE SetDefaults(c)
  <2>1. DocumentsTypeOK'
    BY <1>0, <1>5, DefaultsEffect DEF DocumentsTypeOK, Mutates
  <2>2. Placed(c)'
    BY <1>0, <1>5, DefaultsEffect DEF Placed, At, Mutates
  <2>3. QED
    BY <2>1, <2>2
<1>6. CASE BuildLayout(c)
  <2>1. DocumentsTypeOK'
    BY <1>0, <1>6, BuildEffect DEF DocumentsTypeOK, EditorGoesOn
  <2>2. Placed(c)'
    BY <1>0, <1>6, BuildEffect DEF Placed, At, EditorGoesOn
  <2>3. QED
    BY <2>1, <2>2
<1>7. CASE WriteGraphFile(c)
  <2>1. DocumentsTypeOK'
    BY <1>0, <1>7, GraphFileEffect DEF DocumentsTypeOK, EditorGoesOn, Disk
  <2>2. Placed(c)'
    BY <1>0, <1>7, GraphFileEffect DEF Placed, At, EditorGoesOn
  <2>3. QED
    BY <2>1, <2>2
<1>8. CASE WriteManifest(c)
  <2>1. DocumentsTypeOK'
    BY <1>0, <1>8, ManifestEffect DEF DocumentsTypeOK, EditorAnswers, EditorGoesOn, Disk
  <2>2. Placed(c)'
    BY <1>0, <1>8, ManifestEffect DEF Placed, At, EditorAnswers, EditorGoesOn
  <2>3. QED
    BY <2>1, <2>2
<1>9. CASE MarkClean(c)
  <2>1. DocumentsTypeOK'
    BY <1>0, <1>9, MarkCleanEffect DEF DocumentsTypeOK, Mutates
  <2>2. Placed(c)'
    BY <1>0, <1>9, MarkCleanEffect DEF Placed, At, Mutates
  <2>3. QED
    BY <2>1, <2>2
<1>10. CASE ReadGraphFile(c)
  <2>1. editor[c].path \in Projects
    BY <1>0, <1>10 DEF Placed, ReadGraphFile, At
  <2>2. DocumentsTypeOK'
    BY <1>0, <1>10, <2>1, ReadFileEffect DEF DocumentsTypeOK, EditorAnswers, EditorGoesOn
  <2>3. Placed(c)'
    BY <1>0, <1>10, <2>1, ReadFileEffect DEF Placed, At, EditorAnswers, EditorGoesOn
  <2>4. QED
    BY <2>2, <2>3
<1>11. CASE ReplaceWorkspace(c)
  <2>1. epoch' \in Nat
    BY <1>0, <1>11, ReplaceEffect DEF DocumentsTypeOK
  <2>2. DocumentsTypeOK'
    BY <1>0, <1>11, <2>1, ReplaceEffect DEF DocumentsTypeOK, Mutates
  <2>3. Placed(c)'
    BY <1>0, <1>11, ReplaceEffect DEF Placed, At, Mutates
  <2>4. QED
    BY <2>2, <2>3
<1>12. CASE ResetWorkspace(c)
  <2>1. epoch' \in Nat
    BY <1>0, <1>12, ResetEffect DEF DocumentsTypeOK
  <2>2. DocumentsTypeOK'
    BY <1>0, <1>12, <2>1, ResetEffect DEF DocumentsTypeOK, Mutates
  <2>3. Placed(c)'
    BY <1>0, <1>12, ResetEffect DEF Placed, At, Mutates
  <2>4. QED
    BY <2>2, <2>3
<1>13. QED
  BY <1>1, <1>2, <1>3, <1>4, <1>5, <1>6, <1>7, <1>8, <1>9, <1>10, <1>11, <1>12
     DEF RequestThread

\* A client looks at the graph.
LEMMA LoadEffect ==
    ASSUME DocumentsTypeOK, NEW c \in Editors, LoadGraph(c)
    PROVE  /\ At(c, "idle") /\ mem' = store
           /\ UNCHANGED <<store, disk, edits, epoch, overlapped, restarts>>
           /\ editor' \in [Editors -> EditorStates]
           /\ editor'[c].seen = [edit |-> store.graph.edit, rev |-> store.rev, epoch |-> epoch]
           /\ editor'[c].at = editor[c].at /\ editor'[c].copy = editor[c].copy
<1>1. PICK seen : seen = [edit |-> store.graph.edit, rev |-> store.rev, epoch |-> epoch]
  OBVIOUS
<1>2. seen \in [edit : Nat, rev : Nat, epoch : Nat] /\ editor[c] \in EditorStates
  BY <1>1 DEF DocumentsTypeOK, Workspace, Graph
<1>3. PICK e : e = [editor[c] EXCEPT !.seen = seen]
  OBVIOUS
<1>4. e \in EditorStates /\ e.seen = seen /\ e.at = editor[c].at /\ e.copy = editor[c].copy
  BY <1>2, <1>3 DEF EditorStates
<1>5. editor' = [editor EXCEPT ![c] = e]
  BY <1>1, <1>3 DEF LoadGraph, DocumentsTypeOK
<1>6. editor' \in [Editors -> EditorStates] /\ editor'[c] = e
  BY <1>4, <1>5 DEF DocumentsTypeOK
<1>7. /\ At(c, "idle") /\ mem' = store
      /\ UNCHANGED <<store, disk, edits, epoch, overlapped, restarts>>
  BY DEF LoadGraph, Busy
<1>8. QED
  BY <1>1, <1>4, <1>6, <1>7

\* Every step is one of five: a crash, a look at the graph, a request that
\* enters, a step of its thread, or nothing.
LEMMA StepShapes ==
    ASSUME DocumentsTypeOK, [DocumentsNext]_docVars
    PROVE  \/ Crash /\ UNCHANGED usage
           \/ \E c \in Editors : LoadGraph(c) /\ UNCHANGED usage
           \/ \E c \in Editors : UNCHANGED usage /\ edits' \in Nat
                                 /\ \E e : Entering(c, e) /\ Enter(c, e)
           \/ \E c \in Editors : RequestThread(c) /\ UNCHANGED usage
           \/ UNCHANGED docVars
  BY ClientSteps DEF DocumentsNext

LEMMA EnteringEntry ==
    ASSUME DocumentsTypeOK, NEW c \in Editors, NEW e, Entering(c, e), Enter(c, e)
    PROVE  LET f == editor'[c]
           IN  /\ f.at = e.at /\ f.path = e.path /\ f.copy = e.copy /\ f.seen = editor[c].seen
<1>1. e \in EditorStates /\ e.seen = editor[c].seen
  BY DEF Entering
<1>2. editor'[c] = [e EXCEPT !.alone = editor'[c].alone]
  BY <1>1, EnterEffect
<1>3. QED
  BY <1>1, <1>2 DEF EditorStates

\* What the others keep when a request enters.
LEMMA OthersEntry ==
    ASSUME DocumentsTypeOK, NEW c \in Editors, NEW e, Entering(c, e), Enter(c, e),
           NEW d \in Editors \ {c}
    PROVE  LET f == editor'[d]
           IN  /\ f.at = editor[d].at /\ f.path = editor[d].path /\ f.copy = editor[d].copy
               /\ f.seen = editor[d].seen /\ f.next = editor[d].next /\ ~f.alone
<1>1. editor'[d] = [editor[d] EXCEPT !.alone = FALSE]
  BY EnterEffect DEF Entering
<1>2. editor[d] \in EditorStates
  BY DEF DocumentsTypeOK
<1>3. QED
  BY <1>1, <1>2 DEF EditorStates

LEMMA RestingEntry ==
    ASSUME NEW e \in EditorStates
    PROVE  Resting(e).at = "idle" /\ Resting(e).copy = InitialWorkspace /\ Resting(e).seen = e.seen
  BY DEF Resting, IdleEditor

LEMMA TypesStep == DocumentsInv /\ [DocumentsNext]_docVars => DocumentsInv'
<1> SUFFICES ASSUME DocumentsInv, [DocumentsNext]_docVars PROVE DocumentsInv'
  OBVIOUS
<1>0. DocumentsTypeOK /\ \A c \in Editors : Placed(c) /\ editor[c] \in EditorStates
  BY DEF DocumentsInv, DocumentsTypeOK
<1>1. CASE Crash /\ UNCHANGED usage
  <2>1. DocumentsTypeOK'
    BY <1>0, <1>1, CrashEffect DEF DocumentsTypeOK, TornFrom, Disk
  <2>2. \A c \in Editors : editor'[c].at = "idle" /\ editor'[c].copy = InitialWorkspace
    BY <1>0, <1>1, CrashEffect, RestingEntry
  <2>3. \A c \in Editors : Placed(c)'
    BY <2>2 DEF Placed, At
  <2>4. QED
    BY <2>1, <2>3 DEF DocumentsInv
<1>2. ASSUME NEW c \in Editors, LoadGraph(c), UNCHANGED usage PROVE DocumentsInv'
  <2>1. DocumentsTypeOK'
    BY <1>0, <1>2, LoadEffect DEF DocumentsTypeOK
  <2>2. Placed(c)'
    BY <1>0, <1>2, LoadEffect DEF Placed, At
  <2>3. \A d \in Editors \ {c} : Placed(d)'
    BY <1>0, <1>2, OwnEntryOnly DEF Placed, At
  <2>4. QED
    BY <2>1, <2>2, <2>3 DEF DocumentsInv
<1>3. ASSUME NEW c \in Editors, UNCHANGED usage, edits' \in Nat,
             NEW e, Entering(c, e), Enter(c, e)
      PROVE DocumentsInv'
  <2>1. DocumentsTypeOK'
    BY <1>0, <1>3, EnterEffect DEF DocumentsTypeOK, Entering
  <2>2. Placed(c)'
    BY <1>0, <1>3, EnteringEntry DEF Placed, At, Entering
  <2>3. \A d \in Editors \ {c} : Placed(d)'
    BY <1>0, <1>3, OthersEntry DEF Placed, At
  <2>4. QED
    BY <2>1, <2>2, <2>3 DEF DocumentsInv
<1>4. ASSUME NEW c \in Editors, RequestThread(c), UNCHANGED usage PROVE DocumentsInv'
  <2>1. DocumentsTypeOK' /\ Placed(c)'
    BY <1>4, ThreadTypes
  <2>2. \A d \in Editors \ {c} : Placed(d)'
    BY <1>0, <1>4, OwnEntryOnly DEF Placed, At
  <2>3. QED
    BY <2>1, <2>2 DEF DocumentsInv
<1>5. CASE UNCHANGED docVars
  BY <1>0, <1>5 DEF DocumentsInv, docVars, DocumentsTypeOK, Placed, At
<1>6. QED
  BY <1>0, <1>1, <1>2, <1>3, <1>4, <1>5, StepShapes

\* The variables keep their types: in particular a request never writes to the
\* files of no project (save_project_as, open_project and the save of a graph
\* name one).
THEOREM DocumentsTypes == DocumentsSpec => []DocumentsTypeOK
<1>1. DocumentsInv => DocumentsTypeOK
  BY DEF DocumentsInv
<1>2. QED
  BY <1>1, TypesInit, TypesStep, PTL DEF DocumentsSpec

-----------------------------------------------------------------------------
(* What a client has seen.                                                 *)

\* Revisions only grow while the workspace is the same, and a revision stands
\* for one graph: what a client saw under the current one is the current graph.
Seen(c) ==
    LET s == editor[c].seen
    IN  /\ s.epoch <= epoch
        /\ s.epoch = epoch => s.rev <= store.rev
        /\ (s.epoch = epoch /\ s.rev = store.rev) => s.edit = store.graph.edit

SeenInv == \A c \in Editors : Seen(c)

LEMMA SeenInit == DocumentsInit => SeenInv
<1> SUFFICES ASSUME DocumentsInit PROVE SeenInv
  OBVIOUS
<1>1. /\ IdleEditor.seen = [edit |-> 0, rev |-> 0, epoch |-> 0]
      /\ InitialWorkspace.rev = 0 /\ InitialWorkspace.graph.edit = 0
  BY DEF IdleEditor, InitialWorkspace, EmptyGraph
<1>2. \A c \in Editors : editor[c] = IdleEditor
  BY DEF DocumentsInit
<1>3. store = InitialWorkspace /\ epoch = 0
  BY DEF DocumentsInit
<1>4. QED
  BY <1>1, <1>2, <1>3 DEF SeenInv, Seen

\* What everyone has seen stays true when no graph and no revision changes.
LEMMA SeenKept ==
    ASSUME SeenInv, epoch' = epoch, store'.rev = store.rev,
           store'.graph.edit = store.graph.edit,
           \A c \in Editors : editor'[c].seen = editor[c].seen
    PROVE  SeenInv'
  BY DEF SeenInv, Seen

\* Nothing that was seen names a workspace that comes later.
LEMMA SeenReplaced ==
    ASSUME DocumentsInv, SeenInv, epoch' = epoch + 1,
           \A c \in Editors : editor'[c].seen = editor[c].seen
    PROVE  SeenInv'
<1>1. \A c \in Editors : editor[c].seen.epoch \in Nat /\ epoch \in Nat
  BY DEF DocumentsInv, DocumentsTypeOK, EditorStates
<1>2. \A c \in Editors : editor[c].seen.epoch < epoch'
  BY <1>1 DEF SeenInv, Seen
<1>3. QED
  BY <1>1, <1>2 DEF SeenInv, Seen

LEMMA SeenByThread ==
    ASSUME DocumentsInv, SeenInv, NEW c \in Editors, RequestThread(c)
    PROVE  SeenInv'
<1>0. DocumentsTypeOK /\ store.rev \in Nat /\ Placed(c)
  BY DEF DocumentsInv, DocumentsTypeOK, Workspace
<1>1. \A d \in Editors \ {c} : editor'[d] = editor[d]
  BY <1>0, OwnEntryOnly
<1>2. CASE Assign(c) \/ ReadPath(c) \/ BuildLayout(c) \/ WriteGraphFile(c) \/ WriteManifest(c)
           \/ ReadGraphFile(c)
  <2>1. ReadGraphFile(c) => editor[c].path \in Projects
    BY <1>0 DEF Placed, ReadGraphFile, At
  <2>2. editor'[c].seen = editor[c].seen /\ epoch' = epoch /\ store' = store
    BY <1>0, <1>2, <2>1, AssignEffect, ReadPathEffect, BuildEffect, GraphFileEffect,
       ManifestEffect, ReadFileEffect DEF EditorAnswers, EditorGoesOn
  <2>3. \A d \in Editors : editor'[d].seen = editor[d].seen
    BY <1>1, <2>2
  <2>4. store'.rev = store.rev /\ store'.graph.edit = store.graph.edit
    BY <2>2
  <2>5. QED
    BY <2>2, <2>3, <2>4, SeenKept
<1>3. CASE RefreshSnapshot(c) \/ SetDefaults(c) \/ MarkClean(c)
  <2>1. /\ editor'[c].seen = editor[c].seen /\ epoch' = epoch
        /\ store'.rev = store.rev /\ store'.graph.edit = store.graph.edit
    BY <1>0, <1>3, RefreshEffect, DefaultsEffect, MarkCleanEffect DEF Mutates
  <2>2. \A d \in Editors : editor'[d].seen = editor[d].seen
    BY <1>1, <2>1
  <2>3. QED
    BY <2>1, <2>2, SeenKept
<1>4. CASE ReplaceWorkspace(c) \/ ResetWorkspace(c)
  <2>1. editor'[c].seen = editor[c].seen /\ epoch' = epoch + 1
    BY <1>0, <1>4, ReplaceEffect, ResetEffect
  <2>2. \A d \in Editors : editor'[d].seen = editor[d].seen
    BY <1>1, <2>1
  <2>3. QED
    BY <2>1, <2>2, SeenReplaced
<1>5. CASE PersistGraph(c)
  <2>1. CASE EditorAnswers(c) /\ store' = store
    <3>1. \A d \in Editors : editor'[d].seen = editor[d].seen
      BY <1>1, <2>1 DEF EditorAnswers
    <3>2. epoch' = epoch /\ store'.rev = store.rev /\ store'.graph.edit = store.graph.edit
      BY <1>0, <1>5, <2>1, PersistEffect
    <3>3. QED
      BY <3>1, <3>2, SeenKept
  <2>2. CASE /\ store'.rev = store.rev + 1
             /\ editor'[c].seen = [edit |-> store'.graph.edit, rev |-> store'.rev,
                                   epoch |-> epoch]
    <3>1. epoch' = epoch /\ epoch \in Nat
      BY <1>0, <1>5, PersistEffect DEF DocumentsTypeOK
    <3>2. Seen(c)'
      BY <2>2, <3>1, <1>0 DEF Seen
    <3>3. ASSUME NEW d \in Editors \ {c} PROVE Seen(d)'
      <4>1. /\ editor[d].seen.rev \in Nat /\ editor[d].seen.epoch \in Nat /\ Seen(d)
            /\ editor'[d].seen = editor[d].seen
        BY <1>0, <1>1, <3>3 DEF DocumentsTypeOK, EditorStates, SeenInv
      <4>2. QED
        BY <1>0, <2>2, <3>1, <4>1 DEF Seen
    <3>4. QED
      BY <3>2, <3>3 DEF SeenInv
  <2>3. QED
    BY <1>0, <1>5, <2>1, <2>2, PersistEffect
<1>6. QED
  BY <1>2, <1>3, <1>4, <1>5 DEF RequestThread

LEMMA SeenStep == DocumentsInv /\ SeenInv /\ [DocumentsNext]_docVars => SeenInv'
<1> SUFFICES ASSUME DocumentsInv, SeenInv, [DocumentsNext]_docVars PROVE SeenInv'
  OBVIOUS
<1>0. DocumentsTypeOK /\ \A c \in Editors : editor[c] \in EditorStates
  BY DEF DocumentsInv, DocumentsTypeOK
<1>1. CASE Crash
  BY <1>0, <1>1, CrashEffect, RestingEntry, SeenKept
<1>2. ASSUME NEW c \in Editors, LoadGraph(c) PROVE SeenInv'
  <2>1. /\ store' = store /\ epoch' = epoch /\ epoch \in Nat /\ store.rev \in Nat
        /\ editor'[c].seen = [edit |-> store.graph.edit, rev |-> store.rev, epoch |-> epoch]
        /\ \A d \in Editors \ {c} : editor'[d] = editor[d]
    BY <1>0, <1>2, LoadEffect, OwnEntryOnly DEF DocumentsTypeOK, Workspace
  <2>2. Seen(c)'
    BY <2>1 DEF Seen
  <2>3. \A d \in Editors \ {c} : Seen(d)'
    BY <2>1 DEF SeenInv, Seen
  <2>4. QED
    BY <2>2, <2>3 DEF SeenInv
<1>3. ASSUME NEW c \in Editors, NEW e, Entering(c, e), Enter(c, e) PROVE SeenInv'
  <2>1. store' = store /\ epoch' = epoch
    BY <1>0, <1>3, EnterEffect DEF Entering
  <2>2. \A d \in Editors : editor'[d].seen = editor[d].seen
    BY <1>0, <1>3, EnteringEntry, OthersEntry
  <2>3. QED
    BY <2>1, <2>2, SeenKept
<1>4. ASSUME NEW c \in Editors, RequestThread(c) PROVE SeenInv'
  BY <1>4, SeenByThread
<1>5. CASE UNCHANGED docVars
  BY <1>5, SeenKept DEF docVars
<1>6. QED
  BY <1>0, <1>1, <1>2, <1>3, <1>4, <1>5, StepShapes

\* Only the thread of c takes c from one place to another.
LEMMA SavesItself ==
    ASSUME DocumentsInv, [DocumentsNext]_docVars, NEW c \in Editors, At(c, "persist"),
           editor[c].ask = "save", editor'[c].at = "assign"
    PROVE  PersistGraph(c)
<1>0. DocumentsTypeOK /\ \A d \in Editors : editor[d] \in EditorStates
  BY DEF DocumentsInv, DocumentsTypeOK
<1>1. ~Crash
  BY <1>0, CrashEffect, RestingEntry
<1>2. ASSUME NEW d \in Editors, LoadGraph(d) PROVE FALSE
  BY <1>0, <1>2, LoadEffect, OwnEntryOnly DEF At
<1>3. ASSUME NEW d \in Editors, NEW e, Entering(d, e), Enter(d, e) PROVE FALSE
  <2>1. At(d, "idle")
    BY <1>0, <1>3, EnterEffect DEF Entering
  <2>2. d # c
    BY <2>1 DEF At
  <2>3. editor'[c].at = editor[c].at
    BY <1>0, <1>3, <2>2, OthersEntry
  <2>4. QED
    BY <2>3 DEF At
<1>4. PICK d \in Editors : RequestThread(d)
  BY <1>0, <1>1, <1>2, <1>3, StepShapes DEF docVars, At
<1>5. d = c
  BY <1>0, <1>4, OwnEntryOnly DEF At
<1>6. QED
  BY <1>4, <1>5 DEF RequestThread, At, Assign, RefreshSnapshot, ReadPath, SetDefaults,
     BuildLayout, WriteGraphFile, WriteManifest, MarkClean, ReadGraphFile, ReplaceWorkspace,
     ResetWorkspace

\* A client that saves against the revision it loaded never overwrites nodes
\* and edges it has not seen, whatever the others do meanwhile: mutate compares
\* the revision in the critical section that changes the graph, and the graph
\* of a revision is the one its save stored.
THEOREM NoEditIsLost == DocumentsSpec => NoLostEdit
<1>1. ASSUME DocumentsInv, SeenInv, [DocumentsNext]_docVars, NEW c \in Editors,
             At(c, "persist"), editor[c].ask = "save", editor[c].strict,
             editor'[c].at = "assign", editor[c].seen.epoch = epoch
      PROVE  editor[c].seen.edit = store.graph.edit
  <2>1. PersistGraph(c)
    BY <1>1, SavesItself
  <2>2. Accepts(editor[c], store)
    BY <1>1, <2>1, PersistEffect DEF DocumentsInv, EditorAnswers
  <2>3. editor[c].seen.rev = store.rev
    BY <1>1, <2>2 DEF Accepts
  <2>4. QED
    BY <1>1, <2>3 DEF SeenInv, Seen
<1>2. DocumentsInv /\ SeenInv /\ [DocumentsNext]_docVars
      => [\A c \in Editors :
            (/\ At(c, "persist") /\ editor[c].ask = "save" /\ editor[c].strict
             /\ editor'[c].at = "assign"
             /\ editor[c].seen.epoch = epoch)
            => editor[c].seen.edit = store.graph.edit]_docVars
  BY <1>1
<1>3. QED
  BY <1>2, TypesInit, TypesStep, SeenInit, SeenStep, PTL DEF DocumentsSpec, NoLostEdit

-----------------------------------------------------------------------------
(* A workspace that calls itself saved.                                    *)

Solo(c) == Busy(c) /\ editor[c].alone

\* Requests overlapped unless each has the server for itself, and then there
\* is one.
OneSolo == \A c, d \in Editors : Solo(c) /\ Busy(d) => d = c
Apart == ~overlapped => \A c \in Editors : Busy(c) => Solo(c)

\* What a request that has the server for itself knows of the store, of the
\* shared copy and of the files it writes or reads.
InHand(c) ==
    LET e == editor[c]
    IN  /\ e.at # "assign" => mem = store
        /\ e.at \in {"assign", "graph", "manifest"} => e.copy = store
        /\ e.at \in {"manifest", "clean"} => disk[e.path].graph = store.graph
        /\ e.at = "clean" => disk[e.path].rev = store.rev
        /\ e.at \in {"read_graph", "replace"} =>
              e.copy.rev = disk[e.path].rev /\ ~e.copy.dirty
        /\ e.at = "replace" => e.copy.path = e.path /\ e.copy.graph = disk[e.path].graph

SaveInv ==
    /\ OneSolo /\ Apart
    /\ \A c \in Editors : Solo(c) => InHand(c)
    /\ CleanMeansSaved

LEMMA SaveInit == DocumentsInit => SaveInv
<1> SUFFICES ASSUME DocumentsInit PROVE SaveInv
  OBVIOUS
<1>1. \A c \in Editors : ~Busy(c)
  BY DEF DocumentsInit, IdleEditor, Busy, At
<1>2. store.path = NoProject
  BY DEF DocumentsInit, InitialWorkspace
<1>3. QED
  BY <1>1, <1>2 DEF SaveInv, OneSolo, Apart, Solo, CleanMeansSaved

\* Whether requests run side by side, after a step of one thread.
LEMMA ApartByThread ==
    ASSUME DocumentsInv, SaveInv, NEW c \in Editors, Busy(c),
           \A d \in Editors \ {c} : editor'[d] = editor[d],
           editor'[c].at = "idle" \/ editor'[c].alone = editor[c].alone,
           ~overlapped' => ~overlapped \/ Solo(c),
           Solo(c)' => InHand(c)',
           CleanMeansSaved'
    PROVE  SaveInv'
<1>1. \A d \in Editors : (Busy(d)' => Busy(d)) /\ (Solo(d)' => Solo(d))
  BY DEF Busy, Solo, At
<1>2. OneSolo'
  BY <1>1 DEF SaveInv, OneSolo
<1>3. ASSUME ~overlapped' PROVE Solo(c) /\ \A d \in Editors : Busy(d) => d = c
  BY <1>3 DEF SaveInv, Apart, OneSolo
<1>4. Apart'
  BY <1>1, <1>3 DEF Apart, Solo, Busy, At
<1>5. ASSUME NEW d \in Editors, Solo(d)' PROVE InHand(d)'
  <2>1. d = c
    BY <1>1, <1>5 DEF SaveInv, OneSolo
  <2>2. QED
    BY <1>5, <2>1
<1>6. QED
  BY <1>2, <1>4, <1>5 DEF SaveInv

LEMMA SaveByThread ==
    ASSUME DocumentsInv, SaveInv, NEW c \in Editors, RequestThread(c)
    PROVE  SaveInv'
<1>0. /\ DocumentsTypeOK /\ Placed(c) /\ store \in Workspace
      /\ Solo(c) => InHand(c)
      /\ CleanMeansSaved /\ editor[c].copy \in Workspace
  BY EntryUpdates DEF DocumentsInv, DocumentsTypeOK, SaveInv
<1>1. \A d \in Editors \ {c} : editor'[d] = editor[d]
  BY <1>0, OwnEntryOnly
<1>2. Busy(c)
  BY DEF RequestThread, Busy, At, Assign, PersistGraph, RefreshSnapshot, ReadPath, SetDefaults,
     BuildLayout, WriteGraphFile, WriteManifest, MarkClean, ReadGraphFile, ReplaceWorkspace,
     ResetWorkspace
<1>3. ~overlapped => Solo(c)
  BY <1>2 DEF SaveInv, Apart
<1>4. ASSUME overlapped' = overlapped,
             editor'[c].at = "idle" \/ editor'[c].alone = editor[c].alone,
             Solo(c) /\ editor'[c].at # "idle" => InHand(c)',
             Solo(c) /\ ~overlapped => CleanMeansSaved'
      PROVE  SaveInv'
  <2>1. ~overlapped' => ~overlapped \/ Solo(c)
    BY <1>4
  <2>2. Solo(c)' => InHand(c)'
    BY <1>2, <1>4 DEF Solo, Busy, At
  <2>3. CleanMeansSaved'
    BY <1>3, <1>4 DEF CleanMeansSaved
  <2>4. QED
    BY <1>1, <1>2, <1>4, <2>1, <2>2, <2>3, ApartByThread
<1>5. CASE Assign(c)
  <2>1. /\ At(c, "assign") /\ mem' = editor[c].copy
        /\ UNCHANGED <<store, disk, overlapped>>
    BY <1>0, <1>5, AssignEffect
  <2>2. \/ EditorAnswers(c)
        \/ EditorGoesOn(c, editor[c].next, editor[c].path, InitialWorkspace)
           /\ editor[c].next \in {"snapshot", "path"}
    BY <1>0, <1>5, AssignEffect DEF Placed
  <2>3. Solo(c) /\ editor'[c].at # "idle" => InHand(c)'
    BY <1>0, <2>1, <2>2 DEF InHand, At, EditorAnswers, EditorGoesOn
  <2>4. CleanMeansSaved'
    BY <1>0, <2>1 DEF CleanMeansSaved
  <2>5. QED
    BY <1>4, <2>1, <2>2, <2>3, <2>4 DEF EditorAnswers, EditorGoesOn
<1>6. CASE PersistGraph(c)
  <2>1. UNCHANGED <<mem, disk, overlapped>> /\ At(c, "persist")
    BY <1>0, <1>6, PersistEffect
  <2>2. CASE EditorAnswers(c) /\ store' = store
    BY <1>0, <1>4, <2>1, <2>2 DEF EditorAnswers, CleanMeansSaved
  <2>3. CASE Mutates(c, store', "snapshot", editor[c].path) /\ store'.dirty
    BY <1>4, <2>1, <2>3 DEF Mutates, InHand, CleanMeansSaved
  <2>4. QED
    BY <1>0, <1>6, <2>2, <2>3, PersistEffect
<1>7. CASE RefreshSnapshot(c)
  <2>1. UNCHANGED <<mem, disk, overlapped>> /\ Mutates(c, store, "path", editor[c].path)
    BY <1>0, <1>7, RefreshEffect
  <2>2. Solo(c) /\ editor'[c].at # "idle" => InHand(c)'
    BY <2>1 DEF Mutates, InHand
  <2>3. CleanMeansSaved'
    BY <1>0, <2>1 DEF Mutates, CleanMeansSaved
  <2>4. QED
    BY <1>4, <2>1, <2>2, <2>3 DEF Mutates
<1>8. CASE ReadPath(c)
  <2>1. /\ UNCHANGED <<store, mem, disk, overlapped>> /\ At(c, "path")
        /\ EditorAnswers(c) \/ EditorGoesOn(c, "build", mem.path, editor[c].copy)
    BY <1>0, <1>8, ReadPathEffect
  <2>2. Solo(c) /\ editor'[c].at # "idle" => InHand(c)'
    BY <1>0, <2>1 DEF EditorAnswers, EditorGoesOn, InHand, At
  <2>3. CleanMeansSaved'
    BY <1>0, <2>1 DEF CleanMeansSaved
  <2>4. QED
    BY <1>4, <2>1, <2>2, <2>3 DEF EditorAnswers, EditorGoesOn
<1>9. CASE SetDefaults(c)
  <2>1. /\ UNCHANGED <<mem, disk, overlapped>> /\ Mutates(c, store', "path", editor[c].path)
        /\ store'.dirty
    BY <1>0, <1>9, DefaultsEffect
  <2>2. QED
    BY <1>4, <2>1 DEF Mutates, InHand, CleanMeansSaved
<1>10. CASE BuildLayout(c)
  <2>1. /\ UNCHANGED <<store, mem, disk, overlapped>> /\ At(c, "build")
        /\ EditorGoesOn(c, "graph", editor[c].path, mem)
    BY <1>0, <1>10, BuildEffect
  <2>2. Solo(c) /\ editor'[c].at # "idle" => InHand(c)'
    BY <1>0, <2>1 DEF EditorGoesOn, InHand, At
  <2>3. CleanMeansSaved'
    BY <1>0, <2>1 DEF CleanMeansSaved
  <2>4. QED
    BY <1>4, <2>1, <2>2, <2>3 DEF EditorGoesOn
<1>11. CASE WriteGraphFile(c)
  <2>1. /\ UNCHANGED <<store, mem, overlapped>> /\ At(c, "graph")
        /\ EditorGoesOn(c, "manifest", editor[c].path, editor[c].copy)
        /\ \A p \in Projects :
              /\ disk'[p].rev = disk[p].rev
              /\ disk'[p].graph = IF p = editor[c].path THEN editor[c].copy.graph
                                  ELSE disk[p].graph
    BY <1>0, <1>11, GraphFileEffect
  <2>2. editor[c].path \in Projects
    BY <1>0, <2>1 DEF Placed, At
  <2>3. Solo(c) => mem = store /\ editor[c].copy = store
    BY <1>0, <2>1 DEF InHand, At
  <2>4. Solo(c) /\ editor'[c].at # "idle" => InHand(c)'
    BY <2>1, <2>2, <2>3 DEF EditorGoesOn, InHand
  <2>5. Solo(c) /\ ~overlapped => CleanMeansSaved'
    BY <1>0, <2>1, <2>3 DEF CleanMeansSaved, Workspace
  <2>6. QED
    BY <1>4, <2>1, <2>4, <2>5 DEF EditorGoesOn
<1>12. CASE WriteManifest(c)
  <2>1. /\ UNCHANGED <<store, mem, overlapped>> /\ At(c, "manifest")
        /\ EditorAnswers(c) \/ EditorGoesOn(c, "clean", editor[c].path, InitialWorkspace)
        /\ \A p \in Projects :
              /\ disk'[p].graph = disk[p].graph
              /\ disk'[p].rev = IF p = editor[c].path THEN editor[c].copy.rev
                                ELSE disk[p].rev
    BY <1>0, <1>12, ManifestEffect
  <2>2. editor[c].path \in Projects
    BY <1>0, <2>1 DEF Placed, At
  <2>3. Solo(c) => /\ mem = store /\ editor[c].copy = store
                   /\ disk[editor[c].path].graph = store.graph
    BY <1>0, <2>1 DEF InHand, At
  <2>4. Solo(c) /\ editor'[c].at # "idle" => InHand(c)'
    BY <2>1, <2>2, <2>3 DEF EditorAnswers, EditorGoesOn, InHand
  <2>5. Solo(c) /\ ~overlapped => CleanMeansSaved'
    BY <1>0, <2>1, <2>3 DEF CleanMeansSaved, Workspace
  <2>6. QED
    BY <1>4, <2>1, <2>4, <2>5 DEF EditorAnswers, EditorGoesOn
<1>13. CASE MarkClean(c)
  <2>1. /\ UNCHANGED <<mem, disk>> /\ At(c, "clean") /\ Mutates(c, store', "idle", NoProject)
        /\ overlapped' = (overlapped /\ ~editor[c].alone)
        /\ store'.path = editor[c].path /\ store'.rev = store.rev /\ store'.graph = store.graph
    BY <1>0, <1>13, MarkCleanEffect
  <2>2. ~overlapped' => ~overlapped \/ Solo(c)
    BY <1>2, <2>1 DEF Solo
  <2>3. Solo(c)' => InHand(c)'
    BY <2>1 DEF Mutates, InHand
  <2>4. CleanMeansSaved'
    BY <1>0, <1>3, <2>1, <2>2 DEF CleanMeansSaved, InHand, At
  <2>5. QED
    BY <1>1, <1>2, <2>1, <2>2, <2>3, <2>4, ApartByThread DEF Mutates
<1>14. CASE ReadGraphFile(c)
  <2>1. editor[c].path \in Projects
    BY <1>0, <1>14 DEF Placed, ReadGraphFile, At
  <2>2. /\ UNCHANGED <<store, mem, disk, overlapped>> /\ At(c, "read_graph")
        /\ \/ EditorAnswers(c)
           \/ \E copy \in Workspace :
                 /\ EditorGoesOn(c, "replace", editor[c].path, copy)
                 /\ copy.path = editor[c].path /\ copy.graph = disk[editor[c].path].graph
                 /\ copy.rev = editor[c].copy.rev /\ copy.dirty = editor[c].copy.dirty
    BY <1>0, <1>14, <2>1, ReadFileEffect
  <2>3. Solo(c) /\ editor'[c].at # "idle" => InHand(c)'
    BY <1>0, <2>2 DEF EditorAnswers, EditorGoesOn, InHand, At
  <2>4. CleanMeansSaved'
    BY <1>0, <2>2 DEF CleanMeansSaved
  <2>5. QED
    BY <1>4, <2>2, <2>3, <2>4 DEF EditorAnswers, EditorGoesOn
<1>15. CASE ReplaceWorkspace(c)
  <2>1. /\ UNCHANGED <<mem, disk, overlapped>> /\ At(c, "replace")
        /\ Mutates(c, editor[c].copy, "idle", editor[c].path)
    BY <1>0, <1>15, ReplaceEffect
  <2>2. Solo(c) /\ editor'[c].at # "idle" => InHand(c)'
    BY <2>1 DEF Mutates, InHand
  <2>3. Solo(c) /\ ~overlapped => CleanMeansSaved'
    BY <1>0, <2>1 DEF Mutates, InHand, At, CleanMeansSaved
  <2>4. QED
    BY <1>4, <2>1, <2>2, <2>3 DEF Mutates
<1>16. CASE ResetWorkspace(c)
  <2>1. /\ UNCHANGED <<mem, disk, overlapped>>
        /\ Mutates(c, InitialWorkspace, "idle", editor[c].path)
    BY <1>0, <1>16, ResetEffect
  <2>2. Solo(c) /\ editor'[c].at # "idle" => InHand(c)'
    BY <2>1 DEF Mutates, InHand
  <2>3. CleanMeansSaved'
    BY <2>1 DEF Mutates, CleanMeansSaved, InitialWorkspace
  <2>4. QED
    BY <1>4, <2>1, <2>2, <2>3 DEF Mutates
<1>17. QED
  BY <1>5, <1>6, <1>7, <1>8, <1>9, <1>10, <1>11, <1>12, <1>13, <1>14, <1>15, <1>16
     DEF RequestThread

LEMMA SaveByEnter ==
    ASSUME DocumentsInv, SaveInv, NEW c \in Editors, NEW e, Entering(c, e), Enter(c, e)
    PROVE  SaveInv'
<1>0. /\ DocumentsTypeOK /\ Placed(c) /\ CleanMeansSaved /\ e \in EditorStates
      /\ editor[c].copy \in Workspace
  BY EntryUpdates DEF DocumentsInv, SaveInv, Entering
<1>1. /\ mem' = store /\ UNCHANGED <<store, disk>> /\ At(c, "idle")
      /\ ~overlapped' => ~overlapped /\ editor'[c].alone
      /\ editor'[c].alone => \A d \in Editors : At(d, "idle")
  BY <1>0, EnterEffect
<1>2. \A d \in Editors \ {c} : editor'[d].at = editor[d].at /\ ~editor'[d].alone
  BY <1>0, OthersEntry
<1>3. /\ editor'[c].at = e.at /\ editor'[c].path = e.path /\ editor'[c].copy = e.copy
      /\ e.at # "idle"
  BY <1>0, EnteringEntry DEF Entering
<1>4. editor'[c].alone => \A d \in Editors \ {c} : ~Busy(d)'
  BY <1>1, <1>2 DEF Busy, At
<1>5. OneSolo'
  BY <1>2, <1>4 DEF OneSolo, Solo
<1>6. Apart'
  BY <1>1, <1>4 DEF Apart, Solo
<1>7. InHand(c)'
  <2>1. CASE e.at \in {"persist", "build", "reset"}
    BY <1>1, <1>3, <2>1 DEF InHand
  <2>2. CASE /\ e.at = "read_graph"
             /\ e.copy = [editor[c].copy EXCEPT !.rev = disk[e.path].rev]
    <3>1. ~editor[c].copy.dirty
      BY <1>0, <1>1 DEF Placed, InitialWorkspace
    <3>2. e.copy.rev = disk[e.path].rev /\ ~e.copy.dirty
      BY <1>0, <2>2, <3>1 DEF Workspace
    <3>3. QED
      BY <1>1, <1>3, <2>2, <3>2 DEF InHand
  <2>3. QED
    BY <2>1, <2>2 DEF Entering
<1>8. \A d \in Editors : Solo(d)' => InHand(d)'
  BY <1>2, <1>7 DEF Solo
<1>9. CleanMeansSaved'
  BY <1>0, <1>1 DEF CleanMeansSaved
<1>10. QED
  BY <1>5, <1>6, <1>8, <1>9 DEF SaveInv

LEMMA SaveStep == DocumentsInv /\ SaveInv /\ [DocumentsNext]_docVars => SaveInv'
<1> SUFFICES ASSUME DocumentsInv, SaveInv, [DocumentsNext]_docVars PROVE SaveInv'
  OBVIOUS
<1>0. /\ DocumentsTypeOK /\ \A c \in Editors : editor[c] \in EditorStates
      /\ CleanMeansSaved
  BY DEF DocumentsInv, DocumentsTypeOK, SaveInv
<1>1. CASE Crash
  <2>1. \A d \in Editors : ~Busy(d)'
    BY <1>0, <1>1, CrashEffect, RestingEntry DEF Busy, At
  <2>2. store.path # NoProject => store.path \in Projects
    BY <1>0 DEF DocumentsTypeOK, Workspace
  <2>3. CleanMeansSaved'
    BY <1>0, <1>1, <2>2, CrashEffect DEF CleanMeansSaved, TornFrom
  <2>4. QED
    BY <2>1, <2>3 DEF SaveInv, OneSolo, Apart, Solo
<1>2. ASSUME NEW c \in Editors, LoadGraph(c) PROVE SaveInv'
  <2>1. /\ At(c, "idle") /\ mem' = store /\ UNCHANGED <<store, disk, overlapped>>
        /\ editor'[c].at = "idle" /\ \A d \in Editors \ {c} : editor'[d] = editor[d]
    BY <1>0, <1>2, LoadEffect, OwnEntryOnly DEF At
  <2>2. \A d \in Editors : Busy(d)' = Busy(d)
    BY <2>1 DEF Busy, At
  <2>3. \A d \in Editors : Solo(d)' => d # c /\ Solo(d)
    BY <2>1 DEF Solo, Busy, At
  <2>4. OneSolo'
    BY <2>2, <2>3 DEF SaveInv, OneSolo
  <2>5. Apart'
    BY <2>1, <2>2 DEF SaveInv, Apart, Solo, Busy, At
  <2>6. \A d \in Editors : Solo(d)' => InHand(d)'
    BY <2>1, <2>3 DEF SaveInv, InHand
  <2>7. CleanMeansSaved'
    BY <1>0, <2>1 DEF CleanMeansSaved
  <2>8. QED
    BY <2>4, <2>5, <2>6, <2>7 DEF SaveInv
<1>3. ASSUME NEW c \in Editors, NEW e, Entering(c, e), Enter(c, e) PROVE SaveInv'
  BY <1>3, SaveByEnter
<1>4. ASSUME NEW c \in Editors, RequestThread(c) PROVE SaveInv'
  BY <1>4, SaveByThread
<1>5. CASE UNCHANGED docVars
  BY <1>5 DEF docVars, SaveInv, OneSolo, Apart, Solo, Busy, At, InHand, CleanMeansSaved
<1>6. QED
  BY <1>0, <1>1, <1>2, <1>3, <1>4, <1>5, StepShapes

\* A workspace that calls itself saved has its files written, as long as no
\* two requests overlapped since a whole save that ran alone: the layout is
\* built from the copy that all threads share, which is the store for a request
\* that has the server for itself, and the dirty mark falls last.
THEOREM CleanIsSaved == DocumentsSpec => []CleanMeansSaved
<1>1. SaveInv => CleanMeansSaved
  BY DEF SaveInv
<1>2. QED
  BY <1>1, TypesInit, TypesStep, SaveInit, SaveStep, PTL DEF DocumentsSpec
=============================================================================
