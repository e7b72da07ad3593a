---------------------------- MODULE MCWorkbench ----------------------------
(* The smaller components of the workbench, checked in one run: each runs  *)
(* by itself (part), the others rest in an initial state. What they share  *)
(* with each other, the workspace state and the API threads, is in every   *)
(* module as its own environment.                                          *)
EXTENDS SessionStream, WorkbenchEvents, DebugSession, Operations, ComponentCalls, BrowserTabs,
        NetworkSession, DebugHistory

CONSTANTS sa, sb, ui, ex, c1, c2

VARIABLE part   \* the component that runs

workbenchVars == <<part, streamVars, eventVars, debugVars, opVars, callVars, tabVars, netVars,
                   histVars>>

Parts == {"stream", "events", "debug", "operations", "calls", "tabs", "network", "history"}

(* The stream: both clients watch session sa, one at a time. *)
WatchedSession == (ui :> sa) @@ (ex :> sa)
SessionEvents == (sa :> 2) @@ (sb :> 1)
OneClient == Cardinality({c \in StreamClients : client[c] = "watching"}) = 1

(* The plans: order and entry node as in the document. *)
Edge(n) == [to |-> n, back |-> FALSE]
BackEdge(n) == [to |-> n, back |-> TRUE]
Else(f, nodes, value) == [n \in nodes |-> IF n \in DOMAIN f THEN f[n] ELSE value]
PlanOf(order, out, times, stops, inner, risky) ==
    LET nodes == {order[i] : i \in DOMAIN order}
    IN  [order |-> order, start |-> order[1], out |-> Else(out, nodes, <<>>),
         times |-> Else(times, nodes, 0), stops |-> Else(stops, nodes, "none"),
         inner |-> inner, risky |-> risky]

\* s leads to a waiting node a and to b, which may fail and leads to a.
WaitPlan == PlanOf(<<"s", "a", "b">>,
                   "s" :> <<Edge("a"), Edge("b")>> @@ "b" :> <<Edge("a")>>,
                   <<>>, "a" :> "both", {}, {"b"})
\* A loop that turns once over a component with a breakpoint inside.
LoopPlan == PlanOf(<<"w", "c">>, "w" :> <<Edge("c")>> @@ "c" :> <<BackEdge("w")>>,
                   "w" :> 1, <<>>, {"c"}, {})
DebuggedPlans == {WaitPlan, LoopPlan}

\* A component that does not run starts in one of its initial states.
Settled ==
    /\ part # "stream" => client[ui] = "watching"
    /\ part # "debug" => plan = CHOOSE p \in Plans : TRUE

WorkbenchInit ==
    /\ part \in Parts
    /\ StreamInit /\ OneClient /\ EventsInit /\ DebugInit /\ OperationsInit /\ CallsInit
    /\ TabsInit /\ NetworkInit /\ HistoryInit
    /\ Settled

WorkbenchNext ==
    /\ UNCHANGED part
    /\ \/ /\ part = "stream" /\ StreamNext
          /\ UNCHANGED <<eventVars, debugVars, opVars, callVars, tabVars, netVars, histVars>>
       \/ /\ part = "events" /\ EventsNext
          /\ UNCHANGED <<streamVars, debugVars, opVars, callVars, tabVars, netVars, histVars>>
       \/ /\ part = "debug" /\ DebugNext
          /\ UNCHANGED <<streamVars, eventVars, opVars, callVars, tabVars, netVars, histVars>>
       \/ /\ part = "operations" /\ OperationsNext
          /\ UNCHANGED <<streamVars, eventVars, debugVars, callVars, tabVars, netVars, histVars>>
       \/ /\ part = "calls" /\ CallsNext
          /\ UNCHANGED <<streamVars, eventVars, debugVars, opVars, tabVars, netVars, histVars>>
       \/ /\ part = "tabs" /\ TabsNext
          /\ UNCHANGED <<streamVars, eventVars, debugVars, opVars, callVars, netVars, histVars>>
       \/ /\ part = "network" /\ NetworkNext
          /\ UNCHANGED <<streamVars, eventVars, debugVars, opVars, callVars, tabVars, histVars>>
       \/ /\ part = "history" /\ HistoryNext
          /\ UNCHANGED <<streamVars, eventVars, debugVars, opVars, callVars, tabVars, netVars>>

\* The fairness of a component while it runs.
WorkbenchFair ==
    /\ \A x \in StreamSessions : WF_streamVars(part = "stream" /\ Worker(x))
    /\ WF_streamVars(part = "stream" /\ UiHandler(ui))
    /\ WF_streamVars(part = "stream" /\ ExternalHandler(ex))
    /\ WF_streamVars(part = "stream" /\ ExternalReplay(ex))
    /\ WF_eventVars(part = "events" /\ Server)
    /\ WF_eventVars(part = "events" /\ Connection)
    /\ WF_eventVars(part = "events" /\ Handler)
    /\ WF_eventVars(part = "events" /\ (ServeSave \/ ServeReload))
    /\ WF_eventVars(part = "events" /\ AnswerArrives)
    /\ SF_eventVars(part = "events" /\ Receive)
    /\ WF_debugVars(part = "debug" /\ Thread)
    /\ WF_debugVars(part = "debug" /\ Launch)
    /\ WF_debugVars(part = "debug" /\ GoOn)
    /\ WF_debugVars(part = "debug" /\ FlagPause)
    /\ WF_debugVars(part = "debug" /\ Abort)

WorkbenchSpec == WorkbenchInit /\ [][WorkbenchNext]_workbenchVars /\ WorkbenchFair

WorkbenchTypeOK ==
    /\ StreamTypeOK /\ EventsTypeOK /\ DebugTypeOK /\ OperationsTypeOK /\ CallsTypeOK
    /\ TabsTypeOK /\ NetworkTypeOK /\ HistoryTypeOK
============================================================================
