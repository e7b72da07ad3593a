------------------------- MODULE MCGraphCompilation -------------------------
(* Small graphs for GraphCompilation: a start with a component graph, a    *)
(* fork with its join, a join of one branch, a node nobody reaches, a      *)
(* component graph itself and a graph of neither kind without a start.     *)
EXTENDS GraphCompilation

CONSTANTS g1, g2

\* Settings that the rules do not look at have these values.
UsualSettings ==
    [listed |-> FALSE, branches |-> <<>>, inputs |-> <<>>, outputs |-> <<>>, given |-> {},
     taken |-> {}, target |-> "none", expression |-> FALSE, quorum |-> {}, attempts |-> 1,
     blank |-> FALSE]

SampleNode(id, kind, ports, cfg) ==
    LET drawn == [id |-> id, kind |-> kind, ports |-> ports, cfg |-> cfg]
    IN  [drawn EXCEPT !.ports = [i \in DOMAIN ports |-> Validated(ports[i])]]
SampleEdge(from, fromPort, to, toPort) ==
    [id |-> <<from, fromPort, to>>, layer |-> "control", from |-> from, fromPort |-> fromPort,
     to |-> to, toPort |-> toPort]
SampleGraph(role, nodes, edges) == [role |-> role, nodes |-> nodes, edges |-> edges]

InPort == Draft(<<"in">>, In, "control", <<"in", "control">>)
OutPort == Draft(<<"out">>, Out, "control", <<"out", "control">>)

Start == SampleNode("s", "start", <<OutPort>>, UsualSettings)
Component == SampleNode("c", "component", <<InPort, OutPort>>, UsualSettings)
Script == SampleNode("p", "python", <<InPort, OutPort>>, [UsualSettings EXCEPT !.inputs = <<"x">>])
Fork(keys) == SampleNode("f", "fork", <<>>, [UsualSettings EXCEPT !.listed = TRUE, !.branches = keys])
Join(keys) == SampleNode("j", "join", <<>>, [UsualSettings EXCEPT !.listed = TRUE, !.branches = keys])
Entry == SampleNode("e", "entry", <<>>, [UsualSettings EXCEPT !.inputs = <<"x">>])
Exit == SampleNode("x", "exit", <<>>, UsualSettings)

NothingDrawn == SampleGraph("main", <<>>, <<>>)
WithComponent ==
    SampleGraph("main", <<Start, Component>>, <<SampleEdge("s", <<"out">>, "c", <<"in">>)>>)
Forked(keys) ==
    SampleGraph("main", <<Start, Fork(<<"l", "r">>), Join(keys)>>,
        <<SampleEdge("s", <<"out">>, "f", <<"in">>)>>
        \o [i \in DOMAIN keys |->
              SampleEdge("f", <<"branch", keys[i]>>, "j", <<"in", keys[i]>>)])
Lonely == SampleGraph("main", <<Start, Script>>, <<>>)
Boundary == SampleGraph("component", <<Entry, Exit>>, <<SampleEdge("e", <<"out">>, "x", <<"in">>)>>)
Unnamed == SampleGraph("other", <<Script>>, <<>>)

SampleResource(key, graph, fields) ==
    [key |-> key, graph |-> graph, builtin |-> ~graph, enabled |-> TRUE, inputs |-> fields, outputs |-> <<>>,
     needed |-> Elems(fields)]
SampleResources == {SampleResource("component", TRUE, <<>>), SampleResource("python", FALSE, <<>>)}

SampleWorkspaces ==
    {[graph |-> NothingDrawn, rev |-> 0, res |-> SampleResources],
     [graph |-> Normalised(WithComponent, SampleResources), rev |-> 1, res |-> SampleResources],
     [graph |-> Normalised(Forked(<<"l", "r">>), SampleResources), rev |-> 1, res |-> {}]}

\* A node is added and connected, one is changed, an edge names a port that is
\* not there, and the component is removed.
AddScript ==
    <<[op |-> "node.add", node |-> Script],
      [op |-> "edge.add", edge |-> SampleEdge("s", <<"out">>, "p", <<"in">>)]>>
ChangeJoin == <<[op |-> "node.update", id |-> "j",
                 cfg |-> [UsualSettings EXCEPT !.listed = TRUE, !.branches = <<"l", "r", "m">>]]>>
WrongEdge == <<[op |-> "edge.add", edge |-> SampleEdge("s", <<"gone">>, "c", <<"in">>)]>>
RemoveComponent ==
    <<[op |-> "edge.remove", edge |-> <<"s", <<"out">>, "c">>],
      [op |-> "node.remove", id |-> "c"]>>

AskFor(ask, doc, ops, strict) == [ask |-> ask, doc |-> doc, ops |-> ops, strict |-> strict]
SampleRequests ==
    {AskFor(a, NothingDrawn, <<>>, FALSE) :
        a \in {"load", "compile", "prepare", "toggle", "redraw", "source"}}
    \cup {AskFor("apply", NothingDrawn, ops, TRUE) :
        ops \in {AddScript, ChangeJoin, WrongEdge, RemoveComponent}}
    \cup {AskFor("preview", NothingDrawn, AddScript, TRUE)}
    \cup {AskFor("save", Lonely, <<>>, TRUE), AskFor("save", WithComponent, <<>>, FALSE)}
    \cup {AskFor("compile_document", Lonely, <<>>, FALSE)}
    \cup {AskFor("prepare_document", d, <<>>, FALSE) : d \in {Lonely, Forked(<<"l">>), Boundary, Unnamed}}
SampleFields == {<<>>, <<"x">>}

\* The clients are alike: the first request is of the first one. Three requests
\* only if they follow each other, and the third is one of Mixing; two cross only
\* in the graph with a component, and only those that see what the other changes.
DraftersInOrder == asked' = 1 => ~Underway(g2)'
Mixing == {"apply", "save", "compile", "prepare", "toggle"}
FewCross ==
    /\ asked' = 3 => ~crossed' /\ \A c \in Clients : Underway(c)' => thread'[c].ask \in Mixing
    /\ (crossed' /\ ~crossed) =>
          /\ gStore.graph.nodes # <<>> /\ gStore.res # {}
          /\ \A c \in Clients : Underway(c)' => thread'[c].ask \in Mixing

SampleKinds == {"component"}

ASSUME SamplesArePlain == PlainDocuments
==============================================================================
