--------------------------- MODULE MCDebugSession ---------------------------
(* A flow whose entry node was drawn after its other node. *)
EXTENDS DebugSession, TLC

Edge(n) == [to |-> n, back |-> FALSE]

MisplacedEntry ==
    [order |-> <<"a", "s">>, start |-> "s", out |-> "s" :> <<Edge("a")>> @@ "a" :> <<>>,
     times |-> [n \in {"a", "s"} |-> 0], stops |-> [n \in {"a", "s"} |-> "none"],
     inner |-> {}, risky |-> {}]

MisplacedPlans == {MisplacedEntry}
=============================================================================
