--------------------------- MODULE MCFlowScheduler ---------------------------
(* The flows that FlowScheduler is checked with.                            *)
EXTENDS FlowScheduler, TLC

Edge(port, to, at) == [port |-> port, to |-> to, at |-> at]
Then(n) == Edge("out", n, "in")
On(port, n) == Edge(port, n, "in")

\* A flow from its nodes' kinds and edges; every other setting is the same.
Plain(kind, out) ==
    [kind |-> kind, out |-> [n \in DOMAIN kind |-> IF n \in DOMAIN out THEN out[n] ELSE <<>>],
     entry |-> <<"s">>,
     branches |-> [n \in DOMAIN kind |-> IF kind[n] = "join" THEN {"in:left", "in:right"} ELSE {}],
     limit |-> [n \in DOMAIN kind |-> 2], level |-> [n \in DOMAIN kind |-> 1],
     target |-> [n \in DOMAIN kind |-> NoNode], missing |-> {}]

Begin == "s" :> "start"
Tasks(N) == [n \in N |-> "task"]

\* A step that follows one branch of an if, or both.
IfElse == Plain(Begin @@ "i" :> "if" @@ Tasks({"a", "b", "m"}),
    "s" :> <<Then("i")>> @@ "i" :> <<On("true", "a"), On("false", "b")>> @@
    "a" :> <<Then("m")>> @@ "b" :> <<Then("m")>>)
IfOnly == Plain(Begin @@ "i" :> "if" @@ Tasks({"a", "m"}),
    "s" :> <<Then("i")>> @@ "i" :> <<On("true", "a"), On("false", "m")>> @@
    "a" :> <<Then("m")>>)
Cases == Plain(Begin @@ "c" :> "choice" @@ Tasks({"a", "b"}),
    "s" :> <<Then("c")>> @@ "c" :> <<On("case:x", "a"), On("default", "b")>>)

ForkJoin == Plain(Begin @@ "f" :> "fork" @@ "j" :> "join" @@ Tasks({"a", "b", "m"}),
    "s" :> <<Then("f")>> @@ "f" :> <<On("branch:left", "a"), On("branch:right", "b")>> @@
    "a" :> <<Edge("out", "j", "in:left")>> @@ "b" :> <<Edge("out", "j", "in:right")>> @@
    "j" :> <<Then("m")>>)
\* A branch of the fork may not arrive.
ForkIfJoin == Plain(Begin @@ "f" :> "fork" @@ "i" :> "if" @@ "j" :> "join" @@ Tasks({"a", "b"}),
    "s" :> <<Then("f")>> @@ "f" :> <<On("branch:left", "a"), On("branch:right", "i")>> @@
    "a" :> <<Edge("out", "j", "in:left")>> @@
    "i" :> <<Edge("true", "j", "in:right"), On("false", "b")>>)

WhileTask == Plain(Begin @@ "w" :> "while" @@ Tasks({"a", "m"}),
    "s" :> <<Then("w")>> @@ "w" :> <<On("loop", "a"), On("done", "m")>> @@
    "a" :> <<Edge("out", "w", "repeat")>>)
WhileIf == Plain(Begin @@ "w" :> "while" @@ "i" :> "if" @@ Tasks({"a", "b", "m"}),
    "s" :> <<Then("w")>> @@ "w" :> <<On("loop", "i"), On("done", "m")>> @@
    "i" :> <<On("true", "a"), On("false", "b")>> @@
    "a" :> <<Edge("out", "w", "repeat")>> @@ "b" :> <<Edge("out", "w", "repeat")>>)
WhileFork == Plain(Begin @@ "w" :> "while" @@ Tasks({"a", "b", "c", "m"}),
    "s" :> <<Then("w")>> @@ "w" :> <<On("loop", "a"), On("loop", "b"), On("done", "m")>> @@
    "a" :> <<Then("c")>> @@ "b" :> <<Then("c")>> @@ "c" :> <<Edge("out", "w", "repeat")>>)

RetryTask == Plain(Begin @@ "r" :> "retry" @@ Tasks({"a", "m"}),
    "s" :> <<Then("r")>> @@ "r" :> <<On("attempt", "a"), On("exhausted", "m")>> @@
    "a" :> <<Then("r")>>)
JumpBack == [Plain(Begin @@ "j" :> "jump" @@ Tasks({"a", "m"}),
    "s" :> <<Then("a")>> @@ "a" :> <<Then("j")>> @@ "j" :> <<Then("m")>>)
    EXCEPT !.target = [@ EXCEPT !["j"] = "a"]]
JumpNowhere == Plain(Begin @@ "j" :> "jump" @@ Tasks({"m"}),
    "s" :> <<Then("j")>> @@ "j" :> <<Then("m")>>)
\* The jump's token for x is in the queue when a plain one is added.
JumpAhead == [Plain(Begin @@ "j" :> "jump" @@ Tasks({"b", "x"}),
    "s" :> <<Then("j"), Then("b")>> @@ "b" :> <<Then("x")>>)
    EXCEPT !.target = [@ EXCEPT !["j"] = "x"]]

AskAssert == Plain(Begin @@ "q" :> "ask" @@ "v" :> "assert" @@ Tasks({"a", "b", "c"}),
    "s" :> <<Then("q")>> @@ "q" :> <<On("submitted", "v"), On("timeout", "a")>> @@
    "v" :> <<On("passed", "b"), On("failed", "c")>>)

Each == Plain(Begin @@ "e" :> "foreach" @@ "i" :> "if" @@ Tasks({"a", "m"}),
    "s" :> <<Then("e")>> @@ "e" :> <<On("body", "i"), On("done", "m")>> @@
    "i" :> <<On("true", "a"), On("false", "m")>>)
\* The body is drawn back to its foreach, which therefore waits for it.
EachBack == Plain(Begin @@ "e" :> "foreach" @@ Tasks({"a", "m"}),
    "s" :> <<Then("e")>> @@ "e" :> <<On("body", "a"), On("done", "m")>> @@
    "a" :> <<Then("e")>>)
\* Nested loops; the inner one is left by a break or a continue of level 2.
Nested(kind) == [Plain(Begin @@ "e" :> "foreach" @@ "h" :> "foreach" @@ "b" :> kind @@
                       "x" :> "end" @@ Tasks({"m"}),
    "s" :> <<Then("e")>> @@ "e" :> <<On("body", "h")>> @@
    "h" :> <<On("body", "b"), On("done", "x")>> @@ "b" :> <<Then("h")>> @@
    "x" :> <<Then("m")>>)
    EXCEPT !.level = [@ EXCEPT !["b"] = 2]]
\* The exit of the inner loop leads back to the outer one, which a jump starts.
NestedBack == [Plain(Begin @@ "j" :> "jump" @@ "e" :> "foreach" @@ "h" :> "foreach" @@
                     Tasks({"b"}),
    "s" :> <<Then("j")>> @@ "e" :> <<On("body", "h")>> @@
    "h" :> <<On("body", "b"), On("done", "e")>>)
    EXCEPT !.target = [@ EXCEPT !["j"] = "e"]]
\* The body's chain comes back to a node it has passed.
EachCycle == Plain(Begin @@ "e" :> "foreach" @@ Tasks({"a", "b"}),
    "s" :> <<Then("e")>> @@ "e" :> <<On("body", "a")>> @@
    "a" :> <<Then("b")>> @@ "b" :> <<Then("a")>>)
EachEmpty == Plain(Begin @@ "e" :> "foreach", "s" :> <<Then("e")>>)
EachInner == Plain(Begin @@ "e" :> "foreach" @@ "h" :> "foreach",
    "s" :> <<Then("e")>> @@ "e" :> <<On("body", "h")>>)

Missing == [Plain(Begin @@ Tasks({"a"}), "s" :> <<Then("a")>>) EXCEPT !.missing = {"a"}]

\* Every flow of three steps behind the start with edges in one direction,
\* where the first step may be an if (its first edge on true, the others on
\* false) and the last one a join or an if.
Steps == <<"s", "a", "b", "c">>
Forward == {e \in (1..4) \X (1..4) : e[1] < e[2]}
Ordered(E, first, last) ==
    LET next(i) == SelectSeq([j \in 1..4 |-> IF <<i, j>> \in E THEN j ELSE 0],
                             LAMBDA j : j > 0)
        port(i, k) == IF i = 2 /\ first = "if"
                      THEN IF k = 1 THEN "true" ELSE "false" ELSE "out"
        at(i) == IF last # "join" THEN "in" ELSE IF i = 2 THEN "in:left" ELSE "in:right"
    IN  Plain("s" :> "start" @@ "a" :> first @@ "b" :> "task" @@ "c" :> last,
              [n \in {"s", "a", "b", "c"} |->
                 LET i == CHOOSE k \in 1..4 : Steps[k] = n
                 IN  [k \in 1..Len(next(i)) |->
                        Edge(port(i, k), Steps[next(i)[k]], at(i))]])
Reaching == {E \in SUBSET Forward : \A j \in 2..4 : \E i \in 1..4 : <<i, j>> \in E}

Samples == {IfElse, IfOnly, Cases, ForkJoin, ForkIfJoin, WhileTask, WhileIf,
            WhileFork, RetryTask, JumpBack, JumpNowhere, JumpAhead, AskAssert, Each,
            EachBack, Nested("break"), Nested("continue"), EachCycle, NestedBack, EachEmpty,
            EachInner, Missing}
AllFlows == Samples \cup 
            {Ordered(E, first, last) : E \in Reaching, first \in {"task", "if"},
                                       last \in {"task", "join", "if"}}
JustWaits == {IfOnly, EachBack}
JustAssert == {AskAssert}
==============================================================================
