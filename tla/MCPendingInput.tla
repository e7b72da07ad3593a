--------------------------- MODULE MCPendingInput ---------------------------
(* Two executions that ask for input at the same time, one of them twice.  *)
EXTENDS PendingInput, TLC

CONSTANTS e1, e2, r1, r2, r3, v1

MCExecutions == {e1, e2}
MCRequests   == {r1, r2, r3}
MCValues     == {v1}
MCOwner      == r1 :> e1 @@ r2 :> e2 @@ r3 :> e2
MCTimed      == {r3}
=============================================================================
