----------------------------- MODULE InputAnswer -----------------------------
(***************************************************************************)
(* What the pending-input service promises: every request is decided at    *)
(* most once, and the node that asked is handed that decision at most      *)
(* once, with the submitted value if and only if it was a submission.      *)
(***************************************************************************)
CONSTANTS Executions, Requests, Values, Owner, None

VARIABLES
    outcome,   \* "absent", "open", or how the request was decided
    taken,     \* the value of the accepted submission
    handed     \* what the asking node was given

vars == <<outcome, taken, handed>>

Init ==
    /\ outcome = [r \in Requests |-> "absent"]
    /\ taken   = [r \in Requests |-> None]
    /\ handed  = [r \in Requests |-> None]

\* An execution asks one question at a time.
Ask(r) ==
    /\ outcome[r] = "absent"
    /\ \A q \in Requests : Owner[q] = Owner[r] => outcome[q] # "open"
    /\ outcome' = [outcome EXCEPT ![r] = "open"]
    /\ UNCHANGED <<taken, handed>>

Take(r, v) ==
    /\ outcome[r] = "open"
    /\ outcome' = [outcome EXCEPT ![r] = "submitted"]
    /\ taken'   = [taken EXCEPT ![r] = v]
    /\ UNCHANGED handed

Cancel(r) ==
    /\ outcome[r] = "open"
    /\ outcome' = [outcome EXCEPT ![r] = "cancelled"]
    /\ UNCHANGED <<taken, handed>>

\* Only the waiting node decides that time is up, and it knows it at once.
TimeOut(r) ==
    /\ outcome[r] = "open"
    /\ outcome' = [outcome EXCEPT ![r] = "timed_out"]
    /\ handed'  = [handed EXCEPT ![r] = [status |-> "timed_out", value |-> None]]
    /\ UNCHANGED taken

HandOver(r) ==
    /\ outcome[r] \in {"submitted", "cancelled"}
    /\ handed[r] = None
    /\ handed' = [handed EXCEPT ![r] = [status |-> outcome[r], value |-> taken[r]]]
    /\ UNCHANGED <<outcome, taken>>

Next ==
    \E r \in Requests :
        \/ Ask(r)
        \/ \E v \in Values : Take(r, v)
        \/ Cancel(r)
        \/ TimeOut(r)
        \/ HandOver(r)

Spec == Init /\ [][Next]_vars
=============================================================================
