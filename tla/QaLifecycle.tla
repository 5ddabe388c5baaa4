---------------------------- MODULE QaLifecycle ----------------------------
(***************************************************************************)
(* What workflow-qa promises of a run to the Host, without saying how: a   *)
(* run releases its environment before it reports, reports one outcome,    *)
(* and is done only after it has reported; a run whose environment is not  *)
(* released stays blocked.                                                 *)
(***************************************************************************)
CONSTANT Outcomes

VARIABLES
    stage,     \* how far the run has come
    released,  \* the environment is known to be released
    outcome    \* the outcome the run reports, "none" before it reports

vars == <<stage, released, outcome>>

Init ==
    /\ stage = "absent"
    /\ released = FALSE
    /\ outcome = "none"

Begin ==
    /\ stage = "absent"
    /\ stage' = "running"
    /\ UNCHANGED <<released, outcome>>

\* The environment ends, by itself or because the run asked for it.
Release ==
    /\ stage \in {"running", "releasing"}
    /\ released' = TRUE
    /\ UNCHANGED <<stage, outcome>>

AskRelease ==
    /\ stage = "running"
    /\ stage' = "releasing"
    /\ UNCHANGED <<released, outcome>>

Report ==
    /\ stage = "releasing"
    /\ released
    /\ stage' = "reporting"
    /\ outcome' \in Outcomes
    /\ UNCHANGED released

Finish ==
    /\ stage = "reporting"
    /\ stage' = "done"
    /\ UNCHANGED <<released, outcome>>

Block ==
    /\ stage \in {"running", "releasing"}
    /\ ~released
    /\ stage' = "blocked"
    /\ UNCHANGED <<released, outcome>>

Next == Begin \/ Release \/ AskRelease \/ Report \/ Finish \/ Block

Spec == Init /\ [][Next]_vars
=============================================================================
