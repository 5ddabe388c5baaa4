---------------------------- MODULE DefectReport ----------------------------
(***************************************************************************)
(* What test-publication promises of the product defects of a run: each is *)
(* acknowledged once, in any order, and the run is told so when none is    *)
(* open any more; after that nothing changes.                              *)
(***************************************************************************)
CONSTANT Cases

VARIABLES
    open,   \* the defects whose issue is not acknowledged
    stage   \* how far the report has come

Init == open = {} /\ stage = "new"

Start ==
    /\ stage = "new"
    /\ open' \in SUBSET Cases
    /\ stage' = "open"

Acknowledge ==
    /\ stage = "open"
    /\ \E c \in open : open' = open \ {c}
    /\ UNCHANGED stage

Tell ==
    /\ stage = "open" /\ open = {}
    /\ stage' = "reported"
    /\ UNCHANGED open

Next == Start \/ Acknowledge \/ Tell

Spec == Init /\ [][Next]_<<open, stage>>
=============================================================================
