------------------------- MODULE CheckpointJournal -------------------------
(***************************************************************************)
(* What test-publication promises of the checkpoints of a run: each is     *)
(* recorded once, none after one of a later stage; it gets one receipt,    *)
(* and is announced only then.                                             *)
(***************************************************************************)
EXTENDS Naturals

CONSTANTS Checkpoints, Rank, Digests, None

VARIABLES
    entries,    \* the content recorded for each checkpoint
    receipted,  \* checkpoints that have a receipt
    announced   \* checkpoints whose receipt was raised

Init ==
    /\ entries = [c \in Checkpoints |-> None]
    /\ receipted = {} /\ announced = {}

\* Some publications come with their receipt.
Record(c, d) ==
    /\ entries[c] = None
    /\ \A b \in Checkpoints : entries[b] # None => Rank[b] <= Rank[c]
    /\ entries' = [entries EXCEPT ![c] = d]
    /\ receipted' \in {receipted, receipted \union {c}}
    /\ UNCHANGED announced

Receipt(c) ==
    /\ entries[c] # None /\ c \notin receipted
    /\ receipted' = receipted \union {c}
    /\ UNCHANGED <<entries, announced>>

Announce(c) ==
    /\ c \in receipted
    /\ announced' = announced \union {c}
    /\ UNCHANGED <<entries, receipted>>

Next ==
    \E c \in Checkpoints : Receipt(c) \/ Announce(c) \/ \E d \in Digests : Record(c, d)

Spec == Init /\ [][Next]_<<entries, receipted, announced>>
=============================================================================
