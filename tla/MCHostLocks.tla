---------------------------- MODULE MCHostLocks ----------------------------
(***************************************************************************)
(* The two file locks of the repository, three processes each and one lock *)
(* at a time: the lock of the durable store, with PIDs that differ and     *)
(* with PIDs that are given out again, and the lock of an effect of        *)
(* environment-factory, with a third process that asks for another effect  *)
(* under the same name.  The initial state picks one of them.              *)
(***************************************************************************)
EXTENDS Naturals, TLC

CONSTANTS
    p1, p2, p3, q1, q2, q3, Dead, Nothing,
    MaxFiles, MaxReusedFiles, MaxCrashes, MaxKills

VARIABLES
    which,
    path, fence, record, proc, crashes,
    lock, marker, guard, helper, effect, moved, produced, answer, stops, kills

Procs == {p1, p2, p3}
Namesakes == {q1, q2, q3}  \* some share a PID, or the name of an effect
Interchangeable == Permutations(Procs)
storeVars == <<path, fence, record, proc, crashes>>
effectVars == <<lock, marker, guard, helper, effect, moved, produced, answer, stops, kills>>
locksVars == <<which, storeVars, effectVars>>

DistinctPids == [p \in Procs \union {Dead} |-> p]
\* A process gets the PID of the dead one, and another the PID of a process
\* that has exited.
ReusedPids ==
    [p \in Namesakes \union {Dead} |->
        IF p = Dead THEN q1 ELSE IF p = q3 THEN q2 ELSE p]
TwoRequests == [p \in Namesakes |-> IF p = q3 THEN 2 ELSE 1]

D == INSTANCE DurableLock WITH NoFile <- Nothing, PidOf <- DistinctPids
R == INSTANCE DurableLock WITH Procs <- Namesakes, NoFile <- Nothing, PidOf <- ReusedPids,
                               MaxFiles <- MaxReusedFiles
E == INSTANCE EffectLedger WITH Procs <- Namesakes, Ghost <- Dead, None <- Nothing,
                                Request <- TwoRequests, proc <- effect, record <- produced, crashes <- stops

ASSUME LocksAssumption == D!LockConstants /\ R!LockConstants /\ E!EffectConstants

LocksInit ==
    /\ which \in {"distinct", "reused", "effect"}
    /\ (IF which = "reused" THEN R!Init ELSE D!Init) /\ E!Init
    /\ which # "effect" \/ \A l \in D!Levels : path[l] = Nothing /\ fence[l] = Nothing
    /\ which = "effect" \/ (lock = Nothing /\ marker = Nothing)

LocksNext ==
    /\ UNCHANGED which
    /\ \/ which = "distinct" /\ UNCHANGED effectVars /\ D!Next
       \/ which = "reused" /\ UNCHANGED effectVars /\ R!Next
       \/ which = "effect" /\ UNCHANGED storeVars /\ E!Next
LocksSpec == LocksInit /\ [][LocksNext]_locksVars
-----------------------------------------------------------------------------
\* At most one live process holds a lock at a time: between reading and replacing
\* a record, with the locks it published itself (DurableLock), or while it
\* produces an effect (EffectLedger).  The lock of the store keeps its variables in
\* their ranges, and whatever is retired is a process's own or a dead one's.  Of the
\* store this is so with three processes; with five it is not, and the theorems
\* name the condition on which any number of them exclude each other.
MutualExclusion ==
    /\ IF which = "reused"
       THEN R!MutualExclusion /\ R!TypeOK /\ R!LockInv
       ELSE D!MutualExclusion /\ D!TypeOK /\ D!LockInv
    /\ which = "distinct" => D!HoldsOwnLocks
    /\ E!MutualExclusion

\* DurableLock: no compare-and-swap overwrites one it has not seen, with three
\* processes (see MutualExclusion).
NoLostUpdate == [][record'.version = record.version + 1]_record

\* EffectLedger: an answer is what the record says and answers its own request,
\* and who has one has left no lock behind; its inductive invariant holds.
AnswersTrue == E!AnswersStand /\ E!OwnAnswer /\ E!NothingLeft /\ E!EffectInv
=============================================================================
