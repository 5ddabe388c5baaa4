--------------------------- MODULE MCRuntimeParts ---------------------------
(***************************************************************************)
(* The parts of the runtimes that keep files of their own, one of them at a*)
(* time: the initial state picks one, and only that one takes steps.       *)
(* EnvironmentOperation has the first three under one operation; here they *)
(* meet what an operation does not do by itself: other operations, and any *)
(* number of handlers that stop.                                           *)
(***************************************************************************)
EXTENDS SupervisedProcess, PortClaims, WorkspaceCheckout, AuthorizationLineage

CONSTANTS
    Slots, MaxGen, MaxEntries, MaxFaults,           \* WorkerHomes
    Procs, Ghost, None, MaxCrashes, MaxKills,       \* EffectLedger
    Dead, NoFile, MaxFiles,                         \* DurableLock
    NoUser, NetLimit, CpuLimit, Costs, MaxRuns,     \* ResourceBudgets
    MaxHostRuns, Limits, MaxHalts                   \* RunRedrive

VARIABLES
    part,
    entry, homes, capture, proof, cmd, job, cleaner, faults,
    lock, marker, guard, helper, proc, moved, record, answer, crashes, kills,
    path, fence, storeRecord, storing, stops,
    usage, holder, user, begun, probes, passed,
    phase, broken, raised, ticks, limit, turn, halts

homeVars == <<entry, homes, capture, proof, cmd, job, cleaner, faults>>
effectVars == <<lock, marker, guard, helper, proc, moved, record, answer, crashes, kills>>
storeVars == <<path, fence, storeRecord, storing, stops>>
budgetVars == <<usage, holder, user, begun, probes, passed>>
redriveVars == <<phase, broken, raised, ticks, limit, turn, halts>>
allVars ==
    <<part, processVars, portVars, workspaceVars, homeVars, effectVars, storeVars, budgetVars,
      lineageVars, redriveVars>>

\* Every process asks for the same effect, and has a PID of its own.
OneRequest == [p \in Procs |-> 1]
DistinctPids == [p \in Procs \union {Dead} |-> p]

H == INSTANCE WorkerHomes WITH home <- homes
E == INSTANCE EffectLedger WITH Request <- OneRequest
D == INSTANCE DurableLock WITH PidOf <- DistinctPids, record <- storeRecord, proc <- storing,
                               crashes <- stops
B == INSTANCE ResourceBudgets WITH Users <- Procs
R == INSTANCE RunRedrive WITH MaxRuns <- MaxHostRuns, MaxStops <- MaxHalts, job <- turn,
                              stops <- halts

ASSUME PartsAssumption ==
    H!HomesConstants /\ E!EffectConstants /\ D!LockConstants /\ B!BudgetConstants
    /\ R!RedriveConstants

Init ==
    /\ part \in {"process", "ports", "workspace", "homes", "effect", "store", "budget",
                 "lineage", "redrive"}
    /\ ProcessInit /\ PortInit /\ WorkspaceInit /\ LineageInit
    /\ H!Init /\ E!Init /\ D!Init /\ B!Init /\ R!Init
    /\ part = "ports" \/ approval = Nobody
    /\ part = "effect" \/ (lock = None /\ marker = None)
    /\ part = "redrive" \/ \A n \in Limits : limit <= n
    /\ part = "store" \/ \A l \in D!Levels : path[l] = NoFile /\ fence[l] = NoFile

Only(p) ==
    /\ part = p /\ UNCHANGED part
    /\ p = "process" \/ UNCHANGED processVars
    /\ p = "ports" \/ UNCHANGED portVars
    /\ p = "workspace" \/ UNCHANGED workspaceVars
    /\ p = "homes" \/ UNCHANGED homeVars
    /\ p = "effect" \/ UNCHANGED effectVars
    /\ p = "store" \/ UNCHANGED storeVars
    /\ p = "budget" \/ UNCHANGED budgetVars
    /\ p = "lineage" \/ UNCHANGED lineageVars
    /\ p = "redrive" \/ UNCHANGED redriveVars

Next ==
    \/ Only("process") /\ ProcessNext
    \/ Only("ports") /\ PortNext
    \/ Only("workspace") /\ WorkspaceNext
    \/ Only("homes") /\ H!Next
    \/ Only("effect") /\ E!Next
    \/ Only("store") /\ D!Next
    \/ Only("budget") /\ B!Next
    \/ Only("lineage") /\ LineageNext
    \/ Only("redrive") /\ R!Next

\* The fairness of each part; process, ports and workspace have none.
Fairness ==
    /\ WF_allVars(Only("homes") /\ H!Cleanup)
    /\ \A a \in Slots \union {"cleaner"} : WF_allVars(Only("homes") /\ H!Remove(a))
    /\ \A s \in Slots : WF_allVars(Only("homes") /\ H!Command(s))
    /\ \A p \in Procs : /\ WF_allVars(Only("effect") /\ E!Steps(p))
                        /\ WF_allVars(Only("effect") /\ E!HelperSteps(p))
                        /\ WF_allVars(Only("effect") /\ E!MarkerStays(p))
                        /\ WF_allVars(Only("store") /\ D!Step(p))
    /\ \A w \in Callers : WF_allVars(Only("lineage") /\ LineageSteps(w))
    /\ SF_allVars(\E w \in Callers : Only("lineage") /\ Ask(w, ReplayGuard))
    /\ SF_allVars(Only("redrive") /\ R!Tick("seam") /\ UNCHANGED limit)
    /\ WF_allVars(Only("redrive") /\ R!Steps /\ UNCHANGED limit)
Spec == Init /\ [][Next]_allVars /\ Fairness
-----------------------------------------------------------------------------
\* No home is forgotten, called released too early, or left without its proof
\* (WorkerHomes); process, ports, workspace, homes, budget and lineage keep their
\* inductive invariants, redrive keeps its variables in their ranges (those of effect
\* and store are in MCHostLocks).
HomesAccounted ==
    /\ H!HomesAccounted /\ H!HomesInv
    /\ ProcessInv /\ PortInv /\ WorkspaceInv /\ LineageInv /\ B!BudgetInv
    /\ R!TypeOK

\* No more network requests than were approved, and no more processor time in the
\* commands that are said to have passed (ResourceBudgets).
BudgetKept == B!BudgetKept

\* Each part goes on whatever the dead left: a home that was reserved is released
\* (WorkerHomes), a process that is alone comes to an answer or to the error after
\* its wait for a marker (EffectLedger), every process gets through without its
\* timeout (DurableLock), a completed execution gets its index
\* (AuthorizationLineage), and a pending run asks again with the ticks that get to
\* it (RunRedrive).
PartsProgress ==
    /\ part = "homes" => H!EventuallyReleased
    /\ part = "effect" => E!LoneGetsThrough
    /\ part = "store" => D!EventuallySettled
    /\ part = "lineage" => LineageCompletes
    /\ part = "redrive" => R!Redriven
=============================================================================
