------------------------------ MODULE RunRedrive ------------------------------
(***************************************************************************)
(* What keeps the runs of a host going.  With every tick of its cron       *)
(* raiser, redrive of workflow-qa core.lua has the host list its pending   *)
(* runs up to a limit (pendingRequests of generic-host-runtime.js),        *)
(* collects the pending actions of all of them, and raises them.  At a     *)
(* startup the supervisor of the host lists them by a scan of its own, and *)
(* raises a tick for each.  A run moves on when one of its requests is     *)
(* answered; requests and ticks are lost, and a department stops anywhere. *)
(* The two departments take turns: the supervisor writes nothing but ticks.*)
(***************************************************************************)
EXTENDS Naturals, FiniteSets

CONSTANTS
    MaxRuns,  \* the runs of the host, in the order of their names
    Limits,   \* how many of them a scan may return
    MaxStops  \* bound: departments that stop in the middle

\* What the constants must be, for a configuration.
RedriveConstants ==
    /\ MaxRuns \in Nat /\ MaxStops \in Nat
    /\ Limits \subseteq Nat \ {0}

Runs == 1 .. MaxRuns
Departments == {"seam", "supervisor"}

VARIABLES
    phase,   \* phase[r]: what the records of the run say
    broken,  \* runs whose chain of authorization is refused
    raised,  \* runs that have a request on its way
    ticks,   \* runs that have a tick of their own on its way
    limit,   \* the limit of the ticks
    job,     \* what the department at work does, the runs it has still to go
             \* through, and those it found
    stops

redriveVars == <<phase, broken, raised, ticks, limit, job, stops>>

Idle == [by |-> "seam", pc |-> "idle", todo |-> {}, found |-> {}]

Init ==
    /\ phase = [r \in Runs |-> "unknown"] /\ broken = {}
    /\ raised = {} /\ ticks = {} /\ limit \in Limits
    /\ job = Idle /\ stops = 0

At(pc) == job.pc = pc
\* The runs of a job are gone through in the order of their names.
Now(r) == r \in job.todo /\ \A q \in job.todo : r <= q

First(some) == {r \in some : Cardinality({q \in some : q < r}) < limit}

\* The next run, or the next part of the job once there is none.
Go(todo, found, then) ==
    job' = CASE todo # {} -> [job EXCEPT !.todo = todo, !.found = found]
             [] todo = {} /\ found = {} -> Idle
             [] OTHER -> [job EXCEPT !.pc = then, !.todo = found, !.found = {}]
Enter(d, pc, todo) == job' = [by |-> d, pc |-> pc, todo |-> todo, found |-> {}]
Requests == UNCHANGED <<raised, ticks>>
Records == UNCHANGED <<phase, broken>>
-----------------------------------------------------------------------------
\* initialize writes the index of the run last.
IndexRun(r) ==
    /\ phase[r] = "unknown" /\ phase' = [phase EXCEPT ![r] = "indexed"]
    /\ Requests /\ UNCHANGED <<broken, job, stops>>

\* An artifact of the chain does not fit, or its file in the project differs; the
\* chain of a recorded run is of no use any more.
Break(r) ==
    /\ phase[r] \notin {"unknown", "recorded"} /\ r \notin broken
    /\ broken' = broken \union {r}
    /\ Requests /\ UNCHANGED <<phase, job, stops>>

\* A cron tick, or a trigger file at the startup of the host.  pendingRequests
\* wants a state, and lists a run whose cleanup is blocked; list_pending of the
\* supervisor does neither.  A list is made in one step.
Lists(d, r) ==
    phase[r] \in {"open", "terminal"} \union
                 (IF d = "seam" THEN {"blocked"} ELSE {"indexed"})

Tick(d) ==
    /\ At("idle") /\ \E r \in Runs : Lists(d, r)
    /\ Enter(d, IF d = "seam" THEN "load" ELSE "raise", First({r \in Runs : Lists(d, r)}))
    /\ Requests /\ Records /\ UNCHANGED stops

RunTick(r) ==
    /\ At("idle") /\ r \in ticks
    /\ Enter("seam", "load", {r}) /\ ticks' = ticks \ {r}
    /\ Records /\ UNCHANGED <<raised, stops>>

\* The actions of all runs, or an error for one of them; a run without a state
\* is started.  Nothing is pending once a cleanup is blocked.
Reconstruct ==
    /\ At("load")
    /\ \E r \in Runs :
          /\ Now(r)
          /\ \/ r \in broken /\ job' = Idle /\ UNCHANGED phase
             \/ /\ r \notin broken
                /\ phase' = [phase EXCEPT ![r] = IF @ = "indexed" THEN "open" ELSE @]
                /\ Go(job.todo \ {r},
                      job.found \union (IF phase[r] = "blocked" THEN {} ELSE {r}), "raise")
    /\ Requests /\ UNCHANGED <<broken, stops>>

Raise ==
    /\ At("raise")
    /\ \E r \in Runs :
          /\ Now(r) /\ Go(job.todo \ {r}, {}, "idle")
          /\ IF job.by = "seam" THEN raised' = raised \union {r} /\ UNCHANGED ticks
             ELSE ticks' = ticks \union {r} /\ UNCHANGED raised
    /\ Records /\ UNCHANGED stops

Steps == Reconstruct \/ Raise

Stop ==
    /\ ~At("idle") /\ stops < MaxStops /\ stops' = stops + 1
    /\ job' = Idle /\ Requests /\ Records
-----------------------------------------------------------------------------
\* An answer takes the run on (WorkflowQa), and what it asks next is raised, or
\* not when its department stops.
Answer(r) ==
    /\ r \in raised /\ phase[r] = "open"
    /\ \E next \in {"open", "blocked", "terminal"}, on \in BOOLEAN :
          /\ phase' = [phase EXCEPT ![r] = next]
          /\ raised' = IF on /\ next # "blocked" THEN raised ELSE raised \ {r}
    /\ UNCHANGED <<broken, ticks, job, stops>>

\* The host records the end of the run.
RecordTerminal(r) ==
    /\ r \in raised /\ phase[r] = "terminal"
    /\ phase' = [phase EXCEPT ![r] = "recorded"] /\ raised' = raised \ {r}
    /\ UNCHANGED <<broken, ticks, job, stops>>

\* A tick that is lost is one that is never handled.
Lose(r) ==
    /\ r \in raised /\ raised' = raised \ {r}
    /\ Records /\ UNCHANGED <<ticks, job, stops>>

Next ==
    /\ UNCHANGED limit
    /\ \/ (\E d \in Departments : Tick(d)) \/ Steps \/ Stop
       \/ \E r \in Runs :
             \/ IndexRun(r) \/ Break(r) \/ RunTick(r)
             \/ Answer(r) \/ RecordTerminal(r) \/ Lose(r)

Spec == Init /\ [][Next]_redriveVars
\* The cron raiser ticks, and the department goes on.
FairSpec ==
    /\ Spec
    /\ SF_redriveVars(Tick("seam") /\ UNCHANGED limit)
    /\ WF_redriveVars(Steps /\ UNCHANGED limit)
-----------------------------------------------------------------------------
\* Every variable keeps its range.
TypeOK ==
    /\ phase \in [Runs -> {"unknown", "indexed", "open", "blocked", "terminal", "recorded"}]
    /\ broken \subseteq Runs /\ raised \subseteq Runs /\ ticks \subseteq Runs
    /\ job \in [by : Departments, pc : {"idle", "load", "raise"},
               todo : SUBSET Runs, found : SUBSET Runs]
    /\ limit \in Limits /\ stops \in 0 .. MaxStops

\* The runs a cron tick gets to: pending ones, a blocked cleanup among them, the
\* first by name.
Waiting == {r \in Runs : phase[r] \in {"open", "blocked", "terminal"}}
Batch == First(Waiting)

\* A run with something to ask asks again and again, whatever is lost and whoever
\* stops (redrive): as long as fewer runs than the limit are pending before it, those
\* of a blocked cleanup included, and none of the batch has a broken chain.  A run
\* that never got a state breaks no batch.
Redriven ==
    \A r \in Runs :
        <>[](r \in Batch /\ phase[r] # "blocked" /\ Batch \intersect broken = {})
            => []<>(r \in raised)
=============================================================================
