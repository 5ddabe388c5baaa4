---------------------------- MODULE ResourceBudgets ----------------------------
(***************************************************************************)
(* The usage record of an operation of environment-factory (createBudget-  *)
(* Runtime of runtime/budgets.js): the network requests its readiness      *)
(* checks made and the processor time of its commands.  Effects of several *)
(* processes use it: waitReadiness asks for every probe, and               *)
(* executeBudgetedCommand adds what a command took when it is over.  A     *)
(* process may stop anywhere, and its effect is run again.                 *)
(***************************************************************************)
EXTENDS Naturals, FiniteSets

CONSTANTS
    Users,     \* processes that run an effect of the operation
    NoUser,
    NetLimit,  \* network_requests of the approved budget
    CpuLimit,  \* cpu_millis of the approved budget
    Costs,     \* what a command may take
    MaxRuns    \* bound: effects begun

\* What the constants must be, for a configuration.
BudgetConstants ==
    /\ NoUser \notin Users
    /\ NetLimit \in Nat /\ CpuLimit \in Nat /\ MaxRuns \in Nat /\ Costs \subseteq Nat

VARIABLES
    usage,   \* the record, replaced as a whole
    holder,  \* who has the lock of the record
    user,    \* user[u]: where the effect is, the record it read, what its command took
    begun,   \* effects begun
    probes,  \* history: network requests made
    passed   \* history: processor time of the commands that passed

budgetVars == <<usage, holder, user, begun, probes, passed>>

Idle == [pc |-> "idle", seen |-> [net |-> 0, cpu |-> 0], cost |-> 0]

Init ==
    /\ usage = [net |-> 0, cpu |-> 0] /\ holder = NoUser
    /\ user = [u \in Users |-> Idle] /\ begun = 0
    /\ probes = 0 /\ passed = 0

At(u, pc) == user[u].pc = pc
Goto(u, pc) == user' = [user EXCEPT ![u].pc = pc]
Quit(u) == user' = [user EXCEPT ![u] = Idle]
History == UNCHANGED <<probes, passed>>
Record == UNCHANGED <<usage, holder>>

\* A command, or the checks of a service or of the application.
Begin(u) ==
    /\ At(u, "idle") /\ begun < MaxRuns
    /\ begun' = begun + 1
    /\ \E pc \in {"command", "checks"} : Goto(u, pc)
    /\ Record /\ History

\* enforceCurrentBudgets reads the record without its lock.  Memory, disk, the
\* number of processes and the processor time of those still running may be over
\* their limits too, or not be measurable.
Within == usage.cpu <= CpuLimit

Enforce(u) ==
    /\ \/ At(u, "command") /\ Within /\ Goto(u, "running")
       \/ At(u, "checks") /\ Within /\ Goto(u, "ask")
       \/ user[u].pc \in {"command", "checks"} /\ Quit(u)
    /\ UNCHANGED begun /\ Record /\ History

\* runMeasuredCommand: a command that fails, that runs out of time or whose output
\* is over its limit has taken its time like the others.
RunMeasuredCommand(u) ==
    /\ At(u, "running")
    /\ \E c \in Costs : user' = [user EXCEPT ![u].pc = "ran", ![u].cost = c]
    /\ UNCHANGED begun /\ Record /\ History

\* updateUsage takes the lock and reads the record.
ReadUsage(u) ==
    /\ user[u].pc \in {"ran", "ask"} /\ holder = NoUser
    /\ holder' = u
    /\ user' = [user EXCEPT ![u].pc = IF @ = "ran" THEN "add" ELSE "consume",
                            ![u].seen = usage]
    /\ UNCHANGED <<usage, begun>> /\ History

\* Mutant: a request counts when it has been made.
ConsumeLate(u) ==
    /\ At(u, "consume") /\ holder' = NoUser
    /\ \/ user[u].seen.net < NetLimit /\ Goto(u, "probe")
       \/ user[u].seen.net >= NetLimit /\ Quit(u)
    /\ UNCHANGED <<usage, begun>> /\ History

\* consumeNetworkRequest: what is left is decided under the lock, and counts
\* before the request is made.
ConsumeNetworkRequest(u) ==
    LET seen == user[u].seen
    IN  /\ At(u, "consume") /\ holder' = NoUser
        /\ \/ /\ seen.net < NetLimit
              /\ usage' = [seen EXCEPT !.net = @ + 1] /\ Goto(u, "probe")
           \/ seen.net >= NetLimit /\ usage' = seen /\ Quit(u)
        /\ UNCHANGED begun /\ History

\* readinessCheck; the checks go on until all are answered or the time is over.
ReadinessCheck(u) ==
    /\ At(u, "probe") /\ probes' = probes + 1
    /\ \/ Goto(u, "checks")
       \/ Quit(u)
    /\ UNCHANGED <<begun, passed>> /\ Record

\* A command that has put the record over its limit does not pass.
AddUsage(u) ==
    LET new == [user[u].seen EXCEPT !.cpu = @ + user[u].cost]
    IN  /\ At(u, "add") /\ usage' = new /\ holder' = NoUser
        /\ \/ new.cpu <= CpuLimit /\ Goto(u, "after")
           \/ new.cpu > CpuLimit /\ Quit(u)
        /\ UNCHANGED begun /\ History

\* The budgets are enforced once more, and the exit code is looked at.
After(u) ==
    /\ At(u, "after") /\ Quit(u)
    /\ passed' \in {passed} \union (IF Within THEN {passed + user[u].cost} ELSE {})
    /\ UNCHANGED <<begun, probes>> /\ Record

\* The lock of a process that has stopped is taken over (EffectLedger).
Crash(u) ==
    /\ ~At(u, "idle") /\ Quit(u)
    /\ holder' = (IF holder = u THEN NoUser ELSE holder)
    /\ UNCHANGED <<usage, begun>> /\ History

Next ==
    \E u \in Users :
        \/ Begin(u) \/ Enforce(u) \/ RunMeasuredCommand(u) \/ ReadUsage(u)
        \/ ConsumeNetworkRequest(u) \/ ReadinessCheck(u) \/ AddUsage(u) \/ After(u)
        \/ Crash(u)
Spec == Init /\ [][Next]_budgetVars
-----------------------------------------------------------------------------
UserStates ==
    [pc : {"idle", "command", "checks", "running", "ask", "ran", "add", "consume", "probe",
           "after"},
     seen : [net : Nat, cpu : Nat], cost : Costs \union {0}]

TypeOK ==
    /\ usage \in [net : Nat, cpu : Nat] /\ holder \in Users \union {NoUser}
    /\ user \in [Users -> UserStates]
    /\ begun \in 0 .. MaxRuns /\ probes \in Nat /\ passed \in Nat

\* However the effects of an operation overlap, stop and are run again, its
\* readiness checks make no more network requests than were approved, and the
\* commands that are said to have passed took no more processor time together.
BudgetKept == probes <= NetLimit /\ passed <= CpuLimit
-----------------------------------------------------------------------------
(* The inductive invariant behind it.                                      *)

\* Who reads the record to replace it holds its lock, and nobody else replaces it.
LockHeld ==
    \A u \in Users :
        /\ user[u].pc \in {"add", "consume"} <=> holder = u
        /\ holder = u => user[u].seen = usage

\* A request that is about to be made counts already.
Probing == {u \in Users : At(u, "probe")}
RequestsCounted ==
    /\ IsFiniteSet(Probing)
    /\ probes + Cardinality(Probing) <= usage.net
    /\ usage.net <= NetLimit

\* So does the time of a command that may still pass: a set of as many elements.
Finishing == {u \in Users : At(u, "after")}
Taken == UNION {{u} \X (1 .. user[u].cost) : u \in Finishing}
TimeCounted ==
    /\ IsFiniteSet(Taken)
    /\ passed + Cardinality(Taken) <= usage.cpu
    /\ passed <= CpuLimit

BudgetInv == TypeOK /\ LockHeld /\ RequestsCounted /\ TimeCounted
=============================================================================
