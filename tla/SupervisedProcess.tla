--------------------------- MODULE SupervisedProcess ---------------------------
(***************************************************************************)
(* A supervised start of environment-factory: runArgvEffect and cleanup of *)
(* environment-factory-runtime.js around runtime/supervised-process.js.    *)
(* The launcher and the supervisor it spawns are processes of their own    *)
(* that meet in the startup claim, a file with a lock.  The supervisor     *)
(* starts the target; either may stop at any step, and a launcher that     *)
(* stopped is followed by another that takes up the claim it left.         *)
(***************************************************************************)
EXTENDS Naturals

CONSTANTS
    Launchers,  \* handlers of the operation that run the effect
    NoLauncher

Supervisor == "supervisor"
ASSUME LaunchersAssumption == NoLauncher \notin Launchers /\ Supervisor \notin Launchers \union {NoLauncher}

VARIABLES
    claim,        \* the startup claim
    claimOwner,   \* who holds the lock of the claim
    home,         \* the worker home of the process
    supervisor,   \* the supervisor, from spawn to its end
    target,       \* the process it starts
    starts,       \* history: targets started
    processFiles, \* the resource record of the process
    started,      \* the effect record of the start
    launch,       \* the launcher at work: handler, next step, state it saw
    sweep         \* the cleanup at work: handler, next step, verdict so far

processVars ==
    <<claim, claimOwner, home, supervisor, target, starts, processFiles, started,
      launch, sweep>>

ClaimStates == {"none", "allocating", "preparing", "prepared", "registered", "running",
                "exited", "failed", "revoked"}
Ended == {"exited", "failed", "revoked"}
NoLaunch == [by |-> NoLauncher, pc |-> "none", seen |-> "none"]
NoSweep == [by |-> NoLauncher, pc |-> "none", ok |-> TRUE]

ProcessInit ==
    /\ claim = "none" /\ claimOwner = NoLauncher /\ home = "none"
    /\ supervisor = "none" /\ target = "none" /\ starts = 0
    /\ processFiles = "none" /\ started = "none"
    /\ launch = NoLaunch /\ sweep = NoSweep

\* processGroupState of the process group in the record: whoever leads it, a
\* member of it that lives keeps it alive.
GroupAlive == supervisor \in {"registered", "spawned", "watching"} \/ target = "alive"
KillGroup ==
    /\ supervisor' = (IF supervisor = "none" THEN "none" ELSE "dead")
    /\ target' = (IF target = "alive" THEN "dead" ELSE target)

Launching(h, pc) == launch.by = h /\ launch.pc = pc
Go(pc) == launch' = [launch EXCEPT !.pc = pc]
Processes == UNCHANGED <<supervisor, target, starts>>
Records == UNCHANGED <<processFiles, started, sweep>>
-----------------------------------------------------------------------------
(* runArgvEffect in supervised mode, under the lock of its effect.         *)

BeginStart(h) ==
    /\ started = "none" /\ launch = NoLaunch
    /\ launch' = [NoLaunch EXCEPT !.by = h, !.pc = "look"]
    /\ UNCHANGED <<claim, claimOwner, home>> /\ Processes /\ Records

\* enforceCurrentBudgets: the process that an earlier launcher left is charged
\* to the operation only through its record.
OverBudget(h) ==
    /\ Launching(h, "look") /\ Go("refused")
    /\ UNCHANGED <<claim, claimOwner, home>> /\ Processes /\ Records

\* A record is there: the process is neither started nor waited for.  Without
\* the process table, its group does not count as running.
Rejoin(h) ==
    /\ Launching(h, "look") /\ processFiles # "none" /\ home = "leased"
    /\ (GroupAlive /\ Go("running")) \/ Go("blocked")
    /\ UNCHANGED <<claim, claimOwner, home>> /\ Processes /\ Records

\* verifyPersistedWorkerEnvironment throws: the effect keeps no record.
RefuseRejoin(h) ==
    /\ Launching(h, "look") /\ processFiles # "none" /\ home # "leased"
    /\ launch' = NoLaunch
    /\ UNCHANGED <<claim, claimOwner, home>> /\ Processes /\ Records

\* Mutant: a claim that was prepared is launched again.
TakeUpAnew(h) ==
    /\ Launching(h, "look") /\ processFiles = "none" /\ claimOwner = NoLauncher
    /\ claimOwner' = h
    /\ Go(CASE claim = "none" -> "claim"
            [] claim \in {"allocating", "preparing"} -> "home"
            [] claim \in {"prepared", "failed"} -> "publish"
            [] OTHER -> "unlock")
    /\ UNCHANGED <<claim, home>> /\ Processes /\ Records

\* startOrRecoverSupervisedProcess takes up the claim where it stands.
TakeUp(h) ==
    /\ Launching(h, "look") /\ processFiles = "none" /\ claimOwner = NoLauncher
    /\ claimOwner' = h
    /\ Go(CASE claim = "none" -> "claim"
            [] claim \in {"allocating", "preparing"} -> "home"
            [] OTHER -> "unlock")
    /\ UNCHANGED <<claim, home>> /\ Processes /\ Records

WriteClaim(h) ==
    /\ Launching(h, "claim") /\ claim' = "allocating" /\ Go("home")
    /\ UNCHANGED <<claimOwner, home>> /\ Processes /\ Records

\* allocateDurableWorkerEnvironment: a home of this claim is leased, or found.
ReserveHome(h) ==
    /\ Launching(h, "home") /\ home = "none"
    /\ home' = "reserved" /\ Go("lease")
    /\ UNCHANGED <<claim, claimOwner>> /\ Processes /\ Records

LeaseHome(h) ==
    /\ Launching(h, "lease") /\ home = "reserved" /\ home' = "leased" /\ Go("prepare")
    /\ UNCHANGED <<claim, claimOwner>> /\ Processes /\ Records

FindHome(h) ==
    /\ Launching(h, "home") /\ home = "leased" /\ Go("prepare")
    /\ UNCHANGED <<claim, claimOwner, home>> /\ Processes /\ Records

\* The error of a start is its answer: blocked, with the pointer of a resource
\* that no record was written for.
Fail(h, pc) == Launching(h, pc) /\ Go("blocked") /\ UNCHANGED home /\ Records
Unlocked == claimOwner' = NoLauncher

MissHome(h) ==
    /\ \/ home \notin {"none", "leased"} /\ Fail(h, "home")
       \/ home # "reserved" /\ Fail(h, "lease")
    /\ Unlocked
    /\ UNCHANGED claim /\ Processes

Prepare(h) ==
    /\ Launching(h, "prepare") /\ claim' = "preparing" /\ Go("publish")
    /\ UNCHANGED <<claimOwner, home>> /\ Processes /\ Records

PublishLaunchSpec(h) ==
    /\ Launching(h, "publish") /\ claim' = "prepared" /\ Go("spawn")
    /\ UNCHANGED <<claimOwner, home>> /\ Processes /\ Records

SpawnSupervisor(h) ==
    /\ Launching(h, "spawn") /\ supervisor' = "started" /\ Go("unlock")
    /\ UNCHANGED <<claim, claimOwner, home, target, starts>> /\ Records

\* "supervisor-launch-failed".
RevokeLaunch(h) ==
    /\ Launching(h, "spawn") /\ Go("blocked")
    /\ claim' = "revoked" /\ home' = "gone" /\ Unlocked
    /\ Processes /\ Records

UnlockClaim(h) ==
    /\ Launching(h, "unlock") /\ Unlocked /\ Go("poll")
    /\ UNCHANGED <<claim, home>> /\ Processes /\ Records

\* The launcher waits for the supervisor to move the claim on, without its lock.
See(h, state) == launch' = [launch EXCEPT !.pc = "verify", !.seen = state]

SeeClaim(h) ==
    /\ Launching(h, "poll")
    /\ \/ claim = "running" /\ supervisor # "dead"
       \/ claim \in Ended
    /\ See(h, claim) /\ (claim = "revoked" \/ home = "leased")
    /\ UNCHANGED <<claim, claimOwner, home>> /\ Processes /\ Records

\* "registered-process-unavailable".
SeeDead(h) ==
    /\ Launching(h, "poll") /\ claim \in {"registered", "running"} /\ home = "leased"
    /\ supervisor = "dead" /\ claimOwner = NoLauncher
    /\ claim' = "failed" /\ See(h, "failed")
    /\ UNCHANGED <<claimOwner, home>> /\ Processes /\ Records

\* verifyWorkerEnvironmentLease throws in the loop.
MissLease(h) ==
    /\ claim \in {"registered", "running", "exited", "failed"} /\ home # "leased"
    /\ Fail(h, "poll")
    /\ UNCHANGED <<claim, claimOwner>> /\ Processes

\* The registration deadline: what is not registered by now never starts.
Deadline(h) ==
    /\ Launching(h, "poll") /\ claimOwner = NoLauncher
    /\ IF claim \in {"preparing", "prepared"}
       THEN claim' = "revoked" /\ home' = "gone" /\ See(h, "revoked")
       ELSE See(h, claim) /\ UNCHANGED <<claim, home>>
    /\ UNCHANGED claimOwner /\ Processes /\ Records

VerifyHome(h) ==
    /\ Launching(h, "verify") /\ home = "leased" /\ Go("files")
    /\ UNCHANGED <<claim, claimOwner, home>> /\ Processes /\ Records

\* stopProcess, for a process with a home that is not its own any more; a group
\* that cannot be looked at is not stopped.
StopUnverified(h) ==
    /\ Launching(h, "verify") /\ home # "leased" /\ Go("blocked")
    /\ \/ launch.seen # "revoked" /\ KillGroup
       \/ UNCHANGED <<supervisor, target>>
    /\ UNCHANGED <<claim, claimOwner, home, starts>> /\ Records

WriteProcess(h) ==
    /\ Launching(h, "files") /\ processFiles' = "present" /\ Go("check")
    /\ UNCHANGED <<claim, claimOwner, home, started, sweep>> /\ Processes

\* A process that is over a budget is killed, one that cannot be looked at is
\* not; its record stays.
CheckProcess(h) ==
    /\ Launching(h, "check")
    /\ \/ launch.seen = "running" /\ GroupAlive /\ Go("running") /\ UNCHANGED <<supervisor, target>>
       \/ launch.seen = "running" /\ GroupAlive /\ Go("blocked") /\ KillGroup
       \/ Go("blocked") /\ UNCHANGED <<supervisor, target>>
    /\ UNCHANGED <<claim, claimOwner, home, starts>> /\ Records

RecordStart(h) ==
    /\ launch.by = h /\ launch.pc \in {"running", "blocked", "refused"}
    /\ started' = launch.pc /\ launch' = NoLaunch
    /\ UNCHANGED <<claim, claimOwner, home, processFiles, sweep>> /\ Processes

CrashLauncher(h) ==
    /\ launch' = (IF launch.by = h THEN NoLaunch ELSE launch)
    /\ sweep' = (IF sweep.by = h THEN NoSweep ELSE sweep)
    /\ claimOwner' = (IF claimOwner = h THEN NoLauncher ELSE claimOwner)
    /\ UNCHANGED <<claim, home, processFiles, started>> /\ Processes
-----------------------------------------------------------------------------
(* childMain, the supervisor.                                              *)

Elsewhere == UNCHANGED <<home, processFiles, started, launch, sweep>>

\* It reads the claim without its lock first.
CheckClaim ==
    /\ supervisor = "started"
    /\ supervisor' = (IF claim = "prepared" THEN "checked" ELSE "dead")
    /\ UNCHANGED <<claim, claimOwner, target, starts>> /\ Elsewhere

\* Mutant: what it read first is not read again under the lock.
RegisterUnread ==
    /\ supervisor = "checked" /\ claimOwner = NoLauncher
    /\ claim' = "registered" /\ supervisor' = "registered" /\ claimOwner' = Supervisor
    /\ UNCHANGED <<target, starts>> /\ Elsewhere

Register ==
    /\ supervisor = "checked" /\ claimOwner = NoLauncher
    /\ IF claim = "prepared"
       THEN claim' = "registered" /\ supervisor' = "registered" /\ claimOwner' = Supervisor
       ELSE supervisor' = "dead" /\ UNCHANGED <<claim, claimOwner>>
    /\ UNCHANGED <<target, starts>> /\ Elsewhere

\* The target is a child in the process group of the supervisor, if it can be
\* spawned; that it cannot is heard of later, like its exit.
SpawnTarget ==
    /\ supervisor = "registered" /\ supervisor' = "spawned"
    /\ \/ target' = "alive" /\ starts' = starts + 1
       \/ UNCHANGED <<target, starts>>
    /\ UNCHANGED <<claim, claimOwner>> /\ Elsewhere

ReportRunning ==
    /\ supervisor = "spawned"
    /\ claim' = "running" /\ supervisor' = "watching" /\ Unlocked
    /\ UNCHANGED <<target, starts>> /\ Elsewhere

TargetExits ==
    /\ target = "alive" /\ target' = "dead"
    /\ UNCHANGED <<claim, claimOwner, supervisor, starts>> /\ Elsewhere

\* transitionClaim: a claim that was moved on meanwhile is left alone.
ReportExit ==
    /\ supervisor = "watching" /\ target # "alive" /\ claimOwner = NoLauncher
    /\ claim' = (IF claim # "running" THEN claim
                 ELSE IF target = "none" THEN "failed" ELSE "exited")
    /\ supervisor' = "dead"
    /\ UNCHANGED <<claimOwner, target, starts>> /\ Elsewhere

\* Killed, alone: its target lives on in the group.
SupervisorDies ==
    /\ supervisor \notin {"none", "dead"} /\ supervisor' = "dead"
    /\ claimOwner' = (IF claimOwner = Supervisor THEN NoLauncher ELSE claimOwner)
    /\ UNCHANGED <<claim, target, starts>> /\ Elsewhere

Supervise ==
    \/ CheckClaim \/ Register \/ SpawnTarget \/ ReportRunning \/ ReportExit
-----------------------------------------------------------------------------
(* cleanup of the process.                                                 *)

Unswept == UNCHANGED <<claim, starts, started, launch>>
Sweeping(h, pc) == sweep.by = h /\ sweep.pc = pc
Sweep(pc, ok) == sweep' = [sweep EXCEPT !.pc = pc, !.ok = sweep.ok /\ ok]

\* The cleanup command of the profile, if there is one, may fail.
RunCleanup(h) ==
    /\ processFiles = "present" /\ sweep = NoSweep /\ started # "none"
    /\ \E ok \in BOOLEAN : sweep' = [by |-> h, pc |-> "stop", ok |-> ok]
    /\ Unswept /\ UNCHANGED <<claimOwner, home, supervisor, target, processFiles>>

\* Before the group is stopped the cleanup may throw: no configuration, no
\* workspace or no worker home to run the command in.  Nothing is recorded.
ThrowCleanup(h) ==
    /\ Sweeping(h, "stop") /\ sweep' = NoSweep
    /\ Unswept /\ UNCHANGED <<claimOwner, home, supervisor, target, processFiles>>

\* stopProcess spares a group that it cannot look at (no process table), or whose
\* leader is gone between two looks at it; such a group is not released.
SpareGroup(h) ==
    /\ Sweeping(h, "stop") /\ Sweep("record", FALSE)
    /\ Unswept /\ UNCHANGED <<claimOwner, home, supervisor, target, processFiles>>

\* Mutant: SIGTERM only, which a process need not heed, and no look after it.
StopGroupAndGo(h) ==
    /\ Sweeping(h, "stop") /\ Sweep("release", TRUE)
    /\ KillGroup \/ (GroupAlive /\ UNCHANGED <<supervisor, target>>)
    /\ claimOwner' = (IF claimOwner = Supervisor /\ supervisor' = "dead"
                      THEN NoLauncher ELSE claimOwner)
    /\ Unswept /\ UNCHANGED <<home, processFiles>>

\* SIGTERM, then SIGKILL at the deadline.  A group that was killed may still be
\* there when it is looked at for the last time: it is not released then.
StopGroup(h) ==
    /\ Sweeping(h, "stop") /\ KillGroup
    /\ Sweep("release", TRUE) \/ (GroupAlive /\ Sweep("record", FALSE))
    /\ claimOwner' = (IF claimOwner = Supervisor /\ supervisor' = "dead"
                      THEN NoLauncher ELSE claimOwner)
    /\ Unswept /\ UNCHANGED <<home, processFiles>>

\* recordPersistedWorkerEnvironmentRelease, which the broker may refuse.
ReleaseProcessHome(h) ==
    /\ Sweeping(h, "release")
    /\ \/ home' = "gone" /\ Sweep("record", TRUE)
       \/ home' = home /\ Sweep("record", FALSE)
    /\ Unswept /\ UNCHANGED <<claimOwner, supervisor, target, processFiles>>

RecordCleanup(h) ==
    /\ Sweeping(h, "record")
    /\ processFiles' = (IF sweep.ok THEN "cleaned" ELSE "present") /\ sweep' = NoSweep
    /\ Unswept /\ UNCHANGED <<claimOwner, home, supervisor, target>>

Start(h) ==
    \/ BeginStart(h) \/ OverBudget(h) \/ Rejoin(h) \/ RefuseRejoin(h) \/ TakeUp(h)
    \/ WriteClaim(h) \/ ReserveHome(h) \/ LeaseHome(h) \/ FindHome(h) \/ MissHome(h)
    \/ Prepare(h) \/ PublishLaunchSpec(h) \/ SpawnSupervisor(h) \/ RevokeLaunch(h)
    \/ UnlockClaim(h) \/ SeeClaim(h) \/ SeeDead(h) \/ MissLease(h) \/ Deadline(h)
    \/ VerifyHome(h) \/ StopUnverified(h) \/ WriteProcess(h) \/ CheckProcess(h)
    \/ RecordStart(h)
CleanProcess(h) ==
    \/ RunCleanup(h) \/ ThrowCleanup(h) \/ SpareGroup(h) \/ StopGroup(h)
    \/ ReleaseProcessHome(h) \/ RecordCleanup(h)
ProcessFaults == TargetExits \/ SupervisorDies

ProcessNext ==
    \/ \E h \in Launchers : Start(h) \/ CleanProcess(h) \/ CrashLauncher(h)
    \/ Supervise \/ ProcessFaults
ProcessSpec == ProcessInit /\ [][ProcessNext]_processVars
-----------------------------------------------------------------------------
\* Where a launcher holds the lock of the claim, and where it is without it.
Locked == {"claim", "home", "lease", "prepare", "publish", "spawn", "unlock"}
LaunchPoints == Locked \union {"none", "look", "poll", "verify", "files", "check",
                               "running", "blocked", "refused"}

\* Every variable keeps its range (validClaim of supervised-process.js).
ProcessTypeOK ==
    /\ claim \in ClaimStates
    /\ claimOwner \in Launchers \union {NoLauncher, Supervisor}
    /\ home \in {"none", "reserved", "leased", "gone"}
    /\ supervisor \in {"none", "started", "checked", "registered", "spawned", "watching", "dead"}
    /\ target \in {"none", "alive", "dead"} /\ starts \in Nat
    /\ processFiles \in {"none", "present", "cleaned"}
    /\ started \in {"none", "running", "blocked", "refused"}
    /\ launch \in [by : Launchers \union {NoLauncher}, pc : LaunchPoints, seen : ClaimStates]
    /\ sweep \in [by : Launchers \union {NoLauncher}, pc : {"none", "stop", "release", "record"},
                  ok : BOOLEAN]

\* However often a start is delivered, and whichever of the two processes
\* stopped on the way, its target is started once
\* (startOrRecoverSupervisedProcess).
StartedOnce == starts <= 1

\* A claim that was revoked at the registration deadline stays revoked and
\* starts nothing, late as the supervisor may be (the second look of childMain,
\* under the lock).
RevokedNeverStarts ==
    [][claim = "revoked" => claim' = "revoked" /\ starts' = starts]_processVars

\* A process on record as cleaned has no living member left in its group, and
\* its home is gone (stopProcess, cleanup).
CleanedMeansStopped == processFiles = "cleaned" => ~GroupAlive /\ home = "gone"

\* The claim as the launcher that holds its lock has left it.
ClaimHeld ==
    /\ launch.pc \in Locked <=> claimOwner \in Launchers
    /\ claimOwner \in Launchers => launch.by = claimOwner
    /\ launch.pc = "claim" => claim = "none"
    /\ launch.pc \in {"home", "lease", "prepare"} => claim \in {"allocating", "preparing"}
    /\ launch.pc = "publish" => claim = "preparing"
    /\ launch.pc = "spawn" => claim = "prepared" /\ supervisor = "none"

\* There is one supervisor, and nothing is started before it has registered.
OneSupervisor ==
    /\ claim \in {"none", "allocating", "preparing"} => supervisor = "none"
    /\ claim \in {"none", "allocating", "preparing", "prepared"}
          \/ supervisor \in {"none", "started", "checked", "registered"} =>
        starts = 0 /\ target = "none"
    /\ supervisor \in {"registered", "spawned"} => claim = "registered" /\ claimOwner = Supervisor

\* Nothing is launched once the start is on record, and a cleanup comes after that.
Quiet == supervisor \in {"none", "dead"} /\ target # "alive"
SweptAfter ==
    /\ started # "none" => launch = NoLaunch
    /\ sweep.pc # "none" => started # "none"
    /\ sweep.pc = "release" => Quiet
    /\ sweep.pc = "record" /\ sweep.ok => Quiet /\ home = "gone"
    /\ processFiles = "cleaned" =>
        started # "none" /\ sweep.pc = "none" /\ Quiet /\ home = "gone"

\* Inductive.
ProcessInv == ProcessTypeOK /\ StartedOnce /\ ClaimHeld /\ OneSupervisor /\ SweptAfter
=============================================================================
