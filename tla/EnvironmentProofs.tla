--------------------------- MODULE EnvironmentProofs ---------------------------
(***************************************************************************)
(* Proofs about an operation of environment-factory: three handlers that   *)
(* overlap and stop, each with its own copy of the state, over the ports,  *)
(* the workspace and the process of OperationPartsProofs.                  *)
(***************************************************************************)
EXTENDS EnvironmentOperation, TLAPS

Parts == INSTANCE OperationPartsProofs WITH
            Launchers <- Handlers, NoLauncher <- Nobody,
            Checkers <- Handlers, NoChecker <- Nobody

-----------------------------------------------------------------------------
(* The parts of an operation keep their own invariants.                    *)

\* The operation gives its parts what they assume of their constants.
LEMMA PartsConstants ==
    Parts!PortsAssumption /\ Parts!WorkspaceAssumption /\ Parts!LaunchersAssumption
BY OperationAssumption
   DEF Parts!PortsAssumption, Parts!WorkspaceAssumption, Parts!LaunchersAssumption,
       Parts!Nobody, Parts!Other, Parts!Supervisor, Handlers, Nobody

\* The ports of the operation are those that the lemmas are about.
LEMMA SamePorts ==
    /\ (P!PortInv <=> Parts!PortInv) /\ (P!PortInv' <=> Parts!PortInv')
    /\ P!PortInit <=> Parts!PortInit
    /\ \A h \in Handlers :
          /\ P!ClaimPorts(h) => Parts!ClaimPorts(h)
          /\ P!ReleasePorts(h) => Parts!ReleasePorts(h)
          /\ P!CrashPorts(h) => Parts!CrashPorts(h)
<1> USE DEF P!Owners, P!Operation, P!Other, P!Nobody, P!NoClaiming, P!Unlock, P!Write,
            P!Claiming, P!MustStop,
            Parts!Owners, Parts!Operation, Parts!Other, Parts!Nobody, Parts!NoClaiming,
            Parts!Unlock, Parts!Write, Parts!Claiming, Parts!MustStop
<1>1. (P!PortInv <=> Parts!PortInv) /\ (P!PortInv' <=> Parts!PortInv')
  BY DEF P!PortInv, P!PortTypeOK, P!ClaimComplete, P!Holding,
         Parts!PortInv, Parts!PortTypeOK, Parts!ClaimComplete, Parts!Holding
<1>2. P!PortInit <=> Parts!PortInit
  BY DEF P!PortInit, Parts!PortInit
<1>3. ASSUME NEW h \in Handlers, P!ClaimPorts(h) PROVE Parts!ClaimPorts(h)
  BY <1>3 DEF P!ClaimPorts, P!LockForClaim, P!RefuseClaim, P!BeginClaim, P!TakePort,
              P!UseApproval, P!RecordClaim,
              Parts!ClaimPorts, Parts!LockForClaim, Parts!RefuseClaim, Parts!BeginClaim,
              Parts!TakePort, Parts!UseApproval, Parts!RecordClaim
<1>4. ASSUME NEW h \in Handlers, P!ReleasePorts(h) PROVE Parts!ReleasePorts(h)
  BY <1>4 DEF P!ReleasePorts, P!LockForRelease, P!FreePort, P!RecordRelease,
              Parts!ReleasePorts, Parts!LockForRelease, Parts!FreePort, Parts!RecordRelease
<1>5. ASSUME NEW h \in Handlers, P!CrashPorts(h) PROVE Parts!CrashPorts(h)
  BY <1>5 DEF P!CrashPorts, P!StopClaiming, Parts!CrashPorts, Parts!StopClaiming
<1>6. QED
  BY <1>1, <1>2, <1>3, <1>4, <1>5

\* So is its workspace.
LEMMA SameWorkspace ==
    /\ (W!WorkspaceInv <=> Parts!WorkspaceInv) /\ (W!WorkspaceInv' <=> Parts!WorkspaceInv')
    /\ W!WorkspaceInit <=> Parts!WorkspaceInit
    /\ \A h \in Handlers :
          /\ W!Checkout(h) => Parts!Checkout(h)
          /\ W!CrashWorkspace(h) => Parts!CrashWorkspace(h)
    /\ W!SweepWorkspace => Parts!SweepWorkspace
    /\ W!RecordSwept => Parts!RecordSwept
<1> USE DEF W!NoDir, W!Dirs, W!NoReservation, W!Steps, W!Checking, W!Then, W!Stop, W!Disk,
            W!Resumable, W!Stranded, W!CommandFails,
            Parts!NoDir, Parts!Dirs, Parts!NoReservation, Parts!Steps, Parts!Checking,
            Parts!Then, Parts!Stop, Parts!Disk, Parts!Resumable, Parts!Stranded,
            Parts!CommandFails
<1>1. (W!WorkspaceInv <=> Parts!WorkspaceInv) /\ (W!WorkspaceInv' <=> Parts!WorkspaceInv')
  BY DEF W!WorkspaceInv, W!WorkspaceTypeOK, W!WorkspaceSound, W!CheckoutWhole,
         W!DirectoryKnown, W!SweptIsGone, W!Working,
         Parts!WorkspaceInv, Parts!WorkspaceTypeOK, Parts!WorkspaceSound,
         Parts!CheckoutWhole, Parts!DirectoryKnown, Parts!SweptIsGone, Parts!Working
<1>2. W!WorkspaceInit <=> Parts!WorkspaceInit
  BY DEF W!WorkspaceInit, Parts!WorkspaceInit
<1>3. ASSUME NEW h \in Handlers, W!Checkout(h) PROVE Parts!Checkout(h)
  BY <1>3 DEF W!Checkout, W!BeginCheckout, W!ReserveWorkspace, W!ResumeWorkspace,
              W!RefuseWorkspace, W!RemoveOld, W!ProveOld, W!Allocate, W!Persist, W!Retire,
              W!Clone, W!Verdict, W!RecordCheckout,
              Parts!Checkout, Parts!BeginCheckout, Parts!ReserveWorkspace,
              Parts!ResumeWorkspace, Parts!RefuseWorkspace, Parts!RemoveOld,
              Parts!ProveOld, Parts!Allocate, Parts!Persist, Parts!Retire, Parts!Clone,
              Parts!Verdict, Parts!RecordCheckout
<1>4. ASSUME NEW h \in Handlers, W!CrashWorkspace(h) PROVE Parts!CrashWorkspace(h)
  BY <1>4 DEF W!CrashWorkspace, Parts!CrashWorkspace
<1>5. /\ W!SweepWorkspace => Parts!SweepWorkspace
      /\ W!RecordSwept => Parts!RecordSwept
  BY DEF W!SweepWorkspace, Parts!SweepWorkspace, W!RecordSwept, Parts!RecordSwept
<1>6. QED
  BY <1>1, <1>2, <1>3, <1>4, <1>5

\* And its process.
LEMMA SameProcess ==
    /\ (A!ProcessInv <=> Parts!ProcessInv) /\ (A!ProcessInv' <=> Parts!ProcessInv')
    /\ A!ProcessInit <=> Parts!ProcessInit
    /\ \A h \in Handlers :
          /\ A!Start(h) => Parts!Start(h)
          /\ A!CleanProcess(h) => Parts!CleanProcess(h)
          /\ A!CrashLauncher(h) => Parts!CrashLauncher(h)
    /\ A!Supervise => Parts!Supervise
    /\ A!ProcessFaults => Parts!ProcessFaults
<1> USE DEF A!Supervisor, A!ClaimStates, A!Ended, A!NoLaunch, A!NoSweep, A!GroupAlive,
            A!KillGroup, A!Launching, A!Go, A!Processes, A!Records, A!Fail, A!Unlocked,
            A!See, A!Elsewhere, A!Unswept, A!Sweeping, A!Sweep, A!Quiet, A!Locked,
            A!LaunchPoints,
            Parts!Supervisor, Parts!ClaimStates, Parts!Ended, Parts!NoLaunch,
            Parts!NoSweep, Parts!GroupAlive, Parts!KillGroup, Parts!Launching, Parts!Go,
            Parts!Processes, Parts!Records, Parts!Fail, Parts!Unlocked, Parts!See,
            Parts!Elsewhere, Parts!Unswept, Parts!Sweeping, Parts!Sweep, Parts!Quiet,
            Parts!Locked, Parts!LaunchPoints
<1>1. (A!ProcessInv <=> Parts!ProcessInv) /\ (A!ProcessInv' <=> Parts!ProcessInv')
  BY DEF A!ProcessInv, A!ProcessTypeOK, A!StartedOnce, A!ClaimHeld, A!OneSupervisor,
         A!SweptAfter, Parts!ProcessInv, Parts!ProcessTypeOK, Parts!StartedOnce,
         Parts!ClaimHeld, Parts!OneSupervisor, Parts!SweptAfter
<1>2. A!ProcessInit <=> Parts!ProcessInit
  BY DEF A!ProcessInit, Parts!ProcessInit
<1>3. ASSUME NEW h \in Handlers, A!Start(h) PROVE Parts!Start(h)
  BY <1>3 DEF A!Start, A!BeginStart, A!OverBudget, A!Rejoin, A!RefuseRejoin, A!TakeUp,
              A!WriteClaim, A!ReserveHome, A!LeaseHome, A!FindHome, A!MissHome, A!Prepare,
              A!PublishLaunchSpec, A!SpawnSupervisor, A!RevokeLaunch, A!UnlockClaim,
              A!SeeClaim, A!SeeDead, A!MissLease, A!Deadline, A!VerifyHome,
              A!StopUnverified, A!WriteProcess, A!CheckProcess, A!RecordStart,
              Parts!Start, Parts!BeginStart, Parts!OverBudget, Parts!Rejoin,
              Parts!RefuseRejoin, Parts!TakeUp, Parts!WriteClaim, Parts!ReserveHome,
              Parts!LeaseHome, Parts!FindHome, Parts!MissHome, Parts!Prepare,
              Parts!PublishLaunchSpec, Parts!SpawnSupervisor, Parts!RevokeLaunch,
              Parts!UnlockClaim, Parts!SeeClaim, Parts!SeeDead, Parts!MissLease,
              Parts!Deadline, Parts!VerifyHome, Parts!StopUnverified,
              Parts!WriteProcess, Parts!CheckProcess, Parts!RecordStart
<1>4. ASSUME NEW h \in Handlers, A!CleanProcess(h) PROVE Parts!CleanProcess(h)
  BY <1>4 DEF A!CleanProcess, A!RunCleanup, A!ThrowCleanup, A!SpareGroup, A!StopGroup,
              A!ReleaseProcessHome, A!RecordCleanup, Parts!CleanProcess, Parts!RunCleanup,
              Parts!ThrowCleanup, Parts!SpareGroup, Parts!StopGroup,
              Parts!ReleaseProcessHome, Parts!RecordCleanup
<1>5. ASSUME NEW h \in Handlers, A!CrashLauncher(h) PROVE Parts!CrashLauncher(h)
  BY <1>5 DEF A!CrashLauncher, Parts!CrashLauncher
<1>6. /\ A!Supervise => Parts!Supervise
      /\ A!ProcessFaults => Parts!ProcessFaults
  BY DEF A!Supervise, A!CheckClaim, A!Register, A!SpawnTarget, A!ReportRunning,
         A!ReportExit, A!ProcessFaults, A!TargetExits, A!SupervisorDies,
         Parts!Supervise, Parts!CheckClaim, Parts!Register, Parts!SpawnTarget,
         Parts!ReportRunning, Parts!ReportExit, Parts!ProcessFaults,
         Parts!TargetExits, Parts!SupervisorDies
<1>7. QED
  BY <1>1, <1>2, <1>3, <1>4, <1>5, <1>6

-----------------------------------------------------------------------------
(* What the steps of the operation do to its parts.                        *)

\* A handler begins; or it works on its copy of the state and saves it.
Begins == BeginStart \/ RepeatStart \/ BeginBrowser \/ BeginEnd
OnCopy(h) ==
    \/ SaveClaim(h) \/ Call(h) \/ Expired(h) \/ SaveHomes(h) \/ SaveCheckout(h) \/ PhaseFails(h)
    \/ SaveApplication(h) \/ WaitReady(h) \/ Attempt(h) \/ SavePending(h) \/ SaveBrowser(h)
    \/ RefuseBrowser(h) \/ PublishReady(h) \/ CleanupReceipt(h) \/ SaveCleanup(h) \/ Answer(h)

\* The steps that leave every effect as it is.
LEMMA OnCopyIsLocal ==
    ASSUME NEW h \in Handlers, OnCopy(h)
    PROVE  Effects /\ World /\ UNCHANGED past
BY DEF OnCopy, SaveClaim, Call, Expired, SaveHomes, SaveCheckout, PhaseFails, SaveApplication,
       WaitReady, Attempt, SavePending, SaveBrowser, RefuseBrowser, PublishReady,
       CleanupReceipt, SaveCleanup, Answer, Outside

Local ==
    \/ Begins \/ Expire \/ AskEnd \/ UNCHANGED vars
    \/ \E h \in Handlers : OnCopy(h)

\* None of these touches an effect, or the history.
LEMMA LocalIsLocal == Local => Effects /\ UNCHANGED past
BY OnCopyIsLocal
   DEF Local, Begins, BeginStart, RepeatStart, BeginBrowser, BeginEnd, Begin, Expire, AskEnd, vars, opVars,
       Effects

\* The steps that are effects, and those that are not.
Effectful ==
    \/ \E h \in Handlers :
          \/ ClaimStep(h) \/ CheckoutStep(h) \/ StartStep(h) \/ Crash(h)
          \/ CleanApplication(h) \/ CleanWorkspace(h) \/ CleanHomes(h) \/ CleanPorts(h)
    \/ Supervise \/ ProcessFault

\* There are no other steps.
LEMMA AllSteps == [Next]_vars => Local \/ Effectful
BY DEF Next, Handle, Local, Effectful, Begins, OnCopy

\* Ports are claimed by a handler that finds no record of a claim, and freed by
\* one whose copy of the state names them.
LEMMA PortSteps ==
    ASSUME [Next]_vars
    PROVE  \/ UNCHANGED portVars
           \/ \E h \in Handlers : ClaimStep(h) /\ ~claimed /\ P!ClaimPorts(h)
           \/ \E h \in Handlers : CleanPorts(h) /\ Turn(h, "ports") /\ P!ReleasePorts(h)
           \/ \E h \in Handlers : Crash(h) /\ P!CrashPorts(h)
<1>1. CASE Local
  BY <1>1, LocalIsLocal DEF Effects
<1>2. CASE Effectful
  BY <1>2 DEF Effectful, ClaimStep, CheckoutStep, StartStep, Crash, CleanApplication,
              CleanWorkspace, CleanHomes, CleanPorts, Supervise, ProcessFault, ElsewhereToo
<1>3. QED
  BY <1>1, <1>2, AllSteps

\* A workspace changes by a checkout without a record, by its cleanup, or by a stop.
LEMMA WorkspaceSteps ==
    ASSUME [Next]_vars
    PROVE  \/ UNCHANGED workspaceVars
           \/ \E h \in Handlers : CheckoutStep(h) /\ checkedOut = "none" /\ W!Checkout(h)
           \/ \E h \in Handlers : CleanWorkspace(h) /\ (W!SweepWorkspace \/ W!RecordSwept)
           \/ \E h \in Handlers : Crash(h) /\ W!CrashWorkspace(h)
<1>1. CASE Local
  BY <1>1, LocalIsLocal DEF Effects
<1>2. CASE Effectful
  BY <1>2 DEF Effectful, ClaimStep, CheckoutStep, StartStep, Crash, CleanApplication,
              CleanWorkspace, CleanHomes, CleanPorts, Supervise, ProcessFault, ElsewhereToo
<1>3. QED
  BY <1>1, <1>2, AllSteps

\* A home is removed under its process only by the cleanup of homes.
HomesGo ==
    /\ home' \in {home, IF home = "none" THEN "none" ELSE "gone"}
    /\ UNCHANGED <<claim, claimOwner, supervisor, target, starts, processFiles, started,
                   launch, sweep>>

\* The process changes by a start, its cleanup, that of the homes, or by itself.
LEMMA ProcessSteps ==
    ASSUME [Next]_vars
    PROVE  \/ UNCHANGED processVars
           \/ \E h \in Handlers : StartStep(h) /\ A!Start(h)
           \/ \E h \in Handlers : CleanApplication(h) /\ A!CleanProcess(h)
           \/ \E h \in Handlers : CleanHomes(h) /\ HomesGo
           \/ \E h \in Handlers : Crash(h) /\ A!CrashLauncher(h)
           \/ A!Supervise \/ A!ProcessFaults
<1>1. CASE Local
  BY <1>1, LocalIsLocal DEF Effects
<1>2. CASE Effectful
  BY <1>2 DEF Effectful, ClaimStep, CheckoutStep, StartStep, Crash, CleanApplication,
              CleanWorkspace, CleanHomes, CleanPorts, Supervise, ProcessFault, HomesGo
<1>3. QED
  BY <1>1, <1>2, AllSteps

\* The ports keep their invariant.
LEMMA PortsKept == P!PortInv /\ [Next]_vars => P!PortInv'
<1> SUFFICES ASSUME P!PortInv, [Next]_vars PROVE P!PortInv'
  OBVIOUS
<1>1. Parts!PortInv
  BY SamePorts
<1>2. CASE UNCHANGED portVars
  BY <1>2 DEF portVars, P!PortInv, P!PortTypeOK, P!ClaimComplete, P!Holding
<1>3. ASSUME NEW h \in Handlers, P!ClaimPorts(h) \/ P!ReleasePorts(h) \/ P!CrashPorts(h)
      PROVE  P!PortInv'
  <2>1. Parts!ClaimPorts(h) \/ Parts!ReleasePorts(h) \/ Parts!CrashPorts(h)
    BY <1>3, SamePorts
  <2>2. Parts!PortInv'
    BY <1>1, <2>1, PartsConstants, Parts!ClaimPortsInv, Parts!ReleasePortsInv,
       Parts!CrashPortsInv
  <2>3. QED
    BY <2>2, SamePorts
<1>4. QED
  BY <1>2, <1>3, PortSteps

\* The workspace keeps its invariant.
LEMMA WorkspaceKept == W!WorkspaceInv /\ [Next]_vars => W!WorkspaceInv'
<1> SUFFICES ASSUME W!WorkspaceInv, [Next]_vars PROVE W!WorkspaceInv'
  OBVIOUS
<1>1. Parts!WorkspaceInv
  BY SameWorkspace
<1>2. CASE UNCHANGED workspaceVars
  BY <1>2 DEF workspaceVars, W!WorkspaceInv, W!WorkspaceTypeOK, W!WorkspaceSound,
              W!CheckoutWhole, W!DirectoryKnown, W!SweptIsGone, W!Working
<1>3. ASSUME NEW h \in Handlers,
             W!Checkout(h) \/ W!SweepWorkspace \/ W!RecordSwept \/ W!CrashWorkspace(h)
      PROVE  W!WorkspaceInv'
  <2>1. \/ Parts!Checkout(h) \/ Parts!SweepWorkspace \/ Parts!RecordSwept
        \/ Parts!CrashWorkspace(h)
    BY <1>3, SameWorkspace
  <2>2. Parts!WorkspaceNext
    BY <2>1 DEF Parts!WorkspaceNext
  <2>3. Parts!WorkspaceInv'
    BY <1>1, <2>2, PartsConstants, Parts!WorkspaceStepInv
  <2>4. QED
    BY <2>3, SameWorkspace
<1>4. QED
  BY <1>2, <1>3, WorkspaceSteps

\* The process keeps its invariant, though its home may be taken from it.
LEMMA ProcessKept == A!ProcessInv /\ [Next]_vars => A!ProcessInv'
<1> SUFFICES ASSUME A!ProcessInv, [Next]_vars PROVE A!ProcessInv'
  OBVIOUS
<1>1. Parts!ProcessInv
  BY SameProcess
<1>2. CASE UNCHANGED processVars
  BY <1>2 DEF processVars, A!ProcessInv, A!ProcessTypeOK, A!StartedOnce, A!ClaimHeld,
              A!OneSupervisor, A!SweptAfter, A!Quiet
<1>3. CASE HomesGo
  BY <1>3 DEF HomesGo, A!ProcessInv, A!ProcessTypeOK, A!StartedOnce, A!ClaimHeld,
              A!OneSupervisor, A!SweptAfter, A!Quiet
<1>4. ASSUME NEW h \in Handlers, A!Start(h) \/ A!CleanProcess(h) \/ A!CrashLauncher(h)
      PROVE  A!ProcessInv'
  <2>1. Parts!Start(h) \/ Parts!CleanProcess(h) \/ Parts!CrashLauncher(h)
    BY <1>4, SameProcess
  <2>2. Parts!ProcessInv'
    BY <1>1, <2>1, PartsConstants, Parts!StartInv, Parts!CleanProcessInv,
       Parts!CrashLauncherInv
  <2>3. QED
    BY <2>2, SameProcess
<1>5. CASE A!Supervise \/ A!ProcessFaults
  <2>1. Parts!Supervise \/ Parts!ProcessFaults
    BY <1>5, SameProcess
  <2>2. Parts!ProcessInv'
    BY <1>1, <2>1, PartsConstants, Parts!SuperviseInv
  <2>3. QED
    BY <2>2, SameProcess
<1>6. QED
  BY <1>2, <1>3, <1>4, <1>5, ProcessSteps

-----------------------------------------------------------------------------
(* What is recorded of a part stays recorded.                              *)

PortsGrow == (claimed => claimed') /\ (portFiles = "cleaned" => portFiles' = "cleaned")
WorkspaceGrows ==
    /\ checkedOut # "none" => checkedOut' = checkedOut
    /\ reservation.cleaned => reservation'.cleaned
    /\ reservation.state # "none" => reservation'.state # "none"
ProcessGrows ==
    /\ started # "none" => started' = started
    /\ processFiles = "cleaned" => processFiles' = "cleaned"
    /\ claim # "none" => claim' # "none"

\* Ports are released only after they were claimed.
LEMMA PortFacts ==
    ASSUME P!PortInv, ClaimedOnce, NEW h \in Handlers,
           \/ P!ClaimPorts(h) /\ ~claimed
           \/ P!ReleasePorts(h) /\ claimed
           \/ P!CrashPorts(h)
    PROVE  ClaimedOnce' /\ PortsGrow
<1> USE DEF P!PortInv, P!PortTypeOK, P!Holding, ClaimedOnce, PortsGrow, P!Claiming, P!Unlock,
            P!Write, P!NoClaiming, P!Operation, P!Nobody, P!Other
<1>1. CASE P!ClaimPorts(h) /\ ~claimed
  <2>1. CASE P!LockForClaim(h)
    BY <1>1, <2>1 DEF P!LockForClaim
  <2>2. CASE P!RefuseClaim(h)
    BY <1>1, <2>2 DEF P!RefuseClaim
  <2>3. CASE P!BeginClaim(h)
    BY <1>1, <2>3 DEF P!BeginClaim
  <2>4. CASE P!TakePort(h)
    BY <1>1, <2>4 DEF P!TakePort
  <2>5. CASE P!UseApproval(h)
    BY <1>1, <2>5 DEF P!UseApproval
  <2>6. CASE P!RecordClaim(h)
    BY <1>1, <2>6 DEF P!RecordClaim
  <2>7. QED
    BY <1>1, <2>1, <2>2, <2>3, <2>4, <2>5, <2>6 DEF P!ClaimPorts
<1>2. CASE P!ReleasePorts(h) /\ claimed
  <2>1. CASE P!LockForRelease(h)
    BY <1>2, <2>1 DEF P!LockForRelease
  <2>2. CASE P!FreePort(h)
    BY <1>2, <2>2 DEF P!FreePort
  <2>3. CASE P!RecordRelease(h)
    BY <1>2, <2>3 DEF P!RecordRelease
  <2>4. QED
    BY <1>2, <2>1, <2>2, <2>3 DEF P!ReleasePorts
<1>3. CASE P!CrashPorts(h)
  BY <1>3 DEF P!CrashPorts, P!StopClaiming
<1>4. QED
  BY <1>1, <1>2, <1>3

\* A checkout that has a record is not made again.
LEMMA WorkspaceFacts ==
    ASSUME W!WorkspaceInv, NEW h \in Handlers,
           W!Checkout(h) \/ W!SweepWorkspace \/ W!RecordSwept \/ W!CrashWorkspace(h)
    PROVE  WorkspaceGrows
<1> USE DEF W!WorkspaceInv, W!WorkspaceTypeOK, W!Working, WorkspaceGrows, W!Checking,
            W!Then, W!Stop, W!Disk, W!CommandFails, W!NoDir
<1>1. CASE W!Checkout(h)
  BY <1>1 DEF W!Checkout, W!BeginCheckout, W!ReserveWorkspace, W!ResumeWorkspace,
              W!RefuseWorkspace, W!RemoveOld, W!ProveOld, W!Allocate, W!Persist, W!Retire,
              W!Clone, W!Verdict, W!RecordCheckout
<1>2. CASE W!SweepWorkspace \/ W!RecordSwept \/ W!CrashWorkspace(h)
  BY <1>2 DEF W!SweepWorkspace, W!RecordSwept, W!CrashWorkspace
<1>3. QED
  BY <1>1, <1>2

\* A start that has a record is not made again, and a process that was cleaned stays so.
LEMMA ProcessFacts ==
    ASSUME A!ProcessInv, NEW h \in Handlers,
           \/ A!Start(h) \/ A!CleanProcess(h) \/ A!CrashLauncher(h)
           \/ A!Supervise \/ A!ProcessFaults \/ HomesGo
    PROVE  ProcessGrows
<1> USE DEF A!ProcessInv, A!ProcessTypeOK, A!ClaimHeld, A!SweptAfter, ProcessGrows,
            A!Launching, A!Go, A!Fail, A!See, A!Unlocked, A!Processes, A!Records,
            A!NoLaunch, A!Locked, Handlers, Nobody
<1>1. CASE A!Start(h)
  BY <1>1 DEF A!Start, A!BeginStart, A!OverBudget, A!Rejoin, A!RefuseRejoin, A!TakeUp,
              A!WriteClaim, A!ReserveHome, A!LeaseHome, A!FindHome, A!MissHome, A!Prepare,
              A!PublishLaunchSpec, A!SpawnSupervisor, A!RevokeLaunch, A!UnlockClaim,
              A!SeeClaim, A!SeeDead, A!MissLease, A!Deadline, A!VerifyHome,
              A!StopUnverified, A!WriteProcess, A!CheckProcess, A!RecordStart
<1>2. CASE A!CleanProcess(h)
  BY <1>2 DEF A!CleanProcess, A!RunCleanup, A!ThrowCleanup, A!SpareGroup, A!StopGroup,
              A!ReleaseProcessHome, A!RecordCleanup, A!Unswept, A!Sweeping, A!Sweep, A!NoSweep
<1>3. CASE A!CrashLauncher(h) \/ HomesGo
  BY <1>3 DEF A!CrashLauncher, HomesGo
<1>4. CASE A!Supervise \/ A!ProcessFaults
  BY <1>4 DEF A!Supervise, A!CheckClaim, A!Register, A!SpawnTarget, A!ReportRunning,
              A!ReportExit, A!ProcessFaults, A!TargetExits, A!SupervisorDies, A!Elsewhere
<1>5. QED
  BY <1>1, <1>2, <1>3, <1>4

\* A handler cleans what its copy of the state names.
LEMMA TurnFacts ==
    ASSUME NEW h \in Handlers, NEW k, Turn(h, k)
    PROVE  At(h, "undo") /\ k \in mem[h].st.resources
BY DEF Turn, Left

\* Nothing that is on record is lost by a step.
LEMMA PartsGrow ==
    ASSUME OperationInv, [Next]_vars
    PROVE  ClaimedOnce' /\ PortsGrow /\ WorkspaceGrows /\ ProcessGrows
<1>1. ClaimedOnce' /\ PortsGrow
  <2>1. CASE UNCHANGED portVars
    BY <2>1 DEF portVars, OperationInv, ClaimedOnce, PortsGrow
  <2>2. ASSUME NEW h \in Handlers, CleanPorts(h), Turn(h, "ports") PROVE claimed
    BY <2>2, TurnFacts DEF OperationInv, Known
  <2>3. QED
    BY <2>1, <2>2, PortSteps, PortFacts DEF OperationInv
<1>2. WorkspaceGrows
  <2>1. CASE UNCHANGED workspaceVars
    BY <2>1 DEF workspaceVars, WorkspaceGrows
  <2>2. QED
    BY <2>1, WorkspaceSteps, WorkspaceFacts DEF OperationInv
<1>3. ProcessGrows
  <2>1. CASE UNCHANGED processVars
    BY <2>1 DEF processVars, ProcessGrows
  <2>2. CASE A!Supervise \/ A!ProcessFaults
    <3>1. "start" \in Handlers
      BY DEF Handlers
    <3>2. QED
      BY <2>2, <3>1, ProcessFacts DEF OperationInv
  <2>3. QED
    BY <2>1, <2>2, ProcessSteps, ProcessFacts DEF OperationInv
<1>4. QED
  BY <1>1, <1>2, <1>3

-----------------------------------------------------------------------------
(* The workspace comes before the process.                                 *)

\* What a step does to a workspace that is not reserved after it.
LEMMA Unreserved ==
    ASSUME OperationInv, [Next]_vars, reservation'.state = "none"
    PROVE  /\ reservation.state = "none"
           /\ step' \in {"none", "look"} /\ checkedOut' = "none" /\ dir' = W!NoDir
<1>1. reservation.state = "none"
  BY PartsGrow DEF WorkspaceGrows
<1>2. step \in {"none", "look"} /\ checkedOut = "none" /\ dir = W!NoDir
  BY <1>1 DEF OperationInv, ReservedFirst
<1> USE <1>1, <1>2
    DEF OperationInv, W!WorkspaceInv, W!WorkspaceTypeOK, W!Working, W!Checking, W!Then,
        W!Stop, W!Disk, W!NoDir, W!CommandFails, W!Resumable, W!Stranded
<1>3. CASE UNCHANGED workspaceVars
  BY <1>3 DEF workspaceVars
<1>4. ASSUME NEW h \in Handlers, W!Checkout(h)
      PROVE  step' \in {"none", "look"} /\ checkedOut' = "none" /\ dir' = W!NoDir
  BY <1>4 DEF W!Checkout, W!BeginCheckout, W!ReserveWorkspace, W!ResumeWorkspace,
              W!RefuseWorkspace, W!RemoveOld, W!ProveOld, W!Allocate, W!Persist, W!Retire,
              W!Clone, W!Verdict, W!RecordCheckout
<1>5. ASSUME NEW h \in Handlers, W!SweepWorkspace \/ W!RecordSwept \/ W!CrashWorkspace(h)
      PROVE  step' \in {"none", "look"} /\ checkedOut' = "none" /\ dir' = W!NoDir
  BY <1>5 DEF W!SweepWorkspace, W!RecordSwept, W!CrashWorkspace
<1>6. QED
  BY <1>3, <1>4, <1>5, WorkspaceSteps

\* A launch begins in a workspace that is there.
LEMMA LaunchHasWorkspace ==
    ASSUME OperationInv, NEW h \in Handlers, StartStep(h), launch = A!NoLaunch
    PROVE  dir # W!NoDir /\ dir = reservation.dir
BY DEF StartStep, Workspace, A!NoLaunch, Handlers, Nobody

\* Without a claim and a launcher nothing comes to be of a process.
LEMMA NoProcess ==
    ASSUME OperationInv, [Next]_vars, claim = "none", launch = A!NoLaunch
    PROVE  \/ claim' = "none" /\ launch' = A!NoLaunch
           \/ \E h \in Handlers : StartStep(h) /\ A!Start(h)
<1> USE DEF A!NoLaunch
<1>1. supervisor = "none" /\ target = "none"
  BY DEF OperationInv, A!ProcessInv, A!OneSupervisor
<1>2. CASE UNCHANGED processVars
  BY <1>2 DEF processVars
<1>3. ASSUME NEW h \in Handlers, A!CleanProcess(h)
      PROVE  claim' = "none" /\ launch' = A!NoLaunch
  BY <1>3 DEF A!CleanProcess, A!RunCleanup, A!ThrowCleanup, A!SpareGroup, A!StopGroup,
              A!ReleaseProcessHome, A!RecordCleanup, A!Unswept
<1>4. ASSUME NEW h \in Handlers, A!CrashLauncher(h) \/ HomesGo
      PROVE  claim' = "none" /\ launch' = A!NoLaunch
  BY <1>4 DEF A!CrashLauncher, HomesGo
<1>5. ~A!Supervise /\ ~A!ProcessFaults
  BY <1>1 DEF A!Supervise, A!CheckClaim, A!Register, A!SpawnTarget, A!ReportRunning,
              A!ReportExit, A!ProcessFaults, A!TargetExits, A!SupervisorDies
<1>6. QED
  BY <1>2, <1>3, <1>4, <1>5, ProcessSteps

\* Nothing is checked out or started before the workspace is reserved.
LEMMA ReservedFirstKept == OperationInv /\ [Next]_vars => ReservedFirst'
<1> SUFFICES ASSUME OperationInv, [Next]_vars, reservation'.state = "none"
             PROVE  /\ step' \in {"none", "look"} /\ checkedOut' = "none" /\ dir' = W!NoDir
                    /\ claim' = "none" /\ launch' = A!NoLaunch
  BY DEF ReservedFirst, W!NoDir, A!NoLaunch
<1>1. reservation.state = "none"
  BY Unreserved
<1>2. dir = W!NoDir /\ claim = "none" /\ launch = A!NoLaunch
  BY <1>1 DEF OperationInv, ReservedFirst
<1>3. \A h \in Handlers : ~StartStep(h)
  BY <1>2, LaunchHasWorkspace
<1>4. claim' = "none" /\ launch' = A!NoLaunch
  BY <1>2, <1>3, NoProcess
<1>5. QED
  BY <1>4, Unreserved

-----------------------------------------------------------------------------
(* What a step does to the stored state and to the copies of it.           *)

Copies == [pc : Points, stale : BOOLEAN, st : States, tried : SUBSET KindSet, whole : BOOLEAN]

\* The four kinds of resources.
LEMMA Kind4 == KindSet = {"ports", "homes", "workspace", "application"}
BY DEF KindSet, Kinds

\* A handler that does not take the step keeps its copy, which may become stale.
Same(g) ==
    /\ mem'[g].pc = mem[g].pc /\ mem'[g].st = mem[g].st
    /\ mem'[g].tried = mem[g].tried /\ mem'[g].whole = mem[g].whole
    /\ mem[g].stale => mem'[g].stale

\* The state is saved, and all other copies of it are stale; or it is not saved.
Saved(h, st) ==
    /\ ~mem[h].stale /\ stored' = st
    /\ \A g \in Handlers \ {h} : Same(g) /\ (mem[g].pc # "idle" => mem'[g].stale)
Unsaved(h) == stored' = stored /\ \A g \in Handlers \ {h} : mem'[g] = mem[g]

\* The handler has come to a step with a copy of the state.
Came(h, st, pc) ==
    /\ mem'[h].pc = pc /\ mem'[h].st = st /\ mem'[h].stale = mem[h].stale
    /\ mem'[h].tried = mem[h].tried /\ mem'[h].whole = mem[h].whole
Thrown(h, st) == mem'[h] = Idle \/ (h = "start" /\ st.resources # {} /\ Came(h, st, "undo"))

\* The copy of a handler that is idle, and the state before the first save.
LEMMA IdleCopy == Idle \in Copies /\ NoState \in States
BY DEF Idle, NoState, Copies, States, Points, Results

\* An error ends the handler, or makes start clean up; no other copy changes.
LEMMA ThrowsFacts ==
    ASSUME mem \in [Handlers -> Copies], NEW h \in Handlers, NEW st \in States, Throws(h, st)
    PROVE  /\ \A g \in Handlers \ {h} : mem'[g] = mem[g]
           /\ Thrown(h, st) /\ mem' \in [Handlers -> Copies]
<1>1. CASE h = "start" /\ st.resources # {}
  <2>1. mem' = [mem EXCEPT ![h] = [@ EXCEPT !.pc = "undo", !.st = st]]
    BY <1>1 DEF Throws
  <2>2. mem[h] \in Copies /\ [mem[h] EXCEPT !.pc = "undo", !.st = st] \in Copies
    BY DEF Copies, Points
  <2>3. /\ \A g \in Handlers \ {h} : mem'[g] = mem[g]
        /\ mem'[h] = [mem[h] EXCEPT !.pc = "undo", !.st = st]
        /\ mem' \in [Handlers -> Copies]
    BY <2>1, <2>2
  <2>4. Came(h, st, "undo")
    BY <2>2, <2>3 DEF Came, Copies
  <2>5. QED
    BY <1>1, <2>3, <2>4 DEF Thrown
<1>2. CASE ~(h = "start" /\ st.resources # {})
  <2>1. mem' = [mem EXCEPT ![h] = Idle]
    BY <1>2 DEF Throws, Quit
  <2>2. QED
    BY <2>1, IdleCopy DEF Thrown
<1>3. QED
  BY <1>1, <1>2

\* A state that is swapped in is the stored one, and all other copies are stale.
LEMMA SwapFacts ==
    ASSUME mem \in [Handlers -> Copies], NEW h \in Handlers, NEW st \in States,
           NEW pc \in Points, ~mem[h].stale, SwapAndGo(h, st, pc)
    PROVE  /\ Saved(h, st) /\ mem' \in [Handlers -> Copies]
           /\ IF pc = "idle" THEN mem'[h] = Idle ELSE Came(h, st, pc)
<1>1. mem' = [g \in Handlers |->
                  IF g = h THEN (IF pc = "idle" THEN Idle
                                 ELSE [mem[g] EXCEPT !.st = st, !.pc = pc])
                  ELSE [mem[g] EXCEPT !.stale = @ \/ mem[g].pc # "idle"]]
  BY DEF SwapAndGo
<1>2. \A g \in Handlers : mem[g] \in Copies
  OBVIOUS
<1>3. \A g \in Handlers \ {h} : [mem[g] EXCEPT !.stale = @ \/ mem[g].pc # "idle"] \in Copies
  BY <1>2 DEF Copies
<1>4. [mem[h] EXCEPT !.st = st, !.pc = pc] \in Copies
  BY <1>2 DEF Copies
<1>5. mem' \in [Handlers -> Copies]
  BY <1>1, <1>3, <1>4, IdleCopy
<1>6. Saved(h, st)
  <2>1. stored' = st
    BY DEF SwapAndGo
  <2>2. ASSUME NEW g \in Handlers \ {h}
        PROVE  mem'[g] = [mem[g] EXCEPT !.stale = @ \/ mem[g].pc # "idle"]
    BY <1>1, <2>2
  <2>3. ASSUME NEW g \in Handlers \ {h}
        PROVE  Same(g) /\ (mem[g].pc # "idle" => mem'[g].stale)
    BY <2>2, <2>3, <1>2 DEF Same, Copies
  <2>4. QED
    BY <2>1, <2>3 DEF Saved
<1>7. IF pc = "idle" THEN mem'[h] = Idle ELSE Came(h, st, pc)
  BY <1>1, <1>2 DEF Came, Copies
<1>8. QED
  BY <1>5, <1>6, <1>7

\* A save is a swap, or of a stale copy and an error.
LEMMA SaveFacts ==
    ASSUME mem \in [Handlers -> Copies], NEW h \in Handlers, NEW st \in States,
           NEW pc \in Points, Save(h, st, pc)
    PROVE  /\ mem' \in [Handlers -> Copies]
           /\ \/ Saved(h, st) /\ IF pc = "idle" THEN mem'[h] = Idle ELSE Came(h, st, pc)
              \/ mem[h].stale /\ Unsaved(h) /\ Thrown(h, st)
<1>1. CASE mem[h].stale
  BY <1>1, ThrowsFacts DEF Save, Unsaved
<1>2. CASE ~mem[h].stale
  BY <1>2, SwapFacts DEF Save
<1>3. QED
  BY <1>1, <1>2

\* A handler that gives up is idle.
LEMMA QuitFacts ==
    ASSUME mem \in [Handlers -> Copies], NEW h \in Handlers, Quit(h)
    PROVE  /\ \A g \in Handlers \ {h} : mem'[g] = mem[g]
           /\ mem'[h] = Idle /\ mem' \in [Handlers -> Copies]
BY IdleCopy DEF Quit

\* The answer of a cleanup goes into the copy, and is saved if the copy can be.
LEMMA TriedFacts ==
    ASSUME mem \in [Handlers -> Copies], stored \in States, NEW h \in Handlers,
           NEW k \in KindSet, NEW ok \in BOOLEAN, Tried(h, k, ok)
    PROVE  LET st == [mem[h].st EXCEPT !.cleaned = IF ok THEN @ \union {k} ELSE @]
           IN  /\ st \in States /\ mem' \in [Handlers -> Copies]
               /\ Saved(h, st) \/ (mem[h].stale /\ Unsaved(h))
               /\ mem'[h].pc = mem[h].pc /\ mem'[h].st = st /\ mem'[h].stale = mem[h].stale
               /\ mem'[h].tried = mem[h].tried \union {k}
               /\ mem'[h].whole => mem[h].whole /\ ok
<1> DEFINE st == [mem[h].st EXCEPT !.cleaned = IF ok THEN @ \union {k} ELSE @]
<1>1. \A g \in Handlers : mem[g] \in Copies
  OBVIOUS
<1>2. mem[h].st \in States
  BY <1>1 DEF Copies
<1>3. st \in States
  BY <1>2 DEF States
<1> DEFINE saved == ~mem[h].stale
<1>4. /\ stored' = IF saved THEN st ELSE stored
      /\ mem' = [g \in Handlers |->
                   IF g = h THEN [mem[g] EXCEPT !.st = st, !.tried = @ \union {k},
                                                !.whole = @ /\ ok /\ saved]
                   ELSE [mem[g] EXCEPT !.stale = @ \/ (saved /\ mem[g].pc # "idle")]]
  BY DEF Tried
<1> HIDE DEF st
<1>5. \A g \in Handlers \ {h} :
         [mem[g] EXCEPT !.stale = @ \/ (saved /\ mem[g].pc # "idle")] \in Copies
  BY <1>1 DEF Copies
<1>6. [mem[h] EXCEPT !.st = st, !.tried = @ \union {k}, !.whole = @ /\ ok /\ saved] \in Copies
  BY <1>1, <1>3 DEF Copies
<1>7. mem' \in [Handlers -> Copies]
  BY <1>4, <1>5, <1>6
<1>8. /\ mem'[h].pc = mem[h].pc /\ mem'[h].st = st /\ mem'[h].stale = mem[h].stale
      /\ mem'[h].tried = mem[h].tried \union {k}
      /\ mem'[h].whole => mem[h].whole /\ ok
  BY <1>1, <1>4 DEF Copies
<1>9. CASE saved
  <2>1. Saved(h, st)
    BY <1>1, <1>4, <1>9 DEF Saved, Same, Copies
  <2>2. QED
    BY <1>3, <1>7, <1>8, <2>1 DEF st
<1>10. CASE ~saved
  <2>1. Unsaved(h)
    BY <1>1, <1>4, <1>10 DEF Unsaved, Copies
  <2>2. QED
    BY <1>3, <1>7, <1>8, <1>10, <2>1 DEF st
<1>11. QED
  BY <1>9, <1>10

-----------------------------------------------------------------------------
(* The steps of a handler on its copy of the state.                        *)

\* What the invariant says of a copy.
LEMMA CopyFacts ==
    ASSUME OperationInv, NEW h \in Handlers
    PROVE  /\ mem \in [Handlers -> Copies] /\ mem[h] \in Copies /\ stored \in States
           /\ Known(mem[h].st) /\ Known(stored) /\ Reached(h)
           /\ mem[h].st \in States
BY DEF OperationInv, OperationTypeOK, Copies

\* What a copy of the state says stays so.
LEMMA KnownGrows ==
    ASSUME PortsGrow, WorkspaceGrows, ProcessGrows, NEW st \in States, Known(st)
    PROVE  Known(st)'
BY DEF PortsGrow, WorkspaceGrows, ProcessGrows, Known, Settled

\* A step that is not an effect loses nothing of the parts.
LEMMA LocalGrows ==
    ASSUME Effects
    PROVE  PortsGrow /\ WorkspaceGrows /\ ProcessGrows
BY DEF Effects, portVars, workspaceVars, processVars, PortsGrow, WorkspaceGrows, ProcessGrows

\* What a copy says that has come to a step (Reached).
Fits(pc, st) ==
    /\ pc \notin {"idle", "claim"} => "ports" \in st.resources
    /\ pc \in {"checkout", "checkout called"} => "homes" \in st.done
    /\ pc \in {"application", "application called", "readiness", "attempt", "browser"}
         => {"homes", "checkout"} \subseteq st.done
    /\ pc \in {"readiness", "attempt"} => "application" \in st.done
    /\ pc \in {"pending", "ready"} => st.status = "pending"
    /\ pc \notin Undoes => st.result \notin {"blocked", "ended"}

\* What a handler has done, by the copy it has and by its step.
LEMMA ReachedFits ==
    ASSUME NEW h \in Handlers
    PROVE  /\ Reached(h) <=> /\ Fits(mem[h].pc, mem[h].st)
                             /\ mem[h].pc \notin Undoes => mem[h].tried = {}
                             /\ mem[h].whole => mem[h].tried \subseteq mem[h].st.cleaned
                             /\ mem[h].whole /\ mem[h].pc \in {"receipt", "answer"}
                                  => mem[h].st.resources \subseteq mem[h].st.cleaned
           /\ Reached(h)' <=> /\ Fits(mem'[h].pc, mem'[h].st)
                              /\ mem'[h].pc \notin Undoes => mem'[h].tried = {}
                              /\ mem'[h].whole => mem'[h].tried \subseteq mem'[h].st.cleaned
                              /\ mem'[h].whole /\ mem'[h].pc \in {"receipt", "answer"}
                                   => mem'[h].st.resources \subseteq mem'[h].st.cleaned
BY DEF Reached, Fits, At

\* Of a handler that is idle nothing is asked.
LEMMA IdleFits ==
    ASSUME NEW h \in Handlers, mem'[h] = Idle
    PROVE  Reached(h)'
<1>1. mem'[h].pc = "idle" /\ mem'[h].tried = {} /\ mem'[h].st.result = "none"
  BY DEF Idle, NoState
<1>2. QED
  BY <1>1, ReachedFits DEF Fits

\* Without a save a handler passes its claim only with a stale copy, and does not
\* come back from a cleanup.
Onward(h) ==
    \/ mem'[h] = Idle \/ mem[h].stale
    \/ /\ mem[h].pc = "claim" => mem'[h].pc = "claim"
       /\ mem[h].pc \in Undoes => mem'[h].pc \in Undoes

\* A step of a handler that has begun: what it makes of its copy is true, and is
\* what is saved, if it is.
Moves(h) ==
    \E st \in States :
        /\ mem[h].pc # "idle" /\ mem' \in [Handlers -> Copies]
        /\ \/ Saved(h, st)
           \/ Unsaved(h) /\ (mem[h].stale \/ st = mem[h].st) /\ Onward(h)
        /\ \/ mem'[h] = Idle
           \/ mem'[h].pc # "idle" /\ mem'[h].st = st /\ mem'[h].stale = mem[h].stale
        /\ Known(st)' /\ Reached(h)'

\* A save makes a move, if what is saved is true and fits the next step.
LEMMA SaveMoves ==
    ASSUME OperationInv, NEW h \in Handlers, NEW st \in States, NEW pc \in Points,
           Save(h, st, pc), mem[h].pc # "idle", Known(st)',
           pc # "idle" => Fits(pc, st), "ports" \in st.resources,
           mem[h].pc \in Undoes => pc \in Undoes \union {"idle"},
           st.cleaned = mem[h].st.cleaned,
           mem[h].whole /\ pc \in {"receipt", "answer"} => st.resources \subseteq st.cleaned
    PROVE  Moves(h)
<1>1. /\ mem' \in [Handlers -> Copies]
      /\ \/ Saved(h, st) /\ IF pc = "idle" THEN mem'[h] = Idle ELSE Came(h, st, pc)
         \/ mem[h].stale /\ Unsaved(h) /\ Thrown(h, st)
  BY CopyFacts, SaveFacts
<1>2. /\ mem[h].pc \notin Undoes => mem[h].tried = {}
      /\ mem[h].whole => mem[h].tried \subseteq mem[h].st.cleaned
  BY CopyFacts, ReachedFits
<1>3. CASE mem'[h] = Idle
  BY <1>1, <1>3, IdleFits DEF Moves, Onward
<1>4. CASE Saved(h, st) /\ pc # "idle" /\ Came(h, st, pc)
  <2>1. Reached(h)'
    BY <1>2, <1>4, ReachedFits DEF Came
  <2>2. QED
    BY <1>1, <1>4, <2>1 DEF Moves, Came
<1>5. CASE mem[h].stale /\ Unsaved(h) /\ Came(h, st, "undo")
  <2>1. Fits("undo", st)
    BY DEF Fits, Undoes
  <2>2. Reached(h)'
    BY <1>2, <1>5, <2>1, ReachedFits DEF Came, Undoes
  <2>3. QED
    BY <1>1, <1>5, <2>2 DEF Moves, Came, Onward
<1>6. QED
  BY <1>1, <1>3, <1>4, <1>5 DEF Thrown

\* So does an error, from any step but the first and the last ones.
LEMMA ThrowMoves ==
    ASSUME OperationInv, NEW h \in Handlers, NEW st \in States, st = mem[h].st,
           Throws(h, st), UNCHANGED stored,
           mem[h].pc \notin {"idle", "claim"} \union Undoes, Known(st)'
    PROVE  Moves(h)
<1>1. /\ \A g \in Handlers \ {h} : mem'[g] = mem[g]
      /\ Thrown(h, st) /\ mem' \in [Handlers -> Copies]
  BY CopyFacts, ThrowsFacts
<1>2. Unsaved(h)
  BY <1>1 DEF Unsaved
<1>3. /\ Fits(mem[h].pc, mem[h].st) /\ mem[h].tried = {}
  BY CopyFacts, ReachedFits
<1>4. CASE mem'[h] = Idle
  BY <1>1, <1>2, <1>4, IdleFits DEF Moves, Onward
<1>5. CASE Came(h, st, "undo")
  <2>1. Fits("undo", st)
    BY <1>3 DEF Fits, Undoes
  <2>2. Reached(h)'
    BY <1>3, <1>5, <2>1, ReachedFits DEF Came
  <2>3. QED
    BY <1>1, <1>2, <1>5, <2>2 DEF Moves, Came, Onward
<1>6. QED
  BY <1>1, <1>4, <1>5 DEF Thrown

\* To give up is a move.
LEMMA QuitMoves ==
    ASSUME OperationInv, NEW h \in Handlers, NEW st \in States, st = mem[h].st,
           Quit(h), UNCHANGED stored, mem[h].pc # "idle", Known(st)'
    PROVE  Moves(h)
<1>1. /\ \A g \in Handlers \ {h} : mem'[g] = mem[g]
      /\ mem'[h] = Idle /\ mem' \in [Handlers -> Copies]
  BY CopyFacts, QuitFacts
<1>2. QED
  BY <1>1, IdleFits DEF Moves, Unsaved, Onward

\* A copy that becomes another one: it is a state, and it is true after the step.
LEMMA CopyTrue ==
    ASSUME OperationInv, NEW h \in Handlers, Effects,
           NEW st \in States, Known(st)
    PROVE  Known(st)'
BY LocalGrows, KnownGrows

\* A claim is saved when it is recorded.
LEMMA SaveClaimMoves ==
    ASSUME OperationInv, NEW h \in Handlers, SaveClaim(h)
    PROVE  Moves(h)
<1>1. At(h, "claim") /\ Effects /\ Known(mem[h].st) /\ Fits(mem[h].pc, mem[h].st)
  BY CopyFacts, ReachedFits DEF SaveClaim
<1>2. PICK st \in States :
         st = [mem[h].st EXCEPT !.status = IF @ = "none" THEN "provisioning" ELSE @,
                                !.resources = @ \union {"ports"}]
  <2>1. mem[h].st \in States /\ "ports" \in KindSet
    BY CopyFacts, Kind4
  <2>2. QED
    BY <2>1 DEF States, Results
<1>3. Known(st)
  BY <1>1, <1>2 DEF SaveClaim, Known, Fits, At
<1>4. Known(st)'
  BY <1>1, <1>3, CopyTrue
<1>5. Save(h, st, (IF "homes" \in st.done THEN "checkout" ELSE "homes"))
  BY <1>2 DEF SaveClaim
<1>6. /\ (IF "homes" \in st.done THEN "checkout" ELSE "homes") \in Points \ {"receipt", "answer"}
      /\ (IF "homes" \in st.done THEN "checkout" ELSE "homes") # "idle"
           => Fits((IF "homes" \in st.done THEN "checkout" ELSE "homes"), st)
  BY <1>1, <1>2, <1>3 DEF SaveClaim, Fits, At, Points, Undoes, Known
<1>7. /\ mem[h].pc # "idle" /\ mem[h].pc \notin Undoes
      /\ "ports" \in st.resources /\ st.cleaned = mem[h].st.cleaned
  BY <1>1, <1>2 DEF At, Undoes, Fits, States
<1>8. QED
  BY <1>4, <1>5, <1>6, <1>7, SaveMoves

\* The homes are saved, and the checkout comes next.
LEMMA SaveHomesMoves ==
    ASSUME OperationInv, NEW h \in Handlers, SaveHomes(h)
    PROVE  Moves(h)
<1>1. At(h, "homes") /\ Effects /\ Known(mem[h].st) /\ Fits(mem[h].pc, mem[h].st)
  BY CopyFacts, ReachedFits DEF SaveHomes
<1>2. PICK st \in States : st = [mem[h].st EXCEPT !.resources = @ \union {"homes"},
                                                  !.done = @ \union {"homes"}]
  BY CopyFacts, Kind4 DEF States, Results
<1>3. Known(st)
  BY <1>1, <1>2 DEF SaveHomes, Known, Fits, At
<1>4. Known(st)'
  BY <1>1, <1>3, CopyTrue
<1>5. Save(h, st, "checkout")
  BY <1>2 DEF SaveHomes
<1>6. "checkout" \in Points \ {"receipt", "answer"} /\ ("checkout" # "idle" => Fits("checkout", st))
  BY <1>1, <1>2, <1>3 DEF SaveHomes, Fits, At, Points, Undoes, Known
<1>7. /\ mem[h].pc # "idle" /\ mem[h].pc \notin Undoes
      /\ "ports" \in st.resources /\ st.cleaned = mem[h].st.cleaned
  BY <1>1, <1>2 DEF At, Undoes, Fits, States
<1>8. QED
  BY <1>4, <1>5, <1>6, <1>7, SaveMoves

\* A pending operation is saved once more.
LEMMA SavePendingMoves ==
    ASSUME OperationInv, NEW h \in Handlers, SavePending(h)
    PROVE  Moves(h)
<1>1. At(h, "pending") /\ Effects /\ Known(mem[h].st) /\ Fits(mem[h].pc, mem[h].st)
  BY CopyFacts, ReachedFits DEF SavePending
<1>2. PICK st \in States : st = mem[h].st
  BY CopyFacts, Kind4 DEF States, Results
<1>3. Known(st)
  BY <1>1, <1>2 DEF SavePending, Known, Fits, At
<1>4. Known(st)'
  BY <1>1, <1>3, CopyTrue
<1>5. Save(h, st, "idle")
  BY <1>2 DEF SavePending
<1>6. "idle" \in Points \ {"receipt", "answer"} /\ ("idle" # "idle" => Fits("idle", st))
  BY <1>1, <1>2, <1>3 DEF SavePending, Fits, At, Points, Undoes, Known
<1>7. /\ mem[h].pc # "idle" /\ mem[h].pc \notin Undoes
      /\ "ports" \in st.resources /\ st.cleaned = mem[h].st.cleaned
  BY <1>1, <1>2 DEF At, Undoes, Fits, States
<1>8. QED
  BY <1>4, <1>5, <1>6, <1>7, SaveMoves

\* A checkout is saved as done when it passed, and is known anyway.
LEMMA SaveCheckoutMoves ==
    ASSUME OperationInv, NEW h \in Handlers, SaveCheckout(h)
    PROVE  Moves(h)
<1>1. /\ At(h, "checkout called") /\ checkedOut # "none" /\ Effects
      /\ Known(mem[h].st) /\ Fits(mem[h].pc, mem[h].st)
  BY CopyFacts, ReachedFits DEF SaveCheckout
<1>2. /\ mem[h].pc # "idle" /\ mem[h].pc \notin Undoes /\ "ports" \in mem[h].st.resources
      /\ "homes" \in mem[h].st.done
  BY <1>1 DEF At, Undoes, Fits
<1>3. CASE checkedOut = "passed"
  <2>1. PICK st \in States : st = [mem[h].st EXCEPT !.resources = @ \union {"workspace"},
                                                    !.done = @ \union {"checkout"}]
    BY CopyFacts, Kind4 DEF States
  <2>2. /\ st.resources = mem[h].st.resources \union {"workspace"}
        /\ st.done = mem[h].st.done \union {"checkout"}
        /\ st.status = mem[h].st.status /\ st.result = mem[h].st.result
        /\ st.cleaned = mem[h].st.cleaned
    BY <2>1, CopyFacts DEF States
  <2>3. Known(st) /\ "ports" \in st.resources /\ st.cleaned = mem[h].st.cleaned
    BY <1>1, <1>2, <1>3, <2>2 DEF Known
  <2>4. Known(st)'
    BY <1>1, <2>3, CopyTrue
  <2>5. PICK pc \in Points : pc = AfterCheckout(h, st) /\ pc \notin {"receipt", "answer"}
    BY DEF AfterCheckout, Provision, Points
  <2>6. Save(h, st, pc)
    <3>1. st = [[mem[h].st EXCEPT !.resources = @ \union {"workspace"}]
                  EXCEPT !.done = @ \union {"checkout"}]
      BY <2>1, CopyFacts DEF States
    <3>2. QED
      BY <1>3, <2>5, <3>1 DEF SaveCheckout
  <2>7. {"homes", "checkout"} \subseteq st.done /\ st.result \notin {"blocked", "ended"}
    BY <1>1, <1>2, <2>2 DEF Fits, At, Undoes
  <2>8. pc # "idle" => Fits(pc, st)
    <3>1. CASE h \in {"end", "browser"}
      BY <2>3, <2>5, <2>7, <3>1 DEF Fits, AfterCheckout, Undoes
    <3>2. CASE h \notin {"end", "browser"}
      BY <2>3, <2>5, <2>7, <3>2 DEF Fits, AfterCheckout, Provision, Undoes
    <3>3. QED
      BY <3>1, <3>2
  <2>9. QED
    BY <1>2, <2>3, <2>4, <2>5, <2>6, <2>8, SaveMoves
<1>4. CASE checkedOut # "passed"
  <2>1. PICK st \in States : st = [mem[h].st EXCEPT !.resources = @ \union {"workspace"}]
    BY CopyFacts, Kind4 DEF States
  <2>2. Known(st) /\ "ports" \in st.resources /\ st.cleaned = mem[h].st.cleaned
    BY <1>1, <1>2, <2>1, CopyFacts DEF Known, States
  <2>3. Known(st)'
    BY <1>1, <2>2, CopyTrue
  <2>4. PICK pc \in {"undo", "idle"} : pc = IF h = "start" THEN "undo" ELSE "idle"
    OBVIOUS
  <2>5. Save(h, st, pc)
    BY <1>4, <2>1, <2>4 DEF SaveCheckout, SaveAndThrow
  <2>6. pc \in Points /\ (pc # "idle" => Fits(pc, st))
    BY <2>2, <2>4 DEF Fits, Undoes, Points
  <2>7. QED
    BY <1>2, <2>2, <2>3, <2>5, <2>6, SaveMoves
<1>5. QED
  BY <1>3, <1>4

\* So is an application.
LEMMA SaveApplicationMoves ==
    ASSUME OperationInv, NEW h \in Handlers, SaveApplication(h)
    PROVE  Moves(h)
<1>1. /\ At(h, "application called") /\ Effects
      /\ Known(mem[h].st) /\ Fits(mem[h].pc, mem[h].st)
  BY CopyFacts, ReachedFits DEF SaveApplication
<1>2. /\ mem[h].pc \notin {"idle", "claim"} \union Undoes /\ "ports" \in mem[h].st.resources
      /\ {"homes", "checkout"} \subseteq mem[h].st.done
      /\ mem[h].st.result \notin {"blocked", "ended"}
  BY <1>1 DEF At, Undoes, Fits
<1>3. CASE started = "running"
  <2>1. PICK st \in States : st = [mem[h].st EXCEPT !.resources = @ \union {"application"},
                                                    !.done = @ \union {"application"}]
    BY CopyFacts, Kind4 DEF States
  <2>2. Known(st) /\ "ports" \in st.resources /\ st.cleaned = mem[h].st.cleaned
    BY <1>1, <1>2, <1>3, <2>1, CopyFacts DEF Known, States, Settled
  <2>3. Known(st)'
    BY <1>1, <2>2, CopyTrue
  <2>4. Save(h, st, "readiness")
    <3>1. st = [[mem[h].st EXCEPT !.resources = @ \union {"application"}]
                  EXCEPT !.done = @ \union {"application"}]
      BY <2>1, CopyFacts DEF States
    <3>2. QED
      BY <1>3, <3>1 DEF SaveApplication
  <2>5. Fits("readiness", st) /\ "readiness" \in Points
    BY <1>2, <2>1, <2>2, CopyFacts DEF Fits, States, Undoes, Points
  <2>6. QED
    BY <1>2, <2>2, <2>3, <2>4, <2>5, SaveMoves
<1>4. CASE started = "blocked"
  <2>1. PICK st \in States : st = [mem[h].st EXCEPT !.resources = @ \union {"application"}]
    BY CopyFacts, Kind4 DEF States
  <2>2. Known(st) /\ "ports" \in st.resources /\ st.cleaned = mem[h].st.cleaned
    BY <1>1, <1>2, <1>4, <2>1, CopyFacts DEF Known, States, Settled
  <2>3. Known(st)'
    BY <1>1, <2>2, CopyTrue
  <2>4. PICK pc \in {"undo", "idle"} : pc = IF h = "start" THEN "undo" ELSE "idle"
    OBVIOUS
  <2>5. Save(h, st, pc)
    BY <1>4, <2>1, <2>4 DEF SaveApplication, SaveAndThrow
  <2>6. pc \in Points /\ (pc # "idle" => Fits(pc, st))
    BY <2>2, <2>4 DEF Fits, Undoes, Points
  <2>7. QED
    BY <1>2, <2>2, <2>3, <2>5, <2>6, SaveMoves
<1>5. CASE started \notin {"running", "blocked"}
  <2>1. PICK st \in States : st = mem[h].st
    BY CopyFacts
  <2>2. Known(st)'
    BY <1>1, <2>1, CopyTrue
  <2>3. Throws(h, st) /\ UNCHANGED stored
    BY <1>5, <2>1 DEF SaveApplication
  <2>4. QED
    BY <1>2, <2>1, <2>2, <2>3, ThrowMoves
<1>6. QED
  BY <1>3, <1>4, <1>5

\* Errors that save nothing.
LEMMA FailureMoves ==
    ASSUME OperationInv, NEW h \in Handlers, Throws(h, mem[h].st), UNCHANGED stored, Effects,
           mem[h].pc \notin {"idle", "claim"} \union Undoes
    PROVE  Moves(h)
<1>1. PICK st \in States : st = mem[h].st
  BY CopyFacts
<1>2. Known(st)'
  BY <1>1, CopyFacts, CopyTrue
<1>3. QED
  BY <1>1, <1>2, ThrowMoves

\* Readiness is saved, or the wait for it fails.
LEMMA WaitReadyMoves ==
    ASSUME OperationInv, NEW h \in Handlers, WaitReady(h)
    PROVE  Moves(h)
<1>1. /\ At(h, "readiness") /\ Effects
      /\ Known(mem[h].st) /\ Fits(mem[h].pc, mem[h].st)
  BY CopyFacts, ReachedFits DEF WaitReady
<1>2. mem[h].pc \notin {"idle", "claim"} \union Undoes /\ "ports" \in mem[h].st.resources
  BY <1>1 DEF At, Undoes, Fits
<1>3. CASE Save(h, [mem[h].st EXCEPT !.done = @ \union {"readiness"}], "attempt")
  <2>1. PICK st \in States : st = [mem[h].st EXCEPT !.done = @ \union {"readiness"}]
    BY CopyFacts DEF States
  <2>2. Known(st) /\ "ports" \in st.resources /\ st.cleaned = mem[h].st.cleaned
    BY <1>1, <1>2, <2>1, CopyFacts DEF Known, States
  <2>3. Known(st)'
    BY <1>1, <2>2, CopyTrue
  <2>4. Fits("attempt", st) /\ "attempt" \in Points
    BY <1>1, <2>1, <2>2, CopyFacts DEF Fits, At, States, Undoes, Points
  <2>5. QED
    BY <1>2, <1>3, <2>1, <2>2, <2>3, <2>4, SaveMoves
<1>4. QED
  BY <1>1, <1>2, <1>3, FailureMoves DEF WaitReady

\* The attempt makes the operation pending, or fails.
LEMMA AttemptMoves ==
    ASSUME OperationInv, NEW h \in Handlers, Attempt(h)
    PROVE  Moves(h)
<1>1. /\ At(h, "attempt") /\ Effects
      /\ Known(mem[h].st) /\ Fits(mem[h].pc, mem[h].st)
  BY CopyFacts, ReachedFits DEF Attempt
<1>2. mem[h].pc \notin {"idle", "claim"} \union Undoes /\ "ports" \in mem[h].st.resources
  BY <1>1 DEF At, Undoes, Fits
<1>3. CASE Save(h, [mem[h].st EXCEPT !.status = "pending", !.complete = FALSE], "pending")
  <2>1. PICK st \in States : st = [mem[h].st EXCEPT !.status = "pending", !.complete = FALSE]
    BY CopyFacts DEF States
  <2>2. Known(st) /\ "ports" \in st.resources /\ st.cleaned = mem[h].st.cleaned
    BY <1>1, <1>2, <2>1, CopyFacts DEF Known, States, Fits, At
  <2>3. Known(st)'
    BY <1>1, <2>2, CopyTrue
  <2>4. Fits("pending", st) /\ "pending" \in Points
    BY <1>1, <2>1, <2>2, CopyFacts DEF Fits, At, States, Undoes, Points
  <2>5. QED
    BY <1>2, <1>3, <2>1, <2>2, <2>3, <2>4, SaveMoves
<1>4. QED
  BY <1>1, <1>2, <1>3, FailureMoves DEF Attempt

\* The errors: the deadline, and a phase before the application.
LEMMA ErrorMoves ==
    ASSUME OperationInv, NEW h \in Handlers, Expired(h) \/ PhaseFails(h)
    PROVE  Moves(h)
<1>1. /\ mem[h].pc \notin {"idle", "claim"} \union Undoes
      /\ Throws(h, mem[h].st) /\ Effects /\ UNCHANGED stored
  BY DEF Expired, PhaseFails, At, Undoes
<1>2. QED
  BY <1>1, FailureMoves

\* A call of an effect changes where the handler is.
LEMMA CallMoves ==
    ASSUME OperationInv, NEW h \in Handlers, Call(h)
    PROVE  Moves(h)
<1>1. PICK st \in States : st = mem[h].st
  BY CopyFacts
<1>2. Known(st)'
  BY <1>1, CopyFacts, CopyTrue DEF Call
<1>3. PICK pc \in {"checkout called", "application called"} :
         /\ mem[h].pc \in {"checkout", "application"}
         /\ pc = IF mem[h].pc = "checkout" THEN "checkout called" ELSE "application called"
         /\ mem' = [mem EXCEPT ![h].pc = pc]
  BY DEF Call, At, To
<1>4. /\ mem' \in [Handlers -> Copies] /\ \A g \in Handlers \ {h} : mem'[g] = mem[g]
      /\ Came(h, st, pc)
  BY <1>1, <1>3, CopyFacts DEF Copies, Points, Came
<1>5. Unsaved(h)
  BY <1>4 DEF Unsaved, Call
<1>6. Fits(mem[h].pc, st) /\ mem[h].tried = {}
  BY <1>1, <1>3, CopyFacts, ReachedFits DEF Undoes
<1>7. Fits(pc, st)
  BY <1>3, <1>6 DEF Fits, Undoes
<1>8. Reached(h)'
  BY <1>4, <1>6, <1>7, ReachedFits DEF Came
<1>9. QED
  BY <1>1, <1>2, <1>3, <1>4, <1>5, <1>8 DEF Moves, Came, Onward, Undoes

\* The browser gate sends a handler whose copy cannot be saved to clean up.
LEMMA UndoMoves ==
    ASSUME OperationInv, NEW h \in Handlers, NEW st \in States, Undo(h, st),
           UNCHANGED stored, mem[h].stale, mem[h].pc \notin {"idle", "claim"} \union Undoes,
           Known(st)', "ports" \in st.resources
    PROVE  Moves(h)
<1>1. mem' = [mem EXCEPT ![h] = [@ EXCEPT !.pc = "undo", !.st = st]]
  BY DEF Undo
<1>2. /\ mem' \in [Handlers -> Copies] /\ \A g \in Handlers \ {h} : mem'[g] = mem[g]
      /\ Came(h, st, "undo")
  BY <1>1, CopyFacts DEF Copies, Points, Came
<1>3. mem[h].tried = {}
  BY CopyFacts, ReachedFits
<1>4. Fits("undo", st)
  BY DEF Fits, Undoes
<1>5. Reached(h)'
  BY <1>2, <1>3, <1>4, ReachedFits DEF Came
<1>6. QED
  BY <1>2, <1>5 DEF Moves, Came, Onward, Unsaved

\* The answer of the gate is saved.
LEMMA SaveBrowserMoves ==
    ASSUME OperationInv, NEW h \in Handlers, SaveBrowser(h)
    PROVE  Moves(h)
<1>1. /\ At(h, "browser") /\ Effects /\ mem[h].st.status = "pending"
      /\ Known(mem[h].st) /\ Fits(mem[h].pc, mem[h].st)
  BY CopyFacts, ReachedFits DEF SaveBrowser
<1>2. mem[h].pc \notin {"idle", "claim"} \union Undoes /\ "ports" \in mem[h].st.resources
  BY <1>1 DEF At, Undoes, Fits
<1> PICK gate \in {"ready", "blocked"} :
       LET st == [mem[h].st EXCEPT !.browser = gate]
       IN  IF mem[h].stale THEN Undo(h, st) /\ UNCHANGED stored
           ELSE SwapAndGo(h, st, IF gate = "ready" THEN "ready" ELSE "undo")
  BY DEF SaveBrowser
<1>3. PICK st \in States : st = [mem[h].st EXCEPT !.browser = gate]
  BY CopyFacts DEF States
<1>4. Known(st) /\ "ports" \in st.resources /\ st.cleaned = mem[h].st.cleaned
  BY <1>1, <1>2, <1>3, CopyFacts DEF Known, States
<1>5. Known(st)'
  BY <1>1, <1>4, CopyTrue
<1>6. CASE mem[h].stale
  BY <1>2, <1>3, <1>4, <1>5, <1>6, UndoMoves
<1>7. CASE ~mem[h].stale
  <2>1. PICK pc \in Points \ {"receipt", "answer"} :
           pc = IF gate = "ready" THEN "ready" ELSE "undo"
    BY DEF Points
  <2>2. Save(h, st, pc)
    BY <1>3, <1>7, <2>1 DEF Save
  <2>3. Fits(pc, st)
    BY <1>1, <1>3, <1>4, <2>1, CopyFacts DEF Fits, At, States, Undoes
  <2>4. QED
    BY <1>2, <1>4, <1>5, <2>2, <2>3, SaveMoves
<1>8. QED
  BY <1>6, <1>7

\* A foreign answer of the gate ends the handler.
LEMMA RefuseBrowserMoves ==
    ASSUME OperationInv, NEW h \in Handlers, RefuseBrowser(h)
    PROVE  Moves(h)
<1>1. PICK st \in States : st = mem[h].st
  BY CopyFacts
<1>2. Known(st)'
  BY <1>1, CopyFacts, CopyTrue DEF RefuseBrowser
<1>3. QED
  BY <1>1, <1>2, QuitMoves DEF RefuseBrowser, At

\* An operation is published as ready when it was pending.
LEMMA PublishReadyMoves ==
    ASSUME OperationInv, NEW h \in Handlers, PublishReady(h)
    PROVE  Moves(h)
<1>1. /\ At(h, "ready") /\ Effects /\ Known(mem[h].st) /\ Fits(mem[h].pc, mem[h].st)
  BY CopyFacts, ReachedFits DEF PublishReady
<1>2. /\ mem[h].pc \notin {"idle", "claim"} \union Undoes /\ "ports" \in mem[h].st.resources
      /\ mem[h].st.status = "pending"
  BY <1>1 DEF At, Undoes, Fits
<1>3. CASE mem[h].stale
  <2>1. PICK st \in States : st = mem[h].st
    BY CopyFacts
  <2>2. Known(st)'
    BY <1>1, <2>1, CopyTrue
  <2>3. QED
    BY <1>2, <1>3, <2>1, <2>2, UndoMoves DEF PublishReady
<1>4. CASE ~mem[h].stale
  <2>1. PICK st \in States : st = [mem[h].st EXCEPT !.status = "ready", !.result = "ready"]
    BY CopyFacts DEF States, Results
  <2>2. Known(st) /\ "ports" \in st.resources /\ st.cleaned = mem[h].st.cleaned
    BY <1>1, <1>2, <2>1, CopyFacts DEF Known, States
  <2>3. Known(st)'
    BY <1>1, <2>2, CopyTrue
  <2>4. Save(h, st, "idle") /\ "idle" \in Points
    BY <1>4, <2>1 DEF PublishReady, Save, Points
  <2>5. QED
    BY <1>2, <2>2, <2>3, <2>4, SaveMoves
<1>5. QED
  BY <1>3, <1>4

\* A state is saved, or a stale copy of it given up.
LEMMA SaveOrQuitMoves ==
    ASSUME OperationInv, NEW h \in Handlers, NEW st \in States, NEW pc \in Points,
           SaveOrQuit(h, st, pc), Effects, mem[h].pc \in Undoes, Known(st),
           pc \in {"idle", "answer"}, st.cleaned = mem[h].st.cleaned,
           st.resources = mem[h].st.resources,
           mem[h].whole /\ pc = "answer" => st.resources \subseteq st.cleaned
    PROVE  Moves(h)
<1>1. mem[h].pc # "idle" /\ "ports" \in st.resources
  BY CopyFacts, ReachedFits DEF Undoes, Fits
<1>2. CASE mem[h].stale
  <2>1. PICK old \in States : old = mem[h].st
    BY CopyFacts
  <2>2. Known(old)'
    BY <2>1, CopyFacts, CopyTrue
  <2>3. QED
    BY <1>1, <1>2, <2>1, <2>2, QuitMoves DEF SaveOrQuit
<1>3. CASE ~mem[h].stale
  <2>1. Known(st)'
    BY CopyTrue
  <2>2. Save(h, st, pc)
    BY <1>3 DEF SaveOrQuit, Save
  <2>3. pc # "idle" => Fits(pc, st)
    BY <1>1 DEF Fits, Undoes
  <2>4. pc \in Undoes \union {"idle"} /\ (pc \in {"receipt", "answer"} => pc = "answer")
    BY DEF Undoes
  <2>5. QED
    BY <1>1, <2>1, <2>2, <2>3, <2>4, SaveMoves
<1>4. QED
  BY <1>2, <1>3

\* The receipt of a cleanup is written when nothing is left to try.
LEMMA CleanupReceiptMoves ==
    ASSUME OperationInv, NEW h \in Handlers, CleanupReceipt(h)
    PROVE  Moves(h)
<1>1. /\ mem[h].pc = "undo" /\ mem[h].pc \in Undoes /\ mem[h].pc # "idle" /\ Effects
      /\ Known(mem[h].st) /\ "ports" \in mem[h].st.resources /\ Left(h) = {}
  BY CopyFacts, ReachedFits DEF CleanupReceipt, At, Undoes, Fits
<1>2. CASE To(h, "receipt") /\ UNCHANGED stored
  <2>1. PICK st \in States : st = mem[h].st
    BY CopyFacts
  <2>2. Known(st)'
    BY <1>1, <2>1, CopyTrue
  <2>3. /\ mem' \in [Handlers -> Copies] /\ \A g \in Handlers \ {h} : mem'[g] = mem[g]
        /\ Came(h, st, "receipt")
    BY <1>2, <2>1, CopyFacts DEF To, Copies, Points, Came
  <2>4. Unsaved(h)
    BY <1>2, <2>3 DEF Unsaved
  <2>5. Fits("receipt", st)
    BY <1>1, <2>1 DEF Fits, Undoes
  <2>6. mem[h].whole => mem[h].tried \subseteq st.cleaned /\ st.resources \subseteq st.cleaned
    BY <1>1, <2>1, CopyFacts, ReachedFits DEF Left
  <2>7. Reached(h)'
    BY <2>3, <2>5, <2>6, ReachedFits DEF Came, Undoes
  <2>8. QED
    BY <1>1, <2>1, <2>2, <2>3, <2>4, <2>7 DEF Moves, Came, Onward, Undoes
<1>3. CASE ~(To(h, "receipt") /\ UNCHANGED stored)
  <2>1. PICK lost \in States :
           lost = [mem[h].st EXCEPT !.status = "blocked", !.result = "none", !.complete = FALSE]
    BY CopyFacts DEF States, Results
  <2>2. /\ Known(lost) /\ lost.cleaned = mem[h].st.cleaned
        /\ lost.resources = mem[h].st.resources
    BY <1>1, <2>1, CopyFacts DEF Known, States
  <2>3. SaveOrQuit(h, lost, "idle")
    BY <1>3, <2>1 DEF CleanupReceipt
  <2>4. QED
    BY <1>1, <2>2, <2>3, SaveOrQuitMoves DEF Points
<1>4. QED
  BY <1>2, <1>3

\* What the cleanup has come to is saved.
LEMMA SaveCleanupMoves ==
    ASSUME OperationInv, NEW h \in Handlers, SaveCleanup(h)
    PROVE  Moves(h)
<1>1. /\ mem[h].pc = "receipt" /\ mem[h].pc \in Undoes /\ Effects /\ Known(mem[h].st)
      /\ "ports" \in mem[h].st.resources
  BY CopyFacts, ReachedFits DEF SaveCleanup, At, Undoes, Fits
<1>2. PICK name \in {"ended", "blocked"} : name = Outcome(h)
  BY DEF Outcome
<1>3. PICK st \in States :
         st = [mem[h].st EXCEPT !.status = name, !.result = "none", !.complete = mem[h].whole]
  <2>1. mem[h].st \in States /\ mem[h].whole \in BOOLEAN
    BY CopyFacts DEF Copies
  <2>2. QED
    BY <2>1 DEF States, Results
<1>4. /\ Known(st) /\ st.cleaned = mem[h].st.cleaned /\ st.resources = mem[h].st.resources
  BY <1>1, <1>3, CopyFacts DEF Known, States
<1>5. SaveOrQuit(h, st, "answer")
  BY <1>2, <1>3 DEF SaveCleanup
<1>6. mem[h].whole => st.resources \subseteq st.cleaned
  BY <1>1, <1>4, CopyFacts, ReachedFits
<1>7. QED
  BY <1>1, <1>4, <1>5, <1>6, SaveOrQuitMoves DEF Points

\* The result comes after its receipt.
LEMMA AnswerMoves ==
    ASSUME OperationInv, NEW h \in Handlers, Answer(h)
    PROVE  Moves(h)
<1>1. /\ mem[h].pc \in Undoes /\ mem[h].pc # "idle" /\ Effects /\ Known(mem[h].st)
      /\ "ports" \in mem[h].st.resources
  BY CopyFacts, ReachedFits DEF Answer, At, Undoes, Fits
<1>2. CASE Quit(h) /\ UNCHANGED stored
  <2>1. PICK st \in States : st = mem[h].st
    BY CopyFacts
  <2>2. Known(st)'
    BY <1>1, <2>1, CopyTrue
  <2>3. QED
    BY <1>1, <1>2, <2>1, <2>2, QuitMoves
<1>3. CASE ~(Quit(h) /\ UNCHANGED stored)
  <2>1. PICK name \in {"ended", "blocked"} : name = Outcome(h)
    BY DEF Outcome
  <2>2. PICK st \in States : st = [mem[h].st EXCEPT !.result = name]
    BY CopyFacts DEF States, Results
  <2>3. /\ Known(st) /\ st.cleaned = mem[h].st.cleaned /\ st.resources = mem[h].st.resources
    BY <1>1, <2>1, <2>2, CopyFacts DEF Known, States
  <2>4. SaveOrQuit(h, st, "idle")
    BY <1>3, <2>1, <2>2 DEF Answer
  <2>5. QED
    BY <1>1, <2>3, <2>4, SaveOrQuitMoves DEF Points
<1>4. QED
  BY <1>2, <1>3

\* Every step of a handler on its copy is a move.
LEMMA OnCopyMoves ==
    ASSUME OperationInv, NEW h \in Handlers, OnCopy(h)
    PROVE  Moves(h)
BY SaveClaimMoves, CallMoves, ErrorMoves, SaveHomesMoves, SaveCheckoutMoves,
   SaveApplicationMoves, WaitReadyMoves, AttemptMoves, SavePendingMoves, SaveBrowserMoves,
   RefuseBrowserMoves, PublishReadyMoves, CleanupReceiptMoves, SaveCleanupMoves, AnswerMoves
   DEF OnCopy

-----------------------------------------------------------------------------
(* The steps of a handler on the parts.                                    *)

\* A cleanup that has come to its end is a move.
LEMMA TriedMoves ==
    ASSUME OperationInv, [Next]_vars, NEW h \in Handlers, NEW k \in KindSet,
           NEW ok \in BOOLEAN, Turn(h, k), Tried(h, k, ok),
           ok /\ k = "ports" => portFiles' = "cleaned",
           ok /\ k = "workspace" => reservation'.cleaned,
           ok /\ k = "application" => processFiles' = "cleaned"
    PROVE  Moves(h)
<1>1. PICK st \in States :
         st = [mem[h].st EXCEPT !.cleaned = IF ok THEN @ \union {k} ELSE @]
  BY CopyFacts DEF States
<1>2. /\ mem' \in [Handlers -> Copies]
      /\ Saved(h, st) \/ (mem[h].stale /\ Unsaved(h))
      /\ mem'[h].pc = mem[h].pc /\ mem'[h].st = st /\ mem'[h].stale = mem[h].stale
      /\ mem'[h].tried = mem[h].tried \union {k}
      /\ mem'[h].whole => mem[h].whole /\ ok
  BY <1>1, CopyFacts, TriedFacts
<1>3. mem[h].pc = "undo"
  BY TurnFacts DEF At
<1>4. PICK old \in States : old = mem[h].st
  BY CopyFacts
<1>5. Known(old)'
  BY <1>4, CopyFacts, PartsGrow, KnownGrows
<1>6. /\ st.resources = old.resources /\ st.done = old.done /\ st.status = old.status
      /\ st.result = old.result /\ st.cleaned = IF ok THEN old.cleaned \union {k} ELSE old.cleaned
  BY <1>1, <1>4 DEF States
<1>7. Known(st)'
  <2>1. /\ "ports" \in st.cleaned => portFiles' = "cleaned"
        /\ "workspace" \in st.cleaned => reservation'.cleaned
        /\ "application" \in st.cleaned => processFiles' = "cleaned"
    BY <1>5, <1>6 DEF Known
  <2>2. QED
    BY <1>5, <1>6, <2>1 DEF Known
<1>8. Fits("undo", old)
  BY <1>3, <1>4, CopyFacts, ReachedFits
<1>9. Reached(h)'
  <2>1. Fits("undo", st)
    BY <1>6, <1>8 DEF Fits, Undoes
  <2>2. mem'[h].whole => mem'[h].tried \subseteq st.cleaned
    BY <1>2, <1>4, <1>6, CopyFacts, ReachedFits
  <2>3. QED
    BY <1>2, <1>3, <2>1, <2>2, ReachedFits DEF Undoes
<1>10. QED
  BY <1>2, <1>3, <1>7, <1>9 DEF Moves, Onward, Undoes

\* A step of a cleanup is a move, or changes the parts only.
LEMMA CleanMoves ==
    ASSUME OperationInv, [Next]_vars, NEW h \in Handlers,
           CleanApplication(h) \/ CleanWorkspace(h) \/ CleanHomes(h) \/ CleanPorts(h)
    PROVE  Moves(h) \/ UNCHANGED <<stored, mem>>
<1> SUFFICES ASSUME ~UNCHANGED <<stored, mem>> PROVE Moves(h)
  OBVIOUS
<1>1. CASE CleanApplication(h)
  <2>1. PICK ok \in BOOLEAN : Turn(h, "application") /\ Tried(h, "application", ok)
                                /\ (ok => processFiles' = "cleaned")
    BY <1>1 DEF CleanApplication, processVars
  <2>2. QED
    BY <2>1, TriedMoves, Kind4
<1>2. CASE CleanWorkspace(h)
  <2>1. W!RecordSwept => reservation'.cleaned
    BY DEF W!RecordSwept, OperationInv, W!WorkspaceInv, W!WorkspaceTypeOK
  <2>2. reservation.cleaned \in BOOLEAN
    BY DEF OperationInv, W!WorkspaceInv, W!WorkspaceTypeOK
  <2>3. PICK ok \in BOOLEAN : Turn(h, "workspace") /\ Tried(h, "workspace", ok)
                                /\ (ok => reservation'.cleaned)
    BY <1>2, <2>1, <2>2 DEF CleanWorkspace, workspaceVars
  <2>4. QED
    BY <2>3, TriedMoves, Kind4
<1>3. CASE CleanHomes(h)
  <2>1. PICK ok \in BOOLEAN : Turn(h, "homes") /\ Tried(h, "homes", ok)
    BY <1>3 DEF CleanHomes
  <2>2. QED
    BY <2>1, TriedMoves, Kind4
<1>4. CASE CleanPorts(h)
  <2>1. Turn(h, "ports") /\ P!ReleasePorts(h) /\ claimLock = h /\ claimLock' # h
          /\ Tried(h, "ports", TRUE)
    BY <1>4 DEF CleanPorts
  <2>2. P!RecordRelease(h)
    BY <2>1 DEF P!ReleasePorts, P!LockForRelease, P!FreePort, P!Write
  <2>3. portFiles' = "cleaned"
    BY <2>2 DEF P!RecordRelease
  <2>4. QED
    BY <2>1, <2>3, TriedMoves, Kind4
<1>5. QED
  BY <1>1, <1>2, <1>3, <1>4

\* A handler that is refused by a part, or stops.
LEMMA PartMoves ==
    ASSUME OperationInv, [Next]_vars, NEW h \in Handlers,
           ClaimStep(h) \/ CheckoutStep(h) \/ StartStep(h) \/ Crash(h)
    PROVE  Moves(h) \/ UNCHANGED <<stored, mem>>
<1>1. PICK st \in States : st = mem[h].st
  BY CopyFacts
<1>2. Known(st)'
  BY <1>1, CopyFacts, PartsGrow, KnownGrows
<1>3. CASE Quit(h) /\ UNCHANGED stored /\ mem[h].pc # "idle"
  BY <1>1, <1>2, <1>3, QuitMoves
<1>4. CASE /\ Throws(h, mem[h].st) /\ UNCHANGED stored
           /\ mem[h].pc \in {"checkout called", "application called"}
  BY <1>1, <1>2, <1>4, ThrowMoves DEF Undoes
<1>5. QED
  BY <1>3, <1>4 DEF ClaimStep, CheckoutStep, StartStep, Crash, At

\* A handler begins with the stored state: to clean up, if it is blocked.
Starts(h) ==
    /\ mem[h].pc = "idle" /\ stored' = stored /\ \A g \in Handlers \ {h} : mem'[g] = mem[g]
    /\ mem' \in [Handlers -> Copies]
    /\ mem'[h].st = stored /\ ~mem'[h].stale /\ mem'[h].tried = {} /\ stored.result # "ended"
    /\ mem'[h].pc = IF stored.result = "blocked" THEN "undo" ELSE "claim"

\* Whatever event begins a handler begins it so.
LEMMA BeginsAreStarts ==
    ASSUME OperationInv, Begins
    PROVE  \E h \in Handlers : Starts(h)
<1>1. ASSUME NEW h \in Handlers, At(h, "idle"), UNCHANGED stored, stored.result # "ended",
             mem' = [mem EXCEPT ![h] =
                       [Idle EXCEPT !.st = stored,
                                    !.pc = IF stored.result = "blocked" THEN "undo" ELSE "claim"]]
      PROVE  Starts(h)
  <2>1. PICK pc \in {"undo", "claim"} :
           pc = IF stored.result = "blocked" THEN "undo" ELSE "claim"
    OBVIOUS
  <2>2. mem' = [mem EXCEPT ![h] = [Idle EXCEPT !.st = stored, !.pc = pc]]
    BY <1>1, <2>1
  <2>3. /\ [Idle EXCEPT !.st = stored, !.pc = pc] \in Copies
        /\ [Idle EXCEPT !.st = stored, !.pc = pc].st = stored
        /\ ~[Idle EXCEPT !.st = stored, !.pc = pc].stale
        /\ [Idle EXCEPT !.st = stored, !.pc = pc].tried = {}
        /\ [Idle EXCEPT !.st = stored, !.pc = pc].pc = pc
    BY CopyFacts, IdleCopy DEF Idle, Copies, Points
  <2>4. QED
    BY <1>1, <2>1, <2>2, <2>3, CopyFacts DEF Starts, At
<1>2. CASE BeginStart
  BY <1>1, <1>2 DEF BeginStart, Begin, Handlers
<1>3. CASE BeginBrowser
  BY <1>1, <1>3 DEF BeginBrowser, Begin, Handlers
<1>4. CASE BeginEnd
  BY <1>1, <1>4 DEF BeginEnd, Begin, Handlers
<1>5. CASE RepeatStart
  BY <1>1, <1>5 DEF RepeatStart, Begin, Handlers
<1>6. QED
  BY <1>2, <1>3, <1>4, <1>5 DEF Begins

\* Every step is of one of these kinds.
LEMMA StepKinds ==
    ASSUME OperationInv, [Next]_vars
    PROVE  \/ \E h \in Handlers : Moves(h) \/ Starts(h)
           \/ UNCHANGED <<stored, mem>>
<1>1. CASE Local
  <2>1. Expire \/ AskEnd \/ UNCHANGED vars => UNCHANGED <<stored, mem>>
    BY DEF Expire, AskEnd, vars, opVars
  <2>2. QED
    BY <1>1, <2>1, OnCopyMoves, BeginsAreStarts DEF Local
<1>2. CASE Effectful
  <2>1. Supervise \/ ProcessFault => UNCHANGED <<stored, mem>>
    BY DEF Supervise, ProcessFault, ElsewhereToo
  <2>2. QED
    BY <1>2, <2>1, CleanMoves, PartMoves DEF Effectful
<1>3. QED
  BY <1>1, <1>2, AllSteps

-----------------------------------------------------------------------------
(* What every step keeps of the state and its copies.                      *)

\* States and copies keep their ranges.
LEMMA CopiesTyped ==
    ASSUME OperationInv, [Next]_vars
    PROVE  stored' \in States /\ mem' \in [Handlers -> Copies]
BY StepKinds, CopyFacts, IdleCopy DEF Moves, Saved, Unsaved, Starts, OperationInv,
   OperationTypeOK, Copies

\* A copy that another handler has is not touched.
LEMMA OthersSame ==
    ASSUME NEW h \in Handlers, Moves(h) \/ Starts(h), NEW g \in Handlers \ {h}
    PROVE  Same(g)
BY DEF Moves, Starts, Saved, Unsaved, Same

\* Every copy is true, and fits the step of its handler.
LEMMA CopiesKnown ==
    ASSUME OperationInv, [Next]_vars
    PROVE  Known(stored)' /\ \A h \in Handlers : Known(mem[h].st)' /\ Reached(h)'
<1>1. ASSUME NEW st \in States, Known(st) PROVE Known(st)'
  BY <1>1, PartsGrow, KnownGrows
<1>2. PICK old \in States : old = stored
  BY DEF OperationInv, OperationTypeOK
<1>3. Known(old)'
  BY <1>1, <1>2 DEF OperationInv
<1>4. ASSUME NEW g \in Handlers, mem'[g] = mem[g] \/ Same(g)
      PROVE  Known(mem[g].st)' /\ Reached(g)'
  <2>1. PICK st \in States : st = mem[g].st
    BY CopyFacts
  <2>2. Known(st)'
    BY <1>1, <2>1, CopyFacts
  <2>3. mem'[g].st = st
    BY <1>4, <2>1 DEF Same
  <2>4. Reached(g)'
    BY <1>4, CopyFacts DEF Reached, At, Same
  <2>5. QED
    BY <2>2, <2>3, <2>4
<1>5. ASSUME NEW h \in Handlers, Moves(h)
      PROVE  Known(stored)' /\ Known(mem[h].st)' /\ Reached(h)'
  <2>1. PICK st \in States :
           /\ stored' \in {st, old}
           /\ mem'[h] = Idle \/ mem'[h].st = st
           /\ Known(st)' /\ Reached(h)'
    BY <1>2, <1>5 DEF Moves, Saved, Unsaved
  <2>2. Known(NoState)'
    BY DEF Known, NoState
  <2>3. mem'[h].st \in {st, NoState}
    BY <2>1 DEF Idle
  <2>4. QED
    BY <1>3, <2>1, <2>2, <2>3
<1>6. ASSUME NEW h \in Handlers, Starts(h)
      PROVE  Known(stored)' /\ Known(mem[h].st)' /\ Reached(h)'
  <2>1. stored' = old /\ mem'[h].st = old /\ mem'[h].tried = {}
    BY <1>2, <1>6 DEF Starts
  <2>2. old.result = "blocked" => "ports" \in old.resources
    BY <1>2, CopyFacts DEF Known
  <2>3. Fits(mem'[h].pc, old)
    BY <1>2, <1>6, <2>2 DEF Starts, Fits, Undoes
  <2>4. Reached(h)'
    <3>1. mem'[h].pc \notin {"receipt", "answer"}
      BY <1>6 DEF Starts
    <3>2. QED
      BY <2>1, <2>3, <3>1, ReachedFits
  <2>5. QED
    BY <1>3, <2>1, <2>4
<1>7. CASE UNCHANGED <<stored, mem>>
  BY <1>2, <1>3, <1>4, <1>7
<1>8. CASE \E h \in Handlers : Moves(h) \/ Starts(h)
  <2>1. PICK h \in Handlers : Moves(h) \/ Starts(h)
    BY <1>8
  <2>2. \A g \in Handlers \ {h} : Same(g)
    BY <2>1, OthersSame
  <2>3. QED
    BY <1>4, <1>5, <1>6, <2>1, <2>2
<1>9. QED
  BY <1>7, <1>8, StepKinds

\* A copy that can be saved is the stored state, and one at a time is past its claim.
LEMMA FreshKept ==
    ASSUME OperationInv, [Next]_vars
    PROVE  FreshCopies'
<1> USE DEF OperationInv, FreshCopies, At
<1>1. CASE UNCHANGED <<stored, mem>>
  BY <1>1
<1>2. ASSUME NEW h \in Handlers, Starts(h) PROVE FreshCopies'
  <2>1. \A g \in Handlers : ~At(g, "idle") /\ ~mem[g].stale => mem[g].st = stored
    OBVIOUS
  <2>2. \A g \in Handlers : (~At(g, "idle"))' /\ ~mem'[g].stale => mem'[g].st = stored'
    BY <1>2, <2>1 DEF Starts
  <2>3. ASSUME NEW g \in Handlers \ {h}, mem'[g].pc \notin {"idle", "claim"} \union Undoes,
               mem'[h].pc \notin {"idle", "claim"}
        PROVE  mem'[g].stale
    <3>1. stored.result = "blocked" /\ mem'[g] = mem[g]
      BY <1>2, <2>3 DEF Starts
    <3>2. mem[g].st.result # "blocked"
      BY <2>3, <3>1, CopyFacts, ReachedFits DEF Fits
    <3>3. QED
      BY <2>1, <2>3, <3>1, <3>2
  <2>4. mem'[h].pc \in {"idle", "claim"} \union Undoes
    BY <1>2 DEF Starts, Undoes
  <2>5. \A f, g \in Handlers \ {h} : mem'[f] = mem[f] /\ mem'[g] = mem[g]
    BY <1>2 DEF Starts
  <2>6. QED
    BY <2>2, <2>3, <2>4, <2>5
<1>3. ASSUME NEW h \in Handlers, Moves(h) PROVE FreshCopies'
  <2>1. PICK st \in States :
           /\ mem[h].pc # "idle"
           /\ \/ Saved(h, st)
              \/ Unsaved(h) /\ (mem[h].stale \/ st = mem[h].st) /\ Onward(h)
           /\ \/ mem'[h] = Idle
              \/ mem'[h].pc # "idle" /\ mem'[h].st = st /\ mem'[h].stale = mem[h].stale
    BY <1>3 DEF Moves
  <2>2. mem'[h] = Idle => mem'[h].pc = "idle"
    BY DEF Idle
  <2>3. CASE Saved(h, st)
    BY <2>1, <2>2, <2>3 DEF Saved, Same
  <2>4. CASE Unsaved(h) /\ (mem[h].stale \/ st = mem[h].st) /\ Onward(h)
    <3>1. \A g \in Handlers \ {h} : mem'[g] = mem[g]
      BY <2>4 DEF Unsaved
    <3>2. /\ mem'[h].pc \notin {"idle", "claim"} /\ ~mem'[h].stale
               => mem[h].pc \notin {"idle", "claim"} /\ ~mem[h].stale
          /\ mem'[h].pc \notin {"idle", "claim"} \union Undoes /\ ~mem'[h].stale
               => mem[h].pc \notin {"idle", "claim"} \union Undoes /\ ~mem[h].stale
      BY <2>1, <2>2, <2>4 DEF Onward
    <3>3. \A g \in Handlers : mem'[g].pc # "idle" /\ ~mem'[g].stale => mem'[g].st = stored'
      BY <2>1, <2>2, <2>4, <3>1 DEF Unsaved
    <3>4. QED
      BY <3>1, <3>2, <3>3
  <2>5. QED
    BY <2>1, <2>3, <2>4
<1>4. QED
  BY <1>1, <1>2, <1>3, StepKinds

-----------------------------------------------------------------------------
(* Types.                                                                  *)

\* Receipts keep their ranges.
LEMMA WrittenTyped ==
    ASSUME OperationInv, NEW h \in Handlers, OnCopy(h)
    PROVE  written' \subseteq {"ready", "complete", "incomplete", "blocked", "ended"}
                                 \X SUBSET KindSet
<1>1. mem[h].st.cleaned \in SUBSET KindSet
  BY CopyFacts DEF States
<1>2. written \subseteq {"ready", "complete", "incomplete", "blocked", "ended"}
                           \X SUBSET KindSet
  BY DEF OperationInv, OperationTypeOK
<1>3. CASE PublishReady(h)
  <2>1. written' = written \union {<<"ready", {}>>}
    BY <1>3 DEF PublishReady
  <2>2. QED
    BY <1>2, <2>1
<1>4. CASE CleanupReceipt(h)
  <2>1. \/ written' = written
        \/ \E name \in {"complete", "incomplete"} :
              written' = written \union {<<name, mem[h].st.cleaned>>}
    BY <1>4 DEF CleanupReceipt
  <2>2. QED
    BY <1>1, <1>2, <2>1
<1>5. CASE Answer(h)
  <2>1. \/ written' = written
        \/ \E name \in {"ended", "blocked"} :
              written' = written \union {<<name, mem[h].st.cleaned>>}
    BY <1>5 DEF Answer, Outcome
  <2>2. QED
    BY <1>1, <1>2, <2>1
<1>6. CASE ~PublishReady(h) /\ ~CleanupReceipt(h) /\ ~Answer(h)
  <2>1. written' = written
    BY <1>6 DEF OnCopy, SaveClaim, Call, Expired, SaveHomes, SaveCheckout, PhaseFails,
         SaveApplication, WaitReady, Attempt, SavePending, SaveBrowser, RefuseBrowser,
         SaveCleanup
  <2>2. QED
    BY <1>2, <2>1
<1>7. QED
  BY <1>3, <1>4, <1>5, <1>6

\* Every variable keeps its range.
LEMMA TypeKept ==
    ASSUME OperationInv, [Next]_vars
    PROVE  OperationTypeOK'
<1>1. P!PortTypeOK' /\ W!WorkspaceTypeOK' /\ A!ProcessTypeOK'
  <2>1. P!PortInv' /\ W!WorkspaceInv' /\ A!ProcessInv'
    BY PortsKept, WorkspaceKept, ProcessKept DEF OperationInv
  <2>2. QED
    BY <2>1 DEF P!PortInv, W!WorkspaceInv, A!ProcessInv
<1>2. stored' \in States /\ mem' \in [Handlers -> Copies]
  BY CopiesTyped
<1>3. written' \subseteq {"ready", "complete", "incomplete", "blocked", "ended"}
                            \X SUBSET KindSet
  <2>1. CASE \E h \in Handlers : OnCopy(h)
    BY <2>1, WrittenTyped
  <2>2. CASE Begins \/ Expire \/ AskEnd \/ UNCHANGED vars \/ Effectful
    <3>1. written' = written
      BY <2>2 DEF Begins, BeginStart, RepeatStart, BeginBrowser, BeginEnd, Begin, Expire, AskEnd,
           vars, opVars, Effectful, ClaimStep, CheckoutStep, StartStep, Crash, CleanApplication,
           CleanWorkspace, CleanHomes, CleanPorts, Supervise, ProcessFault, ElsewhereToo
    <3>2. QED
      BY <3>1 DEF OperationInv, OperationTypeOK
  <2>3. QED
    BY <2>1, <2>2, AllSteps DEF Local
<1>4. late' \in BOOLEAN /\ endAsked' \in BOOLEAN
  <2>1. CASE \E h \in Handlers : OnCopy(h)
    BY <2>1, OnCopyIsLocal DEF World, OperationInv, OperationTypeOK
  <2>2. CASE Begins \/ Expire \/ AskEnd \/ UNCHANGED vars \/ Effectful
    <3>1. CASE Expire
      BY <3>1 DEF Expire, OperationInv, OperationTypeOK
    <3>2. CASE AskEnd
      BY <3>2 DEF AskEnd, OperationInv, OperationTypeOK
    <3>3. CASE Begins \/ UNCHANGED vars \/ Effectful
      <4>1. World
        BY <3>3 DEF Begins, BeginStart, RepeatStart, BeginBrowser, BeginEnd, Begin, vars, opVars, World,
             Effectful, ClaimStep, CheckoutStep, StartStep, Crash, CleanApplication,
             CleanWorkspace, CleanHomes, CleanPorts, Supervise, ProcessFault, ElsewhereToo,
             Outside, Beginning, Undoing
      <4>2. QED
        BY <4>1 DEF World, OperationInv, OperationTypeOK
    <3>4. QED
      BY <2>2, <3>1, <3>2, <3>3
  <2>3. QED
    BY <2>1, <2>2, AllSteps DEF Local
<1>5. troubles' \in 0 .. MaxTroubles
  <2>1. troubles' = troubles \/ (troubles < MaxTroubles /\ troubles' = troubles + 1)
    <3>1. CASE \E h \in Handlers : OnCopy(h)
      BY <3>1 DEF OnCopy, SaveClaim, Call, Expired, SaveHomes, SaveCheckout, PhaseFails,
         SaveApplication, WaitReady, Attempt, SavePending, SaveBrowser, RefuseBrowser,
         PublishReady, CleanupReceipt, SaveCleanup, Answer, Outside
    <3>2. CASE Begins \/ Expire \/ AskEnd \/ UNCHANGED vars \/ Effectful
      BY <3>2 DEF Begins, BeginStart, RepeatStart, BeginBrowser, BeginEnd, Begin, Expire, AskEnd,
           vars, opVars, Effectful, ClaimStep, CheckoutStep, StartStep, Crash, CleanApplication,
         CleanWorkspace, CleanHomes, CleanPorts, Supervise, ProcessFault,
         Outside, Undoing, Trouble
    <3>3. QED
      BY <3>1, <3>2, AllSteps DEF Local
  <2>2. QED
    BY <2>1, OperationAssumption DEF OperationInv, OperationTypeOK
<1>6. past' \in [undone : BOOLEAN, blind : BOOLEAN, spared : BOOLEAN]
  <2>1. past \in [undone : BOOLEAN, blind : BOOLEAN, spared : BOOLEAN]
    BY DEF OperationInv, OperationTypeOK
  <2>2. CASE Local
    BY <2>1, <2>2, LocalIsLocal
  <2>3. CASE Effectful
    <3>1. ASSUME NEW h \in Handlers, Beginning(h)
          PROVE  past' \in [undone : BOOLEAN, blind : BOOLEAN, spared : BOOLEAN]
      <4> DEFINE b == past.blind \/ (mem[h].stale /\ Begun' # Begun)
      <4>1. b \in BOOLEAN /\ past' = [past EXCEPT !.blind = b]
        BY <3>1 DEF Beginning
      <4> HIDE DEF b
      <4>2. QED
        BY <2>1, <4>1
    <3>2. ASSUME NEW h \in Handlers, Undoing(h)
          PROVE  past' \in [undone : BOOLEAN, blind : BOOLEAN, spared : BOOLEAN]
      <4> DEFINE b == past.blind \/ ~(Begun \subseteq mem[h].st.resources)
                 c == past.spared \/ (sweep.by = h /\ sweep'.by # h /\ A!GroupAlive')
      <4>1. /\ b \in BOOLEAN /\ c \in BOOLEAN
            /\ past' = [undone |-> TRUE, blind |-> b, spared |-> c]
        BY <2>1, <3>2 DEF Undoing
      <4> HIDE DEF b, c
      <4>2. QED
        BY <4>1
    <3>3. QED
      BY <2>1, <2>3, <3>1, <3>2 DEF Effectful, ClaimStep, CheckoutStep, StartStep, Crash,
         CleanApplication, CleanWorkspace, CleanHomes, CleanPorts, Supervise, ProcessFault,
         ElsewhereToo, Outside
  <2>4. QED
    BY <2>2, <2>3, AllSteps
<1>7. QED
  BY <1>1, <1>2, <1>3, <1>4, <1>5, <1>6 DEF OperationTypeOK, Copies

-----------------------------------------------------------------------------
(* Launches, the process and its home.                                     *)

\* Nobody comes to launch but by a step of its own.
LEMMA StartLaunches ==
    ASSUME NEW h \in Handlers, A!Start(h), A!ProcessInv
    PROVE  launch'.by \in {h, launch.by, Nobody}
<1>1. A!BeginStart(h) => launch'.by = h
  BY DEF A!BeginStart, A!NoLaunch
<1>2. A!RecordStart(h) \/ A!RefuseRejoin(h) => launch'.by = Nobody
  BY DEF A!RecordStart, A!RefuseRejoin, A!NoLaunch
<1>3. A!SeeClaim(h) \/ A!SeeDead(h) \/ A!Deadline(h) => launch'.by = launch.by
  BY DEF A!SeeClaim, A!SeeDead, A!Deadline, A!See, A!ProcessInv, A!ProcessTypeOK
<1>4. A!Start(h) =>
         \/ A!BeginStart(h) \/ A!RecordStart(h) \/ A!RefuseRejoin(h)
         \/ A!SeeClaim(h) \/ A!SeeDead(h) \/ A!Deadline(h)
         \/ \E pc \in A!LaunchPoints : A!Go(pc)
  <2> USE DEF A!Fail, A!LaunchPoints, A!Locked
  <2>1. A!OverBudget(h) \/ A!Rejoin(h) \/ A!TakeUp(h) \/ A!WriteClaim(h)
          => \E pc \in A!LaunchPoints : A!Go(pc)
    BY DEF A!OverBudget, A!Rejoin, A!TakeUp, A!WriteClaim
  <2>2. A!ReserveHome(h) \/ A!LeaseHome(h) \/ A!FindHome(h) \/ A!MissHome(h) \/ A!Prepare(h)
          => \E pc \in A!LaunchPoints : A!Go(pc)
    BY DEF A!ReserveHome, A!LeaseHome, A!FindHome, A!MissHome, A!Prepare
  <2>3. A!PublishLaunchSpec(h) \/ A!SpawnSupervisor(h) \/ A!RevokeLaunch(h) \/ A!UnlockClaim(h)
          => \E pc \in A!LaunchPoints : A!Go(pc)
    BY DEF A!PublishLaunchSpec, A!SpawnSupervisor, A!RevokeLaunch, A!UnlockClaim
  <2>4. A!MissLease(h) \/ A!VerifyHome(h) \/ A!StopUnverified(h) \/ A!WriteProcess(h)
          => \E pc \in A!LaunchPoints : A!Go(pc)
    BY DEF A!MissLease, A!VerifyHome, A!StopUnverified, A!WriteProcess
  <2>5. A!CheckProcess(h) => \E pc \in A!LaunchPoints : A!Go(pc)
    <3>1. A!CheckProcess(h) => A!Go("running") \/ A!Go("blocked")
      BY DEF A!CheckProcess
    <3>2. "running" \in A!LaunchPoints /\ "blocked" \in A!LaunchPoints
      OBVIOUS
    <3> HIDE DEF A!LaunchPoints
    <3>3. QED
      BY <3>1, <3>2
  <2> HIDE DEF A!LaunchPoints, A!Fail, A!Locked
  <2>6. QED
    BY <2>1, <2>2, <2>3, <2>4, <2>5 DEF A!Start
<1>5. ASSUME NEW pc \in A!LaunchPoints, A!Go(pc) PROVE launch'.by = launch.by
  BY <1>5 DEF A!Go, A!ProcessInv, A!ProcessTypeOK
<1>6. QED
  BY <1>1, <1>2, <1>3, <1>4, <1>5

\* Who launches is at the call that starts the application.
LEMMA LaunchesKept ==
    ASSUME OperationInv, [Next]_vars, NEW g \in Handlers, launch'.by = g
    PROVE  mem'[g].pc = "application called"
<1>1. launch.by = g => mem[g].pc = "application called"
  BY DEF OperationInv, LaunchKnown, At
<1>2. CASE \E h \in Handlers : StartStep(h)
  <2>1. PICK h \in Handlers : StartStep(h)
    BY <1>2
  <2>2. launch'.by \in {h, launch.by, Nobody} /\ g # Nobody
    BY <2>1, StartLaunches DEF StartStep, OperationInv, Handlers, Nobody
  <2>3. CASE g = h
    BY <2>1, <2>3 DEF StartStep, At
  <2>4. CASE g # h
    <3>1. mem'[g].pc = mem[g].pc
      BY <2>1, <2>4, PartMoves, OthersSame DEF Same
    <3>2. QED
      BY <1>1, <2>2, <2>4, <3>1
  <2>5. QED
    BY <2>3, <2>4
<1>3. CASE ~\E h \in Handlers : StartStep(h)
  <2>1. launch.by = g
    <3>1. launch' = launch \/ launch' = A!NoLaunch
      BY <1>3, ProcessSteps
         DEF processVars, HomesGo, A!CleanProcess, A!RunCleanup, A!ThrowCleanup, A!SpareGroup, A!StopGroup,
             A!ReleaseProcessHome, A!RecordCleanup, A!Unswept, A!CrashLauncher,
             A!Supervise, A!CheckClaim, A!Register, A!SpawnTarget, A!ReportRunning,
             A!ReportExit, A!ProcessFaults, A!TargetExits, A!SupervisorDies, A!Elsewhere
    <3>2. QED
      BY <3>1 DEF A!NoLaunch, Handlers, Nobody
  <2>2. mem[g].pc = "application called"
    BY <1>1, <2>1
  <2>3. CASE UNCHANGED <<stored, mem>>
    BY <2>2, <2>3
  <2>4. CASE Local
    <3>1. ASSUME OnCopy(g) PROVE mem'[g].pc = "application called"
      BY <2>1, <2>2, <3>1
         DEF OnCopy, SaveClaim, Call, Expired, SaveHomes, SaveCheckout, PhaseFails,
             SaveApplication, WaitReady, Attempt, SavePending, SaveBrowser, RefuseBrowser,
             PublishReady, CleanupReceipt, SaveCleanup, Answer, At
    <3>2. ~Starts(g)
      BY <2>2 DEF Starts
    <3>3. ASSUME NEW h \in Handlers \ {g}, OnCopy(h) \/ Starts(h)
          PROVE  mem'[g].pc = "application called"
      BY <2>2, <3>3, OnCopyMoves, OthersSame DEF Same
    <3>4. CASE Expire \/ AskEnd \/ UNCHANGED vars
      BY <2>2, <3>4 DEF Expire, AskEnd, vars, opVars
    <3>5. QED
      BY <2>4, <3>1, <3>2, <3>3, <3>4, BeginsAreStarts DEF Local
  <2>5. CASE Effectful
    <3>1. ASSUME Crash(g) PROVE FALSE
      BY <2>1, <3>1, <1>3 DEF Crash, A!CrashLauncher, A!NoLaunch, Handlers, Nobody
    <3>2. ~CleanApplication(g) /\ ~CleanWorkspace(g) /\ ~CleanHomes(g) /\ ~CleanPorts(g)
      BY <2>2, TurnFacts DEF CleanApplication, CleanWorkspace, CleanHomes, CleanPorts, At
    <3>3. ~ClaimStep(g) /\ ~CheckoutStep(g)
      BY <2>2 DEF ClaimStep, CheckoutStep, At
    <3>4. ASSUME NEW h \in Handlers \ {g},
                 \/ ClaimStep(h) \/ CheckoutStep(h) \/ Crash(h) \/ CleanApplication(h)
                 \/ CleanWorkspace(h) \/ CleanHomes(h) \/ CleanPorts(h)
          PROVE  mem'[g].pc = "application called"
      <4>1. Moves(h) \/ UNCHANGED <<stored, mem>>
        BY <3>4, PartMoves, CleanMoves
      <4>2. QED
        BY <2>2, <4>1, OthersSame DEF Same
    <3>5. CASE Supervise \/ ProcessFault
      BY <2>2, <3>5 DEF Supervise, ProcessFault, ElsewhereToo
    <3>6. QED
      BY <1>3, <2>5, <3>1, <3>2, <3>3, <3>4, <3>5 DEF Effectful
  <2>6. QED
    BY <2>4, <2>5, AllSteps
<1>4. QED
  BY <1>2, <1>3

\* How far a claim is by each step of a launch (LaunchKnown).
Staged ==
    /\ claim = "none" => home \in {"none", "gone"}
    /\ launch.pc \in {"unlock", "poll"} => Published
    /\ launch.pc \in {"verify", "files", "check"} \/ processFiles # "none" => Handed
    /\ launch.pc \in {"running", "blocked"} \/ started \in {"running", "blocked"}
         => claim # "prepared"
    /\ launch.pc = "check" \/ sweep.pc # "none" => processFiles # "none"

\* A launch keeps that.
LEMMA StagedStart ==
    ASSUME A!ProcessInv, Staged, NEW h \in Handlers, A!Start(h)
    PROVE  Staged'
<1> USE DEF Staged, Published, Handed, A!ProcessInv, A!ProcessTypeOK, A!ClaimHeld,
            A!OneSupervisor, A!SweptAfter, A!Quiet, A!Locked, A!LaunchPoints, A!ClaimStates,
            A!Ended, A!Launching, A!Go, A!Fail, A!See, A!Unlocked, A!Processes, A!Records,
            A!NoLaunch, A!KillGroup, A!Supervisor, Handlers, Nobody
<1>1. CASE A!BeginStart(h)
  BY <1>1 DEF A!BeginStart
<1>2. CASE A!OverBudget(h)
  BY <1>2 DEF A!OverBudget
<1>3. CASE A!Rejoin(h)
  BY <1>3 DEF A!Rejoin
<1>4. CASE A!RefuseRejoin(h)
  BY <1>4 DEF A!RefuseRejoin
<1>5. CASE A!TakeUp(h)
  BY <1>5 DEF A!TakeUp
<1>6. CASE A!WriteClaim(h)
  BY <1>6 DEF A!WriteClaim
<1>7. CASE A!ReserveHome(h) \/ A!LeaseHome(h)
  BY <1>7 DEF A!ReserveHome, A!LeaseHome
<1>8. CASE A!FindHome(h) \/ A!MissHome(h)
  BY <1>8 DEF A!FindHome, A!MissHome
<1>9. CASE A!Prepare(h)
  BY <1>9 DEF A!Prepare
<1>10. CASE A!PublishLaunchSpec(h) \/ A!SpawnSupervisor(h)
  BY <1>10 DEF A!PublishLaunchSpec, A!SpawnSupervisor
<1>11. CASE A!RevokeLaunch(h)
  BY <1>11 DEF A!RevokeLaunch
<1>12. CASE A!UnlockClaim(h) \/ A!MissLease(h)
  BY <1>12 DEF A!UnlockClaim, A!MissLease
<1>13. CASE A!SeeClaim(h) \/ A!SeeDead(h)
  BY <1>13 DEF A!SeeClaim, A!SeeDead
<1>14. CASE A!Deadline(h)
  <2>1. CASE claim \in {"preparing", "prepared"}
    BY <1>14, <2>1 DEF A!Deadline
  <2>2. CASE claim \notin {"preparing", "prepared"}
    BY <1>14, <2>2 DEF A!Deadline
  <2>3. QED
    BY <2>1, <2>2
<1>15. CASE A!VerifyHome(h)
  BY <1>15 DEF A!VerifyHome
<1>16. CASE A!StopUnverified(h)
  BY <1>16 DEF A!StopUnverified
<1>17. CASE A!WriteProcess(h) \/ A!CheckProcess(h)
  BY <1>17 DEF A!WriteProcess, A!CheckProcess
<1>18. CASE A!RecordStart(h)
  BY <1>18 DEF A!RecordStart
<1>19. QED
  BY <1>1, <1>2, <1>3, <1>4, <1>5, <1>6, <1>7, <1>8, <1>9, <1>10, <1>11, <1>12,
     <1>13, <1>14, <1>15, <1>16, <1>17, <1>18 DEF A!Start

\* So do the cleanup, the supervisor and what ends a process.
LEMMA StagedRest ==
    ASSUME A!ProcessInv, Staged, NEW h \in Handlers,
           \/ A!CleanProcess(h) \/ A!CrashLauncher(h) \/ HomesGo
           \/ A!Supervise \/ A!ProcessFaults
    PROVE  Staged'
<1> USE DEF Staged, Published, Handed, A!ProcessInv, A!ProcessTypeOK, A!ClaimHeld,
            A!OneSupervisor, A!SweptAfter, A!Quiet, A!Locked, A!LaunchPoints, A!ClaimStates,
            A!Supervisor, A!NoLaunch, A!NoSweep
<1>1. CASE A!CleanProcess(h)
  BY <1>1 DEF A!CleanProcess, A!RunCleanup, A!ThrowCleanup, A!SpareGroup, A!StopGroup,
              A!ReleaseProcessHome, A!RecordCleanup, A!Unswept, A!Sweeping, A!Sweep, A!KillGroup
<1>2. CASE A!CrashLauncher(h) \/ HomesGo
  BY <1>2 DEF A!CrashLauncher, HomesGo, A!Processes
<1>3. CASE A!Supervise
  BY <1>3 DEF A!Supervise, A!CheckClaim, A!Register, A!SpawnTarget, A!ReportRunning,
              A!ReportExit, A!Elsewhere, A!Unlocked
<1>4. CASE A!ProcessFaults
  BY <1>4 DEF A!ProcessFaults, A!TargetExits, A!SupervisorDies, A!Elsewhere
<1>5. QED
  BY <1>1, <1>2, <1>3, <1>4

\* What is known of a launch stays true.
LEMMA LaunchKnownKept ==
    ASSUME OperationInv, [Next]_vars
    PROVE  LaunchKnown'
<1>1. A!ProcessInv /\ Staged
  BY DEF OperationInv, LaunchKnown, Staged
<1>2. Staged'
  <2>1. CASE UNCHANGED processVars
    BY <1>1, <2>1 DEF processVars, Staged, Published, Handed, A!Quiet
  <2>2. "start" \in Handlers
    BY DEF Handlers
  <2>3. QED
    BY <1>1, <2>1, <2>2, ProcessSteps, StagedStart, StagedRest
<1>3. QED
  BY <1>2, LaunchesKept DEF LaunchKnown, Staged, At

-----------------------------------------------------------------------------
(* What was started stands until somebody begins to clean up.              *)

\* What a step adds to the history.
LEMMA PastGrows ==
    ASSUME OperationInv, [Next]_vars
    PROVE  /\ past.undone => past'.undone
           /\ past.blind => past'.blind
           /\ past.spared => past'.spared
           /\ past'.spared => past.spared \/ \E h \in Handlers : CleanApplication(h)
           /\ \A h \in Handlers :
                 CleanApplication(h) \/ CleanWorkspace(h) \/ CleanHomes(h) \/ CleanPorts(h)
                   => past'.undone
<1>1. past \in [undone : BOOLEAN, blind : BOOLEAN, spared : BOOLEAN]
  BY DEF OperationInv, OperationTypeOK
<1>2. ASSUME NEW h \in Handlers, Undoing(h)
      PROVE  /\ past'.undone /\ (past.blind => past'.blind) /\ (past.spared => past'.spared)
             /\ sweep' = sweep => past'.spared = past.spared
  BY <1>1, <1>2 DEF Undoing
<1>3. ASSUME NEW h \in Handlers, Beginning(h)
      PROVE  /\ past'.undone = past.undone /\ (past.blind => past'.blind)
             /\ past'.spared = past.spared
  <2> DEFINE b == past.blind \/ (mem[h].stale /\ Begun' # Begun)
  <2>1. b \in BOOLEAN /\ past' = [past EXCEPT !.blind = b] /\ (past.blind => b)
    BY <1>1, <1>3 DEF Beginning
  <2> HIDE DEF b
  <2>2. QED
    BY <1>1, <2>1
<1>4. \A h \in Handlers :
         /\ CleanApplication(h) \/ CleanWorkspace(h) \/ CleanHomes(h) \/ CleanPorts(h)
              => Undoing(h)
         /\ CleanWorkspace(h) \/ CleanHomes(h) \/ CleanPorts(h) => sweep' = sweep
  BY DEF CleanApplication, CleanWorkspace, CleanHomes, CleanPorts, processVars
<1>5. CASE Local
  BY <1>2, <1>4, <1>5, LocalIsLocal
<1>6. CASE Effectful
  BY <1>2, <1>3, <1>4, <1>6
     DEF Effectful, ClaimStep, CheckoutStep, StartStep, Crash, Supervise, ProcessFault,
         ElsewhereToo, Outside
<1>7. QED
  BY <1>5, <1>6, AllSteps

\* What stands of a process (UpUntilUndone).
Standing ==
    /\ sweep.pc = "none" /\ processFiles # "cleaned"
    /\ launch.pc \in {"files", "check", "running"} \/ started = "running" => home = "leased"
    /\ launch.pc \in {"check", "running"} \/ started = "running" => processFiles = "present"

\* A launch lets stand what stands.
LEMMA StandingStart ==
    ASSUME A!ProcessInv, Standing, NEW h \in Handlers, A!Start(h)
    PROVE  Standing'
<1>1. A!ProcessTypeOK /\ (launch.by = h => started = "none")
  BY DEF A!ProcessInv, A!SweptAfter, A!NoLaunch, Handlers, Nobody
<1> USE <1>1
    DEF Standing, A!ProcessTypeOK, A!Launching, A!Go, A!Fail, A!See, A!Processes, A!Records,
        A!NoLaunch
<1>2. ASSUME A!BeginStart(h) \/ A!OverBudget(h) \/ A!RefuseRejoin(h) \/ A!WriteClaim(h)
      PROVE  Standing'
  <2>1. launch'.pc \in {"look", "refused", "none", "home"}
    <3>1. CASE A!BeginStart(h)
      BY <3>1 DEF A!BeginStart
    <3>2. CASE A!OverBudget(h) \/ A!WriteClaim(h)
      BY <3>2 DEF A!OverBudget, A!WriteClaim
    <3>3. CASE A!RefuseRejoin(h)
      BY <3>3 DEF A!RefuseRejoin
    <3>4. QED
      BY <1>2, <3>1, <3>2, <3>3
  <2>2. UNCHANGED <<home, processFiles, started, sweep>>
    BY <1>2 DEF A!BeginStart, A!OverBudget, A!RefuseRejoin, A!WriteClaim
  <2>3. QED
    BY <2>1, <2>2
<1>3. CASE A!Rejoin(h)
  BY <1>3 DEF A!Rejoin
<1>4. CASE A!TakeUp(h)
  BY <1>4 DEF A!TakeUp
<1>5. ASSUME A!ReserveHome(h) \/ A!LeaseHome(h) \/ A!FindHome(h) \/ A!MissHome(h) \/ A!Prepare(h)
      PROVE  Standing'
  BY <1>5 DEF A!ReserveHome, A!LeaseHome, A!FindHome, A!MissHome, A!Prepare
<1>6. ASSUME A!PublishLaunchSpec(h) \/ A!SpawnSupervisor(h) \/ A!RevokeLaunch(h) \/ A!UnlockClaim(h) \/ A!MissLease(h)
      PROVE  Standing'
  BY <1>6 DEF A!PublishLaunchSpec, A!SpawnSupervisor, A!RevokeLaunch, A!UnlockClaim, A!MissLease
<1>7. CASE A!SeeClaim(h) \/ A!SeeDead(h)
  BY <1>7 DEF A!SeeClaim, A!SeeDead
<1>8. CASE A!Deadline(h)
  BY <1>8 DEF A!Deadline
<1>9. ASSUME A!VerifyHome(h) \/ A!StopUnverified(h) \/ A!WriteProcess(h) \/ A!CheckProcess(h) \/ A!RecordStart(h)
      PROVE  Standing'
  BY <1>9 DEF A!VerifyHome, A!StopUnverified, A!WriteProcess, A!CheckProcess, A!RecordStart
<1>10. QED
  BY <1>2, <1>3, <1>4, <1>5, <1>6, <1>7, <1>8, <1>9 DEF A!Start

\* So does everything else that is not a cleanup.
LEMMA StandingRest ==
    ASSUME Standing, NEW h \in Handlers,
           A!CrashLauncher(h) \/ A!Supervise \/ A!ProcessFaults \/ UNCHANGED processVars
    PROVE  Standing'
BY DEF Standing, A!CrashLauncher, A!NoLaunch, A!NoSweep, A!Supervise, A!CheckClaim,
       A!Register, A!SpawnTarget, A!ReportRunning, A!ReportExit, A!ProcessFaults,
       A!TargetExits, A!SupervisorDies, A!Elsewhere, processVars

\* What is up stays up until a cleanup begins.
LEMMA UpKept ==
    ASSUME OperationInv, [Next]_vars
    PROVE  UpUntilUndone'
<1> SUFFICES ASSUME ~past'.undone
             PROVE  ~freeing' /\ ~swept' /\ Standing'
  BY DEF UpUntilUndone, Standing
<1>1. /\ ~past.undone
      /\ \A h \in Handlers :
            ~CleanApplication(h) /\ ~CleanWorkspace(h) /\ ~CleanHomes(h) /\ ~CleanPorts(h)
  BY PastGrows
<1>2. ~freeing /\ ~swept /\ Standing /\ A!ProcessInv
  BY <1>1 DEF OperationInv, UpUntilUndone, Standing
<1>3. ~freeing'
  <2>1. ASSUME NEW h \in Handlers, P!ClaimPorts(h) \/ P!CrashPorts(h) PROVE freeing' = freeing
    BY <2>1 DEF P!ClaimPorts, P!LockForClaim, P!RefuseClaim, P!BeginClaim, P!TakePort,
              P!UseApproval, P!RecordClaim, P!CrashPorts
  <2>2. QED
    BY <1>1, <1>2, <2>1, PortSteps DEF portVars
<1>4. ~swept'
  <2>1. ASSUME NEW h \in Handlers, W!Checkout(h) \/ W!CrashWorkspace(h) PROVE swept' = swept
    BY <2>1 DEF W!Checkout, W!BeginCheckout, W!ReserveWorkspace, W!ResumeWorkspace,
              W!RefuseWorkspace, W!RemoveOld, W!ProveOld, W!Allocate, W!Persist, W!Retire,
              W!Clone, W!Verdict, W!RecordCheckout, W!CrashWorkspace, W!Disk
  <2>2. QED
    BY <1>1, <1>2, <2>1, WorkspaceSteps DEF workspaceVars
<1>5. Standing'
  <2>1. "start" \in Handlers
    BY DEF Handlers
  <2>2. QED
    BY <1>1, <1>2, <2>1, ProcessSteps, StandingStart, StandingRest
<1>6. QED
  BY <1>3, <1>4, <1>5

-----------------------------------------------------------------------------
(* A live process keeps its home.                                          *)

\* An answer without a record leaves no process; where a process lives.
Recorded == (launch.pc \in {"running", "blocked"} \/ Settled) /\ processFiles = "none" => ~Live
Housed == (Live => home = "leased") /\ Recorded

\* Nothing lives of a process that is on record and quiet.
LEMMA QuietIsDead ==
    ASSUME A!ProcessInv, Staged, processFiles # "none", started # "none", A!Quiet
    PROVE  ~Live
BY DEF A!ProcessInv, A!SweptAfter, Staged, Handed, Published, A!Quiet, Live, A!NoLaunch

\* A launch leaves no live process without its home.
LEMMA HousedStart ==
    ASSUME A!ProcessInv, Staged, Housed, NEW h \in Handlers, A!Start(h)
    PROVE  Housed'
<1>1. /\ A!ProcessTypeOK /\ (launch.by = h => started = "none")
      /\ A!ClaimHeld /\ A!OneSupervisor
  BY DEF A!ProcessInv, A!SweptAfter, A!NoLaunch, Handlers, Nobody
<1> USE <1>1
    DEF Staged, Published, Handed, Housed, Recorded, Live, Settled, A!ProcessTypeOK, A!ClaimHeld,
        A!OneSupervisor, A!Launching, A!Go, A!Fail, A!See, A!Unlocked, A!Processes, A!Records,
        A!KillGroup
<1>2. CASE A!BeginStart(h)
  BY <1>2 DEF A!BeginStart, A!NoLaunch
<1>3. CASE A!OverBudget(h)
  BY <1>3 DEF A!OverBudget
<1>4. CASE A!Rejoin(h)
  BY <1>4 DEF A!Rejoin
<1>5. CASE A!RefuseRejoin(h)
  BY <1>5 DEF A!RefuseRejoin, A!NoLaunch
<1>6. CASE A!TakeUp(h)
  BY <1>6 DEF A!TakeUp
<1>7. CASE A!WriteClaim(h) \/ A!ReserveHome(h) \/ A!LeaseHome(h)
  BY <1>7 DEF A!WriteClaim, A!ReserveHome, A!LeaseHome
<1>8. CASE A!FindHome(h) \/ A!MissHome(h)
  BY <1>8 DEF A!FindHome, A!MissHome
<1>9. CASE A!Prepare(h) \/ A!PublishLaunchSpec(h)
  BY <1>9 DEF A!Prepare, A!PublishLaunchSpec
<1>10. CASE A!SpawnSupervisor(h) \/ A!UnlockClaim(h)
  BY <1>10 DEF A!SpawnSupervisor, A!UnlockClaim
<1>11. CASE A!RevokeLaunch(h)
  BY <1>11 DEF A!RevokeLaunch
<1>12. CASE A!MissLease(h)
  BY <1>12 DEF A!MissLease
<1>13. CASE A!SeeClaim(h)
  BY <1>13 DEF A!SeeClaim
<1>14. CASE A!SeeDead(h)
  BY <1>14 DEF A!SeeDead
<1>15. CASE A!Deadline(h)
  <2>1. CASE claim \in {"preparing", "prepared"}
    BY <1>15, <2>1 DEF A!Deadline
  <2>2. CASE claim \notin {"preparing", "prepared"}
    BY <1>15, <2>2 DEF A!Deadline
  <2>3. QED
    BY <2>1, <2>2
<1>16. CASE A!VerifyHome(h)
  BY <1>16 DEF A!VerifyHome
<1>17. CASE A!StopUnverified(h)
  BY <1>17 DEF A!StopUnverified
<1>18. CASE A!WriteProcess(h) \/ A!CheckProcess(h)
  BY <1>18 DEF A!WriteProcess, A!CheckProcess
<1>19. CASE A!RecordStart(h)
  BY <1>19 DEF A!RecordStart, A!NoLaunch
<1>20. QED
  BY <1>2, <1>3, <1>4, <1>5, <1>6, <1>7, <1>8, <1>9, <1>10, <1>11, <1>12, <1>13, <1>14, <1>15, <1>16, <1>17, <1>18, <1>19
     DEF A!Start

\* Without a launcher at work nothing comes to life.
LEMMA DeadStays ==
    ASSUME A!ProcessInv, ~Live, NEW h \in Handlers,
           \/ A!CleanProcess(h) \/ A!CrashLauncher(h) \/ HomesGo
           \/ A!Supervise \/ A!ProcessFaults \/ UNCHANGED processVars
    PROVE  ~Live'
<1> USE DEF Live, A!ProcessInv, A!OneSupervisor
<1>1. CASE A!CleanProcess(h)
  BY <1>1 DEF A!CleanProcess, A!RunCleanup, A!ThrowCleanup, A!SpareGroup, A!StopGroup,
              A!ReleaseProcessHome, A!RecordCleanup, A!Unswept, A!KillGroup
<1>2. CASE A!CrashLauncher(h) \/ HomesGo \/ UNCHANGED processVars
  BY <1>2 DEF A!CrashLauncher, A!NoLaunch, HomesGo, A!Processes, processVars
<1>3. CASE A!Supervise
  BY <1>3 DEF A!Supervise, A!CheckClaim, A!Register, A!SpawnTarget, A!ReportRunning,
              A!ReportExit, A!Elsewhere
<1>4. CASE A!ProcessFaults
  BY <1>4 DEF A!ProcessFaults, A!TargetExits, A!SupervisorDies, A!Elsewhere
<1>5. QED
  BY <1>1, <1>2, <1>3, <1>4

\* Nothing is launched once the answer of a start is on record.
LEMMA SettledIsStarted ==
    ASSUME A!ProcessInv, Settled, NEW h \in Handlers, A!Start(h)
    PROVE  FALSE
<1>1. started # "none" /\ launch.by # h
  BY DEF A!ProcessInv, A!SweptAfter, Settled, A!NoLaunch, Handlers, Nobody
<1>2. QED
  BY <1>1
     DEF A!Start, A!BeginStart, A!OverBudget, A!Rejoin, A!RefuseRejoin, A!TakeUp,
         A!WriteClaim, A!ReserveHome, A!LeaseHome, A!FindHome, A!MissHome, A!Prepare,
         A!PublishLaunchSpec, A!SpawnSupervisor, A!RevokeLaunch, A!UnlockClaim,
         A!SeeClaim, A!SeeDead, A!MissLease, A!Deadline, A!VerifyHome, A!StopUnverified,
         A!WriteProcess, A!CheckProcess, A!RecordStart, A!Launching, A!Fail

\* A record is there for what lives, whoever cleans up.
LEMMA RecordedRest ==
    ASSUME A!ProcessInv, Recorded, NEW h \in Handlers,
           \/ A!CleanProcess(h) \/ A!CrashLauncher(h) \/ HomesGo
           \/ A!Supervise \/ A!ProcessFaults \/ UNCHANGED processVars
    PROVE  Recorded'
<1>1. CASE ~Live
  BY <1>1, DeadStays DEF Recorded
<1>2. CASE Live
  <2>1. ~(launch.pc \in {"running", "blocked"} /\ processFiles = "none")
          /\ ~(Settled /\ processFiles = "none")
    BY <1>2 DEF Recorded
  <2> USE <2>1 DEF Recorded, Settled
  <2>2. CASE A!CleanProcess(h)
    BY <2>2 DEF A!CleanProcess, A!RunCleanup, A!ThrowCleanup, A!SpareGroup, A!StopGroup,
                A!ReleaseProcessHome, A!RecordCleanup, A!Unswept
  <2>3. CASE A!CrashLauncher(h) \/ HomesGo \/ UNCHANGED processVars
    BY <2>3 DEF A!CrashLauncher, A!NoLaunch, HomesGo, processVars
  <2>4. CASE A!Supervise \/ A!ProcessFaults
    BY <2>4 DEF A!Supervise, A!CheckClaim, A!Register, A!SpawnTarget, A!ReportRunning,
                A!ReportExit, A!ProcessFaults, A!TargetExits, A!SupervisorDies, A!Elsewhere
  <2>5. QED
    BY <2>2, <2>3, <2>4
<1>3. QED
  BY <1>1, <1>2

\* Neither does a home go under a process, if the homes go when nothing is alive.
LEMMA HousedRest ==
    ASSUME A!ProcessInv, Staged, Housed, NEW h \in Handlers,
           \/ A!CleanProcess(h) \/ A!CrashLauncher(h) \/ (HomesGo /\ ~Live)
           \/ A!Supervise \/ A!ProcessFaults \/ UNCHANGED processVars
    PROVE  Housed'
<1>1. Recorded'
  BY RecordedRest DEF Housed
<1>2. CASE ~Live
  BY <1>1, <1>2, DeadStays DEF Housed
<1>3. CASE Live
  <2>1. home = "leased"
    BY <1>3 DEF Housed
  <2>2. CASE A!CleanProcess(h)
    <3>1. ~(A!ReleaseProcessHome(h) /\ home' # home)
      BY <1>3, QuietIsDead
         DEF A!ReleaseProcessHome, A!Sweeping, A!ProcessInv, A!SweptAfter, Staged
    <3>2. home' = home
      BY <2>2, <3>1 DEF A!CleanProcess, A!RunCleanup, A!ThrowCleanup, A!SpareGroup,
                        A!StopGroup, A!ReleaseProcessHome, A!RecordCleanup
    <3>3. QED
      BY <1>1, <2>1, <3>2 DEF Housed
  <2>3. CASE A!CrashLauncher(h) \/ UNCHANGED processVars
    BY <1>1, <2>1, <2>3 DEF Housed, A!CrashLauncher, processVars
  <2>4. CASE A!Supervise \/ A!ProcessFaults
    BY <1>1, <2>1, <2>4
       DEF Housed, A!Supervise, A!CheckClaim, A!Register, A!SpawnTarget, A!ReportRunning,
           A!ReportExit, A!ProcessFaults, A!TargetExits, A!SupervisorDies, A!Elsewhere
  <2>5. QED
    BY <1>3, <2>2, <2>3, <2>4
<1>4. QED
  BY <1>2, <1>3

\* What a handler has tried it has tried in its own cleanup.
LEMMA TriedKept ==
    ASSUME mem \in [Handlers -> Copies], NEW h \in Handlers, NEW st, NEW pc,
           \/ Throws(h, st) \/ SwapAndGo(h, st, pc) \/ Save(h, st, pc) \/ SaveAndThrow(h, st)
           \/ Undo(h, st) \/ To(h, pc) \/ Quit(h)
    PROVE  mem'[h].tried \in {mem[h].tried, {}}
<1>1. mem[h] \in Copies /\ Idle.tried = {}
  BY DEF Idle
<1>2. CASE mem' = [mem EXCEPT ![h] = [@ EXCEPT !.pc = "undo", !.st = st]]
  BY <1>1, <1>2 DEF Copies
<1>3. CASE Quit(h)
  BY <1>1, <1>3 DEF Quit
<1>4. CASE To(h, pc)
  BY <1>1, <1>4 DEF To, Copies
<1>5. ASSUME NEW to, SwapAndGo(h, st, to)
      PROVE  mem'[h].tried \in {mem[h].tried, {}}
  <2>1. mem'[h] \in {Idle, [mem[h] EXCEPT !.st = st, !.pc = to]}
    BY <1>5 DEF SwapAndGo
  <2>2. QED
    BY <1>1, <2>1 DEF Copies
<1>6. CASE Throws(h, st) \/ Undo(h, st)
  BY <1>2, <1>3, <1>6 DEF Throws, Undo
<1>7. QED
  BY <1>3, <1>4, <1>5, <1>6 DEF Save, SaveAndThrow

\* A step on the copy adds nothing to what was tried.
LEMMA OnCopyTried ==
    ASSUME OperationInv, NEW h \in Handlers, OnCopy(h)
    PROVE  mem'[h].tried \in {mem[h].tried, {}}
<1>1. mem \in [Handlers -> Copies]
  BY CopyFacts
<1>2. CASE SaveClaim(h) \/ Call(h) \/ Expired(h) \/ SaveHomes(h)
  BY <1>1, <1>2, TriedKept DEF SaveClaim, Call, Expired, SaveHomes
<1>3. CASE SaveCheckout(h) \/ PhaseFails(h) \/ SaveApplication(h)
  BY <1>1, <1>3, TriedKept DEF SaveCheckout, PhaseFails, SaveApplication
<1>4. CASE WaitReady(h) \/ Attempt(h) \/ SavePending(h) \/ SaveBrowser(h) \/ RefuseBrowser(h)
  BY <1>1, <1>4, TriedKept DEF WaitReady, Attempt, SavePending, SaveBrowser, RefuseBrowser
<1>5. CASE PublishReady(h) \/ CleanupReceipt(h) \/ SaveCleanup(h) \/ Answer(h)
  BY <1>1, <1>5, TriedKept
     DEF PublishReady, CleanupReceipt, SaveCleanup, Answer, SaveOrQuit
<1>6. QED
  BY <1>2, <1>3, <1>4, <1>5 DEF OnCopy

\* Only its cleanup tries the application.
LEMMA TriedByCleanup ==
    ASSUME OperationInv, [Next]_vars, NEW h \in Handlers,
           "application" \in mem'[h].tried, "application" \notin mem[h].tried
    PROVE  \E ok \in BOOLEAN : CleanApplication(h) /\ Tried(h, "application", ok)
<1>1. ASSUME NEW k \in KindSet, k # "application", NEW ok \in BOOLEAN, Tried(h, k, ok)
      PROVE  FALSE
  <2>1. mem \in [Handlers -> Copies] /\ stored \in States
    BY CopyFacts
  <2>2. mem'[h].tried = mem[h].tried \union {k}
    BY <1>1, <2>1 DEF Tried, Copies
  <2>3. QED
    BY <1>1, <2>2
<1>2. ~UNCHANGED <<stored, mem>>
  OBVIOUS
<1>3. ASSUME NEW g \in Handlers \ {h}, Moves(g) \/ Starts(g) PROVE FALSE
  BY <1>3, OthersSame DEF Same
<1>4. ~Starts(h)
  BY DEF Starts
<1>5. ~OnCopy(h)
  BY OnCopyTried
<1>6. CASE Local
  <2>1. Expire \/ AskEnd \/ UNCHANGED vars => UNCHANGED <<stored, mem>>
    BY DEF Expire, AskEnd, vars, opVars
  <2>2. QED
    BY <1>2, <1>3, <1>4, <1>5, <1>6, <2>1, OnCopyMoves, BeginsAreStarts DEF Local
<1>7. CASE Effectful
  <2>1. ~Supervise /\ ~ProcessFault
    BY <1>2 DEF Supervise, ProcessFault, ElsewhereToo
  <2>2. ASSUME ClaimStep(h) \/ CheckoutStep(h) \/ StartStep(h) \/ Crash(h) PROVE FALSE
    <3>1. mem'[h].tried \in {mem[h].tried, {}}
      BY <1>2, <2>2, CopyFacts, TriedKept DEF ClaimStep, CheckoutStep, StartStep, Crash
    <3>2. QED
      BY <3>1
  <2>3. ASSUME CleanWorkspace(h) PROVE FALSE
    <3>1. reservation.cleaned \in BOOLEAN
      BY DEF OperationInv, W!WorkspaceInv, W!WorkspaceTypeOK
    <3>2. \E ok \in BOOLEAN : Tried(h, "workspace", ok)
      BY <1>2, <2>3, <3>1 DEF CleanWorkspace
    <3>3. QED
      BY <1>1, <3>2, Kind4
  <2>4. ASSUME CleanHomes(h) \/ CleanPorts(h) PROVE FALSE
    <3>1. \E ok \in BOOLEAN : Tried(h, "homes", ok) \/ Tried(h, "ports", ok)
      BY <1>2, <2>4 DEF CleanHomes, CleanPorts
    <3>2. QED
      BY <1>1, <3>1, Kind4
  <2>5. CASE CleanApplication(h)
    BY <1>2, <2>5 DEF CleanApplication
  <2>6. QED
    BY <1>2, <1>3, <1>7, <2>1, <2>2, <2>3, <2>4, <2>5, PartMoves, CleanMoves DEF Effectful
<1>8. QED
  BY <1>6, <1>7, AllSteps

\* What was tried of the application has left nothing alive, or has spared it.
LEMMA TriedIsDead ==
    ASSUME OperationInv, [Next]_vars, NEW h \in Handlers, NEW ok \in BOOLEAN,
           CleanApplication(h), Tried(h, "application", ok), ~past.blind
    PROVE  Settled' /\ (~Live' \/ past'.spared)
<1>1. /\ A!ProcessInv /\ Staged /\ Recorded
      /\ Settled /\ started # "none"
  <2>1. "application" \in mem[h].st.resources
    BY TurnFacts DEF CleanApplication
  <2>2. Settled
    BY <2>1, CopyFacts DEF Known
  <2>3. QED
    BY <2>2 DEF OperationInv, LaunchKnown, Staged, HomeKept, Recorded, Settled
<1>2. Settled'
  BY <1>1, PartsGrow DEF ProcessGrows, Settled
<1>3. CASE processFiles \in {"none", "cleaned"} /\ UNCHANGED processVars
  <2>1. ~Live
    <3>1. processFiles = "cleaned" => A!Quiet
      BY <1>1 DEF A!ProcessInv, A!SweptAfter
    <3>2. QED
      BY <1>1, <1>3, <3>1, QuietIsDead DEF Recorded
  <2>2. QED
    BY <1>1, <1>2, <1>3, <2>1, DeadStays
<1>4. CASE A!CleanProcess(h) /\ sweep.by = h /\ sweep'.by # h
  <2>1. CASE A!GroupAlive'
    BY <1>2, <1>4, <2>1 DEF CleanApplication, Undoing
  <2>2. CASE ~A!GroupAlive'
    <3>1. claim' = claim /\ launch' = launch
      BY <1>4 DEF A!CleanProcess, A!RunCleanup, A!ThrowCleanup, A!SpareGroup, A!StopGroup,
                  A!ReleaseProcessHome, A!RecordCleanup, A!Unswept
    <3>2. claim # "prepared" /\ launch = A!NoLaunch
      BY <1>1 DEF Staged, Settled, A!ProcessInv, A!SweptAfter
    <3>3. ~Live'
      BY <2>2, <3>1, <3>2 DEF Live, A!GroupAlive, A!NoLaunch
    <3>4. QED
      BY <1>2, <3>3
  <2>3. QED
    BY <2>1, <2>2
<1>5. mem' # mem
  <2>1. mem'[h].tried = mem[h].tried \union {"application"}
    BY CopyFacts, TriedFacts, Kind4
  <2>2. "application" \notin mem[h].tried
    BY DEF CleanApplication, Turn, Left
  <2>3. QED
    BY <2>1, <2>2
<1>6. QED
  BY <1>3, <1>4, <1>5 DEF CleanApplication

\* Homes are cleaned up when nothing is alive in them.
LEMMA HomesAreEmpty ==
    ASSUME OperationInv, NEW h \in Handlers, CleanHomes(h), ~past'.blind, ~past.blind,
           ~past.spared
    PROVE  ~Live
<1>1. Turn(h, "homes") /\ Undoing(h)
  BY DEF CleanHomes
<1>2. "application" \notin Left(h)
  BY <1>1 DEF Turn, Kinds
<1>3. A!ProcessInv /\ Staged /\ HomeKept
  BY DEF OperationInv, LaunchKnown, Staged
<1>4. CASE "application" \notin mem[h].st.resources
  <2>1. claim = "none"
    BY <1>1, <1>4 DEF Undoing, Begun
  <2>2. QED
    BY <1>3, <2>1 DEF A!ProcessInv, A!ClaimHeld, A!OneSupervisor, Live
<1>5. CASE "application" \in mem[h].st.cleaned
  <2>1. processFiles = "cleaned"
    BY <1>5, CopyFacts DEF Known
  <2>2. started # "none" /\ A!Quiet
    BY <1>3, <2>1 DEF A!ProcessInv, A!SweptAfter
  <2>3. QED
    BY <1>3, <2>1, <2>2, QuietIsDead
<1>6. CASE "application" \in mem[h].tried
  BY <1>3, <1>6 DEF HomeKept
<1>7. QED
  BY <1>2, <1>4, <1>5, <1>6 DEF Left

\* Homes are kept.
LEMMA HomeKeptKept ==
    ASSUME OperationInv, [Next]_vars
    PROVE  HomeKept'
<1>1. A!ProcessInv /\ Staged /\ HomeKept
  BY DEF OperationInv, LaunchKnown, Staged
<1>2. Settled => Settled'
  BY PartsGrow DEF ProcessGrows, Settled
<1>3. past'.spared => Settled
  <2>1. ASSUME NEW h \in Handlers, CleanApplication(h) PROVE Settled
    <3>1. "application" \in mem[h].st.resources
      BY <2>1, TurnFacts DEF CleanApplication
    <3>2. QED
      BY <3>1, CopyFacts DEF Known
  <2>2. QED
    BY <1>1, <2>1, PastGrows DEF HomeKept
<1>4. past'.spared => Settled'
  BY <1>2, <1>3
<1>5. SUFFICES ASSUME ~past'.blind
               PROVE  /\ Live' => home' = "leased" \/ past'.spared
                      /\ Recorded'
                      /\ \A h \in Handlers :
                            "application" \in mem'[h].tried
                              => Settled' /\ (~Live' \/ past'.spared)
  BY <1>4 DEF HomeKept, Recorded
<1>6. ~past.blind
  BY <1>5, PastGrows
<1>7. /\ Recorded /\ (past.spared \/ Housed)
      /\ \A h \in Handlers :
            "application" \in mem[h].tried => Settled /\ (~Live \/ past.spared)
  BY <1>1, <1>6 DEF HomeKept, Housed, Recorded
<1>8. "start" \in Handlers
  BY DEF Handlers
<1>9. Recorded' /\ (past'.spared \/ Housed')
  <2>1. CASE \E h \in Handlers : A!Start(h)
    <3>1. ~Settled
      BY <1>1, <2>1, SettledIsStarted
    <3>2. Housed
      BY <1>1, <1>7, <3>1 DEF HomeKept
    <3>3. QED
      BY <1>1, <2>1, <3>2, HousedStart DEF Housed
  <2>2. CASE ~\E h \in Handlers : A!Start(h)
    <3>1. Recorded'
      BY <1>1, <1>7, <1>8, <2>2, ProcessSteps, RecordedRest
    <3>2. CASE ~past'.spared
      <4>1. ~past.spared /\ Housed
        BY <1>7, <3>2, PastGrows
      <4>2. \A h \in Handlers : CleanHomes(h) => ~Live
        BY <1>5, <1>6, <4>1, HomesAreEmpty
      <4>3. QED
        BY <1>1, <1>8, <2>2, <3>1, <4>1, <4>2, ProcessSteps, HousedRest
    <3>3. QED
      BY <3>1, <3>2
  <2>3. QED
    BY <2>1, <2>2
<1>10. ASSUME Settled, ~Live
       PROVE  ~Live'
  <2>1. \A h \in Handlers : ~A!Start(h)
    BY <1>1, <1>10, SettledIsStarted
  <2>2. QED
    BY <1>1, <1>8, <1>10, <2>1, ProcessSteps, DeadStays
<1>11. ASSUME NEW h \in Handlers, "application" \in mem'[h].tried
       PROVE  Settled' /\ (~Live' \/ past'.spared)
  <2>1. CASE "application" \in mem[h].tried
    BY <1>2, <1>7, <1>10, <2>1, PastGrows
  <2>2. CASE "application" \notin mem[h].tried
    BY <1>6, <1>11, <2>2, TriedByCleanup, TriedIsDead
  <2>3. QED
    BY <2>1, <2>2
<1>12. QED
  BY <1>9, <1>11 DEF Housed

-----------------------------------------------------------------------------
(* What is cleaned up in time: what a save adds, where a cleanup comes from *)

\* What a save keeps of the state that it replaces.
Adds(h, st) ==
    /\ st.cleaned = mem[h].st.cleaned /\ mem[h].st.resources \subseteq st.resources
    /\ st.complete => mem[h].st.complete \/ (SaveCleanup(h) /\ mem[h].whole)
    /\ st.result = "blocked" => mem[h].st.result = "blocked" \/ At(h, "answer")

\* Every save of a handler keeps this much.
LEMMA OnCopyAdds ==
    ASSUME OperationInv, NEW h \in Handlers, OnCopy(h)
    PROVE  stored' = stored \/ (~mem[h].stale /\ Adds(h, stored'))
<1>1. mem[h].st \in States
  BY CopyFacts
<1> DEFINE Becomes(st) == stored' = stored \/ (~mem[h].stale /\ stored' = st)
<1>2. ASSUME NEW st, NEW pc, Save(h, st, pc) \/ SaveAndThrow(h, st)
      PROVE  Becomes(st)
  BY <1>2 DEF Save, SwapAndGo, SaveAndThrow
<1>3. ASSUME NEW st, Adds(h, st), Becomes(st)
      PROVE  stored' = stored \/ (~mem[h].stale /\ Adds(h, stored'))
  BY <1>3
<1> HIDE DEF Becomes
<1>4. CASE SaveClaim(h)
  <2> DEFINE st == [mem[h].st EXCEPT !.status = IF @ = "none" THEN "provisioning" ELSE @,
                                     !.resources = @ \union {"ports"}]
  <2>1. Becomes(st)
    BY <1>2, <1>4 DEF SaveClaim
  <2>2. Adds(h, st)
    BY <1>1 DEF Adds, States
  <2>3. QED
    BY <1>3, <2>1, <2>2
<1>5. CASE Call(h) \/ Expired(h) \/ PhaseFails(h) \/ RefuseBrowser(h)
  BY <1>5 DEF Call, Expired, PhaseFails, RefuseBrowser
<1>6. CASE SaveHomes(h)
  <2> DEFINE st == [mem[h].st EXCEPT !.resources = @ \union {"homes"},
                                     !.done = @ \union {"homes"}]
  <2>1. Becomes(st)
    BY <1>2, <1>6 DEF SaveHomes
  <2>2. Adds(h, st)
    BY <1>1 DEF Adds, States
  <2>3. QED
    BY <1>3, <2>1, <2>2
<1>7. CASE SaveCheckout(h)
  <2> DEFINE known == [mem[h].st EXCEPT !.resources = @ \union {"workspace"}]
             st == [known EXCEPT !.done = @ \union {"checkout"}]
  <2>1. Becomes(st) \/ Becomes(known)
    BY <1>2, <1>7 DEF SaveCheckout
  <2>2. Adds(h, known) /\ Adds(h, st)
    BY <1>1 DEF Adds, States
  <2>3. QED
    BY <1>3, <2>1, <2>2
<1>8. CASE SaveApplication(h)
  <2> DEFINE known == [mem[h].st EXCEPT !.resources = @ \union {"application"}]
             st == [known EXCEPT !.done = @ \union {"application"}]
  <2>1. Becomes(st) \/ Becomes(known) \/ stored' = stored
    BY <1>2, <1>8 DEF SaveApplication
  <2>2. Adds(h, known) /\ Adds(h, st)
    BY <1>1 DEF Adds, States
  <2>3. QED
    BY <1>3, <2>1, <2>2
<1>9. CASE WaitReady(h)
  <2> DEFINE st == [mem[h].st EXCEPT !.done = @ \union {"readiness"}]
  <2>1. Becomes(st) \/ stored' = stored
    BY <1>2, <1>9 DEF WaitReady
  <2>2. Adds(h, st)
    BY <1>1 DEF Adds, States
  <2>3. QED
    BY <1>3, <2>1, <2>2
<1>10. CASE Attempt(h) \/ SavePending(h)
  <2> DEFINE st == [mem[h].st EXCEPT !.status = "pending", !.complete = FALSE]
  <2>1. Becomes(st) \/ Becomes(mem[h].st) \/ stored' = stored
    BY <1>2, <1>10 DEF Attempt, SavePending
  <2>2. Adds(h, st) /\ Adds(h, mem[h].st)
    BY <1>1 DEF Adds, States
  <2>3. QED
    BY <1>3, <2>1, <2>2
<1>11. CASE SaveBrowser(h)
  <2> DEFINE st(gate) == [mem[h].st EXCEPT !.browser = gate]
  <2>1. \E gate \in {"ready", "blocked"} : Becomes(st(gate))
    BY <1>11 DEF SaveBrowser, SwapAndGo, Becomes
  <2>2. \A gate : Adds(h, st(gate))
    BY <1>1 DEF Adds, States
  <2>3. QED
    BY <1>3, <2>1, <2>2
<1>12. CASE PublishReady(h)
  <2> DEFINE st == [mem[h].st EXCEPT !.status = "ready", !.result = "ready"]
  <2>1. Becomes(st)
    BY <1>12 DEF PublishReady, SwapAndGo, Becomes
  <2>2. Adds(h, st)
    BY <1>1 DEF Adds, States
  <2>3. QED
    BY <1>3, <2>1, <2>2
<1>13. ASSUME NEW st, NEW pc, SaveOrQuit(h, st, pc)
       PROVE  Becomes(st)
  BY <1>13 DEF SaveOrQuit, SwapAndGo, Becomes
<1>14. CASE CleanupReceipt(h)
  <2> DEFINE st == [mem[h].st EXCEPT !.status = "blocked", !.result = "none",
                                     !.complete = FALSE]
  <2>1. Becomes(st) \/ stored' = stored
    BY <1>13, <1>14 DEF CleanupReceipt
  <2>2. Adds(h, st)
    BY <1>1 DEF Adds, States
  <2>3. QED
    BY <1>3, <2>1, <2>2
<1>15. CASE SaveCleanup(h)
  <2> DEFINE st == [mem[h].st EXCEPT !.status = Outcome(h), !.result = "none",
                                     !.complete = mem[h].whole]
  <2>1. Becomes(st)
    BY <1>13, <1>15 DEF SaveCleanup
  <2>2. Adds(h, st)
    BY <1>1, <1>15 DEF Adds, States
  <2>3. QED
    BY <1>3, <2>1, <2>2
<1>16. CASE Answer(h)
  <2> DEFINE st == [mem[h].st EXCEPT !.result = Outcome(h)]
  <2>1. Becomes(st) \/ stored' = stored
    BY <1>13, <1>16 DEF Answer
  <2>2. Adds(h, st)
    BY <1>1, <1>16 DEF Adds, States, Answer
  <2>3. QED
    BY <1>3, <2>1, <2>2
<1>17. QED
  BY <1>4, <1>5, <1>6, <1>7, <1>8, <1>9, <1>10, <1>11, <1>12, <1>14, <1>15, <1>16 DEF OnCopy

\* A cleanup adds the resource that it has tried, when that is gone.
Cleans(h, k, ok) ==
    /\ Turn(h, k) /\ Undoing(h)
    /\ stored' = [stored EXCEPT !.cleaned = IF ok THEN @ \union {k} ELSE @]
    /\ k = "workspace" /\ ok => CleanWorkspace(h) /\ dir = W!NoDir

\* Every cleanup that is saved adds so.
LEMMA CleanCleans ==
    ASSUME OperationInv, NEW h \in Handlers, stored' # stored, ~mem[h].stale,
           mem[h].st = stored,
           CleanApplication(h) \/ CleanWorkspace(h) \/ CleanHomes(h) \/ CleanPorts(h)
    PROVE  \E k \in KindSet, ok \in BOOLEAN : Cleans(h, k, ok)
<1>1. ASSUME NEW k \in KindSet, NEW ok \in BOOLEAN, Tried(h, k, ok)
      PROVE  stored' = [stored EXCEPT !.cleaned = IF ok THEN @ \union {k} ELSE @]
  BY <1>1 DEF Tried
<1>2. CASE CleanApplication(h)
  <2>1. PICK ok \in BOOLEAN : Turn(h, "application") /\ Tried(h, "application", ok)
    BY <1>2 DEF CleanApplication
  <2>2. Cleans(h, "application", ok)
    BY <1>1, <1>2, <2>1, Kind4 DEF CleanApplication, Cleans
  <2>3. QED
    BY <2>2, Kind4
<1>3. CASE CleanWorkspace(h)
  <2>1. /\ reservation.cleaned \in BOOLEAN
        /\ reservation.cleaned \/ swept => dir = W!NoDir
    BY DEF OperationInv, W!WorkspaceInv, W!WorkspaceTypeOK, W!WorkspaceSound, W!SweptIsGone,
           W!Working
  <2>2. PICK ok \in BOOLEAN : /\ Turn(h, "workspace") /\ Tried(h, "workspace", ok)
                              /\ ok => dir = W!NoDir
    BY <1>3, <2>1 DEF CleanWorkspace, W!RecordSwept
  <2>3. Cleans(h, "workspace", ok)
    BY <1>1, <1>3, <2>2, Kind4 DEF CleanWorkspace, Cleans
  <2>4. QED
    BY <2>3, Kind4
<1>4. CASE CleanHomes(h)
  <2>1. PICK ok \in BOOLEAN : Turn(h, "homes") /\ Tried(h, "homes", ok)
    BY <1>4 DEF CleanHomes
  <2>2. Cleans(h, "homes", ok)
    BY <1>1, <1>4, <2>1, Kind4 DEF CleanHomes, Cleans
  <2>3. QED
    BY <2>2, Kind4
<1>5. CASE CleanPorts(h)
  <2>1. Turn(h, "ports") /\ Tried(h, "ports", TRUE)
    BY <1>5 DEF CleanPorts
  <2>2. Cleans(h, "ports", TRUE)
    BY <1>1, <1>5, <2>1, Kind4 DEF CleanPorts, Cleans
  <2>3. QED
    BY <2>2, Kind4
<1>6. QED
  BY <1>2, <1>3, <1>4, <1>5

\* Every save is one or the other, of a handler whose copy is the stored state.
LEMMA StoredSteps ==
    ASSUME OperationInv, [Next]_vars, stored' # stored
    PROVE  \E h \in Handlers :
              /\ mem[h].pc # "idle" /\ ~mem[h].stale /\ mem[h].st = stored
              /\ \/ OnCopy(h) /\ Adds(h, stored')
                 \/ \E k \in KindSet, ok \in BOOLEAN : Cleans(h, k, ok)
<1>1. ASSUME NEW h \in Handlers, Moves(h)
      PROVE  mem[h].pc # "idle" /\ ~mem[h].stale /\ mem[h].st = stored
  <2>1. mem[h].pc # "idle" /\ ~mem[h].stale
    BY <1>1 DEF Moves, Saved, Unsaved
  <2>2. QED
    BY <2>1 DEF OperationInv, FreshCopies, At
<1>2. CASE Local
  <2>1. PICK h \in Handlers : OnCopy(h)
    BY <1>2 DEF Local, Begins, BeginStart, RepeatStart, BeginBrowser, BeginEnd, Begin, Expire, AskEnd,
         vars, opVars
  <2>2. QED
    BY <1>1, <2>1, OnCopyMoves, OnCopyAdds
<1>3. CASE Effectful
  <2>1. PICK h \in Handlers :
           CleanApplication(h) \/ CleanWorkspace(h) \/ CleanHomes(h) \/ CleanPorts(h)
    BY <1>3 DEF Effectful, ClaimStep, CheckoutStep, StartStep, Crash, Supervise, ProcessFault,
         ElsewhereToo
  <2>2. mem[h].pc # "idle" /\ ~mem[h].stale /\ mem[h].st = stored
    BY <1>1, <2>1, CleanMoves
  <2>3. QED
    BY <2>1, <2>2, CleanCleans
<1>4. QED
  BY <1>2, <1>3, AllSteps

\* Where a handler is after it has saved its copy, or given up.
LEMMA PcAfter ==
    ASSUME mem \in [Handlers -> Copies], NEW h \in Handlers, NEW st, NEW pc,
           \/ Throws(h, st) \/ SwapAndGo(h, st, pc) \/ Save(h, st, pc) \/ SaveAndThrow(h, st)
           \/ Undo(h, st) \/ To(h, pc) \/ Quit(h)
    PROVE  mem'[h].pc \in {pc, "undo", "idle"}
<1>1. mem[h] \in Copies /\ Idle.pc = "idle"
  BY DEF Idle
<1>2. CASE mem' = [mem EXCEPT ![h] = [@ EXCEPT !.pc = "undo", !.st = st]]
  BY <1>1, <1>2 DEF Copies
<1>3. CASE Quit(h)
  BY <1>1, <1>3 DEF Quit
<1>4. CASE To(h, pc)
  BY <1>1, <1>4 DEF To, Copies
<1>5. ASSUME NEW to, SwapAndGo(h, st, to)
      PROVE  mem'[h].pc \in {to, "idle"}
  <2>1. mem'[h] \in {Idle, [mem[h] EXCEPT !.st = st, !.pc = to]}
    BY <1>5 DEF SwapAndGo
  <2>2. QED
    BY <1>1, <2>1 DEF Copies
<1>6. CASE Throws(h, st) \/ Undo(h, st)
  BY <1>2, <1>3, <1>6 DEF Throws, Undo
<1>7. QED
  BY <1>3, <1>4, <1>5, <1>6 DEF Save, SaveAndThrow

\* A handler comes to call the checkout before the deadline only.
LEMMA OnCopyCalls ==
    ASSUME OperationInv, NEW h \in Handlers, OnCopy(h), mem'[h].pc = "checkout called", late
    PROVE  FALSE
<1>1. mem \in [Handlers -> Copies]
  BY CopyFacts
<1>2. ASSUME NEW st, NEW pc, pc # "checkout called",
             \/ Throws(h, st) \/ SwapAndGo(h, st, pc) \/ Save(h, st, pc)
             \/ SaveAndThrow(h, st) \/ Undo(h, st) \/ Quit(h)
      PROVE  FALSE
  BY <1>1, <1>2, PcAfter
<1>3. ~Quit(h) /\ \A st : AfterCheckout(h, st) # "checkout called"
  <2>1. ASSUME Quit(h) PROVE FALSE
    <3>1. mem'[h] = Idle
      BY <1>1, <2>1, QuitFacts
    <3>2. mem'[h].pc = "idle"
      BY <3>1 DEF Idle
    <3>3. QED
      BY <3>2
  <2>2. QED
    BY <2>1 DEF AfterCheckout, Provision
<1>4. CASE SaveClaim(h) \/ Call(h) \/ Expired(h) \/ SaveHomes(h)
  BY <1>2, <1>4 DEF SaveClaim, Call, Expired, SaveHomes
<1>5. CASE SaveCheckout(h) \/ PhaseFails(h) \/ SaveApplication(h)
  BY <1>2, <1>3, <1>5 DEF SaveCheckout, PhaseFails, SaveApplication
<1>6. CASE WaitReady(h) \/ Attempt(h) \/ SavePending(h) \/ SaveBrowser(h) \/ RefuseBrowser(h)
  BY <1>2, <1>6 DEF WaitReady, Attempt, SavePending, SaveBrowser, RefuseBrowser
<1>7. CASE PublishReady(h)
  BY <1>2, <1>7 DEF PublishReady
<1>8. CASE CleanupReceipt(h)
  <2>1. ASSUME To(h, "receipt") PROVE FALSE
    <3>1. mem'[h].pc = "receipt"
      BY <1>1, <2>1 DEF To, Copies
    <3>2. QED
      BY <3>1
  <2>2. \E st : SaveOrQuit(h, st, "idle")
    BY <1>8, <2>1 DEF CleanupReceipt
  <2>3. \E st : SwapAndGo(h, st, "idle")
    BY <1>3, <2>2 DEF SaveOrQuit
  <2>4. QED
    BY <1>2, <2>3
<1>9. CASE SaveCleanup(h)
  BY <1>2, <1>3, <1>9 DEF SaveCleanup, SaveOrQuit
<1>10. CASE Answer(h)
  BY <1>2, <1>3, <1>10 DEF Answer, SaveOrQuit
<1>11. QED
  BY <1>4, <1>5, <1>6, <1>7, <1>8, <1>9, <1>10 DEF OnCopy

\* After a checkout that passed there is a workspace.
LEMMA PastCheckout ==
    ASSUME OperationInv, NEW h \in Handlers,
           mem[h].pc \in {"application", "application called", "readiness", "attempt",
                          "browser", "pending", "ready"}
    PROVE  reservation.state # "none"
<1>1. "checkout" \in mem[h].st.done
  BY CopyFacts, ReachedFits DEF Fits, Known
<1>2. checkedOut = "passed"
  BY <1>1, CopyFacts DEF Known
<1>3. QED
  BY <1>2 DEF OperationInv, ReservedFirst

\* Before it a handler comes to clean up with a fresh copy after the deadline only.
LEMMA OnCopyUndoes ==
    ASSUME OperationInv, NEW h \in Handlers, OnCopy(h), reservation.state = "none",
           mem'[h].pc \in Undoes, mem[h].pc \notin Undoes, ~mem[h].stale
    PROVE  Expired(h)
<1>1. mem \in [Handlers -> Copies] /\ Idle.pc = "idle"
  BY CopyFacts DEF Idle
<1>2. mem[h].pc \notin {"application", "application called", "readiness", "attempt",
                        "browser", "pending", "ready", "undo", "receipt", "answer"}
  BY PastCheckout DEF Undoes
<1>3. ~PhaseFails(h) /\ ~SaveApplication(h) /\ ~WaitReady(h) /\ ~Attempt(h) /\ ~SavePending(h)
  BY <1>2 DEF PhaseFails, SaveApplication, WaitReady, Attempt, SavePending, At
<1>4. /\ ~SaveBrowser(h) /\ ~RefuseBrowser(h) /\ ~PublishReady(h) /\ ~CleanupReceipt(h)
      /\ ~SaveCleanup(h) /\ ~Answer(h)
  BY <1>2 DEF SaveBrowser, RefuseBrowser, PublishReady, CleanupReceipt, SaveCleanup, Answer, At
<1>5. ~SaveCheckout(h)
  BY DEF SaveCheckout, OperationInv, ReservedFirst
<1>6. ASSUME NEW st, NEW pc, pc \in Points \ Undoes, Save(h, st, pc)
      PROVE  FALSE
  <2>1. SwapAndGo(h, st, pc)
    BY <1>6 DEF Save
  <2>2. mem'[h] \in {Idle, [mem[h] EXCEPT !.st = st, !.pc = pc]}
    BY <2>1 DEF SwapAndGo
  <2>3. mem'[h].pc \in {"idle", pc}
    BY <1>1, <2>2 DEF Copies
  <2>4. QED
    BY <1>6, <2>3 DEF Undoes
<1>7. ~SaveClaim(h) /\ ~SaveHomes(h)
  <2>1. {"checkout", "homes"} \subseteq Points \ Undoes
    BY DEF Points, Undoes
  <2>2. \A st : ~Save(h, st, "checkout") /\ ~Save(h, st, "homes")
    BY <1>6, <2>1
  <2>3. QED
    BY <2>2 DEF SaveClaim, SaveHomes
<1>8. ASSUME NEW pc, pc \in Points \ Undoes, To(h, pc)
      PROVE  FALSE
  <2>1. mem'[h].pc = pc
    BY <1>1, <1>8 DEF To, Copies
  <2>2. QED
    BY <1>8, <2>1
<1>9. ~Call(h)
  BY <1>8 DEF Call, Points, Undoes
<1>10. QED
  BY <1>3, <1>4, <1>5, <1>7, <1>9 DEF OnCopy

\* So does every other step.
LEMMA UndoesInTime ==
    ASSUME OperationInv, [Next]_vars, NEW h \in Handlers, mem'[h].pc \in Undoes,
           ~mem'[h].stale, reservation'.state = "none"
    PROVE  \/ mem[h].pc \in Undoes /\ ~mem[h].stale
           \/ stored.result = "blocked"
           \/ Expired(h)
<1> SUFFICES ASSUME ~(mem[h].pc \in Undoes /\ ~mem[h].stale), stored.result # "blocked"
             PROVE  Expired(h)
  OBVIOUS
<1>1. reservation.state = "none" /\ checkedOut' = "none"
  BY Unreserved
<1>2. ~UNCHANGED <<stored, mem>>
  OBVIOUS
<1>3. ASSUME NEW g \in Handlers \ {h}, Moves(g) \/ Starts(g) PROVE FALSE
  BY <1>3, OthersSame DEF Same
<1>4. ~Starts(h)
  BY DEF Starts, Undoes
<1>5. Moves(h) => mem[h].pc \notin Undoes /\ ~mem[h].stale
  <2>1. mem'[h] # Idle
    BY DEF Idle, Undoes
  <2>2. QED
    BY <2>1 DEF Moves
<1>6. CASE Local
  <2>1. Expire \/ AskEnd \/ UNCHANGED vars => UNCHANGED <<stored, mem>>
    BY DEF Expire, AskEnd, vars, opVars
  <2>2. OnCopy(h)
    BY <1>2, <1>3, <1>4, <1>6, <2>1, OnCopyMoves, BeginsAreStarts DEF Local
  <2>3. QED
    BY <1>1, <1>5, <2>2, OnCopyMoves, OnCopyUndoes
<1>7. CASE Effectful
  <2>1. ~Supervise /\ ~ProcessFault
    BY <1>2 DEF Supervise, ProcessFault, ElsewhereToo
  <2>2. \/ ClaimStep(h) \/ CheckoutStep(h) \/ StartStep(h) \/ Crash(h)
        \/ CleanApplication(h) \/ CleanWorkspace(h) \/ CleanHomes(h) \/ CleanPorts(h)
    BY <1>2, <1>3, <1>7, <2>1, PartMoves, CleanMoves DEF Effectful
  <2>3. mem[h].pc \notin Undoes
    BY <1>2, <1>5, <2>2, PartMoves, CleanMoves
  <2>4. ~CleanApplication(h) /\ ~CleanWorkspace(h) /\ ~CleanHomes(h) /\ ~CleanPorts(h)
    BY <2>3, TurnFacts
       DEF CleanApplication, CleanWorkspace, CleanHomes, CleanPorts, At, Undoes
  <2>5. ~Quit(h)
    <3>1. ASSUME Quit(h) PROVE FALSE
      <4>1. mem'[h] = Idle
        BY <3>1, CopyFacts, QuitFacts
      <4>2. mem'[h].pc = "idle"
        BY <4>1 DEF Idle
      <4>3. QED
        BY <4>2 DEF Undoes
    <3>2. QED
      BY <3>1
  <2>6. ~ClaimStep(h) /\ ~Crash(h)
    BY <1>2, <2>5 DEF ClaimStep, Crash
  <2>7. ~StartStep(h)
    BY <1>1, PastCheckout DEF StartStep, At
  <2>8. ASSUME CheckoutStep(h) PROVE FALSE
    <3>1. W!Checkout(h) /\ checker = h /\ checker' # h
      BY <1>2, <2>8 DEF CheckoutStep
    <3>2. step \in {"none", "look"}
      BY <1>1 DEF OperationInv, ReservedFirst
    <3>3. QED
      BY <1>1, <3>1, <3>2
         DEF W!Checkout, W!BeginCheckout, W!ReserveWorkspace, W!ResumeWorkspace,
             W!RefuseWorkspace, W!RemoveOld, W!ProveOld, W!Allocate, W!Persist, W!Retire,
             W!Clone, W!Verdict, W!RecordCheckout, W!Checking, W!Then, W!Stranded,
             W!Resumable
  <2>9. QED
    BY <2>2, <2>4, <2>6, <2>7, <2>8
<1>8. QED
  BY <1>6, <1>7, AllSteps

\* A deadline that has passed stays so.
LEMMA LateStays ==
    ASSUME [Next]_vars, late
    PROVE  late'
<1>1. CASE \E h \in Handlers : OnCopy(h)
  BY <1>1, OnCopyIsLocal DEF World
<1>2. CASE Begins \/ Expire \/ AskEnd \/ UNCHANGED vars \/ Effectful
  BY <1>2 DEF Begins, BeginStart, RepeatStart, BeginBrowser, BeginEnd, Begin, Expire, AskEnd, vars, opVars,
       Effectful, ClaimStep, CheckoutStep, StartStep, Crash, CleanApplication,
       CleanWorkspace, CleanHomes, CleanPorts, Supervise, ProcessFault, ElsewhereToo,
       Outside, World, Beginning, Undoing
<1>3. QED
  BY <1>1, <1>2, AllSteps DEF Local

\* Who reserves the workspace or writes the claim with a stale copy is blind.
LEMMA BeginsBlindly ==
    ASSUME OperationInv, NEW h \in Handlers, Beginning(h), mem[h].stale,
           \/ reservation.state = "none" /\ reservation'.state # "none"
           \/ claim = "none" /\ claim' # "none"
    PROVE  past'.blind
<1>1. Begun' # Begun
  <2>1. \/ "workspace" \in Begun' /\ "workspace" \notin Begun
        \/ "application" \in Begun' /\ "application" \notin Begun
    BY DEF Begun
  <2>2. QED
    BY <2>1
<1>2. QED
  BY <1>1 DEF Beginning, OperationInv, OperationTypeOK

\* When no workspace can be reserved any more, none can after another step.
LEMMA NoCheckoutStays ==
    ASSUME OperationInv, [Next]_vars, NoCheckout, ~past'.blind
    PROVE  NoCheckout'
<1>1. late'
  BY LateStays DEF NoCheckout
<1>2. reservation'.state = "none"
  <2>1. CASE UNCHANGED workspaceVars
    BY <2>1 DEF workspaceVars, NoCheckout
  <2>2. ASSUME NEW h \in Handlers, CheckoutStep(h)
        PROVE  reservation'.state = "none"
    <3>1. mem[h].stale /\ Beginning(h)
      BY <2>2 DEF CheckoutStep, NoCheckout, At
    <3>2. QED
      BY <3>1, BeginsBlindly DEF NoCheckout
  <2>3. ASSUME NEW h \in Handlers, W!SweepWorkspace \/ W!RecordSwept \/ W!CrashWorkspace(h)
        PROVE  reservation'.state = "none"
    BY <2>3 DEF NoCheckout, W!SweepWorkspace, W!RecordSwept, W!CrashWorkspace, OperationInv,
         W!WorkspaceInv, W!WorkspaceTypeOK
  <2>4. QED
    BY <2>1, <2>2, <2>3, WorkspaceSteps
<1>3. ASSUME NEW h \in Handlers, mem'[h].pc = "checkout called"
      PROVE  mem'[h].stale
  <2>1. mem[h].pc = "checkout called" => mem[h].stale
    BY DEF NoCheckout, At
  <2>2. mem'[h] # Idle
    <3>1. Idle.pc = "idle"
      BY DEF Idle
    <3>2. QED
      BY <1>3, <3>1
  <2>3. CASE mem[h].pc = "checkout called"
    <3>1. ASSUME NEW g \in Handlers, Moves(g) \/ Starts(g)
          PROVE  mem'[h].stale
      <4>1. CASE g = h
        BY <2>1, <2>2, <2>3, <3>1, <4>1 DEF Moves, Starts
      <4>2. CASE g # h
        BY <2>1, <2>3, <3>1, <4>2, OthersSame DEF Same
      <4>3. QED
        BY <4>1, <4>2
    <3>2. QED
      BY <2>1, <2>3, <3>1, StepKinds
  <2>4. CASE mem[h].pc # "checkout called"
    <3>1. ~UNCHANGED <<stored, mem>>
      BY <1>3, <2>4
    <3>2. ASSUME NEW g \in Handlers \ {h}, Moves(g) \/ Starts(g) PROVE FALSE
      BY <1>3, <2>4, <3>2, OthersSame DEF Same
    <3>3. ~Starts(h)
      BY <1>3 DEF Starts
    <3>4. CASE Local
      <4>1. Expire \/ AskEnd \/ UNCHANGED vars => UNCHANGED <<stored, mem>>
        BY DEF Expire, AskEnd, vars, opVars
      <4>2. OnCopy(h)
        BY <3>1, <3>2, <3>3, <3>4, <4>1, OnCopyMoves, BeginsAreStarts DEF Local
      <4>3. QED
        BY <1>3, <4>2, OnCopyCalls DEF NoCheckout
    <3>5. CASE Effectful
      <4>1. ~Supervise /\ ~ProcessFault
        BY <3>1 DEF Supervise, ProcessFault, ElsewhereToo
      <4>2. \/ ClaimStep(h) \/ CheckoutStep(h) \/ StartStep(h) \/ Crash(h)
            \/ CleanApplication(h) \/ CleanWorkspace(h) \/ CleanHomes(h) \/ CleanPorts(h)
        BY <3>1, <3>2, <3>5, <4>1, PartMoves, CleanMoves DEF Effectful
      <4>3. ASSUME ClaimStep(h) \/ CheckoutStep(h) \/ StartStep(h) \/ Crash(h)
            PROVE  FALSE
        <5>1. Quit(h) \/ Throws(h, mem[h].st)
          BY <3>1, <4>3 DEF ClaimStep, CheckoutStep, StartStep, Crash
        <5>2. mem'[h].pc \in {"undo", "idle"}
          <6>1. mem \in [Handlers -> Copies]
            BY CopyFacts
          <6>2. mem'[h].pc \in {"undo", "undo", "idle"}
            BY <5>1, <6>1, PcAfter
          <6>3. QED
            BY <6>2
        <5>3. QED
          BY <1>3, <5>2
      <4>4. ASSUME NEW k \in KindSet, NEW ok \in BOOLEAN, Turn(h, k), Tried(h, k, ok)
            PROVE  FALSE
        <5>1. mem'[h].pc = mem[h].pc
          BY <4>4, CopyFacts DEF Tried, Copies
        <5>2. QED
          BY <1>3, <2>4, <5>1
      <4>5. \E k \in KindSet, ok \in BOOLEAN : Turn(h, k) /\ Tried(h, k, ok)
        <5>1. reservation.cleaned \in BOOLEAN
          BY DEF OperationInv, W!WorkspaceInv, W!WorkspaceTypeOK
        <5>2. QED
          BY <3>1, <4>2, <4>3, <5>1, Kind4
             DEF CleanApplication, CleanWorkspace, CleanHomes, CleanPorts
      <4>6. QED
        BY <4>4, <4>5
    <3>6. QED
      BY <3>4, <3>5, AllSteps
  <2>5. QED
    BY <2>3, <2>4
<1>4. QED
  BY <1>1, <1>2, <1>3 DEF NoCheckout, At

\* A claim is written by who launches; a launch is begun in a workspace only.
LEMMA StartBegins ==
    ASSUME OperationInv, NEW h \in Handlers, StartStep(h), dir = W!NoDir
    PROVE  launch.by = h
BY DEF StartStep, Workspace

\* Nor is a process launched when none can be.
LEMMA NoLaunchingStays ==
    ASSUME OperationInv, [Next]_vars, NoLaunching, dir = W!NoDir, ~past'.blind
    PROVE  NoLaunching'
<1>1. A!ProcessInv /\ claim = "none" /\ supervisor = "none" /\ target = "none"
  BY DEF OperationInv, A!ProcessInv, A!OneSupervisor, NoLaunching
<1>2. ASSUME NEW h \in Handlers, StartStep(h)
      PROVE  launch.by = h /\ claim' = "none"
  <2>1. launch.by = h /\ mem[h].stale /\ Beginning(h)
    BY <1>2, StartBegins DEF NoLaunching, StartStep
  <2>2. QED
    BY <1>1, <2>1, BeginsBlindly
<1>3. claim' = "none"
  <2>1. ASSUME NEW h \in Handlers,
               \/ A!CleanProcess(h) \/ A!CrashLauncher(h) \/ HomesGo
               \/ UNCHANGED processVars
        PROVE  claim' = "none"
    BY <1>1, <2>1 DEF A!CleanProcess, A!RunCleanup, A!ThrowCleanup, A!SpareGroup, A!StopGroup, A!ReleaseProcessHome,
         A!RecordCleanup, A!Unswept, A!CrashLauncher, HomesGo, processVars
  <2>2. ~A!Supervise /\ ~A!ProcessFaults
    BY <1>1 DEF A!Supervise, A!CheckClaim, A!Register, A!SpawnTarget, A!ReportRunning,
         A!ReportExit, A!ProcessFaults, A!TargetExits, A!SupervisorDies
  <2>3. "start" \in Handlers
    BY DEF Handlers
  <2>4. QED
    BY <1>2, <2>1, <2>2, <2>3, ProcessSteps
<1>4. ASSUME NEW g \in Handlers, launch'.by = g
      PROVE  mem'[g].stale
  <2>1. launch.by = g
    <3>1. CASE \E h \in Handlers : StartStep(h)
      <4>1. PICK h \in Handlers : StartStep(h)
        BY <3>1
      <4>2. launch.by = h /\ launch'.by \in {h, launch.by, Nobody} /\ g # Nobody
        BY <1>1, <1>2, <4>1, StartLaunches DEF StartStep, Handlers, Nobody
      <4>3. QED
        BY <1>4, <4>2
    <3>2. CASE ~\E h \in Handlers : StartStep(h)
      <4>1. launch' = launch \/ launch' = A!NoLaunch
        BY <3>2, ProcessSteps
           DEF processVars, HomesGo, A!CleanProcess, A!RunCleanup, A!ThrowCleanup, A!SpareGroup, A!StopGroup,
               A!ReleaseProcessHome, A!RecordCleanup, A!Unswept, A!CrashLauncher,
               A!Supervise, A!CheckClaim, A!Register, A!SpawnTarget, A!ReportRunning,
               A!ReportExit, A!ProcessFaults, A!TargetExits, A!SupervisorDies, A!Elsewhere
      <4>2. QED
        BY <1>4, <4>1 DEF A!NoLaunch, Handlers, Nobody
    <3>3. QED
      BY <3>1, <3>2
  <2>2. mem[g].stale /\ mem[g].pc = "application called"
    BY <2>1 DEF NoLaunching, OperationInv, LaunchKnown, At
  <2>3. mem'[g].pc = "application called"
    BY <1>4, LaunchesKept
  <2>4. mem'[g] # Idle
    <3>1. Idle.pc = "idle"
      BY DEF Idle
    <3>2. QED
      BY <2>3, <3>1
  <2>5. ASSUME NEW h \in Handlers, Moves(h) \/ Starts(h)
        PROVE  mem'[g].stale
    <3>1. CASE h = g
      BY <2>2, <2>4, <2>5, <3>1 DEF Moves, Starts
    <3>2. CASE h # g
      BY <2>2, <2>5, <3>2, OthersSame DEF Same
    <3>3. QED
      BY <3>1, <3>2
  <2>6. QED
    BY <2>2, <2>5, StepKinds
<1>5. QED
  BY <1>3, <1>4 DEF NoLaunching

\* A handler that cleans up with the stored state, before a workspace is reserved,
\* or with the process unclaimed: nothing of it will begin any more.
LEMMA NoneLaunches ==
    ASSUME OperationInv, NEW h \in Handlers, At(h, "undo"), ~mem[h].stale, claim = "none"
    PROVE  NoLaunching
<1>1. ASSUME NEW g \in Handlers, launch.by = g
      PROVE  mem[g].stale
  <2>1. mem[g].pc = "application called"
    BY <1>1 DEF OperationInv, LaunchKnown, At
  <2>2. g # h
    BY <2>1 DEF At
  <2>3. mem[g].pc \notin {"idle", "claim"} \union Undoes /\ mem[h].pc \notin {"idle", "claim"}
    BY <2>1 DEF At, Undoes
  <2>4. QED
    BY <2>2, <2>3 DEF OperationInv, FreshCopies
<1>2. QED
  BY <1>1 DEF NoLaunching

\* The parts of CleanedInTime.
UndoneInTime ==
    /\ reservation.state = "none"
    /\ stored.result = "blocked" \/ \E h \in Handlers : mem[h].pc \in Undoes /\ ~mem[h].stale
    => NoCheckout
WorkspaceInTime == stored.cleaned # {} /\ "workspace" \notin stored.resources => NoCheckout
ProcessInTime ==
    "workspace" \in stored.cleaned /\ "application" \notin stored.resources => NoLaunching
CompleteInTime ==
    stored.complete =>
        /\ portFiles = "cleaned"
        /\ reservation.cleaned \/ NoCheckout
        /\ processFiles = "cleaned" \/ NoLaunching

\* They are its parts.
LEMMA InTime ==
    /\ CleanedInTime <=> \/ past.blind
                         \/ UndoneInTime /\ WorkspaceInTime /\ ProcessInTime /\ CompleteInTime
    /\ CleanedInTime' <=> \/ past'.blind
                          \/ /\ UndoneInTime' /\ WorkspaceInTime' /\ ProcessInTime'
                             /\ CompleteInTime'
BY DEF CleanedInTime, UndoneInTime, WorkspaceInTime, ProcessInTime, CompleteInTime

\* Who cleans up with nothing reserved does so after the deadline.
LEMMA UndoneInTimeKept ==
    ASSUME OperationInv, [Next]_vars, ~past'.blind, UndoneInTime
    PROVE  UndoneInTime'
<1> SUFFICES ASSUME reservation'.state = "none",
                    \/ stored'.result = "blocked"
                    \/ \E h \in Handlers : mem'[h].pc \in Undoes /\ ~mem'[h].stale
             PROVE  NoCheckout'
  BY DEF UndoneInTime
<1>1. reservation.state = "none"
  BY Unreserved
<1>2. CASE \/ stored.result = "blocked"
           \/ \E h \in Handlers : mem[h].pc \in Undoes /\ ~mem[h].stale
  BY <1>1, <1>2, NoCheckoutStays DEF UndoneInTime
<1>3. ASSUME stored'.result = "blocked", stored.result # "blocked"
      PROVE  \E h \in Handlers : mem[h].pc \in Undoes /\ ~mem[h].stale
  <2>1. PICK h \in Handlers :
           /\ ~mem[h].stale /\ mem[h].st = stored
           /\ \/ Adds(h, stored')
              \/ \E k \in KindSet, ok \in BOOLEAN : Cleans(h, k, ok)
    BY <1>3, StoredSteps
  <2>2. ~\E k \in KindSet, ok \in BOOLEAN : Cleans(h, k, ok)
    BY <1>3, CopyFacts DEF Cleans, States
  <2>3. mem[h].pc \in Undoes
    BY <1>3, <2>1, <2>2 DEF Adds, At, Undoes
  <2>4. QED
    BY <2>1, <2>3
<1>4. ASSUME NEW h \in Handlers, Expired(h), ~mem[h].stale
      PROVE  NoCheckout'
  <2>1. late /\ mem[h].pc \in {"homes", "checkout", "application", "readiness", "attempt"}
    BY <1>4 DEF Expired
  <2>2. ASSUME NEW g \in Handlers, At(g, "checkout called")
        PROVE  mem[g].stale
    <3>1. g # h
      BY <2>1, <2>2 DEF At
    <3>2. /\ mem[g].pc \notin {"idle", "claim"} \union Undoes
          /\ mem[h].pc \notin {"idle", "claim"}
      BY <2>1, <2>2 DEF At, Undoes
    <3>3. QED
      BY <1>4, <3>1, <3>2 DEF OperationInv, FreshCopies
  <2>3. NoCheckout
    BY <1>1, <2>1, <2>2 DEF NoCheckout
  <2>4. QED
    BY <2>3, NoCheckoutStays
<1>5. ASSUME NEW h \in Handlers, mem'[h].pc \in Undoes, ~mem'[h].stale, Expired(h),
             mem[h].stale
      PROVE  FALSE
  <2>1. mem'[h] # Idle
    <3>1. Idle.pc = "idle"
      BY DEF Idle
    <3>2. QED
      BY <1>5, <3>1 DEF Undoes
  <2>2. Moves(h)
    BY <1>5, OnCopyMoves DEF OnCopy
  <2>3. QED
    BY <1>5, <2>1, <2>2 DEF Moves
<1>6. QED
  BY <1>2, <1>3, <1>4, <1>5, UndoesInTime

\* A cleanup that is not blind: what its copy does not name has not begun.
LEMMA NotBlind ==
    ASSUME NEW h \in Handlers, Undoing(h), ~past'.blind
    PROVE  /\ "workspace" \notin mem[h].st.resources => reservation.state = "none"
           /\ "application" \notin mem[h].st.resources => claim = "none"
BY DEF Undoing, Begun

\* A state that is cleaned without a workspace gets none.
LEMMA WorkspaceInTimeKept ==
    ASSUME OperationInv, [Next]_vars, ~past'.blind, UndoneInTime, WorkspaceInTime
    PROVE  WorkspaceInTime'
<1> SUFFICES ASSUME stored'.cleaned # {}, "workspace" \notin stored'.resources
             PROVE  NoCheckout'
  BY DEF WorkspaceInTime
<1>1. CASE stored.cleaned # {} /\ "workspace" \notin stored.resources
  BY <1>1, NoCheckoutStays DEF WorkspaceInTime
<1>2. CASE ~(stored.cleaned # {} /\ "workspace" \notin stored.resources)
  <2>1. stored' # stored
    BY <1>2
  <2>2. PICK h \in Handlers :
           /\ ~mem[h].stale /\ mem[h].st = stored
           /\ \/ Adds(h, stored')
              \/ \E k \in KindSet, ok \in BOOLEAN : Cleans(h, k, ok)
    BY <2>1, StoredSteps
  <2>3. ~Adds(h, stored')
    BY <1>2, <2>2 DEF Adds
  <2>4. PICK k \in KindSet, ok \in BOOLEAN : Cleans(h, k, ok)
    BY <2>2, <2>3
  <2>5. "workspace" \notin stored.resources
    BY <2>4, CopyFacts DEF Cleans, States
  <2>6. reservation.state = "none"
    BY <2>2, <2>4, <2>5, NotBlind DEF Cleans
  <2>7. mem[h].pc \in Undoes
    BY <2>4, TurnFacts DEF Cleans, At, Undoes
  <2>8. NoCheckout
    BY <2>2, <2>6, <2>7 DEF UndoneInTime
  <2>9. QED
    BY <2>8, NoCheckoutStays
<1>3. QED
  BY <1>1, <1>2

\* A state whose workspace is gone before a process was named gets none.
LEMMA ProcessInTimeKept ==
    ASSUME OperationInv, [Next]_vars, ~past'.blind, ProcessInTime
    PROVE  ProcessInTime'
<1> SUFFICES ASSUME "workspace" \in stored'.cleaned, "application" \notin stored'.resources
             PROVE  NoLaunching'
  BY DEF ProcessInTime
<1>1. CASE "workspace" \in stored.cleaned /\ "application" \notin stored.resources
  <2>1. dir = W!NoDir
    BY <1>1, CopyFacts
       DEF Known, OperationInv, W!WorkspaceInv, W!WorkspaceSound, W!SweptIsGone, Handlers
  <2>2. QED
    BY <1>1, <2>1, NoLaunchingStays DEF ProcessInTime
<1>2. CASE ~("workspace" \in stored.cleaned /\ "application" \notin stored.resources)
  <2>1. stored' # stored
    BY <1>2
  <2>2. PICK h \in Handlers :
           /\ ~mem[h].stale /\ mem[h].st = stored
           /\ \/ Adds(h, stored')
              \/ \E k \in KindSet, ok \in BOOLEAN : Cleans(h, k, ok)
    BY <2>1, StoredSteps
  <2>3. ~Adds(h, stored')
    BY <1>2, <2>2 DEF Adds
  <2>4. PICK k \in KindSet, ok \in BOOLEAN : Cleans(h, k, ok)
    BY <2>2, <2>3
  <2>5. "application" \notin stored.resources /\ "workspace" \notin stored.cleaned
    BY <1>2, <2>4, CopyFacts DEF Cleans, States
  <2>6. k = "workspace" /\ ok
    BY <2>4, <2>5, CopyFacts DEF Cleans, States
  <2>7. dir = W!NoDir
    BY <2>4, <2>6 DEF Cleans
  <2>8. claim = "none" /\ At(h, "undo")
    BY <2>2, <2>4, <2>5, NotBlind, TurnFacts DEF Cleans
  <2>9. NoLaunching
    BY <2>2, <2>8, NoneLaunches
  <2>10. QED
    BY <2>7, <2>9, NoLaunchingStays
<1>3. QED
  BY <1>1, <1>2

\* Without a workspace that can be reserved there is no process.
LEMMA UnreservedIsUnlaunched ==
    ASSUME OperationInv, NoCheckout
    PROVE  NoLaunching /\ dir = W!NoDir
<1>1. claim = "none" /\ launch = A!NoLaunch /\ dir = W!NoDir
  BY DEF OperationInv, ReservedFirst, NoCheckout
<1>2. \A h \in Handlers : launch.by # h
  BY <1>1 DEF A!NoLaunch, Handlers, Nobody
<1>3. QED
  BY <1>1, <1>2 DEF NoLaunching

\* A complete cleanup has gone over everything that is there.
LEMMA CompleteInTimeKept ==
    ASSUME OperationInv, [Next]_vars, ~past'.blind,
           WorkspaceInTime, ProcessInTime, CompleteInTime
    PROVE  CompleteInTime'
<1> SUFFICES ASSUME stored'.complete
             PROVE  /\ portFiles' = "cleaned"
                    /\ reservation'.cleaned \/ NoCheckout'
                    /\ processFiles' = "cleaned" \/ NoLaunching'
  BY DEF CompleteInTime
<1>1. ASSUME portFiles = "cleaned", reservation.cleaned \/ NoCheckout,
             processFiles = "cleaned" \/ NoLaunching
      PROVE  /\ portFiles' = "cleaned"
             /\ reservation'.cleaned \/ NoCheckout'
             /\ processFiles' = "cleaned" \/ NoLaunching'
  <2>1. dir = W!NoDir
    BY <1>1, UnreservedIsUnlaunched
       DEF OperationInv, W!WorkspaceInv, W!WorkspaceSound, W!SweptIsGone
  <2>2. QED
    BY <1>1, <2>1, PartsGrow, NoCheckoutStays, NoLaunchingStays
       DEF PortsGrow, WorkspaceGrows, ProcessGrows
<1>2. CASE stored.complete
  BY <1>1, <1>2 DEF CompleteInTime
<1>3. CASE ~stored.complete
  <2>1. stored' # stored
    BY <1>3
  <2>2. PICK h \in Handlers :
           /\ ~mem[h].stale /\ mem[h].st = stored
           /\ \/ Adds(h, stored')
              \/ \E k \in KindSet, ok \in BOOLEAN : Cleans(h, k, ok)
    BY <2>1, StoredSteps
  <2>3. ~\E k \in KindSet, ok \in BOOLEAN : Cleans(h, k, ok)
    BY <1>3, CopyFacts DEF Cleans, States
  <2>4. SaveCleanup(h) /\ mem[h].whole
    BY <1>3, <2>2, <2>3 DEF Adds
  <2>5. mem[h].pc = "receipt"
    BY <2>4 DEF SaveCleanup, At
  <2>6. "ports" \in stored.resources
    BY <2>2, <2>5, CopyFacts, ReachedFits DEF Fits
  <2>7. stored.resources \subseteq stored.cleaned
    BY <2>2, <2>4, <2>5, CopyFacts, ReachedFits
  <2>8. portFiles = "cleaned" /\ stored.cleaned # {}
    BY <2>2, <2>6, <2>7, CopyFacts DEF Known
  <2>9. reservation.cleaned \/ NoCheckout
    BY <2>2, <2>7, <2>8, CopyFacts DEF Known, WorkspaceInTime
  <2>10. processFiles = "cleaned" \/ NoLaunching
    <3>1. CASE "application" \in stored.resources
      BY <2>2, <2>7, <3>1, CopyFacts DEF Known
    <3>2. CASE "application" \notin stored.resources /\ "workspace" \in stored.resources
      BY <2>7, <3>2 DEF ProcessInTime
    <3>3. CASE "workspace" \notin stored.resources
      BY <2>8, <3>3, UnreservedIsUnlaunched DEF WorkspaceInTime
    <3>4. QED
      BY <3>1, <3>2, <3>3
  <2>11. QED
    BY <1>1, <2>8, <2>9, <2>10
<1>4. QED
  BY <1>2, <1>3

\* What is cleaned up is cleaned up in time.
LEMMA CleanedInTimeKept ==
    ASSUME OperationInv, [Next]_vars
    PROVE  CleanedInTime'
<1> SUFFICES ASSUME ~past'.blind
             PROVE  UndoneInTime' /\ WorkspaceInTime' /\ ProcessInTime' /\ CompleteInTime'
  BY InTime
<1>1. ~past.blind
  BY PastGrows
<1>2. UndoneInTime /\ WorkspaceInTime /\ ProcessInTime /\ CompleteInTime
  BY <1>1, InTime DEF OperationInv
<1>3. QED
  BY <1>2, UndoneInTimeKept, WorkspaceInTimeKept, ProcessInTimeKept, CompleteInTimeKept

-----------------------------------------------------------------------------
(* The invariant, and what follows from it.                                *)

\* The invariant holds when nothing has been done yet.
LEMMA InitInv == Init => OperationInv
<1> SUFFICES ASSUME Init PROVE OperationInv
  OBVIOUS
<1>1. P!PortInv
  BY SamePorts, PartsConstants, Parts!PortInitInv DEF Init
<1>2. W!WorkspaceInv
  BY SameWorkspace, PartsConstants, Parts!WorkspaceInitInv DEF Init
<1>3. A!ProcessInv
  BY SameProcess, PartsConstants, Parts!ProcessInitInv DEF Init
<1>4. mem \in [Handlers -> Copies] /\ \A h \in Handlers : mem[h] = Idle
  BY IdleCopy DEF Init
<1>5. OperationTypeOK
  <2>1. P!PortTypeOK /\ W!WorkspaceTypeOK /\ A!ProcessTypeOK
    BY <1>1, <1>2, <1>3 DEF P!PortInv, W!WorkspaceInv, A!ProcessInv
  <2>2. stored \in States /\ past \in [undone : BOOLEAN, blind : BOOLEAN, spared : BOOLEAN]
    BY IdleCopy DEF Init
  <2>3. /\ written = {} /\ late \in BOOLEAN /\ endAsked \in BOOLEAN /\ troubles = 0
    BY DEF Init
  <2>4. troubles \in 0 .. MaxTroubles
    BY <2>3, OperationAssumption
  <2>5. QED
    BY <1>4, <2>1, <2>2, <2>3, <2>4 DEF OperationTypeOK, Copies
<1>6. ClaimedOnce /\ ReservedFirst
  BY DEF Init, ClaimedOnce, ReservedFirst, P!PortInit, P!NoClaiming, W!WorkspaceInit,
         W!NoReservation, A!ProcessInit, A!NoLaunch
<1>7. LaunchKnown
  BY DEF Init, LaunchKnown, Published, Handed, A!ProcessInit, A!NoLaunch, A!NoSweep, Handlers,
         Nobody
<1>8. UpUntilUndone
  BY DEF Init, UpUntilUndone, P!PortInit, W!WorkspaceInit, A!ProcessInit, A!NoLaunch, A!NoSweep
<1>9. \A h \in Handlers : mem[h].pc = "idle" /\ mem[h].st = NoState /\ mem[h].tried = {}
  BY <1>4 DEF Idle
<1>10. HomeKept
  <2>1. /\ target = "none" /\ supervisor = "none" /\ claim = "none" /\ launch.pc = "none"
        /\ ~past.spared /\ \A h \in Handlers : mem[h].tried = {}
    BY <1>9 DEF Init, A!ProcessInit, A!NoLaunch
  <2>2. ~Live
    BY <2>1 DEF Live
  <2>3. QED
    BY <2>1, <2>2 DEF HomeKept
<1>11. Known(stored) /\ \A h \in Handlers : Known(mem[h].st) /\ Reached(h)
  <2>1. Known(NoState)
    BY DEF Known, NoState
  <2>2. stored = NoState /\ \A h \in Handlers : mem[h].st = NoState
    BY <1>9 DEF Init
  <2>3. ASSUME NEW h \in Handlers PROVE Reached(h)
    <3>1. mem[h].st.result = "none"
      BY <1>9 DEF NoState
    <3>2. QED
      BY <1>9, <3>1 DEF Reached, At, Undoes
  <2>4. QED
    BY <2>1, <2>2, <2>3
<1>12. FreshCopies
  BY <1>9 DEF FreshCopies, At
<1>13. CleanedInTime
  <2>1. /\ stored.result = "none" /\ stored.cleaned = {} /\ ~stored.complete
        /\ \A h \in Handlers : mem[h].pc \notin Undoes
    BY <1>9 DEF Init, NoState, Undoes
  <2>2. QED
    BY <2>1 DEF CleanedInTime
<1>14. QED
  BY <1>1, <1>2, <1>3, <1>5, <1>6, <1>7, <1>8, <1>10, <1>11, <1>12, <1>13 DEF OperationInv

\* Every step keeps it.
LEMMA StepInv == OperationInv /\ [Next]_vars => OperationInv'
<1> SUFFICES ASSUME OperationInv, [Next]_vars PROVE OperationInv'
  OBVIOUS
<1>1. P!PortInv' /\ W!WorkspaceInv' /\ A!ProcessInv'
  BY PortsKept, WorkspaceKept, ProcessKept DEF OperationInv
<1>2. OperationTypeOK' /\ ClaimedOnce' /\ ReservedFirst' /\ LaunchKnown'
  BY TypeKept, PartsGrow, ReservedFirstKept, LaunchKnownKept
<1>3. UpUntilUndone' /\ HomeKept' /\ CleanedInTime'
  BY UpKept, HomeKeptKept, CleanedInTimeKept
<1>4. Known(stored)' /\ \A h \in Handlers : Known(mem[h].st)' /\ Reached(h)'
  BY CopiesKnown
<1>5. FreshCopies'
  BY FreshKept
<1>6. QED
  BY <1>1, <1>2, <1>3, <1>4, <1>5 DEF OperationInv

\* Three handlers that overlap, stop and are raised again keep the invariant of the
\* operation, its types among it (start, handle_browser_readiness and terminate).
THEOREM OperationInvariance == Spec => []OperationInv
<1>1. QED
  BY InitInv, StepInv, PTL DEF Spec

\* What a complete cleanup leaves of the workspace is no directory, and of the
\* process no member of its group.
LEMMA CleanIsGone ==
    ASSUME OperationInv, stored.complete, ~past.blind
    PROVE  \A k \in KindSet : Gone(k)
<1>1. CompleteInTime /\ A!ProcessInv
  BY InTime DEF OperationInv
<1>2. Gone("ports")
  BY <1>1 DEF CompleteInTime, Gone, OperationInv, ClaimedOnce
<1>3. Gone("workspace")
  <2>1. dir = W!NoDir
    BY <1>1, UnreservedIsUnlaunched
       DEF CompleteInTime, OperationInv, W!WorkspaceInv, W!WorkspaceSound, W!SweptIsGone
  <2>2. QED
    BY <2>1 DEF Gone
<1>4. Gone("application") /\ Gone("homes")
  <2>1. CASE processFiles = "cleaned"
    BY <1>1, <2>1
       DEF A!ProcessInv, A!SweptAfter, A!Quiet, A!GroupAlive, Gone
  <2>2. CASE NoLaunching
    <3>1. claim = "none" /\ home \in {"none", "gone"}
      BY <2>2 DEF NoLaunching, OperationInv, LaunchKnown
    <3>2. supervisor = "none" /\ target = "none"
      BY <1>1, <3>1 DEF A!ProcessInv, A!OneSupervisor
    <3>3. QED
      BY <3>1, <3>2 DEF Gone, A!GroupAlive
  <2>3. QED
    BY <1>1, <2>1, <2>2 DEF CompleteInTime
<1>5. QED
  BY <1>2, <1>3, <1>4, Kind4

\* A complete cleanup leaves no port, home, workspace or process behind, whatever
\* stopped or overlapped before it and unless it or a start was blind
\* (cleanup_resources of core.lua, cleanup of the runtime).
THEOREM NothingIsLeft == Spec => []NothingLeft
<1>1. OperationInv => NothingLeft
  BY CleanIsGone DEF NothingLeft
<1>2. QED
  BY <1>1, OperationInvariance, PTL

\* An operation that is ready, and that nobody has begun to clean up, has everything
\* recorded and in place (handle_browser_readiness).
THEOREM ReadyIsUp == Spec => []ReadyMeansUp
<1>1. OperationInv => ReadyMeansUp
  <2> SUFFICES ASSUME OperationInv, stored.result = "ready", ~past.undone
               PROVE  /\ stored.resources = KindSet
                      /\ P!ClaimComplete /\ claimed /\ ~freeing
                      /\ W!CheckoutWhole /\ checkedOut = "passed" /\ ~swept
                      /\ processFiles = "present" /\ home = "leased"
    BY DEF ReadyMeansUp
  <2>1. Known(stored) /\ stored \in States
    BY DEF OperationInv, OperationTypeOK
  <2>2. {"homes", "checkout", "application"} \subseteq stored.done
          /\ "ports" \in stored.resources
    BY <2>1 DEF Known
  <2>3. /\ {"ports", "homes", "workspace", "application"} \subseteq stored.resources
        /\ claimed /\ checkedOut = "passed" /\ started = "running"
    BY <2>1, <2>2 DEF Known
  <2>4. stored.resources = KindSet
    BY <2>1, <2>3, Kind4 DEF States
  <2>5. ~freeing /\ ~swept /\ home = "leased" /\ processFiles = "present"
    BY <2>3 DEF OperationInv, UpUntilUndone
  <2>6. P!ClaimComplete /\ W!CheckoutWhole
    BY DEF OperationInv, P!PortInv, W!WorkspaceInv, W!WorkspaceSound
  <2>7. QED
    BY <2>3, <2>4, <2>5, <2>6
<1>2. QED
  BY <1>1, OperationInvariance, PTL

\* No process is left without a record or outlives its home, unless a cleanup or a
\* start was blind, or the cleanup of the process has spared it (cleanup in reverse
\* order, which goes on to the homes; runArgvEffect).
THEOREM NoProcessStrays == Spec => []NoStrayProcess
<1>1. OperationInv => NoStrayProcess
  <2> SUFFICES ASSUME OperationInv PROVE HomeOutlives /\ TargetKnown
    BY DEF NoStrayProcess
  <2>1. past.blind \/ ((target = "alive" => home = "leased" \/ past.spared)
                        /\ (Settled /\ processFiles = "none" => target # "alive"))
    BY DEF OperationInv, HomeKept, Live
  <2>2. A!ProcessTypeOK /\ (processFiles = "cleaned" => target # "alive")
    BY DEF OperationInv, A!ProcessInv, A!SweptAfter, A!Quiet
  <2>3. "application" \in stored.cleaned => processFiles = "cleaned"
    BY DEF OperationInv, Known
  <2>4. processFiles \in {"none", "present", "cleaned"}
    BY <2>2 DEF A!ProcessTypeOK
  <2>5. QED
    BY <2>1, <2>2, <2>3, <2>4 DEF HomeOutlives, TargetKnown, Settled
<1>2. QED
  BY <1>1, OperationInvariance, PTL
==============================================================================
