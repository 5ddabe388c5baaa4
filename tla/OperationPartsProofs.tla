-------------------------- MODULE OperationPartsProofs --------------------------
(***************************************************************************)
(* Proofs about the resources of an operation of environment-factory, each *)
(* by itself: ports, workspace and process, for any handlers and any       *)
(* number of stops.                                                        *)
(***************************************************************************)
EXTENDS PortClaims, WorkspaceCheckout, SupervisedProcess, TLAPS

-----------------------------------------------------------------------------
(* The ports of an operation (PortClaims).                                 *)

LEMMA PortInitInv == PortInit => PortInv
<1> SUFFICES ASSUME PortInit PROVE PortInv
  OBVIOUS
<1> USE DEF PortInit, NoClaiming, Owners, Nobody, Other, Operation
<1>1. PortTypeOK
  <2>1. owner \in [Ports -> Owners] /\ approval \in Owners
    OBVIOUS
  <2>2. portFiles \in {"none", "held", "cleaned"} /\ claimLock \in Handlers \union {Nobody}
    OBVIOUS
  <2>3. claimed \in BOOLEAN /\ freeing \in BOOLEAN
    OBVIOUS
  <2>4. claiming \in [pc : {"none", "claim", "owners", "approval", "record", "release"},
                      ports : SUBSET Ports]
    OBVIOUS
  <2>5. QED
    BY <2>1, <2>2, <2>3, <2>4 DEF PortTypeOK
<1>2. ClaimComplete /\ Holding
  BY DEF ClaimComplete, Holding
<1>3. QED
  BY <1>1, <1>2 DEF PortInv

\* Each step of a claim keeps the invariant.
LEMMA ClaimPortsInv ==
    ASSUME PortInv, NEW h \in Handlers, ClaimPorts(h)
    PROVE  PortInv'
<1> USE PortsAssumption
    DEF PortInv, PortTypeOK, ClaimComplete, Holding, Owners, Nobody, Other, Operation,
         Claiming,
        MustStop, Unlock, Write, NoClaiming
<1>1. CASE LockForClaim(h)
  BY <1>1 DEF LockForClaim
<1>2. CASE RefuseClaim(h)
  BY <1>2 DEF RefuseClaim
<1>3. CASE BeginClaim(h)
  BY <1>3 DEF BeginClaim
<1>4. CASE TakePort(h)
  BY <1>4 DEF TakePort
<1>5. CASE UseApproval(h)
  BY <1>5 DEF UseApproval
<1>6. CASE RecordClaim(h)
  BY <1>6 DEF RecordClaim
<1>7. QED
  BY <1>1, <1>2, <1>3, <1>4, <1>5, <1>6 DEF ClaimPorts

\* So does each step of a cleanup.
LEMMA ReleasePortsInv ==
    ASSUME PortInv, NEW h \in Handlers, ReleasePorts(h)
    PROVE  PortInv'
<1> USE PortsAssumption
    DEF PortInv, PortTypeOK, ClaimComplete, Holding, Owners, Nobody, Other, Operation,
         Claiming,
        Unlock, Write, NoClaiming
<1>1. CASE LockForRelease(h)
  BY <1>1 DEF LockForRelease
<1>2. CASE FreePort(h)
  BY <1>2 DEF FreePort
<1>3. CASE RecordRelease(h)
  BY <1>3 DEF RecordRelease
<1>4. QED
  BY <1>1, <1>2, <1>3 DEF ReleasePorts

\* Other operations need a lock that is free, and all ports.
LEMMA OtherPortsInv ==
    ASSUME PortInv, OtherPorts
    PROVE  PortInv'
<1> USE DEF PortInv, PortTypeOK, ClaimComplete, Holding, Owners, Nobody, Other, Operation
<1>1. CASE OtherTakes
  BY <1>1 DEF OtherTakes
<1>2. CASE OtherFrees
  BY <1>2 DEF OtherFrees
<1>3. QED
  BY <1>1, <1>2 DEF OtherPorts

LEMMA CrashPortsInv ==
    ASSUME PortInv, NEW h \in Handlers, CrashPorts(h)
    PROVE  PortInv'
BY DEF PortInv, PortTypeOK, ClaimComplete, Holding, CrashPorts, StopClaiming, Unlock,
     NoClaiming

LEMMA PortStepInv == PortInv /\ [PortNext]_portVars => PortInv'
<1> SUFFICES ASSUME PortInv, [PortNext]_portVars PROVE PortInv'
  OBVIOUS
<1>1. CASE PortNext
  BY <1>1, ClaimPortsInv, ReleasePortsInv, OtherPortsInv, CrashPortsInv DEF PortNext
<1>2. CASE UNCHANGED portVars
  BY <1>2 DEF portVars, PortInv, PortTypeOK, ClaimComplete, Holding
<1>3. QED
  BY <1>1, <1>2

\* Claims, ports and approval fit together at every step of every handler
\* (claimPorts of listener-claims.js, cleanup of the runtime).
THEOREM PortInvariance == PortSpec => []PortInv
BY PortInitInv, PortStepInv, PTL DEF PortSpec

\* A recorded claim has used the approval, and owns every port until its cleanup
\* begins, whoever stopped while it was made (claimPorts).
THEOREM ClaimsAreComplete == PortSpec => []ClaimComplete
<1>1. PortInv => ClaimComplete
  BY DEF PortInv
<1>2. QED
  BY <1>1, PortInvariance, PTL

\* A port that another operation has taken is freed by nobody who holds the lock
\* (cleanup, the ports branch).
THEOREM PortsAreNotTaken == PortSpec => NotTaken
<1> DEFINE Kept == \A p \in Ports :
                      owner[p] = Other => owner'[p] = Other \/ claimLock = Nobody
<1>1. PortInv /\ [PortNext]_portVars => [Kept]_portVars
  <2> SUFFICES ASSUME PortInv, PortNext PROVE Kept
    OBVIOUS
  <2> USE DEF PortInv, PortTypeOK, Holding, Nobody, Other, Operation, Claiming
  <2>1. ASSUME NEW h \in Handlers, ClaimPorts(h) PROVE Kept
    BY <2>1 DEF ClaimPorts, LockForClaim, RefuseClaim, BeginClaim, TakePort, UseApproval,
                RecordClaim
  <2>2. ASSUME NEW h \in Handlers, ReleasePorts(h) PROVE Kept
    BY <2>2 DEF ReleasePorts, LockForRelease, FreePort, RecordRelease
  <2>3. ASSUME NEW h \in Handlers, CrashPorts(h) PROVE Kept
    BY <2>3 DEF CrashPorts
  <2>4. CASE OtherPorts
    BY <2>4 DEF OtherPorts, OtherTakes, OtherFrees
  <2>5. QED
    BY <2>1, <2>2, <2>3, <2>4 DEF PortNext
<1>2. QED
  BY <1>1, PortInvariance, PTL DEF PortSpec, NotTaken

-----------------------------------------------------------------------------
(* The workspace of an operation (WorkspaceCheckout).                      *)

LEMMA WorkspaceInitInv == WorkspaceInit => WorkspaceInv
<1> SUFFICES ASSUME WorkspaceInit PROVE WorkspaceInv
  OBVIOUS
<1> USE WorkspaceAssumption DEF WorkspaceInit, NoReservation, NoDir
<1>1. WorkspaceTypeOK
  <2>1. reservation \in [state : {"none", "reserved", "allocated"}, dir : 0 .. MaxDirs,
                         cleaned : BOOLEAN]
    OBVIOUS
  <2>2. dir \in 0 .. MaxDirs /\ made \in 0 .. MaxDirs /\ dir <= made
    OBVIOUS
  <2>3. QED
    BY <2>1, <2>2 DEF WorkspaceTypeOK, Dirs, Steps
<1>2. WorkspaceSound
  BY DEF WorkspaceSound, CheckoutWhole, DirectoryKnown, SweptIsGone
<1>3. Working
  BY DEF Working
<1>4. QED
  BY <1>1, <1>2, <1>3 DEF WorkspaceInv

LEMMA BeginCheckoutInv ==
    ASSUME WorkspaceInv, NEW h \in Checkers, BeginCheckout(h)
    PROVE  WorkspaceInv'
<1> USE WorkspaceAssumption
    DEF WorkspaceInv, BeginCheckout, Checking, Then, Stop, Disk, NoDir
<1>1. WorkspaceTypeOK'
  BY DEF WorkspaceTypeOK, Working, Dirs, Steps
<1>2. WorkspaceSound'
  BY DEF WorkspaceTypeOK, WorkspaceSound, CheckoutWhole, DirectoryKnown, SweptIsGone, Working
<1>3. Working'
  BY DEF WorkspaceTypeOK, WorkspaceSound, DirectoryKnown, Working, Steps
<1>4. QED
  BY <1>1, <1>2, <1>3

LEMMA ReserveWorkspaceInv ==
    ASSUME WorkspaceInv, NEW h \in Checkers, ReserveWorkspace(h)
    PROVE  WorkspaceInv'
<1> USE WorkspaceAssumption
    DEF WorkspaceInv, ReserveWorkspace, Checking, Then, Stop, Disk, NoDir
<1>1. WorkspaceTypeOK'
  BY DEF WorkspaceTypeOK, Working, Dirs, Steps
<1>2. WorkspaceSound'
  BY DEF WorkspaceTypeOK, WorkspaceSound, CheckoutWhole, DirectoryKnown, SweptIsGone, Working
<1>3. Working'
  BY DEF WorkspaceTypeOK, WorkspaceSound, DirectoryKnown, Working, Steps
<1>4. QED
  BY <1>1, <1>2, <1>3

LEMMA ResumeWorkspaceInv ==
    ASSUME WorkspaceInv, NEW h \in Checkers, ResumeWorkspace(h)
    PROVE  WorkspaceInv'
<1> USE WorkspaceAssumption
    DEF WorkspaceInv, ResumeWorkspace, Checking, Then, Stop, Disk, NoDir, Resumable
<1>1. WorkspaceTypeOK'
  BY DEF WorkspaceTypeOK, Working, Dirs, Steps
<1>2. WorkspaceSound'
  BY DEF WorkspaceTypeOK, WorkspaceSound, CheckoutWhole, DirectoryKnown, SweptIsGone, Working
<1>3. Working'
  BY DEF WorkspaceTypeOK, WorkspaceSound, DirectoryKnown, Working, Steps
<1>4. QED
  BY <1>1, <1>2, <1>3

LEMMA RefuseWorkspaceInv ==
    ASSUME WorkspaceInv, NEW h \in Checkers, RefuseWorkspace(h)
    PROVE  WorkspaceInv'
<1> USE WorkspaceAssumption
    DEF WorkspaceInv, RefuseWorkspace, Checking, Then, Stop, Disk, NoDir
<1>1. WorkspaceTypeOK'
  BY DEF WorkspaceTypeOK, Working, Dirs, Steps
<1>2. WorkspaceSound'
  BY DEF WorkspaceTypeOK, WorkspaceSound, CheckoutWhole, DirectoryKnown, SweptIsGone, Working
<1>3. Working'
  BY DEF WorkspaceTypeOK, WorkspaceSound, DirectoryKnown, Working, Steps
<1>4. QED
  BY <1>1, <1>2, <1>3

LEMMA RemoveOldInv ==
    ASSUME WorkspaceInv, NEW h \in Checkers, RemoveOld(h)
    PROVE  WorkspaceInv'
<1> USE WorkspaceAssumption
    DEF WorkspaceInv, RemoveOld, Checking, Then, Stop, Disk, NoDir
<1>1. WorkspaceTypeOK'
  <2>1. reservation' \in [state : {"none", "reserved", "allocated"}, dir : 0 .. MaxDirs,
                          cleaned : BOOLEAN]
    BY DEF WorkspaceTypeOK
  <2>2. /\ dir' \in 0 .. MaxDirs /\ made' \in 0 .. MaxDirs /\ dir' <= made'
        /\ proven' \subseteq Dirs
    BY DEF WorkspaceTypeOK, Dirs, Working
  <2>3. marked' \in BOOLEAN /\ swept' \in BOOLEAN /\ source' \in {"none", "partial", "commit"}
    BY DEF WorkspaceTypeOK
  <2>4. /\ checkedOut' \in {"none", "passed", "blocked"}
        /\ checker' \in Checkers \union {NoChecker} /\ step' \in Steps \union {"passed", "blocked"}
    BY DEF WorkspaceTypeOK, Steps
  <2>5. QED
    BY <2>1, <2>2, <2>3, <2>4 DEF WorkspaceTypeOK
<1>2. WorkspaceSound'
  BY DEF WorkspaceTypeOK, WorkspaceSound, CheckoutWhole, DirectoryKnown, SweptIsGone, Working
<1>3. Working'
  BY DEF WorkspaceTypeOK, WorkspaceSound, DirectoryKnown, Working, Steps
<1>4. QED
  BY <1>1, <1>2, <1>3

LEMMA ProveOldInv ==
    ASSUME WorkspaceInv, NEW h \in Checkers, ProveOld(h)
    PROVE  WorkspaceInv'
<1> USE WorkspaceAssumption
    DEF WorkspaceInv, ProveOld, Checking, Then, Stop, Disk, NoDir
<1>1. WorkspaceTypeOK'
  <2>1. reservation' \in [state : {"none", "reserved", "allocated"}, dir : 0 .. MaxDirs,
                          cleaned : BOOLEAN]
    BY DEF WorkspaceTypeOK
  <2>2. /\ dir' \in 0 .. MaxDirs /\ made' \in 0 .. MaxDirs /\ dir' <= made'
        /\ proven' \subseteq Dirs
    <3>1. reservation.dir \in 0 .. MaxDirs /\ reservation.dir # 0
      BY DEF WorkspaceTypeOK, Working
    <3>2. reservation.dir \in Dirs
      BY <3>1 DEF Dirs
    <3>3. QED
      BY <3>2 DEF WorkspaceTypeOK
  <2>3. marked' \in BOOLEAN /\ swept' \in BOOLEAN /\ source' \in {"none", "partial", "commit"}
    BY DEF WorkspaceTypeOK
  <2>4. /\ checkedOut' \in {"none", "passed", "blocked"}
        /\ checker' \in Checkers \union {NoChecker} /\ step' \in Steps \union {"passed", "blocked"}
    BY DEF WorkspaceTypeOK, Steps
  <2>5. QED
    BY <2>1, <2>2, <2>3, <2>4 DEF WorkspaceTypeOK
<1>2. WorkspaceSound'
  BY DEF WorkspaceTypeOK, WorkspaceSound, CheckoutWhole, DirectoryKnown, SweptIsGone, Working
<1>3. Working'
  BY DEF WorkspaceTypeOK, WorkspaceSound, DirectoryKnown, Working, Steps
<1>4. QED
  BY <1>1, <1>2, <1>3

LEMMA AllocateInv ==
    ASSUME WorkspaceInv, NEW h \in Checkers, Allocate(h)
    PROVE  WorkspaceInv'
<1> USE WorkspaceAssumption
    DEF WorkspaceInv, Allocate, Checking, Then, Stop, Disk, NoDir
<1>1. WorkspaceTypeOK'
  <2>1. reservation' \in [state : {"none", "reserved", "allocated"}, dir : 0 .. MaxDirs,
                          cleaned : BOOLEAN]
    BY DEF WorkspaceTypeOK
  <2>2. /\ dir' \in 0 .. MaxDirs /\ made' \in 0 .. MaxDirs /\ dir' <= made'
        /\ proven' \subseteq Dirs
    BY DEF WorkspaceTypeOK, Dirs, Working
  <2>3. marked' \in BOOLEAN /\ swept' \in BOOLEAN /\ source' \in {"none", "partial", "commit"}
    BY DEF WorkspaceTypeOK
  <2>4. /\ checkedOut' \in {"none", "passed", "blocked"}
        /\ checker' \in Checkers \union {NoChecker} /\ step' \in Steps \union {"passed", "blocked"}
    BY DEF WorkspaceTypeOK, Steps
  <2>5. QED
    BY <2>1, <2>2, <2>3, <2>4 DEF WorkspaceTypeOK
<1>2. WorkspaceSound'
  BY DEF WorkspaceTypeOK, WorkspaceSound, CheckoutWhole, DirectoryKnown, SweptIsGone, Working
<1>3. Working'
  BY DEF WorkspaceTypeOK, WorkspaceSound, DirectoryKnown, Working, Steps
<1>4. QED
  BY <1>1, <1>2, <1>3

LEMMA PersistInv ==
    ASSUME WorkspaceInv, NEW h \in Checkers, Persist(h)
    PROVE  WorkspaceInv'
<1> USE WorkspaceAssumption
    DEF WorkspaceInv, Persist, Checking, Then, Stop, Disk, NoDir
<1>1. WorkspaceTypeOK'
  BY DEF WorkspaceTypeOK, Working, Dirs, Steps
<1>2. WorkspaceSound'
  BY DEF WorkspaceTypeOK, WorkspaceSound, CheckoutWhole, DirectoryKnown, SweptIsGone, Working
<1>3. Working'
  BY DEF WorkspaceTypeOK, WorkspaceSound, DirectoryKnown, Working, Steps
<1>4. QED
  BY <1>1, <1>2, <1>3

LEMMA RetireInv ==
    ASSUME WorkspaceInv, NEW h \in Checkers, Retire(h)
    PROVE  WorkspaceInv'
<1> USE WorkspaceAssumption
    DEF WorkspaceInv, Retire, Checking, Then, Stop, Disk, NoDir
<1>1. WorkspaceTypeOK'
  BY DEF WorkspaceTypeOK, Working, Dirs, Steps
<1>2. WorkspaceSound'
  BY DEF WorkspaceTypeOK, WorkspaceSound, CheckoutWhole, DirectoryKnown, SweptIsGone, Working
<1>3. Working'
  BY DEF WorkspaceTypeOK, WorkspaceSound, DirectoryKnown, Working, Steps
<1>4. QED
  BY <1>1, <1>2, <1>3

LEMMA CloneInv ==
    ASSUME WorkspaceInv, NEW h \in Checkers, Clone(h)
    PROVE  WorkspaceInv'
<1> USE WorkspaceAssumption
    DEF WorkspaceInv, Clone, Checking, Then, Stop, Disk, NoDir, CommandFails
<1>1. WorkspaceTypeOK'
  BY DEF WorkspaceTypeOK, Working, Dirs, Steps
<1>2. WorkspaceSound'
  BY DEF WorkspaceTypeOK, WorkspaceSound, CheckoutWhole, DirectoryKnown, SweptIsGone, Working
<1>3. Working'
  BY DEF WorkspaceTypeOK, WorkspaceSound, DirectoryKnown, Working, Steps
<1>4. QED
  BY <1>1, <1>2, <1>3

LEMMA VerdictInv ==
    ASSUME WorkspaceInv, NEW h \in Checkers, Verdict(h)
    PROVE  WorkspaceInv'
<1> USE WorkspaceAssumption
    DEF WorkspaceInv, Verdict, Checking, Then, Stop, Disk, NoDir, CommandFails
<1>1. WorkspaceTypeOK'
  BY DEF WorkspaceTypeOK, Working, Dirs, Steps
<1>2. WorkspaceSound'
  BY DEF WorkspaceTypeOK, WorkspaceSound, CheckoutWhole, DirectoryKnown, SweptIsGone, Working
<1>3. Working'
  BY DEF WorkspaceTypeOK, WorkspaceSound, DirectoryKnown, Working, Steps
<1>4. QED
  BY <1>1, <1>2, <1>3

LEMMA RecordCheckoutInv ==
    ASSUME WorkspaceInv, NEW h \in Checkers, RecordCheckout(h)
    PROVE  WorkspaceInv'
<1> USE WorkspaceAssumption
    DEF WorkspaceInv, RecordCheckout, Checking, Then, Stop, Disk, NoDir
<1>1. WorkspaceTypeOK'
  BY DEF WorkspaceTypeOK, Working, Dirs, Steps
<1>2. WorkspaceSound'
  BY DEF WorkspaceTypeOK, WorkspaceSound, CheckoutWhole, DirectoryKnown, SweptIsGone, Working
<1>3. Working'
  BY DEF WorkspaceTypeOK, WorkspaceSound, DirectoryKnown, Working, Steps
<1>4. QED
  BY <1>1, <1>2, <1>3

-----------------------------------------------------------------------------
\* The sweep of a workspace, and a handler that stops.
LEMMA SweepInv ==
    ASSUME WorkspaceInv, SweepWorkspace \/ RecordSwept
    PROVE  WorkspaceInv'
<1> USE WorkspaceAssumption DEF WorkspaceInv, Disk, NoDir, WorkspaceTypeOK
<1>1. CASE SweepWorkspace
  <2> USE <1>1 DEF SweepWorkspace
  <2>1. step = "none"
    BY DEF Working, Steps
  <2>2. Working'
    BY <2>1 DEF Working
  <2>3. WorkspaceSound'
    BY DEF WorkspaceSound, CheckoutWhole, DirectoryKnown, SweptIsGone
  <2>4. dir' \in 0 .. MaxDirs /\ dir' <= made'
    <3>1. dir' = 0 /\ made' = made /\ made \in 0 .. MaxDirs
      OBVIOUS
    <3>2. QED
      BY <3>1
  <2>5. WorkspaceTypeOK'
    BY <2>4
  <2>6. QED
    BY <2>2, <2>3, <2>5
<1>2. CASE RecordSwept
  <2> USE <1>2 DEF RecordSwept
  <2>1. step = "none" /\ dir = NoDir
    BY DEF Working, Steps
  <2>2. WorkspaceTypeOK'
    OBVIOUS
  <2>3. WorkspaceSound'
    BY <2>1 DEF WorkspaceSound, CheckoutWhole, DirectoryKnown, SweptIsGone
  <2>4. Working'
    BY <2>1 DEF Working
  <2>5. QED
    BY <2>2, <2>3, <2>4
<1>3. QED
  BY <1>1, <1>2

LEMMA CrashWorkspaceInv ==
    ASSUME WorkspaceInv, NEW h \in Checkers, CrashWorkspace(h)
    PROVE  WorkspaceInv'
BY DEF WorkspaceInv, WorkspaceTypeOK, WorkspaceSound, CheckoutWhole, DirectoryKnown,
       SweptIsGone, Working, CrashWorkspace, Stop, Disk, NoDir, Steps

LEMMA WorkspaceStepInv == WorkspaceInv /\ [WorkspaceNext]_workspaceVars => WorkspaceInv'
<1> SUFFICES ASSUME WorkspaceInv, [WorkspaceNext]_workspaceVars PROVE WorkspaceInv'
  OBVIOUS
<1>1. ASSUME NEW h \in Checkers, Checkout(h) PROVE WorkspaceInv'
  BY <1>1, BeginCheckoutInv, ReserveWorkspaceInv, ResumeWorkspaceInv, RefuseWorkspaceInv,
       RemoveOldInv, ProveOldInv, AllocateInv, PersistInv, RetireInv, CloneInv, VerdictInv,
       RecordCheckoutInv DEF Checkout
<1>2. CASE UNCHANGED workspaceVars
  BY <1>2 DEF workspaceVars, WorkspaceInv, WorkspaceTypeOK, WorkspaceSound, CheckoutWhole,
              DirectoryKnown, SweptIsGone, Working
<1>3. QED
  BY <1>1, <1>2, SweepInv, CrashWorkspaceInv DEF WorkspaceNext

\* Reservation, directory, record and sweep fit together at every step of a checkout
\* (workspace-reservation.js).
THEOREM WorkspaceInvariance == WorkspaceSpec => []WorkspaceInv
BY WorkspaceInitInv, WorkspaceStepInv, PTL DEF WorkspaceSpec

\* A checkout that passed is whole in the directory its record names, nothing nameless
\* is left at its place, and what is said to be removed is gone, whoever stopped
\* (checkout, prepareReservedWorkspace, cleanup).
THEOREM WorkspacesAreSound == WorkspaceSpec => []WorkspaceSound
<1>1. WorkspaceInv => WorkspaceSound
  BY DEF WorkspaceInv
<1>2. QED
  BY <1>1, WorkspaceInvariance, PTL

-----------------------------------------------------------------------------
(* The process of an operation (SupervisedProcess).                        *)

LEMMA ProcessInitInv == ProcessInit => ProcessInv
<1> SUFFICES ASSUME ProcessInit PROVE ProcessInv
  OBVIOUS
<1> USE LaunchersAssumption DEF ProcessInit, NoLaunch, NoSweep
<1>1. ProcessTypeOK
  BY DEF ProcessTypeOK, ClaimStates, LaunchPoints
<1>2. StartedOnce /\ ClaimHeld /\ OneSupervisor /\ SweptAfter
  BY DEF StartedOnce, ClaimHeld, OneSupervisor, SweptAfter, Quiet, Locked
<1>3. QED
  BY <1>1, <1>2 DEF ProcessInv

\* The steps of a launcher keep the invariant.
LEMMA StartInv ==
    ASSUME ProcessInv, NEW h \in Launchers, Start(h)
    PROVE  ProcessInv'
<1> USE LaunchersAssumption
    DEF ProcessInv, ProcessTypeOK, StartedOnce, ClaimHeld, OneSupervisor, SweptAfter, Quiet,
        Supervisor, Locked, LaunchPoints, ClaimStates, Launching, Go, Fail, See,
        Unlocked, Processes, Records, NoLaunch, KillGroup
<1>1. CASE BeginStart(h)
  <2> USE <1>1 DEF BeginStart
  <2>1. launch' \in [by : Launchers \union {NoLauncher}, pc : LaunchPoints, seen : ClaimStates]
    OBVIOUS
  <2>2. ProcessTypeOK'
    BY <2>1
  <2>3. StartedOnce' /\ ClaimHeld' /\ OneSupervisor'
    OBVIOUS
  <2>4. SweptAfter'
    OBVIOUS
  <2>5. QED
    BY <2>2, <2>3, <2>4
<1>2. CASE OverBudget(h)
  BY <1>2 DEF OverBudget
<1>3. CASE Rejoin(h)
  BY <1>3 DEF Rejoin
<1>4. CASE RefuseRejoin(h)
  BY <1>4 DEF RefuseRejoin
<1>5. CASE TakeUp(h)
  BY <1>5 DEF TakeUp
<1>6. CASE WriteClaim(h)
  BY <1>6 DEF WriteClaim
<1>7. CASE ReserveHome(h)
  BY <1>7 DEF ReserveHome
<1>8. CASE LeaseHome(h)
  BY <1>8 DEF LeaseHome
<1>9. CASE FindHome(h)
  BY <1>9 DEF FindHome
<1>10. CASE MissHome(h)
  BY <1>10 DEF MissHome
<1>11. CASE Prepare(h)
  BY <1>11 DEF Prepare
<1>12. CASE PublishLaunchSpec(h)
  BY <1>12 DEF PublishLaunchSpec
<1>13. CASE SpawnSupervisor(h)
  BY <1>13 DEF SpawnSupervisor
<1>14. CASE RevokeLaunch(h)
  BY <1>14 DEF RevokeLaunch
<1>15. CASE UnlockClaim(h)
  BY <1>15 DEF UnlockClaim
<1>16. CASE SeeClaim(h)
  <2> USE <1>16 DEF SeeClaim
  <2>1. launch' \in [by : Launchers \union {NoLauncher}, pc : LaunchPoints, seen : ClaimStates]
    OBVIOUS
  <2>2. ProcessTypeOK'
    BY <2>1
  <2>3. StartedOnce' /\ ClaimHeld' /\ OneSupervisor'
    OBVIOUS
  <2>4. SweptAfter'
    OBVIOUS
  <2>5. QED
    BY <2>2, <2>3, <2>4
<1>17. CASE SeeDead(h)
  <2> USE <1>17 DEF SeeDead
  <2>1. launch' \in [by : Launchers \union {NoLauncher}, pc : LaunchPoints, seen : ClaimStates]
    OBVIOUS
  <2>2. ProcessTypeOK'
    BY <2>1
  <2>3. StartedOnce' /\ ClaimHeld' /\ OneSupervisor'
    OBVIOUS
  <2>4. SweptAfter'
    OBVIOUS
  <2>5. QED
    BY <2>2, <2>3, <2>4
<1>18. CASE MissLease(h)
  BY <1>18 DEF MissLease
<1>19. CASE Deadline(h)
  <2>1. PICK s \in {"revoked", claim} : launch' = [launch EXCEPT !.pc = "verify", !.seen = s]
    BY <1>19 DEF Deadline
  <2>2. launch' \in [by : Launchers \union {NoLauncher}, pc : LaunchPoints, seen : ClaimStates]
    <3>1. "verify" \in LaunchPoints /\ s \in ClaimStates
      BY <2>1
    <3>2. QED
      BY <2>1, <3>1
  <2>3. launch'.pc = "verify" /\ launch'.by = h /\ claimOwner' = NoLauncher
    BY <1>19, <2>1 DEF Deadline
  <2>4. CASE claim \in {"preparing", "prepared"}
    <3> USE <1>19, <2>4 DEF Deadline
    <3>1. ProcessTypeOK'
      BY <2>2
    <3>2. StartedOnce' /\ OneSupervisor'
      OBVIOUS
    <3>3. ClaimHeld'
      BY <2>3
    <3>4. SweptAfter'
      OBVIOUS
    <3>5. QED
      BY <3>1, <3>2, <3>3, <3>4
  <2>5. CASE claim \notin {"preparing", "prepared"}
    <3> USE <1>19, <2>5 DEF Deadline
    <3>1. ProcessTypeOK'
      BY <2>2
    <3>2. StartedOnce' /\ OneSupervisor'
      OBVIOUS
    <3>3. ClaimHeld'
      BY <2>3
    <3>4. SweptAfter'
      OBVIOUS
    <3>5. QED
      BY <3>1, <3>2, <3>3, <3>4
  <2>6. QED
    BY <2>4, <2>5
<1>20. CASE VerifyHome(h)
  BY <1>20 DEF VerifyHome
<1>21. CASE StopUnverified(h)
  BY <1>21 DEF StopUnverified
<1>22. CASE WriteProcess(h)
  BY <1>22 DEF WriteProcess
<1>23. CASE CheckProcess(h)
  BY <1>23 DEF CheckProcess
<1>24. CASE RecordStart(h)
  BY <1>24 DEF RecordStart
<1>25. QED
  BY <1>1, <1>2, <1>3, <1>4, <1>5, <1>6, <1>7, <1>8, <1>9, <1>10, <1>11, <1>12, <1>13,
     <1>14, <1>15, <1>16, <1>17, <1>18, <1>19, <1>20, <1>21, <1>22, <1>23, <1>24 DEF Start

\* So do those of the supervisor and its target.
LEMMA SuperviseInv ==
    ASSUME ProcessInv, Supervise \/ ProcessFaults
    PROVE  ProcessInv'
<1> USE LaunchersAssumption
    DEF ProcessInv, ProcessTypeOK, StartedOnce, ClaimHeld, OneSupervisor, SweptAfter, Quiet,
        Supervisor, Locked, LaunchPoints, ClaimStates, Elsewhere, Unlocked
<1>1. CASE CheckClaim
  BY <1>1 DEF CheckClaim
<1>2. CASE Register
  BY <1>2 DEF Register
<1>3. CASE SpawnTarget
  BY <1>3 DEF SpawnTarget
<1>4. CASE ReportRunning
  BY <1>4 DEF ReportRunning
<1>5. CASE ReportExit
  BY <1>5 DEF ReportExit
<1>6. CASE TargetExits
  BY <1>6 DEF TargetExits
<1>7. CASE SupervisorDies
  BY <1>7 DEF SupervisorDies
<1>8. QED
  BY <1>1, <1>2, <1>3, <1>4, <1>5, <1>6, <1>7 DEF Supervise, ProcessFaults

\* So do those of a cleanup, which finds no launcher at work.
LEMMA CleanProcessInv ==
    ASSUME ProcessInv, NEW h \in Launchers, CleanProcess(h)
    PROVE  ProcessInv'
<1> USE LaunchersAssumption
    DEF ProcessInv, ProcessTypeOK, StartedOnce, ClaimHeld, OneSupervisor, SweptAfter, Quiet,
        Supervisor, Locked, LaunchPoints, ClaimStates, Sweeping, Sweep, Unswept,
        NoSweep, KillGroup, GroupAlive
<1>1. CASE RunCleanup(h)
  BY <1>1 DEF RunCleanup
<1>2. CASE StopGroup(h)
  <2> USE <1>2 DEF StopGroup
  <2>1. sweep' \in [by : Launchers \union {NoLauncher},
                   pc : {"none", "stop", "release", "record"}, ok : BOOLEAN]
    OBVIOUS
  <2>2. ProcessTypeOK'
    BY <2>1
  <2>3. StartedOnce' /\ ClaimHeld' /\ OneSupervisor'
    OBVIOUS
  <2>4. SweptAfter'
    OBVIOUS
  <2>5. QED
    BY <2>2, <2>3, <2>4
<1>3. CASE ReleaseProcessHome(h)
  <2> USE <1>3 DEF ReleaseProcessHome
  <2>1. sweep' \in [by : Launchers \union {NoLauncher},
                   pc : {"none", "stop", "release", "record"}, ok : BOOLEAN]
    OBVIOUS
  <2>2. ProcessTypeOK'
    BY <2>1
  <2>3. StartedOnce' /\ ClaimHeld' /\ OneSupervisor'
    OBVIOUS
  <2>4. SweptAfter'
    OBVIOUS
  <2>5. QED
    BY <2>2, <2>3, <2>4
<1>4. CASE RecordCleanup(h)
  BY <1>4 DEF RecordCleanup
<1>5. CASE ThrowCleanup(h)
  BY <1>5 DEF ThrowCleanup
<1>6. CASE SpareGroup(h)
  <2> USE <1>6 DEF SpareGroup
  <2>1. sweep' \in [by : Launchers \union {NoLauncher},
                   pc : {"none", "stop", "release", "record"}, ok : BOOLEAN]
    OBVIOUS
  <2>2. ProcessTypeOK'
    BY <2>1
  <2>3. StartedOnce' /\ ClaimHeld' /\ OneSupervisor'
    OBVIOUS
  <2>4. SweptAfter'
    <3>1. sweep'.pc = "record" /\ ~sweep'.ok
      OBVIOUS
    <3>2. QED
      BY <3>1
  <2>5. QED
    BY <2>2, <2>3, <2>4
<1>7. QED
  BY <1>1, <1>2, <1>3, <1>4, <1>5, <1>6 DEF CleanProcess

\* A handler stops, and its lock goes with it.
LEMMA CrashLauncherInv ==
    ASSUME ProcessInv, NEW h \in Launchers, CrashLauncher(h)
    PROVE  ProcessInv'
BY LaunchersAssumption
   DEF ProcessInv, ProcessTypeOK, StartedOnce, ClaimHeld, OneSupervisor, SweptAfter, Quiet,
       Supervisor, Locked, LaunchPoints, ClaimStates, CrashLauncher, Processes, NoLaunch,
        NoSweep

LEMMA ProcessStepInv == ProcessInv /\ [ProcessNext]_processVars => ProcessInv'
<1> SUFFICES ASSUME ProcessInv, [ProcessNext]_processVars PROVE ProcessInv'
  OBVIOUS
<1>1. CASE ProcessNext
  BY <1>1, StartInv, SuperviseInv, CleanProcessInv, CrashLauncherInv DEF ProcessNext
<1>2. CASE UNCHANGED processVars
  BY <1>2 DEF processVars, ProcessInv, ProcessTypeOK, StartedOnce, ClaimHeld, OneSupervisor,
              SweptAfter, Quiet
<1>3. QED
  BY <1>1, <1>2

\* Claim, supervisor, target and sweep fit together at every step of every launcher
\* (supervised-process.js).
THEOREM ProcessInvariance == ProcessSpec => []ProcessInv
BY ProcessInitInv, ProcessStepInv, PTL DEF ProcessSpec

\* However often a start is delivered, and whoever stopped, its target is started
\* once (startOrRecoverSupervisedProcess, childMain).
THEOREM TargetIsStartedOnce == ProcessSpec => []StartedOnce
<1>1. ProcessInv => StartedOnce
  BY DEF ProcessInv
<1>2. QED
  BY <1>1, ProcessInvariance, PTL

\* What is on record as cleaned has no living member in its group, and no home
\* (stopProcess, cleanup).
THEOREM CleanedIsStopped == ProcessSpec => []CleanedMeansStopped
<1>1. ProcessInv => CleanedMeansStopped
  BY DEF ProcessInv, SweptAfter, CleanedMeansStopped, Quiet, GroupAlive
<1>2. QED
  BY <1>1, ProcessInvariance, PTL

\* A revoked claim stays revoked and starts nothing (transitionClaim, childMain).
THEOREM RevocationHolds == ProcessSpec => RevokedNeverStarts
<1> DEFINE Kept == claim = "revoked" => claim' = "revoked" /\ starts' = starts
<1>1. ProcessInv /\ [ProcessNext]_processVars => [Kept]_processVars
  <2> SUFFICES ASSUME ProcessInv, claim = "revoked", ProcessNext
               PROVE  claim' = "revoked" /\ starts' = starts
    OBVIOUS
  <2> USE DEF ProcessInv, ClaimHeld, OneSupervisor, Launching, Processes
  <2>1. ASSUME NEW h \in Launchers, Start(h) PROVE claim' = "revoked" /\ starts' = starts
    BY <2>1 DEF Start, BeginStart, OverBudget, Rejoin, RefuseRejoin, TakeUp, WriteClaim,
       ReserveHome, LeaseHome, FindHome, MissHome, Prepare, PublishLaunchSpec,
       SpawnSupervisor, RevokeLaunch, UnlockClaim, SeeClaim, SeeDead, MissLease, Deadline,
       VerifyHome, StopUnverified, WriteProcess, CheckProcess, RecordStart
  <2>2. ASSUME NEW h \in Launchers, CleanProcess(h) PROVE claim' = "revoked" /\ starts' = starts
    BY <2>2 DEF CleanProcess, Unswept, RunCleanup, ThrowCleanup, SpareGroup, StopGroup,
       ReleaseProcessHome, RecordCleanup
  <2>3. CASE Supervise
    <3>1. CASE ReportExit
      BY <3>1 DEF ReportExit
    <3>2. CASE CheckClaim \/ Register \/ SpawnTarget \/ ReportRunning
      BY <3>2 DEF CheckClaim, Register, SpawnTarget, ReportRunning
    <3>3. QED
      BY <2>3, <3>1, <3>2 DEF Supervise
  <2>4. CASE ProcessFaults
    BY <2>4 DEF ProcessFaults, TargetExits, SupervisorDies
  <2>5. QED
    BY <2>1, <2>2, <2>3, <2>4 DEF ProcessNext, CrashLauncher
<1>2. QED
  BY <1>1, ProcessInvariance, PTL DEF ProcessSpec, RevokedNeverStarts
=============================================================================
