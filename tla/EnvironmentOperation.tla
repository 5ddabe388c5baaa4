-------------------------- MODULE EnvironmentOperation -------------------------
(***************************************************************************)
(* An operation of environment-factory: start, handle_browser_readiness    *)
(* and terminate of core.lua, over the effects of its runtime.  The three  *)
(* handlers run in processes of their own.  Each loads the stored state,   *)
(* works on its own copy of it and saves the copy by compare-and-swap;     *)
(* what an effect has done is known to the operation only once it is       *)
(* saved.  A handler may stop anywhere, and its event is raised again.     *)
(***************************************************************************)
EXTENDS Naturals, FiniteSets

CONSTANTS
    Ports,
    MaxDirs,     \* bound: directories made for the workspace
    MaxTroubles, \* bound: faults in a behaviour (Trouble)
    Expires      \* whether the lifecycle deadline may pass

ASSUME OperationAssumption == MaxTroubles \in Nat /\ MaxDirs \in Nat \ {0} /\ Expires \in BOOLEAN

Handlers == {"start", "browser", "end"}
Nobody == "nobody"

VARIABLES
    stored,     \* the state of the operation in the store
    mem,        \* mem[h]: where the handler is, and its copy of the state
    written,    \* receipts, immutable: name and contents
    late,       \* the lifecycle deadline has passed
    endAsked,   \* finalize or interrupt has been raised
    troubles,
    past,       \* history: a cleanup has begun; one of them or a start was blind;
                \* one of them has spared the process
    \* PortClaims
    owner, approval, portFiles, claimed, claimLock, claiming, freeing,
    \* WorkspaceCheckout
    reservation, swept, dir, marked, source, made, proven, checkedOut, checker, step,
    \* SupervisedProcess
    claim, claimOwner, home, supervisor, target, starts, processFiles, started,
    launch, sweep

P == INSTANCE PortClaims
W == INSTANCE WorkspaceCheckout WITH Checkers <- Handlers, NoChecker <- Nobody
A == INSTANCE SupervisedProcess WITH Launchers <- Handlers, NoLauncher <- Nobody

portVars == <<owner, approval, portFiles, claimed, claimLock, claiming, freeing>>
workspaceVars ==
    <<reservation, swept, dir, marked, source, made, proven, checkedOut, checker, step>>
processVars ==
    <<claim, claimOwner, home, supervisor, target, starts, processFiles, started,
      launch, sweep>>
opVars == <<stored, mem, written, late, endAsked, troubles, past>>
vars == <<opVars, portVars, workspaceVars, processVars>>

\* Resources in the order in which they are recorded; cleanup goes backwards.
Kinds == <<"ports", "homes", "workspace", "application">>
KindSet == {Kinds[i] : i \in 1 .. 4}

NoState == [status |-> "none", result |-> "none", resources |-> {}, cleaned |-> {},
            done |-> {}, browser |-> "none", complete |-> FALSE]
Idle == [pc |-> "idle", stale |-> FALSE, st |-> NoState, tried |-> {}, whole |-> TRUE]

Init ==
    /\ stored = NoState /\ mem = [h \in Handlers |-> Idle] /\ written = {}
    /\ late = FALSE /\ endAsked = FALSE
    /\ troubles = 0 /\ past = [undone |-> FALSE, blind |-> FALSE, spared |-> FALSE]
    /\ P!PortInit /\ approval = Nobody /\ W!WorkspaceInit /\ A!ProcessInit

At(h, pc) == mem[h].pc = pc
To(h, pc) == mem' = [mem EXCEPT ![h].pc = pc]
Quit(h) == mem' = [mem EXCEPT ![h] = Idle]
Effects == UNCHANGED <<portVars, workspaceVars, processVars>>
World == UNCHANGED <<late, endAsked>>
Outside == World /\ UNCHANGED <<troubles, past>>

\* A behaviour has at most MaxTroubles of what goes wrong by itself: a handler
\* that stops, one that begins while another is at work, the deadline, a start
\* that is refused or not registered in time, a process that cannot be started or
\* ends, one that is spared or given up though it runs.
Trouble(b) ==
    IF b THEN troubles < MaxTroubles /\ troubles' = troubles + 1 ELSE UNCHANGED troubles

\* An error: start cleans up what its copy of the state names; the other
\* handlers give up, and their event comes again.
Throws(h, st) ==
    IF h = "start" /\ st.resources # {}
    THEN mem' = [mem EXCEPT ![h] = [@ EXCEPT !.pc = "undo", !.st = st]]
    ELSE Quit(h)

\* save_state: a copy whose revision is not the stored one is not saved.
SwapAndGo(h, st, pc) ==
    /\ stored' = st
    /\ mem' = [g \in Handlers |->
                  IF g = h THEN (IF pc = "idle" THEN Idle
                                 ELSE [mem[g] EXCEPT !.st = st, !.pc = pc])
                  ELSE [mem[g] EXCEPT !.stale = @ \/ mem[g].pc # "idle"]]
Save(h, st, pc) ==
    IF mem[h].stale THEN Throws(h, st) /\ UNCHANGED stored ELSE SwapAndGo(h, st, pc)
\* A resource that is known is saved before the error it came with.
SaveAndThrow(h, st) == Save(h, st, IF h = "start" THEN "undo" ELSE "idle")
-----------------------------------------------------------------------------
(* The handlers begin; their events are raised until they are answered.    *)

\* recover_from_state_ref gives a blocked operation back as it is.
Begin(h, asked) ==
    /\ At(h, "idle") /\ asked
    /\ mem' = [mem EXCEPT ![h] =
                  [Idle EXCEPT !.st = stored,
                               !.pc = IF stored.result = "blocked" THEN "undo" ELSE "claim"]]
    /\ Trouble(\E g \in Handlers \ {h} : ~At(g, "idle"))
    /\ UNCHANGED <<stored, written, past>> /\ Effects /\ World

BeginStart == Begin("start", stored.result = "none" /\ stored.status # "pending")
\* A start that has been answered with the pending or the ready operation is
\* delivered again: it validates the operation before it repeats the answer.
RepeatStart ==
    Begin("start", \/ stored.result = "none" /\ stored.status = "pending"
                   \/ stored.result = "ready")
\* The gate is asked when start has returned.
BeginBrowser ==
    Begin("browser", stored.status = "pending" /\ stored.result = "none" /\ ~At("start", "pending"))
BeginEnd ==
    Begin("end", endAsked /\ stored.status # "none" /\ stored.result # "ended")

\* authorize_claim_ports, then the state and the ports in it.
ClaimStep(h) ==
    /\ At(h, "claim") /\ ~claimed /\ P!ClaimPorts(h)
    /\ IF claimLock = h /\ claimLock' # h /\ ~claimed' THEN Quit(h) ELSE UNCHANGED mem
    /\ UNCHANGED <<stored, written, workspaceVars, processVars>> /\ Outside

SaveClaim(h) ==
    /\ At(h, "claim") /\ claimed /\ claimLock # h
    /\ LET old == mem[h].st
           st == [old EXCEPT !.status = IF @ = "none" THEN "provisioning" ELSE @,
                             !.resources = @ \union {"ports"}]
       IN  Save(h, st, IF "homes" \in st.done THEN "checkout" ELSE "homes")
    /\ UNCHANGED written /\ Effects /\ Outside

\* effect_budget: no effect of a lifecycle begins after its deadline.
Expired(h) ==
    /\ late /\ mem[h].pc \in {"homes", "checkout", "application", "readiness", "attempt"}
    /\ Throws(h, mem[h].st)
    /\ UNCHANGED <<stored, written>> /\ Effects /\ Outside

Begun == {k \in {"workspace"} : reservation.state # "none"}
           \union {k \in {"application"} : claim # "none"}

\* An effect is begun blindly by a handler that has loaded the state before
\* another one saved it: what it begins may be cleaned up already.
Beginning(h) ==
    /\ World
    /\ past' = [past EXCEPT !.blind = @ \/ (mem[h].stale /\ Begun' # Begun)]

Call(h) ==
    /\ ~late
    /\ \/ At(h, "checkout") /\ To(h, "checkout called")
       \/ At(h, "application") /\ To(h, "application called")
    /\ UNCHANGED <<stored, written>> /\ Effects /\ Outside

SaveHomes(h) ==
    /\ At(h, "homes") /\ ~late
    /\ Save(h, [mem[h].st EXCEPT !.resources = @ \union {"homes"}, !.done = @ \union {"homes"}],
            "checkout")
    /\ UNCHANGED written /\ Effects /\ Outside

\* checkout is asked again by every handler, done or not.
CheckoutStep(h) ==
    /\ At(h, "checkout called") /\ checkedOut = "none" /\ W!Checkout(h)
    /\ IF checker = h /\ checker' # h /\ checkedOut' = "none"
       THEN Throws(h, mem[h].st) ELSE UNCHANGED mem
    /\ UNCHANGED <<stored, written, troubles, portVars, processVars>> /\ Beginning(h)

\* provision, where its checkpoints say it stopped.
Provision(st) ==
    IF "application" \notin st.done THEN "application"
    ELSE IF "readiness" \notin st.done THEN "readiness" ELSE "attempt"

\* Mutant: a pending operation is given back whoever asks for it.
AfterCheckoutPending(h, st) ==
    IF st.status = "pending" THEN "idle"
    ELSE IF h = "end" THEN "undo"
    ELSE IF h = "browser" THEN "browser" ELSE Provision(st)

AfterCheckout(h, st) ==
    IF h = "end" THEN "undo"
    ELSE IF h = "browser" THEN "browser"
    ELSE IF st.status = "pending" \/ st.result = "ready" THEN "idle" ELSE Provision(st)

\* Mutant: blocked is an answer like passed.
SaveCheckoutAnyway(h) ==
    /\ At(h, "checkout called") /\ checkedOut # "none" /\ checker # h
    /\ LET st == [mem[h].st EXCEPT !.resources = @ \union {"workspace"},
                                  !.done = @ \union {"checkout"}]
       IN  Save(h, st, AfterCheckout(h, st))
    /\ UNCHANGED written /\ Effects /\ Outside

SaveCheckout(h) ==
    /\ At(h, "checkout called") /\ checkedOut # "none" /\ checker # h
    /\ LET known == [mem[h].st EXCEPT !.resources = @ \union {"workspace"}]
           st == [known EXCEPT !.done = @ \union {"checkout"}]
       IN  IF checkedOut = "passed" THEN Save(h, st, AfterCheckout(h, st))
           ELSE SaveAndThrow(h, known)
    /\ UNCHANGED written /\ Effects /\ Outside
-----------------------------------------------------------------------------
(* provision.  Install, build, migrate, seed and the services before the   *)
(* application may fail like it, and all of them run in the workspace.     *)

\* resolveWorkspace.
Workspace == dir # W!NoDir /\ dir = reservation.dir

PhaseFails(h) ==
    /\ At(h, "application called") /\ started = "none" /\ launch.by # h
    /\ claim = "none" \/ ~Workspace
    /\ Throws(h, mem[h].st)
    /\ UNCHANGED <<stored, written>> /\ Effects /\ Outside

Revokes == claim' = "revoked" /\ claim # "revoked"

StartStep(h) ==
    /\ At(h, "application called") /\ started = "none"
    /\ (launch.by = h \/ Workspace) /\ A!Start(h)
    /\ IF launch.by = h /\ launch'.by # h /\ started' = "none"
       THEN Throws(h, mem[h].st) ELSE UNCHANGED mem
    /\ Trouble(launch'.pc = "refused"
               \/ (supervisor \notin {"none", "dead"} /\ (Revokes \/ launch'.seen = "registered")
                     /\ launch.seen = "none")
               \/ (launch.pc \in {"look", "verify", "check"} /\ launch'.pc = "blocked"
                     /\ A!GroupAlive' /\ (launch.pc = "check" => launch.seen = "running")))
    /\ UNCHANGED <<stored, written, portVars, workspaceVars>> /\ Beginning(h)

\* An answer without a cleanup reference is not recorded.
SaveApplication(h) ==
    /\ At(h, "application called") /\ started # "none" /\ launch.by # h
    /\ LET known == [mem[h].st EXCEPT !.resources = @ \union {"application"}]
           st == [known EXCEPT !.done = @ \union {"application"}]
       IN  CASE started = "running" -> Save(h, st, "readiness")
             [] started = "blocked" -> SaveAndThrow(h, known)
             [] OTHER -> Throws(h, mem[h].st) /\ UNCHANGED stored
    /\ UNCHANGED written /\ Effects /\ Outside

\* listenersOwnedByProcessGroup: every port has a listener, of the group's.
OwnsListeners == A!GroupAlive

WaitReady(h) ==
    /\ At(h, "readiness") /\ ~late
    /\ \/ OwnsListeners /\ Save(h, [mem[h].st EXCEPT !.done = @ \union {"readiness"}], "attempt")
       \/ Throws(h, mem[h].st) /\ UNCHANGED stored
    /\ UNCHANGED written /\ Effects /\ Outside

\* create_readiness_attempt.  The file of an earlier attempt, without an effect
\* record, may name another target of the browser, and is not replaced.
Attempt(h) ==
    /\ At(h, "attempt") /\ ~late
    /\ \/ Save(h, [mem[h].st EXCEPT !.status = "pending", !.complete = FALSE], "pending")
       \/ troubles > 0 /\ Throws(h, mem[h].st) /\ UNCHANGED stored
    /\ UNCHANGED written /\ Effects /\ Outside

\* provision saves once more.
SavePending(h) ==
    /\ At(h, "pending") /\ Save(h, mem[h].st, "idle")
    /\ UNCHANGED written /\ Effects /\ Outside
-----------------------------------------------------------------------------
(* handle_browser_readiness.                                               *)

Undo(h, st) == mem' = [mem EXCEPT ![h] = [@ EXCEPT !.pc = "undo", !.st = st]]

SaveBrowser(h) ==
    /\ At(h, "browser") /\ mem[h].st.browser = "none" /\ mem[h].st.status = "pending"
    /\ \E gate \in {"ready", "blocked"} :
          LET st == [mem[h].st EXCEPT !.browser = gate]
          IN  IF mem[h].stale THEN Undo(h, st) /\ UNCHANGED stored
              ELSE SwapAndGo(h, st, IF gate = "ready" THEN "ready" ELSE "undo")
    /\ UNCHANGED written /\ Effects /\ Outside

\* "foreign-browser-readiness-result".
RefuseBrowser(h) ==
    /\ At(h, "browser")
    /\ mem[h].st.browser # "none" \/ mem[h].st.status # "pending"
    /\ Quit(h) /\ UNCHANGED <<stored, written>> /\ Effects /\ Outside

PublishReady(h) ==
    /\ At(h, "ready")
    /\ written' = written \union {<<"ready", {}>>}
    /\ LET st == [mem[h].st EXCEPT !.status = "ready", !.result = "ready"]
       IN  IF mem[h].stale THEN Undo(h, mem[h].st) /\ UNCHANGED stored
           ELSE SwapAndGo(h, st, "idle")
    /\ Effects /\ Outside
-----------------------------------------------------------------------------
(* cleanup_resources: every resource in turn, whatever became of the last. *)

Left(h) == (mem[h].st.resources \ mem[h].st.cleaned) \ mem[h].tried
\* Mutant: in the order in which they were recorded.
TurnForward(h, k) ==
    /\ At(h, "undo") /\ k \in Left(h)
    /\ \A i, j \in 1 .. 4 : Kinds[i] = k /\ Kinds[j] \in Left(h) => i <= j

Turn(h, k) ==
    /\ At(h, "undo") /\ k \in Left(h)
    /\ \A i, j \in 1 .. 4 : Kinds[i] = k /\ Kinds[j] \in Left(h) => j <= i

\* Mutant: a cleanup that was tried is a cleanup that was done.
TriedIsDone(h, k, ok) ==
    LET st == [mem[h].st EXCEPT !.cleaned = @ \union {k}]
        saved == ~mem[h].stale
    IN  /\ stored' = IF saved THEN st ELSE stored
        /\ mem' = [g \in Handlers |->
                      IF g = h THEN [mem[g] EXCEPT !.st = st, !.tried = @ \union {k},
                                                   !.whole = @ /\ saved]
                      ELSE [mem[g] EXCEPT !.stale = @ \/ (saved /\ mem[g].pc # "idle")]]

\* The answer of one cleanup goes into the state, which is saved if it can be.
Tried(h, k, ok) ==
    LET st == [mem[h].st EXCEPT !.cleaned = IF ok THEN @ \union {k} ELSE @]
        saved == ~mem[h].stale
    IN  /\ stored' = IF saved THEN st ELSE stored
        /\ mem' = [g \in Handlers |->
                      IF g = h THEN [mem[g] EXCEPT !.st = st, !.tried = @ \union {k},
                                                   !.whole = @ /\ ok /\ saved]
                      ELSE [mem[g] EXCEPT !.stale = @ \/ (saved /\ mem[g].pc # "idle")]]

\* A cleanup is blind when an effect has begun that its state does not name; it
\* spares the process when it ends and leaves it alive.
Undoing(h) ==
    /\ World
    /\ past' = [undone |-> TRUE,
                blind |-> past.blind \/ ~(Begun \subseteq mem[h].st.resources),
                spared |-> past.spared \/ (sweep.by = h /\ sweep'.by # h /\ A!GroupAlive')]

\* A resource without a record is not cleaned: "resource record is unavailable".
\* A cleanup that throws is a cleanup that was tried, like one that has failed.
CleanApplication(h) ==
    /\ Turn(h, "application")
    /\ \/ /\ processFiles \in {"none", "cleaned"} /\ sweep.by # h
          /\ Tried(h, "application", processFiles = "cleaned") /\ UNCHANGED processVars
       \/ /\ A!CleanProcess(h)
          /\ IF sweep.by = h /\ sweep'.by # h
             THEN Tried(h, "application", processFiles' = "cleaned")
             ELSE UNCHANGED <<stored, mem>>
    /\ Trouble(sweep.pc = "stop" /\ sweep'.pc # "release" /\ Workspace /\ A!GroupAlive')
    /\ UNCHANGED <<written, portVars, workspaceVars>> /\ Undoing(h)

CleanWorkspace(h) ==
    /\ Turn(h, "workspace")
    /\ \/ W!SweepWorkspace /\ UNCHANGED <<stored, mem>>
       \/ W!RecordSwept /\ Tried(h, "workspace", TRUE)
       \/ /\ reservation.cleaned \/ ~swept
          /\ Tried(h, "workspace", reservation.cleaned) /\ UNCHANGED workspaceVars
    /\ UNCHANGED <<written, troubles, portVars, processVars>> /\ Undoing(h)

\* cleanupWorkerHomeLedger: nobody is asked whether a command still uses a home,
\* and a slot that was reserved but never filled is not released.
CleanHomes(h) ==
    /\ Turn(h, "homes")
    /\ \/ home' = (IF home = "none" THEN "none" ELSE "gone")
          /\ Tried(h, "homes", TRUE)
       \/ home' = home /\ Tried(h, "homes", FALSE)
    /\ UNCHANGED <<written, troubles, portVars, workspaceVars, claim, claimOwner,
                   supervisor, target, starts, processFiles, started, launch, sweep>>
    /\ Undoing(h)

CleanPorts(h) ==
    /\ Turn(h, "ports") /\ P!ReleasePorts(h)
    /\ IF claimLock = h /\ claimLock' # h THEN Tried(h, "ports", TRUE)
       ELSE UNCHANGED <<stored, mem>>
    /\ UNCHANGED <<written, troubles, workspaceVars, processVars>> /\ Undoing(h)

\* A receipt is written once: with other contents it cannot be written again.
Conflict(name, contents) == \E r \in written : r[1] = name /\ r[2] # contents

\* Where mark_blocked and terminate leave the operation.
Outcome(h) == IF h = "end" /\ mem[h].whole THEN "ended" ELSE "blocked"
SaveOrQuit(h, st, pc) ==
    IF mem[h].stale THEN Quit(h) /\ UNCHANGED stored ELSE SwapAndGo(h, st, pc)

\* persist_cleanup_receipt; nothing is answered without it.
CleanupReceipt(h) ==
    /\ At(h, "undo") /\ Left(h) = {}
    /\ LET name == IF mem[h].whole THEN "complete" ELSE "incomplete"
           lost == [mem[h].st EXCEPT !.status = "blocked", !.result = "none",
                                     !.complete = FALSE]
       IN  IF Conflict(name, mem[h].st.cleaned)
           THEN SaveOrQuit(h, lost, "idle") /\ UNCHANGED written
           ELSE /\ written' = written \union {<<name, mem[h].st.cleaned>>}
                /\ To(h, "receipt") /\ UNCHANGED stored
    /\ Effects /\ Outside

SaveCleanup(h) ==
    /\ At(h, "receipt")
    /\ SaveOrQuit(h, [mem[h].st EXCEPT !.status = Outcome(h), !.result = "none",
                                       !.complete = mem[h].whole],
                  "answer")
    /\ UNCHANGED written /\ Effects /\ Outside

\* The environment receipt, then the result.
Answer(h) ==
    /\ At(h, "answer")
    /\ IF Conflict(Outcome(h), mem[h].st.cleaned)
       THEN Quit(h) /\ UNCHANGED <<stored, written>>
       ELSE /\ written' = written \union {<<Outcome(h), mem[h].st.cleaned>>}
            /\ SaveOrQuit(h, [mem[h].st EXCEPT !.result = Outcome(h)], "idle")
    /\ Effects /\ Outside
-----------------------------------------------------------------------------
(* The world.                                                              *)

Expire ==
    /\ Expires /\ ~late /\ late' = TRUE /\ Trouble(TRUE)
    /\ UNCHANGED <<stored, mem, written, endAsked, past>> /\ Effects

AskEnd ==
    /\ ~endAsked /\ endAsked' = TRUE
    /\ UNCHANGED <<stored, mem, written, late, troubles, past>> /\ Effects

Crash(h) ==
    /\ ~At(h, "idle") /\ Trouble(TRUE)
    /\ Quit(h) /\ P!CrashPorts(h) /\ W!CrashWorkspace(h) /\ A!CrashLauncher(h)
    /\ World /\ UNCHANGED <<stored, written, past>>

ElsewhereToo == World /\ UNCHANGED <<stored, mem, written, past, portVars, workspaceVars>>
Supervise ==
    /\ A!Supervise /\ ElsewhereToo
    /\ Trouble(supervisor' = "spawned" /\ target' = "none")
ProcessFault == A!ProcessFaults /\ Trouble(TRUE) /\ ElsewhereToo

Handle(h) ==
    \/ ClaimStep(h) \/ SaveClaim(h) \/ Call(h) \/ Expired(h) \/ SaveHomes(h) \/ CheckoutStep(h)
    \/ SaveCheckout(h) \/ PhaseFails(h) \/ StartStep(h) \/ SaveApplication(h)
    \/ WaitReady(h) \/ Attempt(h) \/ SavePending(h) \/ SaveBrowser(h) \/ RefuseBrowser(h)
    \/ PublishReady(h)
    \/ CleanApplication(h) \/ CleanWorkspace(h) \/ CleanHomes(h) \/ CleanPorts(h)
    \/ CleanupReceipt(h) \/ SaveCleanup(h) \/ Answer(h)

Next ==
    \/ BeginStart \/ RepeatStart \/ BeginBrowser \/ BeginEnd
    \/ \E h \in Handlers : Handle(h) \/ Crash(h)
    \/ Expire \/ AskEnd \/ Supervise \/ ProcessFault

Spec == Init /\ [][Next]_vars

\* Events are raised again until they are answered, and a handler that runs goes
\* on; nothing makes it stop.
Fairness ==
    /\ SF_vars(BeginStart) /\ SF_vars(BeginBrowser) /\ SF_vars(BeginEnd)
    /\ \A h \in Handlers : WF_vars(Handle(h))
    /\ WF_vars(Supervise)
FairSpec == Spec /\ Fairness
-----------------------------------------------------------------------------
Results == {"none", "ready", "blocked", "ended"}
States ==
    [status : {"none", "provisioning", "pending", "ready", "blocked", "ended"},
     result : Results, resources : SUBSET KindSet, cleaned : SUBSET KindSet,
     done : SUBSET {"homes", "checkout", "application", "readiness"},
     browser : {"none", "ready", "blocked"}, complete : BOOLEAN]
Points == {"idle", "claim", "homes", "checkout", "checkout called", "application",
           "application called", "readiness", "attempt", "pending", "browser", "ready",
           "undo", "receipt", "answer"}

\* Every variable of the operation and of its effects keeps its range (state of
\* core.lua, records of the runtime).
OperationTypeOK ==
    /\ P!PortTypeOK /\ W!WorkspaceTypeOK /\ A!ProcessTypeOK
    /\ stored \in States
    /\ mem \in [Handlers -> [pc : Points, stale : BOOLEAN, st : States,
                             tried : SUBSET KindSet, whole : BOOLEAN]]
    /\ written \subseteq {"ready", "complete", "incomplete", "blocked", "ended"}
                            \X SUBSET KindSet
    /\ late \in BOOLEAN /\ endAsked \in BOOLEAN /\ troubles \in 0 .. MaxTroubles
    /\ past \in [undone : BOOLEAN, blind : BOOLEAN, spared : BOOLEAN]

Gone(k) ==
    CASE k = "ports" -> \A p \in Ports : owner[p] # P!Operation
      [] k = "homes" -> home \notin {"leased", "reserved"}
      [] k = "workspace" -> dir = W!NoDir
      [] k = "application" -> ~A!GroupAlive

\* A complete cleanup leaves nothing behind, be it in the state of the operation
\* or not: no port, no home, no workspace, no process (cleanup_resources of
\* core.lua, cleanup of the runtime).  Except for a cleanup that overlapped the
\* start it cleans up after, or followed a start that stopped between an effect
\* and the checkpoint that names it.
NothingLeft ==
    stored.complete /\ stored.result # "none" /\ ~past.blind => \A k \in KindSet : Gone(k)

\* An operation is ready (handle_browser_readiness) only with all of its
\* resources recorded and in place, as long as nobody has begun to clean up: the
\* ports owned, the commit checked out, the home leased, the process on record.
ReadyMeansUp ==
    stored.result = "ready" /\ ~past.undone =>
        /\ stored.resources = KindSet
        /\ P!ClaimComplete /\ claimed /\ ~freeing
        /\ W!CheckoutWhole /\ checkedOut = "passed" /\ ~swept
        /\ processFiles = "present" /\ home = "leased"

\* A process never outlives the home it works in (cleanup in reverse order),
\* unless its own cleanup has spared it: cleanup_resources goes on to the homes
\* all the same.
HomeOutlives == target = "alive" /\ ~past.blind /\ ~past.spared => home = "leased"

\* The answer of a start that has left a process alive has a record by which
\* cleanup finds the process (runArgvEffect); a process that was spared keeps it,
\* and does not count as cleaned.
TargetKnown ==
    target = "alive" /\ ~past.blind /\ started \in {"running", "blocked"} =>
        processFiles = "present" /\ "application" \notin stored.cleaned

-----------------------------------------------------------------------------
(* The inductive invariant behind it.                                      *)

\* Ports are claimed once and released after that; what a release has gone over,
\* and what is released, is not the operation's any more.
ClaimedOnce ==
    /\ claiming.pc \in {"claim", "owners", "approval", "record"} => ~claimed
    /\ freeing \/ claiming.pc = "release" \/ portFiles = "cleaned" => claimed
    /\ claiming.pc = "release" => \A p \in Ports \ claiming.ports : owner[p] # P!Operation
    /\ portFiles = "cleaned" => \A p \in Ports : owner[p] # P!Operation

\* Nothing is checked out or started before the workspace is reserved.
ReservedFirst ==
    reservation.state = "none" =>
        /\ step \in {"none", "look"} /\ checkedOut = "none" /\ dir = W!NoDir
        /\ claim = "none" /\ launch = A!NoLaunch

\* How far the startup claim is by each step of a launch, and what a cleanup of
\* the process has found.
Published == claim \notin {"none", "allocating", "preparing"}
Handed == Published /\ claim # "prepared"
LaunchKnown ==
    /\ claim = "none" => home \in {"none", "gone"}
    /\ launch.pc \in {"unlock", "poll"} => Published
    /\ launch.pc \in {"verify", "files", "check"} \/ processFiles # "none" => Handed
    /\ launch.pc \in {"running", "blocked"} \/ started \in {"running", "blocked"}
         => claim # "prepared"
    /\ launch.pc = "check" \/ sweep.pc # "none" => processFiles # "none"
    /\ \A h \in Handlers : launch.by = h => At(h, "application called")

\* Until somebody begins to clean up, what was started stands.
UpUntilUndone ==
    \/ past.undone
    \/ /\ ~freeing /\ ~swept /\ sweep.pc = "none" /\ processFiles # "cleaned"
       /\ launch.pc \in {"files", "check", "running"} \/ started = "running" => home = "leased"
       /\ launch.pc \in {"check", "running"} \/ started = "running" => processFiles = "present"

\* There is a target, or there may still be one.
Live ==
    \/ target = "alive" \/ supervisor = "registered" \/ claim = "prepared"
    \/ launch.pc \in {"prepare", "publish"}
Settled == started \in {"running", "blocked"}

\* A live process has its home; an answer without a record leaves none, and a
\* cleanup that was tried leaves none either, unless it has spared it.
HomeKept ==
    /\ past.spared => Settled
    /\ \/ past.blind
       \/ /\ Live => home = "leased" \/ past.spared
          /\ (launch.pc \in {"running", "blocked"} \/ Settled) /\ processFiles = "none" => ~Live
          /\ \A h \in Handlers :
                "application" \in mem[h].tried => Settled /\ (~Live \/ past.spared)

\* What a copy of the state says is so, however old it is.
Known(st) ==
    /\ st.resources # {} \/ st.result # "none" => "ports" \in st.resources
    /\ "ports" \in st.resources => claimed
    /\ "workspace" \in st.resources => checkedOut # "none"
    /\ "application" \in st.resources => Settled
    /\ "homes" \in st.done => "homes" \in st.resources
    /\ "checkout" \in st.done => "workspace" \in st.resources /\ checkedOut = "passed"
    /\ "application" \in st.done => "application" \in st.resources /\ started = "running"
    /\ st.status \in {"pending", "ready"} \/ st.result = "ready"
         => {"homes", "checkout", "application"} \subseteq st.done
    /\ "ports" \in st.cleaned => portFiles = "cleaned"
    /\ "workspace" \in st.cleaned => reservation.cleaned
    /\ "application" \in st.cleaned => processFiles = "cleaned"

\* What a handler has done by each step.
Undoes == {"undo", "receipt", "answer"}
Reached(h) ==
    /\ ~At(h, "idle") /\ ~At(h, "claim") => "ports" \in mem[h].st.resources
    /\ mem[h].pc \in {"checkout", "checkout called"} => "homes" \in mem[h].st.done
    /\ mem[h].pc \in {"application", "application called", "readiness", "attempt", "browser"}
         => {"homes", "checkout"} \subseteq mem[h].st.done
    /\ mem[h].pc \in {"readiness", "attempt"} => "application" \in mem[h].st.done
    /\ mem[h].pc \in {"pending", "ready"} => mem[h].st.status = "pending"
    /\ mem[h].pc \notin Undoes => mem[h].tried = {} /\ mem[h].st.result \notin {"blocked", "ended"}
    /\ mem[h].whole => mem[h].tried \subseteq mem[h].st.cleaned
    /\ mem[h].whole /\ mem[h].pc \in {"receipt", "answer"}
         => mem[h].st.resources \subseteq mem[h].st.cleaned

\* A copy that can be saved is the stored state, and one handler at most has got
\* past its claim with such a copy, unless the others undo what is blocked.
FreshCopies ==
    /\ \A h \in Handlers : ~At(h, "idle") /\ ~mem[h].stale => mem[h].st = stored
    /\ \A g, h \in Handlers :
          /\ g # h /\ mem[g].pc \notin {"idle", "claim"} \union Undoes
          /\ mem[h].pc \notin {"idle", "claim"}
          => mem[g].stale \/ mem[h].stale

\* No workspace can be reserved any more, no process launched, but blindly.
NoCheckout ==
    /\ reservation.state = "none" /\ late
    /\ \A h \in Handlers : At(h, "checkout called") => mem[h].stale
NoLaunching == claim = "none" /\ \A h \in Handlers : launch.by = h => mem[h].stale

\* What the state does not name when it is cleaned up has not begun, and will not.
CleanedInTime ==
    \/ past.blind
    \/ /\ /\ reservation.state = "none"
          /\ \/ stored.result = "blocked"
             \/ \E h \in Handlers : mem[h].pc \in Undoes /\ ~mem[h].stale
          => NoCheckout
       /\ stored.cleaned # {} /\ "workspace" \notin stored.resources => NoCheckout
       /\ "workspace" \in stored.cleaned /\ "application" \notin stored.resources
            => NoLaunching
       /\ stored.complete =>
            /\ portFiles = "cleaned"
            /\ reservation.cleaned \/ NoCheckout
            /\ processFiles = "cleaned" \/ NoLaunching

OperationInv ==
    /\ OperationTypeOK /\ P!PortInv /\ W!WorkspaceInv /\ A!ProcessInv
    /\ ClaimedOnce /\ ReservedFirst /\ LaunchKnown /\ UpUntilUndone /\ HomeKept
    /\ Known(stored) /\ \A h \in Handlers : Known(mem[h].st) /\ Reached(h)
    /\ FreshCopies /\ CleanedInTime

\* No process of the operation is without a record, and none that no cleanup has
\* spared is without its home; no variable leaves its range, and the inductive
\* invariant holds.
NoStrayProcess == HomeOutlives /\ TargetKnown /\ OperationInv
-----------------------------------------------------------------------------
\* What keeps an event from being answered for good: the deadline has passed, the
\* checkout is on record as blocked and every handler validates it again, or an
\* incomplete cleanup is on record in a receipt that no other one can replace.
Incomplete == \E r \in written : r[1] = "incomplete"
Wedged == late \/ checkedOut = "blocked" \/ Incomplete

\* A start that stops and is delivered again comes to an answer (start).
StartAnswered == <>(stored.status = "pending" \/ stored.result # "none" \/ Wedged)

\* Finalize or interrupt is answered, whatever it met (terminate).
EndAnswered == endAsked ~> (stored.result \in {"blocked", "ended"} \/ Wedged)

\* The browser gate of a pending operation is heard (handle_browser_readiness).
\* What comes after it may be lost: a handler that stops once it has saved the
\* answer of the gate leaves an operation that refuses every later delivery.
BrowserHeard ==
    stored.status = "pending" ~> (stored.browser # "none" \/ stored.result # "none" \/ Wedged)

\* Start, the browser gate, finalize and interrupt: every event is answered.
EventsAnswered == StartAnswered /\ EndAnswered /\ BrowserHeard

\* contracts/environment-factory.v1.md:100: cleanup still receives the remaining
\* budget and the approved cleanup timeout when the budget of the provisioning
\* is exhausted.  terminate asks for the checkout again before it cleans up, and
\* that is refused after the deadline.
EndedAfterDeadline ==
    endAsked /\ stored.status # "none" ~>
        stored.result \in {"blocked", "ended"} \/ checkedOut = "blocked" \/ Incomplete
=============================================================================
