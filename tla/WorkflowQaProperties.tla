------------------------ MODULE WorkflowQaProperties ------------------------
(***************************************************************************)
(* What must hold of the saga of module WorkflowQa.                        *)
(***************************************************************************)
EXTENDS WorkflowQa

TypeOK ==
    /\ st \in RunStates
    /\ summary \in Summaries
    /\ proof \in Proofs \union {"none"}
    /\ raised \subseteq Requests
    /\ environment \in [start : {"none"} \union StartOutcomes,
                        cleanup : {"none"} \union CleanupOutcomes]
    /\ receipts \subseteq Receipts
    /\ worker \in [Workers -> Handlers]
    /\ interrupts \in 0 .. MaxInterrupts
    /\ crashes \in 0 .. MaxCrashes

Asked(queue) == \E r \in raised : r.queue = queue
Published(stage) == Receipt(stage, 1) \in receipts
ReleasedEnvironment ==
    environment.cleanup = "complete" \/ environment.start = "blocked-complete"

\* States a run may stay in although it should go on: see the README.  The
\* third one is met in passing by every run, from the write of the proof to the
\* save; when the save is lost, only the same proof is accepted, a browser that
\* is blocked, or an interrupt.
LeaseLeftBehind == st.phase = "cleanup-pending" /\ st.lease # NoLease
SummaryConflict ==
    /\ st.phase = "environment-pending"
    /\ summary \notin {NoSummary, SummaryOf(Closing(st))}
ProofUnsaved == st.phase = "browser-readiness-pending" /\ proof # "none"
Settled == st.phase \in {"terminal", "cleanup-blocked"}

-----------------------------------------------------------------------------
(* Safety.                                                                 *)

\* An executor is asked to run only after the environment was ready, a grant
\* was requested and the checkpoint of every earlier stage was published,
\* however events were repeated, reordered or cut short.
ExecutionAuthorized ==
    Asked("structured_execution_request") \/ Asked("ai_browser_control_request")
    => /\ environment.start = "ready"
       /\ Asked("execution_grant_request")
       /\ \A stage \in {"intake", "environment-ready", "design-round",
                        "browser-readiness", "design-closure"} : Published(stage)

\* The Host is told a run is terminal only after the environment is released
\* and both the cleanup checkpoint and the aggregate report are published.
TerminalAudited ==
    Asked("terminal_request")
    => /\ ReleasedEnvironment
       /\ Published("cleanup")
       /\ Published("aggregate-report")

\* The terminal summary that was published says what the terminal record says.
TerminalMatchesSummary ==
    st.phase = "terminal"
    => /\ summary = st.summary
       /\ summary.status = st.status
       /\ summary.interruption = st.interruption

\* A recorded interruption decides the outcome of the run, whichever results
\* were on their way when it arrived.
InterruptionDecides ==
    st.interruption # "none" /\ st.phase \in {"cleanup-pending",
                                              "publication-pending", "terminal"}
    => st.status = st.interruption

\* A run with failing cases gives its environment up only after the defect
\* receipt is published, unless it was interrupted.
DefectsBeforeCleanup ==
    /\ st.tested = "failed" /\ st.interruption = "none"
    /\ Asked("environment_finalize") \/ Asked("environment_interrupt")
    => Published("defect-publication")

\* environment-factory is asked to finalize or to interrupt, never both, except
\* when an interrupt hits the cleanup checkpoint and the run stops for good.
OneTermination ==
    Asked("environment_finalize") /\ Asked("environment_interrupt")
    => LeaseLeftBehind

\* A run with failing cases gives its environment up after its defects are
\* published, and asks for the end of it in one way only.
EndsOnce == DefectsBeforeCleanup /\ OneTermination

\* No stage is checkpointed twice: the aggregate expectation and the receipt
\* names count on attempt 1.
StagesOnce == \A stage \in Stages : st.attempts[stage] <= 1

-----------------------------------------------------------------------------
(* The inductive invariant behind the safety properties.                   *)

\* What a stage's checkpoint may lead to.
Follows ==
    {<<"intake", "environment-pending", {Request("environment_start")}>>,
     <<"environment-ready", "analysis-pending", {Request("analysis_request")}>>,
     <<"design-round", "browser-readiness-pending",
       {Request("browser_readiness_check")}>>,
     <<"browser-readiness", "module-pending", {Request("module_start")}>>,
     <<"design-closure", "structured-plan-pending",
       {Request("structured_plan_request")}>>,
     <<"execution-batch", "defects-pending",
       {Request("defect_preparation_request")}>>,
     <<"execution-batch", "cleanup-pending", {Request("environment_finalize")}>>,
     <<"execution-batch", "cleanup-pending", {Request("environment_interrupt")}>>,
     <<"defect-publication", "cleanup-pending",
       {Request("environment_finalize")}>>,
     <<"defect-publication", "cleanup-pending",
       {Request("environment_interrupt")}>>,
     <<"cleanup", "publication-pending", {Request("qa_finalize_request")}>>}

\* The phase the run is in, or is about to enter.
Target(s) == IF s.phase = "checkpoint-pending" THEN s.lease.phase ELSE s.phase

LeaseFits(s) ==
    /\ s.phase = "checkpoint-pending" => s.lease # NoLease
    /\ s.lease # NoLease =>
         /\ s.phase \in {"checkpoint-pending", "cleanup-pending",
                        "cleanup-blocked"}
         /\ s.lease.attempt = 1
         /\ <<s.lease.stage, s.lease.phase, s.lease.actions>> \in Follows

\* The phases before execution that come after a stage's checkpoint.
AfterClosure == {"structured-plan-pending", "execution-grant-pending",
                 "structured-execution-pending", "browser-control-pending"}
AfterReadiness == AfterClosure \union {"module-pending"}
AfterDesign == AfterReadiness \union {"browser-readiness-pending"}
AfterEnvironment == AfterDesign \union {"analysis-pending"}
AfterIntake == AfterEnvironment \union {"environment-pending"}

\* Every stage up to here is published, but for the one in flight.
Passed(s, stage) ==
    Published(stage) \/ (s.phase = "checkpoint-pending" /\ s.lease.stage = stage)
StagesPassed(s) ==
    /\ Target(s) \in AfterIntake      => Passed(s, "intake")
    /\ Target(s) \in AfterEnvironment => Passed(s, "environment-ready")
    /\ Target(s) \in AfterDesign      => Passed(s, "design-round")
    /\ Target(s) \in AfterReadiness   => Passed(s, "browser-readiness")
    /\ Target(s) \in AfterClosure     => Passed(s, "design-closure")

\* The phases in which a stage's checkpoint is still to come.
BeforeEnvironment == {"absent", "environment-pending"}
BeforeDesign == BeforeEnvironment \union {"analysis-pending"}
BeforeReadiness == BeforeDesign \union {"browser-readiness-pending"}
BeforeClosure == BeforeReadiness \union {"module-pending"}
BeforeBatch == BeforeClosure \union AfterClosure
                             \union {"artifact-summary-pending"}
BeforeDefects == BeforeBatch \union {"defects-pending"}
BeforeCleanup == BeforeDefects \union {"cleanup-pending"}

\* Each stage is attempted at most once, and not before its phase; only the
\* lease an interrupt left behind may belong to a stage that is still to come.
Attempted(s) ==
    /\ \A stage \in Stages : s.attempts[stage] <= 1
    /\ s.phase # "cleanup-pending" \/ s.lease = NoLease =>
         /\ Target(s) = "absent"           => s.attempts["intake"] = 0
         /\ Target(s) \in BeforeEnvironment => s.attempts["environment-ready"] = 0
         /\ Target(s) \in BeforeDesign      => s.attempts["design-round"] = 0
         /\ Target(s) \in BeforeReadiness   => s.attempts["browser-readiness"] = 0
         /\ Target(s) \in BeforeClosure     => s.attempts["design-closure"] = 0
         /\ Target(s) \in BeforeBatch       => s.attempts["execution-batch"] = 0
         /\ Target(s) \in BeforeDefects     => s.attempts["defect-publication"] = 0
         /\ Target(s) \in BeforeCleanup     => s.attempts["cleanup"] = 0

EnvironmentKnown(s) ==
    /\ s.env = "ready" => environment.start = "ready"
    /\ Target(s) \in AfterEnvironment => s.env = "ready"
    /\ Target(s) \in {"publication-pending", "terminal"} => ReleasedEnvironment
    /\ s.phase \in {"publication-pending", "terminal"} => Published("cleanup")

RunInv(s) ==
    LeaseFits(s) /\ StagesPassed(s) /\ Attempted(s) /\ EnvironmentKnown(s)

\* What must be true before a request is made.
Warranted(r) ==
    /\ r.queue \in {"structured_execution_request", "ai_browser_control_request"}
       => /\ environment.start = "ready"
          /\ Asked("execution_grant_request")
          /\ \A stage \in {"intake", "environment-ready", "design-round",
                           "browser-readiness", "design-closure"} :
                Published(stage)
    /\ r.queue = "terminal_request"
       => /\ ReleasedEnvironment
          /\ Published("cleanup")
          /\ Published("aggregate-report")

\* An event in a handler says what its sender persisted or was asked.
Genuine(m) ==
    /\ m \in Receipts => m \in receipts
    /\ m.type = "environment" => \/ environment.start = m.outcome
                                \/ environment.cleanup = m.outcome
    /\ m.type = "grant" => Asked("execution_grant_request")

Active(w) == worker[w].stage \in {"loaded", "proved", "written"}

\* A handler that loaded the current version holds the current run.
HandlerInv(w) ==
    /\ \A r \in worker[w].out \union worker[w].snap.pending : Warranted(r)
    /\ Active(w) =>
         /\ worker[w].snap.version <= st.version
         /\ worker[w].snap.version = st.version => worker[w].snap = st
         /\ Genuine(worker[w].msg)
         /\ worker[w].stage = "proved" =>
               /\ worker[w].snap.phase = "browser-readiness-pending"
               /\ worker[w].snap.interruption = "none"
               /\ worker[w].msg.type = "readiness" /\ worker[w].msg.outcome = proof
         /\ worker[w].stage = "written" =>
               /\ worker[w].msg.type = "environment"
               /\ worker[w].snap.phase \in {"environment-pending",
                                            "cleanup-pending"}
               /\ CleanupStatus(worker[w].msg) = "complete"

Inv ==
    /\ TypeOK
    /\ RunInv(st)
    /\ \A r \in raised \union st.pending : Warranted(r)
    /\ \A w \in Workers : HandlerInv(w)

-----------------------------------------------------------------------------
(* The inductive invariant behind how a run ends, on top of Inv.           *)

Terminations == {"environment_finalize", "environment_interrupt"}
TerminationOf(s) == IF s.interruption = "none" THEN "environment_finalize"
                                               ELSE "environment_interrupt"

\* The run has asked for the end of its environment, or learnt of it.
CleanupReached(s) ==
    \/ s.phase \in {"cleanup-pending", "cleanup-blocked", "publication-pending",
                    "terminal"}
    \/ s.phase = "checkpoint-pending" /\ s.lease.stage = "cleanup"

\* An interrupt has hit the cleanup checkpoint: the run stops here.
StoppedInCleanup(s) == s.phase = "cleanup-pending" /\ s.lease.stage = "cleanup"

\* The outcome is known once the run cleans up, and a recorded interruption is
\* the outcome.
OutcomeKnown(s) ==
    /\ Target(s) \in {"cleanup-pending", "publication-pending", "terminal"}
       => /\ s.status # "none"
          /\ s.interruption # "none" => s.status = s.interruption
    /\ s.phase = "checkpoint-pending" /\ s.lease.phase = "cleanup-pending"
       => s.lease.actions = {Request(TerminationOf(s))}

\* Failing cases are on their way to a defect receipt, or have one.
FailuresFollowed(s) ==
    /\ s.tested = "failed" /\ s.interruption = "none"
       => Target(s) = "defects-pending" \/ Passed(s, "defect-publication")
    /\ Target(s) = "defects-pending" => s.tested # "none"

\* How the environment stands while and after the run gives it up.
EnvironmentLeft(s) ==
    /\ Target(s) \in {"artifact-summary-pending", "defects-pending",
                     "cleanup-pending"} => s.env = "ready"
    /\ StoppedInCleanup(s) => environment.cleanup = "complete"
    /\ s.phase = "cleanup-blocked" =>
         IF s.env = "ready" THEN environment.cleanup = "incomplete"
                            ELSE environment.start = "blocked-incomplete"

\* The summary that was written is the one the run was given, and is its last.
SummaryKept(s) ==
    Target(s) \in {"publication-pending", "terminal"}
    => /\ summary = s.summary
       /\ summary.status = s.status
       /\ summary.interruption = s.interruption

EndOf(s) ==
    OutcomeKnown(s) /\ FailuresFollowed(s) /\ EnvironmentLeft(s) /\ SummaryKept(s)

\* A request is made by a run that has begun; the environment's end is asked for
\* by one that cleans up, in the one way that fits its interruption.
Timely(s, r) ==
    /\ s.phase # "absent"
    /\ r.queue \in Terminations =>
         /\ CleanupReached(s)
         /\ s.env = "ready"
         /\ r.queue = TerminationOf(s) \/ StoppedInCleanup(s)

EndInv ==
    /\ EndOf(st)
    /\ \A r \in raised \union st.pending : Timely(st, r)
    /\ \A w \in Workers :
         /\ \A r \in worker[w].out \union worker[w].snap.pending :
              Timely(st, r)
         /\ worker[w].stage = "written" =>
               summary = SummaryOf(Closing(worker[w].snap))
    /\ environment.cleanup # "none" => \E r \in raised : r.queue \in Terminations

\* What the proofs of the saga rest on.
SagaInv == Inv /\ EndInv

-----------------------------------------------------------------------------
(* Steps.                                                                  *)

PhaseRank(phase) ==
    CASE phase = "absent"                       -> 0
      [] phase = "environment-pending"          -> 2
      [] phase = "analysis-pending"             -> 4
      [] phase = "browser-readiness-pending"    -> 6
      [] phase = "module-pending"               -> 8
      [] phase = "structured-plan-pending"      -> 10
      [] phase = "execution-grant-pending"      -> 12
      [] phase = "structured-execution-pending" -> 14
      [] phase = "browser-control-pending"      -> 14
      [] phase = "artifact-summary-pending"     -> 16
      [] phase = "defects-pending"              -> 18
      [] phase = "cleanup-pending"              -> 20
      [] phase = "cleanup-blocked"              -> 22
      [] phase = "publication-pending"          -> 22
      [] phase = "terminal"                     -> 24

\* A checkpoint stands just before the phase it leads to.
RunRank(s) ==
    IF s.phase = "checkpoint-pending" THEN PhaseRank(s.lease.phase) - 1
                                      ELSE PhaseRank(s.phase)

\* A late, repeated or reordered event never takes the run back to an earlier
\* phase, except that an interrupt takes the cleanup checkpoint back.
ForwardOnly == [][RunRank(st) <= RunRank(st') \/ LeaseLeftBehind']_st

\* An interruption that was recorded is never overwritten by the result of a
\* handler that loaded the run before it: the run stays interrupted, although a
\* later interrupt may replace the kind (handle_interrupt).
InterruptionKept ==
    [][st.interruption # "none" => st'.interruption # "none"]_st

\* A settled run never changes again.
SettledForGood == [][~Settled]_st

-----------------------------------------------------------------------------
(* Progress, under FairSpec.                                               *)

\* Whatever crashes and is repeated, a run ends or is blocked by incomplete
\* cleanup, unless it stays for good in one of the three states it may not get
\* out of; to pass through one of them excuses nothing.
EventuallySettled ==
    <>Settled \/ <>[]LeaseLeftBehind \/ <>[]SummaryConflict \/ <>[]ProofUnsaved

\* A request that was saved but not raised when the process stopped is raised
\* by a later tick, unless the run has moved on.
PendingRaised == []<>(st.pending \subseteq raised)

-----------------------------------------------------------------------------
(* What the saga promises the Host: module QaLifecycle.                    *)

LifecycleStage(s) ==
    CASE s.phase = "absent" -> "absent"
      [] s.phase = "terminal" -> "done"
      [] s.phase = "cleanup-blocked" -> "blocked"
      [] s.phase = "publication-pending" -> "reporting"
      [] s.phase = "cleanup-pending" -> "releasing"
      [] s.phase = "checkpoint-pending" /\ s.lease.stage = "cleanup"
           -> "releasing"
      [] OTHER -> "running"

Lifecycle ==
    INSTANCE QaLifecycle WITH
        Outcomes <- Statuses \ {"none"},
        stage <- LifecycleStage(st),
        released <- ReleasedEnvironment,
        outcome <- IF LifecycleStage(st) \in {"reporting", "done"}
                   THEN st.status ELSE "none"

\* The detailed saga implements the lifecycle it promises.
LifecycleSpec == Lifecycle!Spec
=============================================================================
