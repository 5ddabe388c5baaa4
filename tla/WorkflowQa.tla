----------------------------- MODULE WorkflowQa -----------------------------
(***************************************************************************)
(* The durable QA saga of packages/workflow-qa: one run, whose state lives *)
(* in one compare-and-swap record.  Every event handler loads the record,  *)
(* computes, saves with the version it loaded, and only then raises the    *)
(* requests it returned.  Handlers of several events run concurrently and  *)
(* may stop between any two of those steps.                                *)
(*                                                                         *)
(* Events are delivered at least once and in any order: `raised`, the      *)
(* requests handed to the other packages, only grows, and any member may be *)
(* answered at any time and any number of times, or never.                 *)
(***************************************************************************)
EXTENDS Naturals, FiniteSets

CONSTANTS
    Workers,        \* department instances that handle events concurrently
    Interruptions,  \* the interruptions the Host may send
    Answers,        \* the results the analysis, testing and defect packages give
    MaxInterrupts,  \* bound: interrupt events delivered to the run
    MaxCrashes      \* bound: handlers that stop before they finish

ASSUME BoundsAssumption ==
    /\ MaxInterrupts \in Nat
    /\ MaxCrashes \in Nat

ASSUME InterruptionsAssumption ==
    Interruptions \subseteq {"cancelled", "interrupted", "timed-out"}

-----------------------------------------------------------------------------
(* Phases, checkpoint stages and the requests a run raises.                *)

Phases ==
    {"absent", "checkpoint-pending", "environment-pending", "analysis-pending",
     "browser-readiness-pending", "module-pending", "structured-plan-pending",
     "execution-grant-pending", "structured-execution-pending",
     "browser-control-pending", "artifact-summary-pending", "defects-pending",
     "cleanup-pending", "cleanup-blocked", "publication-pending", "terminal"}

Stages ==
    {"intake", "environment-ready", "design-round", "browser-readiness",
     "design-closure", "execution-batch", "defect-publication", "cleanup"}

Queues ==
    {"environment_start", "analysis_request", "browser_readiness_check",
     "module_start", "structured_plan_request", "execution_grant_request",
     "structured_execution_request", "ai_browser_control_request",
     "testing_result", "defect_preparation_request", "environment_finalize",
     "environment_interrupt", "qa_checkpoint_request", "qa_finalize_request",
     "terminal_request"}

\* A raised request; only checkpoint requests carry a stage and an attempt.
Requests == [queue : Queues, stage : Stages \union {"none"}, attempt : Nat]
Request(queue) == [queue |-> queue, stage |-> "none", attempt |-> 0]
CheckpointRequest(stage, attempt) ==
    [queue |-> "qa_checkpoint_request", stage |-> stage, attempt |-> attempt]

(* Events that handlers consume.  A receipt's outcome is its stage.  A      *)
(* summary "failed" has failing cases and "degraded" has none but did not   *)
(* pass; a "missing" one has no case results.  A browser that is ready is   *)
(* proved anew by every probe; that a proof differs is all there is to it.  *)
StartOutcomes == {"ready", "blocked-complete", "blocked-incomplete"}
CleanupOutcomes == {"complete", "incomplete"}
Proofs == {"proof", "another-proof"}

Events(type, outcomes) == [type : {type}, outcome : outcomes, attempt : {0}]
EnvironmentEvents == Events("environment", StartOutcomes \union CleanupOutcomes)
AnswerEvents ==
    Events("analysis", {"complete"})
    \union Events("readiness", Proofs \union {"blocked"})
    \union Events("module", {"passed", "blocked"})
    \union Events("plan", {"structured", "browser", "blocked"})
    \union Events("grant", {"granted", "denied"})
    \union Events("execution", {"structured", "browser"})
    \union Events("summary", {"passed", "failed", "degraded", "blocked", "missing"})
    \union Events("defects", {"published", "blocked"})
ASSUME AnswersAssumption == Answers \subseteq AnswerEvents

Receipts == [type : {"receipt"}, attempt : Nat,
             outcome : Stages \union {"none", "aggregate-report"}]

Messages ==
    EnvironmentEvents \union AnswerEvents \union Receipts
    \union Events("interrupt", Interruptions)
    \union Events("tick", {"none"})
    \union Events("none", {"none"})
Event(type, outcome) == [type |-> type, outcome |-> outcome, attempt |-> 0]
Receipt(stage, attempt) ==
    [type |-> "receipt", outcome |-> stage, attempt |-> attempt]

\* The lease of the single checkpoint in flight, with what follows it.
Leases == [stage : Stages \union {"none"}, attempt : Nat,
           phase : Phases, actions : SUBSET Requests]
NoLease == [stage |-> "none", attempt |-> 0, phase |-> "absent", actions |-> {}]

\* What the terminal summary says of the run, as far as it may differ.
Statuses ==
    Interruptions \union {"none", "blocked", "passed", "failed", "degraded"}
Summaries == [status : Statuses, interruption : Statuses, phase : Phases]
NoSummary == [status |-> "none", interruption |-> "none", phase |-> "absent"]

RunStates ==
    [version : Nat, phase : Phases, pending : SUBSET Requests, lease : Leases,
     attempts : [Stages -> Nat],
     interruption : Interruptions \union {"none"},
     status : Statuses,
     env : {"none", "ready", "not-ready"},
     mode : {"none", "structured", "browser"},
     tested : {"none", "passed", "failed", "degraded"},
     defects : {"none", "published", "blocked"},
     cleanup : {"none", "complete", "incomplete"},
     summary : Summaries]

NoRun ==
    [version |-> 0, phase |-> "absent", pending |-> {}, lease |-> NoLease,
     attempts |-> [stage \in Stages |-> 0], interruption |-> "none",
     status |-> "none", env |-> "none", mode |-> "none", tested |-> "none",
     defects |-> "none", cleanup |-> "none", summary |-> NoSummary]

WorkerStages == {"idle", "loaded", "proved", "written", "saved"}
Handlers == [stage : WorkerStages, msg : Messages, snap : RunStates,
             out : SUBSET Requests]
Idle == [stage |-> "idle", msg |-> Event("none", "none"), snap |-> NoRun,
         out |-> {}]

VARIABLES
    st,          \* the durable run record
    summary,     \* the immutable terminal-summary artifact
    proof,       \* the immutable browser-readiness artifact
    raised,      \* every request raised so far
    environment, \* the start and cleanup outcomes environment-factory persisted
    receipts,    \* the publication receipts test-publication persisted
    worker,      \* the handler each worker is executing
    interrupts,  \* interrupt events delivered so far
    crashes      \* handlers stopped so far

vars == <<st, summary, proof, raised, environment, receipts, worker, interrupts,
          crashes>>

Init ==
    /\ st = NoRun
    /\ summary = NoSummary
    /\ proof = "none"
    /\ raised = {}
    /\ environment = [start |-> "none", cleanup |-> "none"]
    /\ receipts = {}
    /\ worker = [w \in Workers |-> Idle]
    /\ interrupts = 0
    /\ crashes = 0

-----------------------------------------------------------------------------
(* The other packages.  environment-factory and test-publication persist   *)
(* their answer and repeat it; of the rest nothing is assumed: an answer to *)
(* a repeated request may differ from the first.                           *)

Interrupted(status) == status \in Interruptions
\* Mutant: the outcome at hand wins over a recorded interruption.
DefaultOverridden(status, otherwise) == otherwise

Default(status, otherwise) == IF status = "none" THEN otherwise ELSE status

AnswersTo(queue, m) ==
    \/ queue = "analysis_request"             /\ m.type = "analysis"
    \/ queue = "browser_readiness_check"      /\ m.type = "readiness"
    \/ queue = "module_start"                 /\ m.type = "module"
    \/ queue = "structured_plan_request"      /\ m.type = "plan"
    \/ queue = "execution_grant_request"      /\ m.type = "grant"
    \/ queue = "structured_execution_request" /\ m = Event("execution", "structured")
    \/ queue = "ai_browser_control_request"   /\ m = Event("execution", "browser")
    \/ queue = "testing_result"               /\ m.type = "summary"
    \/ queue = "defect_preparation_request"   /\ m.type = "defects"

-----------------------------------------------------------------------------
(* Steps every handler is made of.                                         *)

Load(w, m) ==
    /\ worker[w].stage = "idle"
    /\ worker' = [worker EXCEPT ![w] = [stage |-> "loaded", msg |-> m,
                                        snap |-> st, out |-> {}]]

\* A package answers r, and the answer reaches the run.
DeliverAnswer(w, r) ==
    /\ \E m \in Answers : AnswersTo(r.queue, m) /\ Load(w, m)
    /\ UNCHANGED <<st, summary, proof, raised, environment, receipts, interrupts, crashes>>

\* environment-factory answers a start, a finalize or an interrupt request
\* with the outcome it persisted, or persists one now.
DeliverEnvironment(w, r) ==
    /\ \/ /\ r.queue = "environment_start"
          /\ \E o \in StartOutcomes :
               /\ environment.start \in {"none", o}
               /\ environment' = [environment EXCEPT !.start = o]
               /\ Load(w, Event("environment", o))
       \/ /\ r.queue \in {"environment_finalize", "environment_interrupt"}
          /\ \E o \in CleanupOutcomes :
               /\ environment.cleanup \in {"none", o}
               /\ environment' = [environment EXCEPT !.cleanup = o]
               /\ Load(w, Event("environment", o))
    /\ UNCHANGED <<st, summary, proof, raised, receipts, interrupts, crashes>>

\* test-publication publishes a checkpoint or the aggregate report, persists
\* the receipt and sends it.
DeliverReceipt(w, r) ==
    /\ r.queue \in {"qa_checkpoint_request", "qa_finalize_request"}
    /\ LET receipt == IF r.queue = "qa_finalize_request"
                      THEN Receipt("aggregate-report", 1)
                      ELSE Receipt(r.stage, r.attempt)
       IN  receipts' = receipts \union {receipt} /\ Load(w, receipt)
    /\ UNCHANGED <<st, summary, proof, raised, environment, interrupts, crashes>>

\* The run is requested, or the cron raiser ticks.
Tick(w) ==
    /\ Load(w, Event("tick", "none"))
    /\ UNCHANGED <<st, summary, proof, raised, environment, receipts, interrupts, crashes>>

DeliverInterrupt(w, i) ==
    /\ interrupts < MaxInterrupts
    /\ Load(w, Event("interrupt", i))
    /\ interrupts' = interrupts + 1
    /\ UNCHANGED <<st, summary, proof, raised, environment, receipts, crashes>>

Handling(w, type) ==
    worker[w].stage = "loaded" /\ worker[w].msg.type = type

\* The handler raises an error: nothing is saved and its event is dropped.
Fail(w) ==
    /\ worker' = [worker EXCEPT ![w] = Idle]
    /\ UNCHANGED <<st, summary, proof, raised, environment, receipts, interrupts, crashes>>

\* An event the phase does not wait for repeats the pending requests.
Repeat(w) ==
    /\ raised' = raised \union worker[w].snap.pending
    /\ worker' = [worker EXCEPT ![w] = Idle]
    /\ UNCHANGED <<st, summary, proof, environment, receipts, interrupts, crashes>>

\* Mutant: save without comparing the version.
SaveBlindly(w, s) ==
    /\ st' = [s EXCEPT !.version = s.version + 1]
    /\ worker' = [worker EXCEPT ![w] = [Idle EXCEPT !.stage = "saved",
                                                   !.out = s.pending]]
    /\ UNCHANGED <<summary, proof, raised, environment, receipts, interrupts, crashes>>

\* Compare-and-swap on the version the handler loaded.
Save(w, s) ==
    IF st.version = s.version
    THEN /\ st' = [s EXCEPT !.version = s.version + 1]
         /\ worker' = [worker EXCEPT ![w] = [Idle EXCEPT !.stage = "saved",
                                                         !.out = s.pending]]
         /\ UNCHANGED <<summary, proof, raised, environment, receipts, interrupts, crashes>>
    ELSE Fail(w)

\* After the save the department raises what the handler returned.
Raise(w) ==
    /\ worker[w].stage = "saved"
    /\ raised' = raised \union worker[w].out
    /\ worker' = [worker EXCEPT ![w] = Idle]
    /\ UNCHANGED <<st, summary, proof, environment, receipts, interrupts, crashes>>

\* The process stops between two steps of a handler.
Crash(w) ==
    /\ crashes < MaxCrashes
    /\ worker[w].stage # "idle"
    /\ worker' = [worker EXCEPT ![w] = Idle]
    /\ crashes' = crashes + 1
    /\ UNCHANGED <<st, summary, proof, raised, environment, receipts, interrupts>>

Pending(s, phase, actions) ==
    [s EXCEPT !.phase = phase, !.pending = actions]

\* checkpoints.gate: publish a checkpoint before the next phase may start.
Gated(s, stage, phase, actions) ==
    LET attempt == s.attempts[stage] + 1
    IN  [s EXCEPT
           !.attempts = [@ EXCEPT ![stage] = attempt],
           !.lease = [stage |-> stage, attempt |-> attempt, phase |-> phase,
                      actions |-> actions],
           !.phase = "checkpoint-pending",
           !.pending = {CheckpointRequest(stage, attempt)}]

Gate(w, s, stage, phase, actions) ==
    IF s.lease # NoLease
    THEN Fail(w)
    ELSE Save(w, Gated(s, stage, phase, actions))

CleanupAction(status) ==
    Request(IF Interrupted(status) THEN "environment_interrupt"
                                   ELSE "environment_finalize")

BeginCleanup(w, s, status) ==
    IF s.env # "ready"
    THEN Fail(w)
    ELSE Save(w, Pending([s EXCEPT !.status = status], "cleanup-pending",
                         {CleanupAction(status)}))

-----------------------------------------------------------------------------
(* M.start and M.redrive.                                                  *)

StartRun(w, s) ==
    Gate(w, s, "intake", "environment-pending", {Request("environment_start")})

\* Mutant: a tick starts a new run but repeats nothing of an old one.
RedriveNewOnly(w) ==
    /\ Handling(w, "tick")
    /\ \/ worker[w].snap.phase # "absent" /\ Fail(w)
       \/ worker[w].snap.phase = "absent" /\ StartRun(w, worker[w].snap)

Redrive(w) ==
    /\ Handling(w, "tick")
    /\ \/ worker[w].snap.phase # "absent" /\ Repeat(w)
       \/ worker[w].snap.phase = "absent" /\ StartRun(w, worker[w].snap)

-----------------------------------------------------------------------------
(* Cleanup results and the terminal summary.                               *)

\* Mutant: any cleanup receipt counts as complete.
CleanupStatusLenient(m) ==
    IF m.outcome = "ready" THEN "none" ELSE "complete"

CleanupStatus(m) ==
    CASE m.outcome \in {"complete", "blocked-complete"}     -> "complete"
      [] m.outcome \in {"incomplete", "blocked-incomplete"} -> "incomplete"
      [] OTHER                                              -> "none"

\* The run as the handler of an environment event sees it before it accepts
\* the cleanup receipt: a start that was not ready records its outcome.
Closing(s) ==
    IF s.phase = "cleanup-pending"
    THEN s
    ELSE [s EXCEPT !.env = "not-ready",
                   !.status = Default(s.interruption, "blocked")]

SummaryOf(s) == [status |-> s.status, interruption |-> s.interruption,
                 phase |-> s.phase]

\* The artifact store keeps the first body and accepts only a replay of it.
WriteTerminalSummary(w, s) ==
    IF summary \in {NoSummary, SummaryOf(s)}
    THEN /\ summary' = SummaryOf(s)
         /\ worker' = [worker EXCEPT ![w].stage = "written"]
         /\ UNCHANGED <<st, proof, raised, environment, receipts, interrupts, crashes>>
    ELSE Fail(w)

AcceptCleanup(w, s, m) ==
    \/ CleanupStatus(m) = "none" /\ Fail(w)
    \/ /\ CleanupStatus(m) = "incomplete"
       /\ Save(w, Pending([s EXCEPT !.cleanup = "incomplete",
                                    !.status = "blocked"],
                          "cleanup-blocked", {}))
    \/ CleanupStatus(m) = "complete" /\ WriteTerminalSummary(w, s)

PrepareFinalization(w) ==
    /\ worker[w].stage = "written"
    /\ LET s == Closing(worker[w].snap)
       IN  Gate(w, [s EXCEPT !.cleanup = "complete", !.summary = SummaryOf(s)],
                "cleanup", "publication-pending",
                {Request("qa_finalize_request")})

HandleEnvironment(w) ==
    /\ Handling(w, "environment")
    /\ LET s == worker[w].snap
           m == worker[w].msg
           ready == [s EXCEPT !.env = "ready"]
       IN  \/ /\ s.phase \notin {"environment-pending", "cleanup-pending"}
              /\ Repeat(w)
           \/ /\ s.phase = "cleanup-pending"
              /\ AcceptCleanup(w, s, m)
           \/ /\ s.phase = "environment-pending"
              /\ m.outcome = "ready"
              /\ s.interruption # "none"
              /\ BeginCleanup(w, ready, s.interruption)
           \/ /\ s.phase = "environment-pending"
              /\ m.outcome = "ready"
              /\ s.interruption = "none"
              /\ Gate(w, ready, "environment-ready", "analysis-pending",
                      {Request("analysis_request")})
           \/ /\ s.phase = "environment-pending"
              /\ m.outcome # "ready"
              /\ AcceptCleanup(w, Closing(s), m)

-----------------------------------------------------------------------------
(* Design, planning and authorization.  Each of these results is ignored   *)
(* outside its phase, and a recorded interruption takes precedence over it. *)

\* Mutant: the phase is not compared, so late results are handled again.
AwaitingAnyPhase(w, phase, continue) ==
    LET s == worker[w].snap
    IN  \/ s.interruption # "none" /\ BeginCleanup(w, s, s.interruption)
        \/ s.interruption = "none" /\ continue

\* Common shape: repeat, clean up for an interruption, or continue.
Awaiting(w, phase, continue) ==
    LET s == worker[w].snap
    IN  \/ s.phase # phase /\ Repeat(w)
        \/ /\ s.phase = phase
           /\ s.interruption # "none"
           /\ BeginCleanup(w, s, s.interruption)
        \/ /\ s.phase = phase
           /\ s.interruption = "none"
           /\ continue

HandleAnalysis(w) ==
    /\ Handling(w, "analysis")
    /\ Awaiting(w, "analysis-pending",
         Gate(w, worker[w].snap, "design-round", "browser-readiness-pending",
              {Request("browser_readiness_check")}))

\* The artifact store keeps the first proof and accepts only a replay of it.
WriteReadiness(w, body) ==
    IF proof \in {"none", body}
    THEN /\ proof' = body
         /\ worker' = [worker EXCEPT ![w].stage = "proved"]
         /\ UNCHANGED <<st, summary, raised, environment, receipts, interrupts, crashes>>
    ELSE Fail(w)

HandleBrowserReadiness(w) ==
    /\ Handling(w, "readiness")
    /\ Awaiting(w, "browser-readiness-pending",
         IF worker[w].msg.outcome \notin Proofs
         THEN BeginCleanup(w, worker[w].snap, "blocked")
         ELSE WriteReadiness(w, worker[w].msg.outcome))

\* The proof is written; its checkpoint comes before the module starts.
PrepareModule(w) ==
    /\ worker[w].stage = "proved"
    /\ Gate(w, worker[w].snap, "browser-readiness", "module-pending",
            {Request("module_start")})

HandleModuleTerminal(w) ==
    /\ Handling(w, "module")
    /\ Awaiting(w, "module-pending",
         IF worker[w].msg.outcome = "blocked"
         THEN BeginCleanup(w, worker[w].snap, "blocked")
         ELSE Gate(w, worker[w].snap, "design-closure",
                   "structured-plan-pending",
                   {Request("structured_plan_request")}))

\* Mutant: a browser plan goes to browser control without a grant.
HandlePlanUngranted(w) ==
    /\ Handling(w, "plan")
    /\ Awaiting(w, "structured-plan-pending",
         CASE worker[w].msg.outcome = "blocked" ->
                BeginCleanup(w, worker[w].snap, "blocked")
           [] worker[w].msg.outcome = "structured" ->
                Save(w, Pending([worker[w].snap EXCEPT !.mode = "structured"],
                                "execution-grant-pending",
                                {Request("execution_grant_request")}))
           [] OTHER ->
                Save(w, Pending([worker[w].snap EXCEPT !.mode = "browser"],
                                "browser-control-pending",
                                {Request("ai_browser_control_request")})))

HandlePlan(w) ==
    /\ Handling(w, "plan")
    /\ Awaiting(w, "structured-plan-pending",
         IF worker[w].msg.outcome = "blocked"
         THEN BeginCleanup(w, worker[w].snap, "blocked")
         ELSE Save(w, Pending([worker[w].snap EXCEPT
                                 !.mode = worker[w].msg.outcome],
                              "execution-grant-pending",
                              {Request("execution_grant_request")})))

HandleGrant(w) ==
    /\ Handling(w, "grant")
    /\ Awaiting(w, "execution-grant-pending",
         IF worker[w].msg.outcome # "granted"
         THEN BeginCleanup(w, worker[w].snap, "blocked")
         ELSE Save(w, IF worker[w].snap.mode = "structured"
                      THEN Pending(worker[w].snap,
                                   "structured-execution-pending",
                                   {Request("structured_execution_request")})
                      ELSE Pending(worker[w].snap, "browser-control-pending",
                                   {Request("ai_browser_control_request")})))

-----------------------------------------------------------------------------
(* Execution, summary and defect publication.                              *)

ExecutionPhase(s) ==
    IF s.mode = "browser" THEN "browser-control-pending"
                          ELSE "structured-execution-pending"

HandleExecution(w) ==
    /\ Handling(w, "execution")
    /\ LET s == worker[w].snap
       IN  \/ s.phase # ExecutionPhase(s) /\ Repeat(w)
           \/ /\ s.phase = ExecutionPhase(s)
              /\ worker[w].msg.outcome # s.mode
              /\ Fail(w)
           \/ /\ s.phase = ExecutionPhase(s)
              /\ worker[w].msg.outcome = s.mode
              /\ Save(w, Pending(s, "artifact-summary-pending",
                                 {Request("testing_result")}))

\* Mutant: every result goes straight to cleanup, defects or not.
HandleSummaryWithoutDefects(w) ==
    /\ Handling(w, "summary")
    /\ LET s == worker[w].snap
           status == Default(s.interruption, worker[w].msg.outcome)
       IN  \/ s.phase # "artifact-summary-pending" /\ Repeat(w)
           \/ /\ s.phase = "artifact-summary-pending"
              /\ Gate(w, [s EXCEPT !.tested = worker[w].msg.outcome,
                                   !.status = status],
                      "execution-batch", "cleanup-pending",
                      {CleanupAction(status)})

HandleArtifactSummary(w) ==
    /\ Handling(w, "summary")
    /\ LET s == worker[w].snap
           outcome == worker[w].msg.outcome
           tested == [s EXCEPT !.tested = outcome]
           clean == [tested EXCEPT !.defects = IF outcome = "failed"
                                               THEN @ ELSE "published"]
           status == Default(s.interruption, outcome)
       IN  \/ s.phase # "artifact-summary-pending" /\ Repeat(w)
           \/ /\ s.phase = "artifact-summary-pending"
              /\ outcome \in {"missing", "blocked"}
              /\ BeginCleanup(w, s, Default(s.interruption, "blocked"))
           \/ /\ s.phase = "artifact-summary-pending"
              /\ outcome \in {"passed", "failed", "degraded"}
              /\ IF s.interruption = "none" /\ outcome = "failed"
                 THEN Gate(w, tested, "execution-batch", "defects-pending",
                           {Request("defect_preparation_request")})
                 ELSE Gate(w, [clean EXCEPT !.status = status],
                           "execution-batch", "cleanup-pending",
                           {CleanupAction(status)})

HandleDefectTerminal(w) ==
    /\ Handling(w, "defects")
    /\ LET s == worker[w].snap
           outcome == worker[w].msg.outcome
           status == Default(s.interruption,
                             IF outcome = "published" THEN s.tested
                                                      ELSE "blocked")
       IN  \/ s.phase # "defects-pending" /\ Repeat(w)
           \/ /\ s.phase = "defects-pending"
              /\ Gate(w, [s EXCEPT !.defects = outcome, !.status = status],
                      "defect-publication", "cleanup-pending",
                      {CleanupAction(status)})

-----------------------------------------------------------------------------
(* Checkpoint receipts, the aggregate receipt and interrupts.              *)

\* Mutant: the aggregate report is not told from a repeated checkpoint.
HandleAnyReceipt(w) ==
    /\ Handling(w, "receipt")
    /\ LET s == worker[w].snap
           leased == worker[w].msg = Receipt(s.lease.stage, s.lease.attempt)
       IN  \/ /\ s.phase \notin {"checkpoint-pending", "publication-pending"}
              /\ Repeat(w)
           \/ s.phase = "checkpoint-pending" /\ ~leased /\ Fail(w)
           \/ /\ s.phase = "checkpoint-pending"
              /\ leased
              /\ Save(w, Pending([s EXCEPT !.lease = NoLease], s.lease.phase,
                                 s.lease.actions))
           \/ /\ s.phase = "publication-pending"
              /\ Save(w, Pending(s, "terminal", {Request("terminal_request")}))

HandlePublicationReceipt(w) ==
    /\ Handling(w, "receipt")
    /\ LET s == worker[w].snap
           m == worker[w].msg
           leased == m = Receipt(s.lease.stage, s.lease.attempt)
           final == m = Receipt("aggregate-report", 1)
       IN  \/ /\ s.phase \notin {"checkpoint-pending", "publication-pending"}
              /\ Repeat(w)
           \/ s.phase = "checkpoint-pending" /\ ~leased /\ Fail(w)
           \/ /\ s.phase = "checkpoint-pending"
              /\ leased
              /\ Save(w, Pending([s EXCEPT !.lease = NoLease], s.lease.phase,
                                 s.lease.actions))
           \/ s.phase = "publication-pending" /\ ~final /\ Fail(w)
           \/ /\ s.phase = "publication-pending"
              /\ final
              /\ Save(w, Pending(s, "terminal", {Request("terminal_request")}))

\* Mutant: cleanup does not end the run for an interrupt.
EndedAtPublication == {"publication-pending", "terminal"}

\* Phases in which an interrupt is too late, and phases that only record it.
Ended == {"cleanup-pending", "cleanup-blocked", "publication-pending",
          "terminal"}
Recording == {"environment-pending", "structured-execution-pending",
              "browser-control-pending", "artifact-summary-pending",
              "defects-pending"}

HandleInterrupt(w) ==
    /\ Handling(w, "interrupt")
    /\ LET s == worker[w].snap
           marked == [s EXCEPT !.interruption = worker[w].msg.outcome]
       IN  \/ s.phase = "absent" /\ Fail(w)
           \/ s.phase \in Ended /\ Repeat(w)
           \/ s.phase \in Recording /\ Save(w, marked)
           \/ /\ s.phase \notin Ended \union Recording \union {"absent"}
              /\ BeginCleanup(w, marked, worker[w].msg.outcome)

-----------------------------------------------------------------------------
Handle(w) ==
    \/ Redrive(w)
    \/ HandleEnvironment(w) \/ PrepareFinalization(w)
    \/ HandleAnalysis(w) \/ HandleBrowserReadiness(w) \/ PrepareModule(w)
    \/ HandleModuleTerminal(w) \/ HandlePlan(w) \/ HandleGrant(w)
    \/ HandleExecution(w) \/ HandleArtifactSummary(w)
    \/ HandleDefectTerminal(w) \/ HandlePublicationReceipt(w)
    \/ HandleInterrupt(w)
    \/ Raise(w)

Next ==
    \E w \in Workers :
        \/ \E r \in raised : \/ DeliverAnswer(w, r)
                           \/ DeliverEnvironment(w, r)
                           \/ DeliverReceipt(w, r)
        \/ Tick(w)
        \/ \E i \in Interruptions : DeliverInterrupt(w, i)
        \/ Handle(w)
        \/ Crash(w)

Spec == Init /\ [][Next]_vars

(***************************************************************************)
(* Fairness.  The cron raiser ticks for ever and the packages answer what  *)
(* is asked of them again, so an answer the run waits for is delivered if  *)
(* it can be delivered again and again; a handler that has an event        *)
(* finishes unless its process stops.                                      *)
(***************************************************************************)
DeliverAwaited ==
    \E w \in Workers, r \in raised \intersect st.pending :
        DeliverAnswer(w, r) \/ DeliverEnvironment(w, r) \/ DeliverReceipt(w, r)

Fairness ==
    /\ SF_vars(DeliverAwaited)
    /\ SF_vars(\E w \in Workers : Tick(w))
    /\ \A w \in Workers : WF_vars(Handle(w))

FairSpec == Spec /\ Fairness

=============================================================================
