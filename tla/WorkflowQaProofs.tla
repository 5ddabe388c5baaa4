-------------------------- MODULE WorkflowQaProofs --------------------------
(***************************************************************************)
(* Proofs about the saga of module WorkflowQa, for any workers, any bounds *)
(* and any interruptions: first what a run is authorized to do, then how   *)
(* it ends: what an interruption decides, when and how often the           *)
(* environment is given up, that the run goes forward only, and that the   *)
(* saga implements the lifecycle of module QaLifecycle.                    *)
(***************************************************************************)
EXTENDS WorkflowQaProperties, TLAPS

-----------------------------------------------------------------------------
(* The operators handlers are built from keep their types.                 *)

\* A request that carries no checkpoint is a request.
LEMMA RequestType ==
    ASSUME NEW queue \in Queues
    PROVE  Request(queue) \in Requests
BY DEF Request, Requests

\* The constant records are well typed.
LEMMA ConstantTypes ==
    /\ NoLease \in Leases
    /\ NoSummary \in Summaries
    /\ NoRun \in RunStates
    /\ Idle \in Handlers
<1>1. NoLease \in Leases
  BY DEF NoLease, Leases, Phases
<1>2. NoSummary \in Summaries
  BY DEF NoSummary, Summaries, Statuses, Phases
<1>3. NoRun \in RunStates
  BY <1>1, <1>2 DEF NoRun, RunStates, Phases, Statuses
<1>4. Event("none", "none") \in Messages
  BY DEF Event, Messages, Events
<1>5. Idle \in Handlers
  BY <1>3, <1>4 DEF Idle, Handlers, WorkerStages
<1>6. QED
  BY <1>1, <1>2, <1>3, <1>5

\* A run that moves to another phase is a run.
LEMMA PendingType ==
    ASSUME NEW s \in RunStates, NEW phase \in Phases,
           NEW actions \in SUBSET Requests
    PROVE  Pending(s, phase, actions) \in RunStates
BY DEF Pending, RunStates

\* A gated run is a run.
LEMMA GatedType ==
    ASSUME NEW s \in RunStates, NEW stage \in Stages, NEW phase \in Phases,
           NEW actions \in SUBSET Requests
    PROVE  Gated(s, stage, phase, actions) \in RunStates
<1> DEFINE attempt == s.attempts[stage] + 1
<1>1. attempt \in Nat
  BY DEF RunStates
<1>2. [stage |-> stage, attempt |-> attempt, phase |-> phase,
       actions |-> actions] \in Leases
  BY <1>1 DEF Leases
<1>3. {CheckpointRequest(stage, attempt)} \in SUBSET Requests
  BY <1>1 DEF CheckpointRequest, Requests, Queues
<1>4. [s.attempts EXCEPT ![stage] = attempt] \in [Stages -> Nat]
  BY <1>1 DEF RunStates
<1>5. QED
  BY <1>2, <1>3, <1>4 DEF Gated, RunStates, Phases

\* Dropping, saving or repeating an event keeps every variable typed.
LEMMA SaveType ==
    ASSUME TypeOK, NEW w \in Workers, NEW s \in RunStates, Save(w, s)
    PROVE  TypeOK'
<1>1. CASE Fail(w)
  BY <1>1, ConstantTypes DEF TypeOK, Fail
<1>2. CASE st.version = s.version /\ ~Fail(w)
  <2>1. [s EXCEPT !.version = s.version + 1] \in RunStates
    BY DEF RunStates
  <2>2. [Idle EXCEPT !.stage = "saved", !.out = s.pending] \in Handlers
    BY ConstantTypes DEF Handlers, WorkerStages, RunStates
  <2>3. QED
    BY <1>2, <2>1, <2>2 DEF TypeOK, Save
<1>3. QED
  BY <1>1, <1>2 DEF Save

\* Writing the terminal summary keeps every variable typed.
LEMMA WriteType ==
    ASSUME TypeOK, NEW w \in Workers, NEW s \in RunStates,
           WriteTerminalSummary(w, s)
    PROVE  TypeOK'
<1>1. SummaryOf(s) \in Summaries
  BY DEF SummaryOf, Summaries, RunStates, Statuses
<1>2. [worker[w] EXCEPT !.stage = "written"] \in Handlers
  BY DEF TypeOK, Handlers, WorkerStages
<1>3. CASE Fail(w)
  BY <1>3, ConstantTypes DEF TypeOK, Fail
<1>4. CASE ~Fail(w)
  <2>1. summary' = SummaryOf(s)
    BY <1>4 DEF WriteTerminalSummary
  <2>2. worker' = [worker EXCEPT ![w] = [worker[w] EXCEPT !.stage = "written"]]
    BY <1>4 DEF WriteTerminalSummary, TypeOK
  <2>3. UNCHANGED <<st, proof, raised, environment, receipts, interrupts, crashes>>
    BY <1>4 DEF WriteTerminalSummary
  <2>4. QED
    BY <1>1, <1>2, <2>1, <2>2, <2>3 DEF TypeOK
<1>5. QED
  BY <1>3, <1>4

-----------------------------------------------------------------------------
(* A handler drops its event, repeats the pending requests, writes the     *)
(* summary, or saves a run with the version it loaded.                     *)

\* The summary is written only for a complete cleanup.
Writes(w) ==
    /\ worker[w].stage = "loaded"
    /\ worker[w].msg.type = "environment"
    /\ worker[w].snap.phase \in {"environment-pending", "cleanup-pending"}
    /\ CleanupStatus(worker[w].msg) = "complete"
    /\ WriteTerminalSummary(w, Closing(worker[w].snap))

\* The proof is written only for a browser found ready while the run waits.
Proves(w) ==
    /\ worker[w].stage = "loaded"
    /\ worker[w].msg.type = "readiness"
    /\ worker[w].msg.outcome \in Proofs
    /\ worker[w].snap.phase = "browser-readiness-pending"
    /\ worker[w].snap.interruption = "none"
    /\ WriteReadiness(w, worker[w].msg.outcome)

Effect(w) ==
    \/ Fail(w)
    \/ Repeat(w)
    \/ \E s \in RunStates : s.version = worker[w].snap.version /\ Save(w, s)
    \/ Writes(w)
    \/ Proves(w)

\* A proof that is not refused is kept, and nothing else changes.
LEMMA ProofKept ==
    ASSUME TypeOK, NEW w \in Workers, Proves(w), ~Fail(w)
    PROVE  /\ proof \in {"none", proof'}
           /\ proof' = worker[w].msg.outcome
           /\ worker' = [worker EXCEPT ![w] = [worker[w] EXCEPT !.stage = "proved"]]
           /\ worker'[w].stage = "proved"
           /\ worker'[w].msg = worker[w].msg
           /\ worker'[w].snap = worker[w].snap
           /\ worker'[w].out = worker[w].out
           /\ UNCHANGED <<st, summary, raised, environment, receipts, interrupts, crashes>>
BY DEF Proves, WriteReadiness, TypeOK, Handlers

\* Writing the proof keeps every variable typed.
LEMMA ProveType ==
    ASSUME TypeOK, NEW w \in Workers, Proves(w)
    PROVE  TypeOK'
<1>1. [worker[w] EXCEPT !.stage = "proved"] \in Handlers
  BY DEF TypeOK, Handlers, WorkerStages
<1>2. CASE Fail(w)
  BY <1>2, ConstantTypes DEF TypeOK, Fail
<1>3. CASE ~Fail(w)
  BY <1>1, <1>3, ProofKept DEF TypeOK, Proves
<1>4. QED
  BY <1>2, <1>3

\* A run about to accept its cleanup is a run in the same phase.
LEMMA ClosingType ==
    ASSUME NEW s \in RunStates
    PROVE  /\ Closing(s) \in RunStates
           /\ Closing(s).version = s.version
           /\ Closing(s).phase = s.phase
           /\ Closing(s).lease = s.lease
           /\ Closing(s).attempts = s.attempts
           /\ Closing(s).env = "ready" => s.env = "ready"
           /\ Closing(s).tested = s.tested
           /\ Closing(s).interruption = s.interruption
           /\ s.phase = "cleanup-pending" => Closing(s) = s
           /\ s.phase # "cleanup-pending" =>
                /\ Closing(s).env = "not-ready"
                /\ Closing(s).status = Default(s.interruption, "blocked")
<1>1. Default(s.interruption, "blocked") \in Statuses
  BY DEF Default, Statuses, RunStates
<1>2. CASE s.phase = "cleanup-pending"
  BY <1>2 DEF Closing
<1>3. CASE s.phase # "cleanup-pending"
  <2> DEFINE status == Default(s.interruption, "blocked")
             c == [s EXCEPT !.env = "not-ready", !.status = status]
  <2>1. Closing(s) = c
    BY <1>3 DEF Closing
  <2> HIDE DEF status
  <2>2. c \in RunStates
    BY <1>1 DEF RunStates, status
  <2>3. /\ c.version = s.version
        /\ c.phase = s.phase
        /\ c.lease = s.lease
        /\ c.attempts = s.attempts
        /\ c.env = "not-ready"
        /\ c.status = status
        /\ c.tested = s.tested
        /\ c.interruption = s.interruption
    BY DEF RunStates
  <2> HIDE DEF c
  <2>4. QED
    BY <1>3, <2>1, <2>2, <2>3 DEF status
<1>4. QED
  BY <1>2, <1>3

\* The effects of a handler keep every variable typed.
LEMMA EffectType ==
    ASSUME TypeOK, NEW w \in Workers, Effect(w)
    PROVE  TypeOK'
<1>1. CASE Fail(w)
  BY <1>1, ConstantTypes DEF TypeOK, Fail
<1>2. CASE Repeat(w)
  BY <1>2, ConstantTypes DEF TypeOK, Repeat, Handlers, RunStates
<1>3. Closing(worker[w].snap) \in RunStates
  BY ClosingType DEF TypeOK, Handlers
<1>4. QED
  BY <1>1, <1>2, <1>3, SaveType, WriteType, ProveType DEF Effect, Writes

\* A gate saves a run or drops the event.
LEMMA GateEffect ==
    ASSUME TypeOK, NEW w \in Workers, NEW s \in RunStates,
           s.version = worker[w].snap.version,
           NEW stage \in Stages, NEW phase \in Phases,
           NEW actions \in SUBSET Requests, Gate(w, s, stage, phase, actions)
    PROVE  Effect(w)
<1>1. Gated(s, stage, phase, actions) \in RunStates
  BY GatedType
<1>2. Gated(s, stage, phase, actions).version = s.version
  BY DEF Gated, RunStates
<1>3. QED
  BY <1>1, <1>2 DEF Gate, Effect

\* A change of phase saves a run or drops the event.
LEMMA PendingEffect ==
    ASSUME TypeOK, NEW w \in Workers, NEW s \in RunStates,
           s.version = worker[w].snap.version, NEW phase \in Phases,
           NEW actions \in SUBSET Requests, Save(w, Pending(s, phase, actions))
    PROVE  Effect(w)
<1>1. Pending(s, phase, actions) \in RunStates
  BY PendingType
<1>2. Pending(s, phase, actions).version = s.version
  BY DEF Pending, RunStates
<1>3. QED
  BY <1>1, <1>2 DEF Effect

\* The cleanup request is a request.
LEMMA CleanupActionType == \A status : {CleanupAction(status)} \in SUBSET Requests
BY RequestType DEF CleanupAction, Queues

\* So is the start of a cleanup.
LEMMA BeginCleanupEffect ==
    ASSUME TypeOK, NEW w \in Workers, NEW s \in RunStates,
           s.version = worker[w].snap.version, NEW status \in Statuses,
           BeginCleanup(w, s, status)
    PROVE  Effect(w)
<1>1. CASE Fail(w)
  BY <1>1 DEF Effect
<1>2. CASE Save(w, Pending([s EXCEPT !.status = status], "cleanup-pending",
                           {CleanupAction(status)}))
  <2>1. /\ [s EXCEPT !.status = status] \in RunStates
        /\ [s EXCEPT !.status = status].version = s.version
    BY DEF RunStates
  <2>2. "cleanup-pending" \in Phases
    BY DEF Phases
  <2>3. QED
    BY <1>2, <2>1, <2>2, CleanupActionType, PendingEffect
<1>3. QED
  BY <1>1, <1>2 DEF BeginCleanup

\* A run whose cleanup was incomplete is a run.
LEMMA BlockedType ==
    ASSUME NEW s \in RunStates
    PROVE  LET blocked == [s EXCEPT !.cleanup = "incomplete", !.status = "blocked"]
           IN  /\ blocked \in RunStates
               /\ blocked.version = s.version
               /\ blocked.phase = s.phase
               /\ blocked.lease = s.lease
               /\ blocked.attempts = s.attempts
               /\ blocked.env = s.env
               /\ blocked.tested = s.tested
               /\ blocked.interruption = s.interruption
BY DEF RunStates, Statuses

\* Accepting a cleanup result has one of the effects.
LEMMA AcceptCleanupEffect ==
    ASSUME TypeOK, NEW w \in Workers, NEW s \in RunStates,
           s.version = worker[w].snap.version, s = Closing(worker[w].snap),
           Handling(w, "environment"), worker[w].snap.phase \in {"environment-pending", "cleanup-pending"},
           AcceptCleanup(w, s, worker[w].msg)
    PROVE  Effect(w)
<1> DEFINE blocked == [s EXCEPT !.cleanup = "incomplete", !.status = "blocked"]
<1>1. blocked \in RunStates /\ blocked.version = s.version
  BY BlockedType
<1> HIDE DEF blocked
<1>2. CASE \/ Fail(w)
           \/ /\ CleanupStatus(worker[w].msg) = "complete"
              /\ WriteTerminalSummary(w, s)
  BY <1>2 DEF Effect, Writes, Handling
<1>3. CASE Save(w, Pending(blocked, "cleanup-blocked", {}))
  BY <1>1, <1>3, PendingEffect DEF Phases
<1>4. QED
  BY <1>2, <1>3 DEF AcceptCleanup, blocked

\* Every handler has one of the effects.
LEMMA HandlerEffects ==
    ASSUME TypeOK, NEW w \in Workers, Handle(w)
    PROVE  Effect(w) \/ Raise(w)
<1> DEFINE s == worker[w].snap
           m == worker[w].msg
<1>s. /\ s \in RunStates
      /\ m \in Messages
  BY DEF TypeOK, Handlers
<1>q. \A queue \in Queues : {Request(queue)} \in SUBSET Requests
  BY RequestType
<1>i. s.interruption \in Statuses
  BY <1>s DEF RunStates, Statuses
<1>b. "blocked" \in Statuses
  BY DEF Statuses
<1>1. CASE Redrive(w)
  BY <1>1, <1>s, <1>q, GateEffect
     DEF Redrive, StartRun, Effect, Stages, Phases, Queues
<1>2. CASE HandleAnalysis(w)
  BY <1>2, <1>s, <1>q, <1>i, GateEffect, BeginCleanupEffect
     DEF HandleAnalysis, Awaiting, Effect, Stages, Phases, Queues
<1>3. CASE HandleBrowserReadiness(w)
  BY <1>3, <1>s, <1>i, <1>b, BeginCleanupEffect
     DEF HandleBrowserReadiness, Awaiting, Effect, Proves, Handling
<1>4. CASE HandleModuleTerminal(w)
  BY <1>4, <1>s, <1>q, <1>i, <1>b, GateEffect, BeginCleanupEffect
     DEF HandleModuleTerminal, Awaiting, Effect, Stages, Phases, Queues
<1>5. CASE HandlePlan(w)
  <2>1. CASE /\ s.interruption = "none" /\ m.outcome # "blocked"
             /\ s.phase = "structured-plan-pending"
    <3>1. m.outcome \in {"structured", "browser"}
      BY <1>5, <1>s, <2>1 DEF HandlePlan, Handling, Messages, Events,
         EnvironmentEvents, AnswerEvents, Receipts
    <3>2. /\ [s EXCEPT !.mode = m.outcome] \in RunStates
          /\ [s EXCEPT !.mode = m.outcome].version = s.version
      BY <1>s, <3>1 DEF RunStates
    <3>3. Save(w, Pending([s EXCEPT !.mode = m.outcome],
                          "execution-grant-pending",
                          {Request("execution_grant_request")}))
      BY <1>5, <2>1 DEF HandlePlan, Awaiting
    <3>4. QED
      BY <3>2, <3>3, <1>q, PendingEffect DEF Phases, Queues
  <2>2. QED
    BY <1>5, <1>s, <1>q, <1>i, <1>b, <2>1, BeginCleanupEffect
       DEF HandlePlan, Awaiting, Effect
<1>6. CASE HandleGrant(w)
  BY <1>6, <1>s, <1>q, <1>i, <1>b, PendingEffect, BeginCleanupEffect
     DEF HandleGrant, Awaiting, Effect, Phases, Queues
<1>7. CASE HandleExecution(w)
  BY <1>7, <1>s, <1>q, PendingEffect
     DEF HandleExecution, Effect, Phases, Queues
<1>8. CASE HandleEnvironment(w)
  <2> DEFINE ready == [s EXCEPT !.env = "ready"]
  <2>1. ready \in RunStates /\ ready.version = s.version
    BY <1>s DEF RunStates
  <2>2. Closing(s) \in RunStates /\ Closing(s).version = s.version
    BY <1>s, ClosingType
  <2>3. \/ Repeat(w)
        \/ /\ Handling(w, "environment")
           /\ s.phase \in {"environment-pending", "cleanup-pending"}
           /\ AcceptCleanup(w, Closing(s), m)
        \/ BeginCleanup(w, ready, s.interruption)
        \/ Gate(w, ready, "environment-ready", "analysis-pending",
                {Request("analysis_request")})
    BY <1>8 DEF HandleEnvironment, Closing
  <2>4. /\ "environment-ready" \in Stages
        /\ "analysis-pending" \in Phases
        /\ {Request("analysis_request")} \in SUBSET Requests
    BY <1>q DEF Stages, Phases, Queues
  <2> HIDE DEF ready
  <2>5. QED
    BY <1>s, <1>i, <2>1, <2>2, <2>3, <2>4, GateEffect, BeginCleanupEffect,
       AcceptCleanupEffect DEF Effect
<1>9. CASE PrepareFinalization(w)
  <2> DEFINE c == Closing(s)
             f == [c EXCEPT !.cleanup = "complete", !.summary = SummaryOf(c)]
  <2>1. c \in RunStates /\ c.version = s.version
    BY <1>s, ClosingType
  <2>2. SummaryOf(c) \in Summaries
    BY <2>1 DEF SummaryOf, Summaries, RunStates, Statuses
  <2>3. Gate(w, f, "cleanup", "publication-pending",
             {Request("qa_finalize_request")})
    BY <1>9 DEF PrepareFinalization
  <2> HIDE DEF c
  <2>4. f \in RunStates /\ f.version = s.version
    BY <2>1, <2>2 DEF RunStates
  <2>5. /\ "cleanup" \in Stages
        /\ "publication-pending" \in Phases
        /\ {Request("qa_finalize_request")} \in SUBSET Requests
    BY <1>q DEF Stages, Phases, Queues
  <2> HIDE DEF f
  <2>6. QED
    BY <2>3, <2>4, <2>5, GateEffect
<1>10. CASE HandleArtifactSummary(w)
  <2>1. PICK outcome \in {"passed", "failed", "degraded", "blocked", "missing"} :
          outcome = m.outcome
    BY <1>10, <1>s DEF HandleArtifactSummary, Handling, Messages, Events,
       EnvironmentEvents, AnswerEvents, Receipts
  <2> DEFINE tested == [s EXCEPT !.tested = outcome]
             clean == [tested EXCEPT !.defects = IF outcome = "failed"
                                                 THEN @ ELSE "published"]
             status == Default(s.interruption, outcome)
             ended == [clean EXCEPT !.status = status]
  <2>2. CASE outcome \in {"passed", "failed", "degraded"}
             /\ s.phase = "artifact-summary-pending"
    <3>1. status \in Statuses
      BY <1>i, <2>2 DEF Default, Statuses
    <3>2. tested \in RunStates /\ tested.version = s.version
      BY <1>s, <2>2 DEF RunStates
    <3>3. clean \in RunStates /\ clean.version = s.version
      <4> HIDE DEF tested
      <4>1. QED
        BY <3>2 DEF RunStates
    <3>4. ended \in RunStates /\ ended.version = s.version
      <4> HIDE DEF clean, status
      <4>1. QED
        BY <3>1, <3>3 DEF RunStates
    <3>5. \/ Gate(w, tested, "execution-batch", "defects-pending",
                  {Request("defect_preparation_request")})
          \/ Gate(w, ended, "execution-batch", "cleanup-pending",
                  {CleanupAction(status)})
      BY <1>10, <2>1, <2>2 DEF HandleArtifactSummary
    <3>6. /\ "execution-batch" \in Stages
          /\ {"defects-pending", "cleanup-pending"} \subseteq Phases
          /\ {Request("defect_preparation_request")} \in SUBSET Requests
          /\ {CleanupAction(status)} \in SUBSET Requests
      BY <1>q, CleanupActionType DEF Stages, Phases, Queues
    <3> HIDE DEF tested, ended
    <3>7. QED
      BY <3>2, <3>4, <3>5, <3>6, GateEffect
  <2>3. Default(s.interruption, "blocked") \in Statuses
    BY <1>i, <1>b DEF Default
  <2>4. QED
    BY <1>10, <1>s, <2>1, <2>2, <2>3, BeginCleanupEffect
       DEF HandleArtifactSummary, Effect
<1>11. CASE HandleDefectTerminal(w)
  <2>1. PICK outcome \in {"published", "blocked"} : outcome = m.outcome
    BY <1>11, <1>s DEF HandleDefectTerminal, Handling, Messages, Events,
       EnvironmentEvents, AnswerEvents, Receipts
  <2> DEFINE status == Default(s.interruption,
                               IF outcome = "published" THEN s.tested
                                                        ELSE "blocked")
             ended == [s EXCEPT !.defects = outcome, !.status = status]
  <2>2. status \in Statuses
    BY <1>s, <1>i DEF Default, Statuses, RunStates
  <2>3. ended \in RunStates /\ ended.version = s.version
    BY <1>s, <2>2 DEF RunStates
  <2>4. \/ Repeat(w)
        \/ Gate(w, ended, "defect-publication", "cleanup-pending",
                {CleanupAction(status)})
    BY <1>11, <2>1 DEF HandleDefectTerminal
  <2>5. /\ "defect-publication" \in Stages
        /\ "cleanup-pending" \in Phases
        /\ {CleanupAction(status)} \in SUBSET Requests
    BY CleanupActionType DEF Stages, Phases
  <2> HIDE DEF ended
  <2>6. QED
    BY <2>3, <2>4, <2>5, GateEffect DEF Effect
<1>12. CASE HandlePublicationReceipt(w)
  <2>1. /\ [s EXCEPT !.lease = NoLease] \in RunStates
        /\ [s EXCEPT !.lease = NoLease].version = s.version
    BY <1>s, ConstantTypes DEF RunStates
  <2>2. s.lease.phase \in Phases /\ s.lease.actions \in SUBSET Requests
    BY <1>s DEF RunStates, Leases
  <2>3. /\ "terminal" \in Phases
        /\ {Request("terminal_request")} \in SUBSET Requests
    BY <1>q DEF Phases, Queues
  <2>4. \/ Repeat(w) \/ Fail(w)
        \/ Save(w, Pending([s EXCEPT !.lease = NoLease], s.lease.phase,
                           s.lease.actions))
        \/ Save(w, Pending(s, "terminal", {Request("terminal_request")}))
    BY <1>12 DEF HandlePublicationReceipt
  <2>5. QED
    BY <1>s, <2>1, <2>2, <2>3, <2>4, PendingEffect DEF Effect
<1>13. CASE HandleInterrupt(w)
  <2>1. m.outcome \in Interruptions
    BY <1>13, <1>s DEF HandleInterrupt, Handling, Messages, Events,
       EnvironmentEvents, AnswerEvents, Receipts
  <2> DEFINE marked == [s EXCEPT !.interruption = m.outcome]
  <2>2. marked \in RunStates /\ marked.version = s.version
    BY <1>s, <2>1 DEF RunStates
  <2>3. m.outcome \in Statuses
    BY <2>1 DEF Statuses
  <2>4. QED
    BY <1>13, <2>2, <2>3, BeginCleanupEffect DEF HandleInterrupt, Effect
<1>14. CASE PrepareModule(w)
  BY <1>14, <1>s, <1>q, GateEffect DEF PrepareModule, Stages, Phases, Queues
<1>15. QED
  BY <1>1, <1>2, <1>3, <1>4, <1>5, <1>6, <1>7, <1>8, <1>9, <1>10, <1>11, <1>12,
     <1>13, <1>14 DEF Handle

-----------------------------------------------------------------------------
(* Handlers that loaded the current run keep the inductive invariant.      *)

\* The effects of a handler whose run is the current one.
Sound(w) ==
    \/ Fail(w)
    \/ Repeat(w)
    \/ \E s \in RunStates :
         /\ s.version = st.version
         /\ RunInv(s)
         /\ \A r \in s.pending : Warranted(r)
         /\ Save(w, s)
    \/ Writes(w)
    \/ Proves(w)

\* The phases from which each stage is checkpointed.
Precedes ==
    {<<"absent", "intake">>,
     <<"environment-pending", "environment-ready">>,
     <<"analysis-pending", "design-round">>,
     <<"browser-readiness-pending", "browser-readiness">>,
     <<"module-pending", "design-closure">>,
     <<"artifact-summary-pending", "execution-batch">>,
     <<"defects-pending", "defect-publication">>,
     <<"environment-pending", "cleanup">>,
     <<"cleanup-pending", "cleanup">>}

\* A gate from the phase before its stage keeps the invariant of the run.
LEMMA GateSound ==
    ASSUME Inv, NEW w \in Workers, NEW s \in RunStates,
           s.version = st.version, s.phase = st.phase, s.lease = st.lease,
           s.attempts = st.attempts,
           NEW stage \in Stages, NEW phase \in Phases,
           NEW actions \in SUBSET Requests,
           <<st.phase, stage>> \in Precedes,
           <<stage, phase, actions>> \in Follows,
           s.env = "ready" => environment.start = "ready",
           phase \in AfterEnvironment => s.env = "ready",
           stage = "cleanup" => ReleasedEnvironment,
           Gate(w, s, stage, phase, actions)
    PROVE  Sound(w)
<1> DEFINE g == Gated(s, stage, phase, actions)
<1>1. CASE s.lease # NoLease
  BY <1>1 DEF Gate, Sound
<1>2. CASE s.lease = NoLease
  <2>1. s.attempts[stage] = 0
    BY <1>2 DEF Inv, RunInv, Attempted, Target, Precedes, TypeOK, RunStates,
       Stages, BeforeEnvironment, BeforeDesign, BeforeReadiness, BeforeClosure,
       BeforeBatch, BeforeDefects, BeforeCleanup, AfterClosure
  <2>2. g \in RunStates
    BY GatedType
  <2>3. /\ g.version = st.version
        /\ g.phase = "checkpoint-pending"
        /\ g.lease = [stage |-> stage, attempt |-> 1, phase |-> phase,
                      actions |-> actions]
        /\ g.attempts = [s.attempts EXCEPT ![stage] = 1]
        /\ g.env = s.env
        /\ g.pending = {CheckpointRequest(stage, 1)}
    <3>1. s.attempts[stage] + 1 = 1
      BY <2>1
    <3>2. g = [s EXCEPT !.attempts = [s.attempts EXCEPT ![stage] = 1],
                        !.lease = [stage |-> stage, attempt |-> 1,
                                   phase |-> phase, actions |-> actions],
                        !.phase = "checkpoint-pending",
                        !.pending = {CheckpointRequest(stage, 1)}]
      BY <3>1 DEF Gated, RunStates
    <3> HIDE DEF g
    <3>3. QED
      BY <3>2 DEF RunStates
  <2> HIDE DEF g
  <2>4. LeaseFits(g)
    <3>1. g.lease.attempt # NoLease.attempt
      BY <2>3 DEF NoLease
    <3>2. <<g.lease.stage, g.lease.phase, g.lease.actions>>
            = <<stage, phase, actions>>
      BY <2>3
    <3>3. QED
      BY <2>3, <3>1, <3>2 DEF LeaseFits
  <2>5. StagesPassed(g)
    BY <2>3 DEF StagesPassed, Passed, Target, Inv, RunInv, Precedes, Follows,
       AfterIntake, AfterEnvironment, AfterDesign, AfterReadiness, AfterClosure
  <2>6. Attempted(g)
    BY <1>2, <2>3 DEF Attempted, Target, Inv, RunInv, Precedes, Follows,
       RunStates, Stages, BeforeEnvironment, BeforeDesign, BeforeReadiness,
       BeforeClosure, BeforeBatch, BeforeDefects, BeforeCleanup, AfterClosure
  <2>7. EnvironmentKnown(g)
    BY <2>3 DEF EnvironmentKnown, Target, Follows
  <2>8. \A r \in g.pending : Warranted(r)
    BY <2>3 DEF CheckpointRequest, Warranted, Request
  <2>9. Save(w, g)
    BY <1>2 DEF Gate, g
  <2>10. QED
    BY <2>2, <2>3, <2>4, <2>5, <2>6, <2>7, <2>8, <2>9 DEF Sound, RunInv
<1>3. QED
  BY <1>1, <1>2

\* A run that leaves a phase without a lease keeps its invariant.
LEMMA MoveSound ==
    ASSUME Inv, NEW w \in Workers, NEW s \in RunStates,
           s.version = st.version, s.phase = st.phase, s.lease = st.lease,
           s.attempts = st.attempts,
           s.env = "ready" => environment.start = "ready",
           NEW phase, NEW actions \in SUBSET Requests,
           \/ /\ <<st.phase, phase>> \in
                   {<<"structured-plan-pending", "execution-grant-pending">>,
                    <<"execution-grant-pending", "structured-execution-pending">>,
                    <<"execution-grant-pending", "browser-control-pending">>}
              /\ s.env = st.env
           \/ /\ <<st.phase, phase>> \in
                   {<<"structured-execution-pending", "artifact-summary-pending">>,
                    <<"browser-control-pending", "artifact-summary-pending">>,
                    <<"publication-pending", "terminal">>}
              /\ s.env = st.env
           \/ /\ st.phase \in BeforeCleanup \union {"checkpoint-pending"}
              /\ phase \in {"cleanup-pending", "cleanup-blocked"},
           \A r \in actions : Warranted(r),
           Save(w, Pending(s, phase, actions))
    PROVE  Sound(w)
<1> DEFINE p == Pending(s, phase, actions)
<1>1. phase \in Phases
  BY DEF Phases
<1>2. p \in RunStates
  BY <1>1, PendingType
<1>3. /\ p.version = st.version
      /\ p.phase = phase
      /\ p.lease = st.lease
      /\ p.attempts = st.attempts
      /\ p.env = s.env
      /\ p.pending = actions
  BY DEF Pending, RunStates
<1> HIDE DEF p
<1>4. LeaseFits(p)
  BY <1>3 DEF LeaseFits, Inv, RunInv
<1>5. StagesPassed(p)
  BY <1>3 DEF StagesPassed, Passed, Target, Inv, RunInv,
     AfterIntake, AfterEnvironment, AfterDesign, AfterReadiness, AfterClosure
<1>6. Attempted(p)
  BY <1>3 DEF Attempted, LeaseFits, Target, Inv, RunInv,
     BeforeEnvironment, BeforeDesign, BeforeReadiness,
     BeforeClosure, BeforeBatch, BeforeDefects, BeforeCleanup, AfterClosure
<1>7. EnvironmentKnown(p)
  BY <1>3 DEF EnvironmentKnown, Target, Inv, RunInv,
     AfterIntake, AfterEnvironment, AfterDesign, AfterReadiness, AfterClosure
<1>8. QED
  BY <1>2, <1>3, <1>4, <1>5, <1>6, <1>7 DEF Sound, RunInv, p

\* Requests other than an execution or the terminal request need no warrant.
LEMMA OrdinaryRequest ==
    ASSUME NEW queue \in Queues \ {"structured_execution_request",
                                  "ai_browser_control_request",
                                  "terminal_request"}
    PROVE  \A r \in {Request(queue)} : Warranted(r)
BY DEF Warranted, Request

LEMMA OrdinaryCleanup ==
    \A status : \A r \in {CleanupAction(status)} : Warranted(r)
BY OrdinaryRequest DEF CleanupAction, Queues

\* Beginning a cleanup keeps the invariant of the run.
LEMMA BeginCleanupSound ==
    ASSUME Inv, NEW w \in Workers, NEW s \in RunStates,
           s.version = st.version, s.phase = st.phase, s.lease = st.lease,
           s.attempts = st.attempts,
           s.env = "ready" => environment.start = "ready",
           st.phase \in BeforeCleanup \union {"checkpoint-pending"},
           NEW status \in Statuses, BeginCleanup(w, s, status)
    PROVE  Sound(w)
<1> DEFINE c == [s EXCEPT !.status = status]
<1>1. CASE Fail(w)
  BY <1>1 DEF Sound
<1>2. CASE Save(w, Pending(c, "cleanup-pending", {CleanupAction(status)}))
  <2>1. /\ c \in RunStates
        /\ c.version = st.version
        /\ c.phase = st.phase
        /\ c.lease = st.lease
        /\ c.attempts = st.attempts
        /\ c.env = s.env
    BY DEF RunStates
  <2> HIDE DEF c
  <2>2. {CleanupAction(status)} \in SUBSET Requests
    BY CleanupActionType
  <2>3. QED
    BY <1>2, <2>1, <2>2, OrdinaryCleanup, MoveSound
<1>3. QED
  BY <1>1, <1>2 DEF BeginCleanup

\* Accepting a cleanup result keeps the invariant of the run.
LEMMA AcceptCleanupSound ==
    ASSUME Inv, NEW w \in Workers, NEW s \in RunStates,
           s.version = st.version, s.phase = st.phase, s.lease = st.lease,
           s.attempts = st.attempts,
           s.env = "ready" => environment.start = "ready",
           Handling(w, "environment"), worker[w].snap = st, s = Closing(st),
           st.phase \in {"environment-pending", "cleanup-pending"},
           AcceptCleanup(w, s, worker[w].msg)
    PROVE  Sound(w)
<1> DEFINE blocked == [s EXCEPT !.cleanup = "incomplete", !.status = "blocked"]
<1>1. CASE \/ Fail(w)
           \/ /\ CleanupStatus(worker[w].msg) = "complete"
              /\ WriteTerminalSummary(w, s)
  BY <1>1 DEF Sound, Writes, Handling
<1>2. CASE Save(w, Pending(blocked, "cleanup-blocked", {}))
  <2>1. /\ blocked \in RunStates
        /\ blocked.version = st.version
        /\ blocked.phase = st.phase
        /\ blocked.lease = st.lease
        /\ blocked.attempts = st.attempts
        /\ blocked.env = s.env
    BY BlockedType
  <2> HIDE DEF blocked
  <2>2. st.phase \in BeforeCleanup
    BY DEF BeforeCleanup, BeforeDefects, BeforeBatch, BeforeClosure,
       BeforeReadiness, BeforeDesign, BeforeEnvironment
  <2>3. QED
    BY <1>2, <2>1, <2>2, MoveSound
<1>3. QED
  BY <1>1, <1>2 DEF AcceptCleanup

\* Releasing a lease keeps the invariant of the run.
LEMMA ReleaseSound ==
    ASSUME Inv, NEW w \in Workers, st.phase = "checkpoint-pending",
           Receipt(st.lease.stage, st.lease.attempt) \in receipts,
           Save(w, Pending([st EXCEPT !.lease = NoLease], st.lease.phase,
                           st.lease.actions))
    PROVE  Sound(w)
<1> DEFINE p == Pending([st EXCEPT !.lease = NoLease], st.lease.phase,
                        st.lease.actions)
<1>1. st \in RunStates /\ st.lease \in Leases
  BY DEF Inv, TypeOK, RunStates
<1>2. /\ st.lease.attempt = 1
      /\ <<st.lease.stage, st.lease.phase, st.lease.actions>> \in Follows
  BY DEF Inv, RunInv, LeaseFits
<1>3. Published(st.lease.stage)
  BY <1>2 DEF Published
<1>4. p \in RunStates
  <2>1. [st EXCEPT !.lease = NoLease] \in RunStates
    BY <1>1, ConstantTypes DEF RunStates
  <2>2. st.lease.phase \in Phases /\ st.lease.actions \in SUBSET Requests
    BY <1>1 DEF Leases
  <2>3. QED
    BY <2>1, <2>2, PendingType
<1>5. /\ p.version = st.version
      /\ p.phase = st.lease.phase
      /\ p.lease = NoLease
      /\ p.attempts = st.attempts
      /\ p.env = st.env
      /\ p.pending = st.lease.actions
  BY <1>1 DEF Pending, RunStates
<1> HIDE DEF p
<1>6. Target(p) = Target(st) /\ p.phase # "checkpoint-pending"
  BY <1>2, <1>5 DEF Target, Follows
<1>7. LeaseFits(p)
  BY <1>5, <1>6 DEF LeaseFits
<1>8. StagesPassed(p)
  BY <1>3, <1>5, <1>6 DEF StagesPassed, Passed, Inv, RunInv
<1>9. Attempted(p)
  BY <1>5, <1>6 DEF Attempted, Inv, RunInv
<1>10. EnvironmentKnown(p)
  BY <1>2, <1>3, <1>5, <1>6 DEF EnvironmentKnown, Target, Inv, RunInv, Follows
<1>11. \A r \in p.pending : Warranted(r)
  BY <1>2, <1>5 DEF Follows, Warranted, Request
<1>12. QED
  BY <1>4, <1>5, <1>7, <1>8, <1>9, <1>10, <1>11 DEF Sound, RunInv, p

\* A handler of the current run keeps the invariant.
LEMMA HandlerSound ==
    ASSUME Inv, NEW w \in Workers, Active(w), worker[w].snap = st, Handle(w)
    PROVE  Sound(w)
<1> DEFINE m == worker[w].msg
<1>s. /\ st \in RunStates
      /\ m \in Messages
      /\ Genuine(m)
      /\ st.env = "ready" => environment.start = "ready"
  BY DEF Inv, HandlerInv, TypeOK, Handlers, RunInv, EnvironmentKnown
<1>q. \A queue \in Queues : {Request(queue)} \in SUBSET Requests
  BY RequestType
<1>i. st.interruption \in Statuses
  BY <1>s DEF RunStates, Statuses
<1>b. "blocked" \in Statuses
  BY DEF Statuses
<1>e. st.phase \in AfterEnvironment => st.env = "ready"
  BY DEF Inv, RunInv, EnvironmentKnown, Target, AfterEnvironment,
     AfterDesign, AfterReadiness, AfterClosure
<1>c. {"analysis-pending", "browser-readiness-pending", "module-pending",
       "structured-plan-pending", "execution-grant-pending",
       "artifact-summary-pending", "defects-pending", "environment-pending",
       "cleanup-pending"} \subseteq BeforeCleanup
  BY DEF BeforeCleanup, BeforeDefects, BeforeBatch, BeforeClosure,
     BeforeReadiness, BeforeDesign, BeforeEnvironment, AfterClosure
<1>1. CASE Redrive(w)
  <2>1. CASE Repeat(w)
    BY <2>1 DEF Sound
  <2>2. CASE st.phase = "absent" /\ StartRun(w, st)
    <3>1. /\ <<"absent", "intake">> \in Precedes
          /\ <<"intake", "environment-pending", {Request("environment_start")}>>
               \in Follows
          /\ "intake" \in Stages \ {"cleanup"}
          /\ "environment-pending" \in Phases \ AfterEnvironment
          /\ {Request("environment_start")} \in SUBSET Requests
      BY <1>q DEF Precedes, Follows, Stages, Phases, Queues, AfterEnvironment,
         AfterDesign, AfterReadiness, AfterClosure
    <3>2. QED
      BY <1>s, <2>2, <3>1, GateSound DEF StartRun
  <2>3. QED
    BY <1>1, <2>1, <2>2 DEF Redrive
<1>2. CASE HandleAnalysis(w)
  <2>1. /\ <<"analysis-pending", "design-round">> \in Precedes
        /\ <<"design-round", "browser-readiness-pending",
             {Request("browser_readiness_check")}>> \in Follows
        /\ "analysis-pending" \in AfterEnvironment
        /\ "design-round" \in Stages \ {"cleanup"}
        /\ "browser-readiness-pending" \in Phases
        /\ {Request("browser_readiness_check")} \in SUBSET Requests
    BY <1>q DEF Precedes, Follows, Stages, Phases, Queues, AfterEnvironment
  <2>2. CASE /\ st.phase = "analysis-pending"
             /\ Gate(w, st, "design-round", "browser-readiness-pending",
                     {Request("browser_readiness_check")})
    BY <1>s, <1>e, <2>1, <2>2, GateSound
  <2>3. CASE /\ st.phase = "analysis-pending"
             /\ \/ BeginCleanup(w, st, st.interruption)
                \/ BeginCleanup(w, st, "blocked")
    BY <1>s, <1>i, <1>b, <1>c, <2>3, BeginCleanupSound
  <2>4. QED
    BY <1>2, <2>2, <2>3 DEF HandleAnalysis, Awaiting, Sound
<1>3. CASE HandleBrowserReadiness(w)
  <2>1. CASE Proves(w)
    BY <2>1 DEF Sound
  <2>2. CASE /\ st.phase = "browser-readiness-pending"
             /\ \/ BeginCleanup(w, st, st.interruption)
                \/ BeginCleanup(w, st, "blocked")
    BY <1>s, <1>i, <1>b, <1>c, <2>2, BeginCleanupSound
  <2>3. QED
    BY <1>3, <2>1, <2>2 DEF HandleBrowserReadiness, Awaiting, Sound, Proves,
       Handling
<1>4. CASE HandleModuleTerminal(w)
  <2>1. /\ <<"module-pending", "design-closure">> \in Precedes
        /\ <<"design-closure", "structured-plan-pending",
             {Request("structured_plan_request")}>> \in Follows
        /\ "module-pending" \in AfterEnvironment
        /\ "design-closure" \in Stages \ {"cleanup"}
        /\ "structured-plan-pending" \in Phases
        /\ {Request("structured_plan_request")} \in SUBSET Requests
    BY <1>q DEF Precedes, Follows, Stages, Phases, Queues, AfterEnvironment,
       AfterDesign, AfterReadiness
  <2>2. CASE /\ st.phase = "module-pending"
             /\ Gate(w, st, "design-closure", "structured-plan-pending",
                     {Request("structured_plan_request")})
    BY <1>s, <1>e, <2>1, <2>2, GateSound
  <2>3. CASE /\ st.phase = "module-pending"
             /\ \/ BeginCleanup(w, st, st.interruption)
                \/ BeginCleanup(w, st, "blocked")
    BY <1>s, <1>i, <1>b, <1>c, <2>3, BeginCleanupSound
  <2>4. QED
    BY <1>4, <2>2, <2>3 DEF HandleModuleTerminal, Awaiting, Sound
<1>5. CASE HandlePlan(w)
  <2> DEFINE p == [st EXCEPT !.mode = m.outcome]
  <2>1. CASE /\ st.interruption = "none" /\ m.outcome # "blocked"
             /\ st.phase = "structured-plan-pending"
    <3>1. m.outcome \in {"structured", "browser"}
      BY <1>5, <1>s, <2>1 DEF HandlePlan, Handling, Messages, Events,
         EnvironmentEvents, AnswerEvents, Receipts
    <3>2. /\ p \in RunStates
          /\ p.version = st.version
          /\ p.phase = st.phase
          /\ p.lease = st.lease
          /\ p.attempts = st.attempts
          /\ p.env = st.env
      BY <1>s, <3>1 DEF RunStates
    <3>3. Save(w, Pending(p, "execution-grant-pending",
                          {Request("execution_grant_request")}))
      BY <1>5, <2>1 DEF HandlePlan, Awaiting
    <3>4. \A r \in {Request("execution_grant_request")} : Warranted(r)
      BY OrdinaryRequest DEF Queues
    <3>5. {Request("execution_grant_request")} \in SUBSET Requests
      BY <1>q DEF Queues
    <3> HIDE DEF p
    <3>6. QED
      BY <1>s, <2>1, <3>2, <3>3, <3>4, <3>5, MoveSound
  <2>2. QED
    BY <1>5, <1>s, <1>i, <1>b, <1>c, <2>1, BeginCleanupSound
       DEF HandlePlan, Awaiting, Sound
<1>6. CASE HandleGrant(w)
  <2>1. CASE st.phase = "execution-grant-pending"
    <3>1. /\ environment.start = "ready"
          /\ Asked("execution_grant_request")
          /\ \A stage \in {"intake", "environment-ready", "design-round",
                            "browser-readiness", "design-closure"} :
                Published(stage)
      BY <1>6, <1>s, <1>e, <2>1 DEF HandleGrant, Handling, Genuine, Inv, RunInv,
         StagesPassed, Passed, Target, AfterIntake, AfterEnvironment,
         AfterDesign, AfterReadiness, AfterClosure
    <3>2. /\ \A r \in {Request("structured_execution_request")} : Warranted(r)
          /\ \A r \in {Request("ai_browser_control_request")} : Warranted(r)
      BY <3>1 DEF Warranted, Request
    <3>3. /\ {Request("structured_execution_request")} \in SUBSET Requests
          /\ {Request("ai_browser_control_request")} \in SUBSET Requests
      BY <1>q DEF Queues
    <3>4. CASE Save(w, Pending(st, "structured-execution-pending",
                               {Request("structured_execution_request")}))
      BY <1>s, <2>1, <3>2, <3>3, <3>4, MoveSound
    <3>5. CASE Save(w, Pending(st, "browser-control-pending",
                               {Request("ai_browser_control_request")}))
      BY <1>s, <2>1, <3>2, <3>3, <3>5, MoveSound
    <3>6. \/ Save(w, Pending(st, "structured-execution-pending",
                             {Request("structured_execution_request")}))
          \/ Save(w, Pending(st, "browser-control-pending",
                             {Request("ai_browser_control_request")}))
          \/ BeginCleanup(w, st, "blocked")
          \/ BeginCleanup(w, st, st.interruption)
      BY <1>6, <2>1 DEF HandleGrant, Awaiting
    <3>7. QED
      BY <1>s, <1>i, <1>b, <1>c, <2>1, <3>4, <3>5, <3>6, BeginCleanupSound
  <2>2. QED
    BY <1>6, <2>1 DEF HandleGrant, Awaiting, Sound
<1>7. CASE HandleExecution(w)
  <2>1. CASE Repeat(w) \/ Fail(w)
    BY <2>1 DEF Sound
  <2>2. CASE /\ st.phase = ExecutionPhase(st)
             /\ Save(w, Pending(st, "artifact-summary-pending",
                                {Request("testing_result")}))
    <3>1. \A r \in {Request("testing_result")} : Warranted(r)
      BY OrdinaryRequest DEF Queues
    <3>2. {Request("testing_result")} \in SUBSET Requests
      BY <1>q DEF Queues
    <3>3. QED
      BY <1>s, <2>2, <3>1, <3>2, MoveSound DEF ExecutionPhase
  <2>3. QED
    BY <1>7, <2>1, <2>2 DEF HandleExecution
<1>8. CASE HandleEnvironment(w)
  <2> DEFINE ready == [st EXCEPT !.env = "ready"]
  <2>1. CASE m.outcome = "ready" /\ st.phase = "environment-pending"
    <3>1. environment.start = "ready"
      BY <1>8, <1>s, <2>1 DEF HandleEnvironment, Handling, Genuine, Inv, TypeOK,
         CleanupOutcomes
    <3>2. /\ ready \in RunStates
          /\ ready.version = st.version
          /\ ready.phase = st.phase
          /\ ready.lease = st.lease
          /\ ready.attempts = st.attempts
          /\ ready.env = "ready"
      BY <1>s DEF RunStates
    <3>3. \/ BeginCleanup(w, ready, st.interruption)
          \/ Gate(w, ready, "environment-ready", "analysis-pending",
                  {Request("analysis_request")})
      BY <1>8, <2>1 DEF HandleEnvironment
    <3>4. /\ <<"environment-pending", "environment-ready">> \in Precedes
          /\ <<"environment-ready", "analysis-pending",
               {Request("analysis_request")}>> \in Follows
          /\ "environment-ready" \in Stages
          /\ "analysis-pending" \in Phases
          /\ {Request("analysis_request")} \in SUBSET Requests
      BY <1>q DEF Precedes, Follows, Stages, Phases, Queues
    <3> HIDE DEF ready
    <3>5. QED
      BY <1>i, <1>c, <2>1, <3>1, <3>2, <3>3, <3>4, GateSound, BeginCleanupSound
  <2>2. CASE ~(m.outcome = "ready" /\ st.phase = "environment-pending")
    <3>1. /\ Closing(st) \in RunStates
          /\ Closing(st).version = st.version
          /\ Closing(st).phase = st.phase
          /\ Closing(st).lease = st.lease
          /\ Closing(st).attempts = st.attempts
          /\ Closing(st).env = "ready" => environment.start = "ready"
      BY <1>s, ClosingType
    <3>2. CASE AcceptCleanup(w, st, m) /\ st.phase = "cleanup-pending"
      BY <1>s, <1>8, <3>2, AcceptCleanupSound DEF HandleEnvironment, Closing
    <3>3. CASE AcceptCleanup(w, Closing(st), m)
               /\ st.phase = "environment-pending"
      BY <1>8, <3>1, <3>3, AcceptCleanupSound DEF HandleEnvironment
    <3>4. QED
      BY <1>8, <2>2, <3>2, <3>3 DEF HandleEnvironment, Sound
  <2>3. QED
    BY <2>1, <2>2
<1>9. CASE PrepareFinalization(w)
  <2> DEFINE c == Closing(st)
             f == [c EXCEPT !.cleanup = "complete", !.summary = SummaryOf(c)]
  <2>1. /\ st.phase \in {"environment-pending", "cleanup-pending"}
        /\ m.type = "environment"
        /\ CleanupStatus(m) = "complete"
    BY <1>9 DEF PrepareFinalization, Inv, HandlerInv
  <2>2. m.outcome \in {"complete", "blocked-complete"}
    BY <2>1 DEF CleanupStatus
  <2>3. ReleasedEnvironment
    BY <1>s, <2>1, <2>2 DEF Genuine, ReleasedEnvironment, Inv, TypeOK,
       StartOutcomes, CleanupOutcomes
  <2>4. /\ c \in RunStates
        /\ c.version = st.version
        /\ c.phase = st.phase
        /\ c.lease = st.lease
        /\ c.attempts = st.attempts
        /\ c.env = "ready" => environment.start = "ready"
    BY <1>s, ClosingType
  <2>5. SummaryOf(c) \in Summaries
    BY <2>4 DEF SummaryOf, Summaries, RunStates, Statuses
  <2>6. Gate(w, f, "cleanup", "publication-pending",
             {Request("qa_finalize_request")})
    BY <1>9 DEF PrepareFinalization
  <2> HIDE DEF c
  <2>7. /\ f \in RunStates
        /\ f.version = st.version
        /\ f.phase = st.phase
        /\ f.lease = st.lease
        /\ f.attempts = st.attempts
        /\ f.env = "ready" => environment.start = "ready"
    BY <2>4, <2>5 DEF RunStates
  <2>8. /\ <<st.phase, "cleanup">> \in Precedes
        /\ <<"cleanup", "publication-pending",
             {Request("qa_finalize_request")}>> \in Follows
        /\ "cleanup" \in Stages
        /\ "publication-pending" \in Phases \ AfterEnvironment
        /\ {Request("qa_finalize_request")} \in SUBSET Requests
    BY <1>q, <2>1 DEF Precedes, Follows, Stages, Phases, Queues,
       AfterEnvironment, AfterDesign, AfterReadiness, AfterClosure
  <2> HIDE DEF f
  <2>9. QED
    BY <2>3, <2>6, <2>7, <2>8, GateSound
<1>10. CASE HandleArtifactSummary(w)
  <2>1. PICK outcome \in {"passed", "failed", "degraded", "blocked", "missing"} :
          outcome = m.outcome
    BY <1>10, <1>s DEF HandleArtifactSummary, Handling, Messages, Events,
       EnvironmentEvents, AnswerEvents, Receipts
  <2> DEFINE tested == [st EXCEPT !.tested = outcome]
             clean == [tested EXCEPT !.defects = IF outcome = "failed"
                                                 THEN @ ELSE "published"]
             status == Default(st.interruption, outcome)
             ended == [clean EXCEPT !.status = status]
  <2>2. CASE outcome \in {"passed", "failed", "degraded"}
             /\ st.phase = "artifact-summary-pending"
    <3>1. status \in Statuses
      BY <1>i, <2>2 DEF Default, Statuses
    <3>2. /\ tested \in RunStates
          /\ tested.version = st.version
          /\ tested.phase = st.phase
          /\ tested.lease = st.lease
          /\ tested.attempts = st.attempts
          /\ tested.env = st.env
      BY <1>s, <2>2 DEF RunStates
    <3>3. /\ ended \in RunStates
          /\ ended.version = st.version
          /\ ended.phase = st.phase
          /\ ended.lease = st.lease
          /\ ended.attempts = st.attempts
          /\ ended.env = st.env
      <4> HIDE DEF tested
      <4>1. /\ clean \in RunStates
            /\ clean.version = st.version
            /\ clean.phase = st.phase
            /\ clean.lease = st.lease
            /\ clean.attempts = st.attempts
            /\ clean.env = st.env
        BY <3>2 DEF RunStates
      <4> HIDE DEF clean, status
      <4>2. QED
        BY <3>1, <4>1 DEF RunStates
    <3>4. \/ Gate(w, tested, "execution-batch", "defects-pending",
                  {Request("defect_preparation_request")})
          \/ Gate(w, ended, "execution-batch", "cleanup-pending",
                  {CleanupAction(status)})
      BY <1>10, <2>1, <2>2 DEF HandleArtifactSummary
    <3>5. /\ "execution-batch" \in Stages
          /\ {"defects-pending", "cleanup-pending"}
               \subseteq Phases \ AfterEnvironment
          /\ {Request("defect_preparation_request")} \in SUBSET Requests
          /\ {CleanupAction(status)} \in SUBSET Requests
      BY <1>q, CleanupActionType DEF Stages, Phases, Queues, AfterEnvironment,
         AfterDesign, AfterReadiness, AfterClosure
    <3>6. /\ <<st.phase, "execution-batch">> \in Precedes
          /\ <<"execution-batch", "defects-pending",
               {Request("defect_preparation_request")}>> \in Follows
          /\ <<"execution-batch", "cleanup-pending",
               {CleanupAction(status)}>> \in Follows
      BY <2>2 DEF Precedes, Follows, CleanupAction
    <3> HIDE DEF tested, ended
    <3>7. CASE Gate(w, tested, "execution-batch", "defects-pending",
                    {Request("defect_preparation_request")})
      BY <1>s, <3>2, <3>5, <3>6, <3>7, GateSound
    <3>8. CASE Gate(w, ended, "execution-batch", "cleanup-pending",
                    {CleanupAction(status)})
      BY <1>s, <3>3, <3>5, <3>6, <3>8, GateSound
    <3>9. QED
      BY <3>4, <3>7, <3>8
  <2>3. Default(st.interruption, "blocked") \in Statuses
    BY <1>i, <1>b DEF Default
  <2>4. QED
    BY <1>10, <1>s, <1>c, <2>1, <2>2, <2>3, BeginCleanupSound
       DEF HandleArtifactSummary, Sound
<1>11. CASE HandleDefectTerminal(w)
  <2>1. PICK outcome \in {"published", "blocked"} : outcome = m.outcome
    BY <1>11, <1>s DEF HandleDefectTerminal, Handling, Messages, Events,
       EnvironmentEvents, AnswerEvents, Receipts
  <2> DEFINE status == Default(st.interruption,
                               IF outcome = "published" THEN st.tested
                                                        ELSE "blocked")
             ended == [st EXCEPT !.defects = outcome, !.status = status]
  <2>2. status \in Statuses
    BY <1>s, <1>i DEF Default, Statuses, RunStates
  <2> HIDE DEF status
  <2>3. /\ ended \in RunStates
        /\ ended.version = st.version
        /\ ended.phase = st.phase
        /\ ended.lease = st.lease
        /\ ended.attempts = st.attempts
        /\ ended.env = st.env
    <3>1. st \in RunStates /\ outcome \in {"none", "published", "blocked"}
      BY <1>s
    <3>2. QED
      BY <2>2, <3>1 DEF RunStates
  <2> USE DEF status
  <2>4. \/ Repeat(w)
        \/ /\ st.phase = "defects-pending"
           /\ Gate(w, ended, "defect-publication", "cleanup-pending",
                   {CleanupAction(status)})
    BY <1>11, <2>1 DEF HandleDefectTerminal
  <2>5. /\ "defect-publication" \in Stages
        /\ "cleanup-pending" \in Phases \ AfterEnvironment
        /\ {CleanupAction(status)} \in SUBSET Requests
        /\ <<"defects-pending", "defect-publication">> \in Precedes
        /\ <<"defect-publication", "cleanup-pending",
             {CleanupAction(status)}>> \in Follows
    BY CleanupActionType DEF Stages, Phases, AfterEnvironment, AfterDesign,
       AfterReadiness, AfterClosure, Precedes, Follows, CleanupAction
  <2> HIDE DEF ended
  <2>6. QED
    BY <1>s, <2>3, <2>4, <2>5, GateSound DEF Sound
<1>12. CASE HandlePublicationReceipt(w)
  <2>1. m \in Receipts => m \in receipts
    BY <1>s DEF Genuine
  <2>2. CASE Repeat(w) \/ Fail(w)
    BY <2>2 DEF Sound
  <2>3. CASE /\ st.phase = "checkpoint-pending"
             /\ m = Receipt(st.lease.stage, st.lease.attempt)
             /\ Save(w, Pending([st EXCEPT !.lease = NoLease], st.lease.phase,
                                st.lease.actions))
    <3>1. m \in Receipts
      BY <1>s, <2>3 DEF Receipt, Receipts, RunStates, Leases
    <3>2. QED
      BY <2>1, <2>3, <3>1, ReleaseSound
  <2>4. CASE /\ st.phase = "publication-pending"
             /\ m = Receipt("aggregate-report", 1)
             /\ Save(w, Pending(st, "terminal", {Request("terminal_request")}))
    <3>1. Published("aggregate-report")
      BY <2>1, <2>4 DEF Receipt, Receipts, Published
    <3>2. ReleasedEnvironment /\ Published("cleanup")
      BY <2>4 DEF Inv, RunInv, EnvironmentKnown, Target
    <3>3. \A r \in {Request("terminal_request")} : Warranted(r)
      BY <3>1, <3>2 DEF Warranted, Request
    <3>4. {Request("terminal_request")} \in SUBSET Requests
      BY <1>q DEF Queues
    <3>5. QED
      BY <1>s, <2>4, <3>3, <3>4, MoveSound
  <2>5. QED
    BY <1>12, <2>2, <2>3, <2>4 DEF HandlePublicationReceipt
<1>13. CASE HandleInterrupt(w)
  <2>1. m.outcome \in Interruptions
    BY <1>13, <1>s DEF HandleInterrupt, Handling, Messages, Events,
       EnvironmentEvents, AnswerEvents, Receipts
  <2> DEFINE marked == [st EXCEPT !.interruption = m.outcome]
  <2>2. /\ marked \in RunStates
        /\ marked.version = st.version
        /\ marked.phase = st.phase
        /\ marked.lease = st.lease
        /\ marked.attempts = st.attempts
        /\ marked.env = st.env
        /\ marked.pending = st.pending
    BY <1>s, <2>1 DEF RunStates
  <2> HIDE DEF marked
  <2>3. CASE Fail(w) \/ Repeat(w)
    BY <2>3 DEF Sound
  <2>4. CASE Save(w, marked)
    <3>1. RunInv(marked)
      BY <2>2 DEF Inv, RunInv, LeaseFits, StagesPassed, Passed, Attempted,
         EnvironmentKnown, Target
    <3>2. \A r \in marked.pending : Warranted(r)
      BY <2>2 DEF Inv
    <3>3. QED
      BY <2>2, <2>4, <3>1, <3>2 DEF Sound
  <2>5. CASE /\ st.phase \notin Ended \union Recording \union {"absent"}
             /\ BeginCleanup(w, marked, m.outcome)
    <3>1. m.outcome \in Statuses
      BY <2>1 DEF Statuses
    <3>2. st.phase \in BeforeCleanup \union {"checkpoint-pending"}
      BY <1>s, <2>5 DEF RunStates, Phases, Ended, Recording, BeforeCleanup,
         BeforeDefects, BeforeBatch, BeforeClosure, BeforeReadiness,
         BeforeDesign, BeforeEnvironment, AfterClosure
    <3>3. QED
      BY <1>s, <2>2, <2>5, <3>1, <3>2, BeginCleanupSound
  <2>6. QED
    BY <1>13, <2>3, <2>4, <2>5 DEF HandleInterrupt, marked
<1>14. CASE PrepareModule(w)
  <2>1. /\ <<"browser-readiness-pending", "browser-readiness">> \in Precedes
        /\ <<"browser-readiness", "module-pending",
             {Request("module_start")}>> \in Follows
        /\ "browser-readiness-pending" \in AfterEnvironment
        /\ "browser-readiness" \in Stages \ {"cleanup"}
        /\ "module-pending" \in Phases
        /\ {Request("module_start")} \in SUBSET Requests
    BY <1>q DEF Precedes, Follows, Stages, Phases, Queues, AfterEnvironment,
       AfterDesign
  <2>2. /\ st.phase = "browser-readiness-pending"
        /\ Gate(w, st, "browser-readiness", "module-pending",
                {Request("module_start")})
    BY <1>14 DEF PrepareModule, Inv, HandlerInv
  <2>3. QED
    BY <1>s, <1>e, <2>1, <2>2, GateSound
<1>15. ~Raise(w)
  BY DEF Raise, Active
<1>16. QED
  BY <1>1, <1>2, <1>3, <1>4, <1>5, <1>6, <1>7, <1>8, <1>9, <1>10, <1>11, <1>12,
     <1>13, <1>14, <1>15 DEF Handle

-----------------------------------------------------------------------------
(* Every step keeps the inductive invariant.                               *)

\* What was warranted stays warranted, and what was genuine stays genuine.
Grows ==
    /\ raised \subseteq raised'
    /\ receipts \subseteq receipts'
    /\ environment.start \in {"none", environment'.start}
    /\ environment.cleanup \in {"none", environment'.cleanup}
    /\ proof \in {"none", proof'}

LEMMA GrowsKeeps ==
    ASSUME TypeOK, Grows
    PROVE  /\ \A r : Warranted(r) => Warranted(r)'
           /\ \A m \in Messages : Genuine(m) => Genuine(m)'
           /\ \A s \in RunStates : RunInv(s) => RunInv(s)'
<1>1. \A stage : Published(stage) => Published(stage)'
  BY DEF Grows, Published
<1>2. \A queue : Asked(queue) => Asked(queue)'
  BY DEF Grows, Asked
<1>3. ReleasedEnvironment => ReleasedEnvironment'
  BY DEF Grows, ReleasedEnvironment
<1>4. environment.start = "ready" => environment'.start = "ready"
  BY DEF Grows
<1>5. \A r : Warranted(r) => Warranted(r)'
  BY <1>1, <1>2, <1>3, <1>4 DEF Warranted
<1>6. \A m \in Messages : Genuine(m) => Genuine(m)'
  BY <1>2 DEF Grows, Genuine, Messages, Events, EnvironmentEvents,
     AnswerEvents, Receipts, StartOutcomes, CleanupOutcomes
<1>7. \A s \in RunStates : RunInv(s) => RunInv(s)'
  <2> SUFFICES ASSUME NEW s \in RunStates, RunInv(s) PROVE RunInv(s)'
    OBVIOUS
  <2>1. LeaseFits(s)'
    BY DEF RunInv, LeaseFits
  <2>2. StagesPassed(s)'
    BY <1>1 DEF RunInv, StagesPassed, Passed
  <2>3. Attempted(s)'
    BY DEF RunInv, Attempted
  <2>4. EnvironmentKnown(s)'
    BY <1>1, <1>3, <1>4 DEF RunInv, EnvironmentKnown
  <2>5. QED
    BY <2>1, <2>2, <2>3, <2>4 DEF RunInv
<1>8. QED
  BY <1>5, <1>6, <1>7

\* A handler that loaded an older run can only drop its event, repeat old
\* requests or write the summary: its save fails the compare-and-swap.
LEMMA AnyHandlerSound ==
    ASSUME Inv, NEW w \in Workers, Handle(w)
    PROVE  Sound(w) \/ Raise(w)
<1>1. CASE Raise(w)
  BY <1>1
<1>2. CASE ~Raise(w) /\ worker[w].snap.version = st.version
  <2>1. Active(w)
    BY <1>2 DEF Handle, Redrive, HandleEnvironment, PrepareFinalization,
       HandleAnalysis, HandleBrowserReadiness, PrepareModule,
       HandleModuleTerminal, HandlePlan,
       HandleGrant, HandleExecution, HandleArtifactSummary,
       HandleDefectTerminal, HandlePublicationReceipt, HandleInterrupt,
       Handling, Active
  <2>2. worker[w].snap = st
    BY <1>2, <2>1 DEF Inv, HandlerInv
  <2>3. QED
    BY <2>1, <2>2, HandlerSound
<1>3. CASE ~Raise(w) /\ worker[w].snap.version # st.version
  <2>1. Effect(w)
    BY <1>3, HandlerEffects DEF Inv
  <2>2. \A s : s.version = worker[w].snap.version /\ Save(w, s) => Fail(w)
    BY <1>3 DEF Save
  <2>3. QED
    BY <2>1, <2>2 DEF Effect, Sound
<1>4. QED
  BY <1>1, <1>2, <1>3

\* A step that changes only one worker keeps what the invariant says of the
\* others, if the run keeps its version or advances it.
LEMMA OthersKept ==
    ASSUME Inv, Grows, TypeOK', NEW w \in Workers, NEW v \in Workers \ {w},
           worker'[v] = worker[v],
           st' = st \/ st'.version = st.version + 1
    PROVE  HandlerInv(v)'
<1>1. st.version \in Nat /\ worker[v].snap.version \in Nat
  BY DEF Inv, TypeOK, RunStates, Handlers
<1>2. worker[v].msg \in Messages
  BY DEF Inv, TypeOK, Handlers
<1>3. HandlerInv(v)
  BY DEF Inv
<1>4. /\ \A r : Warranted(r) => Warranted(r)'
      /\ \A m \in Messages : Genuine(m) => Genuine(m)'
  BY GrowsKeeps DEF Inv
<1>5. \A r \in worker'[v].out \union worker'[v].snap.pending : Warranted(r)'
  BY <1>3, <1>4 DEF HandlerInv
<1>6. Active(v)' =>
        /\ worker'[v].snap.version <= st'.version
        /\ worker'[v].snap.version = st'.version => worker'[v].snap = st'
        /\ Genuine(worker[v].msg)'
        /\ worker'[v].stage = "proved" =>
              /\ worker'[v].snap.phase = "browser-readiness-pending"
              /\ worker'[v].snap.interruption = "none"
              /\ worker'[v].msg.type = "readiness"
              /\ worker'[v].msg.outcome = proof'
        /\ worker'[v].stage = "written" =>
              /\ worker'[v].msg.type = "environment"
              /\ worker'[v].snap.phase \in {"environment-pending",
                                             "cleanup-pending"}
              /\ CleanupStatus(worker'[v].msg) = "complete"
  <2> SUFFICES ASSUME Active(v)' PROVE
        /\ worker'[v].snap.version <= st'.version
        /\ worker'[v].snap.version = st'.version => worker'[v].snap = st'
        /\ Genuine(worker[v].msg)'
        /\ worker'[v].stage = "proved" =>
              /\ worker'[v].snap.phase = "browser-readiness-pending"
              /\ worker'[v].snap.interruption = "none"
              /\ worker'[v].msg.type = "readiness"
              /\ worker'[v].msg.outcome = proof'
        /\ worker'[v].stage = "written" =>
              /\ worker'[v].msg.type = "environment"
              /\ worker'[v].snap.phase \in {"environment-pending",
                                             "cleanup-pending"}
              /\ CleanupStatus(worker'[v].msg) = "complete"
    OBVIOUS
  <2>1. Active(v)
    BY DEF Active
  <2>2. Genuine(worker[v].msg)'
    BY <1>2, <1>3, <1>4, <2>1 DEF HandlerInv, Genuine
  <2>3. worker[v].stage = "proved" =>
          /\ worker[v].msg.outcome = proof
          /\ worker[v].msg.outcome # "none"
    BY <1>2, <1>3, <2>1 DEF HandlerInv, Messages, Events, EnvironmentEvents,
       AnswerEvents, Receipts, StartOutcomes, CleanupOutcomes, Proofs
  <2>4. proof \in {"none", proof'}
    BY DEF Grows
  <2>5. QED
    BY <1>1, <1>3, <2>1, <2>2, <2>3, <2>4 DEF HandlerInv
<1>7. QED
  BY <1>5, <1>6 DEF HandlerInv, Active

\* An idle worker satisfies the invariant of handlers.
LEMMA IdleKept ==
    ASSUME NEW w \in Workers, worker'[w] = Idle
    PROVE  HandlerInv(w)'
BY DEF HandlerInv, Active, Idle, NoRun

\* A step that leaves the run alone and empties one worker keeps the invariant.
LEMMA IdleStep ==
    ASSUME Inv, TypeOK', Grows, NEW w \in Workers, st' = st,
           worker' = [worker EXCEPT ![w] = Idle],
           \A r \in raised' : Warranted(r)'
    PROVE  Inv'
<1>1. RunInv(st)'
  BY GrowsKeeps DEF Inv, TypeOK
<1>2. \A r \in raised' \union st'.pending : Warranted(r)'
  BY GrowsKeeps DEF Inv
<1>3. worker'[w] = Idle /\ \A v \in Workers \ {w} : worker'[v] = worker[v]
  BY DEF Inv, TypeOK
<1>4. \A v \in Workers : HandlerInv(v)'
  BY <1>3, IdleKept, OthersKept
<1>5. QED
  BY <1>1, <1>2, <1>4 DEF Inv

\* Nothing is lost when a variable is left alone.
LEMMA UnchangedGrows ==
    ASSUME UNCHANGED <<proof, raised, receipts, environment>>
    PROVE  Grows
BY DEF Grows

\* The effects of a handler keep the invariant.
LEMMA SoundKeeps ==
    ASSUME Inv, NEW w \in Workers, Sound(w)
    PROVE  Inv'
<1>1. CASE Fail(w)
  <2>1. TypeOK'
    BY <1>1, EffectType DEF Inv, Effect
  <2>2. Grows
    BY <1>1, UnchangedGrows DEF Fail
  <2>3. \A r \in raised' : Warranted(r)'
    BY <1>1, <2>2, GrowsKeeps DEF Inv, Fail
  <2>4. QED
    BY <1>1, <2>1, <2>2, <2>3, IdleStep DEF Fail
<1>2. CASE Repeat(w)
  <2>1. TypeOK'
    BY <1>2, EffectType DEF Inv, Effect
  <2>2. Grows
    BY <1>2 DEF Repeat, Grows
  <2>3. \A r \in raised' : Warranted(r)'
    BY <1>2, <2>2, GrowsKeeps DEF Inv, HandlerInv, Repeat
  <2>4. QED
    BY <1>2, <2>1, <2>2, <2>3, IdleStep DEF Repeat
<1>3. CASE Writes(w)
  <2>1. TypeOK'
    BY <1>3, EffectType DEF Inv, Effect
  <2>2. PICK s \in RunStates : WriteTerminalSummary(w, s)
    BY <1>3, ClosingType DEF Writes, Inv, TypeOK, Handlers
  <2>3. CASE Fail(w)
    BY <1>1, <2>3
  <2>4. CASE ~Fail(w)
    <3>1. /\ worker' = [worker EXCEPT ![w].stage = "written"]
          /\ UNCHANGED <<st, proof, raised, environment, receipts>>
      BY <2>2, <2>4 DEF WriteTerminalSummary
    <3>2. Grows
      BY <3>1, UnchangedGrows
    <3>3. RunInv(st)'
      BY <3>1, <3>2, GrowsKeeps DEF Inv, TypeOK
    <3>4. \A r \in raised' \union st'.pending : Warranted(r)'
      BY <3>1, <3>2, GrowsKeeps DEF Inv
    <3>5. \A v \in Workers \ {w} : worker'[v] = worker[v]
      BY <3>1 DEF Inv, TypeOK
    <3>6. /\ worker[w] \in Handlers
          /\ worker'[w].snap = worker[w].snap
          /\ worker'[w].msg = worker[w].msg
          /\ worker'[w].out = worker[w].out
      BY <3>1 DEF Inv, TypeOK, Handlers
    <3>7. /\ \A r \in worker'[w].out \union worker'[w].snap.pending :
              Warranted(r)'
          /\ Genuine(worker[w].msg)'
      BY <1>3, <3>2, <3>6, GrowsKeeps
         DEF Inv, HandlerInv, Active, Writes, Handlers, Genuine
    <3>8. HandlerInv(w)'
      BY <1>3, <3>1, <3>6, <3>7 DEF Inv, HandlerInv, Active, Writes
    <3>9. QED
      BY <2>1, <3>1, <3>2, <3>3, <3>4, <3>5, <3>8, OthersKept DEF Inv
  <2>5. QED
    BY <2>3, <2>4
<1>4. ASSUME NEW s \in RunStates, s.version = st.version, RunInv(s),
             \A r \in s.pending : Warranted(r), Save(w, s)
      PROVE  Inv'
  <2> DEFINE n == [s EXCEPT !.version = s.version + 1]
  <2>1. TypeOK'
    BY <1>4, SaveType DEF Inv
  <2>2. /\ st' = n
        /\ worker' = [worker EXCEPT ![w] = [Idle EXCEPT !.stage = "saved",
                                                       !.out = s.pending]]
        /\ UNCHANGED <<proof, raised, environment, receipts>>
    BY <1>4 DEF Save
  <2>3. Grows
    BY <2>2, UnchangedGrows
  <2>4. /\ n \in RunStates
        /\ n.version = st.version + 1
        /\ n.phase = s.phase
        /\ n.lease = s.lease
        /\ n.attempts = s.attempts
        /\ n.env = s.env
        /\ n.pending = s.pending
    BY <1>4 DEF RunStates
  <2> HIDE DEF n
  <2>5. RunInv(n)
    BY <1>4, <2>4 DEF RunInv, LeaseFits, StagesPassed, Passed, Attempted,
       EnvironmentKnown, Target
  <2>6. RunInv(st)'
    BY <2>2, <2>3, <2>4, <2>5, GrowsKeeps DEF Inv
  <2>7. \A r \in raised' \union st'.pending : Warranted(r)'
    BY <1>4, <2>2, <2>3, <2>4, GrowsKeeps DEF Inv
  <2>8. \A v \in Workers \ {w} : worker'[v] = worker[v]
    BY <2>2 DEF Inv, TypeOK
  <2>9. /\ worker'[w].stage = "saved"
        /\ worker'[w].out = s.pending
        /\ worker'[w].snap = NoRun
    BY <2>2 DEF Inv, TypeOK, Idle
  <2>10. HandlerInv(w)'
    BY <1>4, <2>3, <2>9, GrowsKeeps DEF HandlerInv, Active, NoRun, Inv
  <2>11. QED
    BY <2>1, <2>2, <2>3, <2>4, <2>6, <2>7, <2>8, <2>10, OthersKept DEF Inv
<1>5. CASE Proves(w) /\ ~Fail(w)
  <2>1. TypeOK'
    BY <1>5, EffectType DEF Inv, Effect
  <2>2. /\ proof \in {"none", proof'}
        /\ proof' = worker[w].msg.outcome
        /\ worker' = [worker EXCEPT ![w] = [worker[w] EXCEPT !.stage = "proved"]]
        /\ worker'[w].stage = "proved"
        /\ worker'[w].msg = worker[w].msg
        /\ worker'[w].snap = worker[w].snap
        /\ worker'[w].out = worker[w].out
        /\ UNCHANGED <<st, raised, environment, receipts>>
    BY <1>5, ProofKept DEF Inv
  <2>3. Grows
    BY <2>2 DEF Grows
  <2>4. RunInv(st)'
    BY <2>2, <2>3, GrowsKeeps DEF Inv, TypeOK
  <2>5. \A r \in raised' \union st'.pending : Warranted(r)'
    BY <2>2, <2>3, GrowsKeeps DEF Inv
  <2>6. \A v \in Workers \ {w} : worker'[v] = worker[v]
    BY <2>2 DEF Inv, TypeOK
  <2>7. worker[w] \in Handlers
    BY DEF Inv, TypeOK
  <2>8. /\ \A r \in worker'[w].out \union worker'[w].snap.pending :
            Warranted(r)'
        /\ Genuine(worker[w].msg)'
    BY <1>5, <2>2, <2>3, <2>7, GrowsKeeps
       DEF Inv, HandlerInv, Active, Proves, Handlers, Genuine
  <2>9. HandlerInv(w)'
    BY <1>5, <2>2, <2>7, <2>8 DEF Inv, HandlerInv, Active, Proves
  <2>10. QED
    BY <2>1, <2>2, <2>3, <2>4, <2>5, <2>6, <2>9, OthersKept DEF Inv
<1>6. QED
  BY <1>1, <1>2, <1>3, <1>4, <1>5 DEF Sound

\* Raising the requests of a saved run keeps the invariant.
LEMMA RaiseKeeps ==
    ASSUME Inv, NEW w \in Workers, Raise(w)
    PROVE  Inv'
<1>1. TypeOK'
  BY ConstantTypes DEF Inv, TypeOK, Raise, Handlers
<1>2. Grows
  BY DEF Raise, Grows
<1>3. \A r \in raised' : Warranted(r)'
  BY <1>2, GrowsKeeps DEF Inv, HandlerInv, Raise
<1>4. QED
  BY <1>1, <1>2, <1>3, IdleStep DEF Raise

\* So does a handler that stops.
LEMMA CrashKeeps ==
    ASSUME Inv, NEW w \in Workers, Crash(w)
    PROVE  Inv'
<1>1. TypeOK'
  BY BoundsAssumption, ConstantTypes DEF Inv, TypeOK, Crash
<1>2. Grows
  BY UnchangedGrows DEF Crash
<1>3. \A r \in raised' : Warranted(r)'
  BY <1>2, GrowsKeeps DEF Inv, Crash
<1>4. QED
  BY <1>1, <1>2, <1>3, IdleStep DEF Crash

\* Delivering an event its sender persisted or was asked for keeps it.
LEMMA LoadKeeps ==
    ASSUME Inv, NEW w \in Workers, NEW m \in Messages, Load(w, m),
           Grows, Genuine(m)', UNCHANGED <<st, summary, proof, raised, crashes>>,
           environment' \in [start : {"none"} \union StartOutcomes,
                             cleanup : {"none"} \union CleanupOutcomes],
           receipts' \subseteq Receipts, interrupts' \in 0 .. MaxInterrupts
    PROVE  Inv'
<1> DEFINE h == [stage |-> "loaded", msg |-> m, snap |-> st, out |-> {}]
<1>1. worker' = [worker EXCEPT ![w] = h]
  BY DEF Load
<1>2. h \in Handlers
  BY DEF Handlers, WorkerStages, Inv, TypeOK
<1> HIDE DEF h
<1>3. TypeOK'
  BY <1>1, <1>2 DEF Inv, TypeOK
<1>4. RunInv(st)'
  BY GrowsKeeps DEF Inv, TypeOK
<1>5. \A r \in raised' \union st'.pending : Warranted(r)'
  BY GrowsKeeps DEF Inv
<1>6. worker'[w] = h /\ \A v \in Workers \ {w} : worker'[v] = worker[v]
  BY <1>1 DEF Inv, TypeOK
<1>7. HandlerInv(w)'
  <2>1. /\ worker'[w].stage = "loaded"
        /\ worker'[w].msg = m
        /\ worker'[w].snap = st'
        /\ worker'[w].out = {}
    BY <1>6 DEF h
  <2>2. st'.version \in Nat
    BY <1>3 DEF TypeOK, RunStates
  <2>3. Genuine(worker[w].msg)' = Genuine(m)'
    BY <2>1 DEF Genuine
  <2>4. QED
    BY <1>5, <2>1, <2>2, <2>3 DEF HandlerInv
<1>8. QED
  BY <1>3, <1>4, <1>5, <1>6, <1>7, OthersKept DEF Inv

\* An answer to a raised request is genuine.
LEMMA DeliverAnswerKeeps ==
    ASSUME Inv, NEW w \in Workers, NEW r \in raised, DeliverAnswer(w, r)
    PROVE  Inv'
<1>1. PICK m \in AnswerEvents : AnswersTo(r.queue, m) /\ Load(w, m)
  BY AnswersAssumption DEF DeliverAnswer
<1>2. UNCHANGED <<st, summary, proof, raised, environment, receipts, interrupts, crashes>>
  BY DEF DeliverAnswer
<1>3. m \in Messages /\ m \notin Receipts /\ m.type # "environment"
  BY DEF AnswerEvents, Messages, Events, Receipts
<1>4. Genuine(m)'
  <2>1. CASE m.type = "grant"
    <3>1. r.queue = "execution_grant_request"
      BY <1>1, <2>1 DEF AnswersTo, Event
    <3>2. QED
      BY <1>2, <1>3, <3>1 DEF Genuine, Asked
  <2>2. QED
    BY <1>3, <2>1 DEF Genuine
<1>5. QED
  BY <1>1, <1>2, <1>3, <1>4, UnchangedGrows, LoadKeeps DEF Inv, TypeOK

\* environment-factory persists an outcome before it sends it.
LEMMA DeliverEnvironmentKeeps ==
    ASSUME Inv, NEW w \in Workers, NEW r \in raised, DeliverEnvironment(w, r)
    PROVE  Inv'
<1>1. UNCHANGED <<st, summary, proof, raised, receipts, interrupts, crashes>>
  BY DEF DeliverEnvironment
<1>2. environment \in [start : {"none"} \union StartOutcomes,
                       cleanup : {"none"} \union CleanupOutcomes]
  BY DEF Inv, TypeOK
<1>3. ASSUME NEW o \in StartOutcomes, environment.start \in {"none", o},
             environment' = [environment EXCEPT !.start = o],
             Load(w, Event("environment", o))
      PROVE  Inv'
  <2>1. /\ Event("environment", o) \in Messages
        /\ Event("environment", o) \notin Receipts
    BY DEF Event, Messages, Events, EnvironmentEvents, Receipts
  <2>2. environment'.start = o /\ environment'.cleanup = environment.cleanup
    BY <1>2, <1>3
  <2>3. Grows
    BY <1>1, <1>3, <2>2 DEF Grows
  <2>4. Genuine(Event("environment", o))'
    BY <2>1, <2>2 DEF Genuine, Event
  <2>5. environment' \in [start : {"none"} \union StartOutcomes,
                          cleanup : {"none"} \union CleanupOutcomes]
    BY <1>2, <1>3
  <2>6. QED
    BY <1>1, <1>3, <2>1, <2>3, <2>4, <2>5, LoadKeeps DEF Inv, TypeOK
<1>4. ASSUME NEW o \in CleanupOutcomes, environment.cleanup \in {"none", o},
             environment' = [environment EXCEPT !.cleanup = o],
             Load(w, Event("environment", o))
      PROVE  Inv'
  <2>1. /\ Event("environment", o) \in Messages
        /\ Event("environment", o) \notin Receipts
    BY DEF Event, Messages, Events, EnvironmentEvents, Receipts
  <2>2. environment'.cleanup = o /\ environment'.start = environment.start
    BY <1>2, <1>4
  <2>3. Grows
    BY <1>1, <1>4, <2>2 DEF Grows
  <2>4. Genuine(Event("environment", o))'
    BY <2>1, <2>2 DEF Genuine, Event
  <2>5. environment' \in [start : {"none"} \union StartOutcomes,
                          cleanup : {"none"} \union CleanupOutcomes]
    BY <1>2, <1>4
  <2>6. QED
    BY <1>1, <1>4, <2>1, <2>3, <2>4, <2>5, LoadKeeps DEF Inv, TypeOK
<1>5. QED
  BY <1>3, <1>4 DEF DeliverEnvironment

\* test-publication persists a receipt before it sends it.
LEMMA DeliverReceiptKeeps ==
    ASSUME Inv, NEW w \in Workers, NEW r \in raised, DeliverReceipt(w, r)
    PROVE  Inv'
<1>1. UNCHANGED <<st, summary, proof, raised, environment, interrupts, crashes>>
  BY DEF DeliverReceipt
<1>2. r \in Requests
  BY DEF Inv, TypeOK
<1>3. PICK m \in Receipts :
        receipts' = receipts \union {m} /\ Load(w, m)
  BY <1>2 DEF DeliverReceipt, Receipt, Receipts, Requests
<1>4. m \in Messages /\ m.type = "receipt"
  BY DEF Messages, Receipts
<1>5. Grows
  BY <1>1, <1>3 DEF Grows
<1>6. Genuine(m)'
  BY <1>3, <1>4 DEF Genuine
<1>7. receipts' \subseteq Receipts
  BY <1>3 DEF Inv, TypeOK
<1>8. QED
  BY <1>1, <1>3, <1>4, <1>5, <1>6, <1>7, LoadKeeps DEF Inv, TypeOK

\* Ticks and interrupts claim nothing of their sender.
LEMMA DeliverOtherKeeps ==
    ASSUME Inv, NEW w \in Workers,
           Tick(w) \/ \E i \in Interruptions : DeliverInterrupt(w, i)
    PROVE  Inv'
<1>1. CASE Tick(w)
  <2>1. /\ Event("tick", "none") \in Messages
        /\ Genuine(Event("tick", "none"))'
    BY DEF Event, Messages, Events, Genuine, Receipts
  <2>2. Grows
    BY <1>1, UnchangedGrows DEF Tick
  <2>3. QED
    BY <1>1, <2>1, <2>2, LoadKeeps DEF Tick, Inv, TypeOK
<1>2. ASSUME NEW i \in Interruptions, DeliverInterrupt(w, i)
      PROVE  Inv'
  <2>1. /\ Event("interrupt", i) \in Messages
        /\ Genuine(Event("interrupt", i))'
    BY DEF Event, Messages, Events, Genuine, Receipts
  <2>2. Grows
    BY <1>2, UnchangedGrows DEF DeliverInterrupt
  <2>3. interrupts' \in 0 .. MaxInterrupts
    BY <1>2, BoundsAssumption DEF DeliverInterrupt, Inv, TypeOK
  <2>4. QED
    BY <1>2, <2>1, <2>2, <2>3, LoadKeeps DEF DeliverInterrupt, Inv, TypeOK
<1>3. QED
  BY <1>1, <1>2

-----------------------------------------------------------------------------
(* Theorems.                                                               *)

\* The initial state satisfies the inductive invariant.
LEMMA InitInv == Init => Inv
<1> SUFFICES ASSUME Init PROVE Inv
  OBVIOUS
<1>1. TypeOK
  BY BoundsAssumption, ConstantTypes
     DEF Init, TypeOK, StartOutcomes, CleanupOutcomes
<1>2. LeaseFits(st)
  BY DEF Init, NoRun, LeaseFits
<1>3. StagesPassed(st)
  BY DEF Init, NoRun, StagesPassed, Target, AfterIntake, AfterEnvironment,
     AfterDesign, AfterReadiness, AfterClosure
<1>4. Attempted(st)
  BY DEF Init, NoRun, Attempted, Stages
<1>5. EnvironmentKnown(st)
  BY DEF Init, NoRun, EnvironmentKnown, Target, AfterEnvironment,
     AfterDesign, AfterReadiness, AfterClosure
<1>6. \A r \in raised \union st.pending : Warranted(r)
  BY DEF Init, NoRun
<1>7. \A w \in Workers : HandlerInv(w)
  BY DEF Init, Idle, NoRun, HandlerInv, Active
<1>8. QED
  BY <1>1, <1>2, <1>3, <1>4, <1>5, <1>6, <1>7 DEF Inv, RunInv

\* Every step keeps it.
LEMMA StepInv == Inv /\ [Next]_vars => Inv'
<1> SUFFICES ASSUME Inv, [Next]_vars PROVE Inv'
  OBVIOUS
<1>1. CASE UNCHANGED vars
  BY <1>1 DEF vars, Inv, TypeOK, RunInv, LeaseFits, StagesPassed, Passed,
     Attempted, EnvironmentKnown, Target, HandlerInv, Active, Genuine,
     Warranted, Asked, Published, ReleasedEnvironment
<1>2. ASSUME NEW w \in Workers, Handle(w)
      PROVE  Inv'
  BY <1>2, AnyHandlerSound, SoundKeeps, RaiseKeeps
<1>3. QED
  BY <1>1, <1>2, DeliverAnswerKeeps, DeliverEnvironmentKeeps,
     DeliverReceiptKeeps, DeliverOtherKeeps, CrashKeeps DEF Next

\* The inductive invariant holds in every state of every run, whatever is
\* repeated, reordered, lost or cut short.
THEOREM Invariance == Spec => []Inv
<1>1. QED
  BY InitInv, StepInv, PTL DEF Spec

\* Every variable keeps its type.
THEOREM TypeCorrectness == Spec => []TypeOK
<1>1. Inv => TypeOK
  BY DEF Inv
<1>2. QED
  BY <1>1, Invariance, PTL

\* An executor runs only after the environment was ready, a grant was requested
\* and every earlier checkpoint was published.
THEOREM ExecutionIsAuthorized == Spec => []ExecutionAuthorized
<1>1. Inv => ExecutionAuthorized
  BY DEF Inv, ExecutionAuthorized, Warranted, Asked
<1>2. QED
  BY <1>1, Invariance, PTL

\* A run is reported terminal only after its environment is released and its
\* cleanup checkpoint and aggregate report are published.
THEOREM TerminalIsAudited == Spec => []TerminalAudited
<1>1. Inv => TerminalAudited
  BY DEF Inv, TerminalAudited, Warranted, Asked
<1>2. QED
  BY <1>1, Invariance, PTL

\* No stage is ever checkpointed twice.
THEOREM EveryStageOnce == Spec => []StagesOnce
<1>1. Inv => StagesOnce
  BY DEF Inv, RunInv, Attempted, StagesOnce
<1>2. QED
  BY <1>1, Invariance, PTL

-----------------------------------------------------------------------------
(* What a handler of the current run may save, as far as the end of the    *)
(* run goes: s is the run it loaded and n the run it saves.                *)

EarlyStages == {"intake", "environment-ready", "design-round",
                "browser-readiness", "design-closure"}

\* The outcome fits what was recorded.
OutcomeFits(n) ==
    /\ n.status # "none"
    /\ n.interruption # "none" => n.status = n.interruption

Ordinary(requests) == \A r \in requests : r.queue \notin Terminations
SameRun(s, n) == n.tested = s.tested /\ n.interruption = s.interruption

\* A gate: a checkpoint of the stage that ends the phase, before the next one.
Checkpoints(s, n) ==
    /\ s.lease = NoLease
    /\ <<s.phase, n.lease.stage>> \in Precedes
    /\ <<n.lease.stage, n.lease.phase, n.lease.actions>> \in Follows
    /\ n.phase = "checkpoint-pending"
    /\ Ordinary(n.pending)

GatesDesign(s, n) ==
    Checkpoints(s, n) /\ SameRun(s, n) /\ n.lease.stage \in EarlyStages

GatesDefects(s, n) ==
    /\ Checkpoints(s, n) /\ n.interruption = s.interruption
    /\ n.lease.phase = "defects-pending"
    /\ n.tested = "failed" /\ n.env = s.env

GatesCleanup(s, n) ==
    /\ Checkpoints(s, n) /\ n.interruption = s.interruption
    /\ n.lease.phase = "cleanup-pending"
    /\ n.lease.actions = {Request(TerminationOf(n))}
    /\ OutcomeFits(n) /\ n.env = s.env
    /\ \/ /\ n.lease.stage = "execution-batch"
          /\ n.tested = "failed" => n.interruption # "none"
       \/ n.lease.stage = "defect-publication" /\ n.tested = s.tested

GatesPublication(s, n) ==
    /\ Checkpoints(s, n) /\ SameRun(s, n)
    /\ n.lease.stage = "cleanup"
    /\ OutcomeFits(n)
    /\ summary = n.summary
    /\ n.summary.status = n.status /\ n.summary.interruption = n.interruption
    /\ s.phase = "cleanup-pending" => n.env = s.env

\* A receipt releases the lease; the run goes on to what the lease holds.
Releases(s, n) ==
    /\ s.phase = "checkpoint-pending"
    /\ Published(s.lease.stage)
    /\ n.phase = s.lease.phase
    /\ n.lease = NoLease
    /\ n.pending = s.lease.actions
    /\ SameRun(s, n)
    /\ n.status = s.status /\ n.env = s.env /\ n.summary = s.summary

\* A change of phase without a checkpoint, and the aggregate receipt.
Moves(s, n) ==
    /\ <<s.phase, n.phase>> \in
         {<<"structured-plan-pending", "execution-grant-pending">>,
          <<"execution-grant-pending", "structured-execution-pending">>,
          <<"execution-grant-pending", "browser-control-pending">>,
          <<"structured-execution-pending", "artifact-summary-pending">>,
          <<"browser-control-pending", "artifact-summary-pending">>,
          <<"publication-pending", "terminal">>}
    /\ n.lease = s.lease
    /\ Ordinary(n.pending)
    /\ SameRun(s, n)
    /\ n.status = s.status /\ n.env = s.env /\ n.summary = s.summary

\* Cleanup begins: for a recorded interruption, a new one or a blocked result.
BeginsCleanup(s, n) ==
    /\ s.phase \in (BeforeDefects \ {"absent"}) \union {"checkpoint-pending"}
    /\ n.phase = "cleanup-pending"
    /\ n.lease = s.lease
    /\ n.pending = {Request(TerminationOf(n))}
    /\ n.tested = s.tested
    /\ OutcomeFits(n)
    /\ n.env = "ready" /\ (s.env = "ready" \/ s.phase = "environment-pending")
    /\ s.interruption # "none" => n.interruption # "none"
    /\ \/ n.interruption # "none"
       \/ n.interruption = s.interruption /\ s.phase \in BeforeBatch

\* The environment was not released: the run is blocked.
Blocks(s, n) ==
    /\ ~ReleasedEnvironment
    /\ n.phase = "cleanup-blocked"
    /\ n.lease = s.lease
    /\ n.pending = {}
    /\ SameRun(s, n)
    /\ \/ /\ s.phase = "cleanup-pending" /\ n.env = s.env
          /\ environment.cleanup = "incomplete"
       \/ /\ s.phase = "environment-pending" /\ n.env = "not-ready"
          /\ environment.start = "blocked-incomplete"

\* An interrupt is recorded and nothing else.
Marks(s, n) ==
    /\ s.phase \in Recording
    /\ n.interruption \in Interruptions
    /\ n.phase = s.phase /\ n.lease = s.lease /\ n.pending = s.pending
    /\ n.tested = s.tested /\ n.env = s.env

EndStep(s, n) ==
    \/ GatesDesign(s, n) \/ GatesDefects(s, n) \/ GatesCleanup(s, n)
    \/ GatesPublication(s, n) \/ Releases(s, n) \/ Moves(s, n)
    \/ BeginsCleanup(s, n) \/ Blocks(s, n) \/ Marks(s, n)

\* The effects of a handler whose run is the current one.
Ends(w) ==
    \/ Fail(w)
    \/ Repeat(w)
    \/ \E n \in RunStates :
         n.version = st.version /\ EndStep(st, n) /\ Save(w, n)
    \/ Writes(w)
    \/ Proves(w)

\* A gate drops the event, or saves the run with the checkpoint in flight.
LEMMA GateOpens ==
    ASSUME NEW w \in Workers, NEW s \in RunStates, NEW stage \in Stages,
           NEW phase \in Phases, NEW actions \in SUBSET Requests,
           Gate(w, s, stage, phase, actions)
    PROVE  \/ Fail(w)
           \/ \E n \in RunStates :
                /\ Save(w, n)
                /\ s.lease = NoLease
                /\ n.version = s.version
                /\ n.phase = "checkpoint-pending"
                /\ n.lease.stage = stage
                /\ n.lease.phase = phase
                /\ n.lease.actions = actions
                /\ Ordinary(n.pending)
                /\ n.tested = s.tested
                /\ n.interruption = s.interruption
                /\ n.status = s.status
                /\ n.env = s.env
                /\ n.summary = s.summary
<1> DEFINE n == Gated(s, stage, phase, actions)
<1>1. CASE Fail(w)
  BY <1>1
<1>2. CASE s.lease = NoLease /\ Save(w, n)
  <2>1. n \in RunStates
    BY GatedType
  <2>2. /\ n.version = s.version
        /\ n.phase = "checkpoint-pending"
        /\ n.lease.stage = stage
        /\ n.lease.phase = phase
        /\ n.lease.actions = actions
        /\ n.pending = {CheckpointRequest(stage, s.attempts[stage] + 1)}
        /\ n.tested = s.tested
        /\ n.interruption = s.interruption
        /\ n.status = s.status
        /\ n.env = s.env
        /\ n.summary = s.summary
    BY DEF Gated, RunStates
  <2>3. Ordinary(n.pending)
    BY <2>2 DEF Ordinary, CheckpointRequest, Terminations
  <2> HIDE DEF n
  <2>4. QED
    BY <1>2, <2>1, <2>2, <2>3
<1>3. QED
  BY <1>1, <1>2 DEF Gate

\* A run that moves to another phase, field by field.
LEMMA PendingFields ==
    ASSUME NEW s \in RunStates, NEW phase \in Phases,
           NEW actions \in SUBSET Requests
    PROVE  LET n == Pending(s, phase, actions)
           IN  /\ n \in RunStates
               /\ n.version = s.version
               /\ n.phase = phase
               /\ n.lease = s.lease
               /\ n.pending = actions
               /\ n.tested = s.tested
               /\ n.interruption = s.interruption
               /\ n.status = s.status
               /\ n.env = s.env
               /\ n.summary = s.summary
BY PendingType DEF Pending, RunStates

\* The cleanup request is the one that fits the interruption.
LEMMA CleanupActionFits ==
    ASSUME NEW s \in RunStates, NEW status,
           \/ s.interruption # "none" /\ status = s.interruption
           \/ /\ s.interruption = "none"
              /\ status \in {"blocked", "passed", "failed", "degraded"}
    PROVE  {CleanupAction(status)} = {Request(TerminationOf(s))}
BY InterruptionsAssumption
   DEF CleanupAction, Interrupted, TerminationOf, RunStates

\* Beginning a cleanup is one of the steps.
LEMMA BeginCleanupEnds ==
    ASSUME NEW w \in Workers, NEW s \in RunStates,
           s.version = st.version, s.lease = st.lease, s.tested = st.tested,
           st.env = s.env \/ st.phase = "environment-pending",
           st.phase \in (BeforeDefects \ {"absent"}) \union {"checkpoint-pending"},
           st.interruption # "none" => s.interruption # "none",
           NEW status,
           \/ s.interruption # "none" /\ status = s.interruption
           \/ /\ s.interruption = "none" /\ s.interruption = st.interruption
              /\ status = "blocked"
              /\ st.phase \in BeforeBatch,
           BeginCleanup(w, s, status)
    PROVE  Ends(w)
<1> DEFINE c == [s EXCEPT !.status = status]
           n == Pending(c, "cleanup-pending", {CleanupAction(status)})
<1>1. CASE Fail(w)
  BY <1>1 DEF Ends
<1>2. CASE s.env = "ready" /\ Save(w, n)
  <2>1. status \in Statuses /\ status # "none"
    BY DEF Statuses, RunStates
  <2>2. /\ c \in RunStates
        /\ c.version = st.version
        /\ c.lease = st.lease
        /\ c.tested = st.tested
        /\ c.interruption = s.interruption
        /\ c.status = status
        /\ c.env = "ready"
    BY <1>2, <2>1 DEF RunStates
  <2> HIDE DEF c
  <2>3. {CleanupAction(status)} = {Request(TerminationOf(s))}
    BY CleanupActionFits
  <2>4. {CleanupAction(status)} \in SUBSET Requests
    BY CleanupActionType
  <2>5. /\ n \in RunStates
        /\ n.version = st.version
        /\ n.phase = "cleanup-pending"
        /\ n.lease = st.lease
        /\ n.tested = st.tested
        /\ n.interruption = s.interruption
        /\ n.status = status
        /\ n.env = "ready"
        /\ n.pending = {CleanupAction(status)}
    BY <2>2, <2>4, PendingFields DEF Phases
  <2> HIDE DEF n
  <2>6. TerminationOf(n) = TerminationOf(s)
    BY <2>5 DEF TerminationOf
  <2>7. BeginsCleanup(st, n)
    BY <1>2, <2>1, <2>3, <2>5, <2>6 DEF BeginsCleanup, OutcomeFits
  <2>8. QED
    BY <1>2, <2>5, <2>7 DEF Ends, EndStep
<1>3. QED
  BY <1>1, <1>2 DEF BeginCleanup

\* A run that cleans up, or waits for its environment, is blocked only if the
\* environment was not released.
LEMMA IncompleteMeansHeld ==
    ASSUME Inv, EndInv, NEW m \in Messages, Genuine(m), m.type = "environment",
           CleanupStatus(m) = "incomplete",
           st.phase \in {"environment-pending", "cleanup-pending"}
    PROVE  /\ ~ReleasedEnvironment
           /\ st.phase = "cleanup-pending" => environment.cleanup = "incomplete"
           /\ st.phase = "environment-pending"
              => environment.start = "blocked-incomplete"
<1>1. m.outcome \in {"incomplete", "blocked-incomplete"}
  BY DEF CleanupStatus
<1>2. m.outcome \in {environment.start, environment.cleanup}
  BY DEF Genuine
<1>3. /\ environment.start \in {"none"} \union StartOutcomes
      /\ environment.cleanup \in {"none"} \union CleanupOutcomes
  BY DEF Inv, TypeOK
<1>4. CASE st.phase = "environment-pending"
  <2>1. environment.cleanup = "none"
    BY <1>4 DEF EndInv, Timely, CleanupReached
  <2>2. QED
    BY <1>1, <1>2, <1>3, <1>4, <2>1
       DEF StartOutcomes, CleanupOutcomes, ReleasedEnvironment
<1>5. CASE st.phase = "cleanup-pending"
  <2>1. environment.start = "ready"
    BY <1>5 DEF EndInv, EndOf, EnvironmentLeft, Target, Inv, RunInv,
       EnvironmentKnown
  <2>2. QED
    BY <1>1, <1>2, <1>3, <1>5, <2>1
       DEF StartOutcomes, CleanupOutcomes, ReleasedEnvironment
<1>6. QED
  BY <1>4, <1>5

\* Accepting a cleanup result is one of the steps.
LEMMA AcceptCleanupEnds ==
    ASSUME Inv, EndInv, NEW w \in Workers, worker[w].snap = st, Active(w),
           Handling(w, "environment"),
           st.phase \in {"environment-pending", "cleanup-pending"},
           AcceptCleanup(w, Closing(st), worker[w].msg)
    PROVE  Ends(w)
<1> DEFINE c == Closing(st)
           b == [c EXCEPT !.cleanup = "incomplete", !.status = "blocked"]
           n == Pending(b, "cleanup-blocked", {})
           m == worker[w].msg
<1>1. /\ st \in RunStates
      /\ m \in Messages
      /\ Genuine(m)
  BY DEF Inv, HandlerInv, TypeOK, Handlers
<1>2. CASE Fail(w) \/ (CleanupStatus(m) = "complete" /\ WriteTerminalSummary(w, c))
  BY <1>2 DEF Ends, Writes, Handling
<1>3. CASE CleanupStatus(m) = "incomplete" /\ Save(w, n)
  <2>1. /\ c \in RunStates
        /\ c.version = st.version
        /\ c.lease = st.lease
        /\ c.tested = st.tested
        /\ c.interruption = st.interruption
        /\ st.phase = "cleanup-pending" => c.env = st.env
        /\ st.phase = "environment-pending" => c.env = "not-ready"
    BY <1>1, ClosingType
  <2> HIDE DEF c
  <2>2. /\ b \in RunStates
        /\ b.version = c.version
        /\ b.lease = c.lease
        /\ b.tested = c.tested
        /\ b.interruption = c.interruption
        /\ b.env = c.env
    BY <2>1, BlockedType
  <2> HIDE DEF b
  <2>3. /\ n \in RunStates
        /\ n.version = st.version
        /\ n.phase = "cleanup-blocked"
        /\ n.lease = st.lease
        /\ n.pending = {}
        /\ n.tested = st.tested
        /\ n.interruption = st.interruption
        /\ n.env = c.env
    BY <2>1, <2>2, PendingFields DEF Phases
  <2> HIDE DEF n
  <2>4. /\ ~ReleasedEnvironment
        /\ st.phase = "cleanup-pending" => environment.cleanup = "incomplete"
        /\ st.phase = "environment-pending"
           => environment.start = "blocked-incomplete"
    BY <1>1, <1>3, IncompleteMeansHeld DEF Handling
  <2>5. Blocks(st, n)
    BY <2>1, <2>3, <2>4 DEF Blocks, SameRun
  <2>6. QED
    BY <1>3, <2>3, <2>5 DEF Ends, EndStep
<1>4. QED
  BY <1>2, <1>3 DEF AcceptCleanup

\* A handler of the design, of the plan or of an early checkpoint that opens the
\* gate of its stage takes one of the steps.
LEMMA DesignGateEnds ==
    ASSUME NEW w \in Workers, NEW s \in RunStates, s.version = st.version,
           s.lease = st.lease, SameRun(st, s),
           NEW stage \in EarlyStages, NEW phase \in Phases,
           NEW actions \in SUBSET Requests,
           <<st.phase, stage>> \in Precedes,
           <<stage, phase, actions>> \in Follows,
           Gate(w, s, stage, phase, actions)
    PROVE  Ends(w)
<1>1. stage \in Stages
  BY DEF EarlyStages, Stages
<1>2. CASE Fail(w)
  BY <1>2 DEF Ends
<1>3. ASSUME NEW n \in RunStates, Save(w, n), s.lease = NoLease,
             n.version = s.version, n.phase = "checkpoint-pending",
             n.lease.stage = stage, n.lease.phase = phase,
             n.lease.actions = actions, Ordinary(n.pending),
             n.tested = s.tested, n.interruption = s.interruption
      PROVE  Ends(w)
  <2>1. GatesDesign(st, n)
    BY <1>3 DEF GatesDesign, Checkpoints, SameRun
  <2>2. QED
    BY <1>3, <2>1 DEF Ends, EndStep
<1>4. QED
  BY <1>1, <1>2, <1>3, GateOpens

\* The handlers that wait for a phase before execution.
LEMMA DesignEnds ==
    ASSUME Inv, EndInv, NEW w \in Workers, Active(w), worker[w].snap = st,
           \/ Redrive(w) \/ HandleAnalysis(w) \/ HandleBrowserReadiness(w)
           \/ PrepareModule(w) \/ HandleModuleTerminal(w)
    PROVE  Ends(w)
<1>s. st \in RunStates /\ SameRun(st, st)
  BY DEF Inv, TypeOK, SameRun
<1>q. \A queue \in Queues : {Request(queue)} \in SUBSET Requests
  BY RequestType
<1>c. {"analysis-pending", "browser-readiness-pending", "module-pending"}
        \subseteq BeforeBatch \intersect (BeforeDefects \ {"absent"})
  BY DEF BeforeDefects, BeforeBatch, BeforeClosure, BeforeReadiness,
     BeforeDesign, BeforeEnvironment
<1>1. ASSUME st.phase \in {"analysis-pending", "browser-readiness-pending",
                           "module-pending"},
             \/ st.interruption # "none" /\ BeginCleanup(w, st, st.interruption)
             \/ st.interruption = "none" /\ BeginCleanup(w, st, "blocked")
      PROVE  Ends(w)
  BY <1>s, <1>c, <1>1, BeginCleanupEnds
<1>2. ASSUME NEW stage \in EarlyStages, NEW phase \in Phases,
             NEW queue \in Queues,
             <<st.phase, stage>> \in Precedes,
             <<stage, phase, {Request(queue)}>> \in Follows,
             Gate(w, st, stage, phase, {Request(queue)})
      PROVE  Ends(w)
  BY <1>s, <1>q, <1>2, DesignGateEnds
<1>3. CASE Repeat(w) \/ Fail(w)
  BY <1>3 DEF Ends
<1>4. CASE Redrive(w)
  <2>1. CASE st.phase = "absent" /\ StartRun(w, st)
    BY <1>2, <2>1 DEF StartRun, EarlyStages, Phases, Queues, Precedes, Follows
  <2>2. QED
    BY <1>3, <1>4, <2>1 DEF Redrive
<1>5. CASE HandleAnalysis(w)
  <2>1. CASE /\ st.phase = "analysis-pending"
             /\ Gate(w, st, "design-round", "browser-readiness-pending",
                     {Request("browser_readiness_check")})
    BY <1>2, <2>1 DEF EarlyStages, Phases, Queues, Precedes, Follows
  <2>2. QED
    BY <1>1, <1>3, <1>5, <2>1 DEF HandleAnalysis, Awaiting
<1>6. CASE HandleBrowserReadiness(w)
  <2>1. CASE Proves(w)
    BY <2>1 DEF Ends
  <2>2. QED
    BY <1>1, <1>3, <1>6, <2>1 DEF HandleBrowserReadiness, Awaiting, Proves,
       Handling
<1>7. CASE HandleModuleTerminal(w)
  <2>1. CASE /\ st.phase = "module-pending"
             /\ Gate(w, st, "design-closure", "structured-plan-pending",
                     {Request("structured_plan_request")})
    BY <1>2, <2>1 DEF EarlyStages, Phases, Queues, Precedes, Follows
  <2>2. QED
    BY <1>1, <1>3, <1>7, <2>1 DEF HandleModuleTerminal, Awaiting
<1>8. CASE PrepareModule(w)
  <2>1. /\ st.phase = "browser-readiness-pending"
        /\ Gate(w, st, "browser-readiness", "module-pending",
                {Request("module_start")})
    BY <1>8 DEF PrepareModule, Inv, HandlerInv
  <2>2. QED
    BY <1>2, <2>1 DEF EarlyStages, Phases, Queues, Precedes, Follows
<1>9. QED
  BY <1>4, <1>5, <1>6, <1>7, <1>8

\* A run that is saved in its next phase takes one of the steps.
LEMMA MoveEnds ==
    ASSUME NEW w \in Workers, NEW s \in RunStates, s.version = st.version,
           s.lease = st.lease, SameRun(st, s), s.status = st.status,
           s.env = st.env, s.summary = st.summary,
           NEW phase \in Phases, NEW queue \in Queues \ Terminations,
           <<st.phase, phase>> \in
             {<<"structured-plan-pending", "execution-grant-pending">>,
              <<"execution-grant-pending", "structured-execution-pending">>,
              <<"execution-grant-pending", "browser-control-pending">>,
              <<"structured-execution-pending", "artifact-summary-pending">>,
              <<"browser-control-pending", "artifact-summary-pending">>,
              <<"publication-pending", "terminal">>},
           Save(w, Pending(s, phase, {Request(queue)}))
    PROVE  Ends(w)
<1> DEFINE n == Pending(s, phase, {Request(queue)})
<1>1. {Request(queue)} \in SUBSET Requests
  BY RequestType
<1>2. Ordinary({Request(queue)})
  BY DEF Ordinary, Request
<1>3. /\ n \in RunStates
      /\ n.version = s.version
      /\ n.phase = phase
      /\ n.lease = s.lease
      /\ n.pending = {Request(queue)}
      /\ n.tested = s.tested
      /\ n.interruption = s.interruption
      /\ n.status = s.status
      /\ n.env = s.env
      /\ n.summary = s.summary
  BY <1>1, PendingFields
<1> HIDE DEF n
<1>4. Moves(st, n)
  BY <1>2, <1>3 DEF Moves, SameRun
<1>5. QED
  BY <1>3, <1>4 DEF Ends, EndStep, n

\* The handlers of the plan, the grant and the execution.
LEMMA ExecutionEnds ==
    ASSUME Inv, EndInv, NEW w \in Workers, Active(w), worker[w].snap = st,
           HandlePlan(w) \/ HandleGrant(w) \/ HandleExecution(w)
    PROVE  Ends(w)
<1> DEFINE m == worker[w].msg
<1>s. st \in RunStates /\ SameRun(st, st) /\ m \in Messages
  BY DEF Inv, TypeOK, SameRun, Handlers
<1>c. {"structured-plan-pending", "execution-grant-pending"}
        \subseteq BeforeBatch \intersect (BeforeDefects \ {"absent"})
  BY DEF BeforeDefects, BeforeBatch, AfterClosure
<1>1. ASSUME st.phase \in {"structured-plan-pending", "execution-grant-pending"},
             \/ st.interruption # "none" /\ BeginCleanup(w, st, st.interruption)
             \/ st.interruption = "none" /\ BeginCleanup(w, st, "blocked")
      PROVE  Ends(w)
  BY <1>s, <1>c, <1>1, BeginCleanupEnds
<1>2. ASSUME NEW phase \in Phases, NEW queue \in Queues \ Terminations,
             <<st.phase, phase>> \in
               {<<"structured-plan-pending", "execution-grant-pending">>,
                <<"execution-grant-pending", "structured-execution-pending">>,
                <<"execution-grant-pending", "browser-control-pending">>,
                <<"structured-execution-pending", "artifact-summary-pending">>,
                <<"browser-control-pending", "artifact-summary-pending">>},
             Save(w, Pending(st, phase, {Request(queue)}))
      PROVE  Ends(w)
  BY <1>s, <1>2, MoveEnds
<1>3. CASE Repeat(w) \/ Fail(w)
  BY <1>3 DEF Ends
<1>4. CASE HandlePlan(w)
  <2> DEFINE p == [st EXCEPT !.mode = m.outcome]
  <2>1. CASE /\ st.interruption = "none" /\ m.outcome # "blocked"
             /\ st.phase = "structured-plan-pending"
    <3>1. m.outcome \in {"structured", "browser"}
      BY <1>4, <1>s, <2>1 DEF HandlePlan, Handling, Messages, Events,
         EnvironmentEvents, AnswerEvents, Receipts
    <3>2. /\ p \in RunStates
          /\ p.version = st.version
          /\ p.lease = st.lease
          /\ SameRun(st, p)
          /\ p.status = st.status
          /\ p.env = st.env
          /\ p.summary = st.summary
      BY <1>s, <3>1 DEF RunStates, SameRun
    <3>3. Save(w, Pending(p, "execution-grant-pending",
                          {Request("execution_grant_request")}))
      BY <1>4, <2>1 DEF HandlePlan, Awaiting
    <3> HIDE DEF p
    <3>4. QED
      BY <2>1, <3>2, <3>3, MoveEnds DEF Phases, Queues, Terminations
  <2>2. QED
    BY <1>1, <1>3, <1>4, <2>1 DEF HandlePlan, Awaiting
<1>5. CASE HandleGrant(w)
  <2>1. CASE /\ st.phase = "execution-grant-pending"
             /\ \/ Save(w, Pending(st, "structured-execution-pending",
                                   {Request("structured_execution_request")}))
                \/ Save(w, Pending(st, "browser-control-pending",
                                   {Request("ai_browser_control_request")}))
    BY <1>2, <2>1 DEF Phases, Queues, Terminations
  <2>2. QED
    BY <1>1, <1>3, <1>5, <2>1 DEF HandleGrant, Awaiting
<1>6. CASE HandleExecution(w)
  <2>1. CASE /\ st.phase = ExecutionPhase(st)
             /\ Save(w, Pending(st, "artifact-summary-pending",
                                {Request("testing_result")}))
    BY <1>2, <2>1 DEF ExecutionPhase, Phases, Queues, Terminations
  <2>2. QED
    BY <1>3, <1>6, <2>1 DEF HandleExecution
<1>7. QED
  BY <1>4, <1>5, <1>6

\* The handler of the answers of environment-factory.
LEMMA EnvironmentEnds ==
    ASSUME Inv, EndInv, NEW w \in Workers, Active(w), worker[w].snap = st,
           HandleEnvironment(w)
    PROVE  Ends(w)
<1> DEFINE m == worker[w].msg
           ready == [st EXCEPT !.env = "ready"]
<1>s. st \in RunStates
  BY DEF Inv, TypeOK
<1>1. /\ ready \in RunStates
      /\ ready.version = st.version
      /\ ready.lease = st.lease
      /\ ready.tested = st.tested
      /\ ready.interruption = st.interruption
  BY <1>s DEF RunStates
<1>2. \/ Repeat(w)
      \/ /\ Handling(w, "environment")
         /\ st.phase \in {"environment-pending", "cleanup-pending"}
         /\ AcceptCleanup(w, Closing(st), m)
      \/ /\ st.phase = "environment-pending" /\ st.interruption # "none"
         /\ BeginCleanup(w, ready, st.interruption)
      \/ /\ st.phase = "environment-pending"
         /\ Gate(w, ready, "environment-ready", "analysis-pending",
                 {Request("analysis_request")})
  BY DEF HandleEnvironment, Closing
<1> HIDE DEF ready
<1>3. CASE /\ st.phase = "environment-pending" /\ st.interruption # "none"
           /\ BeginCleanup(w, ready, st.interruption)
  <2>1. st.phase \in BeforeDefects \ {"absent"}
    BY <1>3 DEF BeforeDefects, BeforeBatch, BeforeClosure, BeforeReadiness,
       BeforeDesign, BeforeEnvironment
  <2>2. QED
    BY <1>1, <1>3, <2>1, BeginCleanupEnds
<1>4. CASE /\ st.phase = "environment-pending"
           /\ Gate(w, ready, "environment-ready", "analysis-pending",
                   {Request("analysis_request")})
  BY <1>1, <1>4, RequestType, DesignGateEnds
     DEF SameRun, EarlyStages, Phases, Queues, Precedes, Follows
<1>5. QED
  BY <1>2, <1>3, <1>4, AcceptCleanupEnds DEF Ends

\* After the summary was written the cleanup checkpoint is opened.
LEMMA FinalizationEnds ==
    ASSUME Inv, EndInv, NEW w \in Workers, Active(w), worker[w].snap = st,
           PrepareFinalization(w)
    PROVE  Ends(w)
<1> DEFINE c == Closing(st)
           f == [c EXCEPT !.cleanup = "complete", !.summary = SummaryOf(c)]
<1>s. st \in RunStates
  BY DEF Inv, TypeOK
<1>1. /\ st.phase \in {"environment-pending", "cleanup-pending"}
      /\ summary = SummaryOf(c)
  BY DEF PrepareFinalization, Inv, HandlerInv, EndInv
<1>2. /\ c \in RunStates
      /\ c.version = st.version
      /\ c.phase = st.phase
      /\ c.lease = st.lease
      /\ c.tested = st.tested
      /\ c.interruption = st.interruption
      /\ st.phase = "cleanup-pending" => c.env = st.env /\ c.status = st.status
      /\ st.phase = "environment-pending"
         => c.status = Default(st.interruption, "blocked")
  BY <1>s, <1>1, ClosingType
<1>3. OutcomeFits(c)
  <2>1. CASE st.phase = "environment-pending"
    BY <1>2, <2>1 DEF OutcomeFits, Default
  <2>2. CASE st.phase = "cleanup-pending"
    BY <1>2, <2>2 DEF OutcomeFits, EndInv, EndOf, OutcomeKnown, Target
  <2>3. QED
    BY <1>1, <2>1, <2>2
<1>4. Gate(w, f, "cleanup", "publication-pending",
           {Request("qa_finalize_request")})
  BY DEF PrepareFinalization
<1>5. SummaryOf(c) \in Summaries
  BY <1>2 DEF SummaryOf, Summaries, RunStates, Statuses
<1> HIDE DEF c
<1>6. /\ f \in RunStates
      /\ f.version = c.version
      /\ f.lease = c.lease
      /\ f.tested = c.tested
      /\ f.interruption = c.interruption
      /\ f.status = c.status
      /\ f.env = c.env
      /\ f.summary = SummaryOf(c)
  BY <1>2, <1>5 DEF RunStates
<1> HIDE DEF f
<1>7. /\ <<st.phase, "cleanup">> \in Precedes
      /\ <<"cleanup", "publication-pending",
           {Request("qa_finalize_request")}>> \in Follows
      /\ "cleanup" \in Stages
      /\ "publication-pending" \in Phases
      /\ {Request("qa_finalize_request")} \in SUBSET Requests
  BY <1>1, RequestType DEF Precedes, Follows, Stages, Phases, Queues
<1>8. CASE Fail(w)
  BY <1>8 DEF Ends
<1>9. ASSUME NEW n \in RunStates, Save(w, n), f.lease = NoLease,
             n.version = f.version, n.phase = "checkpoint-pending",
             n.lease.stage = "cleanup", n.lease.phase = "publication-pending",
             n.lease.actions = {Request("qa_finalize_request")},
             Ordinary(n.pending), n.tested = f.tested,
             n.interruption = f.interruption, n.status = f.status,
             n.env = f.env, n.summary = f.summary
      PROVE  Ends(w)
  <2>1. n.summary.status = n.status /\ n.summary.interruption = n.interruption
    BY <1>6, <1>9 DEF SummaryOf
  <2>2. OutcomeFits(n)
    BY <1>3, <1>6, <1>9 DEF OutcomeFits
  <2>3. Checkpoints(st, n) /\ SameRun(st, n)
    BY <1>2, <1>6, <1>7, <1>9 DEF Checkpoints, SameRun
  <2>4. GatesPublication(st, n)
    BY <1>1, <1>2, <1>6, <1>9, <2>1, <2>2, <2>3 DEF GatesPublication
  <2>5. QED
    BY <1>2, <1>6, <1>9, <2>4 DEF Ends, EndStep
<1>10. \/ Fail(w)
       \/ \E n \in RunStates :
            /\ Save(w, n)
            /\ f.lease = NoLease
            /\ n.version = f.version
            /\ n.phase = "checkpoint-pending"
            /\ n.lease.stage = "cleanup"
            /\ n.lease.phase = "publication-pending"
            /\ n.lease.actions = {Request("qa_finalize_request")}
            /\ Ordinary(n.pending)
            /\ n.tested = f.tested
            /\ n.interruption = f.interruption
            /\ n.status = f.status
            /\ n.env = f.env
            /\ n.summary = f.summary
  BY <1>4, <1>6, <1>7, GateOpens
<1>11. QED
  BY <1>8, <1>9, <1>10

\* The gate after which the run cleans up.
LEMMA CleanupGateEnds ==
    ASSUME NEW w \in Workers, NEW s \in RunStates, s.version = st.version,
           s.lease = st.lease, s.interruption = st.interruption, s.env = st.env,
           \/ s.interruption # "none" /\ s.status = s.interruption
           \/ /\ s.interruption = "none"
              /\ s.status \in {"blocked", "passed", "failed", "degraded"},
           NEW stage \in {"execution-batch", "defect-publication"},
           <<st.phase, stage>> \in Precedes,
           stage = "execution-batch" /\ s.tested = "failed"
           => s.interruption # "none",
           stage = "defect-publication" => s.tested = st.tested,
           Gate(w, s, stage, "cleanup-pending", {CleanupAction(s.status)})
    PROVE  Ends(w)
<1>1. /\ stage \in Stages
      /\ "cleanup-pending" \in Phases
      /\ {CleanupAction(s.status)} \in SUBSET Requests
      /\ <<stage, "cleanup-pending", {CleanupAction(s.status)}>> \in Follows
  BY CleanupActionType DEF Stages, Phases, Follows, CleanupAction
<1>2. {CleanupAction(s.status)} = {Request(TerminationOf(s))}
  BY CleanupActionFits
<1>3. OutcomeFits(s)
  BY DEF OutcomeFits
<1>4. CASE Fail(w)
  BY <1>4 DEF Ends
<1>5. ASSUME NEW n \in RunStates, Save(w, n), s.lease = NoLease,
             n.version = s.version, n.phase = "checkpoint-pending",
             n.lease.stage = stage, n.lease.phase = "cleanup-pending",
             n.lease.actions = {CleanupAction(s.status)},
             Ordinary(n.pending), n.tested = s.tested,
             n.interruption = s.interruption, n.status = s.status,
             n.env = s.env
      PROVE  Ends(w)
  <2>1. TerminationOf(n) = TerminationOf(s) /\ OutcomeFits(n)
    BY <1>3, <1>5 DEF TerminationOf, OutcomeFits
  <2>2. Checkpoints(st, n)
    BY <1>1, <1>5 DEF Checkpoints
  <2>3. GatesCleanup(st, n)
    BY <1>2, <1>5, <2>1, <2>2 DEF GatesCleanup
  <2>4. QED
    BY <1>5, <2>3 DEF Ends, EndStep
<1>6. \/ Fail(w)
      \/ \E n \in RunStates :
           /\ Save(w, n)
           /\ s.lease = NoLease
           /\ n.version = s.version
           /\ n.phase = "checkpoint-pending"
           /\ n.lease.stage = stage
           /\ n.lease.phase = "cleanup-pending"
           /\ n.lease.actions = {CleanupAction(s.status)}
           /\ Ordinary(n.pending)
           /\ n.tested = s.tested
           /\ n.interruption = s.interruption
           /\ n.status = s.status
           /\ n.env = s.env
           /\ n.summary = s.summary
  BY <1>1, GateOpens
<1>7. QED
  BY <1>4, <1>5, <1>6

\* The handler of the tested result.
LEMMA ArtifactSummaryEnds ==
    ASSUME Inv, EndInv, NEW w \in Workers, Active(w), worker[w].snap = st,
           HandleArtifactSummary(w)
    PROVE  Ends(w)
<1> DEFINE m == worker[w].msg
<1>s. st \in RunStates /\ m \in Messages
  BY DEF Inv, TypeOK, Handlers
<1>1. PICK outcome \in {"passed", "failed", "degraded", "blocked", "missing"} :
        outcome = m.outcome
  BY <1>s DEF HandleArtifactSummary, Handling, Messages, Events,
     EnvironmentEvents, AnswerEvents, Receipts
<1> DEFINE tested == [st EXCEPT !.tested = outcome]
           clean == [tested EXCEPT !.defects = IF outcome = "failed"
                                               THEN @ ELSE "published"]
           status == Default(st.interruption, outcome)
           ended == [clean EXCEPT !.status = status]
<1>2. CASE Repeat(w)
  BY <1>2 DEF Ends
<1>3. CASE /\ st.phase = "artifact-summary-pending"
           /\ outcome \in {"missing", "blocked"}
  <2>1. BeginCleanup(w, st, Default(st.interruption, "blocked"))
    BY <1>1, <1>3 DEF HandleArtifactSummary
  <2>2. st.phase \in BeforeBatch \intersect (BeforeDefects \ {"absent"})
    BY <1>3 DEF BeforeDefects, BeforeBatch
  <2>3. \/ /\ st.interruption # "none"
           /\ Default(st.interruption, "blocked") = st.interruption
        \/ /\ st.interruption = "none"
           /\ Default(st.interruption, "blocked") = "blocked"
    BY DEF Default
  <2>4. QED
    BY <1>s, <2>1, <2>2, <2>3, BeginCleanupEnds
<1>4. CASE /\ st.phase = "artifact-summary-pending"
           /\ outcome \in {"passed", "failed", "degraded"}
  <2>1. /\ status \in Statuses
        /\ \/ st.interruption # "none" /\ status = st.interruption
           \/ st.interruption = "none" /\ status = outcome
    BY <1>s, <1>4 DEF Default, Statuses, RunStates
  <2>2. /\ tested \in RunStates
        /\ tested.version = st.version
        /\ tested.lease = st.lease
        /\ tested.tested = outcome
        /\ tested.interruption = st.interruption
        /\ tested.env = st.env
    BY <1>s, <1>4 DEF RunStates
  <2>3. /\ IF st.interruption = "none" /\ outcome = "failed"
           THEN Gate(w, tested, "execution-batch", "defects-pending",
                     {Request("defect_preparation_request")})
           ELSE Gate(w, ended, "execution-batch", "cleanup-pending",
                     {CleanupAction(status)})
        /\ <<st.phase, "execution-batch">> \in Precedes
    BY <1>1, <1>4 DEF HandleArtifactSummary, Precedes
  <2> HIDE DEF tested, status
  <2>4. /\ clean \in RunStates
        /\ clean.version = st.version
        /\ clean.lease = st.lease
        /\ clean.tested = outcome
        /\ clean.interruption = st.interruption
        /\ clean.env = st.env
    BY <2>2 DEF RunStates
  <2> HIDE DEF clean
  <2>5. /\ ended \in RunStates
        /\ ended.version = st.version
        /\ ended.lease = st.lease
        /\ ended.tested = outcome
        /\ ended.interruption = st.interruption
        /\ ended.env = st.env
        /\ ended.status = status
    BY <2>1, <2>4 DEF RunStates
  <2> HIDE DEF ended
  <2>6. CASE st.interruption = "none" /\ outcome = "failed"
    <3>1. /\ "execution-batch" \in Stages
          /\ "defects-pending" \in Phases
          /\ {Request("defect_preparation_request")} \in SUBSET Requests
          /\ <<"execution-batch", "defects-pending",
               {Request("defect_preparation_request")}>> \in Follows
      BY RequestType DEF Stages, Phases, Queues, Follows
    <3>2. CASE Fail(w)
      BY <3>2 DEF Ends
    <3>3. ASSUME NEW n \in RunStates, Save(w, n), tested.lease = NoLease,
                 n.version = tested.version, n.phase = "checkpoint-pending",
                 n.lease.stage = "execution-batch",
                 n.lease.phase = "defects-pending",
                 n.lease.actions = {Request("defect_preparation_request")},
                 Ordinary(n.pending), n.tested = tested.tested,
                 n.interruption = tested.interruption, n.env = tested.env
          PROVE  Ends(w)
      <4>1. Checkpoints(st, n)
        BY <2>2, <2>3, <3>1, <3>3 DEF Checkpoints
      <4>2. GatesDefects(st, n)
        BY <2>2, <2>6, <3>3, <4>1 DEF GatesDefects
      <4>3. QED
        BY <2>2, <3>3, <4>2 DEF Ends, EndStep
    <3>4. \/ Fail(w)
          \/ \E n \in RunStates :
               /\ Save(w, n)
               /\ tested.lease = NoLease
               /\ n.version = tested.version
               /\ n.phase = "checkpoint-pending"
               /\ n.lease.stage = "execution-batch"
               /\ n.lease.phase = "defects-pending"
               /\ n.lease.actions = {Request("defect_preparation_request")}
               /\ Ordinary(n.pending)
               /\ n.tested = tested.tested
               /\ n.interruption = tested.interruption
               /\ n.status = tested.status
               /\ n.env = tested.env
               /\ n.summary = tested.summary
      BY <2>2, <2>3, <2>6, <3>1, GateOpens
    <3>5. QED
      BY <3>2, <3>3, <3>4
  <2>7. CASE ~(st.interruption = "none" /\ outcome = "failed")
    <3>1. Gate(w, ended, "execution-batch", "cleanup-pending",
               {CleanupAction(ended.status)})
      BY <2>3, <2>5, <2>7
    <3>2. \/ ended.interruption # "none" /\ ended.status = ended.interruption
          \/ /\ ended.interruption = "none"
             /\ ended.status \in {"blocked", "passed", "failed", "degraded"}
      BY <1>4, <2>1, <2>5
    <3>3. QED
      BY <2>3, <2>5, <2>7, <3>1, <3>2, CleanupGateEnds
  <2>8. QED
    BY <2>6, <2>7
<1>5. QED
  BY <1>1, <1>2, <1>3, <1>4 DEF HandleArtifactSummary

\* The handler of the published defects.
LEMMA DefectTerminalEnds ==
    ASSUME Inv, EndInv, NEW w \in Workers, Active(w), worker[w].snap = st,
           HandleDefectTerminal(w)
    PROVE  Ends(w)
<1> DEFINE m == worker[w].msg
<1>s. st \in RunStates /\ m \in Messages
  BY DEF Inv, TypeOK, Handlers
<1>1. PICK outcome \in {"published", "blocked"} : outcome = m.outcome
  BY <1>s DEF HandleDefectTerminal, Handling, Messages, Events,
     EnvironmentEvents, AnswerEvents, Receipts
<1> DEFINE status == Default(st.interruption,
                             IF outcome = "published" THEN st.tested
                                                      ELSE "blocked")
           ended == [st EXCEPT !.defects = outcome, !.status = status]
<1>2. CASE Repeat(w)
  BY <1>2 DEF Ends
<1>3. CASE /\ st.phase = "defects-pending"
           /\ Gate(w, ended, "defect-publication", "cleanup-pending",
                   {CleanupAction(status)})
  <2>1. st.tested \in {"passed", "failed", "degraded"}
    BY <1>s, <1>3 DEF EndInv, EndOf, FailuresFollowed, Target, RunStates
  <2>2. /\ status \in Statuses
        /\ \/ st.interruption # "none" /\ status = st.interruption
           \/ /\ st.interruption = "none"
              /\ status \in {"blocked", "passed", "failed", "degraded"}
    BY <1>s, <2>1 DEF Default, Statuses, RunStates
  <2> HIDE DEF status
  <2>3. /\ ended \in RunStates
        /\ ended.version = st.version
        /\ ended.lease = st.lease
        /\ ended.tested = st.tested
        /\ ended.interruption = st.interruption
        /\ ended.env = st.env
        /\ ended.status = status
    BY <1>s, <2>2 DEF RunStates
  <2>4. <<st.phase, "defect-publication">> \in Precedes
    BY <1>3 DEF Precedes
  <2> HIDE DEF ended
  <2>5. Gate(w, ended, "defect-publication", "cleanup-pending",
             {CleanupAction(ended.status)})
    BY <1>3, <2>3
  <2>6. QED
    BY <2>2, <2>3, <2>4, <2>5, CleanupGateEnds
<1>4. QED
  BY <1>1, <1>2, <1>3 DEF HandleDefectTerminal

\* The handler of checkpoint receipts and of the aggregate receipt.
LEMMA ReceiptEnds ==
    ASSUME Inv, EndInv, NEW w \in Workers, Active(w), worker[w].snap = st,
           HandlePublicationReceipt(w)
    PROVE  Ends(w)
<1> DEFINE m == worker[w].msg
<1>s. /\ st \in RunStates
      /\ st.lease \in Leases
      /\ Genuine(m)
      /\ SameRun(st, st)
  BY DEF Inv, TypeOK, HandlerInv, SameRun, RunStates
<1>1. CASE Repeat(w) \/ Fail(w)
  BY <1>1 DEF Ends
<1>2. CASE /\ st.phase = "checkpoint-pending"
           /\ m = Receipt(st.lease.stage, st.lease.attempt)
           /\ Save(w, Pending([st EXCEPT !.lease = NoLease], st.lease.phase,
                              st.lease.actions))
  <2> DEFINE r == [st EXCEPT !.lease = NoLease]
             n == Pending(r, st.lease.phase, st.lease.actions)
  <2>1. st.lease.attempt = 1
    BY <1>2 DEF Inv, RunInv, LeaseFits
  <2>2. Published(st.lease.stage)
    BY <1>s, <1>2, <2>1 DEF Genuine, Receipt, Receipts, Leases, Published
  <2>3. /\ r \in RunStates
        /\ r.version = st.version
        /\ r.lease = NoLease
        /\ SameRun(st, r)
        /\ r.status = st.status
        /\ r.env = st.env
        /\ r.summary = st.summary
    BY <1>s, ConstantTypes DEF RunStates, SameRun
  <2> HIDE DEF r
  <2>4. st.lease.phase \in Phases /\ st.lease.actions \in SUBSET Requests
    BY <1>s DEF Leases
  <2>5. /\ n \in RunStates
        /\ n.version = r.version
        /\ n.phase = st.lease.phase
        /\ n.lease = r.lease
        /\ n.pending = st.lease.actions
        /\ n.tested = r.tested
        /\ n.interruption = r.interruption
        /\ n.status = r.status
        /\ n.env = r.env
        /\ n.summary = r.summary
    BY <2>3, <2>4, PendingFields
  <2>6. Save(w, n)
    BY <1>2 DEF r
  <2> HIDE DEF n
  <2>7. Releases(st, n)
    BY <1>2, <2>2, <2>3, <2>5 DEF Releases, SameRun
  <2>8. QED
    BY <2>3, <2>5, <2>6, <2>7 DEF Ends, EndStep
<1>3. CASE /\ st.phase = "publication-pending"
           /\ Save(w, Pending(st, "terminal", {Request("terminal_request")}))
  BY <1>s, <1>3, MoveEnds DEF Phases, Queues, Terminations
<1>4. QED
  BY <1>1, <1>2, <1>3 DEF HandlePublicationReceipt

\* The handler of interrupts.
LEMMA InterruptEnds ==
    ASSUME Inv, EndInv, NEW w \in Workers, Active(w), worker[w].snap = st,
           HandleInterrupt(w)
    PROVE  Ends(w)
<1> DEFINE m == worker[w].msg
           marked == [st EXCEPT !.interruption = m.outcome]
<1>s. st \in RunStates /\ m \in Messages
  BY DEF Inv, TypeOK, Handlers
<1>1. m.outcome \in Interruptions
  BY <1>s DEF HandleInterrupt, Handling, Messages, Events,
     EnvironmentEvents, AnswerEvents, Receipts
<1>2. m.outcome # "none"
  BY <1>1, InterruptionsAssumption
<1>3. /\ marked \in RunStates
      /\ marked.version = st.version
      /\ marked.phase = st.phase
      /\ marked.lease = st.lease
      /\ marked.pending = st.pending
      /\ marked.tested = st.tested
      /\ marked.env = st.env
      /\ marked.interruption = m.outcome
  BY <1>s, <1>1 DEF RunStates
<1>4. \/ Fail(w) \/ Repeat(w)
      \/ st.phase \in Recording /\ Save(w, marked)
      \/ /\ st.phase \notin Ended \union Recording \union {"absent"}
         /\ BeginCleanup(w, marked, m.outcome)
  BY DEF HandleInterrupt
<1> HIDE DEF marked
<1>5. CASE st.phase \in Recording /\ Save(w, marked)
  <2>1. Marks(st, marked)
    BY <1>1, <1>3, <1>5 DEF Marks
  <2>2. QED
    BY <1>3, <1>5, <2>1 DEF Ends, EndStep
<1>6. CASE /\ st.phase \notin Ended \union Recording \union {"absent"}
           /\ BeginCleanup(w, marked, m.outcome)
  <2>1. st.phase \in (BeforeDefects \ {"absent"}) \union {"checkpoint-pending"}
    BY <1>s, <1>6 DEF RunStates, Phases, Ended, Recording, BeforeDefects,
       BeforeBatch, BeforeClosure, BeforeReadiness, BeforeDesign,
       BeforeEnvironment, AfterClosure
  <2>2. QED
    BY <1>2, <1>3, <1>6, <2>1, BeginCleanupEnds
<1>7. QED
  BY <1>4, <1>5, <1>6 DEF Ends

\* Every handler takes one of the steps; one whose run is not the current one
\* saves nothing.
LEMMA HandlerEnds ==
    ASSUME Inv, EndInv, NEW w \in Workers, Handle(w)
    PROVE  Ends(w) \/ Raise(w)
<1>1. CASE Raise(w)
  BY <1>1
<1>2. CASE ~Raise(w) /\ worker[w].snap.version = st.version
  <2>1. Active(w)
    BY <1>2 DEF Handle, Redrive, HandleEnvironment, PrepareFinalization,
       HandleAnalysis, HandleBrowserReadiness, PrepareModule,
       HandleModuleTerminal, HandlePlan,
       HandleGrant, HandleExecution, HandleArtifactSummary,
       HandleDefectTerminal, HandlePublicationReceipt, HandleInterrupt,
       Handling, Active
  <2>2. worker[w].snap = st
    BY <1>2, <2>1 DEF Inv, HandlerInv
  <2>3. QED
    BY <1>2, <2>1, <2>2, DesignEnds, ExecutionEnds, EnvironmentEnds,
       FinalizationEnds, ArtifactSummaryEnds, DefectTerminalEnds, ReceiptEnds,
       InterruptEnds DEF Handle
<1>3. CASE ~Raise(w) /\ worker[w].snap.version # st.version
  <2>1. Effect(w)
    BY <1>3, HandlerEffects DEF Inv
  <2>2. \A s : s.version = worker[w].snap.version /\ Save(w, s) => Fail(w)
    BY <1>3 DEF Save
  <2>3. QED
    BY <2>1, <2>2 DEF Effect, Ends
<1>4. QED
  BY <1>1, <1>2, <1>3

-----------------------------------------------------------------------------
(* The steps keep what is known of the end of the run.                     *)

\* Where each checkpoint leads, and with what kind of request.
LEMMA FollowsPhases ==
    ASSUME NEW stage, NEW phase, NEW actions,
           <<stage, phase, actions>> \in Follows
    PROVE  /\ stage \in EarlyStages => phase \in AfterIntake
           /\ stage = "execution-batch"
              => phase \in {"defects-pending", "cleanup-pending"}
           /\ stage = "defect-publication" => phase = "cleanup-pending"
           /\ stage = "cleanup" <=> phase = "publication-pending"
           /\ phase \in AfterIntake \union
                {"defects-pending", "cleanup-pending", "publication-pending"}
           /\ phase = "defects-pending" => stage = "execution-batch"
           /\ phase # "cleanup-pending" => Ordinary(actions)
           /\ phase = "cleanup-pending"
              => stage \in {"execution-batch", "defect-publication"}
BY DEF Follows, EarlyStages, AfterIntake, AfterEnvironment, AfterDesign,
       AfterReadiness, AfterClosure, Ordinary, Request, Terminations

\* The phases before a checkpoint, and the ones the run cannot come back from.
LEMMA PhaseSets ==
    /\ \A phase \in AfterIntake :
         phase \notin {"absent", "checkpoint-pending", "artifact-summary-pending",
                       "defects-pending", "cleanup-pending", "cleanup-blocked",
                       "publication-pending", "terminal"}
    /\ \A phase \in BeforeDefects :
         phase \notin {"checkpoint-pending", "cleanup-pending", "cleanup-blocked",
                       "publication-pending", "terminal"}
    /\ \A phase \in BeforeBatch : phase # "defects-pending"
    /\ \A phase \in Recording :
         phase \notin {"absent", "checkpoint-pending", "cleanup-pending",
                       "cleanup-blocked", "publication-pending", "terminal"}
    /\ NoLease.stage = "none"
BY DEF AfterIntake, AfterEnvironment, AfterDesign, AfterReadiness, AfterClosure,
       BeforeDefects, BeforeBatch, BeforeClosure, BeforeReadiness, BeforeDesign,
       BeforeEnvironment, Recording, NoLease

\* What a step keeps: all that is said of the run, and every request timely.
StepKept(n) ==
    /\ EndOf(n)
    /\ \A r : Timely(st, r) => Timely(n, r)
    /\ \A r \in n.pending : Timely(n, r)

\* A checkpoint before cleanup keeps it.
LEMMA GatesDesignKeeps ==
    ASSUME Inv, EndInv, NEW n \in RunStates,
           GatesDesign(st, n) \/ GatesDefects(st, n)
    PROVE  StepKept(n)
<1>1. /\ st.lease = NoLease
      /\ <<st.phase, n.lease.stage>> \in Precedes
      /\ n.phase = "checkpoint-pending"
      /\ Ordinary(n.pending)
      /\ n.interruption = st.interruption
      /\ n.lease.stage \in EarlyStages \union {"execution-batch"}
      /\ n.lease.phase \in AfterIntake \union {"defects-pending"}
  BY FollowsPhases DEF GatesDesign, GatesDefects, Checkpoints, SameRun
<1>2. /\ n.lease.phase \in AfterIntake => n.tested = st.tested
      /\ n.lease.phase = "defects-pending"
         => n.tested = "failed" /\ n.env = st.env
  BY <1>1, FollowsPhases DEF GatesDesign, GatesDefects, Checkpoints, SameRun,
     EarlyStages, AfterIntake, AfterEnvironment, AfterDesign, AfterReadiness,
     AfterClosure
<1>3. /\ st.phase \in {"absent", "environment-pending", "analysis-pending",
                       "browser-readiness-pending", "module-pending",
                       "artifact-summary-pending"}
      /\ n.lease.phase = "defects-pending"
         => st.phase = "artifact-summary-pending"
  BY <1>1, FollowsPhases DEF Precedes, EarlyStages, GatesDesign, GatesDefects,
     Checkpoints
<1>4. OutcomeKnown(n)
  BY <1>1, PhaseSets DEF OutcomeKnown, Target
<1>5. FailuresFollowed(n)
  BY <1>1, <1>2, <1>3, PhaseSets
     DEF FailuresFollowed, Target, Passed, EndInv, EndOf
<1>6. EnvironmentLeft(n)
  BY <1>1, <1>2, <1>3, PhaseSets
     DEF EnvironmentLeft, Target, StoppedInCleanup, EndInv, EndOf
<1>7. SummaryKept(n)
  BY <1>1, PhaseSets DEF SummaryKept, Target
<1>8. \A r : Timely(st, r) => Timely(n, r)
  BY <1>1, <1>3 DEF Timely, CleanupReached
<1>9. \A r \in n.pending : Timely(n, r)
  BY <1>1 DEF Timely, Ordinary
<1>10. QED
  BY <1>4, <1>5, <1>6, <1>7, <1>8, <1>9 DEF StepKept, EndOf

\* So does the checkpoint that leads to cleanup.
LEMMA GatesCleanupKeeps ==
    ASSUME Inv, EndInv, NEW n \in RunStates, GatesCleanup(st, n)
    PROVE  StepKept(n)
<1>1. /\ st.lease = NoLease
      /\ n.phase = "checkpoint-pending"
      /\ n.lease.phase = "cleanup-pending"
      /\ n.env = st.env
      /\ Ordinary(n.pending)
      /\ \/ /\ n.lease.stage = "execution-batch"
            /\ st.phase = "artifact-summary-pending"
         \/ /\ n.lease.stage = "defect-publication"
            /\ st.phase = "defects-pending"
  BY DEF GatesCleanup, Checkpoints, Precedes
<1>2. OutcomeKnown(n)
  BY <1>1 DEF OutcomeKnown, Target, GatesCleanup, OutcomeFits
<1>3. FailuresFollowed(n)
  BY <1>1 DEF FailuresFollowed, Target, Passed, GatesCleanup
<1>4. EnvironmentLeft(n)
  BY <1>1 DEF EnvironmentLeft, Target, StoppedInCleanup, EndInv, EndOf
<1>5. SummaryKept(n)
  BY <1>1 DEF SummaryKept, Target
<1>6. \A r : Timely(st, r) => Timely(n, r)
  BY <1>1 DEF Timely, CleanupReached
<1>7. \A r \in n.pending : Timely(n, r)
  BY <1>1 DEF Timely, Ordinary
<1>8. QED
  BY <1>2, <1>3, <1>4, <1>5, <1>6, <1>7 DEF StepKept, EndOf

\* And the cleanup checkpoint, after the summary was written.
LEMMA GatesPublicationKeeps ==
    ASSUME Inv, EndInv, NEW n \in RunStates, GatesPublication(st, n)
    PROVE  StepKept(n)
<1>1. /\ st.lease = NoLease
      /\ n.phase = "checkpoint-pending"
      /\ n.lease.stage = "cleanup"
      /\ n.lease.phase = "publication-pending"
      /\ Ordinary(n.pending)
      /\ SameRun(st, n)
      /\ st.phase \in {"environment-pending", "cleanup-pending"}
  BY FollowsPhases DEF GatesPublication, Checkpoints, Precedes
<1>2. OutcomeKnown(n)
  BY <1>1 DEF OutcomeKnown, Target, GatesPublication, OutcomeFits
<1>3. FailuresFollowed(n)
  BY <1>1 DEF FailuresFollowed, Target, Passed, SameRun, EndInv, EndOf
<1>4. EnvironmentLeft(n)
  BY <1>1 DEF EnvironmentLeft, Target, StoppedInCleanup
<1>5. SummaryKept(n)
  BY DEF SummaryKept, GatesPublication
<1>6. \A r : Timely(st, r) => Timely(n, r)
  BY <1>1, PhaseSets DEF Timely, CleanupReached, StoppedInCleanup,
     TerminationOf, SameRun, GatesPublication
<1>7. \A r \in n.pending : Timely(n, r)
  BY <1>1 DEF Timely, Ordinary
<1>8. QED
  BY <1>2, <1>3, <1>4, <1>5, <1>6, <1>7 DEF StepKept, EndOf

\* A released lease leads to the phase it was taken for.
LEMMA ReleasesKeeps ==
    ASSUME Inv, EndInv, NEW n \in RunStates, Releases(st, n)
    PROVE  StepKept(n)
<1>1. <<st.lease.stage, st.lease.phase, st.lease.actions>> \in Follows
  BY DEF Releases, Inv, RunInv, LeaseFits
<1>2. /\ st.phase = "checkpoint-pending"
      /\ n.phase = st.lease.phase
      /\ n.phase # "checkpoint-pending"
      /\ n.phase \in AfterIntake \union
           {"defects-pending", "cleanup-pending", "publication-pending"}
      /\ Target(n) = Target(st)
      /\ n.lease.stage = "none"
  BY <1>1, FollowsPhases, PhaseSets DEF Releases, Target
<1>3. OutcomeKnown(n)
  BY <1>2 DEF OutcomeKnown, Releases, SameRun, EndInv, EndOf
<1>4. FailuresFollowed(n)
  BY <1>2 DEF FailuresFollowed, Passed, Releases, SameRun, EndInv, EndOf
<1>5. EnvironmentLeft(n)
  BY <1>2, PhaseSets DEF EnvironmentLeft, StoppedInCleanup, Releases, EndInv, EndOf
<1>6. SummaryKept(n)
  BY <1>2 DEF SummaryKept, Releases, SameRun, EndInv, EndOf
<1>7. \A r : Timely(st, r) => Timely(n, r)
  BY <1>1, <1>2, FollowsPhases, PhaseSets
     DEF Timely, CleanupReached, StoppedInCleanup, TerminationOf, Releases, SameRun
<1>8. \A r \in n.pending : Timely(n, r)
  <2>1. CASE n.phase = "cleanup-pending"
    <3>1. /\ n.pending = {Request(TerminationOf(n))}
          /\ n.env = "ready"
      BY <1>2, <2>1 DEF Releases, SameRun, TerminationOf, EndInv, EndOf,
         OutcomeKnown, EnvironmentLeft, Target
    <3>2. QED
      BY <2>1, <3>1 DEF Timely, CleanupReached, Request
  <2>2. CASE n.phase # "cleanup-pending"
    <3>1. Ordinary(n.pending)
      BY <1>1, <1>2, <2>2, FollowsPhases DEF Releases
    <3>2. QED
      BY <1>2, <3>1, PhaseSets DEF Timely, Ordinary
  <2>3. QED
    BY <2>1, <2>2
<1>9. QED
  BY <1>3, <1>4, <1>5, <1>6, <1>7, <1>8 DEF StepKept, EndOf

\* A move keeps it.
LEMMA MovesKeeps ==
    ASSUME Inv, EndInv, NEW n \in RunStates, Moves(st, n)
    PROVE  StepKept(n)
<1>1. /\ n.phase # "checkpoint-pending"
      /\ st.phase # "checkpoint-pending"
      /\ Target(st) = st.phase /\ Target(n) = n.phase
      /\ n.phase \in AfterClosure \union {"artifact-summary-pending", "terminal"}
      /\ n.phase = "terminal" <=> st.phase = "publication-pending"
      /\ n.phase = "artifact-summary-pending"
         => st.phase \in {"structured-execution-pending", "browser-control-pending"}
      /\ st.phase \in AfterClosure \union {"publication-pending"}
  BY DEF Moves, Target, AfterClosure
<1>2. OutcomeKnown(n)
  BY <1>1 DEF OutcomeKnown, Moves, SameRun, EndInv, EndOf, AfterClosure
<1>3. FailuresFollowed(n)
  BY <1>1 DEF FailuresFollowed, Passed, Moves, SameRun, EndInv, EndOf,
     AfterClosure
<1>4. EnvironmentLeft(n)
  BY <1>1 DEF EnvironmentLeft, StoppedInCleanup, Moves, Inv, RunInv,
     EnvironmentKnown, AfterEnvironment, AfterDesign, AfterReadiness,
     AfterClosure
<1>5. SummaryKept(n)
  BY <1>1 DEF SummaryKept, Moves, SameRun, EndInv, EndOf, AfterClosure
<1>6. \A r : Timely(st, r) => Timely(n, r)
  BY <1>1 DEF Timely, CleanupReached, StoppedInCleanup, TerminationOf, Moves,
     SameRun, AfterClosure
<1>7. \A r \in n.pending : Timely(n, r)
  BY <1>1 DEF Timely, Moves, Ordinary, AfterClosure
<1>8. QED
  BY <1>2, <1>3, <1>4, <1>5, <1>6, <1>7 DEF StepKept, EndOf

\* The start of a cleanup keeps it: nothing was asked of the environment before,
\* unless an interrupt hits the cleanup checkpoint.
LEMMA BeginsCleanupKeeps ==
    ASSUME Inv, EndInv, NEW n \in RunStates, BeginsCleanup(st, n)
    PROVE  StepKept(n)
<1>1. /\ n.phase = "cleanup-pending"
      /\ Target(n) = "cleanup-pending"
      /\ n.lease = st.lease
      /\ n.env = "ready"
      /\ n.pending = {Request(TerminationOf(n))}
      /\ st.phase # "absent"
  BY DEF BeginsCleanup, Target
<1>2. OutcomeKnown(n)
  BY <1>1 DEF OutcomeKnown, BeginsCleanup, OutcomeFits
<1>3. FailuresFollowed(n)
  <2>1. CASE n.interruption # "none"
    BY <1>1, <2>1 DEF FailuresFollowed
  <2>2. CASE n.interruption = "none"
    <3>1. /\ st.interruption = "none"
          /\ st.phase \in BeforeBatch
          /\ Target(st) # "defects-pending"
          /\ n.tested = st.tested
      BY <2>2, PhaseSets DEF BeginsCleanup, Target, BeforeDefects
    <3>2. QED
      BY <1>1, <3>1, PhaseSets DEF FailuresFollowed, Passed, EndInv, EndOf,
         BeforeDefects
  <2>3. QED
    BY <2>1, <2>2
<1>4. EnvironmentLeft(n)
  <2>1. CASE StoppedInCleanup(n)
    <3>1. st.lease.stage = "cleanup" /\ st.lease # NoLease
      BY <1>1, <2>1, PhaseSets DEF StoppedInCleanup
    <3>2. /\ <<st.lease.stage, st.lease.phase, st.lease.actions>> \in Follows
          /\ st.phase = "checkpoint-pending"
      BY <3>1, PhaseSets DEF BeginsCleanup, Inv, RunInv, LeaseFits
    <3>3. ReleasedEnvironment /\ environment.start = "ready"
      BY <3>1, <3>2, FollowsPhases DEF Inv, RunInv, EnvironmentKnown, Target,
         BeginsCleanup
    <3>4. QED
      BY <1>1, <3>3 DEF EnvironmentLeft, ReleasedEnvironment
  <2>2. QED
    BY <1>1, <2>1 DEF EnvironmentLeft
<1>5. SummaryKept(n)
  BY <1>1 DEF SummaryKept
<1>6. \A r : Timely(st, r) => Timely(n, r)
  BY <1>1, PhaseSets DEF Timely, CleanupReached, StoppedInCleanup, BeginsCleanup
<1>7. \A r \in n.pending : Timely(n, r)
  BY <1>1 DEF Timely, CleanupReached, Request
<1>8. QED
  BY <1>2, <1>3, <1>4, <1>5, <1>6, <1>7 DEF StepKept, EndOf

\* A blocked run stays what it was, and its environment was not released.
LEMMA BlocksKeeps ==
    ASSUME Inv, EndInv, NEW n \in RunStates, Blocks(st, n)
    PROVE  StepKept(n)
<1>1. /\ n.phase = "cleanup-blocked"
      /\ Target(n) = "cleanup-blocked"
      /\ st.phase \in {"cleanup-pending", "environment-pending"}
      /\ Target(st) = st.phase
      /\ n.pending = {}
      /\ SameRun(st, n)
  BY DEF Blocks, Target
<1>2. OutcomeKnown(n)
  BY <1>1 DEF OutcomeKnown
<1>3. FailuresFollowed(n)
  BY <1>1 DEF FailuresFollowed, Passed, SameRun, EndInv, EndOf
<1>4. EnvironmentLeft(n)
  BY <1>1 DEF EnvironmentLeft, StoppedInCleanup, Blocks, EndInv, EndOf
<1>5. SummaryKept(n)
  BY <1>1 DEF SummaryKept
<1>6. \A r : Timely(st, r) => Timely(n, r)
  <2>1. ~StoppedInCleanup(st)
    BY <1>1 DEF Blocks, EndInv, EndOf, EnvironmentLeft, ReleasedEnvironment
  <2>2. QED
    BY <1>1, <2>1 DEF Timely, CleanupReached, Blocks, TerminationOf, SameRun
<1>7. \A r \in n.pending : Timely(n, r)
  BY <1>1
<1>8. QED
  BY <1>2, <1>3, <1>4, <1>5, <1>6, <1>7 DEF StepKept, EndOf

\* A recorded interrupt changes nothing else.
LEMMA MarksKeeps ==
    ASSUME Inv, EndInv, NEW n \in RunStates, Marks(st, n)
    PROVE  StepKept(n)
<1>1. /\ n.phase = st.phase /\ n.lease = st.lease /\ n.pending = st.pending
      /\ n.tested = st.tested /\ n.env = st.env
      /\ n.interruption # "none"
      /\ st.phase \notin {"absent", "checkpoint-pending", "cleanup-pending",
                          "cleanup-blocked", "publication-pending", "terminal"}
      /\ Target(st) = st.phase /\ Target(n) = st.phase
  BY PhaseSets, InterruptionsAssumption DEF Marks, Target
<1>2. OutcomeKnown(n) /\ SummaryKept(n)
  BY <1>1 DEF OutcomeKnown, SummaryKept
<1>3. FailuresFollowed(n)
  BY <1>1 DEF FailuresFollowed, EndInv, EndOf
<1>4. EnvironmentLeft(n)
  BY <1>1 DEF EnvironmentLeft, StoppedInCleanup, EndInv, EndOf
<1>5. \A r : Timely(st, r) => Timely(n, r)
  BY <1>1 DEF Timely, CleanupReached
<1>6. \A r \in n.pending : Timely(n, r)
  BY <1>1, <1>5 DEF EndInv
<1>7. QED
  BY <1>2, <1>3, <1>4, <1>5, <1>6 DEF StepKept, EndOf

\* Every step keeps it.
LEMMA EndStepKeeps ==
    ASSUME Inv, EndInv, NEW n \in RunStates, EndStep(st, n)
    PROVE  StepKept(n)
BY GatesDesignKeeps, GatesCleanupKeeps, GatesPublicationKeeps, ReleasesKeeps,
   MovesKeeps, BeginsCleanupKeeps, BlocksKeeps, MarksKeeps DEF EndStep

\* The version a run was saved with says nothing of its end.
LEMMA VersionForgotten ==
    ASSUME NEW n \in RunStates
    PROVE  LET m == [n EXCEPT !.version = n.version + 1]
           IN  /\ EndOf(n) => EndOf(m)
               /\ \A r : Timely(n, r) => Timely(m, r)
               /\ m.pending = n.pending
<1> DEFINE m == [n EXCEPT !.version = n.version + 1]
<1>1. /\ m.phase = n.phase
      /\ m.lease = n.lease
      /\ m.pending = n.pending
      /\ m.interruption = n.interruption
      /\ m.status = n.status
      /\ m.env = n.env
      /\ m.tested = n.tested
      /\ m.summary = n.summary
  BY DEF RunStates
<1> HIDE DEF m
<1>2. EndOf(n) => EndOf(m)
  BY <1>1 DEF EndOf, OutcomeKnown, FailuresFollowed, EnvironmentLeft,
     SummaryKept, Target, Passed, StoppedInCleanup, TerminationOf
<1>3. \A r : Timely(n, r) => Timely(m, r)
  BY <1>1 DEF Timely, CleanupReached, StoppedInCleanup, TerminationOf
<1>4. QED
  BY <1>1, <1>2, <1>3 DEF m

\* What is known of the end stays known while the others go on.
LEMMA EndGrows ==
    ASSUME Grows, summary' = summary, NEW s, EndOf(s)
    PROVE  EndOf(s)'
<1>1. OutcomeKnown(s)' /\ SummaryKept(s)'
  BY DEF EndOf, OutcomeKnown, SummaryKept, Target, TerminationOf
<1>2. FailuresFollowed(s)'
  BY DEF EndOf, FailuresFollowed, Passed, Published, Target, Grows
<1>3. EnvironmentLeft(s)'
  BY DEF EndOf, EnvironmentLeft, StoppedInCleanup, Target, Grows
<1>4. QED
  BY <1>1, <1>2, <1>3 DEF EndOf

\* A step keeps the end known if the run and the one worker it changes do.
LEMMA EndStays ==
    ASSUME Inv, EndInv, Grows, EndOf(st)',
           \A r : Timely(st, r) => Timely(st', r),
           \A r \in raised' \union st'.pending : Timely(st', r),
           summary' = summary \/ summary = NoSummary,
           environment'.cleanup # environment.cleanup
             => \E r \in raised : r.queue \in Terminations,
           NEW w \in Workers,
           \A v \in Workers \ {w} : worker'[v] = worker[v],
           \A r \in worker'[w].out \union worker'[w].snap.pending :
             Timely(st', r),
           worker'[w].stage = "written"
             => summary' = SummaryOf(Closing(worker'[w].snap))
    PROVE  EndInv'
<1>1. ASSUME NEW v \in Workers \ {w}
      PROVE  /\ \A r \in worker'[v].out \union worker'[v].snap.pending :
                  Timely(st', r)
             /\ worker'[v].stage = "written"
                => summary' = SummaryOf(Closing(worker'[v].snap))
  <2>1. worker'[v] = worker[v]
    BY <1>1
  <2>2. \A r \in worker[v].out \union worker[v].snap.pending : Timely(st, r)
    BY <1>1 DEF EndInv
  <2>3. CASE worker[v].stage = "written"
    <3>1. summary = SummaryOf(Closing(worker[v].snap))
      BY <1>1, <2>3 DEF EndInv
    <3>2. /\ worker[v].snap \in RunStates
          /\ worker[v].snap.phase \in {"environment-pending", "cleanup-pending"}
      BY <1>1, <2>3 DEF Inv, TypeOK, Handlers, HandlerInv, Active
    <3>3. Closing(worker[v].snap).phase # "absent"
      BY <3>2, ClosingType
    <3>4. summary # NoSummary
      BY <3>1, <3>3 DEF SummaryOf, NoSummary
    <3>5. QED
      BY <2>1, <2>2, <3>1, <3>4
  <2>4. QED
    BY <2>1, <2>2, <2>3
<1>2. \A v \in Workers :
        /\ \A r \in worker'[v].out \union worker'[v].snap.pending :
             Timely(st', r)
        /\ worker'[v].stage = "written"
           => summary' = SummaryOf(Closing(worker'[v].snap))
  BY <1>1
<1>3. environment'.cleanup # "none"
      => \E r \in raised' : r.queue \in Terminations
  BY DEF EndInv, Grows
<1>4. QED
  <2> HIDE DEF EndOf, Timely
  <2>1. /\ EndOf(st)'
        /\ \A r \in raised' \union st'.pending : Timely(st, r)'
    BY DEF Timely, CleanupReached, StoppedInCleanup, TerminationOf
  <2>2. QED
    BY <1>2, <1>3, <2>1 DEF EndInv

\* A step that leaves the run and the summary alone and empties one worker.
LEMMA IdleStepEnds ==
    ASSUME Inv, EndInv, Grows, NEW w \in Workers,
           UNCHANGED <<st, summary, environment>>,
           worker' = [worker EXCEPT ![w] = Idle],
           \A r \in raised' : Timely(st, r)
    PROVE  EndInv'
<1>1. EndOf(st)'
  BY EndGrows DEF EndInv
<1>2. worker'[w] = Idle /\ \A v \in Workers \ {w} : worker'[v] = worker[v]
  BY DEF Inv, TypeOK
<1>3. /\ worker'[w].stage # "written"
      /\ worker'[w].out = {}
      /\ worker'[w].snap.pending = {}
  BY <1>2 DEF Idle, NoRun
<1>4. \A r \in raised' \union st'.pending : Timely(st', r)
  BY DEF EndInv
<1>5. QED
  BY <1>1, <1>2, <1>3, <1>4, EndStays

\* Saving a run that keeps the end known, writing the summary, or dropping or
\* repeating the event keeps it known.
LEMMA EndsKeeps ==
    ASSUME Inv, EndInv, NEW w \in Workers, Ends(w)
    PROVE  EndInv'
<1>1. CASE Fail(w)
  BY <1>1, IdleStepEnds, UnchangedGrows DEF Fail, EndInv
<1>2. CASE Repeat(w)
  <2>1. Grows
    BY <1>2 DEF Repeat, Grows
  <2>2. QED
    BY <1>2, <2>1, IdleStepEnds DEF Repeat, EndInv
<1>3. CASE Writes(w)
  <2> DEFINE s == Closing(worker[w].snap)
  <2>1. CASE Fail(w)
    BY <1>1, <2>1
  <2>2. CASE ~Fail(w)
    <3>1. /\ summary \in {NoSummary, SummaryOf(s)}
          /\ summary' = SummaryOf(s)
          /\ worker' = [worker EXCEPT ![w].stage = "written"]
          /\ UNCHANGED <<st, proof, raised, environment, receipts>>
      BY <1>3, <2>2 DEF Writes, WriteTerminalSummary
    <3>2. Grows
      BY <3>1, UnchangedGrows
    <3>3. /\ worker[w] \in Handlers
          /\ worker'[w].snap = worker[w].snap
          /\ worker'[w].out = worker[w].out
          /\ \A v \in Workers \ {w} : worker'[v] = worker[v]
      BY <3>1 DEF Inv, TypeOK, Handlers
    <3>4. summary' = summary \/ summary = NoSummary
      BY <3>1
    <3>5. EndOf(st)'
      <4>1. CASE summary' = summary
        BY <3>1, <3>2, <4>1, EndGrows DEF EndInv
      <4>2. CASE summary = NoSummary
        <5>1. Target(st) \notin {"publication-pending", "terminal"}
          BY <4>2 DEF EndInv, EndOf, OutcomeKnown, SummaryKept, NoSummary
        <5>2. SummaryKept(st)'
          BY <3>1, <5>1 DEF SummaryKept, Target
        <5>3. QED
          BY <3>1, <5>2 DEF EndInv, EndOf, OutcomeKnown, FailuresFollowed,
             EnvironmentLeft, Target, Passed, Published, StoppedInCleanup,
             TerminationOf
      <4>3. QED
        BY <3>4, <4>1, <4>2
    <3>6. \A r \in raised' \union st'.pending : Timely(st', r)
      BY <3>1 DEF EndInv
    <3>7. \A r \in worker'[w].out \union worker'[w].snap.pending :
            Timely(st', r)
      BY <3>1, <3>3 DEF EndInv
    <3>8. QED
      BY <3>1, <3>2, <3>3, <3>4, <3>5, <3>6, <3>7, EndStays
  <2>3. QED
    BY <2>1, <2>2
<1>4. ASSUME NEW n \in RunStates, n.version = st.version, StepKept(n), Save(w, n)
      PROVE  EndInv'
  <2> DEFINE m == [n EXCEPT !.version = n.version + 1]
  <2>1. /\ st' = m
        /\ worker' = [worker EXCEPT ![w] = [Idle EXCEPT !.stage = "saved",
                                                       !.out = n.pending]]
        /\ UNCHANGED <<summary, proof, raised, environment, receipts>>
    BY <1>4 DEF Save
  <2>2. Grows
    BY <2>1, UnchangedGrows
  <2>3. /\ EndOf(m)
        /\ \A r : Timely(st, r) => Timely(m, r)
        /\ \A r \in n.pending : Timely(m, r)
        /\ m.pending = n.pending
    BY <1>4, VersionForgotten DEF StepKept
  <2> HIDE DEF m
  <2>4. EndOf(st)'
    BY <2>1, <2>2, <2>3, EndGrows
  <2>5. /\ worker'[w].stage = "saved"
        /\ worker'[w].out = n.pending
        /\ worker'[w].snap.pending = {}
        /\ \A v \in Workers \ {w} : worker'[v] = worker[v]
    BY <2>1 DEF Inv, TypeOK, Idle, NoRun
  <2>6. \A r \in raised' \union st'.pending : Timely(st', r)
    BY <2>1, <2>3 DEF EndInv
  <2>7. QED
    BY <2>1, <2>2, <2>3, <2>4, <2>5, <2>6, EndStays
<1>5. CASE Proves(w) /\ ~Fail(w)
  <2>1. /\ proof \in {"none", proof'}
        /\ worker' = [worker EXCEPT ![w] = [worker[w] EXCEPT !.stage = "proved"]]
        /\ worker'[w].stage = "proved"
        /\ worker'[w].snap = worker[w].snap
        /\ worker'[w].out = worker[w].out
        /\ UNCHANGED <<st, summary, raised, environment, receipts>>
    BY <1>5, ProofKept DEF Inv
  <2>2. Grows
    BY <2>1 DEF Grows
  <2>3. EndOf(st)'
    BY <2>1, <2>2, EndGrows DEF EndInv
  <2>4. \A v \in Workers \ {w} : worker'[v] = worker[v]
    BY <2>1 DEF Inv, TypeOK
  <2>5. \A r \in raised' \union st'.pending : Timely(st', r)
    BY <2>1 DEF EndInv
  <2>6. \A r \in worker'[w].out \union worker'[w].snap.pending : Timely(st', r)
    BY <2>1 DEF EndInv
  <2>7. QED
    BY <2>1, <2>2, <2>3, <2>4, <2>5, <2>6, EndStays
<1>6. QED
  BY <1>1, <1>2, <1>3, <1>4, <1>5, EndStepKeeps DEF Ends

\* A save that loses the compare-and-swap drops its event.
LEMMA AnyHandlerEnds ==
    ASSUME Inv, EndInv, NEW w \in Workers, Handle(w)
    PROVE  Ends(w) \/ Raise(w)
<1>1. CASE Raise(w)
  BY <1>1
<1>2. CASE ~Raise(w) /\ worker[w].snap.version = st.version
  <2>1. Active(w)
    BY <1>2 DEF Handle, Redrive, HandleEnvironment, PrepareFinalization,
       HandleAnalysis, HandleBrowserReadiness, PrepareModule,
       HandleModuleTerminal, HandlePlan,
       HandleGrant, HandleExecution, HandleArtifactSummary,
       HandleDefectTerminal, HandlePublicationReceipt, HandleInterrupt,
       Handling, Active
  <2>2. worker[w].snap = st
    BY <1>2, <2>1 DEF Inv, HandlerInv
  <2>3. QED
    BY <2>1, <2>2, HandlerEnds
<1>3. CASE ~Raise(w) /\ worker[w].snap.version # st.version
  <2>1. Effect(w)
    BY <1>3, HandlerEffects DEF Inv
  <2>2. \A s : s.version = worker[w].snap.version /\ Save(w, s) => Fail(w)
    BY <1>3 DEF Save
  <2>3. QED
    BY <2>1, <2>2 DEF Effect, Ends
<1>4. QED
  BY <1>1, <1>2, <1>3

\* Delivering an event leaves the run alone, and a worker with its snapshot.
LEMMA LoadEnds ==
    ASSUME Inv, EndInv, NEW w \in Workers, NEW m, Load(w, m), Grows,
           UNCHANGED <<st, summary, raised>>,
           environment'.cleanup # environment.cleanup
             => \E r \in raised : r.queue \in Terminations
    PROVE  EndInv'
<1>1. EndOf(st)'
  BY EndGrows DEF EndInv
<1>2. /\ worker'[w].stage = "loaded"
      /\ worker'[w].out = {}
      /\ worker'[w].snap = st
      /\ \A v \in Workers \ {w} : worker'[v] = worker[v]
  BY DEF Load, Inv, TypeOK
<1>3. \A r \in raised' \union st'.pending : Timely(st', r)
  BY DEF EndInv
<1>4. \A r \in worker'[w].out \union worker'[w].snap.pending : Timely(st', r)
  BY <1>2, <1>3
<1>5. QED
  BY <1>1, <1>2, <1>3, <1>4, EndStays

\* So does every delivery; environment-factory is only asked for the end of an
\* environment by a run that gives it up.
LEMMA DeliveriesEnd ==
    ASSUME Inv, EndInv, NEW w \in Workers,
           \/ \E r \in raised : \/ DeliverAnswer(w, r)
                              \/ DeliverEnvironment(w, r)
                              \/ DeliverReceipt(w, r)
           \/ Tick(w)
           \/ \E i \in Interruptions : DeliverInterrupt(w, i)
    PROVE  EndInv'
<1>1. CASE \E r \in raised : DeliverEnvironment(w, r)
  <2>1. PICK r \in raised : DeliverEnvironment(w, r)
    BY <1>1
  <2>2. /\ UNCHANGED <<st, summary, proof, raised, receipts>>
        /\ \E o : Load(w, Event("environment", o))
    BY <2>1 DEF DeliverEnvironment
  <2>3. environment \in [start : {"none"} \union StartOutcomes,
                         cleanup : {"none"} \union CleanupOutcomes]
    BY DEF Inv, TypeOK
  <2>4. \/ /\ environment'.cleanup = environment.cleanup
           /\ environment.start \in {"none", environment'.start}
        \/ /\ environment'.start = environment.start
           /\ environment.cleanup \in {"none", environment'.cleanup}
           /\ r.queue \in Terminations
    BY <2>1, <2>3 DEF DeliverEnvironment, Terminations
  <2>5. Grows
    BY <2>2, <2>4 DEF Grows
  <2>6. QED
    BY <2>1, <2>2, <2>4, <2>5, LoadEnds
<1>2. CASE ~\E r \in raised : DeliverEnvironment(w, r)
  <2>1. /\ UNCHANGED <<st, summary, proof, raised, environment>>
        /\ \E m : Load(w, m)
        /\ receipts \subseteq receipts'
    BY <1>2 DEF DeliverAnswer, DeliverReceipt, Tick, DeliverInterrupt
  <2>2. Grows
    BY <2>1 DEF Grows
  <2>3. QED
    BY <2>1, <2>2, LoadEnds
<1>3. QED
  BY <1>1, <1>2

\* Nothing is known to have ended at the start.
LEMMA InitEndInv == Init => EndInv
<1> SUFFICES ASSUME Init PROVE EndInv
  OBVIOUS
<1>1. /\ st.phase = "absent" /\ st.tested = "none" /\ st.interruption = "none"
      /\ st.pending = {} /\ raised = {} /\ environment.cleanup = "none"
  BY DEF Init, NoRun
<1>2. EndOf(st)
  BY <1>1 DEF EndOf, OutcomeKnown, FailuresFollowed, EnvironmentLeft,
     SummaryKept, Target, StoppedInCleanup
<1>3. \A w \in Workers : /\ worker[w].out = {}
                        /\ worker[w].snap.pending = {}
                        /\ worker[w].stage # "written"
  BY DEF Init, Idle, NoRun
<1>4. QED
  BY <1>1, <1>2, <1>3 DEF EndInv

\* Every step keeps the end of the run known.
LEMMA StepEndInv == Inv /\ EndInv /\ [Next]_vars => EndInv'
<1> SUFFICES ASSUME Inv, EndInv, [Next]_vars PROVE EndInv'
  OBVIOUS
<1>1. CASE UNCHANGED vars
  BY <1>1 DEF vars, EndInv, EndOf, OutcomeKnown, FailuresFollowed,
     EnvironmentLeft, SummaryKept, Timely, Target, Passed, Published,
     StoppedInCleanup, CleanupReached, TerminationOf
<1>2. ASSUME NEW w \in Workers, Handle(w)
      PROVE  EndInv'
  <2>1. CASE Raise(w)
    <3>1. Grows
      BY <2>1 DEF Raise, Grows
    <3>2. QED
      BY <2>1, <3>1, IdleStepEnds DEF Raise, EndInv
  <2>2. QED
    BY <1>2, <2>1, AnyHandlerEnds, EndsKeeps
<1>3. ASSUME NEW w \in Workers, Crash(w)
      PROVE  EndInv'
  BY <1>3, IdleStepEnds, UnchangedGrows DEF Crash, EndInv
<1>4. QED
  BY <1>1, <1>2, <1>3, DeliveriesEnd DEF Next

\* However events are repeated, reordered, lost or cut short, what is known of
\* the end of the run stays true.
THEOREM EndInvariance == Spec => []SagaInv
<1>1. Init => Inv /\ EndInv
  BY InitInv, InitEndInv
<1>2. Inv /\ EndInv /\ [Next]_vars => (Inv /\ EndInv)'
  BY StepInv, StepEndInv
<1>3. QED
  BY <1>1, <1>2, PTL DEF Spec, SagaInv

-----------------------------------------------------------------------------
(* What follows of the end of a run.                                       *)

\* A run with failing cases gives its environment up after its defects are
\* published, and asks for the end of it in one way only.
THEOREM RunEndsOnce == Spec => []EndsOnce
<1>1. Inv /\ EndInv => DefectsBeforeCleanup
  <2> SUFFICES ASSUME Inv, EndInv, st.tested = "failed", st.interruption = "none",
                      NEW r \in raised, r.queue \in Terminations
               PROVE  Published("defect-publication")
    BY DEF DefectsBeforeCleanup, Asked, Terminations
  <2>1. CleanupReached(st)
    BY DEF EndInv, Timely
  <2>2. st.phase = "checkpoint-pending"
        => st.lease.stage = "cleanup" /\ st.lease.phase = "publication-pending"
    <3> SUFFICES ASSUME st.phase = "checkpoint-pending"
                 PROVE  /\ st.lease.stage = "cleanup"
                        /\ st.lease.phase = "publication-pending"
      OBVIOUS
    <3>1. <<st.lease.stage, st.lease.phase, st.lease.actions>> \in Follows
      BY DEF Inv, RunInv, LeaseFits
    <3>2. QED
      BY <2>1, <3>1, FollowsPhases DEF CleanupReached
  <2>3. QED
    BY <2>1, <2>2 DEF CleanupReached, EndInv, EndOf, FailuresFollowed, Passed,
       Target
<1>2. Inv /\ EndInv => OneTermination
  BY DEF EndInv, Timely, OneTermination, Asked, Terminations, TerminationOf,
     StoppedInCleanup, LeaseLeftBehind, NoLease
<1>3. QED
  BY <1>1, <1>2, EndInvariance, PTL DEF SagaInv, EndsOnce

\* The summary that was published is the one the terminal record carries.
THEOREM SummaryIsKept == Spec => []TerminalMatchesSummary
<1>1. EndInv => TerminalMatchesSummary
  BY DEF EndInv, EndOf, SummaryKept, Target, TerminalMatchesSummary
<1>2. QED
  BY <1>1, EndInvariance, PTL DEF SagaInv

\* A recorded interruption is the outcome of the run.
THEOREM InterruptionIsDecisive == Spec => []InterruptionDecides
<1>1. EndInv => InterruptionDecides
  BY DEF EndInv, EndOf, OutcomeKnown, Target, InterruptionDecides
<1>2. QED
  BY <1>1, EndInvariance, PTL DEF SagaInv

\* The run changes only when a handler that holds it saves one of the steps.
LEMMA RunSteps ==
    ASSUME Inv, EndInv, Next, st' # st
    PROVE  /\ UNCHANGED <<summary, environment>>
           /\ \E n \in RunStates :
                /\ EndStep(st, n)
                /\ st' = [n EXCEPT !.version = n.version + 1]
<1>1. PICK w \in Workers : Handle(w)
  BY DEF Next, DeliverAnswer, DeliverEnvironment, DeliverReceipt, Tick,
     DeliverInterrupt, Crash
<1>2. Ends(w)
  BY <1>1, AnyHandlerEnds DEF Raise
<1>3. ~Fail(w) /\ ~Repeat(w) /\ ~Writes(w) /\ ~Proves(w)
  BY DEF Fail, Repeat, Writes, WriteTerminalSummary, Proves, WriteReadiness
<1>4. PICK n \in RunStates : EndStep(st, n) /\ Save(w, n)
  BY <1>2, <1>3 DEF Ends
<1>5. QED
  BY <1>3, <1>4 DEF Save

\* The saved run but for its version.
LEMMA SavedFields ==
    ASSUME NEW n \in RunStates
    PROVE  LET m == [n EXCEPT !.version = n.version + 1]
           IN  /\ m.phase = n.phase
               /\ m.lease = n.lease
               /\ m.status = n.status
               /\ m.interruption = n.interruption
BY DEF RunStates

\* A settled run never changes again.
THEOREM SettledIsFinal == Spec => SettledForGood
<1>1. Inv /\ EndInv /\ [Next]_vars => [~Settled]_st
  <2> SUFFICES ASSUME Inv, EndInv, Next, st' # st PROVE ~Settled
    BY DEF vars
  <2>1. PICK n \in RunStates : EndStep(st, n)
    BY RunSteps
  <2>2. QED
    BY <2>1, PhaseSets DEF Settled, EndStep, GatesDesign, GatesDefects,
       GatesCleanup, GatesPublication, Checkpoints, Precedes, Releases, Moves,
       BeginsCleanup, Blocks, Marks
<1>2. QED
  BY <1>1, EndInvariance, PTL DEF SagaInv, Spec, SettledForGood

\* An interruption that was recorded stays recorded, whichever handler saves.
THEOREM InterruptionIsKept == Spec => InterruptionKept
<1>1. Inv /\ EndInv /\ [Next]_vars
      => [st.interruption # "none" => st'.interruption # "none"]_st
  <2> SUFFICES ASSUME Inv, EndInv, Next, st' # st, st.interruption # "none"
               PROVE  st'.interruption # "none"
    BY DEF vars
  <2>1. PICK n \in RunStates :
          EndStep(st, n) /\ st' = [n EXCEPT !.version = n.version + 1]
    BY RunSteps
  <2>2. n.interruption # "none"
    BY <2>1, InterruptionsAssumption DEF EndStep, GatesDesign, GatesDefects,
       GatesCleanup, GatesPublication, SameRun, Releases, Moves, BeginsCleanup,
       Blocks, Marks
  <2>3. QED
    BY <2>1, <2>2, SavedFields
<1>2. QED
  BY <1>1, EndInvariance, PTL DEF SagaInv, Spec, InterruptionKept

\* The phases in order.
LEMMA RankValues ==
    /\ PhaseRank("absent") = 0
    /\ PhaseRank("environment-pending") = 2
    /\ PhaseRank("analysis-pending") = 4
    /\ PhaseRank("browser-readiness-pending") = 6
    /\ PhaseRank("module-pending") = 8
    /\ PhaseRank("structured-plan-pending") = 10
    /\ PhaseRank("execution-grant-pending") = 12
    /\ PhaseRank("structured-execution-pending") = 14
    /\ PhaseRank("browser-control-pending") = 14
    /\ PhaseRank("artifact-summary-pending") = 16
    /\ PhaseRank("defects-pending") = 18
    /\ PhaseRank("cleanup-pending") = 20
    /\ PhaseRank("cleanup-blocked") = 22
    /\ PhaseRank("publication-pending") = 22
    /\ PhaseRank("terminal") = 24
BY DEF PhaseRank

\* A checkpoint stands between its phase and the next, or further on.
LEMMA CheckpointRank ==
    ASSUME NEW s, NEW n, Checkpoints(s, n)
    PROVE  RunRank(s) <= RunRank(n)
<1>1. n.phase = "checkpoint-pending" /\ RunRank(n) = PhaseRank(n.lease.phase) - 1
  BY DEF Checkpoints, RunRank
<1>2. s.phase # "checkpoint-pending" /\ RunRank(s) = PhaseRank(s.phase)
  BY DEF Checkpoints, Precedes, RunRank
<1>3. \/ s.phase = "absent" /\ n.lease.phase = "environment-pending"
      \/ s.phase = "environment-pending" /\ n.lease.phase = "analysis-pending"
      \/ s.phase = "analysis-pending" /\ n.lease.phase = "browser-readiness-pending"
      \/ s.phase = "browser-readiness-pending" /\ n.lease.phase = "module-pending"
      \/ s.phase = "module-pending" /\ n.lease.phase = "structured-plan-pending"
      \/ s.phase = "artifact-summary-pending"
         /\ n.lease.phase \in {"defects-pending", "cleanup-pending"}
      \/ s.phase = "defects-pending" /\ n.lease.phase = "cleanup-pending"
      \/ s.phase \in {"environment-pending", "cleanup-pending"}
         /\ n.lease.phase = "publication-pending"
  BY DEF Checkpoints, Precedes, Follows
<1>4. QED
  BY <1>1, <1>2, <1>3, RankValues

\* No step goes back but the one that takes the cleanup checkpoint from a run
\* that is interrupted while a checkpoint is in flight.
LEMMA StepsForward ==
    ASSUME Inv, EndInv, NEW n \in RunStates, EndStep(st, n)
    PROVE  \/ RunRank(st) <= RunRank(n)
           \/ n.phase = "cleanup-pending" /\ n.lease # NoLease
<1>1. CASE GatesDesign(st, n) \/ GatesDefects(st, n) \/ GatesCleanup(st, n)
           \/ GatesPublication(st, n)
  BY <1>1, CheckpointRank
     DEF GatesDesign, GatesDefects, GatesCleanup, GatesPublication
<1>2. CASE Releases(st, n)
  <2>1. <<st.lease.stage, st.lease.phase, st.lease.actions>> \in Follows
    BY <1>2 DEF Releases, Inv, RunInv, LeaseFits
  <2>2. n.phase \in {"environment-pending", "analysis-pending",
                     "browser-readiness-pending", "module-pending",
                     "structured-plan-pending", "defects-pending",
                     "cleanup-pending", "publication-pending"}
    BY <1>2, <2>1 DEF Releases, Follows
  <2>3. RunRank(n) = PhaseRank(n.phase) /\ RunRank(st) = PhaseRank(n.phase) - 1
    BY <1>2, <2>2 DEF Releases, RunRank
  <2>4. QED
    BY <2>2, <2>3, RankValues
<1>3. CASE Moves(st, n)
  <2>1. RunRank(n) = PhaseRank(n.phase) /\ RunRank(st) = PhaseRank(st.phase)
    BY <1>3 DEF Moves, RunRank
  <2>2. QED
    BY <1>3, <2>1, RankValues DEF Moves
<1>4. CASE BeginsCleanup(st, n)
  <2>1. CASE st.phase = "checkpoint-pending"
    BY <1>4, <2>1 DEF BeginsCleanup, Inv, RunInv, LeaseFits
  <2>2. CASE st.phase # "checkpoint-pending"
    <3>1. RunRank(n) = PhaseRank("cleanup-pending")
          /\ RunRank(st) = PhaseRank(st.phase)
      BY <1>4, <2>2 DEF BeginsCleanup, RunRank
    <3>2. st.phase \in {"environment-pending", "analysis-pending",
                        "browser-readiness-pending", "module-pending",
                        "structured-plan-pending", "execution-grant-pending",
                        "structured-execution-pending",
                        "browser-control-pending", "artifact-summary-pending",
                        "defects-pending"}
      BY <1>4, <2>2 DEF BeginsCleanup, BeforeDefects, BeforeBatch,
         BeforeClosure, BeforeReadiness, BeforeDesign, BeforeEnvironment,
         AfterClosure
    <3>3. QED
      BY <3>1, <3>2, RankValues
  <2>3. QED
    BY <2>1, <2>2
<1>5. CASE Blocks(st, n)
  <2>1. RunRank(n) = PhaseRank(n.phase) /\ RunRank(st) = PhaseRank(st.phase)
    BY <1>5 DEF Blocks, RunRank
  <2>2. QED
    BY <1>5, <2>1, RankValues DEF Blocks
<1>6. CASE Marks(st, n)
  <2>1. RunRank(n) = PhaseRank(st.phase) /\ RunRank(st) = PhaseRank(st.phase)
    BY <1>6, PhaseSets DEF Marks, RunRank
  <2>2. QED
    BY <1>6, <2>1, RankValues DEF Marks, Recording
<1>7. QED
  BY <1>1, <1>2, <1>3, <1>4, <1>5, <1>6 DEF EndStep

\* A late, repeated or reordered event never takes the run back to an earlier
\* phase, but for an interrupt that hits the cleanup checkpoint.
THEOREM RunGoesForward == Spec => ForwardOnly
<1>1. Inv /\ EndInv /\ [Next]_vars
      => [RunRank(st) <= RunRank(st') \/ LeaseLeftBehind']_st
  <2> SUFFICES ASSUME Inv, EndInv, Next, st' # st
               PROVE  RunRank(st) <= RunRank(st') \/ LeaseLeftBehind'
    BY DEF vars
  <2>1. PICK n \in RunStates :
          EndStep(st, n) /\ st' = [n EXCEPT !.version = n.version + 1]
    BY RunSteps
  <2>2. st'.phase = n.phase /\ st'.lease = n.lease
    BY <2>1, SavedFields
  <2>3. RunRank(st') = RunRank(n)
    BY <2>2 DEF RunRank
  <2>4. QED
    BY <2>1, <2>2, <2>3, StepsForward DEF LeaseLeftBehind
<1>2. QED
  BY <1>1, EndInvariance, PTL DEF SagaInv, Spec, ForwardOnly

-----------------------------------------------------------------------------
(* The saga implements the lifecycle it promises.                          *)

\* How far the phase says the run has come.
LEMMA StageValues ==
    ASSUME NEW s
    PROVE  /\ s.phase = "absent" => LifecycleStage(s) = "absent"
           /\ s.phase = "terminal" => LifecycleStage(s) = "done"
           /\ s.phase = "cleanup-blocked" => LifecycleStage(s) = "blocked"
           /\ s.phase = "publication-pending" => LifecycleStage(s) = "reporting"
           /\ s.phase = "cleanup-pending" => LifecycleStage(s) = "releasing"
           /\ s.phase = "checkpoint-pending" /\ s.lease.stage = "cleanup"
              => LifecycleStage(s) = "releasing"
           /\ s.phase = "checkpoint-pending" /\ s.lease.stage # "cleanup"
              => LifecycleStage(s) = "running"
           /\ s.phase \notin {"absent", "terminal", "cleanup-blocked",
                              "publication-pending", "cleanup-pending",
                              "checkpoint-pending"}
              => LifecycleStage(s) = "running"
BY DEF LifecycleStage

\* The outcome the run reports.
Reported(s) ==
    IF LifecycleStage(s) \in {"reporting", "done"} THEN s.status ELSE "none"

\* One step of the lifecycle, or none, that leaves the environment alone.
Passes(s, n) ==
    \/ LifecycleStage(n) = LifecycleStage(s) /\ Reported(n) = Reported(s)
    \/ /\ LifecycleStage(s) = "absent" /\ LifecycleStage(n) = "running"
       /\ Reported(n) = Reported(s)
    \/ /\ LifecycleStage(s) = "running" /\ LifecycleStage(n) = "releasing"
       /\ Reported(n) = Reported(s)
    \/ /\ LifecycleStage(s) = "releasing" /\ LifecycleStage(n) = "reporting"
       /\ ReleasedEnvironment
       /\ Reported(n) \in Statuses \ {"none"}
    \/ /\ LifecycleStage(s) = "reporting" /\ LifecycleStage(n) = "done"
       /\ Reported(n) = Reported(s)
    \/ /\ LifecycleStage(s) \in {"running", "releasing"}
       /\ LifecycleStage(n) = "blocked"
       /\ ~ReleasedEnvironment
       /\ Reported(n) = Reported(s)

\* What a handler saves is one step of the lifecycle.
LEMMA EndStepPasses ==
    ASSUME Inv, EndInv, NEW n \in RunStates, EndStep(st, n)
    PROVE  Passes(st, n)
<1>1. CASE GatesDesign(st, n) \/ GatesDefects(st, n) \/ GatesCleanup(st, n)
           \/ GatesPublication(st, n)
  <2>1. /\ n.phase = "checkpoint-pending"
        /\ st.lease.stage # "cleanup"
        /\ <<st.phase, n.lease.stage>> \in Precedes
    BY <1>1, PhaseSets DEF GatesDesign, GatesDefects, GatesCleanup,
       GatesPublication, Checkpoints
  <2>2. CASE st.phase = "absent"
    BY <2>1, <2>2, StageValues DEF Precedes, Passes, Reported
  <2>3. CASE st.phase # "absent"
    <3>1. LifecycleStage(st) = IF st.phase = "cleanup-pending"
                               THEN "releasing" ELSE "running"
      BY <2>1, <2>3, StageValues DEF Precedes
    <3>2. LifecycleStage(n) = IF n.lease.stage = "cleanup"
                              THEN "releasing" ELSE "running"
      BY <2>1, StageValues
    <3>3. QED
      BY <2>1, <3>1, <3>2 DEF Precedes, Passes, Reported
  <2>4. QED
    BY <2>2, <2>3
<1>2. CASE Releases(st, n)
  <2>1. <<st.lease.stage, st.lease.phase, st.lease.actions>> \in Follows
    BY <1>2 DEF Releases, Inv, RunInv, LeaseFits
  <2>2. /\ st.phase = "checkpoint-pending"
        /\ n.phase = st.lease.phase
        /\ n.status = st.status
    BY <1>2 DEF Releases
  <2>3. CASE st.lease.stage = "cleanup"
    <3>1. n.phase = "publication-pending"
      BY <2>1, <2>2, <2>3, FollowsPhases
    <3>2. ReleasedEnvironment /\ st.status # "none"
      BY <2>2, <3>1 DEF Inv, RunInv, EnvironmentKnown, EndInv, EndOf,
         OutcomeKnown, Target
    <3>3. n.status \in Statuses
      BY DEF RunStates
    <3>4. QED
      BY <2>2, <2>3, <3>1, <3>2, <3>3, StageValues DEF Passes, Reported
  <2>4. CASE st.lease.stage # "cleanup"
    <3>1. n.phase \in AfterIntake \union {"defects-pending", "cleanup-pending"}
      BY <2>1, <2>2, <2>4, FollowsPhases
    <3>2. LifecycleStage(n) \in {"running", "releasing"}
      BY <3>1, PhaseSets, StageValues
    <3>3. LifecycleStage(st) = "running"
      BY <2>2, <2>4, StageValues
    <3>4. QED
      BY <3>2, <3>3 DEF Passes, Reported
  <2>5. QED
    BY <2>3, <2>4
<1>3. CASE Moves(st, n)
  BY <1>3, StageValues DEF Moves, Passes, Reported
<1>4. CASE BeginsCleanup(st, n)
  <2>1. LifecycleStage(n) = "releasing"
    BY <1>4, StageValues DEF BeginsCleanup
  <2>2. LifecycleStage(st) \in {"running", "releasing"}
    BY <1>4, PhaseSets, StageValues DEF BeginsCleanup
  <2>3. QED
    BY <2>1, <2>2 DEF Passes, Reported
<1>5. CASE Blocks(st, n)
  BY <1>5, StageValues DEF Blocks, Passes, Reported
<1>6. CASE Marks(st, n)
  <2>1. LifecycleStage(st) = "running" /\ LifecycleStage(n) = "running"
    BY <1>6, PhaseSets, StageValues DEF Marks
  <2>2. QED
    BY <2>1 DEF Passes, Reported
<1>7. QED
  BY <1>1, <1>2, <1>3, <1>4, <1>5, <1>6 DEF EndStep

\* The environment is only released while the run executes or gives it up.
LEMMA ReleasedInTime ==
    ASSUME Inv, EndInv, NEW w \in Workers, NEW r \in raised,
           DeliverEnvironment(w, r)
    PROVE  \/ ReleasedEnvironment' = ReleasedEnvironment
           \/ /\ LifecycleStage(st) \in {"running", "releasing"}
              /\ ReleasedEnvironment'
<1>1. environment \in [start : {"none"} \union StartOutcomes,
                       cleanup : {"none"} \union CleanupOutcomes]
  BY DEF Inv, TypeOK
<1>2. CASE ReleasedEnvironment
  <2>1. ReleasedEnvironment'
    BY <1>1, <1>2 DEF DeliverEnvironment, ReleasedEnvironment
  <2>2. QED
    BY <1>2, <2>1 DEF ReleasedEnvironment
<1>3. CASE ~ReleasedEnvironment /\ ~ReleasedEnvironment'
  BY <1>3 DEF ReleasedEnvironment
<1>4. CASE ~ReleasedEnvironment /\ ReleasedEnvironment'
  <2>1. st.phase \notin {"absent", "publication-pending", "terminal"}
    BY <1>4 DEF Inv, RunInv, EnvironmentKnown, Target, EndInv, Timely
  <2>2. st.phase # "cleanup-blocked"
    <3> SUFFICES ASSUME st.phase = "cleanup-blocked" PROVE FALSE
      OBVIOUS
    <3>1. /\ st.env = "ready" => /\ environment.cleanup = "incomplete"
                                /\ environment.start = "ready"
          /\ st.env # "ready" => environment.start = "blocked-incomplete"
      BY DEF EndInv, EndOf, EnvironmentLeft, Inv, RunInv, EnvironmentKnown
    <3>2. r.queue \in Terminations => st.env = "ready"
      BY DEF EndInv, Timely
    <3>3. QED
      BY <1>1, <1>4, <3>1, <3>2 DEF DeliverEnvironment, ReleasedEnvironment,
         Terminations
  <2>3. LifecycleStage(st) \in {"running", "releasing"}
    BY <2>1, <2>2, StageValues
  <2>4. QED
    BY <1>4, <2>3
<1>5. QED
  BY <1>2, <1>3, <1>4

\* Whatever is repeated, reordered or lost, the saga is a lifecycle.
THEOREM SagaIsLifecycle == Spec => LifecycleSpec
<1>1. Init => Lifecycle!Init
  <2> SUFFICES ASSUME Init PROVE Lifecycle!Init
    OBVIOUS
  <2>1. st.phase = "absent" /\ ~ReleasedEnvironment
    BY DEF Init, NoRun, ReleasedEnvironment
  <2>2. LifecycleStage(st) = "absent"
    BY <2>1, StageValues
  <2>3. QED
    BY <2>1, <2>2 DEF Lifecycle!Init
<1>2. Inv /\ EndInv /\ [Next]_vars => [Lifecycle!Next]_(Lifecycle!vars)
  <2> SUFFICES ASSUME Inv, EndInv, [Next]_vars
               PROVE  [Lifecycle!Next]_(Lifecycle!vars)
    OBVIOUS
  <2>1. CASE st' # st
    <3>1. UNCHANGED <<summary, environment>>
      BY <2>1, RunSteps DEF vars
    <3>2. PICK n \in RunStates :
            EndStep(st, n) /\ st' = [n EXCEPT !.version = n.version + 1]
      BY <2>1, RunSteps DEF vars
    <3>3. st'.phase = n.phase /\ st'.lease = n.lease /\ st'.status = n.status
      BY <3>2, SavedFields
    <3>4. LifecycleStage(st') = LifecycleStage(n) /\ Reported(st') = Reported(n)
      BY <3>3 DEF LifecycleStage, Reported
    <3>5. Passes(st, st')
      BY <3>2, <3>4, EndStepPasses DEF Passes
    <3>6. ReleasedEnvironment' = ReleasedEnvironment
      BY <3>1 DEF ReleasedEnvironment
    <3>7. QED
      BY <3>5, <3>6 DEF Passes, Reported, Lifecycle!Next, Lifecycle!vars,
         Lifecycle!Begin, Lifecycle!AskRelease, Lifecycle!Report,
         Lifecycle!Finish, Lifecycle!Block
  <2>2. CASE st' = st
    <3>1. \/ ReleasedEnvironment' = ReleasedEnvironment
          \/ /\ LifecycleStage(st) \in {"running", "releasing"}
             /\ ReleasedEnvironment'
      <4>1. CASE \E w \in Workers, r \in raised : DeliverEnvironment(w, r)
        BY <4>1, ReleasedInTime
      <4>2. CASE ~\E w \in Workers, r \in raised : DeliverEnvironment(w, r)
        <5>1. ASSUME NEW w \in Workers, Handle(w)
              PROVE  environment' = environment
          BY <5>1, AnyHandlerEnds DEF Ends, Fail, Repeat, Save, Writes,
             WriteTerminalSummary, Proves, WriteReadiness, Raise
        <5>2. environment' = environment
          BY <4>2, <5>1 DEF vars, Next, DeliverAnswer, DeliverReceipt, Tick,
             DeliverInterrupt, Crash
        <5>3. QED
          BY <5>2 DEF ReleasedEnvironment
      <4>3. QED
        BY <4>1, <4>2
    <3>2. LifecycleStage(st)' = LifecycleStage(st) /\ (st.status)' = st.status
      BY <2>2 DEF LifecycleStage
    <3>3. QED
      BY <3>1, <3>2 DEF Lifecycle!Next, Lifecycle!vars, Lifecycle!Release
  <2>3. QED
    BY <2>1, <2>2
<1>3. QED
  BY <1>1, <1>2, EndInvariance, PTL DEF SagaInv, Spec, LifecycleSpec, Lifecycle!Spec
=============================================================================
