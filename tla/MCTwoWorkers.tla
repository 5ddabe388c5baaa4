---------------------------- MODULE MCTwoWorkers ----------------------------
(***************************************************************************)
(* Two handlers at once, for TLC: of the checkpoint ledger, or of the saga *)
(* over a plan that is executed.  The initial state picks one, and only    *)
(* that one takes steps.                                                   *)
(***************************************************************************)
EXTENDS QaPublication, TLC

CONSTANTS Interruptions, MaxInterrupts

\* As WorkflowQa assumes of them.
ASSUME SagaAssumption ==
    /\ MaxInterrupts \in Nat
    /\ Interruptions \subseteq {"cancelled", "interrupted", "timed-out"}

VARIABLES
    which,
    st, summary, proof, raised, environment, answered, handler, interrupts, stops

sagaVars == <<st, summary, proof, raised, environment, answered, handler, interrupts, stops>>
allVars == <<which, vars, sagaVars>>

\* A checkpoint and the aggregate report of a later stage.
TwoStages == <<1, 2>>

\* The answers of a plan that passes or fails.
Answer(type, outcome) == [type |-> type, outcome |-> outcome, attempt |-> 0]
StructuredAnswers ==
    {Answer("analysis", "complete"), Answer("readiness", "proof"),
     Answer("module", "passed"), Answer("plan", "structured"),
     Answer("grant", "granted"), Answer("execution", "structured"),
     Answer("summary", "passed"), Answer("summary", "failed"),
     Answer("defects", "published")}

S == INSTANCE WorkflowQaProperties WITH
        Answers <- StructuredAnswers, MaxCrashes <- 0,
        receipts <- answered, worker <- handler, crashes <- stops

InitOne ==
    /\ which \in {"ledger", "saga"} /\ Init /\ S!Init
    /\ which = "ledger" \/ channel = "github"
NextOne ==
    /\ UNCHANGED which
    /\ \/ which = "ledger" /\ UNCHANGED sagaVars /\ Next
       \/ which = "saga" /\ UNCHANGED vars /\ S!Next
SpecOfOne == InitOne /\ [][NextOne]_allVars

\* Workers and contents are interchangeable.
Interchangeable == Permutations(Workers) \union Permutations(Digests)
-----------------------------------------------------------------------------
\* WorkflowQa: what the run ends with is what it was summarised with, and an
\* interruption that was recorded decides it.
TerminalDecided == S!InterruptionDecides /\ S!TerminalMatchesSummary

\* WorkflowQa: the phases of a run go forward only.
ForwardOnly == S!ForwardOnly

\* WorkflowQa: an interruption that was recorded is not lost to a handler that
\* loaded the run before it; only another interrupt may give its own kind.
InterruptionKept == S!InterruptionKept
=============================================================================
