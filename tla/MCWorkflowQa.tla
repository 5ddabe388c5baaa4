---------------------------- MODULE MCWorkflowQa ----------------------------
(***************************************************************************)
(* Instances of the saga of WorkflowQa for TLC, and the statements of the  *)
(* repository about its progress that the code does not keep.              *)
(***************************************************************************)
EXTENDS WorkflowQaProperties

\* A run settles, and what it has decided to ask is asked.
Progress == EventuallySettled /\ PendingRaised

\* contracts/workflow-qa.v2.md:45 says every path finalizes through Environment
\* Factory and completes with a cleanup and an aggregate receipt.  An interrupt
\* that arrives while a checkpoint is in flight leaves the lease behind
\* (core.lua handle_interrupt), and the cleanup checkpoint can never be taken.
CleanupCompletes == (st.phase = "cleanup-pending") ~> Settled

\* contracts/workflow-qa.v2.md:43 says an interrupt requests cleanup.  Before the
\* environment is ready the handler fails instead (core.lua cleanup_action), the
\* event is dropped, and the run goes on as if nothing had been asked.
InterruptHonoured ==
    (\E w \in Workers : /\ Handling(w, "interrupt")
                       /\ worker[w].snap.phase \notin Ended \union {"absent"})
    ~> (st.interruption # "none")
=============================================================================
