# Verification of the QA workflow packages

This directory keeps TLA+ models of the durable QA workflow of this repository
and of the runtimes below it beside their code: TLC configurations that check
them on small instances, and theorems that TLAPS proves for every value of the
constants.

The program is a set of FKST packages (Lua departments that consume events and
raise events) and of host runtimes (JavaScript and Python processes that the
packages call through ports). It tests a product: it provisions an environment,
designs tests, has an execution authorized, runs it, publishes what it found and
cleans up. The difficult part is not any of these, but that all of them are
driven by events that are repeated, reordered and lost, that the processes stop
anywhere, and that an interruption may arrive at any time.

## Inventory

### How the parts interact

A *department* handles one event at a time: it loads a durable record, computes,
writes artifacts and records through ports, and returns the events to raise.
Events between packages are delivered at least once and in any order; every
department declares `retry = false`, so the event of a handler that raises an
error is gone. What keeps a run going is the *redrive*: a cron raiser ticks every
five minutes and the seam department of a package repeats the requests that are
pending for its runs. Two departments, or two instances of one, may handle events
of the same run at the same time; the compare-and-swap of the durable store
decides which of them saves.

The records live in files. `examples/generic-host/bin/durable-host-store.js` is
started as a process for each operation and serializes the operations on a
record by a lock made of hard links.

The ports of environment-factory and of the structured executor are runtimes: a
process for each effect, which keeps files of its own (locks, claims, records of
effects, directories) and starts further processes. What an effect has done and
what its department knows of it are two things: the department learns it when
the answer is saved, and a stop in between leaves an effect nobody has on
record. Every one of these runtimes therefore records an intention first, acts,
and records the result, and is asked again with the same request; what the models
of the runtimes check is that this works at every point where a process can stop.

### Components

| component | state | operations | what is hard | what makes it correct |
|---|---|---|---|---|
| workflow-qa (saga) | one versioned record for each run: phase, pending requests, checkpoint lease, attempts, outcome; an immutable terminal summary | one handler for each answer of another package, for interrupts, receipts and ticks | concurrent handlers, late and repeated answers, interrupts in every phase, a crash between writing an artifact, saving and raising | nothing is executed without authorization; a run reports once, after its environment is released and its audit is published; it ends |
| test-publication: ledger | a ledger for each run: checkpoint entries, latest rank, receipts, final report | prepare a checkpoint, prepare the report, acknowledge a comment | effects and receipts written before the ledger is saved, lost receipts | no checkpoint goes back; a replay changes nothing; a receipt always reaches the saga |
| test-publication: defects | a ledger for each run: defects, requests, acknowledgements, receipt | prepare, acknowledge an issue | acknowledgements in any order and at once | every defect is acknowledged once; the terminal event follows the receipt |
| environment-factory (package) | one versioned record for each operation: status, resources, what was cleaned, checkpoints, result; immutable receipts | start, browser readiness, finalize, interrupt, and recovery in each of them | handlers that overlap on copies of the record, partial provisioning, cleanup that fails, the deadline | what is said to be cleaned is gone; what is said to be ready is up; every event is answered |
| environment-factory: effects | a lock, a marker and a record for each effect, a helper process that holds a system lock | withEffect: lock, look up, produce, record, release | taking over the lock of a dead process while others try the same, a helper that is killed | one process at a time produces an effect; an answer is what is on record |
| environment-factory: ports | a lock of the host, an owner file for each port, the approval, the record | claim, release | a stop between two owner files, other operations | a recorded claim owns all its ports; nobody's port is freed by another |
| environment-factory: workspace | reservation, directory with a marker, record | checkout, removal, sweep | a half-made directory after a stop | a checkout that passed is whole; no directory is nameless |
| environment-factory: supervised process | startup claim with a lock, worker home, record, a supervisor and its target | start, recover, registration deadline, cleanup | launcher and supervisor stop independently, a late supervisor | the target is started once at most; cleaned means stopped |
| environment-factory: worker homes | a ledger of slots, directories, the state file of a removal, the quarantine of the broker | reserve, lease, remove, cleanup | a removal in two processes that both keep a proof | no home is forgotten or called released too early |
| environment-factory: budgets | a usage record under a lock | ask for a request, add processor time | read, run, write: lost updates and stops between | no more is used than was approved |
| testing-runner: structured execution | claim of the grant, authorization of each case, evidence, result files | claim, authorize, consume, run, write, complete | overlapping deliveries, a crash between the effect and its record, files left by another grant | a case runs at most once under a grant; answers do not contradict each other |
| generic host: durable store | a file for each record, two lock files and two reclaim fences for each | compare-and-swap, immutable write, claim, list | stale locks, fences, PIDs given out again, a process killed between any two system calls | mutual exclusion, no lost update, every process gets through |
| generic host: authorization lineage | records and a chain of immutable receipts, each in a store and in a file | six authorization operations, asked for in order | every writer rewrites the chain; calls overlap, repeat and stop | the chain a reader finds is true and whole, and came before what it authorizes |
| generic host: workflow runtime | the index of the runs, ports over the store | index, list the pending, redrive, tick one run | runs that never settle hide later ones; one run that is refused fails the tick of all; lost requests | a pending run the list reaches is redriven until it moves |
| generic host: worker-home ledger | records of leases | lease, release | like the homes of environment-factory | no home is forgotten |
| module-testing-pipeline | record for each AI-designed run: generation, review rounds, approval, execution | handlers for each answer | review rounds with a limit, replays | nothing is executed that was not approved; rounds end |
| testing-runner: browser control | session, turn ledger, budget | turn loop | a turn whose answer is lost | the budget is kept, a turn is not repeated |
| module-test-loop, platform-test-loop | claims and heartbeats of runs | start, heartbeat, finish | two loops claim one module | one loop for each module |
| testing_package_executor | claim, result | execute | crash after the effect | result recorded once |
| browser-readiness, testing-design, test-artifacts, testing-discovery, browser-observation, online-regression, local-qa-host-adapter | none, or an artifact for each request | one answer to each request | an answer that differs from an earlier one | the saga copes: its answers are unconstrained there |
| libraries contract, workflow, testing_ai, testkit; scripts, schemas, migration, vendored code | none | validation, rendering, release tooling | - | - |

PROJECT.json lists each of them with its sources and says whether it is
modelled, and its `hazards` say at which line each difficulty bites and which
property covers it.

## Modules

| module | models |
|---|---|
| WorkflowQa | the saga: `packages/workflow-qa/core.lua`, `checkpoints.lua`, `cleanup_state.lua`, the departments |
| WorkflowQaProperties | what must hold of it, and the inductive invariant |
| QaLifecycle | what the saga promises the Host, stated without its mechanism |
| QaPublication | the checkpoint ledger of a run: `packages/test-publication/qa_publication.lua` and its three departments |
| CheckpointJournal | what test-publication promises of checkpoints and receipts |
| DefectPublication | the defects of a run: `packages/test-publication/defect_publication.lua` and its three departments |
| DefectReport | what test-publication promises of defects |
| EnvironmentOperation | start, handle_browser_readiness and terminate of `packages/environment-factory/core.lua`, composed over the three modules that follow |
| PortClaims | `environment-factory/bin/runtime/listener-claims.js` and the cleanup of ports |
| WorkspaceCheckout | checkout of `environment-factory-runtime.js` and `runtime/workspace-reservation.js` |
| SupervisedProcess | runArgvEffect and cleanup around `runtime/supervised-process.js` |
| EffectLedger | withEffect and the lock of `runtime/common.js` with `runtime/lock-holder.js` |
| WorkerHomes | `worker-home-resource.js`, removeOwnedDirectory of `runtime/common.js` and `object-bound-cleanup-broker.py` |
| ResourceBudgets | `runtime/budgets.js` |
| StructuredExecution | `packages/testing-runner/structured_execution.lua` over `libraries/testing_runtime/bin/fkst-structured-execution-runtime.js` |
| AuthorizationLineage | the authorization operations of `examples/generic-host/bin/generic-host-runtime.js` |
| DurableLock | the file lock and the compare-and-swap of `durable-host-store.js` |
| RunRedrive | what keeps the runs of a host going: redrive of `core.lua`, the pending lists of the generic host, its supervisor |
| MCWorkflowQa, MCQaPublication, MCDefectPublication, MCEnvironment, MCExecution | instances of one module for TLC; MCWorkflowQa and MCDefectPublication also state what the repository says and the code does not keep |
| MCTwoWorkers | two handlers at once, of the saga or of the ledger |
| MCHostLocks | DurableLock, twice, and EffectLedger with three processes |
| MCRuntimeParts | PortClaims, WorkspaceCheckout, SupervisedProcess, WorkerHomes, EffectLedger, DurableLock, ResourceBudgets, AuthorizationLineage, RunRedrive, one at a time |
| WorkflowQaProofs | the theorems about the saga: what a run is authorized to do, how it ends, the refinement of QaLifecycle |
| QaPublicationProofs | the theorems about the checkpoint ledger, and about MCTwoWorkers, which composes ledger and saga |
| DefectPublicationProofs, DurableLockProofs | the theorems about the module each is named after |
| OperationPartsProofs | the theorems about PortClaims, WorkspaceCheckout and SupervisedProcess |
| EnvironmentProofs | the theorems about EnvironmentOperation, which rest on the invariants of OperationPartsProofs |
| RuntimePartsProofs | the theorems about AuthorizationLineage, ResourceBudgets and WorkerHomes, and about MCRuntimeParts, which takes them and the others one at a time |
| ExclusionProofs | the theorems about MCHostLocks (EffectLedger, and what DurableLockProofs shows, for both its locks of the store) and about StructuredExecution |

The three MC modules that hold several parts have a variable (`which`, `part`)
that the initial state chooses and no step changes: only the chosen part moves, so
that they are several instances in one run and nothing is composed there.
EnvironmentOperation is a composition proper: the steps of ports, workspace and process are
steps of the handler that called them.

### The saga (WorkflowQa)

`st` is the durable record of one run; `summary` the immutable terminal-summary
artifact; `raised` the set of all requests raised; `environment` and `receipts`
what environment-factory and test-publication persisted and therefore answer
again in the same way; `worker` what each department instance is doing.

A handler is not one step. `Load` takes an event and the record as it is
(`load_for`), the action of the handler computes and saves (`Save`, the
compare-and-swap of `save` in core.lua), and `Raise` raises what was returned
(departments/actions.lua). Two artifacts are immutable and written before the
compare-and-swap, so that handlers that write one have a step more: the terminal summary
(`WriteTerminalSummary`), and the proof of a browser that is ready, `proof`
(`WriteReadiness`, then `PrepareModule`). Every probe of the browser may have a proof
of its own, of which two stand for all; a body other than the one written is
refused. The artifacts of core.lua:255-265 are functions of the immutable request, so that a repetition
writes the same. `Crash` stops a handler between any two of these steps, `Fail` is an error the
department raises: nothing is saved and the event is gone. Each `Handle...`
action is one function of core.lua, with its guards in the order of the code; an
event the phase does not wait for repeats the pending requests, which is how the
code treats a late or repeated event.

Messages carry what a handler branches on. Identity and digest checks are left
out: a message is one the addressed package sends for this run. `raised` only
grows, and any request in it may be answered at any time, again and again:
this is at-least-once delivery in any order, and loss is the answer that is
never delivered. Packages other than environment-factory and test-publication
may give different answers to one request.

That `Save` is one step is justified by NoLostUpdate of MCHostLocks (see "The lock of the
store" below for when it is kept).

### The checkpoint ledger (QaPublication)

`ledger` is the compare-and-swap record of one run: its version, the latest
stage rank, and for each checkpoint (a stage with an attempt, numbered; `Rank`
gives the rank of its stage) the content recorded and whether it has its receipt.
`material`, `receipts` and `report` are the immutable artifacts beside it: the
materialization receipts of the filesystem channel, the publication receipts, and
the aggregate report, which is the last checkpoint. `comments`, `written` and
`told` are the comment requests raised, the comments github-proxy wrote, and the
receipts raised to the saga. The channel is chosen once.

The sources that a report links to are published before it (publish_source). Each
has a place of its own and comes from an immutable artifact, so that a repetition writes what is
there already; `Finalize` has no step for them.

A request is a checkpoint with a content, where content stands for everything a
replay compares (artifact, digest, status, counts). A handler loads the ledger
(`Load`), and then each effect is one step: `Publish` (publish_artifact),
`WriteReceipt`, `SaveEntry` (the compare-and-swap) and `Raise`; a report has
`Finalize` and `Reload` before them, because prepare_final_report reads the ledger,
writes the report, and then calls prepare_checkpoint, which reads it again.
`Ask` lets requests of different contents come in any order, which the seam allows;
`current` is the one its sender repeats. The comment has one comment_id however
often it is written, since github-proxy replaces it by its marker.

### The defects (DefectPublication)

`ledger` is the record of one run: its version, a status for each case and the
receipt it refers to; `artifact` the immutable receipt; the issues requested, those
github-proxy wrote, the acknowledgements in flight ("created" or
"deduplicated") and the terminal events raised are sets. Each case is a product
defect, another failure or no failure, chosen once: the results are immutable.
`PrepareDefects` is the handler of a publication request, `AcknowledgeIssue` the one
of an acknowledgement; both work on the copy of the ledger they loaded, write the
receipt once no case is pending (`WriteReceipt`), save (`Save`) and raise (`Raise`),
each in a step of its own.

### The operation of environment-factory (EnvironmentOperation)

`stored` is the record of the operation: its status and result, the resources
recorded, those cleaned, the checkpoints of the provisioning (`done`) and the answer
of the browser gate. `mem[h]` is where a handler is and its own copy of the record.
There are three handlers, one for each kind of event: start, the browser gate, and
finalize or interrupt. They overlap in any way; each saves its copy by
compare-and-swap (`Save`: a copy that is `stale` is refused, as save_state does), and
each may stop anywhere, upon which its event is raised again. `written` are the
receipts, which are immutable: a second one of the same name with other contents is
refused.

An effect is a sequence of steps of the module of its resource (`ClaimStep`,
`CheckoutStep`, `StartStep`, `CleanPorts` and so on take a step of PortClaims,
WorkspaceCheckout or SupervisedProcess), and what it has done enters the copy with the
save that follows (`SaveClaim`, `SaveCheckout`, `SaveApplication`). A resource whose effect
was not a success is saved before the error is raised (`SaveAndThrow`). A handler begins with
recover_authorized_state: it asks for ports and checkout again, whatever it is for.
An error is `Throws`: start cleans up what its own copy names, the others give up.
Cleanup goes through the resources in reverse order and counts what it could not remove;
a cleanup that throws is one that has failed (the pcall of core.lua:542), and the next
resource is cleaned all the same. At the end the cleanup receipt is written
(`CleanupReceipt`), saved (`SaveCleanup`), and followed by the receipt and the result of the
operation (`Answer`).
A start that was answered already is delivered again as `RepeatStart`: it asks for
ports and checkout once more before it repeats the answer, and an error on the way, such as the deadline,
tears a ready operation down.

Three histories, in `past`: that a cleanup has begun, that a cleanup or a start was
*blind*, and that a cleanup has *spared* the process. A cleanup is blind when an effect has begun that its copy of the record does not
name: it overlaps the start it cleans up after, or follows one that stopped between the
effect and the save. A checkout or a start is blind when it begins on a copy that is no longer
the stored one (`Beginning`): whatever another handler has recorded since, it does not know. The
code cannot know of such a resource; the properties about leftovers except these cases by
name. The process is spared when its cleanup ends and leaves it alive. This can happen
in two ways: the cleanup throws before it comes to stopProcess (`ThrowCleanup`: no
configuration, no workspace or no home to run its command in,
environment-factory-runtime.js:941-957), or stopProcess returns because it cannot look at the group
(`SpareGroup`, 869-870). Either is answered as a cleanup that failed, and the workspace and
the homes are cleaned after it.

`Trouble` is a bound on what goes wrong by itself (a stop, an overlap, the deadline, a
start refused or not registered in time, a process that ends, one that is spared or given up
though it runs): `MaxTroubles` in a behaviour. To spare a process whose workspace is gone is
free, for its cleanup has to throw then.

### The resources of an operation

*Ports (PortClaims).* `owner[p]` is the owner file of a port, `approval` who used the
approval, `claimLock` and `claiming` the lock of the host and what its holder has still
to do. Each file that is written is a step; `StopClaiming` stops between any two of
them and the lock of the dead is taken over. `OtherTakes` and `OtherFrees` are another
operation on the same ports.

*Workspace (WorkspaceCheckout).* `dir` is the directory at the place of the
workspace, by identity, `marked` whether the marker of its reservation is in it, and
`source` what is checked out. `Checkout` follows the code: reserve, remove what an earlier
attempt left and prove it, make the directory with its marker, persist its identity,
remove the marker, clone, verify, record.

*Process (SupervisedProcess).* `claim` is the startup claim with its states and
`claimOwner` the lock of it; `launch` is the launcher at work, `supervisor` and `target`
the two processes it leads to, `sweep` the cleanup at work. The launcher and the
supervisor take their own steps and meet only in the claim, as in the code: the
supervisor looks at it twice, the second time under its lock. `Deadline` revokes.
A launcher or a supervisor that stopped leaves the claim as it is.

*Homes (WorkerHomes).* `entry` is the ledger, `home` the directory of each generation,
`capture` the state file that the host writes of a removal and `proof` the broker's own.
A removal is a conversation of host (the steps of `Remove`) and broker in
which either may stop after every write.

*Effects (EffectLedger).* `lock` and `marker` are files, `guard` the system lock that the
helper of a process holds, `moved` the lock a process renamed aside to look at it. Each
file-system call of acquireLock is a step, and so is each write of the helper.

*Budgets (ResourceBudgets).* `usage` is the record under its lock, `user` the effects
with what they read of it. `probes` and `passed` are histories of what was really used.

### Structured execution (StructuredExecution)

`claim[g]` is the replay record of a grant, `permit` and `ran` the authorization of a case
and how often its effect was produced, `receipts`, `evidence` and `files` the immutable
files below the artifact root, `run[w]` where a delivery is, and `told[w]` what it
answered. A delivery claims its grant (`Guard`), has each case authorized, spends the
authorization, runs the case, writes its evidence, and at the end the result files and
the completion, each in a step of its own. A delivery that finds the grant completed
answers with what is recorded, one that finds it claimed answers "blocked". All grants are for one artifact
root and one plan: that is where deliveries of different grants meet. `expired` are
the grants whose window has passed, `faults` bounds stops and failures.

### The authorization lineage (AuthorizationLineage)

`claims[k]` is the claim id in the record of the k-th operation, `stored[i]` and `files[i]` the
claim that the i-th receipt names in the artifact store and in the project. Every
operation makes its record and then writes the chain from its first receipt, two steps
for each (`Store`, `Materialize`); nothing is ever replaced, so a writer steps where the chain
ends. `claimants` is a history: who was handed the claim of the replay guard.

### The redrive (RunRedrive)

`phase[r]` is what the records of a run say: nothing, its index, a state that is open, a
blocked cleanup, a state that is terminal, and the terminal record of the host. `raised` are the
runs that have a request on its way, `ticks` those that have a run-scoped tick on its way, and
`job` is what the department at work has still to go through. `Tick` makes the list: the cron
tick through `pendingRequests`, which wants a state and lists a run whose cleanup is blocked, the
startup of the host through `list_pending` of its supervisor, which does neither. `Reconstruct`
takes one run of the list: a refused chain of authorization ends the whole job before anything
is raised, a run without a state is started. `Raise` raises for one run, and `Stop` ends the
department between any two of these. `Answer` stands for everything WorkflowQa does with one
run.

Named abstractions: a list is made in one step; the two departments take turns (the supervisor
writes nothing but ticks); a lost tick of a run is one that is never handled, since `RunTick`
need not happen; a chain that is refused stays refused.

### The lock (DurableLock)

`path` and `fence` are the directory entries of the two locks (`.lock` and
`.lock.v2`) and of their `.reclaim` fences, `record` the file they protect, and
`proc` what each process is doing: a program counter and the local variables of
withLock and of the functions it calls. Each step makes one file-system call.
A file is identified by who made it (the code compares device, inode and body).

Named abstractions: inode numbers are not given out again while they are
compared; the interim v1 formats are stale leftovers like any other; malformed
files are left out; `ps lstart` tells any two processes apart; renaming aside, looking
and unlinking what was moved are one step when the file is the expected one; a
process performs one compare-and-swap and exits; an acquisition loop may give up
at the head of any iteration (500 attempts) and publishes at most `MaxFiles`
files at each level (guard of `Publish`).

## Runs

| run | configuration | checks |
|---|---|---|
| saga | 1 worker, every answer, 2 interrupts of 2 kinds, 1 crash, fairness | SagaInv, ExecutionAuthorized, TerminalAudited, StagesOnce, EndsOnce, SettledForGood, LifecycleSpec, Progress |
| two_workers | the ledger with 2 workers, 2 contents, 3 requests and 1 crash, both channels; or the saga with 2 workers, the answers of structured execution and 1 interrupt | Inv, ToldTruthful, TerminalDecided, JournalSpec, ForwardOnly, InterruptionKept |
| saga_lease, saga_dropped | the saga with 1 interrupt and no crash | violated: CleanupCompletes, InterruptHonoured |
| qa_liveness | the ledger with 1 worker and 2 requests, fairness | EventuallyTold |
| defects_all | 2 cases of any kind, 2 workers, 2 crashes, fairness | Inv, TerminalTruthful, ReportSpec, EventuallyReported |
| defects_receipt | the same with 1 worker and 1 crash | violated: EventuallyPublished |
| environment | one operation with 1 port, 2 directories, 1 trouble and a deadline, fairness | NothingLeft, ReadyMeansUp, NoStrayProcess, EventsAnswered |
| environment_deadline | the same | violated: EndedAfterDeadline |
| parts | each part with 2 handlers that stop at any step, fairness | StartedOnce, CleanedMeansStopped, ClaimComplete, WorkspaceSound, HomesAccounted, BudgetKept, LineageSound, NotTaken, RevokedNeverStarts, PartsProgress |
| locks | the lock of the store with 3 processes, PIDs that differ or are given out again, and the lock of an effect with 3 processes | MutualExclusion, AnswersTrue, NoLostUpdate |
| execution | 3 deliveries, 2 grants, 2 cases, 4 plans, 1 fault, fairness | Inv, SingleUse, ResultsStand, Answered |

### What they show

*Safety of the saga.* No executor is asked to run before the environment is
ready, a grant was requested and every earlier checkpoint was published; the Host
is told a run is terminal only after cleanup and both publication receipts; a run
with failing cases gives its environment up only after its defects are published,
and asks for the end of it in one way only (EndsOnce);
no stage is checkpointed twice; a run that settled never changes; the run
implements QaLifecycle. With two handlers at once, a late handler neither takes
the run back nor loses an interruption, and an interruption decides the outcome
(TerminalDecided). SagaInv, the inductive invariant of the proofs, is checked too.

*Progress of the saga.* A run ends, or is blocked by a cleanup that was
incomplete, whatever is repeated or crashes - except that it stays *for good* in one
of the three states named `LeaseLeftBehind`, `SummaryConflict` and `ProofUnsaved`; to pass
through one of them excuses nothing. The code cannot leave the first two. In
`SummaryConflict` the immutable terminal summary was written, the process stopped
before the compare-and-swap, and an interrupt was recorded: the repeated delivery
writes a different summary and is refused each time. In `ProofUnsaved` the proof of a ready
browser was written and the save after it was lost: the run waits for its readiness, and a
probe that proves anything else is refused each time. It gets out only by a probe that repeats the
first proof to the letter, by a browser that is blocked, or by an interrupt, none of which
has to come. Two findings have runs of
their own:

1. *CleanupCompletes.* An interrupt that arrives while a checkpoint is in flight,
   once the environment is ready, starts cleanup and leaves the checkpoint's lease
   behind. When the cleanup receipt arrives, the cleanup checkpoint is refused
   because a lease is active, and so is every repetition.
2. *InterruptHonoured.* An interrupt during the intake checkpoint fails, because
   there is no environment to release yet, and is not delivered again: the run
   goes on.

*The checkpoint ledger.* A checkpoint is recorded once and never changed, none
after one of a later stage, although the rank is checked on a copy that may be old;
a receipt that was raised is in the ledger and in its artifact, and what it
says was published. Who
repeats a request gets the receipt, with one exception, `ReceiptForgotten`: on the
GitHub channel a replay repeats neither the comment (it was acknowledged) nor the
receipt, so that a process that stops between saving the receipt and raising it
leaves a sender that is never told. The contract promises a replay of the receipt for
acknowledgements and filesystem requests only, so this is no divergence of this part;
but the receipts of WorkflowQa, which are repeated with every request, are
those of the filesystem channel.

*The defects.* Concurrent
acknowledgements do not undo each other, and a terminal event carries the durable
receipt with an issue for every product defect. A finding, with its run:

3. *EventuallyPublished.* The receipt is written before the ledger that refers to
   it. If the process stops between the two, the retry publishes the last issue
   again, is told "deduplicated" where it was told "created", and writes a
   different receipt to the same place, which fails each time
   (`ReceiptConflict`). EventuallyReported excepts a receipt that stays in
   conflict with the ledger for good: on its way from the receipt to the save every handler passes
   through such a state, and that excuses nothing.

*The environment.* An operation that reports a complete cleanup has left no port, home,
workspace or process behind (NothingLeft); one that is ready has all its resources
recorded and in place until somebody begins to clean up (ReadyMeansUp). NoStrayProcess says two things
of a process that is alive. `TargetKnown`: once its start is answered it has the record by which a cleanup
finds it, whether that start passed or not, and the operation does not call it cleaned.
`HomeOutlives`: it has its home, until a cleanup has spared it. The code does not keep the second
without that exception: cleanup_resources goes on after a cleanup that failed, and removes the
workspace and the home under a process that is still running. The contract
(environment-factory.v1.md:114-116) promises the reverse order and a replay, and does not say that a
failure ends it, so this is no divergence; what remains true is that the process stays
on record as not cleaned, the receipt says "incomplete", and a later cleanup can still find
it. NothingLeft and NoStrayProcess except a `blind` cleanup, checkout or start, see above: a finalize that overlaps a start can
miss what the start has begun, and a start on an outdated copy can make a workspace or a process that
nobody cleans up; that the exceptions are needed was found by TLC, which violates the
properties without them. NoStrayProcess also holds OperationInv, the inductive invariant of the
proofs. Every event is answered (EventsAnswered), unless the deadline has
passed, the checkout is on record as blocked (every handler asks for it again and fails), or an
incomplete cleanup is on record in a receipt that no other one can replace. The browser
gate is heard, but a handler that stops between saving its answer and saving the
result leaves an operation that refuses later deliveries of the gate; finalize ends it.
A finding, with its run:

4. *EndedAfterDeadline.* terminate recovers the operation before it cleans up, recovery asks
   for the checkout again, and no effect of a lifecycle begins after its deadline: once it
   has passed, finalize and interrupt fail before they clean anything up. The contract says
   that cleanup still has its own timeout.

*The parts of the runtime.* What the composition takes one operation at a time, `parts` takes with any
number of handlers and with others: the target of a startup claim is started once at
most, a revoked claim starts nothing however late its supervisor is, a process cleaned has no
living member in its group; a recorded claim of ports is whole and a port of another
operation is not freed; a checkout that passed is whole and a directory is never nameless;
a home is never forgotten, and never called released without the broker's proof; requests and
processor time stay within the budget; the lineage is true and without a gap. HomesAccounted
also holds the invariants of the other parts of which no property has a name of its own, and
the inductive invariants of the proofs.
PartsProgress says that each part goes on from whatever the dead left: a reserved home
is released (but for the three states WorkerHomes names), a process alone gets an effect's lock, a
process gets the store's, a completed execution gets its index, and a pending run asks again
and again, whatever requests are lost and whoever stops. Two conditions of the last one are
limits of the code, not of the model: fewer runs than the limit are pending before it in the
order of names, those whose cleanup is blocked counted, and no run of that list has a refused chain. Where
either fails, a run can be left out of every tick.

*The locks.* Two processes are never in the critical section of the store together and no
update is lost, although a lock is removed by renaming first and looking
afterwards, and is taken by reading back whatever is at its name. The lock *files*
are not as tidy: a process that cannot make the fence of its own lock returns without
an error and leaves the lock behind, and a contender with an old observation can move
the lock of a live holder aside. Every process gets through all the same. Of an effect, one
process at a time produces it, an answer is what the record says and is of the own
request, and no lock is left behind; a helper that is killed while its process goes on
without the guard (`kills`) is excepted, for then two processes can be in.

*The execution.* A case is run at most once under a grant, by the delivery that claimed it,
after its authorization was spent; the files of a completed claim are all of one
delivery, although another grant may have left files under the same root; no two
answers contradict each other. A delivery is always answered, and a claim completed, unless its
delivery failed or stopped, its window passed, the plan has a case that the capabilities of
the grant do not cover (`Refuse`: structured_execution.lua throws, after the claim, without a denied
receipt), or another grant was claimed for the same root: a claim whose delivery died stays in progress for good, which is what a
single-use grant means, and the later deliveries say "blocked".

### Bounds, and why they are enough

In the saga the set of answers is complete, so every path of core.lua is taken;
the record has no unbounded part but its version, which grows with the phase, and
TLC explores it without a bound. Two interrupts of two kinds are enough to
overwrite one interruption by another; one crash is enough to stop between any two
steps, and a second would only repeat what the at-least-once delivery already
does. Two workers are enough for any race between two handlers: a handler is
atomic after its load, but for its artifact write, and fails when the version
changed, so a third handler sees either of two versions.

In the lock of the store, three processes are a holder, a contender with an old observation
and one that profits from the mistake; the initial states hold every combination
of leftover locks and fences. More processes can make more mistakes at once. The theorems say
how many it takes: a lock that is relied on must be moved aside by mistake at *both* levels
(`Displaced`). Five processes can do that without any crash: when a dead process has left its locks
at both levels, two of them reclaim the legacy lock and one the owner lock, each from an old
observation, and two processes end up in the record at once. A scripted schedule of the
model (51 steps) shows it; nothing in the repository says otherwise, since it claims no exclusion for
any number of contenders, so no run is kept for it.
`MaxFiles` bounds how often a process publishes at one level; two is one more
than any process needs unless its lock was moved aside. In the lock of an effect the third
process asks for something else under the same name.

In the checkpoint ledger, a checkpoint and the report are two stages in both
orders; two contents make a request that differs from the one recorded; three
requests are one of each and a changed one. Checkpoints of equal rank are not in
these instances; the theorems hold for any ranks. Two workers race in every pair of steps, and one
crash stops between any two. In the publication of defects, two cases are two
concurrent acknowledgements, or one and a case that is not a defect; the theorems hold
for any number.

In the environment, one trouble is one stop, one overlap or one fault at any of its
points, and what follows it is recovery without further faults; two would mostly be a fault
during a recovery, which `parts` covers for each resource by itself, since handlers stop there
without a bound. NothingLeft, ReadyMeansUp and NoStrayProcess are proved for any number of
troubles; what depends on these bounds is EventsAnswered. One port is enough there because the order of files is PortClaims', which
`parts` has with two. Two directories are one and the one that replaces it. Two generations of a home are one
and the one after its removal; three faults are one of the host, one of the broker and one
during their recovery. Two runs with a limit of one or two are a run the list reaches and one it
may not, and a run that fails the tick of the other.

In the execution, two deliveries of one grant race for the claim and a third brings the files
of another grant; two cases are one that is done and one that is not; the plans have
every verdict, and one a case outside the grant. One fault stops or fails one delivery anywhere.

Handlers of the runtimes end, and their processes with them: their configurations do not check for
deadlock. The saga always accepts a tick and the publications a request: theirs do.

### Fairness

The saga assumes weak fairness of each handler (a department that
has an event finishes unless its process stops), strong fairness of ticks (a
cron raiser with an interval) and strong fairness of the answers awaited by the
run (a redriven request is asked again with every tick, and the packages answer
a repeated request). Interrupts and crashes are not fair. The two
publications assume that the sender repeats its request until it has an answer
(the redrive of the saga), that a handler finishes unless its process stops, and
that github-proxy answers every comment or issue request it gets; that an
acknowledgement is delivered again is assumed only as long as its request is
repeated, since the department that handles it does not retry.

The operation of environment-factory assumes strong fairness of the beginning of each of its
handlers, since its events are raised again until they are answered (the saga repeats them with
every tick), and weak fairness of the steps of a handler that has begun and of the supervisor,
which are processes. The execution assumes weak fairness of the steps of a
delivery. Nothing else is fair: no stop, no fault, no deadline.

In `parts`, weak fairness of each process and helper: the operating system runs them. The cleanup
of the homes is asked for until it is done; the replay guard is asked for again and again, for
that is what a redelivered execution request does; the cron raiser ticks, strongly fair because a
tick that finds the department at work is followed by others, and the department goes on. The store's lock is not assumed to time out:
its progress does not count on attempts running out.
`WaitsForItself` is excluded by name: a process whose lock is moved aside while
it reads it back waits for its own file until its attempts run out. So is
`OutwaitsTheDead` of EffectLedger: a process that has retired the lock of one dead process
and finds another's in its place waits for that one until its deadline.

## Proofs

All theorems hold for every value of the constants and assume only what the modules ASSUME of
them, or name where they are defined (`LockConstants`): bounds are
naturals, what stands for nobody is nobody, interruptions and answers are among those the
contract allows. The theorems that the lock of the store excludes have one hypothesis more, about
what happens (`Displaced`), which is discussed below.

*The saga.* WorkflowQaProofs proves `Invariance` (Spec => []Inv) and from it `TypeCorrectness`,
`ExecutionIsAuthorized`, `TerminalIsAudited` and `EveryStageOnce`.
ExecutionAuthorized is not inductive: it speaks about requests
raised, and those come from the pending requests of a handler's snapshot, and
those from the lease of a checkpoint, which may have been taken long before. Inv
therefore says of *every* copy of the run that

- `LeaseFits`: a lease leads where its stage leads (`Follows`), and is there
  exactly when a checkpoint is in flight, or was left behind by an interrupt;
- `StagesPassed`: the phase the run is in, or is about to enter, has the receipts
  of every stage before it, but for the one in flight;
- `Attempted`: no stage that is still to come was attempted, and none twice;
- `EnvironmentKnown`: readiness and release are as environment-factory persisted
  them;
- `Warranted`: every request that is pending or raised had its reason;
- `HandlerInv`: a handler whose version is the current one holds the current run
  (this makes the compare-and-swap sound), its message is genuine, and what it
  will raise is warranted.

The proof has a lemma for each of Save, Gate, Repeat and Fail, one for each
handler that cites them, and one for the events that are delivered.

*The publications.* QaPublicationProofs proves for any checkpoints, ranks, contents and workers
`Invariance`, `TypeCorrectness`, `CommentsAreRecorded`, `ReceiptsAreTruthful`,
`LedgerGoesForward` (an action property) and `LedgerIsJournal`: every step of the
ledger is a step of CheckpointJournal or none. DefectPublicationProofs proves for any
cases and workers `Invariance`, `TypeCorrectness`, `IssuesArePersistedFirst`,
`TerminalsAreTruthful`, `AcknowledgementsAreKept` and `PublicationIsReport`
(DefectReport).
Both follow one argument. A handler acts on a copy, and what makes this sound is
the version: the invariant says of each copy that it was the ledger (`Seen` in
QaPublication: the ledger has only gone on from it, and is the same when the version
is), so a save that succeeds acts on the ledger itself. It says of each
artifact that it was written before the ledger refers to it. A lemma for each step
shows that the ledger goes forward only, and a lemma that a step that
goes forward leaves the other workers' parts of the invariant as they are. The action
properties and the refinements then come from the invariant and the same lemmas.

*How a run ends.* Inv says nothing of the end of a run, so EndsOnce, SettledForGood, ForwardOnly
and the refinement need a second inductive invariant: `SagaInv` is Inv with `EndInv`, which says

- of the stored run (`EndOf`): whoever cleans up has an outcome, the one an interruption demands
  (`OutcomeKnown`); failing cases lead to a defect receipt (`FailuresFollowed`); how the environment
  stands by phase (`EnvironmentLeft`); and the summary that was written is the run's (`SummaryKept`);
- of every request that is pending, raised, or about to be raised (`Timely`): the two requests that
  give the environment up exist only once the run has reached its cleanup with the environment
  ready, and only the one that fits the interruption does;
- of a handler that has written the summary: it is the one of the run it is about to save;
- that a cleanup was asked for if there was one.

WorkflowQaProofs shows what a handler of the current run may save (`EndStep`, with a
lemma for each handler): one of nine kinds of change, such as a gate, a receipt that releases
the lease, or a cleanup that begins. Each kind is then looked at once, and so is what the steps of others leave as it was
(`EndGrows`, `EndStays`). From
`EndInvariance` come `RunEndsOnce`, `SummaryIsKept`, `InterruptionIsDecisive`, the action
properties `SettledIsFinal`, `InterruptionIsKept` and `RunGoesForward` (which excepts the lease
left behind of finding 1, as the property does), and `SagaIsLifecycle`: every step of the saga is
a step of QaLifecycle or none.

The run `two_workers` checks the composition MCTwoWorkers. QaPublicationProofs carries the theorems to it,
for any number of handlers: of the saga `TerminalIsDecided`, `PhasesGoForward` and
`InterruptionStays`, of the ledger `LedgerIsKept` (Inv, ToldTruthful and JournalSpec).

*Ports, workspace, process.* OperationPartsProofs shows their invariants for any handlers, and so
for any number of stops, which these models do not bound.
`PortInv` adds `Holding` to ClaimComplete: what whoever holds the lock has written by
each step, and that a release goes over ports that are the operation's own. From it
`ClaimsAreComplete`, and `PortsAreNotTaken` as an action property.
`WorkspaceInv` adds `Working`: by each step of a checkout, what directory is there,
whether it is marked and what the reservation says of it. From it `WorkspacesAreSound`.
`ProcessInv` adds `ClaimHeld` (which state the claim is in while a launcher holds its lock),
`OneSupervisor` (nothing is started before the only supervisor has registered, which it does
under the lock) and `SweptAfter` (no launch once the start is on record, and a cleanup only
then). From it `TargetIsStartedOnce`, `CleanedIsStopped` and the action property
`RevocationHolds`.

*The operation.* In EnvironmentOperation the parts are not alone: handlers that overlap call them from
copies of the record that may be outdated. Since every step of a handler is a step of at most one
part, the invariants PortInv, WorkspaceInv and ProcessInv carry over (`PortsKept`, `WorkspaceKept`,
`ProcessKept` in EnvironmentProofs). What the operation itself needs is in `OperationInv`:

- what the parts are to each other: nothing is made before it is reserved (`ReservedFirst`), and how
  far the claim, the home and the record of a process are by each step of a launch or of a
  cleanup (`ClaimedOnce`, `LaunchKnown`);
- `Known`: what *any* copy of the record says is so, however old the copy is. This can be kept because
  resources, checkpoints and cleanups are only ever added, and no part undoes what it
  has reported;
- `FreshCopies` and `Reached`: a copy that can still be saved is the stored record, at most one
  handler has got beyond its claim with such a copy unless others clean up, and what it
  has saved by each step;
- `UpUntilUndone`: until a cleanup begins, what was started stands;
- `HomeKept`: while there is a target, or may still be one (`Live`), its home is leased or a cleanup
  has spared it; an answer without a record leaves none, and a cleanup that was tried leaves
  none unless it spared it (or something was blind); a process is spared only after its start was
  answered;
- `CleanedInTime`: the record has been cleaned, or is being cleaned by somebody who can save it, only
  after whatever it does not name was ruled out, in the order of the cleanup: without a reservation no
  checkout can begin any more, without a claim no launch (or something was blind).

The proof divides the steps once: those on a handler's copy alone (`OnCopy`), of which a table of
lemmas says how the copy moves and that it stays `Known`, the steps of a part, and the cleanups, which
are both. Each conjunct then has a lemma over these kinds. `OperationInvariance` is the
theorem; from it come `NothingIsLeft`, `ReadyIsUp` and `NoProcessStrays`, for any ports, directories
and troubles and without fairness. The attempt to prove it corrected the model twice: a checkout on
an outdated copy, not only a start, can leave something unnamed, and an error after a resource
became known has saved that resource, so that the copies of other handlers are outdated.

*The budgets.* What is used must not exceed the limit, although what was used is counted under
a lock and used without it. `BudgetInv` therefore counts what is on its way with what
was used: `LockHeld` (who changes the record holds its lock and has read it as it is),
`RequestsCounted` (the probes made and the users about to make one are together within the
count) and `TimeCounted` (the same of processor time, where one user stands for as many units as
its command takes: the sum is the cardinality of `Taken`, a finite set of pairs). From it
`BudgetsAreKept`.

*The homes.* HomesAccounted relates files that different processes write, so `HomesInv` says
what is in them by each step of each: `FilesMatch` (which combinations of directory, capture and
proof there are), `InTurn` (the homes of a slot before its last one are released, those after
are not made), `CommandsKnown` and `CleanupKnown` (a command has the last home of its slot, and
what the cleanup neither has still to do nor keeps is released), `OneRemoval` (a home is removed by
one party at a time) and `ReleasedWithProof`.
`HomesAreAccounted` combines it with the invariants of all other parts (`PartsInv`): in the
composition only the chosen part moves, and the others stay in their initial states.

*The lock of an effect.* `EffectInv` rests on the system lock of the helper: `GuardHeld` (the helper that
has the guard is the one that says so, and the marker is its process's), `TakeoverGuarded` (who takes over
has the guard throughout, and the lock it retires is the one of the dead owner it
observed) and `LockOwned` (who goes on to the effect has its own lock file in place). The last two and
`ProducedOnce` are claimed only as long as no helper was killed. From it mutual exclusion, and `AnswersAreTrue` of
MCHostLocks for any number of processes: an answer is what is on record.

*The lock of the store.* DurableLockProofs takes any number of processes, any assignment of PIDs,
whatever a dead process left, and any number of stops. What always holds is `LockInv`
(`LockInvariance`): two live processes never have one PID, and what a process goes by is true
(`Sound`). The lock it is about to retire is a dead process's, however long ago it
was observed, since the dead stay dead, or the one it took itself, whose PID
file may be a dead namesake's. From it `LocksAreKept`, without any condition: a live process's lock only
leaves its name when it is released, or when it is moved aside by a process that
then looks at what it has.

The second case is the mistake the code provides for: what is renamed may have changed since it
was checked. `Displaced(level)` says that the lock of a process that *relies* on it (one between
reading its lock back and the start of its release) is in that position. Until it is
linked back, another process can take the name. So mutual exclusion needs a hypothesis, and two
levels make it a weak one: as long as there is *one* level at which
no relied-on lock is ever moved aside, one process at a time has the record (`Excludes`) and
every compare-and-swap replaces the version it compared with (`LosesNoUpdate`). The argument is
`Guarded(level)`: who relies on a lock finds it in place, so two processes cannot
both. If the level is that of the owner files and PIDs differ, who enters has the two locks it
published, although it took them by reading a name back (`HasOwnLocks`). The proof first says what every
step may do (`StepIs`: six kinds, most of which are `Ordinary`, where locks leave their names
only in the ways of `Takes`) and then looks at each kind once.

When does the hypothesis hold? `ExcludesUnlessAbandoned` gives the ordinary case: as long as no
lock of a level outlives its process (`Abandoned`: none was left there before, none is left by a stop or
by a release that gives up), nothing that is relied on at that level is ever moved aside, hence
mutual exclusion, whatever fences are in the way and whatever happens at the other level. The
invariant is `Undisturbed`: at that level nobody reclaims (`Orderly`: only fences are moved
aside by mistake), and who is about to retire its own lock still finds it in place (`Attached`).
So exclusion can only be lost, as under Bounds, when locks are left behind at *both* levels.

ExclusionProofs states this of the run: `LocksExclude` (MutualExclusion of MCHostLocks, with the
types, LockInv and EffectLedger's part) and `UpdatesAreKept` (NoLostUpdate). TLC shows
both properties *without* the hypothesis for three processes, where the second level always
makes up for the mistakes of the first; that this ends with five is said under Bounds.

*The execution.* `ExecutionInvariance` of ExclusionProofs needs, beyond SingleUse and
ResultsStand, where a delivery is (`Placed`) and that what it has written is still there
(`Kept`). Since files are never replaced and a grant has one executor, the steps of others cannot disturb it:
a lemma shows this once for every step that leaves the claim of a delivery and what it wrote alone (`Harmless`), and
each step of a delivery is then looked at for itself. From it `CasesRunOnce` and
`AnswersStand`.

*The lineage.* `LineageInv` adds to LineageSound what each call may do where it is (`Called`),
that the chain has no gap (`ChainWhole`, which is stronger than that a receipt follows those it
rests on), and that the claim of the guard is handed out once and whoever runs the case is the
only one, ever (`GuardHeld`). From it `LineageIsSound`.

Only model-checked:

- liveness (Progress, EventuallyTold, EventuallyReported, EventsAnswered, PartsProgress,
  Answered), which is out of the prover's reach;
- MutualExclusion and NoLostUpdate of the lock of the store without the hypothesis on
  `Displaced`: true of the three processes of the run and not of any number;
- of RunRedrive, everything but its types: what matters there is progress.

## Not modelled

- *module-testing-pipeline (AI orchestration).* A second saga over language-model agents, with
  rounds of design and review. It has the shape of the first (versioned record, redrive,
  requests and answers) and its rounds end by counters; what its rounds decide is the content of
  plans and reviews, which the models abstract from.
- *Browser control, browser observation, CDP adapters.* Their state is that of an external
  browser; what the workflow sees of them are answers, which are unconstrained in the saga.
- *Package executor, module-test-loop, platform-test-loop.* Claims of the kind
  StructuredExecution has, with one case or none.
- *Other operations of the generic host.* Its ports over the store are what DurableLock and
  AuthorizationLineage promise; the startup outbox of the local QA departments is a path of
  its own to the start of a run, which a tick of the run takes too. Its worker-home ledger is like WorkerHomes and kept in the store.
- *Of the durable store*, record-list, artifact-* and digest: reads, or writes under the
  lock that is modelled. *Of environment-factory*, services, installation and fixtures, which are further
  resources of the same shape, HTTP probes and diagnostics, and the identity checks of descriptors and
  paths, which guard against changes from outside the program.
- *Of the publications*, how a report is computed from its sources.
- Parsing, rendering, digests, schemas and prompts; external containers
  and sandboxes; package discovery and release tooling; vendored libraries and the
  test kit.

PROJECT.json gives the reason for each component.
