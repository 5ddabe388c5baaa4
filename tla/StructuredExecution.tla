-------------------------- MODULE StructuredExecution --------------------------
(***************************************************************************)
(* testing-runner's structured executor (structured_execution.lua) over    *)
(* the effects of fkst-structured-execution-runtime.js.  A delivery claims *)
(* its single-use grant, has every case authorized, spends the             *)
(* authorization, runs the case, and writes files that are never replaced; *)
(* then it completes the claim.  A delivery that finds the grant completed *)
(* answers with the recorded result, and one that finds it claimed answers *)
(* "blocked".  All grants here are for one artifact root and one plan.     *)
(***************************************************************************)
EXTENDS Naturals

CONSTANTS
    Workers,    \* deliveries of a request
    Grants,     \* single-use grants
    GrantOf,    \* GrantOf[w]: the grant the request of w names
    CaseCount,  \* the cases of the plan
    Plans,      \* what a plan may ask: run a case, skip it, run one that the
                \* preauthorization does not allow, or that the grant does not
    None,
    MaxFaults   \* bound: deliveries that stop or fail in the middle

ASSUME ExecutionAssumption ==
    /\ GrantOf \in [Workers -> Grants]
    /\ CaseCount \in Nat /\ MaxFaults \in Nat
    /\ Plans \subseteq [1 .. CaseCount -> {"run", "skip", "refused", "ungranted"}]

VARIABLES
    plan,      \* the test plan, bound by its digest
    claim,     \* claim[g]: the replay record of the grant
    permit,    \* permit[g][c]: the authorization record of a case
    ran,       \* ran[g][c]: how often the effect of the case was produced
    receipts,  \* receipts[c]: authorization/<case>.json
    evidence,  \* evidence[c]: evidence/<case>.json
    files,     \* files[f]: the f-th of the result files
    run,       \* run[w]: where the delivery is
    told,      \* told[w]: the status it answered
    expired,   \* grants whose window has passed
    faults

vars ==
    <<plan, claim, permit, ran, receipts, evidence, files, run, told, expired, faults>>

Cases == 1 .. CaseCount
\* In the order they are written: evidence-manifest, case-result-set,
\* case-results, execution, metadata.
Files == 1 .. 5
Execution == 4
Verdicts == {"skipped", "passed", "failed", "error"}
Statuses == {"passed", "failed", "blocked", "degraded"}
Executing == {"case", "allowed", "denied", "permitted", "running", "evidence", "files"}
PCs == Executing \union {"asked", "checked", "replay", "tell", "done", "crashed"}
ReceiptBodies == [by : Grants, decision : {"allowed", "denied"}]
FileBodies == [by : Workers, status : Statuses]

ASSUME NoneAssumption == None \notin ReceiptBodies \union FileBodies

Init ==
    /\ plan \in Plans
    /\ claim = [g \in Grants |-> [status |-> "none", result |-> "blocked"]]
    /\ permit = [g \in Grants |-> [c \in Cases |-> "none"]]
    /\ ran = [g \in Grants |-> [c \in Cases |-> 0]]
    /\ receipts = [c \in Cases |-> None]
    /\ evidence = [c \in Cases |-> "none"]
    /\ files = [f \in Files |-> None]
    /\ run = [w \in Workers |-> [pc |-> "asked", case |-> 1, file |-> 1,
                                 verdict |-> [c \in Cases |-> "none"]]]
    /\ told = [w \in Workers |-> "none"]
    /\ expired = {} /\ faults = 0

At(w, pc) == run[w].pc = pc
Late(w) == GrantOf[w] \in expired
Goto(w, pc) == run' = [run EXCEPT ![w].pc = pc]
Answer(w, status) == told' = [told EXCEPT ![w] = status]
Block(w) == Goto(w, "done") /\ Answer(w, "blocked")
Authority == UNCHANGED <<claim, permit, ran>>
Written == UNCHANGED <<receipts, evidence, files>>
Others == UNCHANGED <<expired, faults>>

\* aggregate
Aggregate(verdict) ==
    IF \E c \in Cases : verdict[c] = "failed" THEN "failed"
    ELSE IF \E c \in Cases : verdict[c] = "error" THEN "blocked"
    ELSE IF \E c \in Cases : verdict[c] = "skipped" THEN "degraded"
    ELSE "passed"
-----------------------------------------------------------------------------
(* M.run up to the claim.                                                  *)

\* The bound inputs and the window of the grant.
Check(w) ==
    /\ At(w, "asked")
    /\ \/ ~Late(w) /\ Goto(w, "checked") /\ UNCHANGED told
       \/ Late(w) /\ Block(w)
    /\ Authority /\ Written /\ Others

Claim(w) == claim' = [claim EXCEPT ![GrantOf[w]].status = "claimed"]
Status(w) == claim[GrantOf[w]].status

\* Mutant: only a completed claim stops a delivery.
GuardCompleted(w) ==
    /\ At(w, "checked")
    /\ \/ Status(w) # "completed" /\ Claim(w) /\ Goto(w, "case") /\ UNCHANGED told
       \/ Status(w) = "completed" /\ Goto(w, "replay") /\ UNCHANGED <<claim, told>>
    /\ UNCHANGED <<permit, ran>> /\ Written /\ Others

\* Mutant: a claim in progress is waited for.
GuardWaits(w) ==
    /\ At(w, "checked")
    /\ \/ Status(w) = "none" /\ Claim(w) /\ Goto(w, "case") /\ UNCHANGED told
       \/ Status(w) = "completed" /\ Goto(w, "replay") /\ UNCHANGED <<claim, told>>
    /\ UNCHANGED <<permit, ran>> /\ Written /\ Others

\* Mutant: execution.json proves the execution, whatever the claim says.
GuardByFile(w) ==
    /\ At(w, "checked")
    /\ \/ Status(w) = "none" /\ Claim(w) /\ Goto(w, "case") /\ UNCHANGED told
       \/ /\ Status(w) = "claimed" /\ files[Execution] # None
          /\ Goto(w, "done") /\ Answer(w, files[Execution].status) /\ UNCHANGED claim
       \/ Status(w) = "claimed" /\ files[Execution] = None /\ Block(w) /\ UNCHANGED claim
       \/ Status(w) = "completed" /\ Goto(w, "replay") /\ UNCHANGED <<claim, told>>
    /\ UNCHANGED <<permit, ran>> /\ Written /\ Others

\* replayGuard, under the lock of the replay record.
Guard(w) ==
    /\ At(w, "checked")
    /\ \/ Status(w) = "none" /\ Claim(w) /\ Goto(w, "case") /\ UNCHANGED told
       \/ Status(w) = "claimed" /\ Block(w) /\ UNCHANGED claim
       \/ Status(w) = "completed" /\ Goto(w, "replay") /\ UNCHANGED <<claim, told>>
    /\ UNCHANGED <<permit, ran>> /\ Written /\ Others

\* validateCanonicalArtifacts: the evidence manifest and the case result set that
\* execution.json names by digest are the ones on disk, and its status is theirs.
Canonical == \A f \in {1, 2} : files[f] = files[Execution]

\* validateExecutionArtifact.
ValidExecution == files[Execution] # None /\ Canonical

\* completedReplayForResult: the record names the result by digest.
Recorded(w) == Status(w) = "completed" /\ claim[GrantOf[w]].result = files[Execution].status

\* loadResult: the answer is read from execution.json, bound by its digest.
LoadResult(w) ==
    /\ At(w, "replay") /\ Goto(w, "done")
    /\ Answer(w, IF ValidExecution /\ Recorded(w) THEN files[Execution].status ELSE "blocked")
    /\ Authority /\ Written /\ Others
-----------------------------------------------------------------------------
(* execute_case.                                                           *)

HasCase(w) == At(w, "case") /\ run[w].case \in Cases
Asks(w) == plan[run[w].case]
Verdict(w, verdict) ==
    run' = [run EXCEPT ![w].pc = "evidence", ![w].verdict[run[w].case] = verdict]

Skip(w) ==
    /\ HasCase(w) /\ Asks(w) = "skip" /\ Verdict(w, "skipped")
    /\ UNCHANGED told /\ Authority /\ Written /\ Others

\* argv_allowed, http_allowed: the capabilities of the grant, before anything else.
Granted(w) == Asks(w) # "ungranted"

\* A case outside them is thrown, not answered: the run ends there, with its claim.
\* So do the contracts that an envelope or a case result fails, and a plan that is
\* written with another digest than it was read with.
Refuse(w) ==
    /\ HasCase(w) /\ ~Granted(w) /\ Block(w)
    /\ Authority /\ Written /\ Others

Permit(w) == permit[GrantOf[w]][run[w].case]
SetPermit(w, status) == permit' = [permit EXCEPT ![GrantOf[w]][run[w].case] = status]
Allows(w) ==
    /\ Asks(w) = "run" /\ Status(w) = "claimed"
    /\ Permit(w) \in {"none", "issued"}

\* persistedDeniedReceipt: a denial does not undo what was issued or consumed.
Deny(w) == IF Permit(w) = "none" THEN SetPermit(w, "denied") ELSE UNCHANGED permit

\* authorizeEffect: every input is read again, the claim too.  The receipt of a
\* grant that has expired expires a second later than now, which the contract
\* does not accept: the run ends there, with its claim.
Authorize(w) ==
    /\ HasCase(w) /\ Asks(w) # "skip" /\ Granted(w)
    /\ \/ Late(w) /\ Deny(w) /\ Block(w)
       \/ /\ ~Late(w) /\ Allows(w)
          /\ SetPermit(w, "issued") /\ Goto(w, "allowed") /\ UNCHANGED told
       \/ /\ ~Late(w) /\ ~Allows(w)
          /\ Deny(w) /\ Goto(w, "denied") /\ UNCHANGED told
    /\ UNCHANGED <<claim, ran>> /\ Written /\ Others

\* writeArtifact and writeJsonImmutable: a file is not replaced.
Fits(old, new) == old \in {None, new}
Receipt(w) == [by |-> GrantOf[w], decision |-> run[w].pc]

\* The receipt is validated, against the time too, and kept.
WriteReceipt(w) ==
    LET c == run[w].case
        ok == ~Late(w) /\ Fits(receipts[c], Receipt(w))
    IN  /\ run[w].pc \in {"allowed", "denied"}
        /\ receipts' = (IF ok THEN [receipts EXCEPT ![c] = Receipt(w)] ELSE receipts)
        /\ \/ ~ok /\ Block(w)
           \/ ok /\ At(w, "allowed") /\ Goto(w, "permitted") /\ UNCHANGED told
           \/ ok /\ At(w, "denied") /\ Verdict(w, "error") /\ UNCHANGED told
        /\ UNCHANGED <<evidence, files>> /\ Authority /\ Others

\* Mutant: the receipt is marked when the effect is over.
ConsumeLate(w) ==
    /\ At(w, "permitted")
    /\ \/ Late(w) /\ Verdict(w, "error")
       \/ ~Late(w) /\ Permit(w) = "issued" /\ Goto(w, "running")
    /\ UNCHANGED <<claim, ran, permit, told>> /\ Written /\ Others

\* consumeAuthorizedEffect: the receipt is spent before the effect is produced.
\* What it throws is the verdict of the case.
Consume(w) ==
    /\ At(w, "permitted")
    /\ \/ (Late(w) \/ Permit(w) # "issued") /\ Verdict(w, "error") /\ UNCHANGED permit
       \/ ~Late(w) /\ Permit(w) = "issued" /\ SetPermit(w, "consumed") /\ Goto(w, "running")
    /\ UNCHANGED <<claim, ran, told>> /\ Written /\ Others

\* execArgv or httpRequest; an effect that fails or times out is an error.
Execute(w) ==
    /\ At(w, "running")
    /\ ran' = [ran EXCEPT ![GrantOf[w]][run[w].case] = @ + 1]
    /\ \E verdict \in {"passed", "failed", "error"} : Verdict(w, verdict)
    /\ UNCHANGED <<claim, permit, told>> /\ Written /\ Others

\* Evidence that differs from what an earlier grant left fails the run.  It never
\* does: the receipt of that grant has failed it before.
WriteEvidence(w) ==
    LET c == run[w].case
        verdict == run[w].verdict[c]
        ok == evidence[c] \in {"none", verdict}
    IN  /\ At(w, "evidence")
        /\ evidence' = (IF ok THEN [evidence EXCEPT ![c] = verdict] ELSE evidence)
        /\ run' = [run EXCEPT ![w].pc = IF ok THEN "case" ELSE "done",
                              ![w].case = IF ok THEN c + 1 ELSE c]
        /\ told' = (IF ok THEN told ELSE [told EXCEPT ![w] = "blocked"])
        /\ UNCHANGED <<receipts, files>> /\ Authority /\ Others
-----------------------------------------------------------------------------
(* The result files and the completion of the claim.                       *)

EndCases(w) ==
    /\ At(w, "case") /\ run[w].case \notin Cases /\ Goto(w, "files")
    /\ UNCHANGED told /\ Authority /\ Written /\ Others

\* Each names its run, its times or its grant, so no two runs write the same.
File(w) == [by |-> w, status |-> Aggregate(run[w].verdict)]
WriteFile(w) ==
    LET f == run[w].file
    IN  /\ At(w, "files") /\ f \in Files
        /\ \/ /\ Fits(files[f], File(w))
              /\ files' = [files EXCEPT ![f] = File(w)]
              /\ run' = [run EXCEPT ![w].file = f + 1] /\ UNCHANGED told
           \/ ~Fits(files[f], File(w)) /\ Block(w) /\ UNCHANGED files
        /\ UNCHANGED <<receipts, evidence>> /\ Authority /\ Others

\* completeReplay: of its own claim, over the execution.json on disk.
Complete(w) ==
    LET ok == Status(w) = "claimed" /\ ValidExecution
    IN  /\ At(w, "files") /\ run[w].file \notin Files
        /\ claim' = (IF ok THEN [claim EXCEPT ![GrantOf[w]] =
                                   [status |-> "completed", result |-> files[Execution].status]]
                     ELSE claim)
        /\ Goto(w, IF ok THEN "tell" ELSE "done")
        /\ told' = (IF ok THEN told ELSE [told EXCEPT ![w] = "blocked"])
        /\ UNCHANGED <<permit, ran>> /\ Written /\ Others

Tell(w) ==
    /\ At(w, "tell") /\ Goto(w, "done") /\ Answer(w, Aggregate(run[w].verdict))
    /\ Authority /\ Written /\ Others
-----------------------------------------------------------------------------
Busy(w) == run[w].pc \notin {"done", "crashed"}

\* A port fails: M.run catches it and answers "blocked".
Break(w) ==
    /\ Busy(w) /\ faults < MaxFaults
    /\ faults' = faults + 1 /\ Block(w)
    /\ UNCHANGED expired /\ Authority /\ Written

Crash(w) ==
    /\ Busy(w) /\ faults < MaxFaults
    /\ faults' = faults + 1 /\ Goto(w, "crashed")
    /\ UNCHANGED <<expired, told>> /\ Authority /\ Written

Expire(g) ==
    /\ g \notin expired /\ expired' = expired \union {g}
    /\ UNCHANGED <<run, told, faults>> /\ Authority /\ Written

Steps(w) ==
    \/ Check(w) \/ Guard(w) \/ LoadResult(w) \/ Skip(w) \/ Refuse(w) \/ Authorize(w)
    \/ WriteReceipt(w) \/ Consume(w) \/ Execute(w) \/ WriteEvidence(w) \/ EndCases(w) \/ WriteFile(w)
    \/ Complete(w) \/ Tell(w)

Next ==
    /\ UNCHANGED plan
    /\ \/ \E w \in Workers : Steps(w) \/ Break(w) \/ Crash(w)
       \/ \E g \in Grants : Expire(g)

Spec == Init /\ [][Next]_vars
\* A delivery that is being handled goes on.
FairSpec == Spec /\ \A w \in Workers : WF_vars(Steps(w) /\ UNCHANGED plan)
-----------------------------------------------------------------------------
\* Every variable keeps its range.
TypeOK ==
    /\ plan \in Plans
    /\ claim \in [Grants -> [status : {"none", "claimed", "completed"}, result : Statuses]]
    /\ permit \in [Grants -> [Cases -> {"none", "issued", "consumed", "denied"}]]
    /\ ran \in [Grants -> [Cases -> Nat]]
    /\ receipts \in [Cases -> ReceiptBodies \union {None}]
    /\ evidence \in [Cases -> Verdicts \union {"none"}]
    /\ files \in [Files -> FileBodies \union {None}]
    /\ run \in [Workers -> [pc : PCs, case : 1 .. CaseCount + 1, file : 1 .. 6,
                            verdict : [Cases -> Verdicts \union {"none"}]]]
    /\ told \in [Workers -> Statuses \union {"none"}]
    /\ expired \in SUBSET Grants
    /\ faults \in 0 .. MaxFaults

\* A grant has one executor, ever, and it holds the claim (replayGuard).
OneExecutor ==
    \A w \in Workers : run[w].pc \in Executing =>
        /\ Status(w) = "claimed"
        /\ \A v \in Workers : GrantOf[v] = GrantOf[w] /\ run[v].pc \in Executing => v = w

SpentBeforeRun ==
    \A g \in Grants, c \in Cases :
        ran[g][c] <= 1 /\ (ran[g][c] = 1 => permit[g][c] = "consumed")

\* The effect of a case is produced at most once under a grant, by the one delivery
\* that claimed it and only after its authorization was spent, whoever is
\* redelivered, fails or stops in between (replayGuard, consumeAuthorizedEffect).
SingleUse == OneExecutor /\ SpentBeforeRun

Whole(g, w) ==
    /\ GrantOf[w] = g
    /\ \A f \in Files : files[f] = [by |-> w, status |-> claim[g].result]

Stands(g) ==
    claim[g].status = "completed" =>
        /\ claim[g].result = Aggregate(evidence)
        /\ \A c \in Cases : evidence[c] # "none"
        /\ \E w \in Workers : Whole(g, w)

Truthful(w) ==
    told[w] \notin {"none", "blocked"} =>
        claim[GrantOf[w]] = [status |-> "completed", result |-> told[w]]

\* A completed claim has the files that one delivery under that grant wrote, all of
\* them, and its result is what the evidence on disk adds up to, also when another
\* grant has left files under the same root.  A verdict other than "blocked" is
\* answered only when the claim is completed with it: no two deliveries of a
\* request contradict each other (completeReplay, loadResult, M.run).
ResultsStand == (\A g \in Grants : Stands(g)) /\ (\A w \in Workers : Truthful(w))

\* Where a delivery is, and what it has on disk by then.
Placed(w) ==
    /\ run[w].pc \in {"asked", "checked"} => run[w].case = 1
    /\ run[w].pc \notin {"files", "tell", "done", "crashed"} => run[w].file = 1
    /\ run[w].pc \in {"allowed", "denied", "permitted", "running", "evidence"} =>
        run[w].case \in Cases
    /\ At(w, "running") =>
        Permit(w) = "consumed" /\ ran[GrantOf[w]][run[w].case] = 0
    /\ At(w, "evidence") => run[w].verdict[run[w].case] # "none"
    /\ run[w].pc \in {"files", "tell"} => run[w].case = CaseCount + 1
    /\ At(w, "tell") =>
        claim[GrantOf[w]] = [status |-> "completed", result |-> Aggregate(run[w].verdict)]
    /\ At(w, "replay") => Status(w) = "completed"

Kept(w) ==
    run[w].pc \in Executing =>
        /\ \A c \in Cases : c < run[w].case =>
            run[w].verdict[c] # "none" /\ evidence[c] = run[w].verdict[c]
        /\ At(w, "files") => \A f \in Files : f < run[w].file => files[f] = File(w)

\* Inductive: what a delivery has written is still there, as it wrote it, and its
\* claim is its own, when it completes it.
Inv ==
    /\ TypeOK /\ SingleUse /\ ResultsStand
    /\ \A w \in Workers : Placed(w) /\ Kept(w)

\* Why a claim may stay in progress for good: its delivery failed or stopped, its
\* window passed, the plan has a case that its capabilities do not cover, or another
\* grant was claimed for the same root.
Wedged(g) ==
    \/ \E c \in Cases : plan[c] = "ungranted"
    \/ faults > 0 \/ g \in expired \/ \E h \in Grants \ {g} : claim[h].status # "none"

\* Every delivery that is not cut off is answered, and a claim is completed unless
\* there is a reason it cannot be (M.run, result_payload).
Answered ==
    /\ \A w \in Workers : <>(told[w] # "none" \/ At(w, "crashed"))
    /\ \A g \in Grants : claim[g].status = "claimed" ~>
                            claim[g].status = "completed" \/ Wedged(g)
=============================================================================
