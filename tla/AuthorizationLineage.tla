------------------------- MODULE AuthorizationLineage -------------------------
(***************************************************************************)
(* The authorization lineage of a run in the generic host                  *)
(* (generic-host-runtime.js): six operations, asked for in this order,     *)
(* each of which makes a durable record and then an immutable receipt that *)
(* names the claim in the record and the receipt before it.  Every writer  *)
(* rewrites the chain from its first receipt, in two steps for each: the   *)
(* artifact store, then the file in the project.  Calls overlap, are       *)
(* repeated, and stop anywhere.                                            *)
(*                                                                         *)
(* Nothing is ever replaced, so what a writer does to a receipt it finds   *)
(* is no step: a writer steps where the chain ends.                        *)
(***************************************************************************)
EXTENDS Naturals

CONSTANTS
    Callers,    \* processes that serve a call, one at a time
    NoCaller,
    MaxBreaks   \* bound: calls that stop in the middle

ASSUME LineageAssumption == NoCaller \notin Callers /\ MaxBreaks \in Nat

\* The operations; the first four have a receipt of the same number.
AuthorizePorts == 1
ClaimPreauthorization == 2
VerifyGrant == 3
ReplayGuard == 4
RunCase == 5
CompleteReplay == 6

\* The receipts after the first four.
Completion == 5
Index == 6
Receipts == 1 .. Index

VARIABLES
    claims,     \* claims[k]: the claim id in the record of the k-th operation
    completed,  \* the replay record is completed
    stored,     \* stored[i]: the claim that the i-th receipt names, in the store
    files,      \* files[i]: the same in the file under authorization-lineage/
    leased,     \* the effect record of authorize-claim-ports
    permit,     \* the authorization record of the case is there
    consumed,   \* its consumption record is there
    effects,    \* how often the case was run
    asked,      \* the last operation answered with success
    claimants,  \* calls that were answered "claimed" by the replay guard
    call,       \* call[w]: what w serves, where it is, the last receipt it writes
    breaks

lineageVars ==
    <<claims, completed, stored, files, leased, permit, consumed, effects,
      asked, claimants, call, breaks>>

PCs == {"idle", "record", "complete", "write", "answer",
        "authorize", "check", "consume", "run"}
Idle == [op |-> 0, pc |-> "idle", goal |-> 0, mine |-> FALSE]

LineageInit ==
    /\ claims = [k \in 1 .. 4 |-> NoCaller] /\ completed = FALSE
    /\ stored = [i \in Receipts |-> NoCaller] /\ files = [i \in Receipts |-> NoCaller]
    /\ leased = FALSE /\ permit = FALSE /\ consumed = FALSE /\ effects = 0
    /\ asked = 0 /\ claimants = {}
    /\ call = [w \in Callers |-> Idle]
    /\ breaks = 0

At(w, pc) == call[w].pc = pc
Goto(w, pc) == call' = [call EXCEPT ![w].pc = pc]
End(w) == call' = [call EXCEPT ![w] = Idle]
WriteTo(w, goal, mine) ==
    call' = [call EXCEPT ![w].pc = "write", ![w].goal = goal, ![w].mine = mine]
HostRecords == UNCHANGED <<claims, completed, leased>>
Lineage == UNCHANGED <<stored, files>>
Effect == UNCHANGED <<permit, consumed, effects>>
Answers == UNCHANGED <<asked, claimants>>
-----------------------------------------------------------------------------
(* The records.                                                            *)

\* An operation is asked for when the one before it was answered.  The saga raises the
\* one it waits for again, and so may the last one still be, late; the request of an
\* execution comes back until its result is taken.
Ask(w, op) ==
    /\ At(w, "idle") /\ op <= asked + 1 /\ op \in {asked, asked + 1, ReplayGuard}
    /\ call' = [call EXCEPT ![w].op = op,
                            ![w].pc = IF op = RunCase THEN "authorize"
                                      ELSE IF op = VerifyGrant THEN "write" ELSE "record",
                            ![w].goal = IF op = VerifyGrant THEN op ELSE 0]
    /\ HostRecords /\ Lineage /\ Effect /\ Answers /\ UNCHANGED breaks

\* recordClaim of authorize-claim-ports and host-claim-preauthorization: the first
\* claim stays, and every caller goes on with the one that is there.
ClaimRecord(w) ==
    LET k == call[w].op
    IN  /\ At(w, "record") /\ k \in {AuthorizePorts, ClaimPreauthorization}
        /\ claims' = (IF claims[k] = NoCaller THEN [claims EXCEPT ![k] = w] ELSE claims)
        /\ WriteTo(w, k, FALSE)
        /\ UNCHANGED <<completed, leased, breaks>> /\ Lineage /\ Effect /\ Answers

\* replay-guard: whoever makes the record has the claim.  Over a completed one the
\* completion receipt and the index are written again.
GuardRecord(w) ==
    /\ At(w, "record") /\ call[w].op = ReplayGuard
    /\ claims' = (IF claims[4] = NoCaller THEN [claims EXCEPT ![4] = w] ELSE claims)
    /\ WriteTo(w, IF completed THEN Index ELSE ReplayGuard, claims[4] = NoCaller)
    /\ UNCHANGED <<completed, leased, breaks>> /\ Lineage /\ Effect /\ Answers

\* complete-replay: of a claim that was in progress when it looked.
LookUpClaim(w) ==
    /\ At(w, "record") /\ call[w].op = CompleteReplay
    /\ IF completed THEN End(w) ELSE Goto(w, "complete")
    /\ UNCHANGED breaks /\ HostRecords /\ Lineage /\ Effect /\ Answers

\* The store completes it, or finds it completed in the same way.
CompleteRecord(w) ==
    /\ At(w, "complete") /\ completed' = TRUE /\ WriteTo(w, Index, FALSE)
    /\ UNCHANGED <<claims, leased, breaks>> /\ Lineage /\ Effect /\ Answers

\* What a receipt names: the claim of its record, or of the execution.  The record of
\* a verification is derived from the grant and the same for every caller.
Verified == CHOOSE w \in Callers : TRUE
Named(i) == IF i <= 4 THEN claims[i] ELSE claims[4]

\* The receipts that it names by digest.
Rests(i) ==
    IF i = Index THEN 1 .. Completion
    ELSE IF i = ReplayGuard THEN {ClaimPreauthorization, VerifyGrant} ELSE {i - 1} \ {0}
-----------------------------------------------------------------------------
(* The receipts.                                                           *)

\* Where the chain ends for a writer, and whether it has got through.
Due(w, i) ==
    /\ At(w, "write") /\ i \in 1 .. call[w].goal
    /\ files[i] = NoCaller /\ \A j \in 1 .. (i - 1) : files[j] # NoCaller
Written(w) == At(w, "write") /\ \A i \in 1 .. call[w].goal : files[i] # NoCaller

\* recordImmutable of the verification, before its receipt.
VerifyRecord(w) ==
    /\ Due(w, VerifyGrant) /\ call[w].op = VerifyGrant /\ claims[VerifyGrant] = NoCaller
    /\ claims' = [claims EXCEPT ![VerifyGrant] = Verified]
    /\ UNCHANGED <<completed, leased, call, breaks>> /\ Lineage /\ Effect /\ Answers

\* durableProfileClaim, ... durableExecutionClaim, writeLineageIndex: the record that
\* a receipt is about must be there, for the last two a completed one.
Available(i) == Named(i) # NoCaller /\ (i \in {Completion, Index} => completed)

\* An artifact is not replaced.
Fits(i, value) == stored[i] \in {NoCaller, value}

\* Mutant: the receipt names the claim that the caller drew.
StoreOwn(w, i) ==
    LET ok == Available(i) /\ Fits(i, w)
    IN  /\ Due(w, i) /\ ~(ok /\ stored[i] = w)
        /\ ~(i = VerifyGrant /\ call[w].op = VerifyGrant /\ Named(i) = NoCaller)
        /\ stored' = (IF ok THEN [stored EXCEPT ![i] = w] ELSE stored)
        /\ IF ok THEN UNCHANGED call ELSE End(w)
        /\ UNCHANGED <<files, breaks>> /\ HostRecords /\ Effect /\ Answers

\* artifactWriteRaw into the store; the call fails over a receipt that differs, or
\* without the record.
Store(w, i) ==
    LET ok == Available(i) /\ Fits(i, Named(i))
    IN  /\ Due(w, i) /\ ~(ok /\ stored[i] = Named(i))
        /\ ~(i = VerifyGrant /\ call[w].op = VerifyGrant /\ Named(i) = NoCaller)
        /\ stored' = (IF ok THEN [stored EXCEPT ![i] = Named(i)] ELSE stored)
        /\ IF ok THEN UNCHANGED call ELSE End(w)
        /\ UNCHANGED <<files, breaks>> /\ HostRecords /\ Effect /\ Answers

\* materializeImmutableNoReplace, then the receipt is read back.  The next receipt
\* names this one.
Materialize(w, i) ==
    /\ Due(w, i) /\ stored[i] # NoCaller /\ stored[i] = Named(i)
    /\ files' = [files EXCEPT ![i] = stored[i]]
    /\ UNCHANGED <<stored, call, breaks>> /\ HostRecords /\ Effect /\ Answers

\* The port resource and the effect record of authorize-claim-ports.
Lease(w) ==
    /\ Written(w) /\ call[w].op = AuthorizePorts /\ leased' = TRUE /\ Goto(w, "answer")
    /\ UNCHANGED <<claims, completed, breaks>> /\ Lineage /\ Effect /\ Answers

\* The replay guard answers "claimed" to the one that made the record, and
\* "in-progress" to the others until it is completed.
Answer(w) ==
    LET op == call[w].op
        claimed == op = ReplayGuard /\ call[w].mine
        news == op # ReplayGuard \/ claimed
    IN  /\ At(w, "answer") \/ (Written(w) /\ op # AuthorizePorts)
        /\ End(w)
        /\ asked' = (IF news /\ op > asked THEN op ELSE asked)
        /\ claimants' = (IF claimed THEN claimants \union {w} ELSE claimants)
        /\ UNCHANGED breaks /\ HostRecords /\ Lineage /\ Effect
-----------------------------------------------------------------------------
(* The case.                                                               *)

InProgress == claims[4] # NoCaller /\ ~completed

\* authorizeEffect: a receipt is issued for the owner of a claim in progress, and
\* recorded; a denial is recorded nowhere.
Authorize(w) ==
    /\ At(w, "authorize")
    /\ permit' = (permit \/ InProgress)
    /\ Goto(w, IF InProgress THEN "check" ELSE "answer")
    /\ UNCHANGED <<consumed, effects, breaks>> /\ HostRecords /\ Lineage /\ Answers

\* exec-argv and http-request up to the consumption.
CheckPermit(w) ==
    /\ At(w, "check")
    /\ Goto(w, IF permit /\ InProgress THEN "consume" ELSE "answer")
    /\ UNCHANGED breaks /\ HostRecords /\ Lineage /\ Effect /\ Answers

\* recordClaim of the consumption: a replayed one fails the call, whose case is an
\* error for the executor.
Consume(w) ==
    /\ At(w, "consume")
    /\ consumed' = TRUE /\ Goto(w, IF consumed THEN "answer" ELSE "run")
    /\ UNCHANGED <<permit, effects, breaks>> /\ HostRecords /\ Lineage /\ Answers

Run(w) ==
    /\ At(w, "run") /\ effects' = effects + 1 /\ Goto(w, "answer")
    /\ UNCHANGED <<permit, consumed, breaks>> /\ HostRecords /\ Lineage /\ Answers
-----------------------------------------------------------------------------
Crash(w) ==
    /\ ~At(w, "idle") /\ breaks < MaxBreaks
    /\ breaks' = breaks + 1 /\ End(w)
    /\ HostRecords /\ Lineage /\ Effect /\ Answers

LineageSteps(w) ==
    \/ ClaimRecord(w) \/ GuardRecord(w) \/ LookUpClaim(w) \/ CompleteRecord(w)
    \/ VerifyRecord(w) \/ (\E i \in Receipts : Store(w, i) \/ Materialize(w, i))
    \/ Lease(w) \/ Answer(w)
    \/ Authorize(w) \/ CheckPermit(w) \/ Consume(w) \/ Run(w)

LineageNext == \E w \in Callers : LineageSteps(w) \/ Crash(w) \/ \E op \in 1 .. 6 : Ask(w, op)

LineageSpec == LineageInit /\ [][LineageNext]_lineageVars
-----------------------------------------------------------------------------
\* Every variable keeps its range.
LineageTypeOK ==
    /\ claims \in [1 .. 4 -> Callers \union {NoCaller}] /\ completed \in BOOLEAN
    /\ stored \in [Receipts -> Callers \union {NoCaller}]
    /\ files \in [Receipts -> Callers \union {NoCaller}]
    /\ leased \in BOOLEAN /\ permit \in BOOLEAN /\ consumed \in BOOLEAN
    /\ effects \in Nat /\ asked \in 0 .. 6 /\ claimants \subseteq Callers
    /\ call \in [Callers -> [op : 0 .. 6, pc : PCs, goal : 0 .. Index, mine : BOOLEAN]]
    /\ breaks \in 0 .. MaxBreaks

\* A receipt is of the claim that its record holds, it is there only with the file of
\* every receipt it rests on, and those of the end only for a completed claim.
ChainSound ==
    \A i \in Receipts :
        /\ files[i] \in {NoCaller, stored[i]}
        /\ stored[i] # NoCaller =>
            /\ stored[i] = Named(i) /\ (i >= Completion => completed)
            /\ \A j \in Rests(i) : files[j] # NoCaller

\* Nothing is done on an authority that is not on record by then: the ports are
\* leased after the profile receipt, and the case runs once, with its authorization
\* spent, after the receipt of the only claim that was handed out.
RunsOnRecord ==
    /\ leased => files[AuthorizePorts] # NoCaller
    /\ effects <= 1
    /\ effects = 1 => consumed /\ files[ReplayGuard] \in claimants
    /\ \A v, w \in claimants : v = w

\* However calls overlap, repeat and stop, the lineage a reader finds is true and
\* whole up to its last receipt, and it came before what it authorizes
\* (writeLineageReceipt, replay-guard, exec-argv).
LineageSound == ChainSound /\ RunsOnRecord

\* Which operation is where, how far its chain goes, and whose claim it has.
Called(w) ==
    LET op == call[w].op
        goal == call[w].goal
    IN  /\ At(w, "idle") => call[w] = Idle
        /\ op <= asked + 1
        /\ At(w, "record") => op \in {AuthorizePorts, ClaimPreauthorization, ReplayGuard, CompleteReplay}
        /\ At(w, "complete") => op = CompleteReplay
        /\ At(w, "write") => op # RunCase /\ goal >= (IF op = CompleteReplay THEN Index ELSE op)
        /\ At(w, "answer") => op \in {AuthorizePorts, RunCase}
        /\ call[w].pc \in {"authorize", "check", "consume", "run"} => op = RunCase
        /\ call[w].mine => At(w, "write") /\ op = ReplayGuard /\ claims[ReplayGuard] = w

\* The chain has no gap, and its receipts are of the claims on record.
ChainWhole ==
    \A i \in Receipts :
        /\ files[i] \in {NoCaller, stored[i]}
        /\ stored[i] # NoCaller =>
            /\ stored[i] = Named(i) /\ (i >= Completion => completed)
            /\ \A j \in 1 .. (i - 1) : files[j] # NoCaller

\* The claim of the replay guard is handed out once, before a case can be asked for,
\* and whoever is about to run the case is the only one, ever.
GuardHeld ==
    /\ claimants \subseteq {claims[ReplayGuard]} \ {NoCaller}
    /\ asked >= ReplayGuard => files[ReplayGuard] \in claimants
    /\ leased => files[AuthorizePorts] # NoCaller
    /\ effects <= 1 /\ (effects = 1 => consumed /\ files[ReplayGuard] \in claimants)
    /\ \A w \in Callers : At(w, "run") =>
        /\ consumed /\ effects = 0
        /\ \A v \in Callers : At(v, "run") => v = w

\* Inductive.
LineageInv == LineageTypeOK /\ (\A w \in Callers : Called(w)) /\ ChainWhole /\ GuardHeld

\* A completed execution has its index in the end, whoever stopped in between, when
\* the request is delivered again (replay-guard over a completed claim).
LineageCompletes == completed ~> files[Index] # NoCaller
=============================================================================
